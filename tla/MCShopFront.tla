----------------------------- MODULE MCShopFront ----------------------------
(***************************************************************************)
(* Small instances for TLC of what customers meet, and of the locks of     *)
(* their requests: components that share no state in the model, each       *)
(* explored with the others at rest.                                       *)
(***************************************************************************)
EXTENDS AddressBook, Campaigns, CheckoutDialogue, FrontDoor, Promotion,
    RowLocks, Storefront, TLC

\* Sets of different components have values in common; x1 and x2 are two of
\* everything that is at work at once, x3 is a third database session.
CONSTANTS x1, x2, x3, c1, c2, z1, z2, z3, f1, f2

VARIABLE part       \* the component that is explored

frontVars == <<vars, dialogueVars, campaignVars, storefrontVars, bookVars,
    promotionVars, doorVars, part>>

OwnerOfAll == [o \in Orders |-> c1]
BothProducts == [o \in Orders |-> Products]
EveryKind == DOMAIN Programs

FrontInit ==
    /\ part \in {"locks", "dialogue", "campaigns", "storefront", "addresses",
                 "promotion", "door"}
    /\ Init /\ DialogueInit /\ CampaignsInit /\ StorefrontInit /\ BookInit /\ PromotionInit
    /\ DoorInit /\ (part # "door" => joined)
    /\ tariff = f1   \* one of two alike

LockSteps ==
    /\ part = "locks" /\ Next
    /\ UNCHANGED <<dialogueVars, campaignVars, storefrontVars, bookVars,
                   promotionVars, doorVars>>
DialogueSteps ==
    /\ part = "dialogue" /\ DialogueNext
    /\ UNCHANGED <<vars, campaignVars, storefrontVars, bookVars, promotionVars, doorVars>>
CampaignSteps ==
    /\ part = "campaigns" /\ CampaignsNext
    /\ UNCHANGED <<vars, dialogueVars, storefrontVars, bookVars, promotionVars, doorVars>>
StorefrontSteps ==
    /\ part = "storefront" /\ StorefrontNext
    /\ UNCHANGED <<vars, dialogueVars, campaignVars, bookVars, promotionVars, doorVars>>
BookSteps ==
    /\ part = "addresses" /\ BookNext
    /\ UNCHANGED <<vars, dialogueVars, campaignVars, storefrontVars, promotionVars, doorVars>>
PromotionSteps ==
    /\ part = "promotion" /\ PromotionNext
    /\ UNCHANGED <<vars, dialogueVars, campaignVars, storefrontVars, bookVars, doorVars>>
DoorSteps ==
    /\ part = "door" /\ DoorNext
    /\ UNCHANGED <<vars, dialogueVars, campaignVars, storefrontVars, bookVars,
                   promotionVars>>

FrontNext ==
    /\ \/ LockSteps \/ DialogueSteps \/ CampaignSteps \/ StorefrontSteps
       \/ BookSteps \/ PromotionSteps \/ DoorSteps
    /\ UNCHANGED part

FrontSpec == FrontInit /\ [][FrontNext]_frontVars

Same == Permutations({x1, x2})
=============================================================================
