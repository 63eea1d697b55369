----------------------------- MODULE MCBackOffice ---------------------------
(***************************************************************************)
(* Small instances for TLC of what administrators and operators work with: *)
(* components that share no state, each explored with the others at rest.  *)
(***************************************************************************)
EXTENDS AdminTeam, BroadcastDesk, Catalog, LoginCodes, OrderDesk, ReceiptCutover,
    StoreSettings, TLC

\* Sets of different components have values in common; x1 and x2 are the
\* two of everything that is at work at once.
CONSTANTS x1, x2, y1, y2, z1, z2, z3, f1, f2

VARIABLE part       \* the component that is explored

officeVars == <<teamVars, catalogVars, codeVars, deskVars, cutoverVars,
    settingsVars, deskOfBroadcastVars, part>>

\* An order may have a public receipt, with or without a file that Telegram
\* keeps, a file at Telegram alone, a receipt that is private already and was
\* not removed from where it was, or none.
NoReceiptYet ==
    [row |-> [key |-> 0, url |-> "none", telegram |-> NoFile], public |-> NoFile, sent |-> NoFile]
BeforeTheMove ==
    {NoReceiptYet,
     [NoReceiptYet EXCEPT !.row.telegram = f1, !.sent = f1],
     [row |-> [key |-> 0, url |-> "own", telegram |-> NoFile], public |-> f1, sent |-> f1],
     [row |-> [key |-> 0, url |-> "own", telegram |-> f1], public |-> f1, sent |-> f1],
     [row |-> [key |-> 1, url |-> "own", telegram |-> NoFile], public |-> f1, sent |-> f1]}

OfficeInit ==
    /\ part \in {"team", "catalog", "administrators' codes", "customers' codes",
                 "desk", "cutover", "settings", "broadcasts by bot", "broadcasts by web"}
    /\ TeamInit /\ CatalogInit /\ CodesInit /\ DeskInit /\ CutoverInit /\ SettingsInit
    /\ BroadcastDeskInit /\ reach = [g \in Targets |-> {}]   \* it changes at any time
    /\ \A f \in Fields : setting[f] = f1   \* one of two alike
    /\ IF part = "cutover" THEN row[1].key <= row[2].key   \* the orders are alike
       ELSE \A o \in Orders : row[o] = NoReceiptYet.row

TeamSteps ==
    /\ part = "team" /\ TeamNext
    /\ UNCHANGED <<catalogVars, codeVars, deskVars, cutoverVars, settingsVars,
                   deskOfBroadcastVars>>
CatalogSteps ==
    /\ part = "catalog" /\ CatalogNext
    /\ Cardinality({c \in Existing : ~category[c].active})' <= 1
    /\ Cardinality({e \in Editors : IsAt(e, "form")})' <= 1
    /\ UNCHANGED <<teamVars, codeVars, deskVars, cutoverVars, settingsVars,
                   deskOfBroadcastVars>>
CodeSteps ==
    /\ \/ part = "administrators' codes" /\ AdminCodesNext /\ Cardinality(slot') <= 1
       \/ part = "customers' codes" /\ CustomerCodesNext
    /\ UNCHANGED <<teamVars, catalogVars, deskVars, cutoverVars, settingsVars,
                   deskOfBroadcastVars>>
DeskSteps ==
    /\ part = "desk" /\ DeskNext
    /\ asked' # <<>> => asked'[1].order = 1   \* the orders are alike
    /\ UNCHANGED <<teamVars, catalogVars, codeVars, cutoverVars, settingsVars,
                   deskOfBroadcastVars>>
CutoverSteps ==
    /\ part = "cutover" /\ CutoverNext
    /\ UNCHANGED <<teamVars, catalogVars, codeVars, deskVars, settingsVars,
                   deskOfBroadcastVars>>
SettingsSteps ==
    /\ part = "settings" /\ SettingsNext
    /\ UNCHANGED <<teamVars, catalogVars, codeVars, deskVars, cutoverVars,
                   deskOfBroadcastVars>>
BroadcastSteps ==
    /\ \/ /\ part = "broadcasts by bot" /\ ChatNext
          /\ promise # <<>> => stage' \notin {"caption", "link"}
       \/ part = "broadcasts by web" /\ PanelNext
    /\ UNCHANGED <<teamVars, catalogVars, codeVars, deskVars, cutoverVars, settingsVars>>

OfficeNext ==
    /\ \/ TeamSteps \/ CatalogSteps \/ CodeSteps \/ DeskSteps
       \/ CutoverSteps \/ SettingsSteps \/ BroadcastSteps
    /\ UNCHANGED part

OfficeSpec == OfficeInit /\ [][OfficeNext]_officeVars

Same == Permutations({x1, x2}) \cup Permutations({z1, z2})
=============================================================================
