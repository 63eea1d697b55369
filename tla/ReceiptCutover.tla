--------------------------- MODULE ReceiptCutover ---------------------------
(***************************************************************************)
(* The move of card receipts from the public media directory to private    *)
(* storage (scripts/migrate_private_receipts.py), run beside the live      *)
(* shop: a dry run writes a manifest, --apply works through its entries,   *)
(* --verify reports whether the move is complete.  Any of them may be      *)
(* started again, run twice at once, or die at any point; meanwhile        *)
(* customers replace their receipts, and restore_media.py puts files that  *)
(* Telegram still has back into the public directory.                      *)
(*                                                                         *)
(* A file is its content; a content type always follows its key, and the   *)
(* hash of a file is read in the step that acts on it.  A manifest that is *)
(* malformed, readable by others or made for other roots is refused before *)
(* it changes anything and is not modelled.                                *)
(*                                                                         *)
(* A definition marked Mutant is a plausible bug in the definition that    *)
(* follows it.  No action uses it: it shows that the properties can fail.  *)
(***************************************************************************)
EXTENDS Naturals, FiniteSets

CONSTANTS
    Orders,         \* ids of orders
    Contents,       \* what a receipt file may hold
    MaxFiles,       \* bound: how many private storage keys are ever drawn
    Runs,           \* runs of the script that overlap
    Legacy,         \* what an order may say of its receipt before the move
    NoFile, NoManifest

\* Key 0 is no key.  url: no receipt_url ("none"), one this script
\* recognises ("own"), or one it does not ("foreign"); telegram: what Telegram
\* keeps under receipt_file_id.
Key == 1 .. MaxFiles
File == Contents \cup {NoFile}
ReceiptRow == [key: Key \cup {0}, url: {"none", "own", "foreign"}, telegram: File]

\* A receipt that is not private yet is, in public and at Telegram, what the
\* customer sent: whatever attached it wrote all of these at once.
ASSUME CutoverAssumption ==
    /\ Orders \subseteq Nat \ {0} /\ IsFiniteSet(Orders)
    /\ MaxFiles \in Nat /\ NoFile \notin Contents
    /\ Legacy \subseteq [row: ReceiptRow, public: File, sent: File]
    /\ \A l \in Legacy : l.row.key = 0 => {l.public, l.row.telegram} \subseteq {NoFile, l.sent}

VARIABLES
    row,        \* orders: the receipt columns
    public,     \* MEDIA_ROOT/receipts: order -> file
    private,    \* PRIVATE_MEDIA_ROOT: key -> file
    drawn,      \* storage keys drawn so far
    manifest,   \* the manifest the last dry run saved
    cutover,    \* what each run of the script is doing
    evidence    \* history: the receipt the customer sent last

cutoverVars == <<row, public, private, drawn, manifest, cutover, evidence>>

NoRun == [at |-> "rest", todo |-> {}, entry |-> {}, held |-> {}]
Stands(r, step) == cutover[r].at = step
RunBecomes(r, state) == cutover' = [cutover EXCEPT ![r] = state]

CutoverInit ==
    /\ \E legacy \in [Orders -> Legacy] :
        /\ row = [o \in Orders |-> legacy[o].row]
        /\ public = [o \in Orders |-> legacy[o].public]
        /\ evidence = [o \in Orders |-> legacy[o].sent]
        /\ drawn = Cardinality({o \in Orders : legacy[o].row.key # 0})
        /\ {legacy[o].row.key : o \in Orders} \ {0} = 1 .. drawn
        /\ private \in [Key -> File]
        /\ \A k \in Key : private[k] = NoFile <=> k > drawn
        /\ \A o \in Orders : row[o].key # 0 => private[row[o].key] = evidence[o]
    /\ manifest = NoManifest
    /\ cutover = [r \in Runs |-> NoRun]

-----------------------------------------------------------------------------
(* The dry run. *)

\* _relevant_orders_query: a row that says anything about a receipt.
Relevant(o) == row[o].key # 0 \/ row[o].url # "none" \/ row[o].telegram # NoFile

\* build_manifest, for an order whose receipt is private already: an entry
\* is left to do only if the row still points to an equal public copy.
PrivateFile(o) == IF row[o].key = 0 THEN NoFile ELSE private[row[o].key]
ResolvedPrivate(o) ==
    /\ PrivateFile(o) # NoFile
    /\ row[o].url # "foreign"
    /\ row[o].url = "own" => public[o] = PrivateFile(o)

ResolvedPublic(o) == row[o].key = 0 /\ row[o].url = "own" /\ public[o] # NoFile

\* Every order to be moved gets a key nobody has used.
DryRun(r) ==
    LET moves == {o \in Orders : ResolvedPublic(o)}
        kept(orders) ==
            {[order |-> o, key |-> row[o].key, content |-> PrivateFile(o)] : o \in orders}
        new(o) == drawn + Cardinality({q \in moves : q <= o})
    IN  /\ Stands(r, "rest")
        /\ drawn + Cardinality(moves) <= MaxFiles
        /\ drawn' = drawn + Cardinality(moves)
        /\ manifest' =
            [entries |->
                {[order |-> o, key |-> new(o), content |-> public[o]] : o \in moves}
                \cup kept({o \in Orders : ResolvedPrivate(o) /\ row[o].url = "own"}),
             existing |-> kept({o \in Orders : PrivateFile(o) # NoFile}),
             unresolved |-> {o \in Orders : /\ Relevant(o)
                                            /\ ~ResolvedPrivate(o)
                                            /\ ~ResolvedPublic(o)}]
        /\ UNCHANGED <<row, public, private, cutover, evidence>>

-----------------------------------------------------------------------------
(* apply_manifest.  An order stays locked from its first read to the next  *)
(* commit, which for an entry that needs none is that of a later entry.    *)

ReceiptRowFree(o) == \A r \in Runs : o \notin cutover[r].held

BeginApply(r) ==
    /\ Stands(r, "rest") /\ manifest # NoManifest /\ manifest.entries # {}
    /\ RunBecomes(r, [NoRun EXCEPT !.at = "next", !.todo = manifest.entries])
    /\ UNCHANGED <<row, public, private, drawn, manifest, evidence>>

\* The run ends, with an error or without: its transaction is rolled back.
Leave(r) ==
    /\ RunBecomes(r, NoRun)
    /\ UNCHANGED <<row, public, private, drawn, manifest, evidence>>

Turn(r, e) ==
    /\ Stands(r, "next") /\ e \in cutover[r].todo
    /\ \A f \in cutover[r].todo : e.order <= f.order
    /\ e.order \in cutover[r].held \/ ReceiptRowFree(e.order)

Take(r, e, step, held) ==
    RunBecomes(r, [at |-> step, todo |-> cutover[r].todo \ {e}, entry |-> {e}, held |-> held])

SourceUnchanged(e) == public[e.order] \in {NoFile, e.content}

\* The row has the entry's private reference: the public one may be left.
Migrated(e) == row[e.order].key = e.key /\ private[e.key] = e.content
UrlLeft(e) == row[e.order].url = "own" /\ SourceUnchanged(e)
AsPlanned(e) == row[e.order].key = 0 /\ UrlLeft(e)

DropUrl(r, e) ==
    /\ Turn(r, e) /\ Migrated(e) /\ UrlLeft(e)
    /\ row' = [row EXCEPT ![e.order].url = "none"]
    /\ Take(r, e, "remove", {})
    /\ UNCHANGED <<public, private, drawn, manifest, evidence>>

AlreadyMigrated(r, e) ==
    /\ Turn(r, e) /\ Migrated(e) /\ row[e.order].url = "none"
    /\ Take(r, e, "remove", cutover[r].held \cup {e.order})
    /\ UNCHANGED <<row, public, private, drawn, manifest, evidence>>

LockEntry(r, e) ==
    /\ Turn(r, e) /\ AsPlanned(e)
    /\ Take(r, e, "copy", cutover[r].held \cup {e.order})
    /\ UNCHANGED <<row, public, private, drawn, manifest, evidence>>

\* _copy_immutable: a destination left by an earlier run is taken as it is
\* if it has the right bytes.
CopySucceeds(e) ==
    IF private[e.key] = NoFile THEN public[e.order] = e.content
                               ELSE private[e.key] = e.content

\* Mutant: the file is moved there.
Move(r, e) ==
    /\ Stands(r, "copy") /\ e \in cutover[r].entry
    /\ CopySucceeds(e)
    /\ private' = [private EXCEPT ![e.key] = IF @ = NoFile THEN public[e.order] ELSE @]
    /\ public' = [public EXCEPT ![e.order] = NoFile]
    /\ RunBecomes(r, [cutover[r] EXCEPT !.at = "commit"])
    /\ UNCHANGED <<row, drawn, manifest, evidence>>
Copy(r, e) ==
    /\ Stands(r, "copy") /\ e \in cutover[r].entry
    /\ CopySucceeds(e)
    /\ private' = [private EXCEPT ![e.key] = IF @ = NoFile THEN public[e.order] ELSE @]
    /\ RunBecomes(r, [cutover[r] EXCEPT !.at = "commit"])
    /\ UNCHANGED <<row, public, drawn, manifest, evidence>>

CommitReference(r, e) ==
    /\ Stands(r, "commit") /\ e \in cutover[r].entry
    /\ row' = [row EXCEPT ![e.order].key = e.key, ![e.order].url = "none"]
    /\ RunBecomes(r, [cutover[r] EXCEPT !.at = "remove", !.held = {}])
    /\ UNCHANGED <<public, private, drawn, manifest, evidence>>

\* verify_database_reference reads the order in the session that has it in
\* memory already, and so compares what the run itself has just written; only
\* the comparison of the private file is with something the run does not know.
RemoveSource(r, e) ==
    /\ Stands(r, "remove") /\ e \in cutover[r].entry
    /\ private[e.key] = e.content /\ SourceUnchanged(e)
    /\ public' = [public EXCEPT ![e.order] = NoFile]
    /\ RunBecomes(r, [cutover[r] EXCEPT !.at = "next", !.entry = {}])
    /\ UNCHANGED <<row, private, drawn, manifest, evidence>>

\* "Order receipt reference changed after manifest creation", and the like.
Refused(r, e) ==
    \/ /\ Turn(r, e) /\ ~AsPlanned(e)
       /\ ~(Migrated(e) /\ (row[e.order].url = "none" \/ UrlLeft(e)))
    \/ Stands(r, "copy") /\ e \in cutover[r].entry /\ ~CopySucceeds(e)
    \/ /\ Stands(r, "remove") /\ e \in cutover[r].entry
       /\ private[e.key] # e.content \/ ~SourceUnchanged(e)

RefuseEntry(r, e) == Refused(r, e) /\ Leave(r)

FinishApply(r) == Stands(r, "next") /\ cutover[r].todo = {} /\ Leave(r)

Crash(r) == ~Stands(r, "rest") /\ Leave(r)

-----------------------------------------------------------------------------
(* verify_cutover: the orders and private files, then the public directory.*)

Expected(o) == {e \in manifest.existing \cup manifest.entries : e.order = o}

\* expected.update: an entry takes the place of an existing file's record.
Planned(o) ==
    IF \E e \in manifest.entries : e.order = o
    THEN {e \in manifest.entries : e.order = o} ELSE Expected(o)

\* Mutant: only the orders the manifest names are looked at.
UnresolvedInManifest(withManifest) ==
    {o \in Orders : /\ withManifest
                    /\ \E e \in Expected(o) : row[o].key # e.key \/ row[o].url # "none"}
Unresolved(withManifest) ==
    {o \in Orders : Relevant(o) /\ (row[o].url # "none" \/ PrivateFile(o) = NoFile)}
    \cup IF ~withManifest THEN {}
         ELSE manifest.unresolved \cup
              {o \in Orders :
                 \/ \E e \in Planned(o) :
                        PrivateFile(o) # NoFile /\ PrivateFile(o) # e.content
                 \/ \E e \in manifest.existing : e.order = o /\ row[o].key # e.key
                 \/ \E e \in manifest.entries :
                        e.order = o /\ (row[o].key # e.key \/ row[o].url # "none")}

VerifyRows(r) ==
    /\ Stands(r, "rest")
    /\ \E withManifest \in IF manifest = NoManifest THEN {FALSE} ELSE BOOLEAN :
        RunBecomes(r, [NoRun EXCEPT !.at = IF Unresolved(withManifest) = {}
                                        THEN "count" ELSE "failed"])
    /\ UNCHANGED <<row, public, private, drawn, manifest, evidence>>

NoPublicReceipts == \A o \in Orders : public[o] = NoFile

VerifySucceeds(r) == Stands(r, "count") /\ NoPublicReceipts /\ Leave(r)

VerifyFails(r) ==
    /\ Stands(r, "failed") \/ (Stands(r, "count") /\ ~NoPublicReceipts)
    /\ Leave(r)

-----------------------------------------------------------------------------
(* The live shop and restore_media.py. *)

\* attach_card_transfer_receipt, from the bot or from the web application.
ReplaceReceipt(o, c) ==
    /\ ReceiptRowFree(o) /\ drawn < MaxFiles
    /\ drawn' = drawn + 1
    /\ private' = [private EXCEPT ![drawn + 1] = c]
    /\ \E telegram \in {c, NoFile} :
        row' = [row EXCEPT ![o] = [key |-> drawn + 1, url |-> "none", telegram |-> telegram]]
    /\ evidence' = [evidence EXCEPT ![o] = c]
    /\ UNCHANGED <<public, manifest, cutover>>

\* restore_receipts, for one order; --force overwrites what is there.
RestoreReceipt(o) ==
    /\ row[o].telegram # NoFile
    /\ public' = [public EXCEPT ![o] = row[o].telegram]
    /\ UNCHANGED <<row, private, drawn, manifest, cutover, evidence>>

CutoverNext ==
    \/ \E r \in Runs :
        \/ DryRun(r) \/ BeginApply(r) \/ FinishApply(r) \/ Crash(r)
        \/ VerifyRows(r) \/ VerifySucceeds(r) \/ VerifyFails(r)
        \/ \E e \in cutover[r].todo \cup cutover[r].entry :
            \/ DropUrl(r, e) \/ AlreadyMigrated(r, e) \/ LockEntry(r, e)
            \/ Copy(r, e) \/ CommitReference(r, e) \/ RemoveSource(r, e)
            \/ RefuseEntry(r, e)
    \/ \E o \in Orders : RestoreReceipt(o) \/ \E c \in Contents : ReplaceReceipt(o, c)

CutoverSpec == CutoverInit /\ [][CutoverNext]_cutoverVars

-----------------------------------------------------------------------------
(* Properties. *)

\* The row leads to a file that holds what the customer sent last.
Reachable(o) ==
    \/ row[o].key # 0 /\ PrivateFile(o) = evidence[o]
    \/ row[o].key = 0 /\ row[o].url = "own" /\ public[o] = evidence[o]

\* Whatever runs overlap and wherever they die, a receipt that could be
\* shown to an administrator can still be shown, unless the customer sends
\* another: "no unverified public source was removed".
ReceiptsKept ==
    [][\A o \in Orders : Reachable(o) /\ evidence[o] # NoFile => Reachable(o)']_cutoverVars

\* When --verify reports success, no receipt is public, and every receipt an
\* order refers to is private: the one the customer sent last.
VerifiedIsPrivate ==
    [][\A r \in Runs : VerifySucceeds(r) =>
        /\ NoPublicReceipts'
        /\ \A o \in Orders : Relevant(o) => row[o].url = "none" /\ Reachable(o)]_cutoverVars
=============================================================================
