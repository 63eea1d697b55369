---------------------------- MODULE AddressBook -----------------------------
(***************************************************************************)
(* The addresses of one customer (services/address_service.py,             *)
(* api/v1/addresses.py).  Every request that writes locks the customer's   *)
(* row first, then looks at the addresses, and commits after it has        *)
(* answered; customers share nothing.  The unique index on default         *)
(* addresses is left out: the model shows that it never has to refuse.     *)
(*                                                                         *)
(* A definition marked Mutant is a plausible bug in the definition that    *)
(* follows it.  No action uses it: it shows that the properties can fail.  *)
(***************************************************************************)
EXTENDS FiniteSets, Naturals

CONSTANTS
    Entries,        \* ids of addresses
    Clients,        \* requests of the customer handled at once
    Limit,          \* MAX_ADDRESSES_PER_USER
    NoEntry, NoRequest

ASSUME BookAssumption == Limit \in Nat \ {0} /\ NoEntry \notin Entries

VARIABLES
    book,           \* addresses: the ids there are, and those that are default
    request,        \* what each request is to do, and the book it has read
    used            \* ids the sequence has given out

bookVars == <<book, request, used>>

EmptyBook == [all |-> {}, default |-> {}]

BookInit ==
    /\ book = EmptyBook
    /\ request = [c \in Clients |-> NoRequest]
    /\ used = {}

Requested(c, at) == request[c] # NoRequest /\ request[c].at = at
RequestEnds(c) == request' = [request EXCEPT ![c] = NoRequest]

AskFor(c, op, i) ==
    /\ request[c] = NoRequest
    /\ request' = [request EXCEPT ![c] =
                    [at |-> "asked", op |-> op, entry |-> i, read |-> EmptyBook]]
    /\ UNCHANGED <<book, used>>

\* Mutant: only the rows of addresses are locked.
OwnerNotLocked(c) ==
    \A d \in Clients : Requested(d, "ready") => request[d].entry # request[c].entry
OwnerFree(c) == \A d \in Clients : ~Requested(d, "ready")

\* AddressLimitExceededError, NotFoundError
Possible(op, i) == IF op = "create" THEN Cardinality(book.all) < Limit ELSE i \in book.all

\* _lock_owner, and the SELECTs.
ReadBook(c) ==
    /\ Requested(c, "asked") /\ OwnerFree(c)
    /\ IF Possible(request[c].op, request[c].entry)
       THEN request' = [request EXCEPT ![c].at = "ready", ![c].read = book]
       ELSE RequestEnds(c)
    /\ UNCHANGED <<book, used>>

\* What the request writes, from what it has read.
CommitCreate(c, i) ==
    /\ Requested(c, "ready") /\ request[c].op = "create" /\ i \notin used
    /\ used' = used \cup {i}
    /\ book' = [all |-> book.all \cup {i},
                default |-> IF request[c].read.all = {} THEN book.default \cup {i}
                            ELSE book.default]
    /\ RequestEnds(c)

CommitDelete(c) ==
    LET i == request[c].entry
    IN  /\ Requested(c, "ready") /\ request[c].op = "delete"
        /\ book' = [all |-> book.all \ {i}, default |-> book.default \ {i}]
        /\ RequestEnds(c)
        /\ UNCHANGED used

CommitDefault(c) ==
    LET i == request[c].entry
    IN  /\ Requested(c, "ready") /\ request[c].op = "default"
        /\ book' = [book EXCEPT !.default = (@ \ request[c].read.default) \cup {i}]
        /\ RequestEnds(c)
        /\ UNCHANGED used

\* The request is cut off, or only other fields of an address are written.
RequestLeavesNoTrace(c) ==
    /\ request[c] # NoRequest
    /\ RequestEnds(c)
    /\ UNCHANGED <<book, used>>

BookNext ==
    \E c \in Clients :
        \/ \E op \in {"create", "delete", "default"}, i \in Entries \cup {NoEntry} :
            (op = "create" <=> i = NoEntry) /\ AskFor(c, op, i)
        \/ ReadBook(c) \/ CommitDelete(c) \/ CommitDefault(c) \/ RequestLeavesNoTrace(c)
        \/ \E i \in Entries : CommitCreate(c, i)

BookSpec == BookInit /\ [][BookNext]_bookVars

-----------------------------------------------------------------------------
(* Properties. *)

\* However many requests of a customer overlap, there are no more addresses
\* than the limit, at most one of them is the default, and a default address
\* is one that exists.
AddressesInOrder ==
    /\ Cardinality(book.all) <= Limit
    /\ Cardinality(book.default) <= 1
    /\ book.default \subseteq book.all
=============================================================================
