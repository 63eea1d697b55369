---------------------------- MODULE SalesLedger ----------------------------
(***************************************************************************)
(* What the purchase path promises, with carts, locks, transactions,       *)
(* retries and forms out of sight: a shelf of products and a book of       *)
(* sales.  A sale enters the book whole and once per customer key, takes   *)
(* its units off the shelf in the same instant, and gives them back at     *)
(* most once.  Purchase implements it (Purchase!Ledger!Spec).              *)
(***************************************************************************)
EXTENDS Integers

CONSTANTS Products, Sales, Buyers, Keys, NoKey, Stock, Blank, Bills, NoQuote

VARIABLES shelf, gone, book

ledgerVars == <<shelf, gone, book>>

Sale == [state: {"open", "closed", "returned"}, buyer: Buyers,
         key: Keys \cup {NoKey}, accepted: Bills \cup {NoQuote}, charged: Bills,
         units: [Products -> Nat], counted: BOOLEAN]

LedgerInit ==
    /\ shelf = Stock
    /\ gone = {}
    /\ book = [n \in Sales |-> Blank]

FreshKey(s) ==
    s.key # NoKey =>
        \A n \in Sales : book[n] # Blank => ~(book[n].buyer = s.buyer /\ book[n].key = s.key)

\* A sale is for what its buyer accepted, of products still sold here.
Sell(n, s) ==
    /\ book[n] = Blank /\ FreshKey(s)
    /\ s.state = "open" /\ s.accepted \in {NoQuote, s.charged}
    /\ \A p \in Products : s.units[p] > 0 => p \notin gone
    /\ s.counted => \A p \in Products : s.units[p] <= shelf[p]
    /\ book' = [book EXCEPT ![n] = s]
    /\ shelf' = [p \in Products |-> IF s.counted THEN shelf[p] - s.units[p] ELSE shelf[p]]
    /\ UNCHANGED gone

Return(n) ==
    /\ book[n] # Blank /\ book[n].state = "open"
    /\ book' = [book EXCEPT ![n].state = "returned"]
    /\ shelf' = [p \in Products |->
                    IF book[n].counted /\ p \notin gone
                    THEN shelf[p] + book[n].units[p] ELSE shelf[p]]
    /\ UNCHANGED gone

Close(n) ==
    /\ book[n] # Blank /\ book[n].state = "open"
    /\ book' = [book EXCEPT ![n].state = "closed"]
    /\ UNCHANGED <<shelf, gone>>

\* The owner counts the shelf again, or takes a product out of the range.
Count(p, units) ==
    /\ p \notin gone /\ units >= 0
    /\ shelf' = [shelf EXCEPT ![p] = units]
    /\ UNCHANGED <<gone, book>>

Withdraw(p) ==
    /\ p \notin gone
    /\ gone' = gone \cup {p}
    /\ UNCHANGED <<shelf, book>>

LedgerNext ==
    \/ \E n \in Sales :
        \/ book'[n] # Blank /\ Sell(n, book'[n])
        \/ Return(n) \/ Close(n)
    \/ \E p \in Products : Count(p, shelf'[p]) \/ Withdraw(p)

LedgerSpec == LedgerInit /\ [][LedgerNext]_ledgerVars

=============================================================================
