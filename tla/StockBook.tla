------------------------------- MODULE StockBook -------------------------------
(***************************************************************************)
(* What the stock endpoints promise, with every request taking effect in   *)
(* one atomic step: a warehouse book with one page per product.  A page    *)
(* shows the balance, the piece count and the signed kilograms of every    *)
(* movement entered so far.  There are no sessions, locks or stale copies  *)
(* here; StockLedger is shown to implement this module.                    *)
(***************************************************************************)
EXTENDS Integers, Sequences

CONSTANTS Products, NoCount, MaxStock, MaxCount, AllowNegativeStock

VARIABLES
  status,   \* of each page: "absent", "live" or "deleted"
  balance,  \* kilograms in stock
  count,    \* pieces in stock, or NoCount
  entries   \* signed kilograms of every movement, oldest first

book == <<status, balance, count, entries>>

Balances == (-MaxStock) .. MaxStock
Pieces == (0 .. MaxCount) \cup {NoCount}

Init == /\ status = [p \in Products |-> "absent"]
        /\ balance = [p \in Products |-> 0]
        /\ count = [p \in Products |-> NoCount]
        /\ entries = [p \in Products |-> <<>>]

\* A product is entered with an opening balance, which is its first entry.
Open(p, opening, pieces) ==
  /\ status[p] = "absent"
  /\ status' = [status EXCEPT ![p] = "live"]
  /\ balance' = [balance EXCEPT ![p] = opening]
  /\ count' = [count EXCEPT ![p] = pieces]
  /\ entries' = [entries EXCEPT ![p] = IF opening > 0 THEN <<opening>> ELSE <<>>]

\* Kilograms move, against the balance of this very moment; pieces may move
\* with them, an unknown count standing for none.
Recounted(old, pieces) ==
  IF pieces = NoCount THEN old
  ELSE IF old = NoCount THEN pieces ELSE old + pieces

Move(p, kilograms, pieces) ==
  /\ status[p] = "live"
  /\ balance[p] + kilograms >= 0 \/ AllowNegativeStock
  /\ balance[p] + kilograms \in Balances
  /\ Recounted(count[p], pieces) \in Pieces
  /\ balance' = [balance EXCEPT ![p] = @ + kilograms]
  /\ count' = [count EXCEPT ![p] = Recounted(@, pieces)]
  /\ entries' = [entries EXCEPT ![p] = Append(@, kilograms)]
  /\ UNCHANGED status

\* The pieces are corrected by hand; no entry is made.
Recount(p, pieces) ==
  /\ status[p] # "absent"
  /\ count' = [count EXCEPT ![p] = pieces]
  /\ UNCHANGED <<status, balance, entries>>

\* A page is closed and reopened with everything on it.
Close(p) == /\ status[p] # "absent"
            /\ status' = [status EXCEPT ![p] = "deleted"]
            /\ UNCHANGED <<balance, count, entries>>

Reopen(p) == /\ status[p] = "deleted"
             /\ status' = [status EXCEPT ![p] = "live"]
             /\ UNCHANGED <<balance, count, entries>>

Next == \E p \in Products :
          \/ \E b \in 0 .. MaxStock, n \in Pieces : Open(p, b, n)
          \/ \E k \in Balances, n \in (-MaxCount) .. MaxCount \cup {NoCount} :
               Move(p, k, n)
          \/ \E n \in Pieces : Recount(p, n)
          \/ Close(p)
          \/ Reopen(p)

Spec == Init /\ [][Next]_book
=============================================================================
