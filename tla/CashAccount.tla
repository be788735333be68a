------------------------------- MODULE CashAccount -------------------------------
(***************************************************************************)
(* What a long-only, cash-funded account promises, whatever engine books   *)
(* its fills: it opens with InitialCash and nothing held, buys only what   *)
(* the cash on hand pays for and sells only what is held.                  *)
(* EventBacktester is shown to implement it.                               *)
(***************************************************************************)
EXTENDS Integers

CONSTANTS Quantity,     \* quantities a fill may have
          Price,        \* prices a fill may have
          InitialCash   \* the opening cash

VARIABLES cash,         \* cash on hand
          position      \* quantity held

accountVars == <<cash, position>>

Open ==
    /\ cash = InitialCash
    /\ position = 0

\* A buy of q at p: paid in full from the cash on hand.
Buy(q, p) ==
    /\ q * p <= cash
    /\ cash' = cash - q * p
    /\ position' = position + q

\* A sale of q at p: covered by what is held.
Sell(q, p) ==
    /\ q <= position
    /\ cash' = cash + q * p
    /\ position' = position - q

\* The account is opened afresh for another replay.
Reopen ==
    /\ cash' = InitialCash
    /\ position' = 0

Next ==
    \/ \E q \in Quantity, p \in Price : Buy(q, p) \/ Sell(q, p)
    \/ Reopen

Spec == Open /\ [][Next]_accountVars
=============================================================================
