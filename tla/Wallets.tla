------------------------------ MODULE Wallets ------------------------------
(***************************************************************************)
(* What the coin shop promises about money, without queues, rows or        *)
(* crashes.  Coins sit in a user's wallet or are held by a worker that has *)
(* taken them from a sender and not yet given them to a receiver.  Nothing *)
(* but Release ever adds to a wallet, and Release can only hand over what  *)
(* a Hold took: coins can be spent or lost, never made.                    *)
(***************************************************************************)
EXTENDS Integers

CONSTANTS Users, Workers, InitialBalance

VARIABLES
    wallet,   \* wallet[u]: coins user u can spend
    held      \* held[w]: coins worker w carries from a sender to a receiver

vars == <<wallet, held>>

Init ==
    /\ wallet = [u \in Users |-> InitialBalance]
    /\ held = [w \in Workers |-> 0]

\* Coins leave a wallet for good: a purchase, or a debit whose worker died.
Pay(u, a) ==
    /\ a \in 1 .. wallet[u]
    /\ wallet' = [wallet EXCEPT ![u] = @ - a]
    /\ UNCHANGED held

\* A worker takes the coins of a transfer from the sender's wallet.
Hold(w, u, a) ==
    /\ held[w] = 0
    /\ a \in 1 .. wallet[u]
    /\ wallet' = [wallet EXCEPT ![u] = @ - a]
    /\ held' = [held EXCEPT ![w] = a]

\* The worker gives the receiver exactly what it took.
Release(w, u) ==
    /\ held[w] > 0
    /\ wallet' = [wallet EXCEPT ![u] = @ + held[w]]
    /\ held' = [held EXCEPT ![w] = 0]

\* The worker fails between the two halves of a transfer.
Forfeit(w) ==
    /\ held[w] > 0
    /\ held' = [held EXCEPT ![w] = 0]
    /\ UNCHANGED wallet

Next ==
    \/ \E u \in Users : \E a \in 1 .. wallet[u] : Pay(u, a)
    \/ \E w \in Workers, u \in Users :
          \/ \E a \in 1 .. wallet[u] : Hold(w, u, a)
          \/ Release(w, u)
          \/ Forfeit(w)

Spec == Init /\ [][Next]_vars
=============================================================================
