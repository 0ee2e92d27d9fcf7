--------------------------- MODULE MCSettlement ---------------------------
(***************************************************************************)
(* Settlement on small instances.  Two users with InitialBalance coins;    *)
(* prices and amounts are chosen so that one wallet pays for one event but *)
(* not for two, and so that a transfer to oneself occurs.  The merch, cup, *)
(* has the id of a user: ids in the two tables overlap.                    *)
(***************************************************************************)
EXTENDS Settlement, TLC

CONSTANTS u1, u2, cup

Purchase(u, price) ==
    [type |-> "purchase", user |-> u, related |-> cup, amount |-> -price]
Transfer(from, to, amount) ==
    [type |-> "transfer", user |-> from, related |-> to, amount |-> amount]

MCEvents == {Purchase(u1, 3), Transfer(u1, u2, 2), Transfer(u2, u1, 3), Transfer(u2, u2, 3)}
=============================================================================
