---------------------------- MODULE MCCheckout ----------------------------
(***************************************************************************)
(* Checkout on small instances: a few requests of two users, some with the *)
(* same request id, and transfers between them in both directions.         *)
(***************************************************************************)
EXTENDS Checkout, TLC

CONSTANTS u1, u2, ghost, cup, cap, none, r1, r2

Buy(u, rid, merch, price) ==
    [kind |-> "buy", user |-> u, rid |-> rid, item |-> merch, cost |-> price]
Transfer(from, to, amount) ==
    [kind |-> "transfer", user |-> from, item |-> to, cost |-> amount]

MCJobs ==
    {Buy(u1, r1, cup, 3), Buy(u2, r1, none, 3), Buy(u2, r2, cap, 5),
     Transfer(u1, u2, 3), Transfer(u2, u1, 5), Transfer(u2, u2, 5), Transfer(u1, ghost, 3)}

LockJobs ==
    {Buy(u1, r1, cup, 3), Buy(u1, r2, cap, 5), Transfer(u1, u2, 3), Transfer(u2, u1, 3)}

RetryJobs == {Buy(u1, r1, cup, 3), Buy(u2, r1, cup, 3)}

AnyOrder == Permutations(Handlers)
=============================================================================
