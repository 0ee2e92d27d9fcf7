---------------------------- MODULE MCMerchShop ----------------------------
(***************************************************************************)
(* MerchShop on a small instance: two requests, each served by a process   *)
(* of its own.  The user can pay for the purchase twice, but not for the   *)
(* purchase and the transfer.                                              *)
(***************************************************************************)
EXTENDS MerchShop, TLC

CONSTANTS u1, u2, cup, r1, h1, h2, s1, s2

Buy(u, rid, price) ==
    [kind |-> "buy", user |-> u, rid |-> rid, item |-> cup, cost |-> price]
Transfer(from, to, amount) ==
    [kind |-> "transfer", user |-> from, item |-> to, cost |-> amount]

MCJobs == {Buy(u1, r1, 2), Transfer(u1, u2, 3)}
MCHome == (h1 :> s1) @@ (h2 :> s2)
=============================================================================
