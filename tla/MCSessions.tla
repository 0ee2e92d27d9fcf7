----------------------------- MODULE MCSessions -----------------------------
(***************************************************************************)
(* Sessions on a small instance: two devices and two users, with time for  *)
(* a token to expire and its key to be set late.                           *)
(***************************************************************************)
EXTENDS Sessions, TLC

AnyOrder == Permutations(Clients)
=============================================================================
