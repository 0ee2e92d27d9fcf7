-------------------------- MODULE MCBalanceCache --------------------------
(***************************************************************************)
(* BalanceCache on small instances: time enough for two lives of a key.    *)
(***************************************************************************)
EXTENDS BalanceCache, TLC

AnyOrder == Permutations(Handlers)
=============================================================================
