------------------------- MODULE BalanceCacheProofs -------------------------
(***************************************************************************)
(* Proofs about BalanceCache, for any clients, times to live and delays:   *)
(* how old an answer can be.                                               *)
(***************************************************************************)
EXTENDS BalanceCache, TLAPS

\* What a client is about to store was the balance when it read it, after its
\* request began and no longer ago than its calls may take.
ReadIsRecent ==
    \A h \in Handlers : pc[h] = "Set" =>
        /\ CurrentSince(got[h], readAt[h])
        /\ begun[h] <= readAt[h] /\ now - readAt[h] <= MaxDelay

\* No time a client or the cache remembers lies ahead of the clock.
NoTimeAhead ==
    /\ until <= now + TTL
    /\ \A h \in Handlers : begun[h] <= now /\ readAt[h] <= now

\* What is in the cache was the balance when a client read it, shortly before the
\* key's life began.
CacheIsRecent == CurrentSince(cached, until - TTL - MaxDelay)

\* Inductive: BoundedStaleness alone says nothing of the value a client still has
\* to store, nor of the one the next client will find.
Inv == TypeOK /\ ReadIsRecent /\ NoTimeAhead /\ CacheIsRecent /\ BoundedStaleness

-----------------------------------------------------------------------------
\* A version that was current at t, or later, still was when the row changes.
LEMMA ChangeKeeps ==
    ASSUME TypeOK, ChangeBalance, NEW v \in Versions, NEW t \in Int, t <= now, CurrentSince(v, t)
    PROVE  v = row' \/ gone'[v] >= t
  BY DEF TypeOK, ChangeBalance, CurrentSince, Versions, Times

\* It was so at every earlier time, too.
LEMMA SinceEarlier ==
    ASSUME TypeOK, NEW v \in Versions, NEW s \in Int, NEW t \in Int, s <= t, CurrentSince(v, t)
    PROVE  CurrentSince(v, s)
  <1>1. gone[v] \in Int
    BY DEF TypeOK, Times
  <1> QED
    BY <1>1 DEF CurrentSince

\* The invariant holds at the start.
LEMMA InitInv == Init => Inv
  <1> SUFFICES ASSUME Init PROVE Inv
    OBVIOUS
  <1> USE BalanceCacheAssumption DEF Init
  <1>1. TypeOK
    BY DEF TypeOK, Versions, Times
  <1> QED
    BY <1>1 DEF Inv, ReadIsRecent, NoTimeAhead, CacheIsRecent, BoundedStaleness, CurrentSince

\* A hit is as old as what is in the cache.
LEMMA GetInv == ASSUME Inv, NEW h \in Handlers, Get(h) PROVE Inv'
  <1> USE DEF Get, Goto, AfterHit, Inv
  <1>1. /\ UNCHANGED <<readAt, row, gone, cached, until, now>>
        /\ \A g \in Handlers \ {h} : pc'[g] = pc[g] /\ begun'[g] = begun[g] /\ got'[g] = got[g]
        /\ begun'[h] = now /\ pc'[h] # "Set"
        /\ pc'[h] = "Answered" => now < until /\ got'[h] = cached
    BY DEF TypeOK
  <1>2. TypeOK'
    BY DEF TypeOK
  <1>3. \A v, t : CurrentSince(v, t)' <=> CurrentSince(v, t)
    BY <1>1 DEF CurrentSince
  <1>4. ReadIsRecent' /\ CacheIsRecent'
    BY <1>1 DEF ReadIsRecent, CacheIsRecent, CurrentSince
  <1>5. NoTimeAhead'
    BY <1>1 DEF NoTimeAhead, TypeOK, Times
  <1>6. BoundedStaleness'
    <2> SUFFICES ASSUME NEW g \in Handlers, pc'[g] = "Answered"
                 PROVE  CurrentSince(got[g], begun[g] - TTL - MaxDelay)'
      BY DEF BoundedStaleness
    <2>1. CASE g = h
      <3>1. /\ now - TTL - MaxDelay \in Int /\ until - TTL - MaxDelay \in Int /\ cached \in Versions
            /\ now - TTL - MaxDelay <= until - TTL - MaxDelay
        BY <1>1, <2>1, BalanceCacheAssumption DEF TypeOK, Times
      <3>2. CurrentSince(cached, now - TTL - MaxDelay)
        BY <3>1, SinceEarlier DEF CacheIsRecent
      <3> QED
        BY <1>1, <2>1, <3>2 DEF CurrentSince
    <2>2. CASE g # h
      BY <1>1, <2>2 DEF BoundedStaleness, CurrentSince
    <2> QED
      BY <2>1, <2>2
  <1> QED
    BY <1>2, <1>4, <1>5, <1>6

\* A row that is read now is current now.
LEMMA ReadRowInv == ASSUME Inv, NEW h \in Handlers, ReadRow(h) PROVE Inv'
  <1> USE DEF ReadRow, Goto, Inv
  <1>1. /\ UNCHANGED <<begun, row, gone, cached, until, now>>
        /\ \A g \in Handlers \ {h} : pc'[g] = pc[g] /\ readAt'[g] = readAt[g] /\ got'[g] = got[g]
        /\ pc'[h] # "Answered"
        /\ pc'[h] = "Set" => got'[h] = row /\ readAt'[h] = now
        /\ readAt'[h] \in {readAt[h], now}
    BY DEF TypeOK
  <1>2. TypeOK'
    BY DEF TypeOK
  <1>3. ReadIsRecent'
    BY <1>1, BalanceCacheAssumption DEF ReadIsRecent, NoTimeAhead, CurrentSince, TypeOK, Times
  <1>4. NoTimeAhead'
    BY <1>1 DEF NoTimeAhead, TypeOK, Times
  <1>5. CacheIsRecent' /\ BoundedStaleness'
    BY <1>1 DEF CacheIsRecent, BoundedStaleness, CurrentSince
  <1> QED
    BY <1>2, <1>3, <1>4, <1>5

\* What is stored is a little older than the key's life.
LEMMA SetInv == ASSUME Inv, NEW h \in Handlers, Set(h) PROVE Inv'
  <1> USE DEF Set, Goto, Inv
  <1>1. /\ UNCHANGED <<begun, got, row, gone, now>>
        /\ \A g \in Handlers \ {h} : pc'[g] = pc[g] /\ readAt'[g] = readAt[g]
        /\ \/ pc'[h] = "Answered" /\ readAt'[h] = 0
           \/ pc'[h] = pc[h] /\ readAt'[h] = readAt[h]
        /\ pc[h] = "Set"
        /\ UNCHANGED <<cached, until>> \/ (cached' = got[h] /\ until' = now + TTL)
    BY DEF TypeOK
  <1>2. /\ CurrentSince(got[h], readAt[h]) /\ begun[h] <= readAt[h] /\ now - readAt[h] <= MaxDelay
        /\ got[h] \in Versions /\ readAt[h] \in Int /\ begun[h] \in Int /\ now \in Int
        /\ TTL \in Nat /\ MaxDelay \in Nat
    BY BalanceCacheAssumption DEF ReadIsRecent, TypeOK, Times
  <1>3. TypeOK'
    BY BalanceCacheAssumption DEF TypeOK, Times
  <1>4. ReadIsRecent' /\ NoTimeAhead'
    BY <1>1, BalanceCacheAssumption DEF ReadIsRecent, NoTimeAhead, CurrentSince, TypeOK, Times
  <1>5. CacheIsRecent'
    <2>1. /\ now + TTL - TTL - MaxDelay \in Int
          /\ now + TTL - TTL - MaxDelay <= readAt[h]
      BY <1>2
    <2>2. CurrentSince(got[h], now + TTL - TTL - MaxDelay)
      BY <1>2, <2>1, SinceEarlier
    <2>3. CASE cached' = got[h] /\ until' = now + TTL
      <3>1. until' - TTL - MaxDelay = now + TTL - TTL - MaxDelay
        <4>1. until' = now + TTL /\ now \in Int /\ TTL \in Int /\ MaxDelay \in Int
          BY <1>2, <2>3
        <4> HIDE DEF Inv, Set
        <4> QED
          BY <4>1
      <3>2. row' = row /\ gone' = gone
        BY <1>1
      <3> QED
        BY <2>2, <2>3, <3>1, <3>2 DEF CacheIsRecent, CurrentSince
    <2>4. CASE UNCHANGED <<cached, until>>
      BY <1>1, <2>4 DEF CacheIsRecent, CurrentSince
    <2> QED
      BY <1>1, <2>3, <2>4
  <1>6. BoundedStaleness'
    <2>1. begun[h] - TTL - MaxDelay \in Int /\ begun[h] - TTL - MaxDelay <= readAt[h]
      BY <1>2
    <2>2. CurrentSince(got[h], begun[h] - TTL - MaxDelay)
      BY <1>2, <2>1, SinceEarlier
    <2> QED
      BY <1>1, <2>2 DEF BoundedStaleness, CurrentSince
  <1> QED
    BY <1>3, <1>4, <1>5, <1>6

\* A change of the row makes every version in use older, none of them too old.
LEMMA ChangeBalanceInv == ASSUME Inv, ChangeBalance PROVE Inv'
  <1> USE DEF Inv
  <1>1. UNCHANGED <<pc, begun, got, readAt, cached, until, now>>
    BY DEF ChangeBalance
  <1>2. TypeOK'
    BY BalanceCacheAssumption DEF ChangeBalance, TypeOK, Versions, Times
  <1>3. /\ TTL \in Nat /\ MaxDelay \in Nat /\ now \in Nat /\ until \in Nat /\ cached \in Versions
        /\ until <= now + TTL
        /\ \A h \in Handlers : /\ begun[h] \in Nat /\ readAt[h] \in Nat /\ got[h] \in Versions
                               /\ begun[h] <= now /\ readAt[h] <= now
    BY BalanceCacheAssumption DEF NoTimeAhead, TypeOK, Times
  <1>4. ReadIsRecent' /\ NoTimeAhead'
    <2>1. ASSUME NEW h \in Handlers, pc[h] = "Set" PROVE CurrentSince(got[h], readAt[h])'
      BY <1>1, <1>3, <2>1, ChangeKeeps DEF ReadIsRecent, CurrentSince
    <2> QED
      BY <1>1, <2>1 DEF ReadIsRecent, NoTimeAhead
  <1>5. CacheIsRecent'
    <2>1. until - TTL - MaxDelay \in Int /\ until - TTL - MaxDelay <= now
      BY <1>3
    <2> QED
      BY <1>1, <1>3, <2>1, ChangeKeeps DEF CacheIsRecent, CurrentSince
  <1>6. BoundedStaleness'
    <2> SUFFICES ASSUME NEW h \in Handlers, pc[h] = "Answered"
                 PROVE  CurrentSince(got[h], begun[h] - TTL - MaxDelay)'
      BY <1>1 DEF BoundedStaleness
    <2>1. begun[h] - TTL - MaxDelay \in Int /\ begun[h] - TTL - MaxDelay <= now
      BY <1>3
    <2> QED
      BY <1>1, <1>3, <2>1, ChangeKeeps DEF BoundedStaleness, CurrentSince
  <1> QED
    BY <1>2, <1>4, <1>5, <1>6

\* The clock waits for clients that have read and not stored.
LEMMA TickInv == ASSUME Inv, Tick PROVE Inv'
  <1> USE DEF Tick, Inv
  <1>1. TypeOK'
    BY BalanceCacheAssumption DEF TypeOK, Times
  <1>2. ReadIsRecent' /\ NoTimeAhead'
    BY BalanceCacheAssumption DEF ReadIsRecent, NoTimeAhead, CurrentSince, TypeOK, Times
  <1>3. CacheIsRecent' /\ BoundedStaleness'
    BY DEF CacheIsRecent, BoundedStaleness, CurrentSince
  <1> QED
    BY <1>1, <1>2, <1>3

\* The inductive invariant always holds.
LEMMA Invariance == Spec => []Inv
  <1>1. Inv /\ [Next]_vars => Inv'
    <2> SUFFICES ASSUME Inv, [Next]_vars PROVE Inv'
      OBVIOUS
    <2>1. CASE UNCHANGED vars
      BY <2>1 DEF vars, Inv, TypeOK, ReadIsRecent, NoTimeAhead, CacheIsRecent, BoundedStaleness,
                  CurrentSince
    <2> QED
      BY <2>1, GetInv, ReadRowInv, SetInv, ChangeBalanceInv, TickInv DEF Next
  <1> QED
    BY <1>1, InitInv, PTL DEF Spec

\* The variables keep their types.
THEOREM TypeCorrect == Spec => []TypeOK
  <1>1. Inv => TypeOK
    BY DEF Inv
  <1> QED
    BY <1>1, Invariance, PTL

\* No answer is older than one life of a key and the time from a client's read to
\* the end of its Set, however many clients race to fill the cache, and however
\* often the row changes meanwhile.
THEOREM AnswersAreRecent == Spec => []BoundedStaleness
  <1>1. Inv => BoundedStaleness
    BY DEF Inv
  <1> QED
    BY <1>1, Invariance, PTL
=============================================================================
