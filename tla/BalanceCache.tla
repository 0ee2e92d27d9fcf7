---------------------------- MODULE BalanceCache ----------------------------
(***************************************************************************)
(* GetBalance of internal/services/merch_service.go: a read-through cache  *)
(* of the balance in Redis, kept for five minutes and never invalidated    *)
(* when the consumer changes the row.  Users do not share keys, so the     *)
(* module follows one user.  Only the age of a balance matters here: the   *)
(* row's successive contents are numbered, and "the balance" is a number.  *)
(***************************************************************************)
EXTENDS Integers

CONSTANTS
    Handlers,     \* clients that ask for /balance, one request after another
    TTL,          \* life of a cached balance, in ticks of the clock
    MaxDelay,     \* bound: ticks from a handler's read to the end of its Set
    MaxTime,      \* bound: ticks
    MaxChanges    \* bound: changes of the row

ASSUME BalanceCacheAssumption ==
    /\ TTL \in Nat \ {0}
    /\ MaxDelay \in Nat /\ MaxTime \in Nat /\ MaxChanges \in Nat

VARIABLES
    pc,        \* pc[h]: the call handler h makes next
    begun,     \* begun[h]: when the request of h made its first call
    got,       \* got[h]: the version h read from Postgres, or answers
    readAt,    \* readAt[h]: when h read it
    row,       \* the version of the balance in Postgres
    gone,      \* gone[v]: when version v was replaced
    cached,    \* the version in Redis
    until,     \* when Redis drops it
    now        \* the clock

vars == <<pc, begun, got, readAt, row, gone, cached, until, now>>

Versions == 0 .. MaxChanges
Times == 0 .. MaxTime

Goto(h, call) == pc' = [pc EXCEPT ![h] = call]

Init ==
    /\ pc = [h \in Handlers |-> "Get"]
    /\ begun = [h \in Handlers |-> 0]
    /\ got = [h \in Handlers |-> 0]
    /\ readAt = [h \in Handlers |-> 0]
    /\ row = 0
    /\ gone = [v \in Versions |-> 0]
    /\ cached = 0
    /\ until = 0
    /\ now = 0

\* Mutants of AfterHit: a hit renews the key, or adds to its life.
BugSlidingExpiry == until' = now + TTL
BugAddUp == until' = until + TTL

\* A hit leaves the key and its time-to-live alone.
AfterHit == UNCHANGED until

\* Redis Get of a new request: a hit is the answer; a miss, or an error, leads to Postgres.
Get(h) ==
    /\ pc[h] \in {"Get", "Answered", "Failed"}
    /\ begun' = [begun EXCEPT ![h] = now]
    /\ \/ now < until /\ got' = [got EXCEPT ![h] = cached] /\ Goto(h, "Answered") /\ AfterHit
       \/ Goto(h, "ReadRow") /\ UNCHANGED <<got, until>>
    /\ UNCHANGED <<readAt, row, gone, cached, now>>

\* The user repository's GetBalance; an error ends the request.
ReadRow(h) ==
    /\ pc[h] = "ReadRow"
    /\ \/ /\ got' = [got EXCEPT ![h] = row]
          /\ readAt' = [readAt EXCEPT ![h] = now]
          /\ Goto(h, "Set")
       \/ Goto(h, "Failed") /\ UNCHANGED <<got, readAt>>
    /\ UNCHANGED <<begun, row, gone, cached, until, now>>

\* Redis Set, whatever is there by now; an error is not looked at.  If it is applied
\* and the reply is lost, the client library sends it again.
Set(h) ==
    /\ pc[h] = "Set"
    /\ \/ cached' = got[h] /\ until' = now + TTL
       \/ UNCHANGED <<cached, until>>
    /\ \/ Goto(h, "Answered") /\ readAt' = [readAt EXCEPT ![h] = 0]
       \/ UNCHANGED <<pc, readAt>>
    /\ UNCHANGED <<begun, got, row, gone, now>>

\* The consumer changes the row; the cache is not told.
ChangeBalance ==
    /\ row < MaxChanges
    /\ row' = row + 1
    /\ gone' = [gone EXCEPT ![row] = now]
    /\ UNCHANGED <<pc, begun, got, readAt, cached, until, now>>

Tick ==
    /\ now < MaxTime
    /\ \A h \in Handlers : pc[h] = "Set" => now - readAt[h] < MaxDelay
    /\ now' = now + 1
    /\ UNCHANGED <<pc, begun, got, readAt, row, gone, cached, until>>

Next ==
    \/ \E h \in Handlers : Get(h) \/ ReadRow(h) \/ Set(h)
    \/ ChangeBalance
    \/ Tick

Spec == Init /\ [][Next]_vars

-----------------------------------------------------------------------------
(* Properties                                                              *)

\* The variables have the values the code and the clock allow.
TypeOK ==
    /\ pc \in [Handlers -> {"Get", "ReadRow", "Set", "Answered", "Failed"}]
    /\ begun \in [Handlers -> Times] /\ readAt \in [Handlers -> Times]
    /\ got \in [Handlers -> Versions]
    /\ row \in Versions /\ gone \in [Versions -> Times]
    /\ cached \in Versions /\ until \in 0 .. MaxTime + TTL
    /\ now \in Times

\* v was the balance at time t or later.
CurrentSince(v, t) == v = row \/ gone[v] >= t

\* An answer is never older than the life of a key and the time its writer took
\* between reading and writing it, whichever handlers race to fill the cache:
\* a late Set may bring back an older balance, but for one life of the key only.
BoundedStaleness ==
    \A h \in Handlers :
        pc[h] = "Answered" => CurrentSince(got[h], begun[h] - TTL - MaxDelay)

\* What the endpoint's description says: the answer was the user's balance at
\* some time during the request.
AnswersCurrentBalance ==
    \A h \in Handlers : pc[h] = "Answered" => CurrentSince(got[h], begun[h])
=============================================================================
