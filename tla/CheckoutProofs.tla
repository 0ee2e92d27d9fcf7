--------------------------- MODULE CheckoutProofs ---------------------------
(***************************************************************************)
(* Proofs about Checkout, for any requests, users, merch, balances and     *)
(* failures: what the locks exclude, that a failed request leaves nothing  *)
(* in Redis, and that a request id is good for one event.                  *)
(***************************************************************************)
EXTENDS Checkout, TLAPS

\* The calls a request makes once its request key is set, until it fails.
Past == {"SetLock", "GetMerch", "GetPrice", "GetBalance", "Send"}

\* What a handler knows of its request by the call it has reached.
JobFacts ==
    \A h \in Handlers :
        /\ pc[h] # "Idle" => job[h] \in Jobs /\ taken[h] <= Len(Locked(job[h]))
        /\ InFlight(h) => \A i \in 1 .. Len(Locked(job[h])) : Locked(job[h])[i] \in Users
        /\ pc[h] \in {"Idle", "GetRequest", "SetRequest"} => taken[h] = 0
        /\ pc[h] = "SetLock" => taken[h] < Len(Locked(job[h]))
        /\ pc[h] \in Past \ {"SetLock"} => taken[h] = Len(Locked(job[h]))
        /\ h \in posted => pc[h] = "Done"

\* k is among the keys h still has to delete.
Listed(h, k) == \E i \in 1 .. Len(todo[h]) : todo[h][i] = k

\* A request deletes its own request key and locks; a purchase its lock last.
UndoLists ==
    \A h \in Handlers : pc[h] = "Undo" =>
        \A i \in 1 .. Len(todo[h]) :
            \/ todo[h][i] = RequestKey(h)
            \/ /\ \E u \in Users : todo[h][i] = LockKey(u)
               /\ job[h].kind = "buy" => i = Len(todo[h])

TypeInv == TypeOK /\ JobFacts /\ UndoLists

-----------------------------------------------------------------------------
(* The three arguments *)

\* A lock h has set, and still counts on; a purchase that failed counts on it
\* until it has deleted it.
Entitled(h, u) ==
    \/ Holds(h, u)
    \/ pc[h] = "Undo" /\ job[h].kind = "buy" /\ Listed(h, LockKey(u))

\* Such a lock is in Redis under the name of h, unless it went away.
LocksOwned ==
    \A h \in Handlers, u \in Users :
        Entitled(h, u) => store[LockKey(u)] = h \/ <<h, u>> \in lapsed

\* h will still delete k if it fails.
Minded(h, k) ==
    \/ pc[h] \in Past \cup {"SetRequest"} /\ k = RequestKey(h)
    \/ /\ pc[h] \in Past
       /\ \E i \in 1 .. Len(Locked(job[h])) :
             k = LockKey(Locked(job[h])[i]) /\ (i <= taken[h] \/ job[h].kind = "transfer")
    \/ pc[h] = "Undo" /\ Listed(h, k)

\* h has a reason not to delete k any more.
Excused(h, k) == h \in posted \/ <<h, k>> \in cut

KeysMinded ==
    \A k \in Keys : store[k] # Nobody => Minded(store[k], k) \/ Excused(store[k], k)

\* Of the requests with one id that never met, one at most has gone past the check.
SameId(g, h) == g # h /\ RequestKey(g) = RequestKey(h) /\ RequestKey(g) \notin raced

IdInv ==
    \A g, h \in Handlers :
        /\ (pc[g] \in Past \/ g \in posted) /\ RequestKey(g) \notin raced =>
               store[RequestKey(g)] # Nobody
        /\ SameId(g, h) /\ InFlight(g) => ~InFlight(h)
        /\ SameId(g, h) /\ g \in posted => h \notin posted /\ (InFlight(h) => pc[h] = "GetRequest")

CheckedIds == "GetRequest" \notin FaultyCalls => IdInv
-----------------------------------------------------------------------------
(* Keys and lists of keys                                                  *)

\* A request that has arrived asks for a purchase or a transfer.
LEMMA JobKinds ==
    ASSUME TypeInv, NEW h \in Handlers, pc[h] # "Idle"
    PROVE  job[h] \in Jobs /\ job[h].kind \in {"buy", "transfer"}
  BY CheckoutAssumption DEF TypeInv, JobFacts

\* Locks of different users are different keys, and no request key is a lock.
LEMMA KeyFacts ==
    /\ \A u \in Users : LockKey(u) \in Keys
    /\ \A u, v : LockKey(u) = LockKey(v) => u = v
    /\ \A h, u : RequestKey(h) # LockKey(u)
  BY DEF LockKey, RequestKey, Keys

\* The request key of a request that has arrived is a key.
LEMMA RequestKeyType ==
    ASSUME TypeInv, NEW h \in Handlers, pc[h] # "Idle"
    PROVE  RequestKey(h) \in Keys
  BY JobKinds DEF RequestKey, Keys

\* The lists of keys, written out.
LEMMA LockedUsers ==
    ASSUME TypeInv, NEW h \in Handlers, InFlight(h)
    PROVE  /\ job[h].kind = "buy" =>
                  /\ Locked(job[h]) = <<job[h].user>> /\ Len(Locked(job[h])) = 1
                  /\ LockKeys(h) = <<LockKey(job[h].user)>>
           /\ job[h].kind = "transfer" =>
                  /\ Locked(job[h]) = <<job[h].user, job[h].item>> /\ Len(Locked(job[h])) = 2
                  /\ LockKeys(h) = <<LockKey(job[h].user), LockKey(job[h].item)>>
                  /\ job[h].item \in Users
           /\ job[h].user \in Users
  <1>1. job[h] \in Jobs /\ job[h].user \in Users
    BY JobKinds, CheckoutAssumption DEF InFlight
  <1>2. CASE job[h].kind = "buy"
    BY <1>1, <1>2 DEF Locked, LockKeys
  <1>3. CASE job[h].kind = "transfer"
    <2>1. Locked(job[h]) = <<job[h].user, job[h].item>>
      BY <1>3 DEF Locked
    <2>2. LockKeys(h) = <<LockKey(job[h].user), LockKey(job[h].item)>>
      BY <2>1 DEF LockKeys
    <2>3. job[h].item \in Users
      BY <2>1 DEF TypeInv, JobFacts
    <2> QED
      BY <1>1, <1>3, <2>1, <2>2, <2>3
  <1> QED
    BY <1>1, <1>2, <1>3, JobKinds DEF InFlight

\* A request locks one user or two, and its lock keys are theirs.
LEMMA LockCount ==
    ASSUME TypeInv, NEW h \in Handlers, InFlight(h)
    PROVE  /\ Len(Locked(job[h])) \in Nat
           /\ 0 < Len(Locked(job[h])) /\ Len(Locked(job[h])) <= 2
           /\ LockKeys(h) \in Seq(Keys) /\ Len(LockKeys(h)) = Len(Locked(job[h]))
           /\ \A i \in 1 .. Len(Locked(job[h])) :
                  /\ Locked(job[h])[i] \in Users
                  /\ LockKeys(h)[i] = LockKey(Locked(job[h])[i])
  <1>1. \A u \in Users : LockKey(u) \in Keys
    BY KeyFacts
  <1>2. CASE job[h].kind = "buy"
    <2>1. Locked(job[h]) = <<job[h].user>> /\ LockKeys(h) = <<LockKey(job[h].user)>>
      BY <1>2, LockedUsers
    <2>2. job[h].user \in Users /\ LockKey(job[h].user) \in Keys
      BY <1>1, LockedUsers
    <2>3. /\ Len(LockKeys(h)) = 1 /\ Len(Locked(job[h])) = 1
          /\ LockKeys(h)[1] = LockKey(Locked(job[h])[1])
      BY <2>1
    <2> QED
      BY <2>1, <2>2, <2>3
  <1>3. CASE job[h].kind = "transfer"
    <2>1. /\ Locked(job[h]) = <<job[h].user, job[h].item>>
          /\ LockKeys(h) = <<LockKey(job[h].user), LockKey(job[h].item)>>
      BY <1>3, LockedUsers
    <2>2. /\ job[h].user \in Users /\ job[h].item \in Users
          /\ LockKey(job[h].user) \in Keys /\ LockKey(job[h].item) \in Keys
      BY <1>1, <1>3, LockedUsers
    <2>3. /\ Len(LockKeys(h)) = 2 /\ Len(Locked(job[h])) = 2
          /\ LockKeys(h)[1] = LockKey(Locked(job[h])[1])
          /\ LockKeys(h)[2] = LockKey(Locked(job[h])[2])
      BY <2>1
    <2> QED
      BY <2>1, <2>2, <2>3
  <1> QED
    BY <1>2, <1>3, JobKinds DEF InFlight

\* The lock a request asks for next.
LEMMA NextLock ==
    ASSUME TypeInv, NEW h \in Handlers, pc[h] = "SetLock"
    PROVE  /\ InFlight(h) /\ h \notin posted
           /\ taken[h] \in Nat /\ taken[h] + 1 \in 1 .. Len(Locked(job[h]))
           /\ LockKeys(h)[taken[h] + 1] = LockKey(Locked(job[h])[taken[h] + 1])
           /\ LockKeys(h)[taken[h] + 1] \in Keys /\ Locked(job[h])[taken[h] + 1] \in Users
  <1>1. InFlight(h) /\ h \notin posted /\ taken[h] \in Nat /\ taken[h] < Len(Locked(job[h]))
    <2>1. InFlight(h) /\ h \notin posted /\ taken[h] < Len(Locked(job[h]))
      BY DEF InFlight, TypeInv, JobFacts
    <2>2. taken \in [Handlers -> 0 .. 2]
      BY DEF TypeInv, TypeOK
    <2> QED
      BY <2>1, <2>2
  <1>2. Len(Locked(job[h])) \in Nat
    BY <1>1, LockCount
  <1>3. taken[h] + 1 \in 1 .. Len(Locked(job[h]))
    BY <1>1, <1>2
  <1> QED
    BY <1>1, <1>3, LockCount, KeyFacts

\* The list of a request that undoes everything: its request key, then its locks.
LEMMA UndoneKeys ==
    ASSUME TypeInv, NEW h \in Handlers, InFlight(h)
    PROVE  /\ UndoKeys(h) \in Seq(Keys)
           /\ Len(UndoKeys(h)) = Len(Locked(job[h])) + 1
           /\ UndoKeys(h)[1] = RequestKey(h)
           /\ \A i \in 1 .. Len(Locked(job[h])) :
                  UndoKeys(h)[i + 1] = LockKey(Locked(job[h])[i])
  <1>1. <<RequestKey(h)>> \in Seq(Keys)
    BY RequestKeyType DEF InFlight
  <1> QED
    BY <1>1, LockCount DEF UndoKeys

\* A request that fails deletes its request key, and after its first lock its locks
\* too: the list it sets out with is one UndoLists allows.
LEMMA FailLists ==
    ASSUME TypeInv, NEW h \in Handlers, InFlight(h),
           NEW keys \in {UndoKeys(h), RefusedKeys(h)}
    PROVE  /\ keys \in Seq(Keys) /\ Len(keys) \in Nat \ {0} /\ keys # <<>>
           /\ \A i \in 1 .. Len(keys) :
                  \/ keys[i] = RequestKey(h)
                  \/ /\ \E u \in Users : keys[i] = LockKey(u)
                     /\ job[h].kind = "buy" => i = Len(keys)
           /\ \E i \in 1 .. Len(keys) : keys[i] = RequestKey(h)
           /\ job[h].kind = "buy" =>
                  \A u \in Users, i \in 1 .. Len(keys) :
                      keys[i] = LockKey(u) => keys # RefusedKeys(h) /\ u = job[h].user
  <1>1. /\ job[h].kind = "buy" => RefusedKeys(h) = <<RequestKey(h)>> /\ RefusedKeys(h) # UndoKeys(h)
        /\ job[h].kind = "transfer" => RefusedKeys(h) = UndoKeys(h)
    BY UndoneKeys, LockedUsers DEF RefusedKeys
  <1>2. CASE keys = UndoKeys(h)
    <2> DEFINE n == Len(Locked(job[h]))
    <2>1. /\ keys \in Seq(Keys) /\ Len(keys) = n + 1 /\ keys[1] = RequestKey(h)
          /\ \A i \in 1 .. n : keys[i + 1] = LockKey(Locked(job[h])[i])
      BY <1>2, UndoneKeys
    <2>2. /\ n \in {1, 2} /\ \A i \in 1 .. n : Locked(job[h])[i] \in Users
          /\ job[h].kind = "buy" => n = 1 /\ Locked(job[h])[1] = job[h].user
      BY JobKinds, LockedUsers DEF InFlight
    <2> HIDE DEF n
    <2>3. ASSUME NEW i \in 1 .. Len(keys), i # 1
          PROVE  i - 1 \in 1 .. n /\ keys[i] = LockKey(Locked(job[h])[i - 1])
      <3>1. i - 1 \in 1 .. n /\ (i - 1) + 1 = i
        BY <2>1, <2>2, <2>3
      <3> QED
        BY <2>1, <3>1
    <2>4. Len(keys) \in Nat \ {0} /\ keys # <<>> /\ 1 \in 1 .. Len(keys)
      BY <2>1, <2>2
    <2>5. \A i \in 1 .. Len(keys) :
            \/ keys[i] = RequestKey(h)
            \/ /\ \E u \in Users : keys[i] = LockKey(u)
               /\ job[h].kind = "buy" => i = Len(keys)
      <3> SUFFICES ASSUME NEW i \in 1 .. Len(keys), i # 1
                   PROVE  /\ \E u \in Users : keys[i] = LockKey(u)
                          /\ job[h].kind = "buy" => i = Len(keys)
        BY <2>1
      <3>1. job[h].kind = "buy" => i = Len(keys)
        BY <2>1, <2>2
      <3> QED
        BY <2>2, <2>3, <3>1
    <2>6. job[h].kind = "buy" =>
            \A u \in Users, i \in 1 .. Len(keys) :
                keys[i] = LockKey(u) => keys # RefusedKeys(h) /\ u = job[h].user
      <3> SUFFICES ASSUME job[h].kind = "buy", NEW u \in Users, NEW i \in 1 .. Len(keys),
                          keys[i] = LockKey(u)
                   PROVE  u = job[h].user
        BY <1>1, <1>2
      <3>1. i # 1
        BY <2>1, KeyFacts
      <3>2. i - 1 = 1 /\ keys[i] = LockKey(job[h].user)
        BY <2>2, <2>3, <3>1
      <3> QED
        BY <3>2, KeyFacts
    <2> QED
      BY <2>1, <2>4, <2>5, <2>6
  <1>3. CASE keys = <<RequestKey(h)>> /\ job[h].kind = "buy"
    BY <1>1, <1>3, RequestKeyType, KeyFacts DEF InFlight
  <1> QED
    BY <1>1, <1>2, <1>3, JobKinds DEF InFlight

-----------------------------------------------------------------------------
(* Types and the facts about jobs                                          *)

\* The fault counter and the history of the keys given up keep their types.
LEMMA FaultTypes ==
    ASSUME TypeOK, NEW h \in Handlers, Fault(h) \/ SentAgain(h) \/ NoFault
    PROVE  faults' \in 0 .. MaxFaults /\ cut' \subseteq Handlers \X Keys /\ cut \subseteq cut'
  <1>1. faults' \in 0 .. MaxFaults
    BY CheckoutAssumption DEF TypeOK, Fault, SentAgain, MayFail, NoFault
  <1>2. cut' = cut \/ cut' = cut \cup ({h} \X Forsaken(h))
    BY DEF Fault, SentAgain, NoFault
  <1>3. Forsaken(h) \subseteq Keys
    BY DEF Forsaken
  <1> QED
    BY <1>1, <1>2, <1>3 DEF TypeOK

\* A request key depends on the job only.
LEMMA SameJobs == ASSUME UNCHANGED job PROVE \A g : RequestKey(g)' = RequestKey(g)
  BY DEF RequestKey

\* A handler whose call is sent again stays where it is.
LEMMA StayTypes ==
    ASSUME TypeInv, NEW h \in Handlers, Fault(h) \/ SentAgain(h),
           UNCHANGED <<pc, job, taken, todo, reply, balance, posted, raced>>,
           store' \in [Keys -> Handlers \cup {Nobody}],
           lapsed' \subseteq Handlers \X Users
    PROVE  TypeInv'
  <1>1. TypeOK'
    BY FaultTypes DEF TypeInv, TypeOK
  <1>2. JobFacts'
    BY DEF TypeInv, JobFacts, InFlight
  <1>3. UndoLists'
    BY SameJobs DEF TypeInv, UndoLists
  <1> QED
    BY <1>1, <1>2, <1>3 DEF TypeInv

\* A handler in flight makes its next call, or is answered, and its locks are as
\* many as that call needs.
LEMMA MoveTypes ==
    ASSUME TypeInv, NEW h \in Handlers, InFlight(h), pc[h] # "Undo",
           NEW call \in Past \cup {"SetRequest", "Done"}, Goto(h, call),
           UNCHANGED <<job, todo, balance, raced, lapsed>>,
           reply' \in [Handlers -> Replies],
           store' \in [Keys -> Handlers \cup {Nobody}],
           taken' \in [Handlers -> 0 .. 2], \A g \in Handlers \ {h} : taken'[g] = taken[g],
           taken'[h] <= Len(Locked(job[h])),
           call = "SetRequest" => taken'[h] = 0,
           call = "SetLock" => taken'[h] < Len(Locked(job[h])),
           call \in Past \ {"SetLock"} => taken'[h] = Len(Locked(job[h])),
           posted' \subseteq posted \cup {h}, h \in posted' => call = "Done",
           Fault(h) \/ NoFault
    PROVE  TypeInv'
  <1>2. TypeOK'
    <2>1. faults' \in 0 .. MaxFaults /\ cut' \subseteq Handlers \X Keys
      BY FaultTypes DEF TypeInv
    <2>2. /\ pc' \in [Handlers -> {"Idle", "GetRequest", "SetRequest", "SetLock", "GetMerch",
                                  "GetPrice", "GetBalance", "Send", "Undo", "Done"}]
          /\ \A g \in Handlers : pc'[g] = "Undo" => todo[g] # <<>>
      BY DEF TypeInv, TypeOK, Goto, Past
    <2> QED
      BY <2>1, <2>2 DEF TypeInv, TypeOK
  <1>3. JobFacts'
    BY DEF TypeInv, TypeOK, JobFacts, Goto, Past, InFlight
  <1>4. UndoLists'
    BY SameJobs DEF TypeInv, TypeOK, UndoLists, Goto, Past
  <1> QED
    BY <1>2, <1>3, <1>4 DEF TypeInv

\* A request fails: it has a list of keys to delete.
LEMMA FailTypes ==
    ASSUME TypeInv, NEW h \in Handlers, pc[h] \in Past, NEW r \in Replies,
           NEW keys \in {UndoKeys(h), RefusedKeys(h)}, Fail(h, r, keys),
           UNCHANGED <<job, taken, balance, posted, raced, lapsed>>,
           store' \in [Keys -> Handlers \cup {Nobody}],
           Fault(h) \/ NoFault
    PROVE  TypeInv'
  <1>1. InFlight(h)
    BY DEF Past, InFlight
  <1>2. TypeOK'
    <2>1. keys \in Seq(Keys) /\ keys # <<>>
      BY <1>1, FailLists
    <2>2. todo' \in [Handlers -> Seq(Keys)]
      BY <2>1 DEF TypeInv, TypeOK, Fail
    <2>3. \A g \in Handlers : pc'[g] = "Undo" => todo'[g] # <<>>
      BY <2>1 DEF TypeInv, TypeOK, Fail, Goto
    <2>4. pc' \in [Handlers -> {"Idle", "GetRequest", "SetRequest", "SetLock", "GetMerch",
                               "GetPrice", "GetBalance", "Send", "Undo", "Done"}]
          /\ reply' \in [Handlers -> Replies]
      BY DEF TypeInv, TypeOK, Fail, Goto
    <2>5. faults' \in 0 .. MaxFaults /\ cut' \subseteq Handlers \X Keys
      BY FaultTypes DEF TypeInv
    <2> QED
      BY <2>2, <2>3, <2>4, <2>5 DEF TypeInv, TypeOK
  <1>3. JobFacts'
    BY <1>1 DEF TypeInv, TypeOK, JobFacts, Fail, Goto, Past, InFlight
  <1>4. UndoLists'
    <2>1. \A g \in Handlers : RequestKey(g)' = RequestKey(g) /\ job'[g] = job[g]
      BY SameJobs
    <2>2. /\ todo'[h] = keys
          /\ \A g \in Handlers \ {h} : pc'[g] = pc[g] /\ todo'[g] = todo[g]
      BY DEF TypeInv, TypeOK, Fail, Goto
    <2>3. \A i \in 1 .. Len(keys) :
            \/ keys[i] = RequestKey(h)
            \/ /\ \E u \in Users : keys[i] = LockKey(u)
               /\ job[h].kind = "buy" => i = Len(keys)
      BY <1>1, FailLists
    <2>4. ASSUME NEW g \in Handlers, pc'[g] = "Undo", NEW i \in 1 .. Len(todo'[g])
          PROVE  \/ todo'[g][i] = RequestKey(g)
                 \/ /\ \E u \in Users : todo'[g][i] = LockKey(u)
                    /\ job[g].kind = "buy" => i = Len(todo'[g])
      <3>1. CASE g = h
        BY <2>2, <2>3, <2>4, <3>1
      <3>2. CASE g # h
        BY <2>2, <2>4, <3>2 DEF TypeInv, UndoLists
      <3> QED
        BY <3>1, <3>2
    <2> QED
      BY <2>1, <2>4 DEF UndoLists, LockKey
  <1> QED
    BY <1>2, <1>3, <1>4 DEF TypeInv

\* A request that arrives keeps the types: its locks are those of users, since a
\* receiver without a row is answered at once.
LEMMA StartTypes ==
    ASSUME TypeInv, NEW h \in Handlers, NEW j \in Jobs, Start(h, j)
    PROVE  TypeInv'
  <1> USE DEF Start, At, Goto, Answer
  <1>1. /\ job' = [job EXCEPT ![h] = j] /\ job'[h] = j /\ pc[h] = "Idle" /\ taken[h] = 0
        /\ \A g \in Handlers \ {h} : job'[g] = job[g] /\ pc'[g] = pc[g]
    BY DEF TypeInv, TypeOK, JobFacts
  <1>2. j.kind \in {"buy", "transfer"} /\ j.user \in Users /\ Len(Locked(j)) \in {1, 2}
    BY CheckoutAssumption DEF Locked
  <1>3. RequestKey(h)' \in Keys
    BY <1>1, <1>2 DEF RequestKey, Keys
  <1>4. TypeOK'
    <2>1. raced' \subseteq Keys
      BY <1>3 DEF TypeInv, TypeOK
    <2>2. job' \in [Handlers -> Jobs \cup {NoJob}] /\ reply' \in [Handlers -> Replies]
      BY DEF TypeInv, TypeOK, Replies
    <2>3. /\ pc' \in [Handlers -> {"Idle", "GetRequest", "SetRequest", "SetLock", "GetMerch",
                                  "GetPrice", "GetBalance", "Send", "Undo", "Done"}]
          /\ \A g \in Handlers : pc'[g] = "Undo" => todo[g] # <<>>
      BY DEF TypeInv, TypeOK
    <2> QED
      BY <2>1, <2>2, <2>3 DEF TypeInv, TypeOK
  <1>5. JobFacts'
    <2>1. pc'[h] = "GetRequest" =>
            \A i \in 1 .. Len(Locked(j)) : Locked(j)[i] \in Users
      <3>1. CASE j.kind = "buy"
        BY <1>2, <3>1 DEF Locked
      <3>2. CASE j.kind = "transfer"
        <4>1. pc'[h] = "GetRequest" => j.item \in Users
          BY <1>1, <3>2 DEF Registered, TypeInv, TypeOK
        <4> QED
          BY <1>2, <3>2, <4>1 DEF Locked
      <3> QED
        BY <1>2, <3>1, <3>2
    <2>2. pc'[h] \in {"GetRequest", "Done"} /\ taken' = taken /\ posted' = posted
      BY DEF TypeInv, TypeOK
    <2> QED
      BY <1>1, <1>2, <2>1, <2>2 DEF TypeInv, JobFacts, InFlight, Past
  <1>6. UndoLists'
    BY <1>1 DEF TypeInv, TypeOK, UndoLists, RequestKey
  <1> QED
    BY <1>4, <1>5, <1>6 DEF TypeInv

\* A deletion keeps the types: what remains of the list is not empty until Done.
LEMMA UndoTypes == ASSUME TypeInv, NEW h \in Handlers, Undo(h) PROVE TypeInv'
  <1>1. /\ pc[h] = "Undo" /\ UNCHANGED <<job, taken, reply, balance, posted, raced>>
        /\ \/ NextKey(h) /\ (Fault(h) \/ NoFault)
           \/ SentAgain(h) /\ UNCHANGED <<pc, todo>>
    BY DEF Undo, At
  <1>2. /\ todo[h] \in Seq(Keys) /\ todo[h] # <<>> /\ Head(todo[h]) \in Keys
        /\ Tail(todo[h]) \in Seq(Keys) /\ Len(Tail(todo[h])) = Len(todo[h]) - 1
        /\ \A i \in 1 .. Len(Tail(todo[h])) : Tail(todo[h])[i] = todo[h][i + 1]
    BY <1>1 DEF TypeInv, TypeOK
  <1>3. lapsed' \subseteq Handlers \X Users
    <2>1. ASSUME NEW k \in Keys PROVE Robbed(h, k) \subseteq Handlers \X Users
      <3>1. ASSUME NEW l \in Robbed(h, k) PROVE l \in Handlers \X Users
        <4>1. PICK u \in Users : l = <<store[k], u>> /\ store[k] # Nobody
          BY <3>1 DEF Robbed
        <4>2. store[k] \in Handlers
          BY <4>1 DEF TypeInv, TypeOK
        <4> QED
          BY <4>1, <4>2
      <3> QED
        BY <3>1
    <2>2. ASSUME NEW k \in Keys PROVE Released(h, k) \subseteq Handlers \X Users
      BY DEF Released
    <2>3. \/ lapsed' = lapsed
          \/ lapsed' = lapsed \cup Robbed(h, Head(todo[h]))
          \/ lapsed' = lapsed \cup Robbed(h, Head(todo[h])) \cup Released(h, Head(todo[h]))
      BY DEF Undo
    <2> QED
      BY <1>2, <2>1, <2>2, <2>3 DEF TypeInv, TypeOK
  <1>4. store' \in [Keys -> Handlers \cup {Nobody}]
    BY <1>2 DEF Undo, Put, TypeInv, TypeOK
  <1>5. CASE SentAgain(h) /\ UNCHANGED <<pc, todo>>
    BY <1>1, <1>3, <1>4, <1>5, StayTypes
  <1>6. CASE NextKey(h) /\ (Fault(h) \/ NoFault)
    <2> USE <1>6 DEF NextKey, Goto
    <2>1. TypeOK'
      <3>1. faults' \in 0 .. MaxFaults /\ cut' \subseteq Handlers \X Keys
        BY FaultTypes DEF TypeInv
      <3>2. todo' \in [Handlers -> Seq(Keys)]
        BY <1>2 DEF TypeInv, TypeOK
      <3>3. \A g \in Handlers : pc'[g] = "Undo" => todo'[g] # <<>>
        <4>1. Len(todo[h]) \in Nat \ {0}
          BY <1>2
        <4>2. Len(todo[h]) # 1 => Tail(todo[h]) # <<>>
          <5>1. Len(todo[h]) # 1 => Len(Tail(todo[h])) # 0
            BY <1>2, <4>1
          <5>2. Len(<<>>) = 0
            OBVIOUS
          <5> QED
            BY ONLY <5>1, <5>2
        <4> QED
          BY <4>2 DEF TypeInv, TypeOK
      <3>4. pc' \in [Handlers -> {"Idle", "GetRequest", "SetRequest", "SetLock", "GetMerch",
                                 "GetPrice", "GetBalance", "Send", "Undo", "Done"}]
        BY DEF TypeInv, TypeOK
      <3> QED
        BY <1>1, <1>3, <1>4, <3>1, <3>2, <3>3, <3>4 DEF TypeInv, TypeOK
    <2>2. JobFacts'
      BY <1>1 DEF TypeInv, TypeOK, JobFacts, Past, InFlight
    <2>3. UndoLists'
      <3>1. /\ todo'[h] = Tail(todo[h])
            /\ \A g \in Handlers \ {h} : todo'[g] = todo[g] /\ pc'[g] = pc[g]
        BY DEF TypeInv, TypeOK
      <3>2. \A g : RequestKey(g)' = RequestKey(g)
        BY <1>1, SameJobs
      <3> QED
        BY <1>1, <1>2, <3>1, <3>2 DEF TypeInv, UndoLists
    <2> QED
      BY <2>1, <2>2, <2>3 DEF TypeInv
  <1> QED
    BY <1>1, <1>5, <1>6

\* The check of the request id, its setting, and the event.
LEMMA SimpleCallTypes ==
    ASSUME TypeInv, NEW h \in Handlers, GetRequest(h) \/ SetRequest(h)
    PROVE  TypeInv'
  <1> DEFINE moves == (Fault(h) \/ NoFault)
                         /\ \E call \in {"SetRequest", "SetLock", "Done"} : Goto(h, call)
  <1>1. InFlight(h) /\ pc[h] # "Undo" /\ taken[h] = 0 /\ taken' = taken
    BY DEF GetRequest, SetRequest, At, InFlight, TypeInv, JobFacts
  <1>2. moves \/ (SentAgain(h) /\ UNCHANGED <<pc, reply>>)
    BY DEF GetRequest, SetRequest, Answer
  <1>3. reply' \in [Handlers -> Replies]
    BY DEF GetRequest, SetRequest, Answer, Replies, TypeInv, TypeOK
  <1>4. store' \in [Keys -> Handlers \cup {Nobody}]
    BY DEF GetRequest, SetRequest, Put, TypeInv, TypeOK
  <1>5. UNCHANGED <<job, todo, balance, raced, lapsed, posted>> /\ h \notin posted
    BY DEF GetRequest, SetRequest, At, TypeInv, JobFacts
  <1>6. /\ taken' \in [Handlers -> 0 .. 2] /\ taken'[h] = 0
        /\ 0 < Len(Locked(job[h])) /\ 0 <= Len(Locked(job[h]))
    BY <1>1, LockCount DEF TypeInv, TypeOK
  <1>7. CASE SentAgain(h) /\ UNCHANGED <<pc, reply>>
    <2>1. lapsed' \subseteq Handlers \X Users
      BY <1>5 DEF TypeInv, TypeOK
    <2> QED
      BY <1>1, <1>4, <1>5, <1>7, <2>1, StayTypes
  <1>8. CASE moves
    <2>1. PICK call \in {"SetRequest", "SetLock", "Done"} : Goto(h, call)
      BY <1>8
    <2> QED
      BY <1>1, <1>3, <1>4, <1>5, <1>6, <1>8, <2>1, MoveTypes DEF Past
  <1> QED
    BY <1>2, <1>7, <1>8

\* A lock keeps the types: the handler goes on only when it has them all.
LEMMA SetLockTypes == ASSUME TypeInv, NEW h \in Handlers, SetLock(h) PROVE TypeInv'
  <1> DEFINE k == LockKeys(h)[taken[h] + 1]
             n == taken[h] + 1
             next == IF n = Len(LockKeys(h)) THEN AfterLocks(h) ELSE "SetLock"
  <1>1. /\ InFlight(h) /\ pc[h] = "SetLock" /\ h \notin posted
        /\ taken[h] \in Nat /\ taken[h] < Len(Locked(job[h]))
        /\ UNCHANGED <<job, balance, posted, raced, lapsed>>
    BY DEF SetLock, At, InFlight, TypeInv, TypeOK, JobFacts
  <1>2. store' \in [Keys -> Handlers \cup {Nobody}]
    BY DEF SetLock, Put, TypeInv, TypeOK
  <1>3. CASE Refuse(h) /\ UNCHANGED taken /\ (Fault(h) \/ NoFault)
    BY <1>1, <1>2, <1>3, FailTypes DEF Refuse, Past, Replies
  <1>4. CASE /\ taken' = [taken EXCEPT ![h] = @ + 1] /\ NoFault /\ UNCHANGED <<reply, todo>>
             /\ Goto(h, IF taken'[h] = Len(LockKeys(h)) THEN AfterLocks(h) ELSE "SetLock")
    <2>1. /\ Len(Locked(job[h])) \in Nat /\ Len(Locked(job[h])) <= 2
          /\ Len(LockKeys(h)) = Len(Locked(job[h]))
      BY <1>1, LockCount
    <2>2. n \in 0 .. 2 /\ n <= Len(Locked(job[h]))
      BY <1>1, <2>1
    <2>3. /\ taken' \in [Handlers -> 0 .. 2] /\ taken'[h] = n
          /\ \A g \in Handlers \ {h} : taken'[g] = taken[g]
      BY <1>4, <2>2 DEF TypeInv, TypeOK
    <2>4. Goto(h, next)
      BY <1>4, <2>3
    <2>5. /\ next \in Past
          /\ next = "SetLock" => n < Len(Locked(job[h]))
          /\ next # "SetLock" => n = Len(Locked(job[h]))
      BY <1>1, <2>1, <2>2 DEF AfterLocks, Past
    <2>6. reply' \in [Handlers -> Replies]
      BY <1>4 DEF TypeInv, TypeOK
    <2> HIDE DEF n, next
    <2> QED
      BY <1>1, <1>2, <1>4, <2>2, <2>3, <2>4, <2>5, <2>6, MoveTypes DEF Past
  <1>5. CASE Fault(h) /\ UNCHANGED <<pc, reply, todo, taken>>
    <2>1. lapsed' \subseteq Handlers \X Users
      BY <1>1 DEF TypeInv, TypeOK
    <2> QED
      BY <1>1, <1>2, <1>5, <2>1, StayTypes
  <1> QED
    BY <1>3, <1>4, <1>5 DEF SetLock

\* The calls after the locks, which leave the locks as they are.
LEMMA LookupTypes ==
    ASSUME TypeInv, NEW h \in Handlers,
           GetMerch(h) \/ GetPrice(h) \/ GetBalance(h) \/ Send(h)
    PROVE  TypeInv'
  <1> USE DEF GetMerch, GetPrice, GetBalance, Send
  <1>1. /\ InFlight(h) /\ pc[h] \in Past \ {"SetLock"} /\ h \notin posted
        /\ taken[h] = Len(Locked(job[h])) /\ taken' \in [Handlers -> 0 .. 2]
        /\ taken'[h] <= Len(Locked(job[h]))
        /\ UNCHANGED <<job, taken, store, balance, raced, lapsed>> /\ (Fault(h) \/ NoFault)
    BY DEF At, InFlight, Past, TypeInv, TypeOK, JobFacts
  <1>2. store' \in [Keys -> Handlers \cup {Nobody}]
    BY <1>1 DEF TypeInv, TypeOK
  <1>3. CASE \E r \in Replies : Fail(h, r, UndoKeys(h)) /\ UNCHANGED posted
    BY <1>1, <1>2, <1>3, FailTypes
  <1>4. CASE /\ \E call \in {"GetPrice", "GetBalance", "Send"} : Goto(h, call)
             /\ UNCHANGED <<reply, todo, posted>>
    <2>1. reply' \in [Handlers -> Replies]
      BY <1>4 DEF TypeInv, TypeOK
    <2> QED
      BY <1>1, <1>2, <1>4, <2>1, MoveTypes DEF Past
  <1>5. CASE posted' = posted \cup {h} /\ Answer(h, "Accepted") /\ UNCHANGED todo
    <2>1. reply' \in [Handlers -> Replies] /\ Goto(h, "Done")
      BY <1>5 DEF Answer, Replies, TypeInv, TypeOK
    <2> QED
      BY <1>1, <1>2, <1>5, <2>1, MoveTypes DEF Past
  <1> QED
    BY <1>3, <1>4, <1>5 DEF Replies

\* A request that is cut off has no key to delete.
LEMMA CancelTypes == ASSUME TypeInv, NEW h \in Handlers, Cancel(h) PROVE TypeInv'
  <1> USE DEF Cancel, Answer, Goto
  <1>1. TypeOK'
    BY CheckoutAssumption DEF TypeInv, TypeOK, Replies
  <1>2. JobFacts'
    BY DEF TypeInv, TypeOK, JobFacts, InFlight, Past
  <1>3. UndoLists'
    BY SameJobs DEF TypeInv, TypeOK, UndoLists
  <1> QED
    BY <1>1, <1>2, <1>3 DEF TypeInv

\* What is not a handler's: the lock's expiry and the consumer.
LEMMA OutsideTypes ==
    ASSUME TypeInv, (\E u \in Users : Expire(u) \/ Settle(u)) \/ UNCHANGED vars
    PROVE  TypeInv'
  <1>1. UNCHANGED <<pc, job, taken, todo, reply, posted, faults, cut, raced>>
    BY DEF Expire, Settle, vars
  <1>2. balance' \in [Users -> Balances]
    BY DEF Expire, Settle, vars, TypeInv, TypeOK
  <1>3. store' \in [Keys -> Handlers \cup {Nobody}] /\ lapsed' \subseteq Handlers \X Users
    <2>1. CASE \E u \in Users : Expire(u)
      BY <2>1, KeyFacts DEF Expire, Put, Free, TypeInv, TypeOK
    <2> QED
      BY <2>1 DEF Settle, vars, TypeInv, TypeOK
  <1>4. TypeOK'
    BY <1>1, <1>2, <1>3 DEF TypeInv, TypeOK
  <1>5. JobFacts' /\ UndoLists'
    BY <1>1, SameJobs DEF TypeInv, JobFacts, UndoLists, InFlight
  <1> QED
    BY <1>4, <1>5 DEF TypeInv

\* Every step keeps the types.
LEMMA TypeStep == TypeInv /\ [Next]_vars => TypeInv'
  BY StartTypes, SimpleCallTypes, SetLockTypes, LookupTypes, UndoTypes, CancelTypes,
     OutsideTypes DEF Next, Call

\* The types hold at the start.
LEMMA TypeInit == Init => TypeInv
  <1> SUFFICES ASSUME Init PROVE TypeInv
    OBVIOUS
  <1>1. TypeOK
    BY CheckoutAssumption DEF Init, TypeOK, Replies
  <1>2. JobFacts /\ UndoLists
    BY DEF Init, JobFacts, UndoLists, InFlight, Past
  <1> QED
    BY <1>1, <1>2 DEF TypeInv

\* The variables keep their types, for any requests and failures.
THEOREM TypeCorrect == Spec => []TypeOK
  <1>1. TypeInv => TypeOK
    BY DEF TypeInv
  <1> QED
    BY <1>1, TypeInit, TypeStep, PTL DEF Spec

-----------------------------------------------------------------------------
(* Locks                                                                   *)

\* A step of h leaves what the other handlers have alone.
OwnStep(h) ==
    /\ \A g \in Handlers \ {h} :
          pc'[g] = pc[g] /\ job'[g] = job[g] /\ taken'[g] = taken[g] /\ todo'[g] = todo[g]
    /\ posted \subseteq posted' /\ posted' \subseteq posted \cup {h}
    /\ lapsed \subseteq lapsed'

\* It keeps LocksOwned if it takes no lock from another without a note in lapsed,
\* and if the locks h itself counts on afterwards are its own.
LEMMA OwnStepLocks ==
    ASSUME LocksOwned, NEW h \in Handlers, OwnStep(h),
           \A u \in Users : Entitled(h, u)' =>
               store'[LockKey(u)] = h \/ <<h, u>> \in lapsed',
           \A u \in Users : \A g \in Handlers \ {h} :
               store[LockKey(u)] = g => store'[LockKey(u)] = g \/ <<g, u>> \in lapsed'
    PROVE  LocksOwned'
  <1>1. ASSUME NEW g \in Handlers \ {h}, NEW u \in Users, Entitled(g, u)'
        PROVE  Entitled(g, u)
    BY <1>1 DEF OwnStep, Entitled, Holds, Listed
  <1> QED
    BY <1>1 DEF LocksOwned, OwnStep

\* Before the first lock nothing is claimed.
LEMMA StartLocks ==
    ASSUME TypeInv, LocksOwned, NEW h \in Handlers,
           (\E j \in Jobs : Start(h, j)) \/ GetRequest(h) \/ SetRequest(h)
    PROVE  LocksOwned'
  <1> USE DEF Start, GetRequest, SetRequest, At, Goto, Answer
  <1>1. taken[h] = 0 /\ UNCHANGED <<taken, todo, posted, lapsed>> /\ pc'[h] # "Undo"
    BY DEF TypeInv, TypeOK, JobFacts
  <1>2. OwnStep(h)
    BY DEF OwnStep, TypeInv, TypeOK
  <1>3. \A u \in Users : ~Entitled(h, u)'
    BY <1>1 DEF Entitled, Holds
  <1>4. \A u \in Users : store'[LockKey(u)] = store[LockKey(u)]
    BY KeyFacts, RequestKeyType DEF Put, TypeInv, TypeOK
  <1> QED
    BY <1>2, <1>3, <1>4, OwnStepLocks

\* A request that fails: a refused purchase has no lock to delete.
LEMMA FailLocks ==
    ASSUME TypeInv, LocksOwned, NEW h \in Handlers, pc[h] \in Past,
           NEW r \in Replies, NEW keys \in {UndoKeys(h), RefusedKeys(h)}, Fail(h, r, keys),
           pc[h] = "SetLock" => keys = RefusedKeys(h),
           UNCHANGED <<job, taken, posted, lapsed>>,
           \A u \in Users : store[LockKey(u)] # Nobody => store'[LockKey(u)] = store[LockKey(u)]
    PROVE  LocksOwned'
  <1>1. InFlight(h) /\ h \notin posted
    BY DEF Past, InFlight, TypeInv, JobFacts
  <1>2. OwnStep(h) /\ pc'[h] = "Undo" /\ todo'[h] = keys
    BY DEF OwnStep, Fail, Goto, TypeInv, TypeOK
  <1>3. ASSUME NEW u \in Users, Entitled(h, u)' PROVE Entitled(h, u)
    <2>1. job[h].kind = "buy" /\ \E i \in 1 .. Len(keys) : keys[i] = LockKey(u)
      BY <1>1, <1>2, <1>3 DEF Entitled, Holds, Listed
    <2>2. keys # RefusedKeys(h) /\ u = job[h].user
      BY <1>1, <2>1, FailLists
    <2>3. Locked(job[h]) = <<u>> /\ taken[h] = 1 /\ pc[h] \in Past \ {"SetLock"}
      BY <1>1, <2>1, <2>2, LockedUsers DEF TypeInv, JobFacts
    <2> QED
      BY <2>3 DEF Entitled, Holds, Past
  <1>4. ASSUME NEW g \in Handlers, NEW u \in Users, store[LockKey(u)] = g
        PROVE  store'[LockKey(u)] = g
    BY <1>4, CheckoutAssumption
  <1> QED
    BY <1>2, <1>3, <1>4, OwnStepLocks DEF LocksOwned

\* A lock that is taken belongs to its handler; one that is not is left alone.
LEMMA SetLockLocks ==
    ASSUME TypeInv, LocksOwned, NEW h \in Handlers, SetLock(h)
    PROVE  LocksOwned'
  <1> DEFINE k == LockKeys(h)[taken[h] + 1]
             v == Locked(job[h])[taken[h] + 1]
  <1>1. /\ InFlight(h) /\ pc[h] = "SetLock" /\ h \notin posted
        /\ taken[h] \in Nat /\ taken[h] + 1 \in 1 .. Len(Locked(job[h]))
        /\ UNCHANGED <<job, balance, posted, raced, lapsed>>
    BY NextLock DEF SetLock, At
  <1>2. v \in Users /\ k = LockKey(v) /\ k \in Keys
    BY <1>1, NextLock
  <1>3. \A u \in Users : store[LockKey(u)] # Nobody => store'[LockKey(u)] = store[LockKey(u)]
    BY <1>2, KeyFacts DEF SetLock, Put, Free, TypeInv, TypeOK
  <1>4. CASE Refuse(h) /\ UNCHANGED taken
    BY <1>1, <1>3, <1>4, FailLocks DEF Refuse, Past, Replies
  <1>5. CASE /\ Put(h, k) /\ taken' = [taken EXCEPT ![h] = @ + 1]
             /\ Goto(h, IF taken'[h] = Len(LockKeys(h)) THEN AfterLocks(h) ELSE "SetLock")
             /\ UNCHANGED <<reply, todo>>
    <2>1. OwnStep(h) /\ pc'[h] # "Undo" /\ taken'[h] = taken[h] + 1
      BY <1>1, <1>5 DEF OwnStep, Goto, AfterLocks, TypeInv, TypeOK
    <2>2. ASSUME NEW u \in Users, Entitled(h, u)', u # v
          PROVE  Entitled(h, u)
      <3>1. PICK i \in 1 .. taken'[h] : Locked(job[h])[i] = u
        BY <1>1, <2>1, <2>2 DEF Entitled, Holds
      <3>2. i \in 1 .. taken[h] + 1 /\ i # taken[h] + 1
        BY <2>1, <2>2, <3>1
      <3>3. i \in 1 .. taken[h]
        BY <1>1, <3>2
      <3> QED
        BY <1>1, <3>1, <3>3 DEF Entitled, Holds
    <2>3. /\ store'[LockKey(v)] = h
          /\ \A u \in Users : u # v => store'[LockKey(u)] = store[LockKey(u)]
      BY <1>2, <1>5, KeyFacts DEF Put, TypeInv, TypeOK
    <2>4. ASSUME NEW g \in Handlers, NEW u \in Users, store[LockKey(u)] = g
          PROVE  store'[LockKey(u)] = g
      BY <1>3, <2>4, CheckoutAssumption
    <2> QED
      BY <1>1, <2>1, <2>2, <2>3, <2>4, OwnStepLocks DEF LocksOwned
  <1>6. CASE Put(h, k) /\ UNCHANGED <<pc, todo, taken>>
    <2>1. OwnStep(h)
      BY <1>1, <1>6 DEF OwnStep
    <2>2. \A u \in Users : Entitled(h, u)' => Entitled(h, u)
      BY <1>1, <1>6 DEF Entitled, Holds, Listed
    <2>3. ASSUME NEW g \in Handlers, NEW u \in Users, store[LockKey(u)] = g
          PROVE  store'[LockKey(u)] = g
      BY <1>3, <2>3, CheckoutAssumption
    <2> QED
      BY <1>1, <2>1, <2>2, <2>3, OwnStepLocks DEF LocksOwned
  <1> QED
    BY <1>4, <1>5, <1>6 DEF SetLock

\* After its locks a request keeps them until it fails.
LEMMA LookupLocks ==
    ASSUME TypeInv, LocksOwned, NEW h \in Handlers,
           GetMerch(h) \/ GetPrice(h) \/ GetBalance(h) \/ Send(h) \/ Cancel(h)
    PROVE  LocksOwned'
  <1> USE DEF GetMerch, GetPrice, GetBalance, Send
  <1>1. UNCHANGED <<job, taken, store, lapsed>>
    BY DEF Cancel
  <1>2. CASE /\ pc[h] \in Past \ {"SetLock"} /\ UNCHANGED posted
             /\ \E r \in Replies : Fail(h, r, UndoKeys(h))
    BY <1>1, <1>2, FailLocks
  <1>3. CASE /\ pc[h] \in Past \/ (h \notin posted' /\ pc'[h] = "Done")
             /\ pc'[h] # "Undo" /\ OwnStep(h)
    <2>1. ASSUME NEW u \in Users, Entitled(h, u)' PROVE Entitled(h, u)
      <3>1. Holds(h, u)'
        BY <1>3, <2>1 DEF Entitled
      <3>2. pc[h] \in Past /\ \E i \in 1 .. taken[h] : Locked(job[h])[i] = u
        BY <1>1, <1>3, <3>1 DEF Holds
      <3> QED
        BY <3>2 DEF Entitled, Holds, Past
    <2> QED
      BY <1>1, <1>3, <2>1, OwnStepLocks DEF LocksOwned
  <1>4. CASE Cancel(h)
    <2>1. OwnStep(h) /\ pc'[h] = "Done" /\ h \notin posted'
      BY <1>4 DEF Cancel, Answer, Goto, OwnStep, InFlight, TypeInv, TypeOK, JobFacts
    <2> QED
      BY <1>3, <2>1
  <1>5. CASE Send(h) /\ Answer(h, "Accepted") /\ posted' = posted \cup {h} /\ UNCHANGED todo
    <2>1. OwnStep(h) /\ pc'[h] = "Done" /\ pc[h] = "Send"
      BY <1>1, <1>5 DEF Answer, Goto, At, OwnStep, TypeInv, TypeOK
    <2> QED
      BY <1>3, <2>1 DEF Past
  <1>6. CASE /\ pc[h] \in Past \ {"SetLock"} /\ UNCHANGED <<posted, todo>>
             /\ \E call \in {"GetPrice", "GetBalance", "Send"} : Goto(h, call)
    <2>1. OwnStep(h) /\ pc'[h] # "Undo"
      BY <1>1, <1>6 DEF Goto, OwnStep, TypeInv, TypeOK
    <2> QED
      BY <1>3, <1>6, <2>1
  <1>7. GetMerch(h) \/ GetPrice(h) \/ GetBalance(h) \/ Send(h) => pc[h] \in Past \ {"SetLock"}
    BY DEF At, Past
  <1> QED
    BY <1>2, <1>4, <1>5, <1>6, <1>7 DEF Replies

\* A lock that is deleted under its holder is noted: a purchase deletes its own
\* lock only, which may be another's by then if it lapsed before.
LEMMA UndoLocks ==
    ASSUME TypeInv, LocksOwned, NEW h \in Handlers, Undo(h)
    PROVE  LocksOwned'
  <1> DEFINE k == Head(todo[h])
  <1>1. /\ todo[h] \in Seq(Keys) /\ todo[h] # <<>> /\ k \in Keys /\ k = todo[h][1]
        /\ Len(todo[h]) \in Nat \ {0} /\ Len(Tail(todo[h])) = Len(todo[h]) - 1
        /\ \A i \in 1 .. Len(Tail(todo[h])) : Tail(todo[h])[i] = todo[h][i + 1]
    BY DEF Undo, At, TypeInv, TypeOK
  <1>2. /\ pc[h] = "Undo" /\ h \notin posted' /\ UNCHANGED <<job, taken, posted>>
        /\ lapsed \subseteq lapsed'
        /\ \/ NextKey(h)
           \/ UNCHANGED <<pc, todo>> /\ Put(Nobody, k) /\ Released(h, k) \subseteq lapsed'
        /\ \/ UNCHANGED store
           \/ Put(Nobody, k) /\ Robbed(h, k) \subseteq lapsed'
    BY DEF Undo, At, TypeInv, JobFacts
  <1>3. OwnStep(h) /\ pc'[h] \in {"Undo", "Done"}
    BY <1>2 DEF OwnStep, NextKey, Goto, TypeInv, TypeOK
  <1>4. \A u \in Users : LockKey(u) # k => store'[LockKey(u)] = store[LockKey(u)]
    BY <1>2, KeyFacts DEF Put, TypeInv, TypeOK
  <1>5. ASSUME NEW u \in Users, Entitled(h, u)', NextKey(h)
        PROVE  Entitled(h, u) /\ LockKey(u) # k
    <2>0. todo'[h] = Tail(todo[h])
      BY <1>5 DEF NextKey, TypeInv, TypeOK
    <2>1. /\ job[h].kind = "buy"
          /\ \E i \in 1 .. Len(Tail(todo[h])) : Tail(todo[h])[i] = LockKey(u)
      BY <1>2, <1>3, <1>5, <2>0 DEF Entitled, Holds, Listed
    <2>2. PICK i \in 1 .. Len(Tail(todo[h])) : todo[h][i + 1] = LockKey(u)
      BY <1>1, <2>1
    <2>3. i + 1 \in 1 .. Len(todo[h]) /\ 1 \in 1 .. Len(todo[h]) /\ Len(todo[h]) # 1
      BY <1>1
    <2>4. k # LockKey(u)
      BY <1>1, <1>2, <2>1, <2>3, KeyFacts DEF TypeInv, UndoLists
    <2> QED
      BY <1>2, <2>1, <2>2, <2>3, <2>4 DEF Entitled, Listed
  <1>6. ASSUME NEW u \in Users, Entitled(h, u)', UNCHANGED <<pc, todo>>,
               Released(h, k) \subseteq lapsed'
        PROVE  store'[LockKey(u)] = h \/ <<h, u>> \in lapsed'
    <2>1. Entitled(h, u)
      BY <1>2, <1>6 DEF Entitled, Holds, Listed
    <2>2. store[LockKey(u)] = h \/ <<h, u>> \in lapsed
      BY <2>1 DEF LocksOwned
    <2> QED
      BY <1>2, <1>4, <1>6, <2>2 DEF Released
  <1>7. ASSUME NEW g \in Handlers \ {h}, NEW u \in Users, store[LockKey(u)] = g,
               store'[LockKey(u)] # g
        PROVE  <<g, u>> \in lapsed'
    <2>1. k = LockKey(u) /\ Robbed(h, k) \subseteq lapsed' /\ store[k] \notin {h, Nobody}
      BY <1>2, <1>4, <1>7, CheckoutAssumption
    <2>2. job[h].kind = "transfer" \/ <<h, u>> \in lapsed
      <3>1. Listed(h, k)
        BY <1>1 DEF Listed
      <3>2. job[h].kind = "buy" => Entitled(h, u)
        BY <1>2, <2>1, <3>1 DEF Entitled
      <3> QED
        BY <1>2, <1>7, <3>2, JobKinds DEF LocksOwned
    <2> QED
      BY <1>7, <2>1, <2>2 DEF Robbed
  <1>8. \A u \in Users : Entitled(h, u)' => store'[LockKey(u)] = h \/ <<h, u>> \in lapsed'
    BY <1>2, <1>4, <1>5, <1>6 DEF LocksOwned
  <1> QED
    BY <1>3, <1>7, <1>8, OwnStepLocks

\* A lock that expires is noted.
LEMMA ExpireLocks ==
    ASSUME TypeInv, LocksOwned, (\E u \in Users : Expire(u) \/ Settle(u)) \/ UNCHANGED vars
    PROVE  LocksOwned'
  <1>1. \A g \in Handlers, u \in Users : Entitled(g, u)' = Entitled(g, u)
    BY DEF Expire, Settle, vars, Entitled, Holds, Listed
  <1>2. CASE \E u \in Users : Expire(u)
    BY <1>1, <1>2, KeyFacts DEF Expire, Put, LocksOwned, TypeInv, TypeOK
  <1> QED
    BY <1>1, <1>2 DEF Settle, vars, LocksOwned

\* Every step keeps the locks owned.
LEMMA LocksStep == TypeInv /\ LocksOwned /\ [Next]_vars => LocksOwned'
  BY StartLocks, SetLockLocks, LookupLocks, UndoLocks, ExpireLocks DEF Next, Call

\* Two requests of a user are past the lock together only if the lock of one of
\* them went away: it expired, or it was deleted by a transfer that was refused
\* it or by a request whose own lock had expired or been deleted before.
THEOREM LocksExclude == Spec => []LockExclusive
  <1>1. Init => LocksOwned
    BY DEF Init, LocksOwned, Entitled, Holds
  <1>2. LocksOwned => LockExclusive
    BY DEF LocksOwned, LockExclusive, Entitled
  <1> QED
    BY <1>1, <1>2, TypeInit, TypeStep, LocksStep, PTL DEF Spec

-----------------------------------------------------------------------------
(* Keys left behind                                                        *)

\* The name a key carries is that of a handler, and not the one that says it is
\* absent.
LEMMA KeyOwners ==
    ASSUME TypeInv, NEW k \in Keys, NEW h \in Handlers
    PROVE  /\ store[k] # Nobody => store[k] \in Handlers
           /\ h # Nobody
  BY CheckoutAssumption DEF TypeInv, TypeOK

\* A step of h keeps KeysMinded if it gives no key to another, and if h still
\* minds those that are its own afterwards.
LEMMA OwnStepKeys ==
    ASSUME TypeInv, KeysMinded, NEW h \in Handlers, OwnStep(h), cut \subseteq cut',
           \A k \in Keys : store'[k] \in {store[k], Nobody, h},
           \A k \in Keys : store'[k] = h => Minded(h, k)' \/ Excused(h, k)'
    PROVE  KeysMinded'
  <1> SUFFICES ASSUME NEW k \in Keys, store'[k] # Nobody
               PROVE  Minded(store[k], k)' \/ Excused(store[k], k)'
    BY DEF KeysMinded
  <1>1. CASE store'[k] = h
    BY <1>1
  <1>2. CASE store'[k] # h
    <2>1. store'[k] = store[k] /\ store[k] \in Handlers \ {h}
      BY <1>2, KeyOwners
    <2>2. Minded(store[k], k) \/ Excused(store[k], k)
      BY <2>1, KeyOwners DEF KeysMinded
    <2>3. ASSUME NEW g \in Handlers \ {h}, Minded(g, k) PROVE Minded(g, k)'
      BY <2>3 DEF OwnStep, Minded, Listed, RequestKey
    <2>4. ASSUME NEW g \in Handlers, Excused(g, k) PROVE Excused(g, k)'
      BY <2>4 DEF OwnStep, Excused
    <2> QED
      BY <2>1, <2>2, <2>3, <2>4
  <1> QED
    BY <1>1, <1>2

\* A key that h has, it minds or is excused from; an excuse is for good.
LEMMA OwnKeys ==
    ASSUME TypeInv, KeysMinded, NEW h \in Handlers, NEW k \in Keys, store[k] = h
    PROVE  Minded(h, k) \/ Excused(h, k)
  BY KeyOwners DEF KeysMinded

LEMMA ExcusesStay ==
    ASSUME NEW h, NEW k, posted \subseteq posted', cut \subseteq cut', Excused(h, k)
    PROVE  Excused(h, k)'
  BY DEF Excused

\* Up to its first lock a request minds its request key only.
LEMMA StartKeys ==
    ASSUME TypeInv, KeysMinded, NEW h \in Handlers,
           (\E j \in Jobs : Start(h, j)) \/ GetRequest(h) \/ SetRequest(h)
    PROVE  KeysMinded'
  <1> USE DEF Start, GetRequest, SetRequest, At, Goto, Answer
  <1>1. OwnStep(h) /\ UNCHANGED <<todo, posted>> /\ cut \subseteq cut'
    <2>1. cut \subseteq cut'
      BY DEF Fault, SentAgain, NoFault
    <2> QED
      BY <2>1 DEF OwnStep, TypeInv, TypeOK
  <1>2. ASSUME NEW k \in Keys, store[k] = h
        PROVE  Excused(h, k) \/ (pc[h] = "SetRequest" /\ k = RequestKey(h))
    BY <1>2, OwnKeys DEF Minded, Past
  <1>3. CASE (\E j \in Jobs : Start(h, j)) \/ GetRequest(h)
    <2>1. UNCHANGED store /\ pc[h] # "SetRequest"
      BY <1>3
    <2>2. \A k \in Keys : store'[k] = h => Excused(h, k)'
      BY <1>1, <1>2, <2>1 DEF Excused
    <2> QED
      BY <1>1, <2>1, <2>2, OwnStepKeys
  <1>4. CASE SetRequest(h)
    <2>1. pc[h] = "SetRequest" /\ UNCHANGED job /\ RequestKey(h) \in Keys
      BY <1>4, RequestKeyType
    <2>2. \A k \in Keys : store'[k] \in {store[k], h} /\ (k # RequestKey(h) => store'[k] = store[k])
      BY <1>4, <2>1 DEF Put, TypeInv, TypeOK
    <2>3. pc'[h] \in {"SetRequest", "SetLock"} \/ (pc'[h] = "Done" /\ Fault(h))
      BY <1>4 DEF TypeInv, TypeOK
    <2>4. Minded(h, RequestKey(h))' \/ Excused(h, RequestKey(h))'
      <3>1. CASE pc'[h] \in {"SetRequest", "SetLock"}
        <4>1. (pc[h] \in Past \cup {"SetRequest"})'
          BY <3>1 DEF Past
        <4> QED
          BY <4>1 DEF Minded
      <3>2. CASE Fault(h)
        <4>1. RequestKey(h) \in Forsaken(h)
          BY <2>1 DEF Forsaken
        <4>2. <<h, RequestKey(h)>> \in cut'
          BY <3>2, <4>1 DEF Fault
        <4>3. RequestKey(h)' = RequestKey(h)
          BY <2>1, SameJobs
        <4> QED
          BY <4>2, <4>3 DEF Excused
      <3> QED
        BY <2>3, <3>1, <3>2
    <2>5. ASSUME NEW k \in Keys, store'[k] = h PROVE Minded(h, k)' \/ Excused(h, k)'
      <3>1. CASE k = RequestKey(h)
        <4>1. RequestKey(h)' = RequestKey(h)
          BY <2>1, SameJobs
        <4> QED
          BY <2>4, <3>1, <4>1
      <3>2. CASE k # RequestKey(h)
        BY <1>1, <1>2, <2>2, <2>5, <3>2 DEF Excused
      <3> QED
        BY <3>1, <3>2
    <2> QED
      BY <1>1, <2>2, <2>5, OwnStepKeys
  <1> QED
    BY <1>3, <1>4

\* A request that fails lists every key it has set, unless the call it failed at
\* gave it up.
LEMMA FailKeys ==
    ASSUME TypeInv, KeysMinded, NEW h \in Handlers, pc[h] \in Past,
           NEW r \in Replies, NEW keys \in {UndoKeys(h), RefusedKeys(h)}, Fail(h, r, keys),
           pc[h] # "SetLock" => keys = UndoKeys(h),
           UNCHANGED <<job, taken, posted, lapsed>>, cut \subseteq cut',
           \A k \in Keys : store'[k] \in {store[k], h},
           \A k \in Keys : store'[k] = h => store[k] = h \/ Minded(h, k) \/ Excused(h, k)'
    PROVE  KeysMinded'
  <1>1. InFlight(h) /\ h \notin posted /\ taken[h] \in Nat
    BY DEF Past, InFlight, TypeInv, TypeOK, JobFacts
  <1>2. OwnStep(h) /\ pc'[h] = "Undo" /\ todo'[h] = keys
    BY DEF OwnStep, Fail, Goto, TypeInv, TypeOK
  <1>3. ASSUME NEW k \in Keys, Minded(h, k) PROVE Minded(h, k)'
    <2>1. CASE k = RequestKey(h)
      BY <1>1, <1>2, <2>1, FailLists DEF Minded, Listed
    <2>2. CASE \E i \in 1 .. Len(Locked(job[h])) :
                  k = LockKey(Locked(job[h])[i]) /\ (i <= taken[h] \/ job[h].kind = "transfer")
      <3>1. PICK i \in 1 .. Len(Locked(job[h])) :
                   k = LockKey(Locked(job[h])[i]) /\ (i <= taken[h] \/ job[h].kind = "transfer")
        BY <2>2
      <3>2. Len(Locked(job[h])) \in Nat
        BY <1>1, LockCount
      <3>3. keys = UndoKeys(h) \/ job[h].kind = "transfer"
        <4>1. CASE job[h].kind = "buy" /\ pc[h] = "SetLock"
          <5>1. taken[h] < Len(Locked(job[h]))
            BY <4>1 DEF TypeInv, JobFacts
          <5>2. Len(Locked(job[h])) = 1
            BY <1>1, <4>1, LockedUsers
          <5>3. i <= taken[h]
            BY <3>1, <4>1
          <5> QED
            BY <1>1, <3>1, <5>1, <5>2, <5>3
        <4> QED
          BY <1>1, <4>1, JobKinds DEF InFlight
      <3>4. keys = UndoKeys(h)
        BY <1>1, <3>3, JobKinds DEF RefusedKeys, InFlight
      <3>5. keys[i + 1] = k /\ i + 1 \in 1 .. Len(keys)
        BY <1>1, <3>1, <3>2, <3>4, UndoneKeys
      <3> QED
        BY <1>2, <3>5 DEF Minded, Listed
    <2> QED
      BY <1>3, <2>1, <2>2 DEF Minded, Past
  <1>4. ASSUME NEW k \in Keys, store'[k] = h PROVE Minded(h, k)' \/ Excused(h, k)'
    BY <1>2, <1>3, <1>4, OwnKeys, ExcusesStay DEF OwnStep
  <1> QED
    BY <1>2, <1>4, OwnStepKeys

\* A lock that is set is one more key h minds; the lock of a purchase whose SetNX
\* got no reply is given up, and that of a transfer is deleted whoever set it.
LEMMA SetLockKeys ==
    ASSUME TypeInv, KeysMinded, NEW h \in Handlers, SetLock(h)
    PROVE  KeysMinded'
  <1>1. /\ InFlight(h) /\ pc[h] = "SetLock" /\ h \notin posted
        /\ taken[h] \in Nat /\ taken[h] + 1 \in 1 .. Len(Locked(job[h]))
        /\ UNCHANGED <<job, posted, lapsed>> /\ cut \subseteq cut'
    BY NextLock DEF SetLock, At, Fault, NoFault
  <1>2. PICK k \in Keys : k = LockKeys(h)[taken[h] + 1] /\ k = LockKey(Locked(job[h])[taken[h] + 1])
    BY <1>1, NextLock
  <1>3. Fault(h) => Minded(h, k) \/ Excused(h, k)'
    <2>1. CASE job[h].kind = "buy"
      <3>1. Len(Locked(job[h])) = 1 /\ Locked(job[h]) = <<job[h].user>>
        BY <1>1, <2>1, LockedUsers
      <3>2. k = LockKey(job[h].user)
        BY <1>1, <1>2, <3>1
      <3> QED
        BY <1>1, <2>1, <3>2 DEF Fault, Forsaken, Excused
    <2>2. CASE job[h].kind = "transfer"
      <3>1. Minded(h, k)
        BY <1>1, <1>2, <2>2 DEF Minded, Past
      <3> QED
        BY <3>1
    <2> QED
      BY <1>1, <2>1, <2>2, JobKinds DEF InFlight
  <1>4. CASE /\ Refuse(h) /\ UNCHANGED taken
             /\ UNCHANGED store \/ (Fault(h) /\ Put(h, k))
    <2>1. /\ \A l \in Keys : store'[l] \in {store[l], h}
          /\ \A l \in Keys : store'[l] = h => store[l] = h \/ (Fault(h) /\ l = k)
      BY <1>2, <1>4 DEF Put, TypeInv, TypeOK
    <2>2. \A l \in Keys : store'[l] = h => store[l] = h \/ Minded(h, l) \/ Excused(h, l)'
      BY <1>3, <2>1
    <2> QED
      BY <1>1, <1>4, <2>1, <2>2, FailKeys DEF Refuse, Past, Replies
  <1>5. CASE /\ Put(h, k) /\ taken' = [taken EXCEPT ![h] = @ + 1]
             /\ Goto(h, IF taken'[h] = Len(LockKeys(h)) THEN AfterLocks(h) ELSE "SetLock")
             /\ UNCHANGED <<reply, todo>>
    <2>1. OwnStep(h) /\ pc'[h] \in Past /\ taken'[h] = taken[h] + 1
      BY <1>1, <1>5 DEF OwnStep, Goto, AfterLocks, Past, TypeInv, TypeOK
    <2>2. \A l \in Keys : store'[l] = IF l = k THEN h ELSE store[l]
      BY <1>2, <1>5 DEF Put, TypeInv, TypeOK
    <2>3. Minded(h, k)'
      <3>1. taken[h] + 1 <= taken'[h]
        BY <1>1, <2>1
      <3> QED
        BY <1>1, <1>2, <2>1, <3>1 DEF Minded
    <2>4. ASSUME NEW l \in Keys, Minded(h, l) PROVE Minded(h, l)'
      <3>1. CASE l = RequestKey(h)
        BY <1>1, <2>1, <3>1, SameJobs DEF Minded
      <3>2. CASE \E i \in 1 .. Len(Locked(job[h])) :
                    l = LockKey(Locked(job[h])[i]) /\ (i <= taken[h] \/ job[h].kind = "transfer")
        <4>1. PICK i \in 1 .. Len(Locked(job[h])) :
                     l = LockKey(Locked(job[h])[i]) /\ (i <= taken[h] \/ job[h].kind = "transfer")
          BY <3>2
        <4>2. i <= taken'[h] \/ job[h].kind = "transfer"
          BY <1>1, <2>1, <4>1
        <4> QED
          BY <1>1, <2>1, <4>1, <4>2 DEF Minded
      <3> QED
        BY <1>1, <2>4, <3>1, <3>2 DEF Minded, Past
    <2>5. ASSUME NEW l \in Keys, store'[l] = h PROVE Minded(h, l)' \/ Excused(h, l)'
      BY <1>1, <2>2, <2>3, <2>4, <2>5, OwnKeys, ExcusesStay
    <2> QED
      BY <1>1, <2>1, <2>2, <2>5, OwnStepKeys
  <1>6. CASE Put(h, k) /\ Fault(h) /\ UNCHANGED <<pc, todo, taken>>
    <2>1. OwnStep(h)
      BY <1>1, <1>6 DEF OwnStep
    <2>2. \A l \in Keys : store'[l] = IF l = k THEN h ELSE store[l]
      BY <1>2, <1>6 DEF Put, TypeInv, TypeOK
    <2>3. ASSUME NEW l \in Keys, Minded(h, l) PROVE Minded(h, l)'
      BY <1>1, <1>6, <2>3, SameJobs DEF Minded, Listed
    <2>4. ASSUME NEW l \in Keys, store'[l] = h PROVE Minded(h, l)' \/ Excused(h, l)'
      BY <1>1, <1>3, <1>6, <2>2, <2>3, <2>4, OwnKeys, ExcusesStay
    <2> QED
      BY <1>1, <2>1, <2>2, <2>4, OwnStepKeys
  <1> QED
    BY <1>2, <1>4, <1>5, <1>6 DEF SetLock

\* The lookups touch no key; a request that fails in one lists all of its own.
LEMMA LookupKeys ==
    ASSUME TypeInv, KeysMinded, NEW h \in Handlers,
           GetMerch(h) \/ GetPrice(h) \/ GetBalance(h) \/ Send(h) \/ Cancel(h)
    PROVE  KeysMinded'
  <1> USE DEF GetMerch, GetPrice, GetBalance, Send
  <1>1. UNCHANGED <<job, taken, store, lapsed>> /\ cut \subseteq cut'
    BY DEF Cancel, Fault, NoFault
  <1>2. CASE /\ pc[h] \in Past \ {"SetLock"} /\ UNCHANGED posted
             /\ \E r \in Replies : Fail(h, r, UndoKeys(h))
    BY <1>1, <1>2, FailKeys
  <1>3. CASE /\ OwnStep(h)
             /\ \/ pc[h] \in Past /\ pc'[h] \in Past
                \/ \A k \in Keys : Excused(h, k)'
    <2>1. ASSUME NEW k \in Keys, store'[k] = h
          PROVE  Minded(h, k)' \/ Excused(h, k)'
      <3>1. Minded(h, k) \/ Excused(h, k)
        BY <1>1, <2>1, OwnKeys
      <3>2. pc[h] \in Past /\ pc'[h] \in Past /\ Minded(h, k) => Minded(h, k)'
        BY <1>1, SameJobs DEF Minded, Past
      <3> QED
        BY <1>1, <1>3, <3>1, <3>2, ExcusesStay DEF OwnStep
    <2>2. \A k \in Keys : store'[k] \in {store[k], Nobody, h}
      BY <1>1
    <2> QED
      BY <1>1, <1>3, <2>1, <2>2, OwnStepKeys
  <1>4. CASE Cancel(h)
    <2>1. OwnStep(h)
      BY <1>4 DEF Cancel, Answer, Goto, OwnStep, TypeInv, TypeOK
    <2>2. \A k \in Keys : Excused(h, k)'
      BY <1>4 DEF Cancel, Excused
    <2> QED
      BY <1>3, <2>1, <2>2
  <1>5. CASE Send(h) /\ Answer(h, "Accepted") /\ posted' = posted \cup {h} /\ UNCHANGED todo
    <2>1. OwnStep(h)
      BY <1>1, <1>5 DEF Answer, Goto, OwnStep, TypeInv, TypeOK
    <2>2. \A k \in Keys : Excused(h, k)'
      BY <1>5 DEF Excused
    <2> QED
      BY <1>3, <2>1, <2>2
  <1>6. CASE /\ pc[h] \in Past \ {"SetLock"} /\ UNCHANGED <<posted, todo>>
             /\ \E call \in {"GetPrice", "GetBalance", "Send"} : Goto(h, call)
    <2>1. OwnStep(h) /\ pc'[h] \in Past
      BY <1>1, <1>6 DEF Goto, OwnStep, Past, TypeInv, TypeOK
    <2> QED
      BY <1>3, <1>6, <2>1
  <1>7. GetMerch(h) \/ GetPrice(h) \/ GetBalance(h) \/ Send(h) => pc[h] \in Past \ {"SetLock"}
    BY DEF At, Past
  <1> QED
    BY <1>2, <1>4, <1>5, <1>6, <1>7 DEF Replies

\* A deletion takes the first key off the list; one that fails gives up that key,
\* and one that is sent again leaves the list as it is.
LEMMA UndoDeletes ==
    ASSUME TypeInv, KeysMinded, NEW h \in Handlers, Undo(h)
    PROVE  KeysMinded'
  <1>1. /\ todo[h] \in Seq(Keys) /\ todo[h] # <<>> /\ Head(todo[h]) = todo[h][1]
        /\ Len(todo[h]) \in Nat \ {0} /\ Len(Tail(todo[h])) = Len(todo[h]) - 1
        /\ \A i \in 1 .. Len(Tail(todo[h])) : Tail(todo[h])[i] = todo[h][i + 1]
    BY DEF Undo, At, TypeInv, TypeOK
  <1>2. PICK d \in Keys : d = Head(todo[h]) /\ d = todo[h][1]
    BY <1>1
  <1>3. /\ pc[h] = "Undo" /\ h \notin posted /\ UNCHANGED <<job, taken, posted>>
        /\ lapsed \subseteq lapsed' /\ cut \subseteq cut'
        /\ NextKey(h) \/ UNCHANGED <<pc, todo>>
        /\ store' = [store EXCEPT ![d] = Nobody] \/ (Fault(h) /\ UNCHANGED store)
    BY <1>2 DEF Undo, At, Put, Fault, SentAgain, NoFault, TypeInv, JobFacts
  <1>4. OwnStep(h)
    BY <1>3 DEF OwnStep, NextKey, Goto, TypeInv, TypeOK
  <1>5. \A k \in Keys : store'[k] \in {store[k], Nobody, h}
    BY <1>3 DEF TypeInv, TypeOK
  <1>6. ASSUME NEW k \in Keys, store'[k] = h, k # d, ~Excused(h, k) PROVE Minded(h, k)'
    <2>1. store[k] = h
      BY <1>3, <1>6 DEF TypeInv, TypeOK
    <2>2. Listed(h, k)
      BY <1>3, <1>6, <2>1, OwnKeys DEF Minded, Past
    <2>3. PICK i \in 1 .. Len(todo[h]) : todo[h][i] = k
      BY <2>2 DEF Listed
    <2>4. i - 1 \in 1 .. Len(Tail(todo[h])) /\ Tail(todo[h])[i - 1] = k /\ Len(todo[h]) # 1
      <3>1. i # 1
        BY <1>2, <1>6, <2>3
      <3>2. /\ i \in Nat /\ 1 <= i /\ i <= Len(todo[h]) /\ Len(todo[h]) \in Nat
            /\ Len(Tail(todo[h])) = Len(todo[h]) - 1
        BY <1>1
      <3>3. i - 1 \in 1 .. Len(Tail(todo[h])) /\ (i - 1) + 1 = i /\ Len(todo[h]) # 1
        <4>1. \A a, l \in Nat : 1 <= a /\ a <= l /\ a # 1 =>
                 a - 1 \in 1 .. l - 1 /\ (a - 1) + 1 = a /\ l # 1
          OBVIOUS
        <4> QED
          BY <3>1, <3>2, <4>1
      <3> QED
        BY <1>1, <2>3, <3>3
    <2>5. CASE NextKey(h)
      <3>1. pc'[h] = "Undo" /\ todo'[h] = Tail(todo[h])
        BY <2>4, <2>5 DEF NextKey, Goto, TypeInv, TypeOK
      <3> QED
        BY <2>4, <3>1 DEF Minded, Listed
    <2>6. CASE UNCHANGED <<pc, todo>>
      BY <1>3, <2>2, <2>6 DEF Minded, Listed
    <2> QED
      BY <1>3, <2>5, <2>6
  <1>7. ASSUME store'[d] = h PROVE Excused(h, d)'
    <2>1. Fault(h)
      BY <1>3, <1>7, KeyOwners DEF TypeInv, TypeOK
    <2> QED
      BY <1>2, <1>3, <2>1 DEF Fault, Forsaken, Excused
  <1>8. \A k \in Keys : store'[k] = h => Minded(h, k)' \/ Excused(h, k)'
    BY <1>3, <1>6, <1>7, ExcusesStay
  <1> QED
    BY <1>3, <1>4, <1>5, <1>8, OwnStepKeys

\* A lock that expires is nobody's.
LEMMA ExpireKeys ==
    ASSUME TypeInv, KeysMinded, (\E u \in Users : Expire(u) \/ Settle(u)) \/ UNCHANGED vars
    PROVE  KeysMinded'
  <1>1. /\ \A g, k : Minded(g, k)' = Minded(g, k)
        /\ UNCHANGED <<posted, cut>>
    BY DEF Expire, Settle, vars, Minded, Listed, RequestKey
  <1>2. CASE \E u \in Users : Expire(u)
    <2>1. \A k \in Keys : store'[k] \in {store[k], Nobody}
      BY <1>2 DEF Expire, Put, TypeInv, TypeOK
    <2> QED
      BY <1>1, <2>1 DEF KeysMinded, Excused
  <1>3. CASE UNCHANGED store
    BY <1>1, <1>3 DEF KeysMinded, Excused
  <1> QED
    BY <1>2, <1>3 DEF Settle, vars

\* Every step keeps the keys minded.
LEMMA KeysStep == TypeInv /\ KeysMinded /\ [Next]_vars => KeysMinded'
  BY StartKeys, SetLockKeys, LookupKeys, UndoDeletes, ExpireKeys DEF Next, Call

\* Whatever is in Redis was last set by a request that is still at work, that was
\* accepted, or whose client went away, or it is the key that a failing call gives
\* up: the request key that could not be set, the lock of a purchase whose SetNX
\* failed, the key that could not be deleted.  A request that fails anywhere else
\* has deleted all of its keys.
THEOREM NothingStays == Spec => []NothingLeftBehind
  <1>1. Init => KeysMinded
    BY DEF Init, KeysMinded
  <1>2. KeysMinded => NothingLeftBehind
    BY DEF KeysMinded, NothingLeftBehind, Minded, Excused, Past, InFlight
  <1> QED
    BY <1>1, <1>2, TypeInit, TypeStep, KeysStep, PTL DEF Spec

-----------------------------------------------------------------------------
(* One event per request id                                                *)

\* g and h have the same id after a step and did not meet.
Alike(g, h) == RequestKey(g)' = RequestKey(h)' /\ RequestKey(g)' \notin raced'

\* A step of h is right for the ids if it leaves the keys of the others that hold
\* one in place, sets its own, and does not join another of its id.
LEMMA OwnStepIds ==
    ASSUME IdInv, NEW h \in Handlers, OwnStep(h), raced \subseteq raced',
           \A g \in Handlers \ {h} :
               (pc[g] \in Past \/ g \in posted) /\ RequestKey(g) \notin raced' =>
                   store'[RequestKey(g)] # Nobody,
           (pc'[h] \in Past \/ h \in posted') /\ RequestKey(h)' \notin raced' =>
               (store[RequestKey(h)])' # Nobody,
           \A g \in Handlers \ {h} : Alike(g, h) =>
               /\ InFlight(h)' => ~InFlight(g)
               /\ g \in posted => h \notin posted' /\ (InFlight(h)' => pc'[h] = "GetRequest")
               /\ h \in posted' => g \notin posted /\ ~InFlight(g)
    PROVE  IdInv'
  <1>1. \A g \in Handlers \ {h} :
           /\ RequestKey(g)' = RequestKey(g) /\ InFlight(g)' = InFlight(g) /\ pc'[g] = pc[g]
           /\ g \in posted' <=> g \in posted
    BY DEF OwnStep, RequestKey, InFlight
  <1>2. ASSUME NEW g \in Handlers, (pc'[g] \in Past \/ g \in posted') /\ RequestKey(g)' \notin raced'
        PROVE  (store[RequestKey(g)])' # Nobody
    BY <1>1, <1>2
  <1>3. ASSUME NEW g \in Handlers, NEW i \in Handlers, SameId(g, i)'
        PROVE  /\ InFlight(g)' => ~InFlight(i)'
               /\ g \in posted' => i \notin posted' /\ (InFlight(i)' => pc'[i] = "GetRequest")
    <2>1. CASE g = h
      BY <1>1, <1>3, <2>1 DEF SameId, Alike
    <2>2. CASE i = h
      BY <1>1, <1>3, <2>2 DEF SameId, Alike
    <2>3. CASE g # h /\ i # h
      <3>1. SameId(g, i)
        BY <1>1, <1>3, <2>3 DEF SameId
      <3> QED
        BY <1>1, <2>3, <3>1 DEF IdInv
    <2> QED
      BY <2>1, <2>2, <2>3
  <1> QED
    BY <1>2, <1>3 DEF IdInv

\* A call of h, or its end, is right for the ids if the check lets it through
\* only when the key is absent, and if only a request that failed deletes a
\* request key, its own.
LEMMA MoveIds ==
    ASSUME TypeInv, IdInv, NEW h \in Handlers, InFlight(h), OwnStep(h), UNCHANGED <<job, raced>>,
           pc'[h] \notin {"Idle", "GetRequest"},
           pc[h] = "GetRequest" => h \notin posted' /\ (InFlight(h)' => store[RequestKey(h)] = Nobody),
           pc'[h] \in Past \/ h \in posted' =>
               pc[h] \in Past \/ store'[RequestKey(h)] # Nobody,
           \A k \in Keys : store[k] # Nobody /\ store'[k] = Nobody =>
               (\E u \in Users : k = LockKey(u)) \/ (k = RequestKey(h) /\ pc[h] = "Undo")
    PROVE  IdInv'
  <1>1. \A g : RequestKey(g)' = RequestKey(g)
    BY SameJobs
  <1>2. \A g \in Handlers : pc[g] \in Past \/ g \in posted => RequestKey(g) \in Keys
    BY RequestKeyType DEF Past, TypeInv, JobFacts
  <1>3. ASSUME NEW g \in Handlers \ {h}, Alike(g, h)
        PROVE  ~InFlight(g) /\ SameId(g, h) /\ SameId(h, g)
    BY <1>1, <1>3 DEF Alike, SameId, IdInv
  <1>4. ASSUME NEW g \in Handlers \ {h}, pc[g] \in Past \/ g \in posted, RequestKey(g) \notin raced
        PROVE  store'[RequestKey(g)] # Nobody
    <2>1. store[RequestKey(g)] # Nobody
      BY <1>4 DEF IdInv
    <2>2. ~(RequestKey(g) = RequestKey(h) /\ pc[h] = "Undo")
      BY <1>4 DEF IdInv, SameId, Past, InFlight
    <2> QED
      BY <1>2, <1>4, <2>1, <2>2, KeyFacts
  <1>5. (pc'[h] \in Past \/ h \in posted') /\ RequestKey(h) \notin raced =>
            store'[RequestKey(h)] # Nobody
    BY <1>2, KeyFacts DEF IdInv, Past
  <1>6. ASSUME NEW g \in Handlers \ {h}, Alike(g, h), g \in posted
        PROVE  h \notin posted' /\ ~InFlight(h)'
    <2>1. pc[h] = "GetRequest" /\ RequestKey(g) \notin raced /\ RequestKey(g) = RequestKey(h)
      BY <1>3, <1>6 DEF IdInv, SameId
    <2> QED
      BY <1>6, <2>1 DEF IdInv
  <1> QED
    BY <1>1, <1>3, <1>4, <1>5, <1>6, OwnStepIds

\* A request that arrives meets those of its id that are in flight, and is marked.
LEMMA StartIds ==
    ASSUME TypeInv, IdInv, NEW h \in Handlers, NEW j \in Jobs, Start(h, j)
    PROVE  IdInv'
  <1> USE DEF Start, At, Goto, Answer
  <1>1. /\ OwnStep(h) /\ raced \subseteq raced' /\ UNCHANGED <<store, posted>>
        /\ h \notin posted /\ pc'[h] \in {"GetRequest", "Done"}
    BY DEF OwnStep, TypeInv, TypeOK, JobFacts
  <1>2. ASSUME NEW g \in Handlers \ {h}, Alike(g, h), InFlight(h)'
        PROVE  ~InFlight(g)
    <2>1. raced' = raced \cup {k \in {RequestKey(h)'} :
                                  \E i \in Handlers : InFlight(i) /\ RequestKey(i) = k}
      BY <1>2 DEF InFlight, TypeInv, TypeOK
    <2>2. RequestKey(g) = RequestKey(h)' /\ RequestKey(g) \notin raced'
      BY <1>1, <1>2 DEF Alike, OwnStep, RequestKey
    <2> QED
      BY <2>1, <2>2
  <1>3. \A g \in Handlers \ {h} :
           (pc[g] \in Past \/ g \in posted) /\ RequestKey(g) \notin raced' =>
               store'[RequestKey(g)] # Nobody
    BY <1>1 DEF IdInv
  <1>4. pc'[h] \notin Past /\ (InFlight(h)' => pc'[h] = "GetRequest")
    BY <1>1 DEF Past, InFlight
  <1> QED
    BY <1>1, <1>2, <1>3, <1>4, OwnStepIds

\* A failed request deletes its request key, other calls none.
LEMMA CallIds ==
    ASSUME TypeInv, IdInv, "GetRequest" \notin FaultyCalls,
           NEW h \in Handlers, Call(h) \/ Cancel(h)
    PROVE  IdInv'
  <1> USE DEF At, Goto, Answer, Fail
  <1>1. InFlight(h) /\ OwnStep(h) /\ UNCHANGED <<job, raced>>
    <2>1. InFlight(h)
      BY DEF Call, Cancel, GetRequest, SetRequest, SetLock, GetMerch, GetPrice, GetBalance, Send,
             Undo, InFlight
    <2>2. UNCHANGED <<job, raced>>
      BY DEF Call, Cancel, GetRequest, SetRequest, SetLock, GetMerch, GetPrice, GetBalance, Send, Undo
    <2>3. OwnStep(h)
      BY DEF Call, Cancel, GetRequest, SetRequest, SetLock, GetMerch, GetPrice, GetBalance, Send,
             Undo, Refuse, NextKey, OwnStep, TypeInv, TypeOK
    <2> QED
      BY <2>1, <2>2, <2>3
  <1>2. h \notin posted /\ RequestKey(h) \in Keys
    BY <1>1, RequestKeyType DEF InFlight, TypeInv, JobFacts
  <1>3. CASE GetRequest(h)
    BY <1>1, <1>2, <1>3, MoveIds DEF GetRequest, Known, Fault, MayFail, Past, InFlight, TypeInv, TypeOK
  <1>4. CASE SetRequest(h)
    <2>1. pc'[h] \in {"SetRequest", "SetLock", "Done"} /\ pc[h] = "SetRequest" /\ UNCHANGED posted
      BY <1>4 DEF SetRequest, TypeInv, TypeOK
    <2>2. \A k \in Keys : store'[k] \in {store[k], h}
      BY <1>4 DEF SetRequest, Put, TypeInv, TypeOK
    <2>3. pc'[h] = "SetLock" => store'[RequestKey(h)] = h
      BY <1>2, <1>4 DEF SetRequest, Put, TypeInv, TypeOK
    <2> QED
      BY <1>1, <1>2, <2>1, <2>2, <2>3, KeyOwners, MoveIds DEF Past
  <1>5. CASE SetLock(h)
    <2>1. PICK k \in Keys : k = LockKeys(h)[taken[h] + 1]
      BY <1>5, NextLock DEF SetLock
    <2>2. \A l \in Keys : store'[l] \in {store[l], h}
      BY <1>5, <2>1 DEF SetLock, Put, TypeInv, TypeOK
    <2>3. pc[h] \in Past /\ pc'[h] \notin {"Idle", "GetRequest"} /\ pc[h] # "GetRequest"
      BY <1>5 DEF SetLock, Refuse, AfterLocks, Past, TypeInv, TypeOK
    <2> QED
      BY <1>1, <2>2, <2>3, KeyOwners, MoveIds
  <1>6. CASE GetMerch(h) \/ GetPrice(h) \/ GetBalance(h) \/ Send(h)
    <2>1. pc[h] \in Past /\ pc'[h] \notin {"Idle", "GetRequest"} /\ pc[h] # "GetRequest"
      BY <1>6 DEF GetMerch, GetPrice, GetBalance, Send, Past, TypeInv, TypeOK
    <2>2. UNCHANGED store
      BY <1>6 DEF GetMerch, GetPrice, GetBalance, Send
    <2> QED
      BY <1>1, <2>1, <2>2, MoveIds
  <1>7. CASE Undo(h)
    <2>1. todo[h] \in Seq(Keys) /\ todo[h] # <<>> /\ pc[h] = "Undo"
      BY <1>7 DEF Undo, TypeInv, TypeOK
    <2>2. PICK d \in Keys : d = Head(todo[h]) /\ d = todo[h][1] /\ 1 \in 1 .. Len(todo[h])
      BY <2>1
    <2>3. d = RequestKey(h) \/ \E u \in Users : d = LockKey(u)
      BY <2>1, <2>2 DEF TypeInv, UndoLists
    <2>4. \A k \in Keys : store[k] # Nobody /\ store'[k] = Nobody => k = d
      BY <1>7, <2>2 DEF Undo, Put, TypeInv, TypeOK
    <2>5. pc'[h] \in {"Done", "Undo"} /\ UNCHANGED posted
      BY <1>7 DEF Undo, NextKey, TypeInv, TypeOK
    <2> QED
      BY <1>1, <1>2, <2>1, <2>3, <2>4, <2>5, MoveIds DEF Past
  <1>8. CASE Cancel(h)
    BY <1>1, <1>2, <1>8, MoveIds DEF Cancel, Past, InFlight, TypeInv, TypeOK
  <1> QED
    BY <1>3, <1>4, <1>5, <1>6, <1>7, <1>8 DEF Call

\* The expiry of a lock concerns no request key.
LEMMA ExpireIds ==
    ASSUME TypeInv, IdInv, (\E u \in Users : Expire(u) \/ Settle(u)) \/ UNCHANGED vars
    PROVE  IdInv'
  <1>1. /\ \A g : RequestKey(g)' = RequestKey(g) /\ InFlight(g)' = InFlight(g)
        /\ UNCHANGED <<pc, posted, raced>>
    BY DEF Expire, Settle, vars, InFlight, RequestKey
  <1>2. \A g \in Handlers : pc[g] \in Past \/ g \in posted => RequestKey(g) \in Keys
    BY RequestKeyType DEF Past, TypeInv, JobFacts
  <1>3. \A g \in Handlers : RequestKey(g) \in Keys => store'[RequestKey(g)] = store[RequestKey(g)]
    BY KeyFacts DEF Expire, Settle, vars, Put, TypeInv, TypeOK
  <1> QED
    BY <1>1, <1>2, <1>3 DEF IdInv, SameId

\* Every step keeps the ids apart, if the check is never skipped.
LEMMA IdStep == TypeInv /\ CheckedIds /\ [Next]_vars => CheckedIds'
  BY StartIds, CallIds, ExpireIds DEF Next, CheckedIds

\* As long as no read of a request key fails, a request id is good for one event,
\* however often it is retried and whatever else fails, unless two attempts were
\* in flight at the same time.
THEOREM OneEvent == Spec => []OneEventPerRequest
  <1>1. Init => CheckedIds
    BY DEF Init, CheckedIds, IdInv, Past, InFlight
  <1>2. TypeInv /\ CheckedIds => OneEventPerRequest
    BY DEF TypeInv, TypeOK, CheckedIds, IdInv, OneEventPerRequest, SameId
  <1> QED
    BY <1>1, <1>2, TypeInit, TypeStep, IdStep, PTL DEF Spec

-----------------------------------------------------------------------------
(* What the consumers may rely on                                          *)

\* What a request asks for exists.
ItemKnown(h) == job[h].item \in IF job[h].kind = "buy" THEN Merch ELSE Users

\* A request that was accepted had all of its locks and asked for what exists;
\* one that has not arrived has no key and has lost none.
Admission ==
    \A h \in Handlers :
        /\ pc[h] \in {"GetPrice", "GetBalance", "Send"} \/ h \in posted => ItemKnown(h)
        /\ h \in posted => taken[h] = Len(Locked(job[h]))
        /\ pc[h] = "Idle" =>
              (\A k \in Keys : store[k] # h) /\ (\A u \in Users : <<h, u>> \notin lapsed)

\* A call of h keeps this if it goes on only with what exists, and if what it takes
\* a lock from had set it.
LEMMA OwnStepAdmission ==
    ASSUME TypeInv, Admission, NEW h \in Handlers, OwnStep(h), pc'[h] # "Idle",
           pc'[h] \in {"GetPrice", "GetBalance", "Send"} \/ h \in posted' => ItemKnown(h)',
           h \in posted' => taken'[h] = Len(Locked(job'[h])),
           \A k \in Keys : store'[k] \in {store[k], Nobody, h},
           \A g \in Handlers, u \in Users :
               <<g, u>> \in lapsed' \ lapsed => \E k \in Keys : store[k] = g
    PROVE  Admission'
  <1>1. ASSUME NEW g \in Handlers \ {h}
        PROVE  /\ pc'[g] = pc[g] /\ taken'[g] = taken[g] /\ job'[g] = job[g]
               /\ ItemKnown(g)' <=> ItemKnown(g)
               /\ g \in posted' <=> g \in posted
    BY DEF OwnStep, ItemKnown
  <1>2. ASSUME NEW g \in Handlers \ {h}, pc[g] = "Idle"
        PROVE  /\ \A k \in Keys : store'[k] # g
               /\ \A u \in Users : <<g, u>> \notin lapsed'
    BY <1>2, KeyOwners DEF Admission
  <1> QED
    BY <1>1, <1>2 DEF Admission

\* Every step keeps it.
LEMMA AdmissionStep == TypeInv /\ Admission /\ [Next]_vars => Admission'
  <1> SUFFICES ASSUME TypeInv, Admission, [Next]_vars PROVE Admission'
    OBVIOUS
  <1>1. ASSUME NEW h \in Handlers, \E j \in Jobs : Start(h, j) PROVE Admission'
    <2>1. OwnStep(h) /\ h \notin posted' /\ pc'[h] \in {"GetRequest", "Done"} /\ UNCHANGED <<store, lapsed>>
      BY <1>1 DEF Start, At, Goto, Answer, OwnStep, TypeInv, TypeOK, JobFacts
    <2> QED
      BY <2>1, OwnStepAdmission
  <1>2. ASSUME NEW h \in Handlers, Call(h) \/ Cancel(h) PROVE Admission'
    <2> USE DEF At, Goto, Answer, Fail
    <2>1. InFlight(h) /\ h \notin posted /\ UNCHANGED job
      BY <1>2 DEF Call, Cancel, GetRequest, SetRequest, SetLock, GetMerch, GetPrice, GetBalance,
                  Send, Undo, InFlight, TypeInv, JobFacts
    <2>2. OwnStep(h) /\ pc'[h] # "Idle"
      BY <1>2 DEF Call, Cancel, GetRequest, SetRequest, SetLock, GetMerch, GetPrice, GetBalance,
                  Send, Undo, Refuse, NextKey, AfterLocks, OwnStep, TypeInv, TypeOK
    <2>3. pc'[h] \in {"GetPrice", "GetBalance", "Send"} => ItemKnown(h)'
      <3>1. pc'[h] \in {"GetPrice", "GetBalance", "Send"} =>
               \/ pc[h] \in {"GetPrice", "GetBalance"}
               \/ pc[h] = "GetMerch" /\ Sold(h)
               \/ pc[h] = "SetLock" /\ job[h].kind # "buy"
        BY <1>2 DEF Call, Cancel, GetRequest, SetRequest, SetLock, GetMerch, GetPrice, GetBalance,
                    Send, Undo, Refuse, NextKey, AfterLocks, TypeInv, TypeOK
      <3>2. job[h].kind # "buy" => job[h].item \in Users
        BY <2>1, JobKinds, LockedUsers DEF InFlight
      <3>3. CASE pc[h] = "GetMerch" /\ Sold(h)
        BY <2>1, <3>2, <3>3 DEF Sold, ItemKnown
      <3> QED
        BY <2>1, <3>1, <3>2, <3>3 DEF Admission, ItemKnown
    <2>4. h \in posted' => Send(h) /\ pc[h] = "Send" /\ UNCHANGED taken
      BY <1>2, <2>1 DEF Call, Cancel, GetRequest, SetRequest, SetLock, GetMerch, GetPrice,
                        GetBalance, Send, Undo
    <2>5. h \in posted' => ItemKnown(h)' /\ taken'[h] = Len(Locked(job'[h]))
      BY <2>1, <2>4 DEF Admission, ItemKnown, TypeInv, JobFacts, Past
    <2>6. /\ \A k \in Keys : store'[k] \in {store[k], Nobody, h}
          /\ \A g \in Handlers, u \in Users :
                <<g, u>> \in lapsed' \ lapsed => \E k \in Keys : store[k] = g
      <3>1. CASE SetLock(h)
        <4>1. PICK k \in Keys : k = LockKeys(h)[taken[h] + 1]
          BY <3>1, NextLock DEF SetLock
        <4> QED
          BY <3>1, <4>1 DEF SetLock, Put, TypeInv, TypeOK
      <3>2. CASE Undo(h)
        <4>1. PICK k \in Keys : k = Head(todo[h])
          BY <3>2 DEF Undo, TypeInv, TypeOK
        <4>2. \A g, u : <<g, u>> \in Robbed(h, k) \cup Released(h, k) => g = store[k]
          BY DEF Robbed, Released
        <4>3. \A l \in Keys : store'[l] \in {store[l], Nobody}
          BY <3>2, <4>1 DEF Undo, Put, TypeInv, TypeOK
        <4>4. lapsed' \subseteq lapsed \cup Robbed(h, k) \cup Released(h, k)
          BY <3>2, <4>1 DEF Undo
        <4> QED
          BY <4>1, <4>2, <4>3, <4>4
      <3>3. CASE ~SetLock(h) /\ ~Undo(h)
        <4>1. UNCHANGED lapsed /\ (UNCHANGED store \/ Put(h, RequestKey(h)))
          BY <1>2, <3>3 DEF Call, Cancel, GetRequest, SetRequest, GetMerch, GetPrice, GetBalance, Send
        <4> QED
          BY <4>1 DEF Put, TypeInv, TypeOK
      <3> QED
        BY <3>1, <3>2, <3>3
    <2> QED
      BY <2>2, <2>3, <2>5, <2>6, OwnStepAdmission
  <1>3. ASSUME NEW u \in Users, Expire(u) PROVE Admission'
    <2>1. LockKey(u) \in Keys
      BY KeyFacts
    <2>2. UNCHANGED <<pc, job, taken, posted>> /\ lapsed' = lapsed \cup {<<store[LockKey(u)], u>>}
      BY <1>3 DEF Expire
    <2>3. \A k \in Keys : store'[k] \in {store[k], Nobody}
      BY <1>3 DEF Expire, Put, TypeInv, TypeOK
    <2> QED
      BY <2>1, <2>2, <2>3, KeyOwners DEF Admission, ItemKnown
  <1>4. CASE UNCHANGED <<pc, job, taken, posted, store, lapsed>>
    BY <1>4 DEF Admission, ItemKnown
  <1> QED
    BY <1>1, <1>2, <1>3, <1>4 DEF Next, Settle, vars

\* A request whose balance was found to be enough, until it fails.
Admitted(h) == pc[h] = "Send" \/ h \in posted

\* Such a request was asked to take some coins of a user, and has locked that user.
LEMMA PayerHeld ==
    ASSUME TypeInv, Admission, NEW h \in Handlers, Admitted(h)
    PROVE  /\ job[h].user \in Users /\ job[h].cost \in Nat \ {0}
           /\ Holds(h, job[h].user)
  <1>1. pc[h] # "Idle" /\ taken[h] = Len(Locked(job[h]))
    BY DEF Admitted, TypeInv, JobFacts, Past, Admission
  <1>2. job[h] \in Jobs /\ job[h].user \in Users /\ job[h].cost \in Nat \ {0}
    BY <1>1, JobKinds, CheckoutAssumption
  <1>3. Locked(job[h])[1] = job[h].user /\ Len(Locked(job[h])) \in {1, 2}
    BY DEF Locked
  <1>4. 1 \in 1 .. taken[h]
    BY <1>1, <1>3
  <1> QED
    BY <1>2, <1>3, <1>4 DEF Holds, Admitted

\* Of two requests of one payer that are both admitted, one has lost its lock.
LEMMA PayersExclude ==
    ASSUME TypeInv, Admission, LocksOwned, NEW g \in Handlers, NEW h \in Handlers,
           g # h, Admitted(g), Admitted(h), job[g].user = job[h].user
    PROVE  {<<g, job[h].user>>, <<h, job[h].user>>} \cap lapsed # {}
  BY PayerHeld DEF LocksOwned, Entitled
=============================================================================
