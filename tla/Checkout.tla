------------------------------ MODULE Checkout ------------------------------
(***************************************************************************)
(* The synchronous half of the shop: BuyMerch and Transfer of              *)
(* internal/services/merch_service.go, as run by the HTTP handlers of all  *)
(* server processes over the one Redis they share.                         *)
(*                                                                         *)
(* A handler is one HTTP request.  Its steps are its calls to Redis,       *)
(* Postgres and the Kafka writer, in the order of the code; other handlers *)
(* run between two of them, locks expire, and the client may go away.  The *)
(* Redis keys are a request key, set before anything else and deleted when *)
(* the request fails, and one lock per user, which a successful request    *)
(* leaves to its time-to-live of three seconds.                            *)
(***************************************************************************)
EXTENDS Integers, Sequences, FiniteSets

CONSTANTS
    Handlers,       \* HTTP requests to /buy and /transfer, retries included
    Users,          \* ids in table users
    Merch,          \* ids in table merch
    Jobs,           \* what the requests ask for
    Balances,       \* the balances a user may have
    Nobody,         \* owner of a key that is not in Redis
    FaultyCalls,    \* the calls that may fail, or be sent again
    MaxFaults       \* bound: failures, calls sent again, clients that go away

\* cost is the price of the merch, or the amount of a transfer; item is the
\* merch, or the receiver.
ASSUME CheckoutAssumption ==
    /\ \A j \in Jobs : j.kind \in {"buy", "transfer"} /\ j.user \in Users /\ j.cost \in Nat \ {0}
    /\ \A i, j \in Jobs :
          i.kind = "buy" /\ j.kind = "buy" /\ i.item = j.item => i.cost = j.cost
    /\ Balances \subseteq Nat /\ Balances # {}
    /\ Nobody \notin Handlers
    /\ FaultyCalls \subseteq
         {"GetRequest", "SetRequest", "SetLock", "GetMerch", "GetPrice", "GetBalance",
          "Send", "Undo"}
    /\ MaxFaults \in Nat

VARIABLES
    pc,        \* pc[h]: the call handler h makes next
    job,       \* job[h]: what h was asked for
    taken,     \* taken[h]: locks h has set
    todo,      \* todo[h]: keys h still has to delete, because it failed
    reply,     \* reply[h]: what h answered
    store,     \* store[k]: the handler that last set key k, Nobody if k is absent
    balance,   \* column balance of table users
    posted,    \* handlers whose event the Kafka writer took
    faults,    \* failures, calls sent again and clients that went away
    cut,       \* history: <<h, k>> if h will not delete key k because of one of these
    raced,     \* history: request keys two handlers worked on at the same time
    lapsed     \* history: users whose lock went away under its holder

vars == <<pc, job, taken, todo, reply, store, balance, posted, faults, cut, raced, lapsed>>

NoJob == [kind |-> "none"]

InFlight(h) == pc[h] \notin {"Idle", "Done"}

-----------------------------------------------------------------------------
(* Keys                                                                    *)

\* The client chooses the request id of a purchase; Transfer makes one of its
\* arguments and the clock, unique to the call.
RequestKey(h) ==
    <<"request", IF job[h].kind = "buy" THEN job[h].rid ELSE h>>

LockKey(u) == <<"lock", u>>

\* The users a job locks, in this order.
Locked(j) == IF j.kind = "buy" THEN <<j.user>> ELSE <<j.user, j.item>>

LockKeys(h) == [i \in DOMAIN Locked(job[h]) |-> LockKey(Locked(job[h])[i])]

Keys ==
    {LockKey(u) : u \in Users}
        \cup {<<"request", h>> : h \in Handlers}
        \cup {<<"request", j.rid>> : j \in {j \in Jobs : j.kind = "buy"}}

\* Mutant of UndoKeys: a failed purchase leaves its lock behind.
BugLeaveLock(h) == <<RequestKey(h)>>

\* What a request deletes when it fails after it has its locks.
UndoKeys(h) == <<RequestKey(h)>> \o LockKeys(h)

\* Mutants of RefusedKeys: a purchase that finds the lock taken deletes it too,
\* or nothing is deleted.
BugDeleteForeignLock(h) == UndoKeys(h)
BugForgetKeys(h) == <<>>

\* What it deletes when a lock is refused: a purchase its request key only, a
\* transfer both lock keys as well, whoever set them.
RefusedKeys(h) == IF job[h].kind = "buy" THEN <<RequestKey(h)>> ELSE UndoKeys(h)

-----------------------------------------------------------------------------
(* Steps of a handler                                                      *)

\* Handler h moves on; nothing but its program counter changes by that.
At(h, call) == pc[h] = call
Goto(h, call) == pc' = [pc EXCEPT ![h] = call]

Answer(h, r) == Goto(h, "Done") /\ reply' = [reply EXCEPT ![h] = r]

\* The answer is decided; the keys are deleted first, one call each.
Fail(h, r, keys) ==
    /\ Goto(h, "Undo")
    /\ reply' = [reply EXCEPT ![h] = r]
    /\ todo' = [todo EXCEPT ![h] = keys]

\* The keys the next call of h may leave in Redis if it gets no reply: a request
\* key that could not be set and a key that could not be deleted are given up, and
\* so is the lock of a purchase, because a refused one deletes its request key only.
Forsaken(h) ==
    {k \in Keys :
        \/ pc[h] = "SetRequest" /\ k = RequestKey(h)
        \/ pc[h] = "SetLock" /\ job[h].kind = "buy" /\ k = LockKey(job[h].user)
        \/ pc[h] = "Undo" /\ k = Head(todo[h])}

MayFail(h) == pc[h] \in FaultyCalls /\ faults < MaxFaults /\ faults' = faults + 1

\* The next call of h fails, or its reply is lost.
Fault(h) == MayFail(h) /\ cut' = cut \cup ({h} \X Forsaken(h))

\* The Redis client loses the reply and makes the call again: it retries a
\* command up to three times before it reports an error.
SentAgain(h) == MayFail(h) /\ UNCHANGED cut

NoFault == UNCHANGED <<faults, cut>>

Put(h, k) == store' = [store EXCEPT ![k] = h]

Init ==
    /\ pc = [h \in Handlers |-> "Idle"]
    /\ job = [h \in Handlers |-> NoJob]
    /\ taken = [h \in Handlers |-> 0]
    /\ todo = [h \in Handlers |-> <<>>]
    /\ reply = [h \in Handlers |-> "none"]
    /\ store = [k \in Keys |-> Nobody]
    /\ balance \in [Users -> Balances]
    /\ posted = {}
    /\ faults = 0
    /\ cut = {}
    /\ raced = {}
    /\ lapsed = {}

\* Whether the lookup of a user finds a row.
Registered(u) == u \in Users

\* A request arrives.  A transfer first looks both users up, before it touches
\* Redis: with a missing receiver it is answered at once.  (An error of these
\* lookups ends it as well, with nothing done; that request need not arrive.)
Start(h, j) ==
    /\ At(h, "Idle")
    /\ job' = [job EXCEPT ![h] = j]
    /\ IF j.kind = "transfer" /\ ~Registered(j.item)
         THEN Answer(h, "NotFound") /\ UNCHANGED raced
         ELSE /\ Goto(h, "GetRequest")
              /\ raced' = raced \cup
                   {k \in {RequestKey(h)'} : \E g \in Handlers : InFlight(g) /\ RequestKey(g) = k}
              /\ UNCHANGED reply
    /\ UNCHANGED <<taken, todo, store, balance, posted, faults, cut, lapsed>>

\* Mutant of Known: a request that is only pending is let through.
BugPendingIsUnknown(h) == FALSE

\* The request id has been seen.
Known(h) == store[RequestKey(h)] # Nobody

\* Idempotency check: a request key that is present means "already processed".
\* An error of Redis is taken for an absent key.
GetRequest(h) ==
    /\ At(h, "GetRequest")
    /\ \/ /\ Known(h)
          /\ Answer(h, "AlreadyProcessed") /\ NoFault
       \/ /\ \/ ~Known(h) /\ NoFault
             \/ Fault(h)
          /\ Goto(h, "SetRequest") /\ UNCHANGED reply
    /\ UNCHANGED <<job, taken, todo, store, balance, posted, raced, lapsed>>

\* The key is set, unconditionally, and set again if the reply is lost.  If it
\* fails, nothing is undone.
SetRequest(h) ==
    /\ At(h, "SetRequest")
    /\ \/ Put(h, RequestKey(h)) /\ Goto(h, "SetLock") /\ NoFault /\ UNCHANGED reply
       \/ /\ Fault(h) /\ Answer(h, "Failed")
          /\ Put(h, RequestKey(h)) \/ UNCHANGED store
       \/ Put(h, RequestKey(h)) /\ SentAgain(h) /\ UNCHANGED <<pc, reply>>
    /\ UNCHANGED <<job, taken, todo, balance, posted, raced, lapsed>>

\* Mutant of Refuse: a handler waits for the lock.
BugWaitForLock(h) == UNCHANGED <<pc, reply, todo>>

\* A lock that is taken refuses the request: nobody waits for a lock.
Refuse(h) == Fail(h, "Locked", RefusedKeys(h))

\* Mutant of Free: SET in the place of SETNX.
BugIgnoreLock(k) == TRUE

Free(k) == store[k] = Nobody

\* The call after the last lock.
AfterLocks(h) == IF job[h].kind = "buy" THEN "GetMerch" ELSE "GetBalance"

\* SetNX of the next lock.  An error is answered like a lock that is taken,
\* although Redis may have set the key.  If only the reply was lost, SetNX is sent
\* again, and the lock the request has just set refuses it.
SetLock(h) ==
    LET k == LockKeys(h)[taken[h] + 1] IN
    /\ At(h, "SetLock")
    /\ \/ /\ Free(k) /\ Put(h, k) /\ NoFault
          /\ taken' = [taken EXCEPT ![h] = @ + 1]
          /\ Goto(h, IF taken'[h] = Len(LockKeys(h)) THEN AfterLocks(h) ELSE "SetLock")
          /\ UNCHANGED <<reply, todo>>
       \/ ~Free(k) /\ Refuse(h) /\ NoFault /\ UNCHANGED <<taken, store>>
       \/ /\ Fault(h) /\ Refuse(h) /\ UNCHANGED taken
          /\ (Free(k) /\ Put(h, k)) \/ UNCHANGED store
       \/ Free(k) /\ Put(h, k) /\ Fault(h) /\ UNCHANGED <<pc, reply, todo, taken>>
    /\ UNCHANGED <<job, balance, posted, raced, lapsed>>

\* A merch that has a row; only such a one is ever cached.
Sold(h) == job[h].item \in Merch

\* The merch: from the cache, or from its row, which is then cached, whatever
\* comes of that.
GetMerch(h) ==
    /\ At(h, "GetMerch")
    /\ \/ Sold(h) /\ Goto(h, "GetPrice") /\ NoFault /\ UNCHANGED <<reply, todo>>
       \/ ~Sold(h) /\ Fail(h, "NotFound", UndoKeys(h)) /\ NoFault
       \/ Fault(h) /\ Fail(h, "Failed", UndoKeys(h))
    /\ UNCHANGED <<job, taken, store, balance, posted, raced, lapsed>>

\* Its price, always from the row.  (Rows are not deleted: it is still there.)
GetPrice(h) ==
    /\ At(h, "GetPrice")
    /\ \/ Goto(h, "GetBalance") /\ NoFault /\ UNCHANGED <<reply, todo>>
       \/ Fault(h) /\ Fail(h, "Failed", UndoKeys(h))
    /\ UNCHANGED <<job, taken, store, balance, posted, raced, lapsed>>

\* The balance in Postgres, compared with the cost.
GetBalance(h) ==
    LET enough == balance[job[h].user] >= job[h].cost IN
    /\ At(h, "GetBalance")
    /\ \/ enough /\ Goto(h, "Send") /\ NoFault /\ UNCHANGED <<reply, todo>>
       \/ ~enough /\ Fail(h, "InsufficientFunds", UndoKeys(h)) /\ NoFault
       \/ Fault(h) /\ Fail(h, "Failed", UndoKeys(h))
    /\ UNCHANGED <<job, taken, store, balance, posted, raced, lapsed>>

\* The Kafka writer takes the event into its buffer; the locks stay.
Send(h) ==
    /\ At(h, "Send")
    /\ \/ posted' = posted \cup {h} /\ Answer(h, "Accepted") /\ NoFault /\ UNCHANGED todo
       \/ Fault(h) /\ Fail(h, "Failed", UndoKeys(h)) /\ UNCHANGED posted
    /\ UNCHANGED <<job, taken, store, balance, raced, lapsed>>

\* The lock h deletes though another handler has set it: Del looks at no owner.
\* A transfer may do so because a lock was refused to it, any request because
\* its own lock is gone.
Robbed(h, k) ==
    {<<store[k], u>> : u \in {u \in Users :
        /\ k = LockKey(u) /\ store[k] \notin {h, Nobody}
        /\ job[h].kind = "transfer" \/ <<h, u>> \in lapsed}}

\* The lock h deletes and has itself set.
Released(h, k) == {<<h, u>> : u \in {u \in Users : k = LockKey(u) /\ store[k] = h}}

NextKey(h) ==
    /\ todo' = [todo EXCEPT ![h] = Tail(@)]
    /\ Goto(h, IF Len(todo[h]) = 1 THEN "Done" ELSE "Undo")

\* One Del of a failed request; its errors are not looked at.  A Del whose reply
\* is lost is sent again, when its own key is gone and another may have set it.
Undo(h) ==
    LET k == Head(todo[h]) IN
    /\ At(h, "Undo")
    /\ \/ Put(Nobody, k) /\ lapsed' = lapsed \cup Robbed(h, k) /\ NextKey(h) /\ NoFault
       \/ Fault(h) /\ NextKey(h) /\ UNCHANGED <<store, lapsed>>
       \/ /\ Put(Nobody, k) /\ lapsed' = lapsed \cup Robbed(h, k) \cup Released(h, k)
          /\ SentAgain(h) /\ UNCHANGED <<pc, todo>>
    /\ UNCHANGED <<job, taken, reply, balance, posted, raced>>

\* The client disconnects or the process stops: every call h still has to make,
\* the deletions included, fails or is not made.
Cancel(h) ==
    /\ InFlight(h)
    /\ faults < MaxFaults
    /\ faults' = faults + 1
    /\ cut' = cut \cup ({h} \X Keys)
    /\ Answer(h, "none")
    /\ UNCHANGED <<job, taken, todo, store, balance, posted, raced, lapsed>>

\* Redis drops a lock three seconds after it was set, whatever its holder does.
Expire(u) ==
    LET k == LockKey(u) IN
    /\ ~Free(k)
    /\ Put(Nobody, k)
    /\ lapsed' = lapsed \cup {<<store[k], u>>}
    /\ UNCHANGED <<pc, job, taken, todo, reply, balance, posted, faults, cut, raced>>

\* The consumer settles events of this user in the meantime.
Settle(u) ==
    /\ \E b \in Balances : balance' = [balance EXCEPT ![u] = b]
    /\ UNCHANGED <<pc, job, taken, todo, reply, store, posted, faults, cut, raced, lapsed>>

Call(h) ==
    \/ GetRequest(h) \/ SetRequest(h) \/ SetLock(h) \/ GetMerch(h)
    \/ GetPrice(h) \/ GetBalance(h) \/ Send(h) \/ Undo(h)

Next ==
    \/ \E h \in Handlers : (\E j \in Jobs : Start(h, j)) \/ Call(h) \/ Cancel(h)
    \/ \E u \in Users : Expire(u) \/ Settle(u)

Spec == Init /\ [][Next]_vars

\* A handler that has begun is scheduled until it answers.
FairSpec == Spec /\ \A h \in Handlers : WF_vars(Call(h))

-----------------------------------------------------------------------------
(* Properties                                                              *)

Replies == {"none", "Accepted", "AlreadyProcessed", "Locked", "NotFound",
            "InsufficientFunds", "Failed"}

\* The variables have the values the code can give them.
TypeOK ==
    /\ pc \in [Handlers -> {"Idle", "GetRequest", "SetRequest", "SetLock", "GetMerch",
                            "GetPrice", "GetBalance", "Send", "Undo", "Done"}]
    /\ job \in [Handlers -> Jobs \cup {NoJob}]
    /\ taken \in [Handlers -> 0 .. 2]
    /\ todo \in [Handlers -> Seq(Keys)]
    /\ \A h \in Handlers : pc[h] = "Undo" => todo[h] # <<>>
    /\ reply \in [Handlers -> Replies]
    /\ store \in [Keys -> Handlers \cup {Nobody}]
    /\ balance \in [Users -> Balances]
    /\ posted \subseteq Handlers /\ cut \subseteq Handlers \X Keys
    /\ faults \in 0 .. MaxFaults
    /\ raced \subseteq Keys
    /\ lapsed \subseteq Handlers \X Users

\* h has locked u, and has not failed since: it is still at work, or its event
\* is on its way.
Holds(h, u) ==
    /\ \E i \in 1 .. taken[h] : Locked(job[h])[i] = u
    /\ pc[h] \in {"SetLock", "GetMerch", "GetPrice", "GetBalance", "Send"} \/ h \in posted

\* At most one request of a user, as payer or as receiver, is past the lock or
\* accepted per life of the lock.  The only ways out are the lock's expiry, the
\* refused transfer that deletes the locks it did not get, and the request that
\* fails and deletes the next holder's lock, because its own had expired or because
\* its deletion was sent twice; a purchase that is refused never takes the lock
\* from under another request.
LockExclusive ==
    \A u \in Users : \A g, h \in Handlers :
        g # h /\ Holds(g, u) /\ Holds(h, u) => {<<g, u>>, <<h, u>>} \cap lapsed # {}

\* A request that failed leaves no key behind, at whatever call it failed:
\* whatever is in Redis was last set by a handler that is still at work, that was
\* accepted, or whose client went away, or it is the one key the failing call
\* itself gives up (see Forsaken).  Otherwise the request id could not be used
\* again for a day.
NothingLeftBehind ==
    \A k \in Keys : store[k] # Nobody =>
        InFlight(store[k]) \/ store[k] \in posted \/ <<store[k], k>> \in cut

\* A purchase is sent once for one request id, however often it is retried and
\* whatever fails on the way, unless two attempts were in flight together: the
\* check and the setting of the key are two calls, and an attempt that is
\* refused deletes the key of the one that goes through.
OneEventPerRequest ==
    "GetRequest" \notin FaultyCalls =>
        \A g, h \in posted :
            g # h /\ RequestKey(g) = RequestKey(h) => RequestKey(g) \in raced

\* What "request already processed" says: once no attempt is in flight any more,
\* an event was sent for a request that was refused with these words.
RefusedAsProcessedWasSent ==
    \A h \in Handlers :
        LET attempts == {g \in Handlers : pc[g] # "Idle" /\ RequestKey(g) = RequestKey(h)} IN
        reply[h] = "AlreadyProcessed" =>
            (\E g \in attempts : InFlight(g)) \/ attempts \cap posted # {}

\* Requests never wait for each other, not even two transfers that lock the same
\* users in opposite orders: every request is answered.
EveryRequestAnswered == \A h \in Handlers : InFlight(h) ~> ~InFlight(h)
=============================================================================
