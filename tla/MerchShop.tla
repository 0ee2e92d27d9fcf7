----------------------------- MODULE MerchShop -----------------------------
(***************************************************************************)
(* The shop as a whole: the handlers of Checkout admit requests, the Kafka *)
(* writer of their process carries the events to the topic, and the        *)
(* consumers of Settlement settle them.  The components share the users    *)
(* table and nothing else; what joins them is the writer's buffer, which   *)
(* dies with its process, and the process itself, as cmd/server/main.go    *)
(* starts and stops it.                                                    *)
(***************************************************************************)
EXTENDS Integers, Sequences, FiniteSets

CONSTANTS
    Servers,          \* processes; each serves requests and runs one consumer
    Home,             \* Home[h]: the process that serves request h
    Handlers, Users, Merch, Jobs, Nobody, FaultyCalls, MaxFaults,   \* as in Checkout
    InitialBalance, MaxInt, NoID, MaxLog,                          \* as in Settlement
    MaxTrouble        \* bound: failures, stops and crashes together

ASSUME MerchShopAssumption ==
    /\ Home \in [Handlers -> Servers]
    /\ MaxTrouble \in Nat
    /\ MaxLog >= Cardinality(Handlers) + MaxTrouble    \* no record is refused

VARIABLES
    \* of Checkout
    pc, job, taken, todo, reply, store, posted, faults, cut, raced, lapsed,
    balance,   \* of both
    \* of Settlement; its pc and faults are called stage and mishaps here
    log, unread, stage, cur, rows, mishaps, debits, credits,
    phase,     \* phase[s]: how far process s is in main
    buffer,    \* requests whose event is in the writer's buffer of their process
    givenUp,   \* requests whose event a writer dropped after its last attempt
    origin,    \* history: origin[o] is the request record o comes from
    late       \* history: locks that went away before their request was settled

admission == <<pc, job, taken, todo, reply, store, posted, faults, cut, raced, lapsed>>
settlement == <<log, unread, stage, cur, rows, mishaps, debits, credits>>
vars == <<admission, balance, settlement, phase, buffer, givenUp, origin, late>>

\* The event of a job.  A purchase carries minus the price.
EventOf(j) ==
    IF j.kind = "buy"
      THEN [type |-> "purchase", user |-> j.user, related |-> j.item, amount |-> -j.cost]
      ELSE [type |-> "transfer", user |-> j.user, related |-> j.item, amount |-> j.cost]

Sendable == {j \in Jobs : j.item \in IF j.kind = "buy" THEN Merch ELSE Users}

C == INSTANCE Checkout WITH Balances <- 0 .. MaxInt
S == INSTANCE Settlement WITH Consumers <- Servers, pc <- stage, faults <- mishaps,
                              Events <- {EventOf(j) : j \in Sendable}

\* What the components assume of the constants: amounts fit the columns.
ASSUME ComponentAssumptions == C!CheckoutAssumption /\ S!SettlementAssumption

-----------------------------------------------------------------------------
(* Processes and requests                                                  *)

Phases == {"up", "draining", "closing", "stopped", "killed"}

Alive(s) == phase[s] \in {"up", "draining", "closing"}
Serving(s) == phase[s] \in {"up", "draining"}

Records(h) == {o \in DOMAIN origin : origin[o] = h}

\* Something is still to come of request h: its handler works, its event is in
\* the buffer of a living process, or a record of it is unread or in the hands
\* of a living consumer.
Outstanding(h) ==
    \/ Alive(Home[h]) /\ (C!InFlight(h) \/ h \in buffer)
    \/ \E o \in Records(h) :
          \/ o \in unread
          \/ \E s \in Servers : Alive(s) /\ cur[s] = o

\* Locks that go away in a step under a request that is not settled yet.
NoteLate == late' = late \cup {l \in lapsed' \ lapsed : Outstanding(l[1])}

Init ==
    /\ C!Init /\ S!Init
    /\ phase = [s \in Servers |-> "up"]
    /\ buffer = {}
    /\ givenUp = {}
    /\ origin = <<>>
    /\ late = {}

\* Records of a batch that was, or is to be, written once more.
Repeats ==
    Len(log) + Cardinality(buffer)
        - Cardinality({h \in Handlers : h \in buffer \/ Records(h) # {}})

\* What has gone wrong so far: the bound of every fault, in one place.
Trouble ==
    faults + mishaps + Cardinality(givenUp) + Repeats
        + Cardinality({s \in Servers : phase[s] # "up"})
Within == Trouble' <= MaxTrouble

-----------------------------------------------------------------------------
(* Admission and settlement                                                *)

\* A handler's call.  An event the writer takes is in its buffer; Send returns.
Handle(h) ==
    /\ Serving(Home[h])
    /\ \/ phase[Home[h]] = "up" /\ \E j \in Jobs : C!Start(h, j)
       \/ C!Call(h)
       \/ C!Cancel(h)
    /\ buffer' = buffer \cup (posted' \ posted)
    /\ NoteLate
    /\ UNCHANGED <<settlement, phase, givenUp, origin>>
    /\ Within

\* Redis drops a lock.
Expire(u) ==
    /\ C!Expire(u)
    /\ NoteLate
    /\ UNCHANGED <<settlement, phase, buffer, givenUp, origin>>

\* A closed reader returns no more records; the one in hand is worked on.
Reading(s) == stage[s] = "ReadMessage" => Serving(s)

\* The consumer of process s works.
Consume(s) ==
    /\ Alive(s) /\ Reading(s)
    /\ S!Body(s)
    /\ UNCHANGED <<admission, phase, buffer, givenUp, origin, late>>
    /\ Within

\* A call of the consumer fails.
ConsumeFails(s) ==
    /\ Alive(s) /\ Reading(s)
    /\ S!ReadMessageFails(s) \/ S!Abandon(s)
    /\ UNCHANGED <<admission, phase, buffer, givenUp, origin, late>>
    /\ Within

-----------------------------------------------------------------------------
(* The Kafka writer of a process                                           *)

\* A batch is written.  If its acknowledgement does not arrive, it stays and is
\* written again.
Deliver(h) ==
    /\ h \in buffer /\ Alive(Home[h])
    /\ S!Publish(EventOf(job[h]))
    /\ origin' = Append(origin, h)
    /\ buffer' = buffer \ {h} \/ UNCHANGED buffer
    /\ UNCHANGED <<admission, phase, givenUp, late>>
    /\ Within

\* The last attempt fails, or the only broker that acknowledged is lost.  Nobody
\* is told: the writer is asynchronous and has no Completion.
GiveUp(h) ==
    /\ h \in buffer /\ Alive(Home[h])
    /\ buffer' = buffer \ {h}
    /\ givenUp' = givenUp \cup {h}
    /\ UNCHANGED <<admission, balance, settlement, phase, origin, late>>
    /\ Within

-----------------------------------------------------------------------------
(* The process: main                                                       *)

Served(s) == {h \in Handlers : Home[h] = s}

\* Mutant of LeftUnread: a record is committed when its work is done, so that
\* another consumer reads it again.
BugRedeliver(s) == unread \cup ({cur[s]} \ {0})

\* The records the group reads after s has stopped: the one s worked on is not
\* among them.
LeftUnread(s) == unread

Move(s, p) ==
    /\ phase' = [phase EXCEPT ![s] = p]
    /\ unread' = IF p \in {"stopped", "killed"} THEN LeftUnread(s) ELSE unread
    /\ UNCHANGED <<admission, balance, log, stage, cur, rows, mishaps, debits, credits,
                   buffer, givenUp, origin, late>>
    /\ Within

\* SIGTERM: Shutdown refuses new requests and waits for those in flight.
Terminate(s) == phase[s] = "up" /\ Move(s, "draining")

\* They are answered; main returns and its deferred calls run: the readers and
\* then the producers are closed.
Drained(s) ==
    /\ phase[s] = "draining"
    /\ \A h \in Served(s) : ~C!InFlight(h)
    /\ Move(s, "closing")

\* Five seconds are over: log.Fatalf ends the process, deferred calls are not made.
DrainTimeout(s) ==
    /\ phase[s] = "draining"
    /\ \E h \in Served(s) : C!InFlight(h)
    /\ Move(s, "killed")

\* Mutant of Flushed: the producers are not closed.
BugNoFlush(s) == TRUE

\* The producers' Close returns once their buffers are written or given up.
Flushed(s) == buffer \cap Served(s) = {}

\* main returns.  It does not wait for the consumers' goroutines.
Exit(s) == phase[s] = "closing" /\ Flushed(s) /\ Move(s, "stopped")

Crash(s) == Alive(s) /\ Move(s, "killed")

Next ==
    \/ \E h \in Handlers : Handle(h) \/ Deliver(h) \/ GiveUp(h)
    \/ \E u \in Users : Expire(u)
    \/ \E s \in Servers :
          \/ Consume(s) \/ ConsumeFails(s)
          \/ Terminate(s) \/ Drained(s) \/ DrainTimeout(s) \/ Exit(s) \/ Crash(s)

Spec == Init /\ [][Next]_vars

\* Consumers and writers keep running as long as their process does; a reader
\* fetches from every partition and a writer works on every batch.
FairSpec ==
    /\ Spec
    /\ \A s \in Servers : WF_vars(Consume(s))
    /\ \A h \in Handlers : WF_vars(Deliver(h))

-----------------------------------------------------------------------------
(* Properties                                                              *)

\* The components' variables have their types, whatever the others do; what is
\* in a buffer, or was given up, is the event of an accepted request.
TypeOK ==
    /\ C!TypeOK /\ S!TypeOK
    /\ phase \in [Servers -> Phases]
    /\ buffer \subseteq posted /\ givenUp \subseteq posted
    /\ origin \in [1 .. Len(log) -> Handlers]
    /\ late \subseteq lapsed

Accepted(h) == h \in posted
Settled(h) == \E o \in Records(h) : debits[o] = 1

\* Who has accepted a request and may have lost it again: the writer that gave
\* its event up, and the process that was killed with it in its buffer.
MayBeLost(h) == h \in givenUp \/ phase[Home[h]] = "killed"

\* Between the answer "accepted" and the topic an event is lost in no other way:
\* in particular not when a process stops and its handlers were answered in time.
AcceptedIsKept ==
    \A h \in Handlers :
        Accepted(h) => Records(h) # {} \/ MayBeLost(h) \/ (Alive(Home[h]) /\ h \in buffer)

\* A process died or a call failed while a record of h was worked on.
Interrupted(h) ==
    mishaps > 0 \/ \E o \in Records(h), s \in Servers : ~Alive(s) /\ cur[s] = o

\* What the locks are for: a request that was admitted against the balance is
\* also settled.  It is dropped only if its event was lost or its work
\* interrupted, or if a lock of its user went away before the request that held
\* it was settled.
SettledUnlessLate ==
    \A h \in Handlers :
        Accepted(h) /\ ~Outstanding(h) =>
            \/ Settled(h)
            \/ MayBeLost(h) \/ Interrupted(h)
            \/ \E g \in Handlers : <<g, job[h].user>> \in late

\* An accepted request comes to an end, as long as some process is up to read
\* the topic.
AcceptedConcludes ==
    \A h \in Handlers :
        Accepted(h) ~> ~Outstanding(h) \/ \A s \in Servers : ~Serving(s)

\* What "Transfer completed successfully" says: an accepted transfer is settled,
\* failures and stops aside.
TransferCompletes ==
    \A h \in Handlers :
        reply[h] = "Accepted" /\ job[h].kind = "transfer" /\ ~Outstanding(h)
            => Settled(h) \/ MayBeLost(h) \/ Interrupted(h)

\* The components assume the right things of each other: the consumers' work is
\* to Checkout a change of one balance within the column's range, and the
\* handlers, the writers and the stopping processes are to Settlement a topic
\* to which its events are appended.
ImplementsCheckout == C!Spec
ImplementsSettlement == S!Spec
=============================================================================
