-------------------------- MODULE MerchShopProofs --------------------------
(***************************************************************************)
(* Proofs about MerchShop, for any processes, requests and failures: the   *)
(* shop implements its two components, an accepted event gets lost in no   *)
(* way but those listed, and an accepted request is settled unless a lock  *)
(* went away too early.  What the components promise of tables and keys    *)
(* follows for the shop from the refinements.                              *)
(*                                                                         *)
(* The invariants of the components are those of their own proofs; here    *)
(* they are instantiated as the shop instantiates the components.          *)
(***************************************************************************)
EXTENDS MerchShop, SequenceTheorems, TLAPS

CP == INSTANCE CheckoutProofs WITH Balances <- 0 .. MaxInt
SP == INSTANCE LedgerProofs WITH Consumers <- Servers, pc <- stage, faults <- mishaps,
                                 Events <- {EventOf(j) : j \in Sendable}

-----------------------------------------------------------------------------
(* The components and their proofs                                         *)

\* The proofs speak of the same Checkout as the shop.
LEMMA SameCheckout ==
    /\ C!CheckoutAssumption <=> CP!CheckoutAssumption
    /\ C!Init <=> CP!Init
    /\ C!Next <=> CP!Next
    /\ UNCHANGED C!vars <=> UNCHANGED CP!vars
    /\ C!TypeOK <=> CP!TypeOK
    /\ C!LockExclusive <=> CP!LockExclusive
    /\ C!OneEventPerRequest <=> CP!OneEventPerRequest
  BY DEF
     C!CheckoutAssumption, C!Init, C!Next, C!vars, C!Start, C!Call, C!GetRequest,
     C!SetRequest, C!SetLock, C!GetMerch, C!GetPrice, C!GetBalance, C!Send, C!Undo,
     C!Cancel, C!Expire, C!Settle, C!At, C!Goto, C!Answer, C!Fail, C!Forsaken, C!MayFail,
     C!Fault, C!SentAgain, C!NoFault, C!Put, C!Released, C!NextKey, C!InFlight,
     C!RequestKey, C!LockKey, C!Locked, C!LockKeys, C!UndoKeys, C!RefusedKeys,
     C!Registered, C!Known, C!Refuse, C!Free, C!AfterLocks, C!Sold, C!Robbed, C!NoJob,
     C!Keys, C!Replies, C!TypeOK, C!Holds, C!LockExclusive, C!OneEventPerRequest,
     CP!CheckoutAssumption, CP!Init, CP!Next, CP!vars, CP!Start, CP!Call, CP!GetRequest,
     CP!SetRequest, CP!SetLock, CP!GetMerch, CP!GetPrice, CP!GetBalance, CP!Send,
     CP!Undo, CP!Cancel, CP!Expire, CP!Settle, CP!At, CP!Goto, CP!Answer, CP!Fail,
     CP!Forsaken, CP!MayFail, CP!Fault, CP!SentAgain, CP!NoFault, CP!Put, CP!Released,
     CP!NextKey, CP!InFlight, CP!RequestKey, CP!LockKey, CP!Locked, CP!LockKeys,
     CP!UndoKeys, CP!RefusedKeys, CP!Registered, CP!Known, CP!Refuse, CP!Free,
     CP!AfterLocks, CP!Sold, CP!Robbed, CP!NoJob, CP!Keys, CP!Replies, CP!TypeOK,
     CP!Holds, CP!LockExclusive, CP!OneEventPerRequest

\* And of the same Settlement.
LEMMA SameSettlement ==
    /\ S!SettlementAssumption <=> SP!SettlementAssumption
    /\ S!Init <=> SP!Init
    /\ S!Next <=> SP!Next
    /\ UNCHANGED S!vars <=> UNCHANGED SP!vars
    /\ S!TypeOK <=> SP!TypeOK
    /\ \A s : S!Body(s) <=> SP!Body(s)
  BY DEF
     S!SettlementAssumption, S!Init, S!Next, S!vars, S!Body, S!Publish, S!ReadMessage,
     S!ReadMessageFails, S!CheckFunds, S!Debit, S!Credit, S!CreateRow, S!CreateReceiverRow,
     S!Abandon, S!Goto, S!Fault, S!AfterDebit, S!AfterRow, S!Skip, S!AfterCommit, S!Commit,
     S!Ev, S!Int32, S!MayChange, S!SetBalance, S!UserRow, S!ReceiverRow, S!InitialRow, S!Due,
     S!topic, S!database, S!RowValues, S!Transfers, S!PurchaseEvents, S!TransferEvents,
     S!Offsets, S!Steps, S!TypeOK, S!IsFiniteSet,
     SP!SettlementAssumption, SP!Init, SP!Next, SP!vars, SP!Body, SP!Publish, SP!ReadMessage,
     SP!ReadMessageFails, SP!CheckFunds, SP!Debit, SP!Credit, SP!CreateRow,
     SP!CreateReceiverRow, SP!Abandon, SP!Goto, SP!Fault, SP!AfterDebit, SP!AfterRow, SP!Skip,
     SP!AfterCommit, SP!Commit, SP!Ev, SP!Int32, SP!MayChange, SP!SetBalance, SP!UserRow,
     SP!ReceiverRow, SP!InitialRow, SP!Due, SP!topic, SP!database, SP!RowValues, SP!Transfers,
     SP!PurchaseEvents, SP!TransferEvents, SP!Offsets, SP!Steps, SP!TypeOK,
     SP!IsFiniteSet

\* What the components guarantee by themselves.
Admitting == CP!TypeInv /\ CP!LocksOwned /\ CP!Admission
Settling == SP!Inv

\* The invariants of Checkout hold in the shop as long as it steps like Checkout.
LEMMA AdmittingStep == Admitting /\ [C!Next]_C!vars => Admitting'
  BY ComponentAssumptions, SameCheckout, CP!TypeStep, CP!LocksStep, CP!AdmissionStep
     DEF Admitting

\* And those of Settlement.
LEMMA SettlingStep == Settling /\ [S!Next]_S!vars => Settling'
  BY ComponentAssumptions, SameSettlement, SP!NextInv DEF Settling

\* They hold at the start.
LEMMA ComponentsInit == Init => Admitting /\ Settling
  <1>1. Init => CP!Init /\ SP!Init
    BY SameCheckout, SameSettlement DEF Init
  <1>2. CP!Init => CP!TypeInv
    BY ComponentAssumptions, SameCheckout, CP!TypeInit
  <1>3. CP!Init => CP!LocksOwned /\ CP!Admission
    BY ComponentAssumptions, SameCheckout
       DEF CP!Init, CP!LocksOwned, CP!Entitled, CP!Holds, CP!Admission, CP!CheckoutAssumption
  <1>4. SP!Init => SP!Inv
    BY ComponentAssumptions, SameSettlement, SP!InitInv
  <1> QED
    BY <1>1, <1>2, <1>3, <1>4 DEF Admitting, Settling

-----------------------------------------------------------------------------
(* The shop's own variables                                                *)

Types ==
    /\ phase \in [Servers -> Phases]
    /\ buffer \subseteq posted /\ givenUp \subseteq posted
    /\ origin \in Seq(Handlers) /\ Len(origin) = Len(log)
    /\ late \subseteq lapsed

\* Every record is the event of an accepted request.
Traced ==
    \A o \in 1 .. Len(origin) : origin[o] \in posted /\ log[o] = EventOf(job[origin[o]])

Inv == Admitting /\ Settling /\ Types /\ Traced /\ AcceptedIsKept

\* What is accepted can be sent: what it asks for exists.
LEMMA PostedIsSendable ==
    ASSUME Admitting, NEW h \in posted
    PROVE  h \in Handlers /\ job[h] \in Sendable /\ EventOf(job[h]) \in {EventOf(j) : j \in Sendable}
  <1>1. h \in Handlers /\ job[h] \in Jobs
    BY DEF Admitting, CP!TypeInv, CP!TypeOK, CP!JobFacts
  <1>2. job[h].item \in IF job[h].kind = "buy" THEN Merch ELSE Users
    BY <1>1 DEF Admitting, CP!Admission, CP!ItemKnown
  <1> QED
    BY <1>1, <1>2 DEF Sendable

\* Every step of the shop is a step of Checkout, or none: what the consumers do is
\* a change of one balance.
LEMMA CheckoutStep == Settling /\ [Next]_vars => [C!Next]_C!vars
  <1> SUFFICES ASSUME Settling, [Next]_vars PROVE C!Next \/ UNCHANGED C!vars
    OBVIOUS
  <1>1. UNCHANGED <<admission, balance>> => UNCHANGED C!vars
    BY DEF admission, C!vars
  <1>2. CASE \E h \in Handlers : Handle(h)
    BY <1>2 DEF Handle, C!Next
  <1>3. CASE \E u \in Users : Expire(u)
    BY <1>3 DEF Expire, C!Next
  <1>4. ASSUME NEW s \in Servers, Consume(s) PROVE C!Next \/ UNCHANGED C!vars
    <2>1. UNCHANGED admission /\ SP!Body(s)
      BY <1>4, SameSettlement DEF Consume
    <2>2. CASE \E u \in Users : \E b \in 0 .. MaxInt : balance' = [balance EXCEPT ![u] = b]
      BY <2>1, <2>2 DEF C!Next, C!Settle, admission
    <2> QED
      BY <1>1, <2>1, <2>2, ComponentAssumptions, SameSettlement, SP!OneBalance DEF Settling
  <1>5. CASE \/ \E s \in Servers : ConsumeFails(s)
             \/ \E h \in Handlers : Deliver(h) \/ GiveUp(h)
             \/ \E s \in Servers, p \in Phases : Move(s, p)
             \/ UNCHANGED vars
    BY <1>1, <1>5 DEF ConsumeFails, S!ReadMessageFails, S!Abandon, S!database, Deliver, S!Publish,
                      GiveUp, Move, vars
  <1> QED
    BY <1>2, <1>3, <1>4, <1>5 DEF Next, Terminate, Drained, DrainTimeout, Exit, Crash, Phases

\* And of Settlement: what the handlers, the writers and the processes do appends
\* events to the topic, or is none.
LEMMA SettlementStep == Admitting /\ Types /\ [Next]_vars => [S!Next]_S!vars
  <1> SUFFICES ASSUME Admitting, Types, [Next]_vars PROVE S!Next \/ UNCHANGED S!vars
    OBVIOUS
  <1>1. UNCHANGED <<balance, settlement>> => UNCHANGED S!vars
    BY DEF settlement, S!vars
  <1>2. CASE \E s \in Servers : Consume(s) \/ ConsumeFails(s)
    BY <1>2 DEF Consume, ConsumeFails, S!Next
  <1>3. ASSUME NEW h \in Handlers, Deliver(h) PROVE S!Next
    <2>1. EventOf(job[h]) \in {EventOf(j) : j \in Sendable}
      BY <1>3, PostedIsSendable DEF Deliver, Types
    <2> QED
      BY <1>3, <2>1 DEF Deliver, S!Next
  <1>4. ASSUME NEW h \in Handlers, Handle(h) PROVE UNCHANGED <<balance, settlement>>
    BY <1>4 DEF Handle, C!Start, C!Call, C!Cancel, C!GetRequest, C!SetRequest, C!SetLock,
                C!GetMerch, C!GetPrice, C!GetBalance, C!Send, C!Undo
  <1>5. CASE \/ \E u \in Users : Expire(u)
             \/ \E h \in Handlers : GiveUp(h)
             \/ \E s \in Servers, p \in Phases : Move(s, p)
             \/ UNCHANGED vars
    BY <1>1, <1>5 DEF Expire, C!Expire, GiveUp, Move, LeftUnread, settlement, vars
  <1> QED
    BY <1>1, <1>2, <1>3, <1>4, <1>5
       DEF Next, Terminate, Drained, DrainTimeout, Exit, Crash, Phases

-----------------------------------------------------------------------------
(* The steps                                                               *)

\* What is accepted stays accepted, with its job; locks that were lost stay lost.
LEMMA HandleFacts ==
    ASSUME Admitting,
           (\E h \in Handlers : Handle(h)) \/ (\E u \in Users : Expire(u)) \/ UNCHANGED admission
    PROVE  /\ posted \subseteq posted' /\ lapsed \subseteq lapsed'
           /\ \A g \in posted : job'[g] = job[g]
  <1> USE DEF C!Start, C!Call, C!Cancel, C!GetRequest, C!SetRequest, C!SetLock,
              C!GetMerch, C!GetPrice, C!GetBalance, C!Send, C!Undo
  <1>1. CASE \E h \in Handlers : \E j \in Jobs : C!Start(h, j)
    BY <1>1 DEF C!At, Admitting, CP!TypeInv, CP!TypeOK, CP!JobFacts
  <1>2. CASE \E h \in Handlers : C!Call(h) \/ C!Cancel(h)
    BY <1>2
  <1> QED
    BY <1>1, <1>2 DEF Handle, Expire, C!Expire, admission

\* An event that has just been posted is in the buffer of a living process.
LEMMA NewlyPosted ==
    ASSUME Inv, (\E h \in Handlers : Handle(h)) \/ (\E u \in Users : Expire(u)) \/ UNCHANGED posted,
           NEW g \in Handlers, g \in posted', g \notin posted
    PROVE  Alive(Home[g])' /\ g \in buffer'
  <1>1. PICK h \in Handlers : Handle(h)
    BY DEF Expire, C!Expire
  <1>2. posted' \subseteq posted \cup {h}
    BY <1>1 DEF Handle, C!Start, C!Call, C!Cancel, C!GetRequest, C!SetRequest, C!SetLock,
                C!GetMerch, C!GetPrice, C!GetBalance, C!Send, C!Undo
  <1> QED
    BY <1>1, <1>2 DEF Handle, Serving, Alive

\* Handlers, expiring locks and consumers append nothing to the topic, and an event
\* that is posted is in the buffer of a living process.
LEMMA QuietShop ==
    ASSUME Inv,
           \/ \E h \in Handlers : Handle(h)
           \/ \E u \in Users : Expire(u)
           \/ UNCHANGED <<admission, phase, buffer, givenUp, origin, late>>
                /\ UNCHANGED log
    PROVE  Types' /\ Traced' /\ AcceptedIsKept'
  <1>1. /\ posted \subseteq posted' /\ lapsed \subseteq lapsed'
        /\ \A g \in posted : job'[g] = job[g]
    BY HandleFacts DEF Inv
  <1>2. /\ UNCHANGED <<phase, givenUp, origin, log>>
        /\ buffer \subseteq buffer' /\ posted' \ posted \subseteq buffer' /\ buffer' \subseteq posted'
        /\ late' \subseteq lapsed'
    BY <1>1 DEF Inv, Types, Handle, Expire, C!Expire, NoteLate, admission, settlement
  <1>3. Types' /\ Traced'
    BY <1>1, <1>2 DEF Inv, Types, Traced
  <1>4. \A g \in Handlers : g \in posted' /\ g \notin posted => Alive(Home[g])' /\ g \in buffer'
    BY NewlyPosted DEF admission
  <1>5. AcceptedIsKept'
    BY <1>1, <1>2, <1>4 DEF Inv, AcceptedIsKept, Accepted, Records, MayBeLost, Alive
  <1> QED
    BY <1>3, <1>5

\* A batch that is written is the event of its request.
LEMMA DeliverShop ==
    ASSUME Inv, NEW h \in Handlers, Deliver(h)
    PROVE  Types' /\ Traced' /\ AcceptedIsKept'
  <1>1. /\ UNCHANGED <<admission, phase, givenUp, late>> /\ h \in posted
        /\ buffer' \subseteq buffer /\ buffer \ {h} \subseteq buffer'
        /\ origin' = Append(origin, h) /\ log' = Append(log, EventOf(job[h]))
    BY DEF Deliver, S!Publish, Inv, Types
  <1>2. /\ Len(origin) \in Nat /\ Len(origin') = Len(origin) + 1 /\ origin' \in Seq(Handlers)
        /\ Len(log') = Len(log) + 1
        /\ \A o \in 1 .. Len(origin) : origin'[o] = origin[o] /\ log'[o] = log[o]
        /\ origin'[Len(origin) + 1] = h /\ log'[Len(origin) + 1] = EventOf(job[h])
    BY <1>1 DEF Inv, Types, Settling, SP!Inv, SP!TypeOK
  <1>3. 1 .. Len(origin') = (1 .. Len(origin)) \cup {Len(origin) + 1}
    <2>1. \A k \in Nat : 1 .. k + 1 = (1 .. k) \cup {k + 1}
      OBVIOUS
    <2> QED
      BY <1>2, <2>1
  <1>4. Types'
    BY <1>1, <1>2 DEF Inv, Types, admission
  <1>5. Traced'
    BY <1>1, <1>2, <1>3 DEF Inv, Traced, admission
  <1>6. AcceptedIsKept'
    <2>1. \A g : Records(g)' = {o \in 1 .. Len(origin') : origin'[o] = g}
      BY <1>4 DEF Types, Records
    <2>2. \A g : Records(g) = {o \in 1 .. Len(origin) : origin[o] = g}
      BY DEF Inv, Types, Records
    <2>3. Records(h)' # {} /\ \A g : Records(g) # {} => Records(g)' # {}
      BY <1>2, <1>3, <2>1, <2>2
    <2>4. \A g \in Handlers : Alive(Home[g])' = Alive(Home[g]) /\ MayBeLost(g)' = MayBeLost(g)
      BY <1>1 DEF Alive, MayBeLost
    <2> QED
      BY <1>1, <2>3, <2>4 DEF Inv, AcceptedIsKept, Accepted, admission
  <1> QED
    BY <1>4, <1>5, <1>6

\* An event that is given up is noted; a process that stops in good order has
\* written or given up its own.
LEMMA ProcessShop ==
    ASSUME Inv,
           \/ \E h \in Handlers : GiveUp(h)
           \/ \E s \in Servers : Terminate(s) \/ Drained(s) \/ DrainTimeout(s) \/ Exit(s) \/ Crash(s)
    PROVE  Types' /\ Traced' /\ AcceptedIsKept'
  <1>1. CASE \E h \in Handlers : GiveUp(h)
    BY <1>1 DEF GiveUp, admission, settlement, Inv, Types, Traced, AcceptedIsKept, Accepted,
                Records, MayBeLost, Alive
  <1>2. ASSUME NEW s \in Servers, NEW p \in Phases, Move(s, p),
               p = "stopped" => Flushed(s), ~Alive(s) => FALSE
        PROVE  Types' /\ Traced' /\ AcceptedIsKept'
    <2>1. /\ UNCHANGED <<admission, log, buffer, givenUp, origin, late>>
          /\ phase' = [phase EXCEPT ![s] = p]
      BY <1>2 DEF Move
    <2>2. Types' /\ Traced'
      BY <2>1 DEF Inv, Types, Traced, admission
    <2>3. ASSUME NEW h \in Handlers, Alive(Home[h]), h \in buffer
          PROVE  phase'[Home[h]] = "killed" \/ Alive(Home[h])'
      <3>1. Home[h] = s => p # "stopped"
        BY <1>2, <2>3 DEF Flushed, Served
      <3>2. phase'[Home[h]] = IF Home[h] = s THEN p ELSE phase[Home[h]]
        BY <2>1, MerchShopAssumption DEF Inv, Types
      <3> QED
        BY <2>3, <3>1, <3>2 DEF Alive, Phases
    <2>4. \A h \in Handlers : MayBeLost(h) => MayBeLost(h)'
      BY <1>2, <2>1, MerchShopAssumption DEF MayBeLost, Alive, Inv, Types
    <2> QED
      BY <2>1, <2>2, <2>3, <2>4 DEF Inv, AcceptedIsKept, Accepted, Records, MayBeLost, admission
  <1> QED
    BY <1>1, <1>2 DEF Terminate, Drained, DrainTimeout, Exit, Crash, Phases, Alive

\* The invariant holds at the start.
LEMMA InitInv == Init => Inv
  <1> SUFFICES ASSUME Init PROVE Inv
    OBVIOUS
  <1>1. posted = {} /\ log = <<>> /\ origin = <<>>
    BY DEF Init, C!Init, S!Init
  <1>2. Types
    BY <1>1 DEF Init, Types, Phases
  <1>3. Traced /\ AcceptedIsKept
    BY <1>1 DEF Traced, AcceptedIsKept, Accepted
  <1> QED
    BY <1>2, <1>3, ComponentsInit DEF Inv

\* Every step keeps it: the parts about the components because it is a step of each.
LEMMA NextInv == Inv /\ [Next]_vars => Inv'
  <1> SUFFICES ASSUME Inv, [Next]_vars PROVE Inv'
    OBVIOUS
  <1>1. Admitting'
    BY CheckoutStep, AdmittingStep DEF Inv
  <1>2. Settling'
    BY SettlementStep, SettlingStep DEF Inv
  <1>3. CASE UNCHANGED <<admission, phase, buffer, givenUp, origin, late>> /\ UNCHANGED log
    BY <1>1, <1>2, <1>3, QuietShop DEF Inv
  <1>4. (\E s \in Servers : Consume(s) \/ ConsumeFails(s)) \/ UNCHANGED vars =>
            UNCHANGED <<admission, phase, buffer, givenUp, origin, late>> /\ UNCHANGED log
    BY DEF Consume, ConsumeFails, S!Body, S!ReadMessage, S!CheckFunds, S!Debit, S!Credit,
           S!CreateRow, S!CreateReceiverRow, S!ReadMessageFails, S!Abandon, S!topic, vars, settlement
  <1> QED
    BY <1>1, <1>2, <1>3, <1>4, QuietShop, DeliverShop, ProcessShop DEF Inv, Next

\* The inductive invariant always holds.
LEMMA Invariance == Spec => []Inv
  BY InitInv, NextInv, PTL DEF Spec

-----------------------------------------------------------------------------
(* Why an accepted request is settled                                      *)

Admitted(h) == pc[h] = "Send" \/ h \in posted
Enough(h) == balance[job[h].user] >= job[h].cost

\* A lock of the payer of h went away too early.
LateFor(h) == \E g \in Handlers : <<g, job[h].user>> \in late

\* Consumer s has a record in hand and has not debited it yet.
InHand(s, o) == Alive(s) /\ cur[s] = o /\ stage[s] \in {"GetBalance", "Debit"}

\* The debit of h is still to come.
Coming(h) ==
    \/ Alive(Home[h]) /\ h \in buffer
    \/ \E o \in Records(h) : o \in unread \/ \E s \in Servers : InHand(s, o)

\* A lock that went away under a request was noted, as long as the request is not
\* concluded.
Noted ==
    \A g \in Handlers, u \in Users :
        Outstanding(g) /\ <<g, u>> \in lapsed => <<g, u>> \in late

\* What an admitted request needs stays in the payer's wallet.
Funded ==
    \A h \in Handlers :
        Admitted(h) /\ Outstanding(h) /\ ~Settled(h) => Enough(h) \/ LateFor(h)

\* An accepted request is settled or on its way, or one of the excuses holds.
WorkedOn ==
    \A h \in Handlers :
        Accepted(h) =>
            Settled(h) \/ MayBeLost(h) \/ Interrupted(h) \/ LateFor(h) \/ Coming(h)

Funding == Noted /\ Funded /\ WorkedOn

\* A record is an event of the topic, of an accepted request.
LEMMA RecordFacts ==
    ASSUME Inv, NEW h \in Handlers, NEW o \in Records(h)
    PROVE  /\ o \in 1 .. Len(log) /\ o \in 1 .. MaxLog /\ o # 0 /\ origin[o] = h
           /\ h \in posted /\ log[o] = EventOf(job[h])
           /\ log[o].user = job[h].user /\ S!Due(log[o]) = job[h].cost
           /\ job[h].user \in Users /\ job[h].cost \in Nat \ {0}
  <1>1. o \in 1 .. Len(origin) /\ origin[o] = h /\ Len(origin) = Len(log)
    BY DEF Inv, Types, Records
  <1>2. Len(log) \in Nat /\ Len(log) <= MaxLog /\ MaxLog \in Nat
    BY ComponentAssumptions, SameSettlement
       DEF Inv, Settling, SP!Inv, SP!TypeOK, S!SettlementAssumption
  <1>3. h \in posted /\ log[o] = EventOf(job[h])
    BY <1>1 DEF Inv, Traced
  <1>4. job[h].user \in Users /\ job[h].cost \in Nat \ {0}
    BY <1>3, ComponentAssumptions, SameCheckout, CP!PayerHeld DEF Inv, Admitting, CP!Admitted
  <1>5. log[o].user = job[h].user /\ S!Due(log[o]) = job[h].cost
    BY <1>3, <1>4 DEF EventOf, S!Due
  <1> QED
    BY <1>1, <1>2, <1>3, <1>4, <1>5

\* What a consumer's step leaves alone, and what it may do to the record in hand.
LEMMA ConsumerStep ==
    ASSUME Inv, NEW s \in Servers, Consume(s) \/ ConsumeFails(s)
    PROVE  /\ UNCHANGED <<admission, phase, buffer, givenUp, origin, late, log>> /\ Alive(s)
           /\ \A r \in Servers \ {s} : stage'[r] = stage[r] /\ cur'[r] = cur[r]
           /\ cur'[s] \in {0, cur[s]} \cup unread /\ unread' \subseteq unread
           /\ mishaps \in Nat /\ mishaps' \in Nat /\ mishaps <= mishaps'
           /\ \A o \in 1 .. MaxLog : debits[o] = 1 => debits'[o] = 1
  <1> USE DEF Consume, ConsumeFails, S!Body, S!ReadMessage, S!CheckFunds, S!Debit, S!Credit,
              S!CreateRow, S!CreateReceiverRow, S!ReadMessageFails, S!Abandon, S!topic,
              S!database, S!Goto, S!Skip, S!AfterCommit, S!Fault
  <1>1. /\ stage \in [Servers -> SP!Steps] /\ cur \in [Servers -> 0 .. MaxLog]
        /\ mishaps \in 0 .. MaxFaults /\ debits \in [1 .. MaxLog -> Nat] /\ MaxFaults \in Nat
    BY ComponentAssumptions DEF Inv, Settling, SP!Inv, SP!TypeOK, SP!Offsets, S!SettlementAssumption
  <1>2. UNCHANGED <<admission, phase, buffer, givenUp, origin, late, log>> /\ Alive(s)
    OBVIOUS
  <1>3. \A r \in Servers \ {s} : stage'[r] = stage[r] /\ cur'[r] = cur[r]
    BY <1>1
  <1>4. cur'[s] \in {0, cur[s]} \cup unread /\ unread' \subseteq unread
    BY <1>1 DEF S!Commit
  <1>5. mishaps \in Nat /\ mishaps' \in Nat /\ mishaps <= mishaps'
    BY <1>1
  <1>6. UNCHANGED debits \/ (stage[s] = "Debit" /\ debits' = [debits EXCEPT ![cur[s]] = @ + 1])
    OBVIOUS
  <1>7. stage[s] = "Debit" => debits[cur[s]] = 0
    BY DEF Inv, Settling, SP!Inv, SP!StageFacts
  <1> HIDE DEF Consume, ConsumeFails
  <1>8. ASSUME NEW o \in 1 .. MaxLog, debits[o] = 1 PROVE debits'[o] = 1
    <2>1. CASE stage[s] = "Debit" /\ debits' = [debits EXCEPT ![cur[s]] = @ + 1]
      <3>1. o # cur[s] /\ DOMAIN debits = 1 .. MaxLog
        BY <1>1, <1>7, <1>8, <2>1
      <3> QED
        BY <1>8, <2>1, <3>1
    <2> QED
      BY <1>6, <1>8, <2>1
  <1> QED
    BY <1>2, <1>3, <1>4, <1>5, <1>8

\* What no step takes back.
Monotone ==
    /\ \A o \in DOMAIN origin : o \in DOMAIN origin' /\ origin'[o] = origin[o]
    /\ posted \subseteq posted' /\ \A h \in posted : job'[h] = job[h]
    /\ late \subseteq late' /\ givenUp \subseteq givenUp'
    /\ \A s \in Servers : ~Alive(s) => ~Alive(s)' /\ cur'[s] = cur[s]
    /\ \A s \in Servers : phase[s] = "killed" => phase'[s] = "killed"
    /\ mishaps > 0 => mishaps' > 0
    /\ \A o \in 1 .. MaxLog : debits[o] = 1 => debits'[o] = 1

\* What a handler or an expiring lock leaves alone.
LEMMA HandlerStep ==
    ASSUME Inv, (\E h \in Handlers : Handle(h)) \/ (\E u \in Users : Expire(u))
    PROVE  /\ UNCHANGED <<balance, settlement, phase, givenUp, origin>> /\ NoteLate
           /\ posted \subseteq posted' /\ \A h \in posted : job'[h] = job[h]
  <1>1. UNCHANGED <<balance, settlement, phase, givenUp, origin>> /\ NoteLate
    BY DEF Handle, Expire, C!Expire, C!Start, C!Call, C!Cancel, C!GetRequest, C!SetRequest,
           C!SetLock, C!GetMerch, C!GetPrice, C!GetBalance, C!Send, C!Undo
  <1> QED
    BY <1>1, HandleFacts DEF Inv

\* What the delivery of a batch changes.
LEMMA DeliverStep ==
    ASSUME Inv, NEW h \in Handlers, Deliver(h)
    PROVE  /\ UNCHANGED <<admission, balance, stage, cur, rows, mishaps, debits, credits,
                          phase, givenUp, late>>
           /\ h \in buffer /\ Alive(Home[h]) /\ buffer \ {h} \subseteq buffer' /\ buffer' \subseteq buffer
           /\ unread' = unread \cup {Len(log) + 1}
           /\ DOMAIN origin' = DOMAIN origin \cup {Len(log) + 1}
           /\ origin'[Len(log) + 1] = h /\ \A o \in DOMAIN origin : origin'[o] = origin[o]
  <1>1. /\ UNCHANGED <<admission, balance, stage, cur, rows, mishaps, debits, credits,
                       phase, givenUp, late>>
        /\ h \in buffer /\ Alive(Home[h]) /\ buffer \ {h} \subseteq buffer' /\ buffer' \subseteq buffer
        /\ unread' = unread \cup {Len(log) + 1} /\ origin' = Append(origin, h)
    BY DEF Deliver, S!Publish, S!database
  <1>2. Len(log) \in Nat /\ Len(origin) = Len(log) /\ origin \in Seq(Handlers)
    BY DEF Inv, Types
  <1>3. /\ Len(origin') = Len(log) + 1 /\ origin'[Len(log) + 1] = h /\ origin' \in Seq(Handlers)
        /\ \A o \in 1 .. Len(origin) : origin'[o] = origin[o]
    BY <1>1, <1>2
  <1>4. \A k \in Nat : 1 .. k + 1 = (1 .. k) \cup {k + 1}
    OBVIOUS
  <1>5. DOMAIN origin' = DOMAIN origin \cup {Len(log) + 1}
    BY <1>2, <1>3, <1>4
  <1> QED
    BY <1>1, <1>2, <1>3, <1>5

\* The only processes that move on are alive.
LEMMA ProcessStep ==
    ASSUME Inv, NEW s \in Servers,
           Terminate(s) \/ Drained(s) \/ DrainTimeout(s) \/ Exit(s) \/ Crash(s)
    PROVE  /\ UNCHANGED <<admission, balance, settlement, buffer, givenUp, origin, late>> /\ Alive(s)
           /\ \A r \in Servers \ {s} : phase'[r] = phase[r]
           /\ phase'[s] = "killed" \/ (buffer \cap Served(s) = {} /\ ~Alive(s)') \/ Alive(s)'
  <1>1. PICK p \in Phases : Move(s, p) /\ (p = "stopped" => buffer \cap Served(s) = {})
    BY DEF Terminate, Drained, DrainTimeout, Exit, Crash, Phases, Flushed
  <1>2. /\ UNCHANGED <<admission, balance, settlement, buffer, givenUp, origin, late>>
        /\ phase' = [phase EXCEPT ![s] = p]
    BY <1>1 DEF Move, LeftUnread, settlement
  <1>3. phase'[s] = p /\ \A r \in Servers \ {s} : phase'[r] = phase[r]
    BY <1>2 DEF Inv, Types
  <1> QED
    BY <1>1, <1>2, <1>3
       DEF Terminate, Drained, DrainTimeout, Exit, Crash, Alive, Phases

\* Every step keeps what the definition lists.
LEMMA StepMonotone == Inv /\ [Next]_vars => Monotone
  <1> SUFFICES ASSUME Inv, [Next]_vars PROVE Monotone
    OBVIOUS
  <1>1. CASE (\E h \in Handlers : Handle(h)) \/ (\E u \in Users : Expire(u))
    BY <1>1, HandlerStep DEF Monotone, NoteLate, Alive, settlement
  <1>2. CASE \E h \in Handlers : Deliver(h)
    BY <1>2, DeliverStep DEF Monotone, Alive, admission
  <1>3. CASE \E h \in Handlers : GiveUp(h)
    BY <1>3 DEF GiveUp, Monotone, Alive, admission, settlement
  <1>4. ASSUME NEW s \in Servers,
               Terminate(s) \/ Drained(s) \/ DrainTimeout(s) \/ Exit(s) \/ Crash(s)
        PROVE  Monotone
    BY <1>4, ProcessStep DEF Monotone, Alive, admission, settlement
  <1>5. ASSUME NEW s \in Servers, Consume(s) \/ ConsumeFails(s) PROVE Monotone
    BY <1>5, ConsumerStep DEF Monotone, Alive, admission
  <1>6. CASE UNCHANGED vars
    BY <1>6 DEF Monotone, Alive, vars, admission, settlement
  <1> QED
    BY <1>1, <1>2, <1>3, <1>4, <1>5, <1>6 DEF Next

\* So a settled request stays settled, and an excuse stays one.
LEMMA StaysSettled ==
    ASSUME Inv, Monotone, NEW h \in Handlers
    PROVE  /\ Records(h) \subseteq Records(h)'
           /\ Settled(h) => Settled(h)'
           /\ MayBeLost(h) => MayBeLost(h)'
           /\ Interrupted(h) => Interrupted(h)'
           /\ h \in posted /\ LateFor(h) => LateFor(h)'
  <1>1. Records(h) \subseteq Records(h)'
    BY DEF Monotone, Records
  <1>2. Settled(h) => Settled(h)'
    BY <1>1, RecordFacts DEF Monotone, Settled
  <1>3. MayBeLost(h) => MayBeLost(h)'
    BY MerchShopAssumption DEF Monotone, MayBeLost
  <1>4. Interrupted(h) => Interrupted(h)'
    BY <1>1 DEF Monotone, Interrupted
  <1>5. h \in posted /\ LateFor(h) => LateFor(h)'
    BY DEF Monotone, LateFor
  <1> QED
    BY <1>1, <1>2, <1>3, <1>4, <1>5

\* Nothing comes back: a request that is concluded stays concluded.
LEMMA StaysConcluded ==
    ASSUME Inv, [Next]_vars, NEW h \in Handlers, pc[h] # "Idle", Outstanding(h)'
    PROVE  Outstanding(h)
  <1>1. \A s \in Servers : Alive(s)' => Alive(s)
    BY StepMonotone DEF Monotone
  <1>2. Home[h] \in Servers
    BY MerchShopAssumption
  <1>3. ASSUME NEW g \in Handlers, Handle(g) PROVE Outstanding(h)
    <2>1. C!InFlight(h)' => C!InFlight(h)
      <3>1. DOMAIN pc = Handlers
        BY DEF Inv, Admitting, CP!TypeInv, CP!TypeOK
      <3>2. \A f \in Handlers \ {g} : pc'[f] = pc[f]
        BY <1>3, <3>1
           DEF Handle, C!Start, C!Call, C!Cancel, C!GetRequest, C!SetRequest, C!SetLock,
               C!GetMerch, C!GetPrice, C!GetBalance, C!Send, C!Undo, C!Refuse, C!NextKey, C!Goto, C!Fail,
               C!Answer
      <3>3. pc[g] = "Idle" \/ C!InFlight(g)
        BY <1>3 DEF Handle, C!Start, C!Call, C!Cancel, C!GetRequest, C!SetRequest, C!SetLock,
                    C!GetMerch, C!GetPrice, C!GetBalance, C!Send, C!Undo, C!At, C!InFlight
      <3> QED
        BY <3>2, <3>3 DEF C!InFlight
    <2>2. h \in buffer' => h \in buffer \/ C!InFlight(h)
      BY <1>3 DEF Handle, C!Start, C!Call, C!Cancel, C!GetRequest, C!SetRequest, C!SetLock,
                  C!GetMerch, C!GetPrice, C!GetBalance, C!Send, C!Undo, C!At, C!InFlight
    <2> QED
      BY <1>1, <1>2, <1>3, <2>1, <2>2, HandlerStep DEF Outstanding, Records, settlement, Alive
  <1>4. CASE \E u \in Users : Expire(u)
    BY <1>4 DEF Outstanding, Records, Expire, C!Expire, C!InFlight, settlement, Alive
  <1>5. ASSUME NEW g \in Handlers, Deliver(g) PROVE Outstanding(h)
    BY <1>5, DeliverStep, RecordFacts DEF Outstanding, Records, C!InFlight, admission, Alive
  <1>6. CASE \E g \in Handlers : GiveUp(g)
    BY <1>6 DEF GiveUp, Outstanding, Records, C!InFlight, admission, settlement, Alive
  <1>7. ASSUME NEW s \in Servers,
               Terminate(s) \/ Drained(s) \/ DrainTimeout(s) \/ Exit(s) \/ Crash(s)
        PROVE  Outstanding(h)
    BY <1>1, <1>2, <1>7, ProcessStep DEF Outstanding, Records, C!InFlight, admission, settlement
  <1>8. ASSUME NEW s \in Servers, Consume(s) \/ ConsumeFails(s) PROVE Outstanding(h)
    <2>1. C!InFlight(h)' = C!InFlight(h) /\ Records(h)' = Records(h) /\ buffer' = buffer
      BY <1>8, ConsumerStep DEF C!InFlight, Records, admission
    <2>2. \A o \in Records(h) : o # 0
      BY RecordFacts
    <2>3. \A r \in Servers, o \in Records(h) : cur'[r] = o => cur[r] = o \/ o \in unread
      BY <1>8, <2>2, ConsumerStep
    <2>4. unread' \subseteq unread
      BY <1>8, ConsumerStep
    <2> QED
      BY <1>1, <1>2, <2>1, <2>3, <2>4 DEF Outstanding
  <1>9. CASE UNCHANGED vars
    BY <1>9 DEF vars, Outstanding, Records, C!InFlight, admission, settlement, Alive
  <1> QED
    BY <1>3, <1>4, <1>5, <1>6, <1>7, <1>8, <1>9 DEF Next

\* Only handlers and Redis change what is admitted and which locks are lost.
LEMMA AdmissionMoves ==
    ASSUME Inv, [Next]_vars
    PROVE  \/ (\E h \in Handlers : Handle(h)) \/ (\E u \in Users : Expire(u))
           \/ UNCHANGED admission
  BY ConsumerStep, DeliverStep, ProcessStep DEF Next, GiveUp, vars

\* A lock that goes away is noted: its owner has begun, and is not concluded.
LEMMA NotedStep ==
    ASSUME Inv, Inv', Noted, [Next]_vars
    PROVE  Noted'
  <1> SUFFICES ASSUME NEW g \in Handlers, NEW u \in Users, Outstanding(g)', <<g, u>> \in lapsed'
               PROVE  <<g, u>> \in late'
    BY DEF Noted
  <1>1. late \subseteq late'
    BY StepMonotone DEF Monotone
  <1>2. pc'[g] # "Idle" /\ (pc[g] = "Idle" => <<g, u>> \notin lapsed)
    BY DEF Inv, Admitting, CP!Admission
  <1>3. pc[g] # "Idle"
    <2> SUFFICES ASSUME pc[g] = "Idle" PROVE FALSE
      OBVIOUS
    <2>1. PICK h \in Handlers : Handle(h)
      BY <1>2, AdmissionMoves DEF Expire, C!Expire, admission
    <2>2. h = g
      <3>1. DOMAIN pc = Handlers
        BY DEF Inv, Admitting, CP!TypeInv, CP!TypeOK
      <3>2. \A f \in Handlers \ {h} : pc'[f] = pc[f]
        BY <2>1, <3>1
           DEF Handle, C!Start, C!Call, C!Cancel, C!GetRequest, C!SetRequest, C!SetLock,
               C!GetMerch, C!GetPrice, C!GetBalance, C!Send, C!Undo, C!Refuse, C!NextKey, C!Goto, C!Fail,
               C!Answer
      <3> QED
        BY <1>2, <3>2
    <2>3. lapsed' = lapsed
      BY <2>1, <2>2
         DEF Handle, C!Start, C!Call, C!Cancel, C!GetRequest, C!SetRequest, C!SetLock,
             C!GetMerch, C!GetPrice, C!GetBalance, C!Send, C!Undo, C!At, C!InFlight
    <2> QED
      BY <1>2, <2>3
  <1>4. Outstanding(g)
    BY <1>3, StaysConcluded
  <1>5. CASE <<g, u>> \in lapsed
    BY <1>1, <1>4, <1>5 DEF Noted
  <1>6. CASE <<g, u>> \notin lapsed
    <2>1. NoteLate
      BY <1>6, AdmissionMoves, HandlerStep DEF admission
    <2> QED
      BY <1>4, <1>6, <2>1 DEF NoteLate
  <1> QED
    BY <1>5, <1>6

\* A handler is admitted only with enough in the payer's wallet.
LEMMA HandlerAdmits ==
    ASSUME Inv, (\E g \in Handlers : Handle(g)) \/ (\E u \in Users : Expire(u)),
           NEW h \in Handlers, Admitted(h)'
    PROVE  (Admitted(h) /\ job'[h] = job[h]) \/ Enough(h)'
  <1>1. CASE \E u \in Users : Expire(u)
    BY <1>1 DEF Expire, C!Expire, Admitted
  <1>2. ASSUME NEW g \in Handlers, Handle(g)
        PROVE  (Admitted(h) /\ job'[h] = job[h]) \/ Enough(h)'
    <2>1. /\ pc \in [Handlers -> {"Idle", "GetRequest", "SetRequest", "SetLock", "GetMerch",
                                  "GetPrice", "GetBalance", "Send", "Undo", "Done"}]
          /\ job \in [Handlers -> Jobs \cup {C!NoJob}]
          /\ g \in posted => pc[g] = "Done"
      BY DEF Inv, Admitting, CP!TypeInv, CP!TypeOK, CP!JobFacts, CP!NoJob, C!NoJob
    <2>2. CASE \E j \in Jobs : C!Start(g, j)
      BY <1>2, <2>1, <2>2 DEF C!Start, C!At, C!Goto, C!Answer, Admitted
    <2>3. CASE C!GetBalance(g)
      BY <2>1, <2>3 DEF C!GetBalance, C!At, C!Goto, C!Fail, Admitted, Enough
    <2>4. CASE C!Send(g)
      BY <2>1, <2>4 DEF C!Send, C!At, C!Goto, C!Fail, C!Answer, Admitted
    <2>5. CASE \/ C!GetRequest(g) \/ C!SetRequest(g) \/ C!SetLock(g) \/ C!GetMerch(g)
               \/ C!GetPrice(g) \/ C!Undo(g) \/ C!Cancel(g)
      <3>1. UNCHANGED <<job, posted>> /\ pc'[g] # "Send" /\ (h # g => pc'[h] = pc[h])
        BY <2>1, <2>5
           DEF C!GetRequest, C!SetRequest, C!SetLock, C!GetMerch, C!GetPrice, C!Undo, C!Cancel,
               C!Refuse, C!NextKey, C!AfterLocks, C!At, C!Goto, C!Fail, C!Answer
      <3> QED
        BY <3>1 DEF Admitted
    <2> QED
      BY <1>2, <2>2, <2>3, <2>4, <2>5 DEF Handle, C!Call
  <1> QED
    BY <1>1, <1>2

\* A balance falls only by the debit of the record in hand.
LEMMA Spends ==
    ASSUME Inv, NEW s \in Servers, Consume(s) \/ ConsumeFails(s), NEW u \in Users
    PROVE  \/ balance'[u] >= balance[u]
           \/ /\ stage[s] = "Debit" /\ cur[s] \in DOMAIN origin
              /\ log[cur[s]].user = u /\ debits'[cur[s]] = 1
  <1>1. /\ balance \in [Users -> 0 .. MaxInt] /\ MaxInt \in Nat
        /\ debits \in [1 .. MaxLog -> Nat]
        /\ stage[s] # "ReadMessage" => cur[s] \in 1 .. Len(log) /\ cur[s] \in 1 .. MaxLog
    BY ComponentAssumptions
       DEF Inv, Settling, SP!Inv, SP!TypeOK, SP!Offsets, S!SettlementAssumption
  <1>2. balance[u] \in 0 .. MaxInt
    BY <1>1
  <1>3. CASE S!Debit(s)
    <2>1. cur[s] \in DOMAIN origin /\ stage[s] = "Debit"
      BY <1>1, <1>3 DEF S!Debit, Inv, Types
    <2>2. debits[cur[s]] = 0
      BY <2>1 DEF Inv, Settling, SP!Inv, SP!StageFacts
    <2>3. debits' = [debits EXCEPT ![cur[s]] = @ + 1] => debits'[cur[s]] = 1
      BY <1>1, <2>1, <2>2
    <2>4. \/ UNCHANGED balance
          \/ /\ balance' = [balance EXCEPT ![log[cur[s]].user] = @ + (-S!Due(log[cur[s]]))]
             /\ debits' = [debits EXCEPT ![cur[s]] = @ + 1]
      BY <1>3 DEF S!Debit, S!SetBalance, S!Ev
    <2>5. u # log[cur[s]].user => balance'[u] = balance[u]
      BY <1>1, <2>4
    <2> QED
      BY <1>2, <2>1, <2>3, <2>4, <2>5
  <1>4. CASE S!Credit(s)
    <2>1. stage[s] = "Credit" /\ log[cur[s]] \in SP!Transfers
      BY <1>4 DEF S!Credit, Inv, Settling, SP!Inv, SP!StageFacts, SP!Ev
    <2>2. log[cur[s]].amount \in Nat
      BY <2>1, ComponentAssumptions DEF SP!Transfers, S!SettlementAssumption,
         S!PurchaseEvents, S!TransferEvents
    <2>3. \/ UNCHANGED balance
          \/ balance' = [balance EXCEPT ![log[cur[s]].related] = @ + log[cur[s]].amount]
      BY <1>4 DEF S!Credit, S!SetBalance, S!Ev
    <2>4. balance'[u] \in {balance[u], balance[u] + log[cur[s]].amount}
      BY <1>1, <2>3
    <2> QED
      BY <1>2, <2>2, <2>4
  <1>5. CASE UNCHANGED balance
    BY <1>2, <1>5
  <1> QED
    BY <1>3, <1>4, <1>5
       DEF Consume, ConsumeFails, S!Body, S!ReadMessage, S!CheckFunds, S!CreateRow,
           S!CreateReceiverRow, S!ReadMessageFails, S!Abandon, S!database

\* No step takes the coins of an admitted request: the only other requests that
\* could are excluded by its lock, or by the note that the lock went away.
LEMMA FundedStep ==
    ASSUME Inv, Noted, Funded, [Next]_vars
    PROVE  Funded'
  <1> SUFFICES ASSUME NEW h \in Handlers, Admitted(h)', Outstanding(h)', ~Settled(h)'
               PROVE  Enough(h)' \/ LateFor(h)'
    BY DEF Funded
  <1>1. late \subseteq late'
    BY StepMonotone DEF Monotone
  <1>2. ASSUME Admitted(h), UNCHANGED balance, job'[h] = job[h]
        PROVE  Enough(h)' \/ LateFor(h)'
    <2>1. pc[h] # "Idle"
      BY <1>2 DEF Admitted, Inv, Admitting, CP!TypeInv, CP!JobFacts
    <2>2. Outstanding(h) /\ ~Settled(h)
      BY <2>1, StaysConcluded, StepMonotone, StaysSettled
    <2>3. Enough(h) \/ LateFor(h)
      BY <1>2, <2>2 DEF Funded
    <2>4. Enough(h) => Enough(h)'
      BY <1>2 DEF Enough
    <2>5. LateFor(h) => LateFor(h)'
      BY <1>1, <1>2 DEF LateFor
    <2> QED
      BY <2>3, <2>4, <2>5
  <1>3. CASE (\E g \in Handlers : Handle(g)) \/ (\E u \in Users : Expire(u))
    BY <1>2, <1>3, HandlerAdmits, HandlerStep
  <1>4. ASSUME NEW s \in Servers, Consume(s) \/ ConsumeFails(s)
        PROVE  Enough(h)' \/ LateFor(h)'
    <2>1. UNCHANGED admission /\ UNCHANGED origin /\ Alive(s)
      BY <1>4, ConsumerStep
    <2>2. Admitted(h) /\ job' = job
      BY <2>1 DEF Admitted, admission
    <2>3. pc[h] # "Idle"
      BY <2>2 DEF Admitted, Inv, Admitting, CP!TypeInv, CP!JobFacts
    <2>4. Outstanding(h) /\ ~Settled(h)
      BY <2>3, StaysConcluded, StepMonotone, StaysSettled
    <2>5. CASE LateFor(h)
      BY <1>1, <2>2, <2>5 DEF LateFor
    <2>6. CASE Enough(h)
      <3>1. job[h].user \in Users /\ job[h].cost \in Nat
        BY <2>2, ComponentAssumptions, SameCheckout, CP!PayerHeld
           DEF Inv, Admitting, CP!Admitted, Admitted
      <3>2. balance[job[h].user] \in Nat /\ balance'[job[h].user] \in Int
        <4>1. balance \in [Users -> 0 .. MaxInt] /\ balance' \in [Users -> 0 .. MaxInt]
          BY NextInv DEF Inv, Settling, SP!Inv, SP!TypeOK
        <4> QED
          BY <3>1, <4>1
      <3>3. CASE balance'[job[h].user] >= balance[job[h].user]
        BY <2>2, <2>6, <3>1, <3>2, <3>3 DEF Enough
      <3>4. CASE /\ cur[s] \in DOMAIN origin
                 /\ log[cur[s]].user = job[h].user /\ debits'[cur[s]] = 1
        <4>0. PICK g \in Handlers : g = origin[cur[s]]
          BY <3>4 DEF Inv, Types
        <4>1. cur[s] \in Records(g) /\ cur[s] \in Records(g)'
          BY <2>1, <3>4, <4>0 DEF Records
        <4>2. g \in posted /\ job[g].user = job[h].user
          BY <3>4, <4>1, RecordFacts
        <4>3. g # h
          BY <3>4, <4>1 DEF Settled
        <4>4. Outstanding(g)
          BY <2>1, <4>1 DEF Outstanding
        <4>5. {<<g, job[h].user>>, <<h, job[h].user>>} \cap lapsed # {}
          BY <2>2, <4>1, <4>2, <4>3, ComponentAssumptions, SameCheckout, CP!PayersExclude
             DEF Inv, Admitting, CP!Admitted, Admitted
        <4>6. <<g, job[h].user>> \in late \/ <<h, job[h].user>> \in late
          BY <2>4, <3>1, <4>1, <4>4, <4>5 DEF Noted
        <4>7. \E f \in Handlers : <<f, job[h].user>> \in late
          BY <4>1, <4>6
        <4> QED
          BY <1>1, <2>2, <4>7 DEF LateFor
      <3> QED
        BY <1>4, <3>1, <3>3, <3>4, Spends
    <2> QED
      BY <2>4, <2>5, <2>6, <2>2 DEF Funded
  <1>5. CASE UNCHANGED <<admission, balance>>
    BY <1>2, <1>5 DEF Admitted, admission
  <1> QED
    BY <1>3, <1>4, <1>5, DeliverStep, ProcessStep DEF Next, GiveUp, vars

\* The remainder of a small number is itself.
LEMMA SmallMod == ASSUME NEW a \in Nat, NEW b \in Nat \ {0}, a < b PROVE a % b = a
  OBVIOUS

\* A consumer whose record the payer can pay for does debit it, unless it fails.
LEMMA DebitComes ==
    ASSUME Inv, NEW s \in Servers, Consume(s), NEW h \in Handlers, NEW o \in Records(h),
           InHand(s, o), Enough(h)
    PROVE  InHand(s, o)' \/ debits'[o] = 1 \/ mishaps' > 0
  <1>1. /\ log[o].user = job[h].user /\ S!Due(log[o]) = job[h].cost
        /\ job[h].user \in Users /\ job[h].cost \in Nat /\ o \in 1 .. MaxLog
    BY RecordFacts
  <1>2. /\ balance[job[h].user] \in 0 .. MaxInt /\ MaxInt \in Nat \ {0}
        /\ stage \in [Servers -> SP!Steps] /\ cur \in [Servers -> 0 .. MaxLog]
        /\ debits \in [1 .. MaxLog -> Nat]
    BY <1>1, ComponentAssumptions
       DEF Inv, Settling, SP!Inv, SP!TypeOK, SP!Offsets, S!SettlementAssumption
  <1>3. cur[s] = o /\ S!Ev(s) = log[o] /\ Alive(s)' = Alive(s)
    BY ConsumerStep DEF InHand, S!Ev, Alive
  <1>4. CASE S!CheckFunds(s)
    <2>1. ~(balance[job[h].user] < job[h].cost)
      BY <1>1, <1>2 DEF Enough
    <2>2. S!Goto(s, "Debit")
      BY <1>1, <1>3, <1>4, <2>1 DEF S!CheckFunds
    <2>3. stage'[s] = "Debit" /\ cur'[s] = o
      BY <1>2, <1>3, <2>2 DEF S!Goto
    <2> QED
      BY <1>3, <2>3 DEF InHand
  <1>5. CASE S!Debit(s)
    <2>1. S!MayChange(log[o].user, -S!Due(log[o]))
      <3> DEFINE left == balance[job[h].user] - job[h].cost
      <3>1. left \in 0 .. MaxInt /\ balance[job[h].user] + (-job[h].cost) = left
        BY <1>1, <1>2 DEF Enough
      <3> HIDE DEF left
      <3>2. left + MaxInt + 1 \in Nat /\ 2 * (MaxInt + 1) \in Nat \ {0}
              /\ left + MaxInt + 1 < 2 * (MaxInt + 1)
        BY <1>2, <3>1
      <3>3. (left + MaxInt + 1) % (2 * (MaxInt + 1)) = left + MaxInt + 1
        BY <3>2, SmallMod
      <3>4. S!Int32(left) = left
        BY <1>2, <3>1, <3>3 DEF S!Int32
      <3> QED
        BY <1>1, <3>1, <3>4 DEF S!MayChange
    <2>2. debits' = [debits EXCEPT ![o] = @ + 1]
      BY <1>3, <1>5, <2>1 DEF S!Debit
    <2>3. debits[o] = 0
      BY <1>3, <1>5 DEF S!Debit, Inv, Settling, SP!Inv, SP!StageFacts
    <2> QED
      BY <1>1, <1>2, <2>2, <2>3
  <1> QED
    BY <1>4, <1>5 DEF InHand, Consume, S!Body, S!ReadMessage, S!Credit, S!CreateRow,
                      S!CreateReceiverRow

\* An accepted request comes nearer to its debit with every step, or is excused.
LEMMA WorkedOnStep ==
    ASSUME Inv, Funded, WorkedOn, [Next]_vars
    PROVE  WorkedOn'
  <1> SUFFICES ASSUME NEW h \in Handlers, h \in posted', ~Settled(h)', ~MayBeLost(h)',
                      ~Interrupted(h)', ~LateFor(h)'
               PROVE  Coming(h)'
    BY DEF WorkedOn, Accepted
  <1>1. Home[h] \in Servers
    BY MerchShopAssumption
  <1>2. h \in posted => Coming(h) /\ ~Settled(h) /\ ~LateFor(h)
    BY StepMonotone, StaysSettled DEF WorkedOn, Accepted
  <1>3. CASE (\E g \in Handlers : Handle(g)) \/ (\E u \in Users : Expire(u))
    <2>1. h \notin posted => Alive(Home[h])' /\ h \in buffer'
      BY <1>3, NewlyPosted
    <2>2. buffer \subseteq buffer'
      BY <1>3 DEF Handle, Expire
    <2> QED
      BY <1>2, <1>3, <2>1, <2>2, HandlerStep DEF Coming, Records, InHand, Alive, settlement
  <1>4. ASSUME NEW g \in Handlers, Deliver(g) PROVE Coming(h)'
    <2>1. h \in posted
      BY <1>4, DeliverStep DEF admission
    <2>2. CASE \E o \in Records(h) : o \in unread \/ \E s \in Servers : InHand(s, o)
      BY <1>4, <2>2, DeliverStep DEF Coming, Records, InHand, Alive
    <2>3. CASE Alive(Home[h]) /\ h \in buffer
      <3>1. CASE h = g
        <4>1. Len(log) + 1 \in Records(h)' /\ Len(log) + 1 \in unread'
          BY <1>4, <3>1, DeliverStep DEF Records
        <4> QED
          BY <4>1 DEF Coming
      <3>2. CASE h # g
        BY <1>4, <2>3, <3>2, DeliverStep DEF Coming, Alive
      <3> QED
        BY <3>1, <3>2
    <2> QED
      BY <1>2, <2>1, <2>2, <2>3 DEF Coming
  <1>5. ASSUME NEW g \in Handlers, GiveUp(g) PROVE Coming(h)'
    BY <1>2, <1>5 DEF GiveUp, Coming, MayBeLost, Records, InHand, Alive, admission, settlement
  <1>6. ASSUME NEW s \in Servers,
               Terminate(s) \/ Drained(s) \/ DrainTimeout(s) \/ Exit(s) \/ Crash(s)
        PROVE  Coming(h)'
    <2>1. Coming(h) /\ Records(h)' = Records(h) /\ UNCHANGED <<buffer, unread, cur, stage>>
      BY <1>2, <1>6, ProcessStep DEF admission, settlement, Records
    <2>2. CASE Alive(Home[h]) /\ h \in buffer
      <3>1. Home[h] = s => Alive(s)'
        BY <1>6, <2>2, ProcessStep DEF MayBeLost, Served
      <3>2. Alive(Home[h])'
        BY <1>1, <1>6, <2>2, <3>1, ProcessStep DEF Alive
      <3> QED
        BY <2>1, <2>2, <3>2 DEF Coming
    <2>3. ASSUME NEW o \in Records(h), NEW r \in Servers, InHand(r, o) PROVE Coming(h)'
      BY <2>1, <2>3 DEF Coming, InHand, Interrupted
    <2> QED
      BY <2>1, <2>2, <2>3 DEF Coming
  <1>7. ASSUME NEW s \in Servers, Consume(s) PROVE Coming(h)'
    <2>1. /\ Coming(h) /\ Records(h)' = Records(h) /\ UNCHANGED <<phase, buffer>> /\ Alive(s)
          /\ \A r \in Servers \ {s} : stage'[r] = stage[r] /\ cur'[r] = cur[r]
          /\ ~(mishaps' > 0)
      BY <1>2, <1>7, ConsumerStep DEF admission, Records, Interrupted
    <2>2. CASE Alive(Home[h]) /\ h \in buffer
      BY <2>1, <2>2 DEF Coming, Alive
    <2>3. ASSUME NEW o \in Records(h), o \in unread PROVE Coming(h)'
      <3>1. CASE o \in unread'
        BY <2>1, <2>3, <3>1 DEF Coming
      <3>2. CASE o \notin unread'
        <4>1. S!ReadMessage(s) /\ unread' = unread \ {o} /\ cur' = [cur EXCEPT ![s] = o]
              /\ stage' = [stage EXCEPT ![s] = "GetBalance"]
          BY <1>7, <2>3, <3>2
             DEF Consume, S!Body, S!ReadMessage, S!Commit, S!CheckFunds, S!Debit, S!Credit,
                 S!CreateRow, S!CreateReceiverRow, S!topic
        <4>2. cur'[s] = o /\ stage'[s] = "GetBalance"
          BY <4>1 DEF Inv, Settling, SP!Inv, SP!TypeOK
        <4> QED
          BY <2>1, <2>3, <4>2 DEF Coming, InHand, Alive
      <3> QED
        BY <3>1, <3>2
    <2>4. ASSUME NEW o \in Records(h), NEW r \in Servers, InHand(r, o) PROVE Coming(h)'
      <3>1. CASE r # s
        BY <2>1, <2>4, <3>1 DEF Coming, InHand, Alive
      <3>2. CASE r = s
        <4>1. h \in posted /\ Outstanding(h)
          BY <2>4, RecordFacts DEF Outstanding, InHand
        <4>2. Enough(h)
          BY <1>2, <4>1 DEF Funded, Admitted
        <4>3. InHand(s, o)' \/ debits'[o] = 1
          BY <1>7, <2>1, <2>4, <3>2, <4>2, DebitComes
        <4> QED
          BY <2>1, <2>4, <4>3 DEF Coming, Settled
      <3> QED
        BY <3>1, <3>2
    <2> QED
      BY <2>1, <2>2, <2>3, <2>4 DEF Coming
  <1>8. ASSUME NEW s \in Servers, ConsumeFails(s) PROVE Coming(h)'
    <2>1. mishaps' > 0
      BY <1>8, ConsumerStep DEF ConsumeFails, S!ReadMessageFails, S!Abandon, S!Fault
    <2> QED
      BY <2>1 DEF Interrupted
  <1>9. CASE UNCHANGED vars
    BY <1>2, <1>9 DEF vars, Coming, Records, InHand, Alive, admission, settlement
  <1> QED
    BY <1>3, <1>4, <1>5, <1>6, <1>7, <1>8, <1>9 DEF Next

\* The invariants hold together, from the start.
LEMMA FundingInvariance == Spec => [](Inv /\ Funding)
  <1>1. Init => Funding
    BY DEF Init, C!Init, S!Init, Funding, Noted, Funded, WorkedOn, Admitted, Accepted
  <1>2. Inv /\ Inv' /\ Funding /\ [Next]_vars => Funding'
    BY NotedStep, FundedStep, WorkedOnStep DEF Funding
  <1> QED
    BY <1>1, <1>2, Invariance, PTL DEF Spec

-----------------------------------------------------------------------------
(* The theorems                                                            *)

\* The variables of the shop and of its components keep their types.
THEOREM TypeCorrect == Spec => []TypeOK
  <1>1. Inv => C!TypeOK /\ S!TypeOK
    BY SameCheckout, SameSettlement DEF Inv, Admitting, CP!TypeInv, Settling, SP!Inv
  <1>2. Types => origin \in [1 .. Len(log) -> Handlers]
    BY DEF Types
  <1>3. Inv => TypeOK
    BY <1>1, <1>2 DEF Inv, Types, TypeOK
  <1> QED
    BY <1>3, Invariance, PTL

\* What is accepted reaches the topic, unless the writer gives it up or the process
\* that has it is killed.
THEOREM KeepsAccepted == Spec => []AcceptedIsKept
  <1>1. Inv => AcceptedIsKept
    BY DEF Inv
  <1> QED
    BY <1>1, Invariance, PTL

\* Checkout holds in the shop: its handlers need to know nothing of consumers,
\* writers and processes but that balances change one at a time.
THEOREM RefinesCheckout == Spec => ImplementsCheckout
  <1>1. Init => C!Init
    BY DEF Init
  <1>2. Inv /\ [Next]_vars => [C!Next]_C!vars
    BY CheckoutStep DEF Inv
  <1> QED
    BY <1>1, <1>2, Invariance, PTL DEF Spec, ImplementsCheckout, C!Spec

\* Settlement holds in the shop: what is appended to the topic are events of
\* requests for merch that is sold, or between registered users.
THEOREM RefinesSettlement == Spec => ImplementsSettlement
  <1>1. Init => S!Init
    BY DEF Init
  <1>2. Inv /\ [Next]_vars => [S!Next]_S!vars
    BY SettlementStep DEF Inv
  <1> QED
    BY <1>1, <1>2, Invariance, PTL DEF Spec, ImplementsSettlement, S!Spec

\* What the locks are for: an accepted request is settled, unless its event was
\* lost, its work interrupted, or a lock of its payer went away before the request
\* that held it was settled.
THEOREM SettlesAccepted == Spec => []SettledUnlessLate
  <1>1. Inv /\ Funding => SettledUnlessLate
    <2> SUFFICES ASSUME Inv, Funding, NEW h \in Handlers, Accepted(h), ~Outstanding(h), ~Settled(h),
                        ~MayBeLost(h), ~Interrupted(h)
                 PROVE  LateFor(h)
      BY DEF SettledUnlessLate, LateFor
    <2>1. ~Coming(h)
      BY DEF Coming, Outstanding, InHand
    <2> QED
      BY <2>1 DEF Funding, WorkedOn
  <1> QED
    BY <1>1, FundingInvariance, PTL
-----------------------------------------------------------------------------
(* What the components promise by themselves, the shop keeps               *)

\* A sum, or a number of elements, is the same in both instances of Settlement.
LEMMA SameSums ==
    /\ \A f, A : S!SumFunctionOnSet(f, A) = SP!SumFunctionOnSet(f, A)
    /\ \A A : S!Cardinality(A) = SP!Cardinality(A)
  <1>1. ASSUME NEW f, NEW A PROVE S!SumFunctionOnSet(f, A) = SP!SumFunctionOnSet(f, A)
    BY DEF S!SumFunctionOnSet, SP!SumFunctionOnSet, S!FoldFunctionOnSet, SP!FoldFunctionOnSet,
           S!MapThenFoldSet, SP!MapThenFoldSet
  <1>2. ASSUME NEW A PROVE S!Cardinality(A) = SP!Cardinality(A)
    BY DEF S!Cardinality, SP!Cardinality, S!IsFiniteSet, SP!IsFiniteSet
  <1> QED
    BY <1>1, <1>2

\* So are the properties of Settlement that are about them.
LEMMA SameBooks ==
    /\ S!AtMostOnce <=> SP!AtMostOnce
    /\ S!NoMoneyCreated <=> SP!NoMoneyCreated
    /\ S!CreditFits <=> SP!CreditFits
    /\ S!RowsBacked <=> SP!RowsBacked
    /\ S!LedgerAgrees <=> SP!LedgerAgrees
  <1>1. S!AtMostOnce <=> SP!AtMostOnce
    BY DEF S!AtMostOnce, SP!AtMostOnce, S!Offsets, SP!Offsets
  <1>2. S!Total = SP!Total /\ S!InPlay = SP!InPlay
    BY SameSums
       DEF S!Total, S!Held, S!Carried, S!InPlay, S!Prices, S!Purchases, S!Due, S!Ev, S!SumFunction,
           SP!Total, SP!Held, SP!Carried, SP!InPlay, SP!Prices, SP!Purchases, SP!Due, SP!Ev,
           SP!SumFunction
  <1>3. S!CreditFits <=> SP!CreditFits
    BY <1>2 DEF S!CreditFits, S!MayChange, S!Int32, S!Ev, SP!CreditFits, SP!MayChange, SP!Int32, SP!Ev
  <1>4. S!RowsBacked <=> SP!RowsBacked
    BY SameSums
       DEF S!RowsBacked, S!Backing, S!ReceiverBacking, S!UserRow, S!ReceiverRow, S!Due, S!Transfers,
           S!TransferEvents,
           SP!RowsBacked, SP!Backing, SP!ReceiverBacking, SP!UserRow, SP!ReceiverRow, SP!Due,
           SP!Transfers, SP!TransferEvents
  <1>5. ASSUME NEW u PROVE S!LedgerBalance(u) = SP!LedgerBalance(u)
    BY SameSums DEF S!LedgerBalance, SP!LedgerBalance, S!RowValues, SP!RowValues, S!SumFunction,
                    SP!SumFunction, S!InitialRow, SP!InitialRow, S!UserRow, SP!UserRow,
                    S!ReceiverRow, SP!ReceiverRow, S!Due, SP!Due, S!Transfers, SP!Transfers,
                    S!TransferEvents, SP!TransferEvents
  <1>6. S!LedgerAgrees <=> SP!LedgerAgrees
    BY <1>5 DEF S!LedgerAgrees, S!Idle, S!AllArrived, SP!LedgerAgrees, SP!Idle, SP!AllArrived
  <1> QED
    BY <1>1, <1>2, <1>3, <1>4, <1>6 DEF S!NoMoneyCreated, SP!NoMoneyCreated

\* The shop's tables: whatever requests, writers and stopping processes do, no
\* record is settled twice, no coin is made, no credit is refused for the range of
\* its column while the coins in play fit it, and rows and balances agree as
\* Settlement promises.
THEOREM BooksAreKept ==
    Spec => [](S!AtMostOnce /\ S!NoMoneyCreated /\ S!CreditFits /\ S!RowsBacked /\ S!LedgerAgrees)
  <1>1. SP!SettlementAssumption
    BY ComponentAssumptions, SameSettlement
  <1>2. SP!Spec => [](SP!AtMostOnce /\ SP!NoMoneyCreated /\ SP!CreditFits /\ SP!RowsBacked
                        /\ SP!LedgerAgrees)
    BY <1>1, SP!SettledAtMostOnce, SP!MoneyIsNotCreated, SP!CreditsAreNotRefused,
       SP!HistoryIsBacked, SP!LedgerIsKept, PTL
  <1>3. S!Init => SP!Init
    BY SameSettlement
  <1>4. [S!Next]_S!vars => [SP!Next]_SP!vars
    BY SameSettlement
  <1>5. ImplementsSettlement => SP!Spec
    BY <1>3, <1>4, PTL DEF ImplementsSettlement, S!Spec, SP!Spec
  <1>6. SP!AtMostOnce /\ SP!NoMoneyCreated /\ SP!CreditFits /\ SP!RowsBacked /\ SP!LedgerAgrees
        => S!AtMostOnce /\ S!NoMoneyCreated /\ S!CreditFits /\ S!RowsBacked /\ S!LedgerAgrees
    BY SameBooks
  <1> QED
    BY <1>2, <1>5, <1>6, RefinesSettlement, PTL

\* The shop's Redis: a user's requests exclude each other, a request id is good for
\* one event, and failed requests leave nothing, as Checkout promises.
THEOREM LocksAreKept ==
    Spec => [](C!LockExclusive /\ C!OneEventPerRequest /\ C!NothingLeftBehind)
  <1>1. CP!CheckoutAssumption
    BY ComponentAssumptions, SameCheckout
  <1>2. CP!Spec => [](CP!LockExclusive /\ CP!OneEventPerRequest /\ CP!NothingLeftBehind)
    BY <1>1, CP!LocksExclude, CP!OneEvent, CP!NothingStays, PTL
  <1>3. C!Init => CP!Init
    BY SameCheckout
  <1>4. [C!Next]_C!vars => [CP!Next]_CP!vars
    BY SameCheckout
  <1>5. ImplementsCheckout => CP!Spec
    BY <1>3, <1>4, PTL DEF ImplementsCheckout, C!Spec, CP!Spec
  <1>6. CP!NothingLeftBehind <=> C!NothingLeftBehind
    BY DEF CP!NothingLeftBehind, C!NothingLeftBehind, CP!InFlight, C!InFlight, CP!Keys, C!Keys,
           CP!RequestKey, C!RequestKey, CP!LockKey, C!LockKey
  <1>7. CP!LockExclusive /\ CP!OneEventPerRequest /\ CP!NothingLeftBehind
        => C!LockExclusive /\ C!OneEventPerRequest /\ C!NothingLeftBehind
    BY <1>6, SameCheckout
  <1> QED
    BY <1>2, <1>5, <1>7, RefinesCheckout, PTL
=============================================================================
