-------------------------- MODULE SettlementProofs --------------------------
(***************************************************************************)
(* Theorems about Settlement, for any number of users, consumers, events   *)
(* and failures: no record is settled twice, and the consumers implement   *)
(* the abstract wallets.                                                   *)
(***************************************************************************)
EXTENDS Settlement, TLAPS

Busy(c) == pc[c] # "ReadMessage"

\* A record is in the hands of at most one consumer, and only once committed.
OneReader ==
    \A c \in Consumers : Busy(c) =>
        /\ cur[c] \notin unread
        /\ \A d \in Consumers \ {c} : Busy(d) => cur[c] # cur[d]

\* Nothing is settled for a record nobody has read yet.
UnreadUntouched ==
    \A o \in Offsets :
        o \in unread \/ o > Len(log) => debits[o] = 0 /\ credits[o] = 0

\* What a consumer has done to its record before it reaches a call.
StageFacts ==
    \A c \in Consumers :
        /\ pc[c] \in {"GetBalance", "Debit"} =>
               debits[cur[c]] = 0 /\ credits[cur[c]] = 0
        /\ pc[c] = "Credit" =>
               debits[cur[c]] = 1 /\ credits[cur[c]] = 0 /\ Ev(c) \in Transfers

\* Inductive: AtMostOnce alone is not, since nothing in it tells a consumer at
\* its debit that no other consumer ever worked on the record.
Inv == TypeOK /\ OneReader /\ UnreadUntouched /\ StageFacts /\ AtMostOnce

-----------------------------------------------------------------------------
\* Every event debits a user some positive amount; a transfer credits a user.
LEMMA EventFacts ==
    ASSUME NEW e \in Events
    PROVE  /\ e.user \in Users
           /\ Due(e) \in 1 .. MaxInt
           /\ e.type = "transfer" =>
                e \in Transfers /\ e.related \in Users /\ Due(e) = e.amount
  BY SettlementAssumption DEF PurchaseEvents, TransferEvents, Due, Transfers

\* The record of a busy consumer is an event.
LEMMA CurrentEvent ==
    ASSUME TypeOK, NEW c \in Consumers, Busy(c)
    PROVE  Ev(c) \in Events /\ cur[c] \in 1 .. Len(log) /\ cur[c] \in Offsets
  BY SettlementAssumption DEF TypeOK, Busy, Ev, Offsets

\* A change ChangeBalance commits keeps every balance in the column's range.
LEMMA ChangeTypes ==
    ASSUME TypeOK, NEW u \in Users, NEW d \in Int, MayChange(u, d), SetBalance(u, d)
    PROVE  balance' \in [Users -> 0 .. MaxInt]
  BY DEF TypeOK, MayChange, SetBalance

\* It holds at the start.
LEMMA InitInv == Init => Inv
  <1> SUFFICES ASSUME Init PROVE Inv
    OBVIOUS
  <1> USE SettlementAssumption DEF Init
  <1>1. TypeOK
    BY DEF TypeOK, Steps, Offsets
  <1>2. OneReader /\ UnreadUntouched /\ StageFacts /\ AtMostOnce
    BY DEF OneReader, Busy, UnreadUntouched, StageFacts, AtMostOnce, Offsets
  <1> QED
    BY <1>1, <1>2 DEF Inv

-----------------------------------------------------------------------------
(* The steps                                                               *)

\* The part of TypeOK about the topic and the consumers.
LoopTypes ==
    /\ log \in Seq(Events) /\ Len(log) <= MaxLog
    /\ unread \subseteq 1 .. Len(log)
    /\ pc \in [Consumers -> Steps]
    /\ cur \in [Consumers -> 0 .. MaxLog]
    /\ \A c \in Consumers : Busy(c) => cur[c] \in 1 .. Len(log)

\* A busy consumer that moves on and leaves the topic alone keeps its record to
\* itself, or lets it go.
LEMMA GotoKeepsReader ==
    ASSUME TypeOK, OneReader, NEW c \in Consumers, Busy(c),
           NEW step \in Steps, Goto(c, step), UNCHANGED topic
    PROVE  LoopTypes' /\ OneReader'
  <1> USE DEF Goto, topic, Busy
  <1>1. LoopTypes'
    BY SettlementAssumption DEF TypeOK, LoopTypes
  <1>2. OneReader'
    BY DEF TypeOK, OneReader
  <1> QED
    BY <1>1, <1>2

\* A step that settles nothing keeps what is known about settled records; only
\* CheckFunds takes a consumer to a call whose stage facts are not already its own.
LEMMA GotoKeepsSettled ==
    ASSUME Inv, NEW c \in Consumers, Busy(c), NEW step \in Steps, Goto(c, step),
           UNCHANGED <<topic, debits, credits>>,
           step \in {"GetBalance", "Debit"} => pc[c] \in {"GetBalance", "Debit"},
           step # "Credit"
    PROVE  UnreadUntouched' /\ StageFacts' /\ AtMostOnce'
  <1> USE DEF Goto, topic, Busy, Inv
  <1>1. UnreadUntouched' /\ AtMostOnce'
    BY DEF UnreadUntouched, AtMostOnce
  <1>2. StageFacts'
    BY DEF TypeOK, StageFacts, Ev
  <1> QED
    BY <1>1, <1>2

\* One more debit of the record a consumer is about to debit: no other record,
\* and no other consumer, is disturbed.
LEMMA DebitKeepsSettled ==
    ASSUME Inv, NEW c \in Consumers, pc[c] = "Debit", NEW step \in Steps, Goto(c, step),
           UNCHANGED <<topic, credits>>, debits' = [debits EXCEPT ![cur[c]] = @ + 1],
           step \in {"ReadMessage", "CreateRow"} \/ (step = "Credit" /\ Ev(c) \in Transfers)
    PROVE  UnreadUntouched' /\ StageFacts' /\ AtMostOnce' /\ debits' \in [Offsets -> Nat]
  <1> USE DEF Goto, topic, Busy, Inv
  <1>1. cur[c] \in 1 .. Len(log) /\ cur[c] \in Offsets /\ cur[c] \notin unread
    BY CurrentEvent DEF OneReader
  <1>2. debits[cur[c]] = 0 /\ credits[cur[c]] = 0
    BY DEF StageFacts
  <1>3. UnreadUntouched'
    BY <1>1 DEF UnreadUntouched, TypeOK
  <1>4. AtMostOnce' /\ debits' \in [Offsets -> Nat]
    BY <1>1, <1>2 DEF AtMostOnce, TypeOK
  <1>5. StageFacts'
    <2> SUFFICES ASSUME NEW d \in Consumers
                 PROVE  /\ pc'[d] \in {"GetBalance", "Debit"} =>
                             debits'[cur'[d]] = 0 /\ credits'[cur'[d]] = 0
                        /\ pc'[d] = "Credit" =>
                             debits'[cur'[d]] = 1 /\ credits'[cur'[d]] = 0 /\ Ev(d)' \in Transfers
      BY DEF StageFacts
    <2>1. CASE d = c
      BY <1>1, <1>2, <2>1 DEF TypeOK, Ev
    <2>2. CASE d # c
      <3>1. pc'[d] = pc[d] /\ cur'[d] = cur[d] /\ Ev(d)' = Ev(d)
        BY <2>2 DEF TypeOK, Ev
      <3>2. Busy(d) => cur[d] # cur[c] /\ debits'[cur[d]] = debits[cur[d]]
        BY <2>2, CurrentEvent DEF OneReader, TypeOK
      <3> QED
        BY <3>1, <3>2 DEF StageFacts
    <2> QED
      BY <2>1, <2>2
  <1> QED
    BY <1>3, <1>4, <1>5

\* One more credit of the record a consumer has debited.
LEMMA CreditKeepsSettled ==
    ASSUME Inv, NEW c \in Consumers, pc[c] = "Credit", NEW step \in Steps, Goto(c, step),
           UNCHANGED <<topic, debits>>, credits' = [credits EXCEPT ![cur[c]] = @ + 1],
           step \in {"ReadMessage", "CreateRow"}
    PROVE  UnreadUntouched' /\ StageFacts' /\ AtMostOnce' /\ credits' \in [Offsets -> Nat]
  <1> USE DEF Goto, topic, Busy, Inv
  <1>1. cur[c] \in 1 .. Len(log) /\ cur[c] \in Offsets /\ cur[c] \notin unread
    BY CurrentEvent DEF OneReader
  <1>2. debits[cur[c]] = 1 /\ credits[cur[c]] = 0
    BY DEF StageFacts
  <1>3. UnreadUntouched'
    BY <1>1 DEF UnreadUntouched, TypeOK
  <1>4. AtMostOnce' /\ credits' \in [Offsets -> Nat]
    BY <1>1, <1>2 DEF AtMostOnce, TypeOK
  <1>5. StageFacts'
    <2> SUFFICES ASSUME NEW d \in Consumers
                 PROVE  /\ pc'[d] \in {"GetBalance", "Debit"} =>
                             debits'[cur'[d]] = 0 /\ credits'[cur'[d]] = 0
                        /\ pc'[d] = "Credit" =>
                             debits'[cur'[d]] = 1 /\ credits'[cur'[d]] = 0 /\ Ev(d)' \in Transfers
      BY DEF StageFacts
    <2>1. CASE d = c
      BY <2>1 DEF TypeOK
    <2>2. CASE d # c
      <3>1. pc'[d] = pc[d] /\ cur'[d] = cur[d] /\ Ev(d)' = Ev(d)
        BY <2>2 DEF TypeOK, Ev
      <3>2. Busy(d) => cur[d] # cur[c] /\ credits'[cur[d]] = credits[cur[d]]
        BY <2>2, CurrentEvent DEF OneReader, TypeOK
      <3> QED
        BY <3>1, <3>2 DEF StageFacts
    <2> QED
      BY <2>1, <2>2
  <1> QED
    BY <1>3, <1>4, <1>5

\* What the database and the count of faults contribute to TypeOK.
DataTypes ==
    /\ balance \in [Users -> 0 .. MaxInt]
    /\ rows \in [RowValues -> Nat]
    /\ faults \in 0 .. MaxFaults
    /\ debits \in [Offsets -> Nat]
    /\ credits \in [Offsets -> Nat]

\* The two parts make up TypeOK, before a step and after it.
LEMMA TypeParts ==
    /\ TypeOK <=> LoopTypes /\ DataTypes
    /\ TypeOK' <=> LoopTypes' /\ DataTypes'
  BY DEF TypeOK, LoopTypes, DataTypes, Busy

\* A new record is unread, and nothing is settled for it.
LEMMA PublishInv == ASSUME Inv, NEW e \in Events, Publish(e) PROVE Inv'
  <1> USE DEF Inv, Publish, database
  <1>1. Len(log) \in Nat /\ log' \in Seq(Events) /\ Len(log') = Len(log) + 1
        /\ \A o \in 1 .. Len(log) : log'[o] = log[o]
    BY DEF TypeOK
  <1>2. TypeOK'
    <2>1. Len(log') <= MaxLog
      BY <1>1, SettlementAssumption
    <2>2. unread' \subseteq 1 .. Len(log')
      <3>1. unread' = unread \cup {Len(log) + 1} /\ unread \subseteq 1 .. Len(log)
        BY DEF TypeOK
      <3>2. Len(log) \in Nat /\ Len(log') = Len(log) + 1
        BY <1>1
      <3>3. \A n, o : n \in Nat /\ o \in (1 .. n) \cup {n + 1} => o \in 1 .. (n + 1)
        OBVIOUS
      <3> HIDE DEF Inv, Publish
      <3> QED
        BY <3>1, <3>2, <3>3
    <2>3. \A c \in Consumers : pc'[c] # "ReadMessage" => cur'[c] \in 1 .. Len(log')
      BY <1>1 DEF TypeOK
    <2> QED
      BY <1>1, <2>1, <2>2, <2>3 DEF TypeOK
  <1>3. OneReader' /\ UnreadUntouched' /\ AtMostOnce'
    <2>1. \A c \in Consumers : Busy(c) => cur[c] # Len(log) + 1
      BY <1>1, CurrentEvent
    <2>2. OneReader'
      BY <2>1 DEF OneReader, Busy
    <2>3. UnreadUntouched' /\ AtMostOnce'
      BY <1>1 DEF TypeOK, UnreadUntouched, AtMostOnce, Offsets
    <2> QED
      BY <2>2, <2>3
  <1>4. StageFacts'
    BY <1>1 DEF TypeOK, StageFacts, Ev
  <1> QED
    BY <1>2, <1>3, <1>4

\* The record that is read was unread: no other consumer has it.
LEMMA ReadMessageInv == ASSUME Inv, NEW c \in Consumers, ReadMessage(c) PROVE Inv'
  <1> USE DEF Inv, ReadMessage, database, Commit
  <1>1. PICK o \in unread : /\ unread' = unread \ {o}
                            /\ pc' = [pc EXCEPT ![c] = "GetBalance"]
                            /\ cur' = [cur EXCEPT ![c] = o]
    OBVIOUS
  <1>2. o \in 1 .. Len(log) /\ o \in Offsets
    BY SettlementAssumption DEF TypeOK, Offsets
  <1>3. TypeOK'
    BY <1>1, <1>2 DEF TypeOK, Steps, Offsets
  <1>4. OneReader' /\ UnreadUntouched' /\ AtMostOnce'
    BY <1>1, <1>2 DEF TypeOK, OneReader, UnreadUntouched, AtMostOnce, Busy
  <1>5. StageFacts'
    BY <1>1, <1>2 DEF TypeOK, StageFacts, UnreadUntouched, Ev
  <1> QED
    BY <1>3, <1>4, <1>5

\* A record that is committed and not returned is nobody's.
LEMMA ReadMessageFailsInv ==
    ASSUME Inv, NEW c \in Consumers, ReadMessageFails(c) PROVE Inv'
  <1> USE DEF Inv, ReadMessageFails, database, Commit
  <1>1. TypeOK'
    BY SettlementAssumption DEF TypeOK, Fault
  <1>2. OneReader' /\ UnreadUntouched' /\ StageFacts' /\ AtMostOnce'
    BY DEF TypeOK, OneReader, UnreadUntouched, StageFacts, AtMostOnce, Busy, Ev
  <1> QED
    BY <1>1, <1>2

\* A step of a busy consumer that moves no money.
LEMMA QuietStepInv ==
    ASSUME Inv, NEW c \in Consumers, Busy(c), NEW step \in Steps, Goto(c, step),
           UNCHANGED <<topic, debits, credits>>, DataTypes',
           step \in {"GetBalance", "Debit"} => pc[c] \in {"GetBalance", "Debit"},
           step # "Credit"
    PROVE  Inv'
  <1>1. TypeOK' /\ OneReader'
    BY GotoKeepsReader, TypeParts DEF Inv
  <1>2. UnreadUntouched' /\ StageFacts' /\ AtMostOnce'
    BY GotoKeepsSettled
  <1> QED
    BY <1>1, <1>2 DEF Inv

\* The comparison settles nothing.
LEMMA CheckFundsInv == ASSUME Inv, NEW c \in Consumers, CheckFunds(c) PROVE Inv'
  <1>1. PICK step \in {"ReadMessage", "Debit"} : Goto(c, step)
    BY DEF CheckFunds, Skip
  <1>2. DataTypes'
    BY TypeParts DEF Inv, CheckFunds, database, DataTypes
  <1> QED
    BY <1>1, <1>2, QuietStepInv DEF CheckFunds, Busy, Steps, database

\* The first debit of the record in hand, or none if it is refused.
LEMMA DebitInv == ASSUME Inv, NEW c \in Consumers, Debit(c) PROVE Inv'
  <1> DEFINE e == Ev(c)
  <1>1. /\ Busy(c) /\ UNCHANGED topic
        /\ e \in Events /\ e.user \in Users /\ Due(e) \in 1 .. MaxInt
    BY CurrentEvent, EventFacts DEF Debit, Busy, Inv
  <1>2. CASE MayChange(e.user, -Due(e))
    <2>1. PICK step \in Steps :
            /\ Goto(c, step)
            /\ step \in {"ReadMessage", "CreateRow"} \/ (step = "Credit" /\ e \in Transfers)
      <3>1. AfterDebit(e) = "CreateRow" \/ (AfterDebit(e) = "Credit" /\ e \in Transfers)
        BY <1>1, EventFacts DEF AfterDebit
      <3>2. Goto(c, AfterDebit(e)) \/ Goto(c, "ReadMessage")
        BY <1>2 DEF Debit, AfterCommit, Skip
      <3> QED
        BY <3>1, <3>2 DEF Steps
    <2>2. UnreadUntouched' /\ StageFacts' /\ AtMostOnce' /\ debits' \in [Offsets -> Nat]
      BY <1>2, <2>1, DebitKeepsSettled DEF Debit
    <2>3. balance' \in [Users -> 0 .. MaxInt]
      BY <1>1, <1>2, ChangeTypes DEF Debit, Inv
    <2>4. DataTypes'
      BY <1>2, <2>2, <2>3, SettlementAssumption DEF Debit, AfterCommit, Fault, DataTypes, Inv, TypeOK
    <2>5. TypeOK' /\ OneReader'
      BY <1>1, <2>1, <2>4, GotoKeepsReader, TypeParts DEF Inv
    <2> QED
      BY <2>2, <2>5 DEF Inv
  <1>3. CASE ~MayChange(e.user, -Due(e))
    <2>1. Goto(c, "ReadMessage") /\ UNCHANGED <<topic, debits, credits>>
      BY <1>3 DEF Debit, Skip
    <2>2. DataTypes'
      BY <1>3, TypeParts DEF Inv, Debit, DataTypes
    <2> QED
      BY <1>1, <2>1, <2>2, QuietStepInv DEF Steps
  <1> QED
    BY <1>2, <1>3

\* The first credit of a record that was debited, or none if it is refused.
LEMMA CreditInv == ASSUME Inv, NEW c \in Consumers, Credit(c) PROVE Inv'
  <1> DEFINE e == Ev(c)
  <1>1. /\ Busy(c) /\ UNCHANGED topic
        /\ e.related \in Users /\ e.amount \in 1 .. MaxInt
    BY CurrentEvent, EventFacts DEF Credit, Busy, Inv, StageFacts, Transfers
  <1>2. CASE MayChange(e.related, e.amount)
    <2>1. PICK step \in {"ReadMessage", "CreateRow"} : Goto(c, step)
      BY <1>2 DEF Credit, AfterCommit, Skip
    <2>2. UnreadUntouched' /\ StageFacts' /\ AtMostOnce' /\ credits' \in [Offsets -> Nat]
      BY <1>2, <2>1, CreditKeepsSettled DEF Credit, Steps
    <2>3. balance' \in [Users -> 0 .. MaxInt]
      BY <1>1, <1>2, ChangeTypes DEF Credit, Inv
    <2>4. DataTypes'
      BY <1>2, <2>2, <2>3, SettlementAssumption DEF Credit, AfterCommit, Fault, DataTypes, Inv, TypeOK
    <2>5. TypeOK' /\ OneReader'
      BY <1>1, <2>1, <2>4, GotoKeepsReader, TypeParts DEF Inv, Steps
    <2> QED
      BY <2>2, <2>5 DEF Inv
  <1>3. CASE ~MayChange(e.related, e.amount)
    <2>1. Goto(c, "ReadMessage") /\ UNCHANGED <<topic, debits, credits>>
      BY <1>3 DEF Credit, Skip
    <2>2. DataTypes'
      BY <1>3, TypeParts DEF Inv, Credit, DataTypes
    <2> QED
      BY <1>1, <2>1, <2>2, QuietStepInv DEF Steps
  <1> QED
    BY <1>2, <1>3

\* Writing a row moves no money.
LEMMA CreateRowInv ==
    ASSUME Inv, NEW c \in Consumers, CreateRow(c) \/ CreateReceiverRow(c) PROVE Inv'
  <1> USE DEF CreateRow, CreateReceiverRow
  <1>1. PICK step \in {"ReadMessage", "CreateReceiverRow"} : Goto(c, step)
    BY DEF AfterCommit, AfterRow, Skip
  <1>2. rows' \in [RowValues -> Nat]
    BY DEF Inv, TypeOK
  <1>3. DataTypes'
    BY <1>2, TypeParts, SettlementAssumption DEF Inv, DataTypes, AfterCommit, Fault
  <1> QED
    BY <1>1, <1>3, QuietStepInv DEF Busy, Steps

\* Dropping a record moves no money.
LEMMA AbandonInv == ASSUME Inv, NEW c \in Consumers, Abandon(c) PROVE Inv'
  <1>1. DataTypes'
    BY TypeParts, SettlementAssumption DEF Inv, Abandon, Fault, database, DataTypes
  <1> QED
    BY <1>1, QuietStepInv DEF Abandon, Skip, Busy, Steps, database

\* Every step keeps the invariant,
LEMMA NextInv == Inv /\ [Next]_vars => Inv'
  <1> SUFFICES ASSUME Inv, [Next]_vars PROVE Inv'
    OBVIOUS
  <1>1. CASE \E e \in Events : Publish(e)
    BY <1>1, PublishInv
  <1>2. CASE \E c \in Consumers : Body(c) \/ ReadMessageFails(c) \/ Abandon(c)
    BY <1>2, ReadMessageInv, ReadMessageFailsInv, CheckFundsInv, DebitInv, CreditInv,
       CreateRowInv, AbandonInv DEF Body
  <1>3. CASE UNCHANGED vars
    BY <1>3 DEF vars, Inv, TypeOK, OneReader, Busy, UnreadUntouched, StageFacts, AtMostOnce, Ev
  <1> QED
    BY <1>1, <1>2, <1>3 DEF Next

\* so it always holds.
LEMMA Invariance == Spec => []Inv
  BY InitInv, NextInv, PTL DEF Spec

\* Types are kept whatever the consumers do: in particular no balance ever
\* becomes negative or outgrows its column.
THEOREM TypeCorrect == Spec => []TypeOK
  <1>1. Inv => TypeOK
    BY DEF Inv
  <1> QED
    BY <1>1, Invariance, PTL

\* However many consumers share the topic, and however they fail, no record
\* is debited or credited twice, and none is credited before it is debited.
THEOREM SettledAtMostOnce == Spec => []AtMostOnce
  <1>1. Inv => AtMostOnce
    BY DEF Inv
  <1> QED
    BY <1>1, Invariance, PTL

-----------------------------------------------------------------------------
(* Refinement of Wallets                                                   *)

\* A consumer that moves on changes what it carries itself, and nothing else.
LEMMA GotoHeld ==
    ASSUME Inv, NEW c \in Consumers, NEW step \in Steps, Goto(c, step), UNCHANGED topic
    PROVE  Held' = [Held EXCEPT ![c] = IF step = "Credit" THEN Ev(c).amount ELSE 0]
  <1> DEFINE New == IF step = "Credit" THEN Ev(c).amount ELSE 0
  <1>1. Carried(c)' = New
    BY DEF Inv, TypeOK, Goto, topic, Carried, Ev
  <1>2. ASSUME NEW d \in Consumers \ {c} PROVE Carried(d)' = Carried(d)
    BY DEF Inv, TypeOK, Goto, topic, Carried, Ev
  <1> HIDE DEF New
  <1>3. Held' = [Held EXCEPT ![c] = New]
    BY <1>1, <1>2 DEF Held
  <1> QED
    BY <1>3 DEF New

\* A step that moves no money and does not leave a credit undone.
LEMMA QuietRefines ==
    ASSUME Inv, NEW c \in Consumers, NEW step \in Steps \ {"Credit"}, Goto(c, step),
           pc[c] # "Credit", UNCHANGED <<topic, balance>>
    PROVE  UNCHANGED <<balance, Held>>
  <1>1. Held' = [Held EXCEPT ![c] = 0]
    BY GotoHeld
  <1>2. Held[c] = 0
    BY DEF Held, Carried
  <1> QED
    BY <1>1, <1>2 DEF Held

\* A transfer given up between debit and credit: its coins are forfeited.
LEMMA GivenUpRefines ==
    ASSUME Inv, NEW c \in Consumers, pc[c] = "Credit", Goto(c, "ReadMessage"),
           UNCHANGED <<topic, balance>>
    PROVE  W!Forfeit(c)
  <1>1. Held' = [Held EXCEPT ![c] = 0]
    BY GotoHeld DEF Steps
  <1>2. Held[c] > 0
    BY EventFacts DEF Held, Carried, Inv, StageFacts, Transfers, SettlementAssumption
  <1> QED
    BY <1>1, <1>2 DEF W!Forfeit, Held

\* A debit pays the price of a purchase, or holds the coins of a transfer; with its
\* answer lost, these are paid as well.
LEMMA DebitRefines ==
    ASSUME Inv, NEW c \in Consumers, Debit(c)
    PROVE  W!Next \/ UNCHANGED <<balance, Held>>
  <1> DEFINE e == Ev(c)
  <1>1. /\ e \in Events /\ e.user \in Users /\ Due(e) \in 1 .. MaxInt
        /\ e.type = "transfer" => Due(e) = e.amount
    BY CurrentEvent, EventFacts DEF Debit, Busy, Inv
  <1>2. CASE MayChange(e.user, -Due(e))
    <2>1. Due(e) \in 1 .. balance[e.user]
      BY <1>1, <1>2, SettlementAssumption DEF MayChange, Inv, TypeOK
    <2>2. balance' = [balance EXCEPT ![e.user] = @ - Due(e)]
      BY <1>1, <1>2, SettlementAssumption DEF Debit, SetBalance, Inv, TypeOK
    <2>3. Held[c] = 0
      BY DEF Held, Carried, Debit
    <2>4. CASE Goto(c, "Credit") /\ e.type = "transfer"
      <3>1. Held' = [Held EXCEPT ![c] = Due(e)]
        BY <1>1, <2>4, GotoHeld DEF Steps, Debit
      <3>2. W!Hold(c, e.user, Due(e))
        BY <2>1, <2>2, <2>3, <3>1 DEF W!Hold, Held
      <3> QED
        BY <1>1, <2>1, <3>2 DEF W!Next
    <2>5. CASE Goto(c, "ReadMessage") \/ Goto(c, "CreateRow")
      <3>1. Held' = [Held EXCEPT ![c] = 0]
        BY <2>5, GotoHeld DEF Steps, Debit
      <3>2. W!Pay(e.user, Due(e))
        BY <2>1, <2>2, <2>3, <3>1 DEF W!Pay, Held
      <3> QED
        BY <1>1, <2>1, <3>2 DEF W!Next
    <2> QED
      BY <1>2, <2>4, <2>5 DEF Debit, AfterCommit, AfterDebit, Skip
  <1>3. CASE ~MayChange(e.user, -Due(e))
    BY <1>3, QuietRefines DEF Debit, Skip, Steps
  <1> QED
    BY <1>2, <1>3

\* A credit releases what the consumer holds; a refused one forfeits it.
LEMMA CreditRefines == ASSUME Inv, NEW c \in Consumers, Credit(c) PROVE W!Next
  <1> DEFINE e == Ev(c)
  <1>1. e.related \in Users /\ e.amount \in 1 .. MaxInt
    BY EventFacts DEF Credit, Inv, StageFacts, Transfers
  <1>2. CASE MayChange(e.related, e.amount)
    <2>1. PICK step \in {"ReadMessage", "CreateRow"} : Goto(c, step)
      BY <1>2 DEF Credit, AfterCommit, Skip
    <2>2. Held' = [Held EXCEPT ![c] = 0] /\ Held[c] = e.amount
      BY <2>1, GotoHeld DEF Steps, Credit, Held, Carried
    <2>3. W!Release(c, e.related)
      BY <1>1, <1>2, <2>2, SettlementAssumption DEF W!Release, Held, Credit, SetBalance
    <2> QED
      BY <1>1, <2>3 DEF W!Next
  <1>3. CASE ~MayChange(e.related, e.amount)
    BY <1>1, <1>3, GivenUpRefines DEF Credit, Skip, W!Next
  <1> QED
    BY <1>2, <1>3

\* What happens to the topic is nothing to the wallets.
LEMMA TopicRefines ==
    ASSUME Inv,
           \/ \E e \in Events : Publish(e)
           \/ \E c \in Consumers : ReadMessage(c) \/ ReadMessageFails(c)
           \/ UNCHANGED vars
    PROVE  UNCHANGED <<balance, Held>>
  <1>1. balance' = balance
    BY DEF Publish, ReadMessage, ReadMessageFails, vars, database
  <1>2. ASSUME NEW d \in Consumers PROVE Carried(d)' = Carried(d)
    <2>1. CASE \E e \in Events : Publish(e)
      BY <2>1 DEF Publish, Carried, Ev, Inv, TypeOK
    <2>2. CASE \E c \in Consumers : ReadMessage(c)
      BY <2>2 DEF ReadMessage, Carried, Ev, Inv, TypeOK
    <2>3. CASE \/ \E c \in Consumers : ReadMessageFails(c)
               \/ UNCHANGED vars
      BY <2>3 DEF ReadMessageFails, vars, Carried, Ev
    <2> QED
      BY <2>1, <2>2, <2>3
  <1> QED
    BY <1>1, <1>2 DEF Held

\* Every step is one of the wallets' or leaves them alone.
LEMMA StepRefines == Inv /\ [Next]_vars => [W!Next]_<<balance, Held>>
  <1> SUFFICES ASSUME Inv, [Next]_vars PROVE W!Next \/ UNCHANGED <<balance, Held>>
    OBVIOUS
  <1>1. ASSUME NEW c \in Consumers, CheckFunds(c) \/ CreateRow(c) \/ CreateReceiverRow(c)
        PROVE  UNCHANGED <<balance, Held>>
    <2>1. PICK step \in Steps \ {"Credit"} : Goto(c, step)
      BY <1>1 DEF CheckFunds, CreateRow, CreateReceiverRow, AfterCommit, AfterRow, Skip, Steps
    <2> QED
      BY <1>1, <2>1, QuietRefines DEF CheckFunds, CreateRow, CreateReceiverRow, database
  <1>2. ASSUME NEW c \in Consumers, Abandon(c)
        PROVE  W!Next \/ UNCHANGED <<balance, Held>>
    <2>1. CASE pc[c] = "Credit"
      <3>1. W!Forfeit(c)
        BY <1>2, <2>1, GivenUpRefines DEF Abandon, Skip, database
      <3>2. \E u \in Users : TRUE
        BY <2>1, EventFacts DEF Inv, StageFacts, Transfers
      <3> QED
        BY <3>1, <3>2 DEF W!Next
    <2>2. CASE pc[c] # "Credit"
      BY <1>2, <2>2, QuietRefines DEF Abandon, Skip, database, Steps
    <2> QED
      BY <2>1, <2>2
  <1> QED
    BY <1>1, <1>2, DebitRefines, CreditRefines, TopicRefines DEF Next, Body

\* The consumers implement Wallets, for any number of users, consumers, events
\* and failures: no interleaving of debits, credits and crashes pays a receiver
\* more than a sender gave, or charges a user more than the wallet holds.
THEOREM RefinesWallets == Spec => ImplementsWallets
  <1>1. Init => W!Init
    BY DEF Init, W!Init, Held, Carried
  <1>2. Inv /\ [Next]_vars => [W!Next]_W!vars
    BY StepRefines DEF W!vars, Held
  <1> QED
    BY <1>1, <1>2, Invariance, PTL DEF Spec, ImplementsWallets, W!Spec

-----------------------------------------------------------------------------
(* What admission may rely on                                              *)

\* A step of a consumer changes one balance at most, to one the column can hold.
LEMMA OneBalance ==
    ASSUME Inv, NEW c \in Consumers, Body(c)
    PROVE  \/ UNCHANGED balance
           \/ \E u \in Users : \E b \in 0 .. MaxInt : balance' = [balance EXCEPT ![u] = b]
  <1>1. ASSUME NEW u \in Users, NEW d \in Int, MayChange(u, d), SetBalance(u, d)
        PROVE  \E b \in 0 .. MaxInt : balance' = [balance EXCEPT ![u] = b]
    BY <1>1 DEF MayChange, SetBalance
  <1>2. CASE Debit(c)
    <2>1. Ev(c).user \in Users /\ -Due(Ev(c)) \in Int
      BY <1>2, CurrentEvent, EventFacts DEF Debit, Busy, Inv
    <2> QED
      BY <1>1, <1>2, <2>1 DEF Debit
  <1>3. CASE Credit(c)
    <2>1. Ev(c).related \in Users /\ Ev(c).amount \in Int
      BY <1>3, EventFacts DEF Credit, Inv, StageFacts, Transfers
    <2> QED
      BY <1>1, <1>3, <2>1 DEF Credit
  <1> QED
    BY <1>2, <1>3 DEF Body, ReadMessage, CheckFunds, CreateRow, CreateReceiverRow, database
=============================================================================
