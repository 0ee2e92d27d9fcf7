------------------------- MODULE RegistrationProofs -------------------------
(***************************************************************************)
(* Proofs about Registration, for any requests, names, retries and         *)
(* failures: one account per name, announcements that come too late to     *)
(* create an account, and where the announcement of a user can be.         *)
(***************************************************************************)
EXTENDS Registration, FiniteSetTheorems, TLAPS

\* The requests that will not announce anything any more.
Over == {h \in Handlers : pc[h] = "Done" /\ h \notin sending \cup buffer}

\* The topic grows by one record for each request, besides the bounded repeats.
LogBounded == Len(log) <= MaxLog + Cardinality(Over)

\* TypeOK without the length of the topic.
Types ==
    /\ pc \in [Handlers -> {"Idle", "Create", "Done"}]
    /\ name \in [Handlers -> Names]
    /\ reply \in [Handlers -> {"none", "Registered", "UsernameExists", "Failed"}]
    /\ accounts \in Seq([name : Names, balance : {0, InitialBalance}])
    /\ opening \subseteq [user : Ids, amount : {0, InitialBalance}]
    /\ sending \subseteq Handlers
    /\ attempt \in [Handlers -> 0 .. Retries]
    /\ buffer \subseteq Handlers /\ givenUp \subseteq Handlers
    /\ log \in Seq(Names)
    /\ unread \subseteq 1 .. Len(log)
    /\ reading \subseteq Names
    /\ faults \in 0 .. MaxFaults
    /\ stopped \subseteq Handlers

\* Whoever announces a name, or was told it is registered, has left the name an
\* account: so do the records of the topic and what consumers hold of them.
Backed ==
    /\ \A h \in Handlers :
          reply[h] = "Registered" \/ h \in sending \cup buffer
              => pc[h] = "Done" /\ Exists(name[h])
    /\ \A o \in 1 .. Len(log) : Exists(log[o])
    /\ \A n \in reading : Exists(n)

\* A goroutine has attempts left, and ends when the writer has its event.
Attempts ==
    /\ \A h \in sending : attempt[h] < Retries
    /\ \A h \in Handlers : pc[h] # "Done" => attempt[h] = 0
    /\ sending \cap buffer = {}

\* Where the announcement of a registered user is: with the goroutine, in the
\* buffer or in the topic, unless one of the three ways to lose it was taken.
Kept ==
    \A h \in Handlers :
        reply[h] = "Registered" =>
            \/ h \in sending \cup buffer
            \/ \E o \in 1 .. Len(log) : log[o] = name[h]
            \/ attempt[h] = Retries \/ h \in givenUp \cup stopped

Ledger == OneAccountPerName /\ NoAccountFromEvent

Inv == Types /\ LogBounded /\ Backed /\ Attempts /\ Kept /\ Ledger

-----------------------------------------------------------------------------
(* The tables                                                              *)

\* An account is added behind the others.
LEMMA CreateRows ==
    ASSUME Types, NEW n \in Names, NEW b \in {0, InitialBalance}, Create(n, b)
    PROVE  /\ Ids' = Ids \cup {Len(accounts) + 1} /\ Len(accounts) + 1 \notin Ids
           /\ \A i \in Ids : accounts'[i] = accounts[i]
           /\ accounts'[Len(accounts) + 1] = [name |-> n, balance |-> b]
           /\ accounts' \in Seq([name : Names, balance : {0, InitialBalance}])
           /\ opening' \subseteq [user : Ids', amount : {0, InitialBalance}]
  <1>1. /\ Len(accounts) \in Nat /\ Len(accounts') = Len(accounts) + 1
        /\ \A i \in Ids : accounts'[i] = accounts[i]
        /\ accounts'[Len(accounts) + 1] = [name |-> n, balance |-> b]
        /\ accounts' \in Seq([name : Names, balance : {0, InitialBalance}])
    BY DEF Types, Create, Ids
  <1>2. Ids' = Ids \cup {Len(accounts) + 1} /\ Len(accounts) + 1 \notin Ids
    <2>1. \A k \in Nat : 1 .. k + 1 = (1 .. k) \cup {k + 1} /\ k + 1 \notin 1 .. k
      OBVIOUS
    <2> QED
      BY <1>1, <2>1 DEF Ids
  <1>3. Ids \subseteq Ids' /\ Len(accounts) + 1 \in Ids'
    BY <1>2
  <1>4. opening' \subseteq [user : Ids', amount : {0, InitialBalance}]
    BY <1>3 DEF Types, Create
  <1> QED
    BY <1>1, <1>2, <1>4

\* It takes no name away.
LEMMA CreateNames ==
    ASSUME Types, NEW n \in Names, NEW b \in {0, InitialBalance}, Create(n, b)
    PROVE  \A m : Exists(m)' <=> Exists(m) \/ m = n
  <1>1. /\ Ids' = Ids \cup {Len(accounts) + 1}
        /\ \A i \in Ids : accounts'[i].name = accounts[i].name
        /\ accounts'[Len(accounts) + 1].name = n
    <2>1. accounts'[Len(accounts) + 1] = [name |-> n, balance |-> b]
      BY CreateRows
    <2>2. Ids' = Ids \cup {Len(accounts) + 1} /\ \A i \in Ids : accounts'[i] = accounts[i]
      BY CreateRows
    <2> QED
      BY <2>1, <2>2
  <1> QED
    BY <1>1 DEF Exists

\* A new account with the initial balance and a new name keeps names unique.
LEMMA CreateLedger ==
    ASSUME Types, Ledger, NEW n \in Names, Create(n, InitialBalance), ~Exists(n)
    PROVE  /\ NoAccountFromEvent'
           /\ \A i, j \in Ids' : accounts'[i].name = accounts'[j].name => i = j
  <1> DEFINE new == Len(accounts) + 1
  <1>1. /\ Ids' = Ids \cup {new} /\ new \notin Ids
        /\ \A i \in Ids : accounts'[i] = accounts[i]
        /\ accounts'[new] = [name |-> n, balance |-> InitialBalance]
    BY CreateRows DEF Ids, Create, Types
  <1> HIDE DEF new
  <1>2. NoAccountFromEvent'
    BY <1>1 DEF Ledger, NoAccountFromEvent
  <1>3. \A i, j \in Ids' : accounts'[i].name = accounts'[j].name => i = j
    BY <1>1 DEF Ledger, OneAccountPerName, Exists
  <1> QED
    BY <1>2, <1>3

-----------------------------------------------------------------------------
(* The steps                                                               *)

\* A request that ends with nothing left to announce makes room for a record.
LEMMA OverGrows ==
    ASSUME Inv, Over \subseteq Over', Len(log') = Len(log) \/
               \E h \in Handlers : h \notin Over /\ h \in Over' /\ Len(log') = Len(log) + 1
    PROVE  LogBounded'
  <1>1. IsFiniteSet(Over) /\ IsFiniteSet(Over')
    BY RegistrationAssumption, FS_Subset DEF Over
  <1>2. Cardinality(Over) \in Nat /\ Cardinality(Over') \in Nat /\ Len(log) \in Nat
    BY <1>1, FS_CardinalityType DEF Inv, Types
  <1>3. CASE Len(log') = Len(log)
    <2>1. Cardinality(Over) <= Cardinality(Over')
      BY <1>1, FS_Subset
    <2> QED
      BY <1>2, <1>3, <2>1, RegistrationAssumption DEF Inv, LogBounded
  <1>4. ASSUME NEW h \in Handlers, h \notin Over, h \in Over', Len(log') = Len(log) + 1
        PROVE  LogBounded'
    <2>1. IsFiniteSet(Over \cup {h}) /\ Cardinality(Over \cup {h}) = Cardinality(Over) + 1
      BY <1>1, <1>4, FS_AddElement
    <2>2. Cardinality(Over \cup {h}) <= Cardinality(Over')
      BY <1>1, <1>4, FS_Subset
    <2> QED
      BY <1>2, <1>4, <2>1, <2>2, RegistrationAssumption DEF Inv, LogBounded
  <1> QED
    BY <1>3, <1>4

\* What is known of the accounts holds as long as the tables are left alone.
LEMMA SameTables ==
    ASSUME Inv, UNCHANGED tables
    PROVE  /\ Ids' = Ids /\ \A n : Exists(n)' <=> Exists(n)
           /\ accounts' \in Seq([name : Names, balance : {0, InitialBalance}])
           /\ opening' \subseteq [user : Ids', amount : {0, InitialBalance}]
           /\ NoAccountFromEvent'
           /\ \A i, j \in Ids' : accounts'[i].name = accounts'[j].name => i = j
  BY DEF tables, Ids, Exists, Inv, Types, Ledger, NoAccountFromEvent, OneAccountPerName

\* The check, and failures: nothing is written, nothing new is announced.
LEMMA QuietInv ==
    ASSUME Inv, NEW h \in Handlers, GetByUsername(h) \/ Stop(h) \/ GiveUp(h)
    PROVE  Inv'
  <1> USE DEF Inv
  <1>1. /\ UNCHANGED <<name, tables, attempt, topic, log, unread, reading>>
        /\ faults' \in 0 .. MaxFaults
    BY RegistrationAssumption
    DEF GetByUsername, Stop, GiveUp, Fault, Types, goroutine, topic
  <1>2. /\ pc' \in [Handlers -> {"Idle", "Create", "Done"}]
        /\ reply' \in [Handlers -> {"none", "Registered", "UsernameExists", "Failed"}]
        /\ \A g \in Handlers :
              /\ reply'[g] = "Registered" => reply[g] = "Registered"
              /\ pc[g] = "Done" => pc'[g] = "Done"
              /\ pc'[g] # "Done" => pc[g] # "Done"
    BY DEF GetByUsername, Stop, GiveUp, Goto, Answer, Types
  <1>3. /\ sending' \subseteq sending /\ buffer' \subseteq buffer
        /\ givenUp \subseteq givenUp' /\ givenUp' \subseteq Handlers
        /\ stopped \subseteq stopped' /\ stopped' \subseteq Handlers
        /\ (sending \cup buffer) \ (sending' \cup buffer') \subseteq givenUp' \cup stopped'
    BY DEF GetByUsername, Stop, GiveUp, goroutine, writer, Types
  <1>4. Types'
    BY <1>1, <1>2, <1>3, SameTables DEF Types
  <1>5. LogBounded'
    BY <1>1, <1>2, <1>3, OverGrows DEF Over
  <1>6. Backed'
    BY <1>1, <1>2, <1>3, SameTables DEF Backed
  <1>7. Attempts' /\ Kept'
    BY <1>1, <1>2, <1>3 DEF Attempts, Kept, Types
  <1>8. Ledger'
    BY <1>1, <1>2, SameTables DEF Ledger, OneAccountPerName
  <1> QED
    BY <1>4, <1>5, <1>6, <1>7, <1>8

\* A registration: the constraint lets it through only if the name has no account.
LEMMA CreateUserInv == ASSUME Inv, NEW h \in Handlers, CreateUser(h) PROVE Inv'
  <1> USE DEF Inv
  <1>1. /\ name[h] \in Names /\ reply[h] # "Registered" /\ h \notin sending \cup buffer
        /\ attempt[h] = 0 /\ Retries \in Nat \ {0}
    BY RegistrationAssumption DEF CreateUser, Types, Backed, Attempts
  <1>2. /\ pc' = [pc EXCEPT ![h] = "Done"]
        /\ UNCHANGED <<name, attempt, buffer, givenUp, log, unread, reading, stopped>>
        /\ faults' \in 0 .. MaxFaults
        /\ \/ reply' = [reply EXCEPT ![h] = "Registered"] /\ sending' = sending \cup {h}
           \/ reply' = [reply EXCEPT ![h] = "Failed"] /\ sending' = sending
    BY RegistrationAssumption
    DEF CreateUser, CreateFailed, Goto, Answer, Fault, Types, writer, topic
  <1>3. /\ pc' \in [Handlers -> {"Idle", "Create", "Done"}] /\ pc'[h] = "Done"
        /\ reply' \in [Handlers -> {"none", "Registered", "UsernameExists", "Failed"}]
        /\ sending' \subseteq Handlers
        /\ reply'[h] = "Registered" => h \in sending'
        /\ \A g \in Handlers \ {h} :
              pc'[g] = pc[g] /\ reply'[g] = reply[g] /\ (g \in sending' <=> g \in sending)
    BY <1>2 DEF Types
  <1>4. LogBounded'
    BY <1>1, <1>2, <1>3, OverGrows DEF Over, CreateUser
  <1>5. Attempts' /\ Kept'
    BY <1>1, <1>2, <1>3 DEF Attempts, Kept
  <1>6. CASE UNCHANGED tables /\ CreateFailed(h)
    <2>1. Types'
      BY <1>2, <1>3, <1>6, SameTables DEF Types
    <2>2. reply'[h] # "Registered" /\ h \notin sending' \cup buffer'
      BY <1>1, <1>2, <1>6 DEF CreateFailed, Answer, Types
    <2>3. Backed' /\ Ledger'
      BY <1>2, <1>3, <1>6, <2>2, SameTables DEF Backed, Ledger, OneAccountPerName
    <2> QED
      BY <1>4, <1>5, <2>1, <2>3
  <1>7. CASE Create(name[h], InitialBalance) /\ ~Exists(name[h])
    <2>1. Types'
      <3>1. /\ accounts' \in Seq([name : Names, balance : {0, InitialBalance}])
            /\ opening' \subseteq [user : Ids', amount : {0, InitialBalance}]
        BY <1>1, <1>7, CreateRows
      <3> QED
        BY <1>2, <1>3, <3>1 DEF Types
    <2>2. \A n : Exists(n)' <=> Exists(n) \/ n = name[h]
      BY <1>1, <1>7, CreateNames
    <2>3. Backed'
      BY <1>2, <1>3, <2>2 DEF Backed
    <2>4. \A g \in Handlers \ {h} : reply'[g] = "Registered" => name[g] # name[h]
      BY <1>3, <1>7 DEF Backed
    <2>5. OneAccountPerName'
      BY <1>1, <1>2, <1>3, <1>7, <2>4, CreateLedger DEF OneAccountPerName, Ledger
    <2> QED
      BY <1>1, <1>4, <1>5, <1>7, <2>1, <2>3, <2>5, CreateLedger DEF Ledger
  <1> QED
    BY <1>6, <1>7 DEF CreateUser, MayInsert

\* An attempt of a goroutine: the event is in the buffer, or an attempt is spent.
LEMMA SendEventInv == ASSUME Inv, NEW h \in Handlers, SendEvent(h) PROVE Inv'
  <1> USE DEF Inv
  <1>1. /\ UNCHANGED <<pc, name, reply, tables, givenUp, log, unread, reading, stopped>>
        /\ h \in sending /\ h \notin buffer /\ pc[h] = "Done" /\ Exists(name[h])
        /\ attempt[h] \in Nat /\ attempt[h] < Retries /\ Retries \in Nat
        /\ faults' \in 0 .. MaxFaults
    BY RegistrationAssumption DEF SendEvent, Types, Backed, Attempts, Fault, topic
  <1>2. \/ /\ buffer' = buffer \cup {h} /\ sending' = sending \ {h}
           /\ attempt' = attempt
        \/ /\ attempt' = [attempt EXCEPT ![h] = @ + 1] /\ buffer' = buffer
           /\ \/ sending' = sending \ {h} /\ attempt[h] + 1 = Retries
              \/ sending' = sending /\ attempt[h] + 1 # Retries
    BY DEF SendEvent, Exhausted
  <1>3. /\ attempt' \in [Handlers -> 0 .. Retries]
        /\ sending' \subseteq sending /\ buffer' \subseteq Handlers
        /\ \A g \in Handlers \ {h} :
              /\ attempt'[g] = attempt[g]
              /\ (g \in sending' <=> g \in sending) /\ (g \in buffer' <=> g \in buffer)
        /\ h \in sending' => attempt'[h] < Retries
        /\ h \notin sending' \cap buffer'
        /\ h \in sending' \cup buffer' \/ attempt'[h] = Retries
    <2>1. sending \subseteq Handlers /\ attempt \in [Handlers -> 0 .. Retries]
      BY DEF Types
    <2>2. CASE buffer' = buffer \cup {h} /\ sending' = sending \ {h} /\ attempt' = attempt
      BY <1>1, <2>1, <2>2 DEF Types
    <2>3. CASE attempt' = [attempt EXCEPT ![h] = @ + 1] /\ buffer' = buffer
      <3>1. /\ attempt'[h] = attempt[h] + 1 /\ attempt[h] + 1 \in 0 .. Retries
            /\ attempt' \in [Handlers -> 0 .. Retries]
            /\ \A g \in Handlers \ {h} : attempt'[g] = attempt[g]
        BY <1>1, <2>1, <2>3
      <3>2. \/ sending' = sending \ {h} /\ attempt[h] + 1 = Retries
            \/ sending' = sending /\ attempt[h] + 1 < Retries
        BY <1>1, <1>2, <2>3, <3>1
      <3> QED
        BY <1>1, <2>3, <3>1, <3>2 DEF Types
    <2> QED
      BY <1>2, <2>2, <2>3
  <1>4. Types'
    BY <1>1, <1>3, SameTables DEF Types
  <1>5. LogBounded'
    BY <1>1, <1>3, OverGrows DEF Over
  <1>6. Backed'
    BY <1>1, <1>3, SameTables DEF Backed
  <1>7. Attempts'
    BY <1>1, <1>3 DEF Attempts, Types
  <1>8. Kept'
    BY <1>1, <1>3 DEF Kept
  <1>9. Ledger'
    BY <1>1, SameTables DEF Ledger, OneAccountPerName
  <1> QED
    BY <1>4, <1>5, <1>6, <1>7, <1>8, <1>9

\* A batch that is written: its record names an account.
LEMMA DeliverInv == ASSUME Inv, NEW h \in Handlers, Deliver(h) PROVE Inv'
  <1> USE DEF Inv
  <1>1. /\ UNCHANGED <<pc, name, reply, tables, sending, attempt, givenUp, reading, faults,
                      stopped>>
        /\ h \in buffer /\ h \notin sending /\ pc[h] = "Done" /\ Exists(name[h])
        /\ name[h] \in Names
        /\ buffer' = buffer \ {h} \/ (Len(log) < MaxLog /\ buffer' = buffer)
    BY DEF Deliver, Types, Backed, Attempts, goroutine
  <1>2. /\ Len(log) \in Nat /\ log' \in Seq(Names) /\ Len(log') = Len(log) + 1
        /\ \A o \in 1 .. Len(log) : log'[o] = log[o]
        /\ log'[Len(log) + 1] = name[h]
        /\ unread' = unread \cup {Len(log) + 1}
    BY <1>1 DEF Deliver, Types
  <1>3. 1 .. Len(log') = (1 .. Len(log)) \cup {Len(log) + 1}
    <2>1. \A k \in Nat : 1 .. k + 1 = (1 .. k) \cup {k + 1}
      OBVIOUS
    <2> QED
      BY <1>2, <2>1
  <1>4. Types'
    <2>1. unread' \subseteq 1 .. Len(log') /\ buffer' \subseteq Handlers
      BY <1>1, <1>2, <1>3 DEF Types
    <2> QED
      BY <1>1, <1>2, <2>1, SameTables DEF Types
  <1>5. LogBounded'
    <2>1. CASE buffer' = buffer \ {h}
      <3>1. h \notin Over /\ h \in Over' /\ Over \subseteq Over'
        BY <1>1, <2>1 DEF Over
      <3> QED
        BY <1>2, <3>1, OverGrows
    <2>2. CASE Len(log) < MaxLog
      <3>1. Cardinality(Over') \in Nat
        BY RegistrationAssumption, FS_Subset, FS_CardinalityType DEF Over
      <3> QED
        BY <1>2, <2>2, <3>1, RegistrationAssumption DEF LogBounded
    <2> QED
      BY <1>1, <2>1, <2>2
  <1>6. Backed'
    <2>1. \A n : Exists(n)' <=> Exists(n)
      BY <1>1, SameTables
    <2>2. \A o \in 1 .. Len(log') : Exists(log'[o])
      BY <1>1, <1>2, <1>3 DEF Backed
    <2> QED
      BY <1>1, <2>1, <2>2 DEF Backed
  <1>7. Attempts'
    BY <1>1 DEF Attempts
  <1>8. Kept'
    <2>1. \A g \in Handlers :
            (\E o \in 1 .. Len(log) : log[o] = name[g])
                => \E o \in 1 .. Len(log') : log'[o] = name[g]
      BY <1>2, <1>3
    <2>2. \E o \in 1 .. Len(log') : log'[o] = name[h]
      BY <1>2, <1>3
    <2> QED
      BY <1>1, <2>1, <2>2 DEF Kept
  <1>9. Ledger'
    BY <1>1, SameTables DEF Ledger, OneAccountPerName
  <1> QED
    BY <1>4, <1>5, <1>6, <1>7, <1>8, <1>9

\* What a consumer reads names an account, and so it never creates one.
LEMMA ConsumerInv ==
    ASSUME Inv, ReadMessage \/ \E n \in Names : CreateFromEvent(n)
    PROVE  Inv'
  <1> USE DEF ReadMessage, CreateFromEvent, MayInsert, Inv
  <1>1. UNCHANGED <<pc, name, reply, tables, sending, attempt, buffer, givenUp, log, faults,
                    stopped>>
    BY DEF Backed, topic, goroutine, writer
  <1>2. Types'
    <2>1. unread' \subseteq unread /\ unread \subseteq 1 .. Len(log')
      BY <1>1 DEF Types, topic
    <2>2. reading' \subseteq Names
      <3>1. \A o \in unread : log[o] \in Names
        BY DEF Types
      <3> QED
        BY <3>1 DEF Types
    <2> QED
      BY <1>1, <2>1, <2>2, SameTables DEF Types
  <1>3. LogBounded'
    BY <1>1, OverGrows DEF Over
  <1>4. Backed'
    BY <1>1, SameTables DEF Backed, Types
  <1>5. Attempts' /\ Kept'
    BY <1>1 DEF Attempts, Kept
  <1> QED
    BY <1>1, <1>2, <1>3, <1>4, <1>5, SameTables DEF Ledger, OneAccountPerName

\* The invariant holds at the start.
LEMMA InitInv == Init => Inv
  <1> SUFFICES ASSUME Init PROVE Inv
    OBVIOUS
  <1> USE DEF Init
  <1>1. Len(accounts) = 0 /\ Len(log) = 0 /\ Ids = {}
    BY DEF Ids
  <1>2. Types
    BY <1>1, RegistrationAssumption DEF Types
  <1>3. LogBounded
    <2>1. Cardinality(Over) \in Nat
      BY RegistrationAssumption, FS_Subset, FS_CardinalityType DEF Over
    <2> QED
      BY <1>1, <2>1, RegistrationAssumption DEF LogBounded
  <1>4. Backed
    BY <1>1 DEF Backed
  <1>5. Attempts /\ Kept /\ Ledger
    BY <1>1 DEF Attempts, Kept, Ledger, OneAccountPerName, NoAccountFromEvent
  <1> QED
    BY <1>2, <1>3, <1>4, <1>5 DEF Inv

\* Every step keeps it.
LEMMA NextInv == Inv /\ [Next]_vars => Inv'
  <1> SUFFICES ASSUME Inv, [Next]_vars PROVE Inv'
    OBVIOUS
  <1>1. CASE UNCHANGED vars
    <2>1. UNCHANGED <<pc, name, reply, tables, sending, attempt, buffer, givenUp, log, unread,
                      reading, faults, stopped>>
      BY <1>1 DEF vars, tables, goroutine, writer, topic
    <2>2. Types' /\ LogBounded'
      BY <2>1, SameTables, OverGrows DEF Inv, Types, Over, tables
    <2>3. Backed' /\ Ledger'
      BY <2>1, SameTables DEF Inv, Backed, Ledger, OneAccountPerName
    <2>4. Attempts' /\ Kept'
      BY <2>1 DEF Inv, Attempts, Kept
    <2> QED
      BY <2>2, <2>3, <2>4 DEF Inv
  <1> QED
    BY <1>1, QuietInv, CreateUserInv, SendEventInv, DeliverInv, ConsumerInv DEF Next

\* The inductive invariant always holds.
LEMMA Invariance == Spec => []Inv
  BY InitInv, NextInv, PTL DEF Spec

\* The variables keep their types, and each request adds one record to the topic
\* at most, besides those the writer repeats.
THEOREM TypeCorrect == Spec => []TypeOK
  <1>1. ASSUME Inv PROVE Len(log) <= MaxLog + Cardinality(Handlers)
    <2>1. /\ IsFiniteSet(Over) /\ Cardinality(Over) <= Cardinality(Handlers)
      BY RegistrationAssumption, FS_Subset DEF Over
    <2>2. Cardinality(Over) \in Nat /\ Cardinality(Handlers) \in Nat /\ Len(log) \in Nat
      BY <1>1, <2>1, RegistrationAssumption, FS_CardinalityType DEF Inv, Types
    <2> QED
      BY <1>1, <2>1, <2>2, RegistrationAssumption DEF Inv, LogBounded
  <1>2. Inv => TypeOK
    BY <1>1 DEF Inv, Types, TypeOK
  <1> QED
    BY <1>2, Invariance, PTL

\* However many requests race between the check of a name and its insertion, a
\* name has one account at most, and one request at most is told it registered it.
THEOREM NamesAreUnique == Spec => []OneAccountPerName
  <1>1. Inv => OneAccountPerName
    BY DEF Inv, Ledger
  <1> QED
    BY <1>1, Invariance, PTL

\* No announcement, however late, repeated or out of order, creates an account.
THEOREM EventsCreateNothing == Spec => []NoAccountFromEvent
  <1>1. Inv => NoAccountFromEvent
    BY DEF Inv, Ledger
  <1> QED
    BY <1>1, Invariance, PTL

\* The announcement of a registered user is on its way or in the topic, unless the
\* goroutine used up its attempts, the writer dropped the event after Send had
\* taken it, or the process stopped.
THEOREM AnnouncementIsKept == Spec => []Kept
  <1>1. Inv => Kept
    BY DEF Inv
  <1> QED
    BY <1>1, Invariance, PTL
=============================================================================
