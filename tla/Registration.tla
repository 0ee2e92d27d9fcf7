---------------------------- MODULE Registration ----------------------------
(***************************************************************************)
(* Register of internal/services/merch_service.go, the goroutine it starts *)
(* to announce a new user on the Kafka topic "users", the asynchronous     *)
(* writer of that topic, and its consumer, which calls the same Create of  *)
(* the user repository with the balance of the event: zero, because the    *)
(* event has none.  Announcements are harmless only as long as the account *)
(* they name already exists.                                               *)
(***************************************************************************)
EXTENDS Integers, Sequences, FiniteSets

CONSTANTS
    Handlers,         \* HTTP requests to /register, retries included
    Names,            \* usernames
    InitialBalance,   \* balance Register gives a new user
    Retries,          \* attempts of the goroutine to send its event
    MaxLog,           \* bound: records in the topic for the writer to repeat a batch
    MaxFaults         \* bound: calls that fail

ASSUME RegistrationAssumption ==
    /\ IsFiniteSet(Handlers)
    /\ InitialBalance \in Nat \ {0}
    /\ Retries \in Nat \ {0}
    /\ MaxLog \in Nat /\ MaxFaults \in Nat

VARIABLES
    pc,         \* pc[h]: the call handler h makes next
    name,       \* name[h]: the username h was asked to register
    reply,      \* reply[h]: what h answered
    accounts,   \* the rows of table users, in the order of their ids
    opening,    \* the "initial" rows of table transactions
    sending,    \* handlers whose goroutine still tries to send
    attempt,    \* attempt[h]: attempts of h's goroutine that met an error
    buffer,     \* handlers whose event is in the writer's buffer
    givenUp,    \* handlers whose event the writer dropped after its last attempt
    log,        \* the records of topic "users"
    unread,     \* offsets the consumers have not committed
    reading,    \* names in records a consumer has read and not created yet
    faults,     \* calls that failed and processes that stopped
    stopped     \* history: the handlers these processes ran

tables == <<accounts, opening>>
goroutine == <<sending, attempt>>
writer == <<buffer, givenUp>>
topic == <<log, unread>>
vars == <<pc, name, reply, tables, goroutine, writer, topic, reading, faults, stopped>>

Ids == 1 .. Len(accounts)

\* GetByUsername
Exists(n) == \E i \in Ids : accounts[i].name = n

\* Mutant of MayInsert: no UNIQUE constraint on the column username.
BugNoConstraint(n) == TRUE

\* The UNIQUE constraint on users.username.
MayInsert(n) == ~Exists(n)

\* Mutant of Create: the opening row gets the last id, not the new one.
BugStaleId(n, b) ==
    /\ accounts' = Append(accounts, [name |-> n, balance |-> b])
    /\ opening' = opening \cup {[user |-> Len(accounts), amount |-> b]}

\* One Postgres transaction: the account and the row that opens its ledger.
Create(n, b) ==
    /\ accounts' = Append(accounts, [name |-> n, balance |-> b])
    /\ opening' = opening \cup {[user |-> Len(accounts) + 1, amount |-> b]}

Fault ==
    /\ faults < MaxFaults
    /\ faults' = faults + 1

Goto(h, call) == pc' = [pc EXCEPT ![h] = call]
Answer(h, r) == Goto(h, "Done") /\ reply' = [reply EXCEPT ![h] = r]

Init ==
    /\ pc = [h \in Handlers |-> "Idle"]
    /\ name \in [Handlers -> Names]
    /\ reply = [h \in Handlers |-> "none"]
    /\ accounts = <<>>
    /\ opening = {}
    /\ sending = {}
    /\ attempt = [h \in Handlers |-> 0]
    /\ buffer = {}
    /\ givenUp = {}
    /\ log = <<>>
    /\ unread = {}
    /\ reading = {}
    /\ faults = 0
    /\ stopped = {}

\* The check before the password is hashed, which takes long: other handlers
\* register meanwhile.
GetByUsername(h) ==
    /\ pc[h] = "Idle"
    /\ \/ Exists(name[h]) /\ Answer(h, "UsernameExists") /\ UNCHANGED faults
       \/ ~Exists(name[h]) /\ Goto(h, "Create") /\ UNCHANGED <<reply, faults>>
       \/ Fault /\ Answer(h, "Failed")
    /\ UNCHANGED <<name, tables, goroutine, writer, topic, reading, stopped>>

\* Mutant of CreateFailed: the handler goes on after the error.
BugAnnounceAnyway(h) ==
    /\ Answer(h, "Registered")
    /\ sending' = sending \cup {h}

\* A failed Create ends the request; nothing is announced.
CreateFailed(h) == Answer(h, "Failed") /\ UNCHANGED sending

\* Create, then the goroutine.  A unique violation is answered like any other
\* error, and so is a commit that is applied though it reports an error.
CreateUser(h) ==
    /\ pc[h] = "Create"
    /\ \/ /\ MayInsert(name[h])
          /\ Create(name[h], InitialBalance)
          /\ \/ /\ Answer(h, "Registered")
                /\ sending' = sending \cup {h}
                /\ UNCHANGED faults
             \/ Fault /\ CreateFailed(h)
       \/ ~MayInsert(name[h]) /\ CreateFailed(h) /\ UNCHANGED <<tables, faults>>
       \/ Fault /\ CreateFailed(h) /\ UNCHANGED tables
    /\ UNCHANGED <<name, attempt, writer, topic, reading, stopped>>

\* Mutant of Exhausted: the goroutine sends once.
BugGiveUp(h) == TRUE

\* The attempt that fails is the goroutine's last.
Exhausted(h) == attempt[h] + 1 = Retries

\* One attempt of the goroutine.  The writer is asynchronous: Send has no error
\* once the event is in the buffer, and the goroutine ends.
SendEvent(h) ==
    /\ h \in sending
    /\ \/ /\ buffer' = buffer \cup {h} /\ sending' = sending \ {h}
          /\ UNCHANGED <<attempt, faults>>
       \/ /\ Fault
          /\ attempt' = [attempt EXCEPT ![h] = @ + 1]
          /\ sending' = IF Exhausted(h) THEN sending \ {h} ELSE sending
          /\ UNCHANGED buffer
    /\ UNCHANGED <<pc, name, reply, tables, givenUp, topic, reading, stopped>>

\* The writer writes a batch.  If its acknowledgement does not arrive, the batch
\* stays and is written again.
Deliver(h) ==
    /\ h \in buffer
    /\ log' = Append(log, name[h])
    /\ unread' = unread \cup {Len(log) + 1}
    /\ buffer' = buffer \ {h} \/ (Len(log) < MaxLog /\ UNCHANGED buffer)
    /\ UNCHANGED <<pc, name, reply, tables, goroutine, givenUp, reading, faults, stopped>>

\* Its last attempt fails.  The goroutine ended long ago: nobody is told.
GiveUp(h) ==
    /\ h \in buffer
    /\ Fault
    /\ buffer' = buffer \ {h}
    /\ givenUp' = givenUp \cup {h}
    /\ UNCHANGED <<pc, name, reply, tables, goroutine, topic, reading, stopped>>

\* The process of h stops: the request is not answered, and its goroutine and
\* what is in the buffer are gone.
Stop(h) ==
    /\ pc[h] # "Idle"
    /\ Fault
    /\ Goto(h, "Done")
    /\ sending' = sending \ {h}
    /\ buffer' = buffer \ {h}
    /\ stopped' = stopped \cup {h}
    /\ UNCHANGED <<name, reply, tables, attempt, givenUp, topic, reading>>

\* ReadMessage of a consumer of the topic.
ReadMessage ==
    /\ \E o \in unread :
          /\ unread' = unread \ {o}
          /\ reading' = reading \cup {log[o]}
    /\ UNCHANGED <<pc, name, reply, tables, goroutine, writer, log, faults, stopped>>

\* Create with the balance the event does not have.  Its error, the rule, is
\* logged and forgotten.
CreateFromEvent(n) ==
    /\ n \in reading
    /\ reading' = reading \ {n}
    /\ IF MayInsert(n) THEN Create(n, 0) ELSE UNCHANGED tables
    /\ UNCHANGED <<pc, name, reply, goroutine, writer, topic, faults, stopped>>

Next ==
    \/ \E h \in Handlers :
          \/ GetByUsername(h) \/ CreateUser(h) \/ SendEvent(h)
          \/ Deliver(h) \/ GiveUp(h) \/ Stop(h)
    \/ ReadMessage
    \/ \E n \in Names : CreateFromEvent(n)

Spec == Init /\ [][Next]_vars

\* Handlers, their goroutines and the writer, which works on every batch, keep
\* running.
FairSpec ==
    /\ Spec
    /\ \A h \in Handlers :
          WF_vars(CreateUser(h)) /\ WF_vars(SendEvent(h)) /\ WF_vars(Deliver(h))

-----------------------------------------------------------------------------
(* Properties                                                              *)

\* The variables have the values the code and the tables allow.
TypeOK ==
    /\ pc \in [Handlers -> {"Idle", "Create", "Done"}]
    /\ name \in [Handlers -> Names]
    /\ reply \in [Handlers -> {"none", "Registered", "UsernameExists", "Failed"}]
    /\ accounts \in Seq([name : Names, balance : {0, InitialBalance}])
    /\ opening \subseteq [user : Ids, amount : {0, InitialBalance}]
    /\ sending \subseteq Handlers
    /\ attempt \in [Handlers -> 0 .. Retries]
    /\ buffer \subseteq Handlers /\ givenUp \subseteq Handlers
    /\ log \in Seq(Names) /\ Len(log) <= MaxLog + Cardinality(Handlers)
    /\ unread \subseteq 1 .. Len(log)
    /\ reading \subseteq Names
    /\ faults \in 0 .. MaxFaults
    /\ stopped \subseteq Handlers

\* However handlers race between the check of a name and its insertion, no two
\* of them are told they registered it, and it has one account at most.
OneAccountPerName ==
    /\ \A i, j \in Ids : accounts[i].name = accounts[j].name => i = j
    /\ \A g, h \in Handlers :
          reply[g] = "Registered" /\ reply[h] = "Registered" /\ name[g] = name[h] => g = h

\* No account ever starts with the zero balance of an event: an event is sent
\* only for an account that exists, and read in whatever order or number, it
\* cannot create one.
NoAccountFromEvent == \A i \in Ids : accounts[i].balance = InitialBalance

\* A registered user is announced.  The ways out are the program's: all attempts
\* of the user's own goroutine met an error, the asynchronous writer dropped the
\* event after Send had taken it, or the process stopped.
RegisteredIsAnnounced ==
    \A h \in Handlers :
        reply[h] = "Registered" ~>
            \/ \E o \in 1 .. Len(log) : log[o] = name[h]
            \/ attempt[h] = Retries \/ h \in givenUp \cup stopped
=============================================================================
