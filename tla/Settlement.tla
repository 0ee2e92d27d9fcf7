----------------------------- MODULE Settlement -----------------------------
(***************************************************************************)
(* The asynchronous half of the shop: the consumer of the Kafka topic      *)
(* "transactions" (internal/infrastructure/kafka/consumer.go) and the two  *)
(* Postgres tables it settles events in, users and transactions.           *)
(*                                                                         *)
(* Every server process runs one such consumer; they share a consumer      *)
(* group, so each record of the topic is read by one of them.  ReadMessage *)
(* commits the record's offset BEFORE it returns the record, and each      *)
(* database call of the loop body is a Postgres transaction of its own.    *)
(* A step below is one such call; between two steps other consumers run    *)
(* and the process may stop.                                               *)
(***************************************************************************)
EXTENDS Integers, Sequences, FiniteSets, Functions

CONSTANTS
    Users,            \* ids in table users (rows are never deleted)
    Merch,            \* ids in table merch
    Consumers,        \* the consumers of the group, one per server process
    Events,           \* the events the service publishes
    InitialBalance,   \* balance of a newly registered user
    MaxInt,           \* largest value of Go's int32 and of Postgres INTEGER
    NoID,             \* the NULL of column related_id
    MaxLog,           \* bound: records in the topic
    MaxFaults         \* bound: calls that fail and crashes

PurchaseEvents ==
    [type : {"purchase"}, user : Users, related : Merch, amount : -MaxInt .. -1]
TransferEvents ==
    [type : {"transfer"}, user : Users, related : Users, amount : 1 .. MaxInt]

ASSUME SettlementAssumption ==
    /\ Events \subseteq PurchaseEvents \cup TransferEvents
    /\ IsFiniteSet(Users) /\ IsFiniteSet(Consumers) /\ IsFiniteSet(Events)
    /\ MaxInt \in Nat \ {0}
    /\ InitialBalance \in 0 .. MaxInt
    /\ MaxLog \in Nat
    /\ MaxFaults \in Nat

VARIABLES
    log,       \* the records of the topic, in the order they were appended
    unread,    \* offsets the group has not committed yet
    pc,        \* pc[c]: the call consumer c makes next
    cur,       \* cur[c]: offset of the record c is working on, 0 if none
    balance,   \* column balance of table users
    rows,      \* rows[r]: how many rows of table transactions have contents r
    faults,    \* calls that failed or crashes so far
    debits,    \* history, read by no guard: debits applied for an offset
    credits    \* history, read by no guard: credits applied for an offset

vars == <<log, unread, pc, cur, balance, rows, faults, debits, credits>>
topic == <<log, unread>>
database == <<balance, rows, debits, credits>>

Steps == {"ReadMessage", "GetBalance", "Debit", "Credit",
          "CreateRow", "CreateReceiverRow"}

Offsets == 1 .. MaxLog

-----------------------------------------------------------------------------
(* Events and the rows they leave behind                                   *)

\* What an event takes from its user.  A purchase event carries minus the price.
Due(e) == IF e.type = "purchase" THEN -e.amount ELSE e.amount

\* Mutant of UserRow: the amount is written without its sign.
BugUnsignedRow(e) ==
    [user |-> e.user, related |-> e.related, amount |-> Due(e), type |-> e.type]

\* The row written for the user an event debits.
UserRow(e) ==
    [user |-> e.user, related |-> e.related, amount |-> -Due(e), type |-> e.type]

\* The second row of a transfer, for the user it credits.
ReceiverRow(e) ==
    [user |-> e.related, related |-> e.user, amount |-> e.amount, type |-> e.type]

\* The row registration writes; its column related_id is NULL.
InitialRow(u) ==
    [user |-> u, related |-> NoID, amount |-> InitialBalance, type |-> "initial"]

Transfers == {e \in Events : e.type = "transfer"}

RowValues ==
    {InitialRow(u) : u \in Users} \cup {UserRow(e) : e \in Events}
        \cup {ReceiverRow(e) : e \in Transfers}

\* The ledger's view of a balance: SUM(amount) over the user's completed rows.
LedgerBalance(u) ==
    SumFunction([r \in {q \in RowValues : q.user = u} |-> rows[r] * r.amount])

\* The rows GetTransactionHistory selects for a user, and whether its Scan into
\* a Go int32 gets through them: it fails on a NULL in related_id.  related_id is
\* the receiver of a transfer and the merch of a purchase; both ids are SERIAL, so
\* other users' purchases of the merch with the user's own id are among the rows.
HistoryRows(u) == {r \in RowValues : rows[r] > 0 /\ u \in {r.user, r.related}}
HistoryScans(u) == \A r \in HistoryRows(u) : r.related # NoID

-----------------------------------------------------------------------------
(* The users table                                                         *)

\* A sum as Go computes it in an int32.
Int32(x) == ((x + MaxInt + 1) % (2 * (MaxInt + 1))) - (MaxInt + 1)

\* Mutant of MayChange: no re-check under the lock and no CHECK constraint.
BugUnchecked(u, d) == TRUE

\* Whether ChangeBalance commits: the re-check under the row lock, in int32,
\* and then the column's own range and its CHECK (balance >= 0).
MayChange(u, d) ==
    /\ Int32(balance[u] + d) >= 0
    /\ balance[u] + d \in 0 .. MaxInt

\* Mutant of SetBalance: an update computed from a balance read long before.
BugLostUpdate(u, d) == balance' = [balance EXCEPT ![u] = InitialBalance + d]

SetBalance(u, d) == balance' = [balance EXCEPT ![u] = @ + d]

-----------------------------------------------------------------------------
(* The consumer loop                                                       *)

Ev(c) == log[cur[c]]

\* The next call of the loop; reading the next record forgets this one.
Goto(c, step) ==
    /\ pc' = [pc EXCEPT ![c] = step]
    /\ cur' = [cur EXCEPT ![c] = IF step = "ReadMessage" THEN 0 ELSE @]

Fault ==
    /\ faults < MaxFaults
    /\ faults' = faults + 1

\* Mutant of AfterDebit: the credit of a transfer is forgotten.
BugNoCredit(e) == "CreateRow"

\* The calls that follow a debit, and the first row, of an event.
AfterDebit(e) == IF e.type = "transfer" THEN "Credit" ELSE "CreateRow"
AfterRow(e) == IF e.type = "transfer" THEN "CreateReceiverRow" ELSE "ReadMessage"

\* Mutant of Skip: the same call is made again after an error.
BugTryAgain(c) == UNCHANGED <<pc, cur>>

\* Every error branch of the loop body is a continue: the record is dropped.
Skip(c) == Goto(c, "ReadMessage")

\* Mutant of AfterCommit: a call that reports an error is made again.
BugRetryCommit(c, step) ==
    \/ Goto(c, step) /\ UNCHANGED faults
    \/ UNCHANGED <<pc, cur>> /\ Fault

\* A call that commits in Postgres answers, or its commit is applied and the
\* answer is an error.
AfterCommit(c, step) ==
    \/ Goto(c, step) /\ UNCHANGED faults
    \/ Skip(c) /\ Fault

\* Mutant of Commit: a record is worked on before its offset is committed.
BugUncommitted(o) == unread

\* The group's offsets once o is committed.
Commit(o) == unread \ {o}

-----------------------------------------------------------------------------
Init ==
    /\ log = <<>>
    /\ unread = {}
    /\ pc = [c \in Consumers |-> "ReadMessage"]
    /\ cur = [c \in Consumers |-> 0]
    /\ balance = [u \in Users |-> InitialBalance]
    /\ rows = [r \in RowValues |-> IF \E u \in Users : r = InitialRow(u) THEN 1 ELSE 0]
    /\ faults = 0
    /\ debits = [o \in Offsets |-> 0]
    /\ credits = [o \in Offsets |-> 0]

\* The broker appends an event the producer's writer sends.  The writer is
\* asynchronous and repeats a batch whose acknowledgement is late, so an event
\* may be appended twice, and in any order.
Publish(e) ==
    /\ Len(log) < MaxLog
    /\ log' = Append(log, e)
    /\ unread' = unread \cup {Len(log) + 1}
    /\ UNCHANGED <<pc, cur, faults, database>>

\* ReadMessage fetches a record, commits its offset and returns it.  The topic
\* has several partitions: the next record may be any unread one.
ReadMessage(c) ==
    /\ pc[c] = "ReadMessage"
    /\ \E o \in unread :
          /\ unread' = Commit(o)
          /\ pc' = [pc EXCEPT ![c] = "GetBalance"]
          /\ cur' = [cur EXCEPT ![c] = o]
    /\ UNCHANGED <<log, faults, database>>

\* The commit is applied but fails: ReadMessage returns an error, no record.
ReadMessageFails(c) ==
    /\ pc[c] = "ReadMessage"
    /\ \E o \in unread : unread' = Commit(o)
    /\ Fault
    /\ UNCHANGED <<log, pc, cur, database>>

\* GetBalance and the comparison with the amount due, before any row is locked.
CheckFunds(c) ==
    /\ pc[c] = "GetBalance"
    /\ IF balance[Ev(c).user] < Due(Ev(c)) THEN Skip(c) ELSE Goto(c, "Debit")
    /\ UNCHANGED <<topic, faults, database>>

\* ChangeBalance of the user who pays: re-checked under the row's lock.
Debit(c) ==
    LET e == Ev(c) IN
    /\ pc[c] = "Debit"
    /\ \/ /\ MayChange(e.user, -Due(e))
          /\ SetBalance(e.user, -Due(e))
          /\ debits' = [debits EXCEPT ![cur[c]] = @ + 1]
          /\ AfterCommit(c, AfterDebit(e))
       \/ /\ ~MayChange(e.user, -Due(e))
          /\ Skip(c)
          /\ UNCHANGED <<balance, debits, faults>>
    /\ UNCHANGED <<topic, rows, credits>>

\* ChangeBalance of the user a transfer pays, a Postgres transaction of its own.
Credit(c) ==
    LET e == Ev(c) IN
    /\ pc[c] = "Credit"
    /\ \/ /\ MayChange(e.related, e.amount)
          /\ SetBalance(e.related, e.amount)
          /\ credits' = [credits EXCEPT ![cur[c]] = @ + 1]
          /\ AfterCommit(c, "CreateRow")
       \/ /\ ~MayChange(e.related, e.amount)
          /\ Skip(c)
          /\ UNCHANGED <<balance, credits, faults>>
    /\ UNCHANGED <<topic, rows, debits>>

\* The row of the user who paid.
CreateRow(c) ==
    /\ pc[c] = "CreateRow"
    /\ rows' = [rows EXCEPT ![UserRow(Ev(c))] = @ + 1]
    /\ AfterCommit(c, AfterRow(Ev(c)))
    /\ UNCHANGED <<topic, balance, debits, credits>>

\* The row of the user a transfer paid.
CreateReceiverRow(c) ==
    /\ pc[c] = "CreateReceiverRow"
    /\ rows' = [rows EXCEPT ![ReceiverRow(Ev(c))] = @ + 1]
    /\ AfterCommit(c, "ReadMessage")
    /\ UNCHANGED <<topic, balance, debits, credits>>

\* A call fails with nothing applied, or the process stops: either way the
\* record is gone, because its offset is committed.
Abandon(c) ==
    /\ pc[c] # "ReadMessage"
    /\ Skip(c)
    /\ Fault
    /\ UNCHANGED <<topic, database>>

Body(c) ==
    \/ ReadMessage(c) \/ CheckFunds(c) \/ Debit(c)
    \/ Credit(c) \/ CreateRow(c) \/ CreateReceiverRow(c)

Next ==
    \/ \E e \in Events : Publish(e)
    \/ \E c \in Consumers : Body(c) \/ ReadMessageFails(c) \/ Abandon(c)

Spec == Init /\ [][Next]_vars

\* The loop never waits on another consumer: each goroutine keeps running.
FairSpec == Spec /\ \A c \in Consumers : WF_vars(Body(c))

-----------------------------------------------------------------------------
(* Properties                                                              *)

\* Every variable has the values the tables, the topic and the loop allow; in
\* particular no balance is negative or outgrows its column.
TypeOK ==
    /\ log \in Seq(Events) /\ Len(log) <= MaxLog
    /\ unread \subseteq 1 .. Len(log)
    /\ pc \in [Consumers -> Steps]
    /\ cur \in [Consumers -> 0 .. MaxLog]
    /\ \A c \in Consumers : pc[c] # "ReadMessage" => cur[c] \in 1 .. Len(log)
    /\ balance \in [Users -> 0 .. MaxInt]
    /\ rows \in [RowValues -> Nat]
    /\ faults \in 0 .. MaxFaults
    /\ debits \in [Offsets -> Nat]
    /\ credits \in [Offsets -> Nat]

\* No record is settled twice, by one consumer or by two, and no receiver is
\* paid for a record whose sender was not charged: offsets are committed
\* before a record is worked on, and the debit comes first.
AtMostOnce ==
    \A o \in Offsets : credits[o] <= debits[o] /\ debits[o] <= 1

\* Coins a consumer has taken from a sender and not yet given to the receiver.
Carried(c) == IF pc[c] = "Credit" THEN Ev(c).amount ELSE 0

Held == [c \in Consumers |-> Carried(c)]

\* Coins that can be spent or are on their way to a receiver.
Total == SumFunction(balance) + SumFunction(Held)

\* What every purchase in the topic has cost its user so far.
Purchases == {o \in 1 .. Len(log) : log[o].type = "purchase"}
Prices == [o \in Purchases |-> debits[o] * Due(log[o])]

\* Coins registration gave, less the price of every purchase that was settled.
InPlay == Cardinality(Users) * InitialBalance - SumFunction(Prices)

\* No interleaving of consumers, refused debits, failed calls and crashes makes
\* a coin: balances and coins in transit never exceed what registration gave
\* and no purchase has taken.
NoMoneyCreated == Total <= InPlay

\* As long as the coins in play fit an int32 together, the credit of a transfer
\* whose debit is committed cannot be refused: no one is charged for nothing
\* because the receiver's balance would overflow.
CreditFits ==
    InPlay <= MaxInt =>
        \A c \in Consumers :
            pc[c] = "Credit" => MayChange(Ev(c).related, Ev(c).amount)

Idle == \A c \in Consumers : pc[c] = "ReadMessage"

\* Every receiver has the coins its sender was charged.
AllArrived ==
    \A o \in 1 .. Len(log) : log[o].type = "transfer" => credits[o] = debits[o]

\* The transactions table and the users table tell the same story whenever no
\* record is being worked on, unless a call has failed or a receiver was at the
\* limit of the column: the sum of a user's rows is the user's balance.
LedgerAgrees ==
    Idle /\ faults = 0 /\ AllArrived => \A u \in Users : LedgerBalance(u) = balance[u]

\* The offsets that back a row: the record's debit, and for a transfer, whose
\* rows are written last, its credit too.
Backing(r) ==
    {o \in 1 .. Len(log) :
        /\ debits[o] = 1
        /\ log[o].type = "transfer" => credits[o] = 1
        /\ r = UserRow(log[o])}

ReceiverBacking(r) ==
    {o \in 1 .. Len(log) :
        /\ log[o].type = "transfer" /\ credits[o] = 1
        /\ r = ReceiverRow(log[o])}

\* History shows only what happened to balances: there are never more rows of
\* some contents than records that moved these coins, and the sender's row of a
\* transfer is not written before the receiver has the coins.
RowsBacked ==
    \A e \in Events :
        /\ rows[UserRow(e)] <=
               Cardinality(Backing(UserRow(e)))
                   + Cardinality(ReceiverBacking(UserRow(e)))
        /\ e \in Transfers =>
               rows[ReceiverRow(e)] <=
                   Cardinality(Backing(ReceiverRow(e)))
                       + Cardinality(ReceiverBacking(ReceiverRow(e)))

\* What the endpoint's description says: a user's history can be read.
HistoryAnswered == \A u \in Users : HistoryScans(u)

Concluded(o) == o \notin unread /\ \A c \in Consumers : cur[c] # o

\* A record that reached the topic is read and its work ends, with whatever
\* outcome: no refusal or failure makes a consumer hold on to a record.
RecordsConclude == \A o \in Offsets : o \in unread ~> Concluded(o)

\* If no call fails and the coins in play fit an int32, a transfer is settled
\* whole or not at all: nobody is charged for coins that never arrive.
TransfersWhole ==
    \A o \in Offsets :
        (o \in unread /\ log[o].type = "transfer" /\ InPlay <= MaxInt)
            ~> (Concluded(o) /\ credits[o] = debits[o]) \/ faults > 0

\* Settlement implements the wallets: the users table is the wallets, and the
\* coins between the two ChangeBalance calls are held by the consumer.
W == INSTANCE Wallets WITH Workers <- Consumers, wallet <- balance,
                           held <- Held

ImplementsWallets == W!Spec
=============================================================================
