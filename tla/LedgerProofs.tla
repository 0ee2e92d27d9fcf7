---------------------------- MODULE LedgerProofs ----------------------------
(***************************************************************************)
(* Theorems about the money Settlement moves: sums over the users, the     *)
(* consumers and the records, for any number of each.  The invariant of    *)
(* SettlementProofs supplies what is known of one record; the lemmas of    *)
(* Sums say what a sum does when one of its terms changes.                 *)
(***************************************************************************)
EXTENDS SettlementProofs, Sums

\* The three sums NoMoneyCreated compares: coins in wallets, coins consumers
\* carry, coins spent on purchases.
Coins == SumFunction(balance)
InHand == SumFunction(Held)
Spent == SumFunction(Prices)

Given == Cardinality(Users) * InitialBalance

\* Unfolded once and for all.
LEMMA MoneyParts ==
    /\ NoMoneyCreated <=> Coins + InHand <= Given - Spent
    /\ NoMoneyCreated' <=> Coins' + InHand' <= Given - Spent'
    /\ InPlay = Given - Spent
  BY DEF NoMoneyCreated, Total, InPlay, Coins, InHand, Spent, Given

\* What is summed are numbers of coins, over finite sets.
LEMMA Summands ==
    ASSUME Inv
    PROVE  /\ IsFiniteSet(Users) /\ balance \in [Users -> Nat]
           /\ IsFiniteSet(Consumers) /\ Held \in [Consumers -> Nat]
           /\ IsFiniteSet(Purchases) /\ Prices \in [Purchases -> Nat]
           /\ Purchases \subseteq Offsets
  <1>1. IsFiniteSet(Users) /\ IsFiniteSet(Consumers) /\ balance \in [Users -> Nat]
    BY SettlementAssumption DEF Inv, TypeOK
  <1>2. Held \in [Consumers -> Nat]
    <2>1. ASSUME NEW c \in Consumers PROVE Carried(c) \in Nat
      BY EventFacts, SettlementAssumption DEF Carried, Inv, StageFacts, Transfers
    <2> QED
      BY <2>1 DEF Held
  <1>3. Len(log) \in Nat /\ log \in Seq(Events) /\ Len(log) <= MaxLog
    BY DEF Inv, TypeOK
  <1>4. IsFiniteSet(Purchases) /\ Purchases \subseteq Offsets
    <2>1. IsFiniteSet(1 .. Len(log)) /\ Purchases \subseteq 1 .. Len(log)
      BY <1>3, FS_Interval DEF Purchases
    <2>2. Purchases \subseteq Offsets
      BY <1>3, <2>1, SettlementAssumption DEF Offsets
    <2> QED
      BY <2>1, <2>2, FS_Subset
  <1>5. Prices \in [Purchases -> Nat]
    <2> SUFFICES ASSUME NEW o \in Purchases PROVE debits[o] * Due(log[o]) \in Nat
      BY DEF Prices
    <2>1. debits[o] \in Nat
      BY <1>4 DEF Inv, TypeOK
    <2>2. log[o] \in Events
      BY <1>3 DEF Purchases
    <2>3. Due(log[o]) \in Nat
      BY <2>2, EventFacts, SettlementAssumption
    <2> QED
      BY <2>1, <2>3
  <1> QED
    BY <1>1, <1>2, <1>4, <1>5

\* and the sums are numbers of coins too.
LEMMA SumTypes ==
    ASSUME Inv
    PROVE  Coins \in Nat /\ InHand \in Nat /\ Spent \in Nat /\ Given \in Int
  <1>1. Coins \in Nat /\ InHand \in Nat /\ Spent \in Nat
    BY Summands, SumBounds DEF Coins, InHand, Spent
  <1>2. Cardinality(Users) \in Nat /\ InitialBalance \in Int
    BY FS_CardinalityType, SettlementAssumption
  <1> QED
    BY <1>1, <1>2 DEF Given

\* One row of the users table changes by d.
LEMMA CoinsChange ==
    ASSUME Inv, NEW u \in Users, NEW d \in Int, SetBalance(u, d)
    PROVE  Coins' = Coins + d
  <1>1. /\ IsFiniteSet(Users) /\ balance \in [Users -> Int] /\ balance[u] \in Int
        /\ balance' = [balance EXCEPT ![u] = balance[u] + d]
    BY Summands DEF SetBalance
  <1>2. balance[u] + d \in Int
    BY <1>1
  <1>3. Coins' = Coins - balance[u] + (balance[u] + d)
    BY <1>1, <1>2, SumUpdate DEF Coins
  <1> QED
    BY <1>1, <1>3, SumTypes

\* A consumer that moves on carries what its new call is about, and nothing else.
LEMMA InHandChange ==
    ASSUME Inv, NEW c \in Consumers, NEW step \in Steps, Goto(c, step), UNCHANGED topic,
           step = "Credit" => Ev(c) \in Transfers
    PROVE  InHand' = InHand - Carried(c) + (IF step = "Credit" THEN Ev(c).amount ELSE 0)
  <1> DEFINE v == IF step = "Credit" THEN Ev(c).amount ELSE 0
  <1>1. v \in Int
    BY EventFacts, SettlementAssumption DEF Transfers
  <1>2. Held' = [Held EXCEPT ![c] = v]
    BY GotoHeld
  <1>3. IsFiniteSet(Consumers) /\ Held \in [Consumers -> Int] /\ Held[c] = Carried(c)
    BY Summands DEF Held
  <1> HIDE DEF v
  <1>4. InHand' = InHand - Held[c] + v
    BY <1>1, <1>2, <1>3, SumUpdate DEF InHand
  <1> QED
    BY <1>3, <1>4 DEF v

\* Without a debit or a new record nothing is spent.
LEMMA NothingSpent == ASSUME UNCHANGED <<log, debits>> PROVE Spent' = Spent
  BY DEF Spent, Prices, Purchases, Due

\* A new record has cost nothing yet.
LEMMA PublishSpends ==
    ASSUME Inv, NEW e \in Events, Publish(e)
    PROVE  Spent' = Spent
  <1> DEFINE n == Len(log) + 1
  <1>1. /\ Len(log) \in Nat /\ Len(log') = n /\ n \in Offsets /\ log'[n] = e
        /\ \A o \in 1 .. Len(log) : log'[o] = log[o]
        /\ debits' = debits
    BY SettlementAssumption DEF Inv, TypeOK, Publish, Offsets, database
  <1>2. 1 .. n = (1 .. Len(log)) \cup {n} /\ n \notin 1 .. Len(log)
    BY <1>1
  <1>3. debits'[n] = 0
    BY <1>1, SettlementAssumption DEF Inv, UnreadUntouched, Offsets
  <1>4. ASSUME NEW o \in Purchases
        PROVE  o \in 1 .. Len(log) /\ debits'[o] * Due(log'[o]) = debits[o] * Due(log[o])
    BY <1>1 DEF Purchases
  <1>5. CASE e.type = "purchase"
    <2>1. Purchases' = Purchases \cup {n} /\ n \notin Purchases
      BY <1>1, <1>2, <1>5 DEF Purchases
    <2>2. Prices'[n] = 0
      <3>1. Prices'[n] = debits'[n] * Due(log'[n])
        BY <2>1 DEF Prices, Due
      <3>2. Due(log'[n]) \in Int
        BY <1>1, EventFacts, SettlementAssumption
      <3> QED
        BY <1>3, <3>1, <3>2
    <2>3. \A o \in Purchases : Prices'[o] = Prices[o]
      BY <1>4, <2>1 DEF Prices, Due
    <2>4. Prices' \in [Purchases \cup {n} -> Int]
      <3>1. Prices' = [o \in Purchases \cup {n} |-> Prices'[o]]
        BY <2>1 DEF Prices
      <3>2. \A o \in Purchases \cup {n} : Prices'[o] \in Int
        BY <2>2, <2>3, Summands
      <3> QED
        BY <3>1, <3>2
    <2>5. IsFiniteSet(Purchases) /\ Prices \in [Purchases -> Int]
      BY Summands
    <2>6. SumFunction(Prices') = SumFunction(Prices) + Prices'[n]
      <3>1. PICK g : g = Prices'
        OBVIOUS
      <3> HIDE DEF n
      <3> QED
        BY <2>1, <2>3, <2>4, <2>5, <3>1, SumExtend
    <2> QED
      BY <2>2, <2>6, SumTypes DEF Spent
  <1>6. CASE e.type # "purchase"
    <2>1. Purchases' = Purchases
      BY <1>1, <1>2, <1>6 DEF Purchases
    <2>2. Prices' = Prices
      BY <1>4, <2>1 DEF Prices, Due
    <2> QED
      BY <2>2 DEF Spent
  <1> QED
    BY <1>5, <1>6

\* The debit of a purchase spends its price, that of a transfer nothing.
LEMMA DebitSpends ==
    ASSUME Inv, NEW c \in Consumers, pc[c] = "Debit", log' = log,
           debits' = [debits EXCEPT ![cur[c]] = @ + 1]
    PROVE  Spent' = Spent + (IF Ev(c).type = "purchase" THEN Due(Ev(c)) ELSE 0)
  <1> DEFINE o == cur[c]
  <1>1. /\ o \in 1 .. Len(log) /\ o \in Offsets /\ Ev(c) = log[o]
        /\ Due(log[o]) \in Nat /\ debits[o] = 0
    BY CurrentEvent, EventFacts, SettlementAssumption DEF Inv, Busy, StageFacts, Ev
  <1>2. /\ debits \in [Offsets -> Nat] /\ debits'[o] = 1 /\ Purchases' = Purchases
        /\ \A p \in Offsets \ {o} : debits'[p] = debits[p]
    BY <1>1 DEF Inv, TypeOK, Purchases
  <1>3. \A p \in Purchases \ {o} : debits'[p] * Due(log'[p]) = debits[p] * Due(log[p])
    BY <1>2, Summands
  <1>4. CASE Ev(c).type = "purchase"
    <2>1. o \in Purchases /\ Prices[o] = 0
      BY <1>1, <1>4 DEF Purchases, Prices
    <2>2. debits'[o] * Due(log'[o]) = Due(log[o])
      BY <1>1, <1>2
    <2>3. Prices' = [Prices EXCEPT ![o] = Due(log[o])]
      BY <1>2, <1>3, <2>1, <2>2 DEF Prices, Due
    <2>4. IsFiniteSet(Purchases) /\ Prices \in [Purchases -> Int] /\ Due(log[o]) \in Int
      BY <1>1, Summands
    <2>5. SumFunction(Prices') = SumFunction(Prices) - Prices[o] + Due(log[o])
      <3>1. PICK d : d = Due(log[o])
        OBVIOUS
      <3> HIDE DEF o
      <3> QED
        BY <2>1, <2>3, <2>4, <3>1, SumUpdate
    <2> QED
      BY <1>1, <1>4, <2>1, <2>5, SumTypes DEF Spent
  <1>5. CASE Ev(c).type # "purchase"
    <2>1. o \notin Purchases
      BY <1>1, <1>5 DEF Purchases
    <2>2. Prices' = Prices
      BY <1>2, <1>3, <2>1 DEF Prices, Due
    <2> QED
      BY <1>5, <2>2, SumTypes DEF Spent
  <1> QED
    BY <1>4, <1>5

-----------------------------------------------------------------------------
(* No coin is made                                                         *)

\* A step that moves no money and does not drop a transfer's coins.
LEMMA QuietCoins ==
    ASSUME Inv, NoMoneyCreated, UNCHANGED <<balance, Held, log, debits>>
    PROVE  NoMoneyCreated'
  BY NothingSpent, MoneyParts DEF Coins, InHand, Given

\* The coins of a debit are spent, carried on, or gone with the answer.
LEMMA DebitCoins ==
    ASSUME Inv, NoMoneyCreated, NEW c \in Consumers, Debit(c)
    PROVE  NoMoneyCreated'
  <1> DEFINE e == Ev(c)
  <1>1. /\ e \in Events /\ e.user \in Users /\ Due(e) \in 1 .. MaxInt
        /\ e.type = "transfer" => e \in Transfers /\ Due(e) = e.amount
        /\ pc[c] = "Debit" /\ UNCHANGED topic /\ log' = log
    BY CurrentEvent, EventFacts DEF Debit, Busy, Inv, topic
  <1>2. /\ Coins \in Nat /\ InHand \in Nat /\ Spent \in Nat /\ Given \in Int
        /\ Coins + InHand <= Given - Spent /\ Carried(c) = 0
        /\ Due(e) \in Nat
    BY <1>1, SumTypes, MoneyParts, SettlementAssumption DEF Carried
  <1>3. CASE MayChange(e.user, -Due(e))
    <2>1. Coins' = Coins - Due(e)
      <3>1. Coins' = Coins + (-Due(e))
        BY <1>1, <1>2, <1>3, CoinsChange DEF Debit
      <3> QED
        BY <1>2, <3>1
    <2>2. Spent' = Spent + (IF e.type = "purchase" THEN Due(e) ELSE 0)
      BY <1>1, <1>3, DebitSpends DEF Debit
    <2>3. CASE Goto(c, "Credit") /\ e.type = "transfer"
      <3>1. InHand' = InHand - Carried(c) + Due(e)
        BY <1>1, <2>3, InHandChange DEF Steps
      <3> QED
        BY <1>2, <2>1, <2>2, <2>3, <3>1, MoneyParts
    <2>4. CASE Goto(c, "ReadMessage") \/ Goto(c, "CreateRow")
      <3>1. InHand' = InHand - Carried(c) + 0
        BY <1>1, <2>4, InHandChange DEF Steps
      <3>2. Spent' \in Nat /\ Spent' <= Spent + Due(e)
        BY <1>2, <2>2
      <3> QED
        BY <1>2, <2>1, <3>1, <3>2, MoneyParts
    <2> QED
      BY <1>3, <2>3, <2>4 DEF Debit, AfterCommit, AfterDebit, Skip
  <1>4. CASE ~MayChange(e.user, -Due(e))
    <2>1. UNCHANGED <<balance, Held>>
      BY <1>1, <1>4, QuietRefines DEF Debit, Skip, Steps
    <2> QED
      BY <1>1, <1>4, <2>1, QuietCoins DEF Debit
  <1> QED
    BY <1>3, <1>4

\* The receiver is given what the consumer carried, or it is lost.
LEMMA CreditCoins ==
    ASSUME Inv, NoMoneyCreated, NEW c \in Consumers, pc[c] = "Credit",
           NEW step \in Steps \ {"Credit"}, Goto(c, step), UNCHANGED <<topic, debits>>,
           \/ UNCHANGED balance
           \/ SetBalance(Ev(c).related, Ev(c).amount)
    PROVE  NoMoneyCreated'
  <1> DEFINE e == Ev(c)
  <1>1. e.related \in Users /\ e.amount \in Nat /\ Carried(c) = e.amount
    BY EventFacts, SettlementAssumption DEF Inv, StageFacts, Transfers, Carried
  <1>2. /\ Coins \in Nat /\ InHand \in Nat /\ Spent \in Nat /\ Given \in Int
        /\ Coins + InHand <= Given - Spent
    BY SumTypes, MoneyParts
  <1>3. InHand' = InHand - e.amount + 0
    BY <1>1, InHandChange
  <1>4. Spent' = Spent
    BY NothingSpent DEF topic
  <1>5. Coins' = Coins \/ Coins' = Coins + e.amount
    BY <1>1, CoinsChange DEF Coins
  <1> QED
    BY <1>1, <1>2, <1>3, <1>4, <1>5, MoneyParts

\* Registration gives every user the same.
LEMMA InitCoins == Init => NoMoneyCreated
  <1> SUFFICES ASSUME Init PROVE Coins + InHand <= Given - Spent
    BY MoneyParts
  <1>1. IsFiniteSet(Users) /\ IsFiniteSet(Consumers) /\ InitialBalance \in Int
    BY SettlementAssumption
  <1>2. Coins = Given
    BY <1>1, SumConstant DEF Init, Coins, Given
  <1>3. InHand = 0
    <2>1. Held = [c \in Consumers |-> 0]
      BY DEF Init, Held, Carried
    <2> QED
      BY <1>1, <2>1, SumZeros DEF InHand
  <1>4. Spent = 0
    <2>1. Purchases = {} /\ Prices = [o \in {} |-> 0]
      BY DEF Init, Purchases, Prices
    <2> QED
      BY <2>1, FS_EmptySet, SumZeros DEF Spent
  <1> QED
    BY <1>1, <1>2, <1>3, <1>4, FS_CardinalityType DEF Given

\* Every step keeps it.
LEMMA NextCoins == Inv /\ NoMoneyCreated /\ [Next]_vars => NoMoneyCreated'
  <1> SUFFICES ASSUME Inv, NoMoneyCreated, [Next]_vars PROVE NoMoneyCreated'
    OBVIOUS
  <1>1. CASE \E e \in Events : Publish(e)
    <2>1. UNCHANGED <<balance, Held>>
      BY <1>1, TopicRefines
    <2>2. Spent' = Spent
      BY <1>1, PublishSpends
    <2> QED
      BY <2>1, <2>2, MoneyParts DEF Coins, InHand, Given
  <1>2. CASE UNCHANGED vars
    BY <1>2, TopicRefines, QuietCoins DEF vars
  <1>3. ASSUME NEW c \in Consumers, Body(c) \/ ReadMessageFails(c) \/ Abandon(c)
        PROVE  NoMoneyCreated'
    <2>1. CASE ReadMessage(c) \/ ReadMessageFails(c)
      BY <2>1, TopicRefines, QuietCoins DEF ReadMessage, ReadMessageFails, database
    <2>2. CASE Debit(c)
      BY <2>2, DebitCoins
    <2>3. CASE Credit(c)
      <3>1. PICK step \in {"ReadMessage", "CreateRow"} : Goto(c, step)
        BY <2>3 DEF Credit, AfterCommit, Skip
      <3> QED
        BY <2>3, <3>1, CreditCoins DEF Credit, Steps
    <2>4. CASE CheckFunds(c) \/ CreateRow(c) \/ CreateReceiverRow(c)
      <3>1. PICK step \in Steps \ {"Credit"} : Goto(c, step)
        BY <2>4 DEF CheckFunds, CreateRow, CreateReceiverRow, AfterCommit, AfterRow, Skip, Steps
      <3>2. /\ pc[c] # "Credit" /\ UNCHANGED <<topic, balance, debits>>
        BY <2>4 DEF CheckFunds, CreateRow, CreateReceiverRow, database
      <3> QED
        BY <3>1, <3>2, QuietRefines, QuietCoins DEF topic
    <2>5. CASE Abandon(c)
      <3>1. Goto(c, "ReadMessage") /\ UNCHANGED <<topic, balance, debits>>
        BY <2>5 DEF Abandon, Skip, database
      <3>2. CASE pc[c] = "Credit"
        BY <3>1, <3>2, CreditCoins DEF Steps
      <3>3. CASE pc[c] # "Credit"
        BY <3>1, <3>3, QuietRefines, QuietCoins DEF topic, Steps
      <3> QED
        BY <3>2, <3>3
    <2> QED
      BY <1>3, <2>1, <2>2, <2>3, <2>4, <2>5 DEF Body
  <1> QED
    BY <1>1, <1>2, <1>3 DEF Next

\* Whatever the consumers, the failures and the crashes do, balances and coins in
\* transit never exceed what registration gave and no settled purchase took.
THEOREM MoneyIsNotCreated == Spec => []NoMoneyCreated
  BY InitCoins, NextCoins, Invariance, PTL DEF Spec

-----------------------------------------------------------------------------
(* A committed debit is always followed by its credit                      *)

\* Below its width, integer arithmetic is exact.
LEMMA Int32Exact == ASSUME NEW x \in 0 .. MaxInt PROVE Int32(x) = x
  <1> DEFINE m == 2 * (MaxInt + 1)
             y == x + MaxInt + 1
  <1>1. MaxInt \in Nat /\ x \in Nat /\ x <= MaxInt
    BY SettlementAssumption
  <1>2. y \in Nat /\ m \in Nat \ {0} /\ y < m
    BY <1>1
  <1>3. \A a, b : a \in Nat /\ b \in Nat \ {0} /\ a < b => a % b = a
    OBVIOUS
  <1>4. y % m = y
    <2> HIDE DEF y, m
    <2> QED
      BY <1>2, <1>3
  <1> QED
    BY <1>1, <1>4 DEF Int32

\* The receiver's balance and the coins carried to it are two parts of the coins
\* in play.
LEMMA FitsIfFew == Inv /\ NoMoneyCreated => CreditFits
  <1> SUFFICES ASSUME Inv, NoMoneyCreated, InPlay <= MaxInt,
                      NEW c \in Consumers, pc[c] = "Credit"
               PROVE  MayChange(Ev(c).related, Ev(c).amount)
    BY DEF CreditFits
  <1> DEFINE u == Ev(c).related
             a == Ev(c).amount
  <1>1. u \in Users /\ a \in Nat /\ Held[c] = a
    BY EventFacts, SettlementAssumption DEF Inv, StageFacts, Transfers, Held, Carried
  <1>2. balance[u] \in Nat /\ balance[u] <= Coins
    BY <1>1, Summands, SumBounds DEF Coins
  <1>3. a <= InHand
    BY <1>1, Summands, SumBounds DEF InHand
  <1>4. Coins \in Nat /\ InHand \in Nat /\ Spent \in Nat /\ Given \in Int
    BY SumTypes
  <1>5. Coins + InHand <= MaxInt /\ MaxInt \in Int
    BY <1>4, MoneyParts, SettlementAssumption
  <1>6. balance[u] + a \in 0 .. MaxInt
    <2> HIDE DEF u, a
    <2> QED
      BY <1>1, <1>2, <1>3, <1>4, <1>5
  <1>7. Int32(balance[u] + a) >= 0
    <2> HIDE DEF u, a
    <2> QED
      BY <1>1, <1>2, <1>6, Int32Exact
  <1> QED
    BY <1>6, <1>7 DEF MayChange

\* While the coins in play fit an int32, no credit is refused: nobody is charged
\* for a transfer because its receiver's balance would overflow.
THEOREM CreditsAreNotRefused == Spec => []CreditFits
  BY FitsIfFew, MoneyIsNotCreated, Invariance, PTL

-----------------------------------------------------------------------------
(* The rows tell what happened                                             *)

At(c, step, o) == pc[c] = step /\ cur[c] = o

\* What is settled when a consumer comes to write the rows.
RowStages ==
    \A c \in Consumers :
        /\ pc[c] = "CreateRow" =>
               /\ debits[cur[c]] = 1
               /\ Ev(c).type = "transfer" => credits[cur[c]] = 1
        /\ pc[c] = "CreateReceiverRow" => Ev(c) \in Transfers /\ credits[cur[c]] = 1

\* The records whose row has been written, as far as anybody will ever know: they
\* back it, and no consumer is about to write it.
Written(r) == {o \in Backing(r) : \A c \in Consumers : ~At(c, "CreateRow", o)}

ReceiverWritten(r) ==
    {o \in ReceiverBacking(r) :
        \A c \in Consumers : ~At(c, "CreateRow", o) /\ ~At(c, "CreateReceiverRow", o)}

\* RowsBacked is not inductive: a row is written some calls after its debit, and
\* what backs it must still be free by then.
RowsFromRecords ==
    \A e \in Events :
        /\ rows[UserRow(e)] <= Cardinality(Written(UserRow(e)))
        /\ e \in Transfers =>
               rows[ReceiverRow(e)] <= Cardinality(ReceiverWritten(ReceiverRow(e)))

\* What a step of consumer c leaves alone: the topic's records, the other
\* consumers, and what is settled for any record but its own.
LEMMA StepOfOne ==
    ASSUME Inv, NEW c \in Consumers, Body(c) \/ ReadMessageFails(c) \/ Abandon(c)
    PROVE  /\ log' = log
           /\ \A d \in Consumers \ {c} : pc'[d] = pc[d] /\ cur'[d] = cur[d]
           /\ \A o \in Offsets : (Busy(c) => o # cur[c]) =>
                  debits'[o] = debits[o] /\ credits'[o] = credits[o]
           /\ pc'[c] \in {"ReadMessage", "GetBalance"} \/ (Busy(c) /\ cur'[c] = cur[c])
  <1> USE DEF Inv, TypeOK, Busy, topic, database
  <1>1. CASE ReadMessage(c) \/ ReadMessageFails(c)
    BY <1>1 DEF ReadMessage, ReadMessageFails
  <1>2. CASE Abandon(c) \/ CheckFunds(c) \/ CreateRow(c) \/ CreateReceiverRow(c)
    BY <1>2 DEF Abandon, CheckFunds, CreateRow, CreateReceiverRow, AfterCommit, Skip, Goto
  <1>3. CASE Debit(c)
    BY <1>3 DEF Debit, AfterCommit, Skip, Goto
  <1>4. CASE Credit(c)
    BY <1>4 DEF Credit, AfterCommit, Skip, Goto
  <1> QED
    BY <1>1, <1>2, <1>3, <1>4 DEF Body

\* Who comes to write a row, and from where.
LEMMA ComesToWrite ==
    ASSUME Inv, NEW c \in Consumers, Body(c) \/ ReadMessageFails(c) \/ Abandon(c)
    PROVE  /\ pc'[c] = "CreateRow" =>
                  \/ /\ Debit(c) /\ debits' = [debits EXCEPT ![cur[c]] = @ + 1]
                     /\ Ev(c).type # "transfer"
                  \/ /\ Credit(c) /\ credits' = [credits EXCEPT ![cur[c]] = @ + 1]
                     /\ debits' = debits
           /\ pc'[c] = "CreateReceiverRow" =>
                  CreateRow(c) /\ Ev(c).type = "transfer" /\ UNCHANGED <<debits, credits>>
  <1> USE DEF Inv, TypeOK, database
  <1>1. CASE ReadMessage(c) \/ ReadMessageFails(c)
    BY <1>1 DEF ReadMessage, ReadMessageFails
  <1>2. CASE Abandon(c) \/ CheckFunds(c) \/ CreateRow(c) \/ CreateReceiverRow(c)
    BY <1>2 DEF Abandon, CheckFunds, CreateRow, CreateReceiverRow, AfterCommit, AfterRow, Skip, Goto
  <1>3. CASE Debit(c)
    BY <1>3 DEF Debit, AfterCommit, AfterDebit, Skip, Goto
  <1>4. CASE Credit(c)
    BY <1>4 DEF Credit, AfterCommit, Skip, Goto
  <1> QED
    BY <1>1, <1>2, <1>3, <1>4 DEF Body

\* Rows are written of settled records only.
LEMMA RowStagesKept ==
    ASSUME Inv, RowStages, NEW c \in Consumers, Body(c) \/ ReadMessageFails(c) \/ Abandon(c)
    PROVE  RowStages'
  <1>1. /\ log' = log
        /\ \A d \in Consumers \ {c} : pc'[d] = pc[d] /\ cur'[d] = cur[d]
        /\ \A o \in Offsets : (Busy(c) => o # cur[c]) =>
               debits'[o] = debits[o] /\ credits'[o] = credits[o]
        /\ pc'[c] \in {"ReadMessage", "GetBalance"} \/ (Busy(c) /\ cur'[c] = cur[c])
    BY StepOfOne
  <1>2. ASSUME NEW d \in Consumers \ {c}, pc'[d] \in {"CreateRow", "CreateReceiverRow"}
        PROVE  /\ pc'[d] = pc[d] /\ cur'[d] = cur[d] /\ Ev(d)' = Ev(d)
               /\ debits'[cur[d]] = debits[cur[d]] /\ credits'[cur[d]] = credits[cur[d]]
    <2>1. Busy(d) /\ cur[d] \in Offsets
      BY <1>1, <1>2, CurrentEvent DEF Busy, Inv
    <2>2. Busy(c) => cur[d] # cur[c]
      BY <2>1 DEF Inv, OneReader
    <2> QED
      BY <1>1, <1>2, <2>1, <2>2 DEF Ev
  <1>3. pc'[c] = "CreateRow" =>
            /\ debits'[cur'[c]] = 1
            /\ Ev(c)'.type = "transfer" => credits'[cur'[c]] = 1
    <2> SUFFICES ASSUME pc'[c] = "CreateRow"
                 PROVE  /\ debits'[cur[c]] = 1
                        /\ Ev(c).type = "transfer" => credits'[cur[c]] = 1
      BY <1>1 DEF Ev
    <2>1. cur[c] \in Offsets
      BY <1>1, CurrentEvent DEF Inv
    <2>2. CASE Debit(c)
      BY <2>1, <2>2, ComesToWrite DEF Inv, StageFacts, TypeOK, Debit, Credit
    <2>3. CASE Credit(c)
      BY <2>1, <2>3, ComesToWrite DEF Inv, StageFacts, TypeOK, Debit, Credit
    <2> QED
      BY <2>2, <2>3, ComesToWrite
  <1>4. pc'[c] = "CreateReceiverRow" => Ev(c)' \in Transfers /\ credits'[cur'[c]] = 1
    <2> SUFFICES ASSUME pc'[c] = "CreateReceiverRow"
                 PROVE  Ev(c) \in Transfers /\ credits'[cur[c]] = 1
      BY <1>1 DEF Ev
    <2> QED
      BY ComesToWrite, CurrentEvent, EventFacts DEF RowStages, CreateRow, Inv, Busy
  <1> QED
    BY <1>2, <1>3, <1>4 DEF RowStages

\* Once a record backs a row and nobody is about to write it, this remains so: what
\* is settled stays settled, and the record is read by nobody else.
LEMMA WrittenStays ==
    ASSUME Inv, NEW c \in Consumers, Body(c) \/ ReadMessageFails(c) \/ Abandon(c), NEW r
    PROVE  Written(r) \subseteq Written(r)' /\ ReceiverWritten(r) \subseteq ReceiverWritten(r)'
  <1>1. /\ log' = log
        /\ \A d \in Consumers \ {c} : pc'[d] = pc[d] /\ cur'[d] = cur[d]
        /\ \A o \in Offsets : (Busy(c) => o # cur[c]) =>
               debits'[o] = debits[o] /\ credits'[o] = credits[o]
        /\ pc'[c] \in {"ReadMessage", "GetBalance"} \/ (Busy(c) /\ cur'[c] = cur[c])
    BY StepOfOne
  <1>2. ASSUME NEW o \in Written(r) PROVE o \in Written(r)'
    <2>1. /\ o \in 1 .. Len(log) /\ o \in Offsets /\ debits[o] = 1 /\ r = UserRow(log[o])
          /\ log[o].type = "transfer" => credits[o] = 1
          /\ \A d \in Consumers : ~At(d, "CreateRow", o)
      BY SettlementAssumption DEF Written, Backing, Inv, TypeOK, Offsets
    <2>2. /\ debits'[o] = 1
          /\ log'[o].type = "transfer" => credits'[o] = 1
          /\ ~At(c, "CreateRow", o)'
      <3>1. CASE Busy(c) => o # cur[c]
        BY <1>1, <2>1, <3>1 DEF At
      <3>2. CASE Busy(c) /\ o = cur[c]
        <4>1. pc[c] = "CreateReceiverRow"
          BY <2>1, <3>2, CurrentEvent DEF Inv, TypeOK, StageFacts, Steps, Busy, Ev, At, Transfers
        <4>2. CreateReceiverRow(c) \/ Abandon(c)
          BY <4>1 DEF Body, ReadMessage, ReadMessageFails, CheckFunds, Debit, Credit, CreateRow
        <4> QED
          BY <1>1, <2>1, <4>1, <4>2
             DEF CreateReceiverRow, Abandon, AfterCommit, Skip, Goto, database, At, Inv, TypeOK
      <3> QED
        BY <3>1, <3>2
    <2>3. \A d \in Consumers : ~At(d, "CreateRow", o)'
      BY <1>1, <2>1, <2>2 DEF At
    <2> QED
      <3>1. o \in Backing(r)'
        BY <1>1, <2>1, <2>2 DEF Backing
      <3> QED
        BY <2>3, <3>1 DEF Written
  <1>3. ASSUME NEW o \in ReceiverWritten(r) PROVE o \in ReceiverWritten(r)'
    <2>1. /\ o \in 1 .. Len(log) /\ o \in Offsets /\ credits[o] = 1 /\ r = ReceiverRow(log[o])
          /\ log[o].type = "transfer"
          /\ \A d \in Consumers : ~At(d, "CreateRow", o) /\ ~At(d, "CreateReceiverRow", o)
      BY SettlementAssumption DEF ReceiverWritten, ReceiverBacking, Inv, TypeOK, Offsets
    <2>2. Busy(c) => o # cur[c]
      <3> SUFFICES ASSUME Busy(c), o = cur[c] PROVE FALSE
        OBVIOUS
      <3>1. pc[c] \in {"GetBalance", "Debit", "Credit"}
        BY <2>1 DEF Inv, TypeOK, Steps, Busy, At
      <3> QED
        BY <2>1, <3>1 DEF Inv, StageFacts
    <2>3. credits'[o] = 1 /\ ~At(c, "CreateRow", o)' /\ ~At(c, "CreateReceiverRow", o)'
      BY <1>1, <2>1, <2>2 DEF At
    <2>4. \A d \in Consumers : ~At(d, "CreateRow", o)' /\ ~At(d, "CreateReceiverRow", o)'
      BY <1>1, <2>1, <2>3 DEF At
    <2> QED
      BY <1>1, <2>1, <2>3, <2>4 DEF ReceiverWritten, ReceiverBacking, ReceiverRow
  <1> QED
    BY <1>2, <1>3

\* The same for a new record.
LEMMA PublishedWritten ==
    ASSUME Inv, NEW e \in Events, Publish(e), NEW r
    PROVE  Written(r) \subseteq Written(r)' /\ ReceiverWritten(r) \subseteq ReceiverWritten(r)'
  <1>1. /\ \A o \in 1 .. Len(log) : o \in 1 .. Len(log') /\ log'[o] = log[o]
        /\ UNCHANGED <<pc, cur, debits, credits>>
    BY DEF Inv, TypeOK, Publish, database
  <1>2. ASSUME NEW o \in Written(r) PROVE o \in Written(r)'
    BY <1>1 DEF Written, Backing, UserRow, Due, At
  <1>3. ASSUME NEW o \in ReceiverWritten(r) PROVE o \in ReceiverWritten(r)'
    BY <1>1 DEF ReceiverWritten, ReceiverBacking, ReceiverRow, At
  <1> QED
    BY <1>2, <1>3

\* There are finitely many records.
LEMMA WrittenFinite ==
    ASSUME Inv, NEW r
    PROVE  /\ IsFiniteSet(Backing(r)) /\ IsFiniteSet(ReceiverBacking(r))
           /\ IsFiniteSet(Written(r)) /\ IsFiniteSet(ReceiverWritten(r))
           /\ Cardinality(Written(r)) \in Nat /\ Cardinality(ReceiverWritten(r)) \in Nat
  <1>1. IsFiniteSet(1 .. Len(log))
    BY FS_Interval DEF Inv, TypeOK
  <1>2. /\ Backing(r) \subseteq 1 .. Len(log) /\ ReceiverBacking(r) \subseteq 1 .. Len(log)
        /\ Written(r) \subseteq 1 .. Len(log) /\ ReceiverWritten(r) \subseteq 1 .. Len(log)
    BY DEF Backing, ReceiverBacking, Written, ReceiverWritten
  <1> QED
    BY <1>1, <1>2, FS_Subset, FS_CardinalityType

\* After a step as before it.
LEMMA WrittenFiniteNext ==
    ASSUME Inv', NEW r
    PROVE  /\ IsFiniteSet(Written(r)') /\ IsFiniteSet(ReceiverWritten(r)')
           /\ Cardinality(Written(r)') \in Nat /\ Cardinality(ReceiverWritten(r)') \in Nat
  <1>1. IsFiniteSet(1 .. Len(log'))
    BY FS_Interval DEF Inv, TypeOK
  <1>2. Written(r)' \subseteq 1 .. Len(log') /\ ReceiverWritten(r)' \subseteq 1 .. Len(log')
    BY DEF Backing, ReceiverBacking, Written, ReceiverWritten
  <1> QED
    BY <1>1, <1>2, FS_Subset, FS_CardinalityType

\* The two rows of an event are rows of the table, and different ones: one takes
\* coins, the other gives some.
LEMMA RowFacts ==
    ASSUME NEW e \in Events
    PROVE  /\ UserRow(e) \in RowValues
           /\ e \in Transfers => ReceiverRow(e) \in RowValues
           /\ \A f \in Transfers : UserRow(e) # ReceiverRow(f)
  <1>1. UserRow(e).amount = -Due(e) /\ \A f \in Transfers : ReceiverRow(f).amount = f.amount
    BY DEF UserRow, ReceiverRow
  <1>2. Due(e) \in 1 .. MaxInt /\ \A f \in Transfers : f.amount \in 1 .. MaxInt
    BY EventFacts DEF Transfers
  <1>3. \A f \in Transfers : UserRow(e).amount # ReceiverRow(f).amount
    BY <1>1, <1>2, SettlementAssumption
  <1> QED
    BY <1>3 DEF RowValues

\* If no row is written, and nothing that backs one is lost, the rows are backed.
LEMMA NothingWritten ==
    ASSUME Inv, Inv', RowsFromRecords, rows' = rows,
           \A r : /\ Written(r) \subseteq Written(r)'
                  /\ ReceiverWritten(r) \subseteq ReceiverWritten(r)'
    PROVE  RowsFromRecords'
  <1>1. ASSUME NEW r
        PROVE  /\ Cardinality(Written(r)) <= Cardinality(Written(r)')
               /\ Cardinality(ReceiverWritten(r)) <= Cardinality(ReceiverWritten(r)')
               /\ Cardinality(Written(r)) \in Nat /\ Cardinality(Written(r)') \in Nat
               /\ Cardinality(ReceiverWritten(r)) \in Nat
               /\ Cardinality(ReceiverWritten(r)') \in Nat
    BY WrittenFinite, WrittenFiniteNext, FS_Subset
  <1>2. \A e \in Events : UserRow(e)' = UserRow(e) /\ ReceiverRow(e)' = ReceiverRow(e)
    BY DEF UserRow, ReceiverRow, Due
  <1> SUFFICES ASSUME NEW e \in Events
               PROVE  /\ rows'[UserRow(e)] <= Cardinality(Written(UserRow(e))')
                      /\ e \in Transfers => rows'[ReceiverRow(e)]
                             <= Cardinality(ReceiverWritten(ReceiverRow(e))')
    BY <1>2 DEF RowsFromRecords
  <1>3. rows[UserRow(e)] \in Nat /\ (e \in Transfers => rows[ReceiverRow(e)] \in Nat)
    BY RowFacts DEF Inv, TypeOK
  <1> QED
    BY <1>1, <1>3 DEF RowsFromRecords

\* The row of the user who paid: its record was not among those that back a
\* written row, and now it is.
LEMMA CreateRowBacked ==
    ASSUME Inv, Inv', RowStages, RowsFromRecords, NEW c \in Consumers, CreateRow(c)
    PROVE  RowsFromRecords'
  <1>0. PICK o, q : o = cur[c] /\ q = UserRow(Ev(c))
    OBVIOUS
  <1>1. /\ Busy(c) /\ o \in 1 .. Len(log) /\ Ev(c) \in Events /\ Ev(c) = log[o]
        /\ debits[o] = 1
        /\ log[o].type = "transfer" => credits[o] = 1
    BY <1>0, CurrentEvent DEF CreateRow, Busy, Inv, RowStages, Ev
  <1>2. /\ rows' = [rows EXCEPT ![q] = @ + 1]
        /\ UNCHANGED <<log, debits, credits>>
        /\ pc'[c] # "CreateRow" /\ \A d \in Consumers \ {c} : pc'[d] = pc[d] /\ cur'[d] = cur[d]
    BY <1>0, <1>1 DEF CreateRow, topic, AfterCommit, AfterRow, Skip, Goto, Inv, TypeOK
  <1>3. o \notin Written(q) /\ o \in Written(q)'
    <2>1. o \notin Written(q)
      BY <1>0 DEF Written, At, CreateRow
    <2>2. \A d \in Consumers : ~At(d, "CreateRow", o)'
      BY <1>0, <1>1, <1>2 DEF At, Inv, OneReader, Busy
    <2>3. o \in Backing(q)'
      BY <1>0, <1>1, <1>2 DEF Backing
    <2> QED
      BY <2>1, <2>2, <2>3 DEF Written
  <1>4. \A r : Written(r) \subseteq Written(r)' /\ ReceiverWritten(r) \subseteq ReceiverWritten(r)'
    BY WrittenStays DEF Body
  <1>5. ASSUME NEW r
        PROVE  /\ Cardinality(Written(r)) <= Cardinality(Written(r)')
               /\ Cardinality(ReceiverWritten(r)) <= Cardinality(ReceiverWritten(r)')
               /\ Cardinality(Written(r)) \in Nat /\ Cardinality(Written(r)') \in Nat
               /\ Cardinality(ReceiverWritten(r)) \in Nat
               /\ Cardinality(ReceiverWritten(r)') \in Nat
    BY <1>4, WrittenFinite, WrittenFiniteNext, FS_Subset
  <1>6. Cardinality(Written(q)) + 1 <= Cardinality(Written(q)')
    <2> DEFINE more == Written(q) \cup {o}
    <2> HIDE DEF more
    <2>1. IsFiniteSet(Written(q)) /\ IsFiniteSet(Written(q)')
      BY WrittenFinite, WrittenFiniteNext
    <2>2. Cardinality(more) = Cardinality(Written(q)) + 1
      BY <1>3, <2>1, FS_AddElement DEF more
    <2>3. more \subseteq Written(q)'
      BY <1>3, <1>4 DEF more
    <2> QED
      BY <2>1, <2>2, <2>3, FS_Subset
  <1> SUFFICES ASSUME NEW e \in Events
               PROVE  /\ rows'[UserRow(e)] <= Cardinality(Written(UserRow(e))')
                      /\ e \in Transfers => rows'[ReceiverRow(e)]
                             <= Cardinality(ReceiverWritten(ReceiverRow(e))')
    BY DEF RowsFromRecords
  <1>7. /\ q \in RowValues /\ UserRow(e) \in RowValues /\ rows[UserRow(e)] \in Nat
        /\ e \in Transfers => /\ ReceiverRow(e) \in RowValues /\ ReceiverRow(e) # q
                              /\ rows[ReceiverRow(e)] \in Nat
    BY <1>0, <1>1, RowFacts DEF Inv, TypeOK
  <1>8. rows'[UserRow(e)] <= Cardinality(Written(UserRow(e))')
    <2>1. rows[UserRow(e)] <= Cardinality(Written(UserRow(e)))
      BY DEF RowsFromRecords
    <2>2. CASE UserRow(e) = q
      <3>1. rows'[UserRow(e)] = rows[UserRow(e)] + 1
        BY <1>2, <1>7, <2>2 DEF Inv, TypeOK
      <3> QED
        BY <1>5, <1>6, <1>7, <2>1, <2>2, <3>1
    <2>3. CASE UserRow(e) # q
      <3>1. rows'[UserRow(e)] = rows[UserRow(e)]
        BY <1>2, <1>7, <2>3 DEF Inv, TypeOK
      <3> QED
        BY <1>5, <1>7, <2>1, <3>1
    <2> QED
      BY <2>2, <2>3
  <1>9. ASSUME e \in Transfers
        PROVE  rows'[ReceiverRow(e)] <= Cardinality(ReceiverWritten(ReceiverRow(e))')
    <2>1. rows[ReceiverRow(e)] <= Cardinality(ReceiverWritten(ReceiverRow(e)))
      BY <1>9 DEF RowsFromRecords
    <2>2. rows'[ReceiverRow(e)] = rows[ReceiverRow(e)]
      BY <1>2, <1>7, <1>9 DEF Inv, TypeOK
    <2> QED
      BY <1>5, <1>7, <1>9, <2>1, <2>2
  <1> QED
    BY <1>8, <1>9

\* The row of the user a transfer paid, in the same way.
LEMMA CreateReceiverRowBacked ==
    ASSUME Inv, Inv', RowStages, RowsFromRecords, NEW c \in Consumers, CreateReceiverRow(c)
    PROVE  RowsFromRecords'
  <1>0. PICK o, q : o = cur[c] /\ q = ReceiverRow(Ev(c))
    OBVIOUS
  <1>1. /\ Busy(c) /\ o \in 1 .. Len(log) /\ Ev(c) \in Events /\ Ev(c) = log[o]
        /\ credits[o] = 1 /\ Ev(c) \in Transfers /\ log[o].type = "transfer"
    BY <1>0, CurrentEvent DEF CreateReceiverRow, Busy, Inv, RowStages, Ev, Transfers
  <1>2. /\ rows' = [rows EXCEPT ![q] = @ + 1]
        /\ UNCHANGED <<log, debits, credits>>
        /\ pc'[c] = "ReadMessage"
        /\ \A d \in Consumers \ {c} : pc'[d] = pc[d] /\ cur'[d] = cur[d]
    BY <1>0, <1>1 DEF CreateReceiverRow, topic, AfterCommit, Skip, Goto, Inv, TypeOK
  <1>3. o \notin ReceiverWritten(q) /\ o \in ReceiverWritten(q)'
    <2>1. o \notin ReceiverWritten(q)
      BY <1>0 DEF ReceiverWritten, At, CreateReceiverRow
    <2>2. \A d \in Consumers : ~At(d, "CreateRow", o)' /\ ~At(d, "CreateReceiverRow", o)'
      BY <1>0, <1>1, <1>2 DEF At, Inv, OneReader, Busy
    <2>3. o \in ReceiverBacking(q)'
      BY <1>0, <1>1, <1>2 DEF ReceiverBacking
    <2> QED
      BY <2>1, <2>2, <2>3 DEF ReceiverWritten
  <1>4. \A r : Written(r) \subseteq Written(r)' /\ ReceiverWritten(r) \subseteq ReceiverWritten(r)'
    BY WrittenStays DEF Body
  <1>5. ASSUME NEW r
        PROVE  /\ Cardinality(Written(r)) <= Cardinality(Written(r)')
               /\ Cardinality(ReceiverWritten(r)) <= Cardinality(ReceiverWritten(r)')
               /\ Cardinality(Written(r)) \in Nat /\ Cardinality(Written(r)') \in Nat
               /\ Cardinality(ReceiverWritten(r)) \in Nat
               /\ Cardinality(ReceiverWritten(r)') \in Nat
    BY <1>4, WrittenFinite, WrittenFiniteNext, FS_Subset
  <1>6. Cardinality(ReceiverWritten(q)) + 1 <= Cardinality(ReceiverWritten(q)')
    <2> DEFINE more == ReceiverWritten(q) \cup {o}
    <2> HIDE DEF more
    <2>1. IsFiniteSet(ReceiverWritten(q)) /\ IsFiniteSet(ReceiverWritten(q)')
      BY WrittenFinite, WrittenFiniteNext
    <2>2. Cardinality(more) = Cardinality(ReceiverWritten(q)) + 1
      BY <1>3, <2>1, FS_AddElement DEF more
    <2>3. more \subseteq ReceiverWritten(q)'
      BY <1>3, <1>4 DEF more
    <2> QED
      BY <2>1, <2>2, <2>3, FS_Subset
  <1> SUFFICES ASSUME NEW e \in Events
               PROVE  /\ rows'[UserRow(e)] <= Cardinality(Written(UserRow(e))')
                      /\ e \in Transfers => rows'[ReceiverRow(e)]
                             <= Cardinality(ReceiverWritten(ReceiverRow(e))')
    BY DEF RowsFromRecords
  <1>7. /\ q \in RowValues /\ UserRow(e) \in RowValues /\ UserRow(e) # q
        /\ rows[UserRow(e)] \in Nat
        /\ e \in Transfers => ReceiverRow(e) \in RowValues /\ rows[ReceiverRow(e)] \in Nat
    BY <1>0, <1>1, RowFacts DEF Inv, TypeOK
  <1>8. rows'[UserRow(e)] <= Cardinality(Written(UserRow(e))')
    <2>1. rows[UserRow(e)] <= Cardinality(Written(UserRow(e)))
      BY DEF RowsFromRecords
    <2>2. rows'[UserRow(e)] = rows[UserRow(e)]
      BY <1>2, <1>7 DEF Inv, TypeOK
    <2> QED
      BY <1>5, <1>7, <2>1, <2>2
  <1>9. ASSUME e \in Transfers
        PROVE  rows'[ReceiverRow(e)] <= Cardinality(ReceiverWritten(ReceiverRow(e))')
    <2>1. rows[ReceiverRow(e)] <= Cardinality(ReceiverWritten(ReceiverRow(e)))
      BY <1>9 DEF RowsFromRecords
    <2>2. CASE ReceiverRow(e) = q
      <3>1. rows'[ReceiverRow(e)] = rows[ReceiverRow(e)] + 1
        BY <1>2, <1>7, <1>9, <2>2 DEF Inv, TypeOK
      <3> QED
        BY <1>5, <1>6, <1>7, <1>9, <2>1, <2>2, <3>1
    <2>3. CASE ReceiverRow(e) # q
      <3>1. rows'[ReceiverRow(e)] = rows[ReceiverRow(e)]
        BY <1>2, <1>7, <1>9, <2>3 DEF Inv, TypeOK
      <3> QED
        BY <1>5, <1>7, <1>9, <2>1, <3>1
    <2> QED
      BY <2>2, <2>3
  <1> QED
    BY <1>8, <1>9

RowsInv == RowStages /\ RowsFromRecords

\* At the start the table has no row of an event.
LEMMA InitRows == Init => RowsInv
  <1> SUFFICES ASSUME Init PROVE RowsInv
    OBVIOUS
  <1>1. RowStages
    BY DEF Init, RowStages
  <1>2. Inv
    BY InitInv
  <1>3. ASSUME NEW e \in Events
        PROVE  /\ rows[UserRow(e)] = 0
               /\ e \in Transfers => rows[ReceiverRow(e)] = 0
    <2>1. \A u \in Users : InitialRow(u).type = "initial"
      BY DEF InitialRow
    <2>2. UserRow(e).type # "initial" /\ ReceiverRow(e).type # "initial"
      BY SettlementAssumption DEF UserRow, ReceiverRow, PurchaseEvents, TransferEvents
    <2> QED
      BY <2>1, <2>2, RowFacts DEF Init
  <1>4. \A r : Cardinality(Written(r)) \in Nat /\ Cardinality(ReceiverWritten(r)) \in Nat
    BY <1>2, WrittenFinite
  <1> QED
    BY <1>1, <1>3, <1>4 DEF RowsInv, RowsFromRecords

\* Every step keeps the rows backed.
LEMMA NextRows == Inv /\ RowsInv /\ [Next]_vars => RowsInv'
  <1> SUFFICES ASSUME Inv, RowsInv, [Next]_vars PROVE RowsInv'
    OBVIOUS
  <1>1. Inv' /\ RowStages /\ RowsFromRecords
    BY NextInv DEF RowsInv
  <1>2. CASE \E e \in Events : Publish(e)
    <2>1. RowStages'
      BY <1>1, <1>2, CurrentEvent DEF RowStages, Publish, database, Ev, Inv, TypeOK, Busy
    <2>2. rows' = rows
      BY <1>2 DEF Publish, database
    <2> QED
      BY <1>1, <1>2, <2>1, <2>2, PublishedWritten, NothingWritten DEF RowsInv
  <1>3. CASE UNCHANGED vars
    <2>1. RowStages'
      BY <1>1, <1>3 DEF vars, RowStages, Ev
    <2>2. \A r : Backing(r)' = Backing(r) /\ ReceiverBacking(r)' = ReceiverBacking(r)
      BY <1>3 DEF vars, Backing, ReceiverBacking, UserRow, ReceiverRow, Due
    <2>3. \A r : Written(r)' = Written(r) /\ ReceiverWritten(r)' = ReceiverWritten(r)
      BY <1>3, <2>2 DEF vars, Written, ReceiverWritten, At
    <2> QED
      BY <1>1, <1>3, <2>1, <2>3, NothingWritten DEF vars, RowsInv
  <1>4. ASSUME NEW c \in Consumers, Body(c) \/ ReadMessageFails(c) \/ Abandon(c)
        PROVE  RowsInv'
    <2>1. RowStages'
      BY <1>1, <1>4, RowStagesKept
    <2>2. CASE rows' = rows
      BY <1>1, <1>4, <2>2, WrittenStays, NothingWritten, <2>1 DEF RowsInv
    <2>3. CASE CreateRow(c)
      BY <1>1, <2>1, <2>3, CreateRowBacked DEF RowsInv
    <2>4. CASE CreateReceiverRow(c)
      BY <1>1, <2>1, <2>4, CreateReceiverRowBacked DEF RowsInv
    <2> QED
      <3>1. CASE ReadMessage(c) \/ ReadMessageFails(c) \/ CheckFunds(c) \/ Abandon(c)
        BY <2>2, <3>1 DEF ReadMessage, ReadMessageFails, CheckFunds, Abandon, database
      <3>2. CASE Debit(c) \/ Credit(c)
        BY <2>2, <3>2 DEF Debit, Credit
      <3> QED
        BY <1>4, <2>3, <2>4, <3>1, <3>2 DEF Body
  <1> QED
    BY <1>2, <1>3, <1>4 DEF Next

\* A written row is a backed one.
LEMMA RowsAreBacked == Inv /\ RowsInv => RowsBacked
  <1> SUFFICES ASSUME Inv, RowsInv, NEW e \in Events
               PROVE  /\ rows[UserRow(e)] <= Cardinality(Backing(UserRow(e)))
                             + Cardinality(ReceiverBacking(UserRow(e)))
                      /\ e \in Transfers =>
                             rows[ReceiverRow(e)] <= Cardinality(Backing(ReceiverRow(e)))
                                 + Cardinality(ReceiverBacking(ReceiverRow(e)))
    BY DEF RowsBacked
  <1>1. ASSUME NEW r
        PROVE  /\ Cardinality(Backing(r)) \in Nat /\ Cardinality(ReceiverBacking(r)) \in Nat
               /\ Cardinality(Written(r)) \in Nat /\ Cardinality(ReceiverWritten(r)) \in Nat
               /\ Cardinality(Written(r)) <= Cardinality(Backing(r))
               /\ Cardinality(ReceiverWritten(r)) <= Cardinality(ReceiverBacking(r))
    <2>1. Written(r) \subseteq Backing(r) /\ ReceiverWritten(r) \subseteq ReceiverBacking(r)
      BY DEF Written, ReceiverWritten
    <2> QED
      BY <2>1, WrittenFinite, FS_Subset, FS_CardinalityType
  <1>2. rows[UserRow(e)] \in Nat /\ (e \in Transfers => rows[ReceiverRow(e)] \in Nat)
    BY RowFacts DEF Inv, TypeOK
  <1> QED
    BY <1>1, <1>2 DEF RowsInv, RowsFromRecords

\* The transactions table never claims what did not happen to balances: it has no
\* more rows of some contents than records that moved these coins.
THEOREM HistoryIsBacked == Spec => []RowsBacked
  BY InitRows, NextRows, RowsAreBacked, Invariance, PTL DEF Spec

-----------------------------------------------------------------------------
(* The ledger and the balances                                             *)

\* The rows a consumer at some call of an event is going to write, or would write
\* if its credit committed, as an amount of user u: what the ledger lacks.
Unrecorded(step, e, u) ==
    (IF step \in {"Credit", "CreateRow"} /\ e.user = u THEN -Due(e) ELSE 0)
    + (IF \/ step = "CreateRow" /\ e.type = "transfer"
          \/ step = "CreateReceiverRow"
       THEN IF e.related = u THEN e.amount ELSE 0
       ELSE 0)

Owing(u) == [c \in Consumers |-> Unrecorded(pc[c], Ev(c), u)]

Lacking(u) == SumFunction(Owing(u))

\* A transfer that was debited and will never be credited.
Stranded(o) ==
    /\ log[o].type = "transfer" /\ debits[o] # credits[o]
    /\ \A c \in Consumers : ~At(c, "Credit", o)

\* No call has failed and no transfer is half done for ever.
Whole == faults = 0 /\ \A o \in 1 .. Len(log) : ~Stranded(o)

Balanced == \A u \in Users : balance[u] = LedgerBalance(u) + Lacking(u)

\* LedgerAgrees speaks of moments without work; between two records a balance is
\* what the ledger says and what it lacks.
LedgerCatchesUp == Whole => Balanced

\* The rows there can be are finitely many, each of a user and an amount.
LEMMA RowsAreFinite ==
    /\ IsFiniteSet(RowValues)
    /\ \A r \in RowValues : r.amount \in Int
  <1>1. IsFiniteSet({InitialRow(u) : u \in Users})
    <2> DEFINE f == [u \in Users |-> InitialRow(u)]
    <2>1. f \in Surjection(Users, {InitialRow(u) : u \in Users})
      BY DEF Surjection
    <2> QED
      BY <2>1, FS_Surjection, SettlementAssumption
  <1>2. IsFiniteSet({UserRow(e) : e \in Events})
    <2> DEFINE f == [e \in Events |-> UserRow(e)]
    <2>1. f \in Surjection(Events, {UserRow(e) : e \in Events})
      BY DEF Surjection
    <2> QED
      BY <2>1, FS_Surjection, SettlementAssumption
  <1>3. IsFiniteSet({ReceiverRow(e) : e \in Transfers})
    <2> DEFINE f == [e \in Transfers |-> ReceiverRow(e)]
    <2>1. f \in Surjection(Transfers, {ReceiverRow(e) : e \in Transfers})
      BY DEF Surjection
    <2>2. IsFiniteSet(Transfers)
      BY FS_Subset, SettlementAssumption DEF Transfers
    <2> QED
      BY <2>1, <2>2, FS_Surjection
  <1>4. \A u \in Users : InitialRow(u).amount \in Int
    BY SettlementAssumption DEF InitialRow
  <1>5. \A e \in Events : UserRow(e).amount \in Int
    BY EventFacts, SettlementAssumption DEF UserRow
  <1>6. \A e \in Transfers : ReceiverRow(e).amount \in Int
    BY EventFacts, SettlementAssumption DEF ReceiverRow, Transfers
  <1> QED
    BY <1>1, <1>2, <1>3, <1>4, <1>5, <1>6, FS_Union DEF RowValues

\* The ledger's view of a balance is a number.
LEMMA LedgerTypes == ASSUME TypeOK, NEW u PROVE LedgerBalance(u) \in Int
  <1> DEFINE S == {r \in RowValues : r.user = u}
             f == [r \in S |-> rows[r] * r.amount]
  <1>1. IsFiniteSet(S)
    BY RowsAreFinite, FS_Subset
  <1>2. f \in [S -> Int]
    <2>1. \A r \in S : rows[r] \in Nat /\ r.amount \in Int
      BY RowsAreFinite DEF TypeOK
    <2>2. \A n, a : n \in Nat /\ a \in Int => n * a \in Int
      OBVIOUS
    <2> QED
      BY <2>1, <2>2
  <1> HIDE DEF f, S
  <1>3. SumFunction(f) \in Int
    BY <1>1, <1>2, SumInteger
  <1> QED
    BY <1>3 DEF LedgerBalance, f, S

\* One more row changes the ledger's view of the user it names.
LEMMA LedgerChange ==
    ASSUME TypeOK, NEW q \in RowValues, rows' = [rows EXCEPT ![q] = @ + 1], NEW u
    PROVE  /\ LedgerBalance(u) \in Int
           /\ LedgerBalance(u)' = LedgerBalance(u) + (IF q.user = u THEN q.amount ELSE 0)
  <1> DEFINE S == {r \in RowValues : r.user = u}
             f == [r \in S |-> rows[r] * r.amount]
             g == [r \in S |-> rows'[r] * r.amount]
  <1>1. LedgerBalance(u) = SumFunction(f) /\ LedgerBalance(u)' = SumFunction(g)
    BY DEF LedgerBalance
  <1>2. IsFiniteSet(S)
    BY RowsAreFinite, FS_Subset
  <1>3. \A n, a : n \in Nat /\ a \in Int => n * a \in Int /\ (n + 1) * a = n * a + a
    OBVIOUS
  <1>4. f \in [S -> Int] /\ g \in [S -> Int]
    <2>1. \A r \in S : rows[r] \in Nat /\ rows'[r] \in Nat /\ r.amount \in Int
      BY RowsAreFinite DEF TypeOK
    <2> QED
      BY <1>3, <2>1
  <1>5. LedgerBalance(u) \in Int
    BY LedgerTypes
  <1>6. CASE q.user = u
    <2>1. q \in S /\ f[q] = rows[q] * q.amount /\ rows[q] \in Nat /\ q.amount \in Int
      BY <1>6, RowsAreFinite DEF TypeOK
    <2>2. g = [f EXCEPT ![q] = f[q] + q.amount]
      <3>1. g[q] = f[q] + q.amount
        BY <1>3, <2>1 DEF TypeOK
      <3>2. \A r \in S \ {q} : g[r] = f[r]
        BY DEF TypeOK
      <3> QED
        BY <2>1, <3>1, <3>2
    <2>3. SumFunction(g) = SumFunction(f) - f[q] + (f[q] + q.amount)
      <3>1. PICK d \in Int : d = f[q] + q.amount
        BY <1>4, <2>1
      <3> HIDE DEF f, g, S
      <3>2. SumFunction([f EXCEPT ![q] = d]) = SumFunction(f) - f[q] + d
        BY <1>2, <1>4, <2>1, SumUpdate
      <3> QED
        BY <2>2, <3>1, <3>2
    <2>4. f[q] \in Int
      BY <1>4, <2>1
    <2> HIDE DEF f, g
    <2> QED
      BY <1>1, <1>5, <1>6, <2>1, <2>3, <2>4
  <1>7. CASE q.user # u
    <2>1. g = f
      BY <1>7 DEF TypeOK
    <2> HIDE DEF f, g
    <2> QED
      BY <1>1, <1>5, <1>7, <2>1
  <1> QED
    BY <1>5, <1>6, <1>7

\* What consumers have yet to write are numbers of coins.
LEMMA OwingTypes ==
    ASSUME Inv, NEW u
    PROVE  /\ Owing(u) \in [Consumers -> Int] /\ Lacking(u) \in Int
           /\ \A e \in Events, step \in Steps : Unrecorded(step, e, u) \in Int
           /\ \A e : /\ Unrecorded("ReadMessage", e, u) = 0
                     /\ Unrecorded("GetBalance", e, u) = 0
                     /\ Unrecorded("Debit", e, u) = 0
  <1>1. \A e \in Events, step \in Steps : Unrecorded(step, e, u) \in Int
    BY EventFacts, SettlementAssumption DEF Unrecorded, PurchaseEvents, TransferEvents
  <1>2. \A e : /\ Unrecorded("ReadMessage", e, u) = 0
               /\ Unrecorded("GetBalance", e, u) = 0
               /\ Unrecorded("Debit", e, u) = 0
    BY DEF Unrecorded
  <1>3. ASSUME NEW c \in Consumers PROVE Unrecorded(pc[c], Ev(c), u) \in Int
    <2>1. CASE Busy(c)
      BY <1>1, <2>1, CurrentEvent DEF Inv, TypeOK
    <2>2. CASE ~Busy(c)
      BY <1>2, <2>2 DEF Busy
    <2> QED
      BY <2>1, <2>2
  <1>4. Owing(u) \in [Consumers -> Int]
    BY <1>3 DEF Owing
  <1>5. Lacking(u) \in Int
    BY <1>4, SumInteger, SettlementAssumption DEF Lacking
  <1> QED
    BY <1>1, <1>2, <1>4, <1>5

\* A consumer that moves on has other rows to write.
LEMMA LackingChange ==
    ASSUME Inv, NEW c \in Consumers, Busy(c), NEW step \in Steps, Goto(c, step),
           UNCHANGED topic, NEW u
    PROVE  Lacking(u)' = Lacking(u) - Unrecorded(pc[c], Ev(c), u) + Unrecorded(step, Ev(c), u)
  <1> DEFINE v == Unrecorded(step, Ev(c), u)
  <1>1. v \in Int /\ Owing(u) \in [Consumers -> Int]
    BY CurrentEvent, OwingTypes DEF Inv
  <1>2. Unrecorded(pc'[c], Ev(c)', u) = v
    <2>1. CASE step = "ReadMessage"
      BY <2>1, OwingTypes DEF Goto, Inv, TypeOK
    <2>2. CASE step # "ReadMessage"
      BY <2>2 DEF Goto, Inv, TypeOK, Ev, topic
    <2> QED
      BY <2>1, <2>2
  <1>3. \A d \in Consumers \ {c} : pc'[d] = pc[d] /\ Ev(d)' = Ev(d)
    BY DEF Goto, Inv, TypeOK, Ev, topic
  <1>4. Owing(u)' = [d \in Consumers |-> Unrecorded(pc'[d], Ev(d)', u)]
    BY DEF Owing, Unrecorded, Due
  <1> HIDE DEF v
  <1>5. Owing(u)' = [Owing(u) EXCEPT ![c] = v]
    BY <1>2, <1>3, <1>4 DEF Owing
  <1>6. Owing(u)[c] = Unrecorded(pc[c], Ev(c), u)
    BY DEF Owing
  <1>7. SumFunction(Owing(u)') = SumFunction(Owing(u)) - Owing(u)[c] + v
    <2>1. PICK F \in [Consumers -> Int] : F = Owing(u)
      BY <1>1
    <2>2. SumFunction([F EXCEPT ![c] = v]) = SumFunction(F) - F[c] + v
      BY <1>1, SumUpdate, SettlementAssumption
    <2> QED
      BY <1>5, <2>1, <2>2
  <1> QED
    BY <1>6, <1>7 DEF Lacking, v

\* A transfer that is stranded stays so: nobody reads its record again.
LEMMA StrandedStays ==
    ASSUME Inv, [Next]_vars, NEW o \in 1 .. Len(log), Stranded(o)
    PROVE  o \in 1 .. Len(log') /\ Stranded(o)'
  <1>1. /\ log \in Seq(Events) /\ Len(log) <= MaxLog /\ o \in Offsets
        /\ log[o].type = "transfer" /\ debits[o] # credits[o]
        /\ \A d \in Consumers : ~At(d, "Credit", o)
    BY SettlementAssumption DEF Inv, TypeOK, Stranded, Offsets
  <1>2. CASE \E e \in Events : Publish(e)
    BY <1>1, <1>2 DEF Publish, database, Stranded, At
  <1>3. CASE UNCHANGED vars
    BY <1>1, <1>3 DEF vars, Stranded, At
  <1>4. ASSUME NEW c \in Consumers, Body(c) \/ ReadMessageFails(c) \/ Abandon(c)
        PROVE  o \in 1 .. Len(log') /\ Stranded(o)'
    <2>1. /\ log' = log
          /\ \A d \in Consumers \ {c} : pc'[d] = pc[d] /\ cur'[d] = cur[d]
          /\ (Busy(c) => o # cur[c]) => debits'[o] = debits[o] /\ credits'[o] = credits[o]
          /\ pc'[c] \in {"ReadMessage", "GetBalance"} \/ (Busy(c) /\ cur'[c] = cur[c])
      BY <1>1, <1>4, StepOfOne
    <2>2. debits'[o] # credits'[o] /\ ~At(c, "Credit", o)'
      <3>1. CASE Busy(c) => o # cur[c]
        BY <1>1, <2>1, <3>1 DEF At
      <3>2. CASE Busy(c) /\ o = cur[c]
        <4>1. pc[c] \in {"CreateRow", "CreateReceiverRow"}
          BY <1>1, <3>2 DEF Inv, TypeOK, StageFacts, Steps, Busy, At
        <4>2. CreateRow(c) \/ CreateReceiverRow(c) \/ Abandon(c)
          BY <1>4, <4>1 DEF Body, ReadMessage, ReadMessageFails, CheckFunds, Debit, Credit
        <4> QED
          BY <1>1, <4>1, <4>2 DEF CreateRow, CreateReceiverRow, Abandon, AfterCommit, AfterRow,
             Skip, Goto, database, At, Inv, TypeOK
      <3> QED
        BY <3>1, <3>2
    <2> QED
      BY <1>1, <2>1, <2>2 DEF Stranded, At
  <1> QED
    BY <1>2, <1>3, <1>4 DEF Next

\* so what is whole after a step was whole before it.
LEMMA WholeBefore == Inv /\ [Next]_vars /\ Whole' => Whole
  <1> SUFFICES ASSUME Inv, [Next]_vars, Whole' PROVE Whole
    OBVIOUS
  <1>1. faults' = faults \/ faults' = faults + 1
    <2>1. ASSUME NEW c \in Consumers, Body(c) \/ ReadMessageFails(c) \/ Abandon(c)
          PROVE  faults' = faults \/ faults' = faults + 1
      BY <2>1 DEF Body, ReadMessage, ReadMessageFails, CheckFunds, Debit, Credit, CreateRow,
         CreateReceiverRow, Abandon, AfterCommit, Fault
    <2> QED
      BY <2>1 DEF Next, Publish, vars
  <1>2. faults = 0
    BY <1>1 DEF Whole, Inv, TypeOK
  <1> QED
    BY <1>2, StrandedStays DEF Whole

\* A step that touches neither table, of a consumer with no row to write.
LEMMA NothingToWrite ==
    ASSUME Inv, Balanced, UNCHANGED <<balance, rows>>,
           \A c \in Consumers, u \in Users :
               Unrecorded(pc[c], Ev(c), u)' = Unrecorded(pc[c], Ev(c), u)
    PROVE  Balanced'
  <1>1. \A u \in Users : Lacking(u)' = Lacking(u)
    BY DEF Lacking, Owing
  <1>2. \A u \in Users : LedgerBalance(u)' = LedgerBalance(u)
    BY DEF LedgerBalance
  <1> QED
    BY <1>1, <1>2 DEF Balanced

\* A consumer changes a balance, and has the rows of this change to write.
LEMMA MoneyMoves ==
    ASSUME Inv, Balanced, NEW c \in Consumers, Busy(c), NEW step \in Steps, Goto(c, step),
           UNCHANGED <<topic, rows>>, NEW v \in Users, NEW d \in Int, SetBalance(v, d),
           \A u \in Users : Unrecorded(step, Ev(c), u)
               = Unrecorded(pc[c], Ev(c), u) + (IF u = v THEN d ELSE 0)
    PROVE  Balanced'
  <1> SUFFICES ASSUME NEW u \in Users PROVE balance'[u] = LedgerBalance(u)' + Lacking(u)'
    BY DEF Balanced
  <1>1. balance[u] = LedgerBalance(u) + Lacking(u) /\ balance[u] \in Int
    BY SettlementAssumption DEF Balanced, Inv, TypeOK
  <1>2. balance'[u] = balance[u] + (IF u = v THEN d ELSE 0)
    BY SettlementAssumption DEF SetBalance, Inv, TypeOK
  <1>3. LedgerBalance(u)' = LedgerBalance(u)
    BY DEF LedgerBalance
  <1>4. Unrecorded(pc[c], Ev(c), u) \in Int /\ Lacking(u) \in Int
    BY CurrentEvent, OwingTypes DEF Inv, TypeOK
  <1>5. Lacking(u)' = Lacking(u) + (IF u = v THEN d ELSE 0)
    BY <1>4, LackingChange
  <1>6. LedgerBalance(u) \in Int
    BY LedgerTypes DEF Inv
  <1> QED
    BY <1>1, <1>2, <1>3, <1>4, <1>5, <1>6

\* A consumer writes a row it had to write.
LEMMA RowIsWritten ==
    ASSUME Inv, Balanced, NEW c \in Consumers, Busy(c), NEW step \in Steps, Goto(c, step),
           UNCHANGED <<topic, balance>>, NEW q \in RowValues, rows' = [rows EXCEPT ![q] = @ + 1],
           \A u \in Users : Unrecorded(step, Ev(c), u)
               = Unrecorded(pc[c], Ev(c), u) - (IF q.user = u THEN q.amount ELSE 0)
    PROVE  Balanced'
  <1> SUFFICES ASSUME NEW u \in Users PROVE balance'[u] = LedgerBalance(u)' + Lacking(u)'
    BY DEF Balanced
  <1>1. balance'[u] = LedgerBalance(u) + Lacking(u)
    BY DEF Balanced
  <1>2. LedgerBalance(u)' = LedgerBalance(u) + (IF q.user = u THEN q.amount ELSE 0)
        /\ LedgerBalance(u) \in Int
    BY LedgerChange DEF Inv
  <1>3. Unrecorded(pc[c], Ev(c), u) \in Int /\ Lacking(u) \in Int /\ q.amount \in Int
    BY CurrentEvent, OwingTypes, RowsAreFinite DEF Inv, TypeOK
  <1>4. Lacking(u)' = Lacking(u) - (IF q.user = u THEN q.amount ELSE 0)
    BY <1>3, LackingChange
  <1> QED
    BY <1>1, <1>2, <1>3, <1>4

\* The steps of a consumer: what it moves it has to write, what it writes it had
\* to; a credit that is refused leaves its transfer stranded.
LEMMA ConsumerBalanced ==
    ASSUME Inv, RowStages, Balanced, NEW c \in Consumers,
           Body(c) \/ ReadMessageFails(c) \/ Abandon(c), faults' = faults, Whole'
    PROVE  Balanced'
  <1> DEFINE e == Ev(c)
  <1>1. Busy(c) => /\ e \in Events /\ e.user \in Users /\ Due(e) \in Int
                   /\ e.type = "transfer" =>
                        e \in Transfers /\ e.related \in Users /\ Due(e) = e.amount
    BY CurrentEvent, EventFacts, SettlementAssumption DEF Inv
  <1>2. ~ReadMessageFails(c) /\ ~Abandon(c) /\ faults \in Nat
    BY DEF ReadMessageFails, Abandon, Fault, Inv, TypeOK
  <1>3. CASE ReadMessage(c)
    <2>1. UNCHANGED <<log, balance, rows>>
      BY <1>3 DEF ReadMessage, database
    <2>2. \A d \in Consumers \ {c} : pc'[d] = pc[d] /\ Ev(d)' = Ev(d)
      BY <1>3 DEF ReadMessage, Inv, TypeOK, Ev
    <2>3. pc[c] = "ReadMessage" /\ pc'[c] = "GetBalance"
      BY <1>3 DEF ReadMessage, Inv, TypeOK
    <2>4. ASSUME NEW d \in Consumers, NEW u \in Users
          PROVE  Unrecorded(pc'[d], Ev(d)', u) = Unrecorded(pc[d], Ev(d), u)
      BY <2>2, <2>3, OwingTypes
    <2> QED
      BY <2>1, <2>4, NothingToWrite DEF Unrecorded, Due
  <1>4. ASSUME NEW step \in Steps \ {"Credit"}, Goto(c, step), Busy(c),
               UNCHANGED <<topic, balance, rows>>,
               pc[c] \in {"GetBalance", "Debit"}, step \in {"ReadMessage", "Debit"}
        PROVE  Balanced'
    <2>1. \A u \in Users : Lacking(u)' = Lacking(u) - 0 + 0 /\ Lacking(u) \in Int
      BY <1>4, LackingChange, OwingTypes
    <2>2. \A u \in Users : LedgerBalance(u)' = LedgerBalance(u)
      BY <1>4 DEF LedgerBalance
    <2> QED
      BY <1>4, <2>1, <2>2 DEF Balanced
  <1>5. CASE CheckFunds(c)
    BY <1>4, <1>5 DEF CheckFunds, Skip, Busy, Steps, database
  <1>6. CASE Debit(c)
    <2>1. Busy(c) /\ UNCHANGED <<topic, rows>> /\ pc[c] = "Debit"
      BY <1>6 DEF Debit, Busy
    <2>2. CASE MayChange(e.user, -Due(e))
      <3>1. Goto(c, AfterDebit(e)) /\ SetBalance(e.user, -Due(e))
        BY <1>2, <1>6, <2>2 DEF Debit, AfterCommit, Fault
      <3>2. AfterDebit(e) \in Steps /\ -Due(e) \in Int
        BY <1>1, <2>1 DEF AfterDebit, Steps
      <3>3. \A u \in Users : Unrecorded(AfterDebit(e), e, u)
                = Unrecorded("Debit", e, u) + (IF u = e.user THEN -Due(e) ELSE 0)
        BY <1>1, <2>1 DEF Unrecorded, AfterDebit
      <3> QED
        BY <1>1, <2>1, <3>1, <3>2, <3>3, MoneyMoves
    <2>3. CASE ~MayChange(e.user, -Due(e))
      BY <1>4, <1>6, <2>1, <2>3 DEF Debit, Skip, Steps
    <2> QED
      BY <2>2, <2>3
  <1>7. CASE Credit(c)
    <2>1. /\ Busy(c) /\ UNCHANGED <<topic, rows, debits>> /\ pc[c] = "Credit"
          /\ e.type = "transfer" /\ e.related \in Users /\ e.amount \in Int
          /\ cur[c] \in 1 .. Len(log) /\ cur[c] \in Offsets
          /\ debits[cur[c]] = 1 /\ credits[cur[c]] = 0
      BY <1>7, EventFacts, CurrentEvent, SettlementAssumption
         DEF Credit, Busy, Inv, StageFacts, Transfers
    <2>2. CASE MayChange(e.related, e.amount)
      <3>1. Goto(c, "CreateRow") /\ SetBalance(e.related, e.amount)
        BY <1>2, <1>7, <2>2 DEF Credit, AfterCommit, Fault
      <3>2. \A u \in Users : Unrecorded("CreateRow", e, u)
                = Unrecorded("Credit", e, u) + (IF u = e.related THEN e.amount ELSE 0)
        BY <1>1, <2>1 DEF Unrecorded
      <3> QED
        BY <1>1, <2>1, <3>1, <3>2, MoneyMoves DEF Steps
    <2>3. CASE ~MayChange(e.related, e.amount)
      <3>1. Goto(c, "ReadMessage") /\ UNCHANGED <<log, debits, credits>>
        BY <1>7, <2>3 DEF Credit, Skip, topic
      <3>2. PICK o : o = cur[c]
        OBVIOUS
      <3>3. \A d \in Consumers : ~At(d, "Credit", o)'
        <4>1. ~At(c, "Credit", o)'
          BY <2>1, <3>1 DEF At, Goto, Inv, TypeOK
        <4>2. ASSUME NEW d \in Consumers \ {c} PROVE ~At(d, "Credit", o)'
          BY <2>1, <3>1, <3>2 DEF At, Goto, Inv, TypeOK, OneReader, Busy
        <4> QED
          BY <4>1, <4>2
      <3>4. Stranded(o)'
        <4>1. log'[o].type = "transfer" /\ debits'[o] # credits'[o]
          BY <2>1, <3>1, <3>2 DEF Ev
        <4> QED
          BY <3>3, <4>1 DEF Stranded
      <3> QED
        BY <2>1, <3>1, <3>2, <3>4 DEF Whole
    <2> QED
      BY <2>2, <2>3
  <1>8. CASE CreateRow(c)
    <2>1. Busy(c) /\ UNCHANGED <<topic, balance>> /\ pc[c] = "CreateRow"
      BY <1>8 DEF CreateRow, Busy
    <2>2. Goto(c, AfterRow(e)) /\ AfterRow(e) \in Steps
      BY <1>2, <1>8 DEF CreateRow, AfterCommit, AfterRow, Fault, Steps
    <2>3. UserRow(e) \in RowValues /\ rows' = [rows EXCEPT ![UserRow(e)] = @ + 1]
      BY <1>1, <1>8, <2>1, RowFacts DEF CreateRow
    <2>4. UserRow(e).user = e.user /\ UserRow(e).amount = -Due(e)
      BY DEF UserRow
    <2>5. \A u \in Users : Unrecorded(AfterRow(e), e, u)
              = Unrecorded("CreateRow", e, u)
                  - (IF UserRow(e).user = u THEN UserRow(e).amount ELSE 0)
      <3>1. e.type = "transfer" => e.amount \in Int
        BY <1>1, <2>1
      <3> QED
        BY <1>1, <2>1, <2>4, <3>1 DEF Unrecorded, AfterRow
    <2>6. PICK q \in RowValues : q = UserRow(e)
      BY <2>3
    <2> QED
      BY <2>1, <2>2, <2>3, <2>5, <2>6, RowIsWritten
  <1>9. CASE CreateReceiverRow(c)
    <2>1. Busy(c) /\ UNCHANGED <<topic, balance>> /\ pc[c] = "CreateReceiverRow"
          /\ e \in Transfers
      BY <1>9 DEF CreateReceiverRow, Busy, RowStages
    <2>2. Goto(c, "ReadMessage")
      BY <1>2, <1>9 DEF CreateReceiverRow, AfterCommit, Fault
    <2>3. ReceiverRow(e) \in RowValues /\ rows' = [rows EXCEPT ![ReceiverRow(e)] = @ + 1]
      BY <1>1, <1>9, <2>1, RowFacts DEF CreateReceiverRow
    <2>4. /\ ReceiverRow(e).user = e.related /\ ReceiverRow(e).amount = e.amount
          /\ e.amount \in Int
      BY <1>1, <2>1 DEF ReceiverRow, Transfers
    <2>5. \A u \in Users : Unrecorded("ReadMessage", e, u)
              = Unrecorded("CreateReceiverRow", e, u)
                  - (IF ReceiverRow(e).user = u THEN ReceiverRow(e).amount ELSE 0)
      BY <2>4 DEF Unrecorded
    <2>6. PICK q \in RowValues : q = ReceiverRow(e)
      BY <2>3
    <2>7. "ReadMessage" \in Steps
      BY DEF Steps
    <2> QED
      BY <2>1, <2>2, <2>3, <2>5, <2>6, <2>7, RowIsWritten
  <1> QED
    BY <1>2, <1>3, <1>5, <1>6, <1>7, <1>8, <1>9 DEF Body

\* Every step of the system.
LEMMA NextLedger == Inv /\ RowsInv /\ LedgerCatchesUp /\ [Next]_vars => LedgerCatchesUp'
  <1> SUFFICES ASSUME Inv, RowStages, LedgerCatchesUp, [Next]_vars, Whole' PROVE Balanced'
    BY DEF LedgerCatchesUp, RowsInv
  <1>1. Whole /\ Balanced
    BY WholeBefore DEF LedgerCatchesUp
  <1>2. CASE \E e \in Events : Publish(e)
    <2>1. /\ UNCHANGED <<pc, cur, balance, rows>>
          /\ \A d \in Consumers : Busy(d) => Ev(d)' = Ev(d)
      BY <1>2, CurrentEvent DEF Publish, database, Ev, Inv, TypeOK
    <2>2. ASSUME NEW d \in Consumers, NEW u \in Users
          PROVE  Unrecorded(pc'[d], Ev(d)', u) = Unrecorded(pc[d], Ev(d), u)
      BY <2>1, OwingTypes DEF Busy
    <2>3. \A d \in Consumers, u \in Users :
            Unrecorded(pc[d], Ev(d), u)' = Unrecorded(pc[d], Ev(d), u)
      BY <2>2 DEF Unrecorded, Due
    <2>4. UNCHANGED <<balance, rows>>
      BY <2>1
    <2> QED
      BY <1>1, <2>3, <2>4, NothingToWrite
  <1>3. CASE UNCHANGED vars
    <2>1. UNCHANGED <<log, pc, cur, balance, rows>>
      BY <1>3 DEF vars
    <2>2. \A d \in Consumers, u \in Users :
            Unrecorded(pc[d], Ev(d), u)' = Unrecorded(pc[d], Ev(d), u)
      BY <2>1 DEF Unrecorded, Due, Ev
    <2> QED
      BY <1>1, <2>1, <2>2, NothingToWrite
  <1>4. ASSUME NEW c \in Consumers, Body(c) \/ ReadMessageFails(c) \/ Abandon(c)
        PROVE  Balanced'
    <2>1. faults' = faults
      BY <1>1 DEF Whole
    <2> QED
      BY <1>1, <1>4, <2>1, ConsumerBalanced
  <1> QED
    BY <1>2, <1>3, <1>4 DEF Next

\* Registration writes the row of what it gives.
LEMMA InitLedger == Init => LedgerCatchesUp
  <1> SUFFICES ASSUME Init, NEW u \in Users PROVE balance[u] = LedgerBalance(u) + Lacking(u)
    BY DEF LedgerCatchesUp, Balanced
  <1>1. Lacking(u) = 0
    <2>1. Owing(u) = [c \in Consumers |-> 0]
      BY OwingTypes, InitInv DEF Init, Owing
    <2> QED
      BY <2>1, SumZeros, SettlementAssumption DEF Lacking
  <1>2. LedgerBalance(u) = InitialBalance
    <2> DEFINE S == {r \in RowValues : r.user = u}
               f == [r \in S |-> rows[r] * r.amount]
               z == [r \in S |-> 0]
               q == InitialRow(u)
    <2>1. IsFiniteSet(S) /\ q \in S /\ q.amount = InitialBalance /\ InitialBalance \in Int
      BY RowsAreFinite, FS_Subset, SettlementAssumption DEF InitialRow, RowValues
    <2>2. rows[q] = 1 /\ \A r \in S \ {q} : rows[r] = 0
      <3>1. \A v \in Users : InitialRow(v) \in S => v = u
        BY DEF InitialRow
      <3> QED
        BY <2>1, <3>1 DEF Init
    <2>3. f[q] = InitialBalance /\ \A r \in S \ {q} : f[r] = 0
      BY <2>1, <2>2, RowsAreFinite
    <2>4. f = [z EXCEPT ![q] = InitialBalance]
      BY <2>1, <2>3
    <2>5. z \in [S -> Int] /\ z[q] = 0 /\ SumFunction(z) = 0
      BY <2>1, SumZeros
    <2> HIDE DEF f, z, S, q
    <2>6. SumFunction(f) = SumFunction(z) - z[q] + InitialBalance
      BY <2>1, <2>4, <2>5, SumUpdate
    <2>7. SumFunction(f) = InitialBalance
      BY <2>1, <2>5, <2>6
    <2> QED
      BY <2>7 DEF LedgerBalance, f, S
  <1> QED
    BY <1>1, <1>2, SettlementAssumption DEF Init

\* Without work nothing lacks.
LEMMA IdleLedger == Inv /\ LedgerCatchesUp => LedgerAgrees
  <1> SUFFICES ASSUME Inv, LedgerCatchesUp, Idle, faults = 0, AllArrived, NEW u \in Users
               PROVE  LedgerBalance(u) = balance[u]
    BY DEF LedgerAgrees
  <1>1. Whole
    BY DEF Whole, Stranded, AllArrived
  <1>2. Lacking(u) = 0
    <2>1. Owing(u) = [c \in Consumers |-> 0]
      BY OwingTypes DEF Owing, Idle
    <2> QED
      BY <2>1, SumZeros, SettlementAssumption DEF Lacking
  <1>3. balance[u] = LedgerBalance(u) + Lacking(u) /\ LedgerBalance(u) \in Int
    BY <1>1, LedgerTypes DEF LedgerCatchesUp, Balanced, Inv
  <1> QED
    BY <1>2, <1>3

\* With no call failing, the sum of a user's rows is the user's balance whenever
\* no record is being worked on: the two tables tell the same story.
THEOREM LedgerIsKept == Spec => []LedgerAgrees
  BY InitRows, NextRows, InitLedger, NextLedger, IdleLedger, Invariance, PTL DEF Spec
=============================================================================
