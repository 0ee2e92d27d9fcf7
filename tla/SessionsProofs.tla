--------------------------- MODULE SessionsProofs ---------------------------
(***************************************************************************)
(* Proofs about Sessions, for any clients, users, lives of a token, delays *)
(* and failures.                                                           *)
(***************************************************************************)
EXTENDS Sessions, TLAPS

(* RefusedForCause speaks of one step; Inv is what holds before it.  A client *)
(* whose token was set, and no other since, finds it in Redis until it        *)
(* expires, because the key was given its hour after the token was.           *)

\* A pending login has signed a token that expires within the hour from now.
PendingSigned ==
    \A c \in Clients :
        pc[c] = "Set" => signed[c] \in Tokens /\ signed[c].exp <= now + TTL

\* A token that is compared is one the client was given.
PresentedHeld == \A c \in Clients : pc[c] = "Get" => tok[c] \in Tokens

\* Redis, with these entries, has t until it expires.
StillStored(t, entries) ==
    /\ entries[TokenKey(t.user)].token = t
    /\ t.exp <= entries[TokenKey(t.user)].until

UnspoiltStored ==
    \A c \in Clients : tok[c] # NoToken /\ c \notin spoilt => StillStored(tok[c], stored)

Inv == TypeOK /\ PendingSigned /\ PresentedHeld /\ UnspoiltStored

\* What a client has before it is given a token is none.
LEMMA NoTokenIsNone ==
    NoToken \notin Tokens
<1>1. Tokens \subseteq [user : Users, exp : Nat]
  BY SessionsAssumption DEF Tokens
<1> QED BY <1>1, SessionsAssumption

\* Nobody has logged in.
LEMMA InvInit ==
    Init => Inv
  BY SessionsAssumption
      DEF Init, Inv, TypeOK, PendingSigned, PresentedHeld, UnspoiltStored, Tokens

-----------------------------------------------------------------------------
(* The steps                                                               *)

\* Setting a token keeps the types, keeps what is stored for other users, and
\* leaves the key with a life at least as long as the token's.
LEMMA SetTokenFacts ==
    ASSUME Inv, NEW t \in Tokens, t.exp <= now + TTL, SetToken(t)
    PROVE  /\ stored' \in [Users -> [token : Tokens \cup {NoToken}, until : 0 .. MaxTime + TTL]]
           /\ replaced' \subseteq Tokens
           /\ StillStored(t, stored')
           /\ \A r \in Tokens :
                 r.user # t.user /\ StillStored(r, stored) => StillStored(r, stored')
  <1> USE SessionsAssumption DEF Inv, TypeOK, SetToken, TokenKey, DroppedAt
  <1>1. t.user \in Users /\ now + TTL \in 0 .. MaxTime + TTL
    BY DEF Tokens
  <1>2. stored' \in [Users -> [token : Tokens \cup {NoToken}, until : 0 .. MaxTime + TTL]]
    BY <1>1
  <1>3. stored[t.user].token \in Tokens \cup {NoToken}
    BY <1>1
  <1>4. replaced' \subseteq Tokens
    BY <1>3
  <1>5. StillStored(t, stored')
    BY <1>1 DEF StillStored
  <1>6. \A r \in Tokens :
            r.user # t.user /\ StillStored(r, stored) => StillStored(r, stored')
    BY <1>1 DEF StillStored, Tokens
  <1> QED
    BY <1>2, <1>4, <1>5, <1>6

\* The types of what every action moves.
LEMMA GotoTypes ==
    ASSUME TypeOK, NEW c \in Clients, NEW call \in {"Idle", "Set", "Get"}, Goto(c, call)
    PROVE  /\ pc' \in [Clients -> {"Idle", "Set", "Get"}]
           /\ at' \in [Clients -> 0 .. MaxTime]
           /\ pc'[c] = call
           /\ \A d \in Clients \ {c} : pc'[d] = pc[d]
  BY SessionsAssumption DEF TypeOK, Goto

\* A login that signs touches nothing the others have.
LEMMA LoginInv ==
    ASSUME Inv, NEW c \in Clients, NEW u \in Users, Login(c, u)
    PROVE  Inv'
  <1> DEFINE t == [user |-> u, exp |-> now + TTL]
  <1> USE SessionsAssumption DEF Inv, Login
  <1>1. t \in Tokens /\ t.exp <= now + TTL
    BY DEF TypeOK, Tokens
  <1>2. TypeOK'
    BY <1>1, GotoTypes DEF TypeOK
  <1>3. PendingSigned'
    <2>1. pc'[c] = "Set" /\ signed'[c] = t /\ now' = now
      BY GotoTypes DEF TypeOK
    <2>2. \A d \in Clients \ {c} : pc'[d] = pc[d] /\ signed'[d] = signed[d]
      BY GotoTypes DEF TypeOK
    <2> QED
      BY <1>1, <2>1, <2>2 DEF PendingSigned
  <1>4. PresentedHeld'
    BY GotoTypes DEF PresentedHeld
  <1>5. UnspoiltStored'
    BY DEF UnspoiltStored, StillStored
  <1> QED
    BY <1>2, <1>3, <1>4, <1>5

\* What a login leaves behind that has answered its client.
LEMMA HandOutFacts ==
    ASSUME Inv, NEW c \in Clients, pc[c] = "Set", HandOut(c)
    PROVE  /\ pc' \in [Clients -> {"Idle", "Set", "Get"}]
           /\ at' \in [Clients -> 0 .. MaxTime]
           /\ tok' \in [Clients -> Tokens \cup {NoToken}]
           /\ signed' \in [Clients -> Tokens \cup {NoToken}]
           /\ pc'[c] = "Idle" /\ tok'[c] = signed[c]
           /\ \A d \in Clients \ {c} :
                 pc'[d] = pc[d] /\ tok'[d] = tok[d] /\ signed'[d] = signed[d]
  <1>1. signed[c] \in Tokens
    BY DEF Inv, PendingSigned
  <1> QED
    BY <1>1, GotoTypes DEF Inv, TypeOK, HandOut

\* A pending login that goes on keeps what the others have.
LEMMA OthersKeep ==
    ASSUME Inv, NEW c \in Clients, now' = now,
           pc'[c] = "Idle",
           \A d \in Clients \ {c} :
               pc'[d] = pc[d] /\ tok'[d] = tok[d] /\ signed'[d] = signed[d]
    PROVE  PendingSigned' /\ PresentedHeld'
  BY DEF Inv, PendingSigned, PresentedHeld

\* After a token is set, only its user's holders lose theirs.
LEMMA SetSpoils ==
    ASSUME Inv, NEW t \in Tokens, t.exp <= now + TTL, SetToken(t),
           NEW d \in Clients, d \notin spoilt, d \notin Holders(t.user), tok[d] # NoToken
    PROVE  StillStored(tok[d], stored')
  <1>1. tok[d] \in Tokens /\ tok[d].user # t.user
    BY DEF Inv, TypeOK, Holders
  <1>2. StillStored(tok[d], stored)
    BY DEF Inv, UnspoiltStored
  <1> QED
    BY <1>1, <1>2, SetTokenFacts

\* Set is applied and the client has the answer.
LEMMA SetStep ==
    ASSUME Inv, NEW c \in Clients, pc[c] = "Set", SetToken(signed[c]), HandOut(c), now' = now,
           spoilt' = (spoilt \cup Holders(signed[c].user)) \ {c}
    PROVE  /\ stored' \in [Users -> [token : Tokens \cup {NoToken}, until : 0 .. MaxTime + TTL]]
           /\ replaced' \subseteq Tokens
           /\ UnspoiltStored'
  <1>1. PICK t \in Tokens : t = signed[c] /\ t.exp <= now + TTL
    BY DEF Inv, PendingSigned
  <1>2. SetToken(t)
    BY <1>1
  <1>3. tok'[c] = t /\ \A d \in Clients \ {c} : tok'[d] = tok[d]
    BY <1>1, HandOutFacts
  <1>4. \A d \in Clients : tok'[d] # NoToken /\ d \notin spoilt' => StillStored(tok'[d], stored')
    <2> SUFFICES ASSUME NEW d \in Clients, tok'[d] # NoToken, d \notin spoilt'
                 PROVE  StillStored(tok'[d], stored')
      OBVIOUS
    <2>1. CASE d = c
      BY <1>1, <1>2, <1>3, <2>1, SetTokenFacts
    <2>2. CASE d # c
      <3>1. tok'[d] = tok[d] /\ d \notin spoilt /\ d \notin Holders(t.user)
        BY <1>1, <1>3, <2>2
      <3> QED
        BY <1>1, <1>2, <3>1, SetSpoils
    <2> QED
      BY <2>1, <2>2
  <1> QED
    BY <1>1, <1>2, <1>4, SetTokenFacts DEF UnspoiltStored

\* Set keeps Inv: the other devices of the user are spoilt by it, this one is not.
LEMMA SetInv ==
    ASSUME Inv, NEW c \in Clients, Set(c)
    PROVE  Inv'
  <1>1. TypeOK'
    <2>1. spoilt' \subseteq Clients
      BY DEF Set, Inv, TypeOK, Holders
    <2>2. UNCHANGED <<reply, faults, now, again>>
      BY DEF Set
    <2> QED
      BY <2>1, <2>2, SetStep, HandOutFacts DEF Set, Inv, TypeOK
  <1>2. PendingSigned' /\ PresentedHeld'
    BY HandOutFacts, OthersKeep DEF Set
  <1>3. UnspoiltStored'
    BY SetStep DEF Set
  <1> QED
    BY <1>1, <1>2, <1>3 DEF Inv

\* A Set that reports an error keeps Inv, whether it was applied or not.
LEMMA SetFailsInv ==
    ASSUME Inv, NEW c \in Clients, SetFails(c)
    PROVE  Inv'
  <1> USE DEF SetFails
  <1>1. /\ stored' \in [Users -> [token : Tokens \cup {NoToken}, until : 0 .. MaxTime + TTL]]
        /\ replaced' \subseteq Tokens
        /\ UnspoiltStored'
    <2>1. CASE SetToken(signed[c]) /\ spoilt' = (spoilt \cup Holders(signed[c].user)) \ {c}
      BY <2>1, SetStep
    <2>2. CASE UNCHANGED <<stored, replaced>> /\ spoilt' = spoilt \cup {c}
      BY <2>2, HandOutFacts DEF Inv, TypeOK, UnspoiltStored
    <2> QED
      BY <2>1, <2>2
  <1>2. faults' \in 0 .. MaxFaults /\ spoilt' \subseteq Clients
    BY SessionsAssumption DEF Inv, TypeOK, Fault, Holders
  <1>3. TypeOK'
    BY <1>1, <1>2, HandOutFacts DEF Inv, TypeOK
  <1>4. PendingSigned' /\ PresentedHeld'
    BY HandOutFacts, OthersKeep
  <1> QED
    BY <1>1, <1>3, <1>4 DEF Inv

\* So does one whose client is gone: the device itself is spoilt if it was applied.
LEMMA LeaveInv ==
    ASSUME Inv, NEW c \in Clients, Leave(c)
    PROVE  Inv'
  <1> USE DEF Leave
  <1>1. /\ pc' \in [Clients -> {"Idle", "Set", "Get"}]
        /\ at' \in [Clients -> 0 .. MaxTime]
        /\ signed' \in [Clients -> Tokens \cup {NoToken}]
        /\ pc'[c] = "Idle"
        /\ \A d \in Clients \ {c} : pc'[d] = pc[d] /\ signed'[d] = signed[d]
    BY GotoTypes DEF Inv, TypeOK
  <1>2. /\ stored' \in [Users -> [token : Tokens \cup {NoToken}, until : 0 .. MaxTime + TTL]]
        /\ replaced' \subseteq Tokens
        /\ spoilt' \subseteq Clients
        /\ UnspoiltStored'
    <2>1. CASE SetToken(signed[c]) /\ spoilt' = spoilt \cup Holders(signed[c].user)
      <3>1. PICK t \in Tokens : t = signed[c] /\ t.exp <= now + TTL
        BY DEF Inv, PendingSigned
      <3>2. SetToken(t) /\ spoilt' = spoilt \cup Holders(t.user)
        BY <2>1, <3>1
      <3>3. UnspoiltStored'
        BY <3>1, <3>2, SetSpoils DEF UnspoiltStored
      <3> QED
        BY <3>1, <3>2, <3>3, SetTokenFacts DEF Inv, TypeOK, Holders
    <2>2. CASE UNCHANGED <<stored, replaced, spoilt>>
      BY <2>2 DEF Inv, TypeOK, UnspoiltStored
    <2> QED
      BY <2>1, <2>2
  <1>3. faults' \in 0 .. MaxFaults
    BY SessionsAssumption DEF Inv, TypeOK, Fault
  <1>4. TypeOK'
    BY <1>1, <1>2, <1>3 DEF Inv, TypeOK
  <1>5. PendingSigned' /\ PresentedHeld'
    BY <1>1, OthersKeep
  <1> QED
    BY <1>2, <1>4, <1>5 DEF Inv

\* So does one that is applied and is to be sent again.
LEMMA SetAgainInv ==
    ASSUME Inv, NEW c \in Clients, SetAgain(c)
    PROVE  Inv'
  <1>1. PICK t \in Tokens : t = signed[c] /\ t.exp <= now + TTL
    BY DEF Inv, PendingSigned, SetAgain
  <1>2. /\ SetToken(t) /\ spoilt' = spoilt \cup Holders(t.user) /\ again' = again \cup {t}
        /\ UNCHANGED <<tok, signed, reply, now>>
    BY <1>1 DEF SetAgain
  <1>3. /\ pc' \in [Clients -> {"Idle", "Set", "Get"}]
        /\ at' \in [Clients -> 0 .. MaxTime]
        /\ \A d \in Clients : pc'[d] = pc[d]
    BY GotoTypes DEF Inv, TypeOK, SetAgain
  <1>4. faults' \in 0 .. MaxFaults
    BY SessionsAssumption DEF Inv, TypeOK, Fault, SetAgain
  <1>5. UnspoiltStored'
    BY <1>1, <1>2, SetSpoils DEF UnspoiltStored
  <1>6. TypeOK'
    BY <1>1, <1>2, <1>3, <1>4, SetTokenFacts DEF Inv, TypeOK, Holders
  <1>7. PendingSigned' /\ PresentedHeld'
    BY <1>2, <1>3 DEF Inv, PendingSigned, PresentedHeld
  <1> QED
    BY <1>5, <1>6, <1>7 DEF Inv

\* The middleware changes nothing but the client's own place and answer.
LEMMA MiddlewareInv ==
    ASSUME Inv, NEW c \in Clients, Present(c) \/ Get(c) \/ GetFails(c)
    PROVE  Inv'
  <1>1. /\ pc' \in [Clients -> {"Idle", "Set", "Get"}]
        /\ at' \in [Clients -> 0 .. MaxTime]
        /\ pc'[c] \in {"Idle", "Get"}
        /\ pc'[c] = "Get" => tok[c] # NoToken
        /\ \A d \in Clients \ {c} : pc'[d] = pc[d]
    BY GotoTypes DEF Inv, Present, Get, GetFails
  <1>2. /\ reply' \in [Clients -> {"none", "Admitted", "Refused"}]
        /\ faults' \in 0 .. MaxFaults
    BY SessionsAssumption DEF Inv, TypeOK, Present, Get, GetFails, Fault
  <1>3. UNCHANGED <<tok, signed, stored, now, spoilt, replaced, again>>
    BY DEF Present, Get, GetFails
  <1>4. TypeOK'
    BY <1>1, <1>2, <1>3 DEF Inv, TypeOK
  <1>5. PendingSigned' /\ PresentedHeld' /\ UnspoiltStored'
    BY <1>1, <1>3 DEF Inv, TypeOK, PendingSigned, PresentedHeld, UnspoiltStored
  <1> QED
    BY <1>4, <1>5 DEF Inv

\* Time brings no token closer to its hour than its key.
LEMMA TickInv ==
    ASSUME Inv, Tick
    PROVE  Inv'
  <1>1. TypeOK'
    BY SessionsAssumption DEF Inv, TypeOK, Tick
  <1>2. PendingSigned'
    <2>1. \A t \in Tokens : t.exp <= now + TTL => t.exp <= now' + TTL
      BY SessionsAssumption DEF Inv, TypeOK, Tick, Tokens
    <2> QED
      BY <2>1 DEF Inv, PendingSigned, Tick
  <1>3. PresentedHeld' /\ UnspoiltStored'
    BY DEF Inv, PresentedHeld, UnspoiltStored, Tick
  <1> QED
    BY <1>1, <1>2, <1>3 DEF Inv

\* Inv holds in every state the program reaches.
THEOREM InvHolds == Spec => []Inv
  <1>1. Inv /\ [Next]_vars => Inv'
    <2> SUFFICES ASSUME Inv, [Next]_vars PROVE Inv'
      OBVIOUS
    <2>1. CASE UNCHANGED vars
      BY <2>1 DEF vars, Inv, TypeOK, PendingSigned, PresentedHeld, UnspoiltStored
    <2>2. ASSUME NEW c \in Clients, NEW u \in Users, Login(c, u) PROVE Inv'
      BY <2>2, LoginInv
    <2>3. ASSUME NEW c \in Clients, Set(c) PROVE Inv'
      BY <2>3, SetInv
    <2>4. ASSUME NEW c \in Clients, SetFails(c) PROVE Inv'
      BY <2>4, SetFailsInv
    <2>5. ASSUME NEW c \in Clients, Leave(c) PROVE Inv'
      BY <2>5, LeaveInv
    <2>6. ASSUME NEW c \in Clients, Present(c) \/ Get(c) \/ GetFails(c) PROVE Inv'
      BY <2>6, MiddlewareInv
    <2>7. CASE Tick
      BY <2>7, TickInv
    <2>8. ASSUME NEW c \in Clients, SetAgain(c) PROVE Inv'
      BY <2>8, SetAgainInv
    <2> QED
      BY <2>1, <2>2, <2>3, <2>4, <2>5, <2>6, <2>7, <2>8 DEF Next
  <1> QED
    BY <1>1, InvInit, PTL DEF Spec

-----------------------------------------------------------------------------
(* Once: why a replaced token does not come back.  Only the pending Set of a *)
(* login can bring a token to Redis, and the token of a login that signed it *)
(* alone, and is not sent again, has not been there before.                  *)

\* A token under a user's key is the user's.
OwnKey ==
    \A u \in Users : stored[u].token # NoToken => stored[u].token.user = u

\* The pending token of a login that alone has signed it, and has not sent it yet,
\* is new to Redis.
NewToRedis ==
    \A c \in Clients :
        pc[c] = "Set" /\ Unexpired(signed[c]) /\ signed[c] \notin again =>
            /\ signed[c] \notin replaced
            /\ \A u \in Users : stored[u].token # signed[c]
            /\ \A d \in Clients \ {c} : signed[d] # signed[c]

\* A token that is in Redis after it was replaced was signed or sent twice.
BackIfTwice ==
    \A u \in Users :
        Unexpired(stored[u].token) /\ stored[u].token \in replaced
            => stored[u].token \in again

Once == OwnKey /\ NewToRedis /\ BackIfTwice

\* The pending Set of a login is applied; it is over, or noted as sent again.
LEMMA AppliedOnce ==
    ASSUME Inv, Once, NEW c \in Clients, pc[c] = "Set", SetToken(signed[c]),
           now' = now, again \subseteq again',
           pc'[c] = "Set" => signed'[c] \in again', signed'[c] \in {signed[c], NoToken},
           \A d \in Clients \ {c} : pc'[d] = pc[d] /\ signed'[d] = signed[d]
    PROVE  Once'
  <1>1. PICK t \in Tokens : t = signed[c] /\ t.user \in Users
    BY DEF Inv, PendingSigned, Tokens
  <1> DEFINE u == t.user
             old == stored[u].token
  <1>2. /\ stored'[u].token = t
        /\ \A v \in Users \ {u} : stored'[v] = stored[v]
        /\ replaced' = replaced \cup ({old} \ {t, NoToken})
    BY <1>1 DEF Inv, TypeOK, SetToken, TokenKey
  <1> HIDE DEF u, old
  <1>3. u = t.user /\ u \in Users /\ old = stored[u].token
    BY <1>1 DEF u, old
  <1>4. OwnKey'
    BY <1>2, <1>3 DEF Once, OwnKey
  <1>5. NewToRedis'
    <2> SUFFICES ASSUME NEW d \in Clients, pc'[d] = "Set", Unexpired(signed[d])',
                        signed'[d] \notin again'
                 PROVE  /\ signed'[d] \notin replaced'
                        /\ \A v \in Users : stored'[v].token # signed'[d]
                        /\ \A e \in Clients \ {d} : signed'[e] # signed'[d]
      BY DEF NewToRedis
    <2>1. d # c /\ signed'[d] = signed[d] /\ pc[d] = "Set" /\ signed[d] \notin again
      OBVIOUS
    <2>2. /\ signed[d] \notin replaced
          /\ \A v \in Users : stored[v].token # signed[d]
          /\ \A e \in Clients \ {d} : signed[e] # signed[d]
      BY <2>1 DEF Once, NewToRedis, Unexpired
    <2>3. signed[d] # t /\ signed[d] # old /\ signed[d] # NoToken
      BY <1>1, <1>3, <2>1, <2>2, NoTokenIsNone DEF Inv, PendingSigned
    <2> QED
      BY <1>2, <1>3, <2>1, <2>2, <2>3
  <1>6. BackIfTwice'
    <2> SUFFICES ASSUME NEW v \in Users, Unexpired(stored[v].token)',
                        stored'[v].token \in replaced'
                 PROVE  stored'[v].token \in again'
      BY DEF BackIfTwice
    <2>1. CASE v = u
      <3>1. stored'[v].token = t /\ t \in replaced /\ Unexpired(t)
        BY <1>2, <2>1 DEF Unexpired
      <3> QED
        BY <1>1, <3>1 DEF Once, NewToRedis
    <2>2. CASE v # u
      <3>1. stored'[v] = stored[v] /\ Unexpired(stored[v].token)
        BY <1>2, <2>2 DEF Unexpired
      <3>2. stored[v].token # old \/ old = NoToken
        BY <1>3, <2>2 DEF Once, OwnKey
      <3>3. stored[v].token \in replaced
        BY <1>2, <3>1, <3>2
      <3> QED
        BY <3>1, <3>3 DEF Once, BackIfTwice
    <2> QED
      BY <2>1, <2>2
  <1> QED
    BY <1>4, <1>5, <1>6 DEF Once

\* Redis is left alone, and no new token is pending.
LEMMA UntouchedOnce ==
    ASSUME Inv, Once, UNCHANGED <<stored, replaced, again, now>>,
           \A d \in Clients :
               /\ pc'[d] = "Set" => pc[d] = "Set" /\ signed'[d] = signed[d]
               /\ signed'[d] \in {signed[d], NoToken}
    PROVE  Once'
  <1>1. NewToRedis'
    <2> SUFFICES ASSUME NEW d \in Clients, pc'[d] = "Set", Unexpired(signed[d])',
                        signed'[d] \notin again'
                 PROVE  /\ signed'[d] \notin replaced'
                        /\ \A v \in Users : stored'[v].token # signed'[d]
                        /\ \A e \in Clients \ {d} : signed'[e] # signed'[d]
      BY DEF NewToRedis
    <2>1. signed'[d] = signed[d] /\ pc[d] = "Set" /\ signed[d] # NoToken
      BY NoTokenIsNone DEF Inv, PendingSigned
    <2>2. /\ signed[d] \notin replaced
          /\ \A v \in Users : stored[v].token # signed[d]
          /\ \A e \in Clients \ {d} : signed[e] # signed[d]
      BY <2>1 DEF Once, NewToRedis, Unexpired
    <2> QED
      BY <2>1, <2>2
  <1> QED
    BY <1>1 DEF Once, OwnKey, BackIfTwice, Unexpired

\* A login signs a token that is new, or notes that it is not.
LEMMA LoginOnce ==
    ASSUME Inv, Once, NEW c \in Clients, NEW u \in Users, Login(c, u)
    PROVE  Once'
  <1>1. PICK t : t = [user |-> u, exp |-> now + TTL]
    OBVIOUS
  <1>2. /\ UNCHANGED <<stored, now, replaced>>
        /\ again' = IF SignedBefore(t) THEN again \cup {t} ELSE again
        /\ signed'[c] = t /\ pc'[c] = "Set"
        /\ \A d \in Clients \ {c} : signed'[d] = signed[d] /\ pc'[d] = pc[d]
    BY <1>1, GotoTypes DEF Login, Inv, TypeOK
  <1>3. t \notin again' =>
          /\ t \notin replaced
          /\ \A v \in Users : stored[v].token # t
          /\ \A d \in Clients : signed[d] # t
    BY <1>2 DEF SignedBefore
  <1>4. NewToRedis'
    <2> SUFFICES ASSUME NEW d \in Clients, pc'[d] = "Set", Unexpired(signed[d])',
                        signed'[d] \notin again'
                 PROVE  /\ signed'[d] \notin replaced'
                        /\ \A v \in Users : stored'[v].token # signed'[d]
                        /\ \A e \in Clients \ {d} : signed'[e] # signed'[d]
      BY DEF NewToRedis
    <2>1. CASE d = c
      BY <1>2, <1>3, <2>1
    <2>2. CASE d # c
      <3>1. signed'[d] = signed[d] /\ pc[d] = "Set" /\ signed[d] \notin again
        BY <1>2, <2>2
      <3>2. /\ signed[d] \notin replaced
            /\ \A v \in Users : stored[v].token # signed[d]
            /\ \A e \in Clients \ {d} : signed[e] # signed[d]
        BY <1>2, <3>1 DEF Once, NewToRedis, Unexpired
      <3>3. t # signed[d]
        BY <1>2, <1>3, <3>1
      <3> QED
        BY <1>2, <2>2, <3>1, <3>2, <3>3
    <2> QED
      BY <2>1, <2>2
  <1>5. again \subseteq again'
    BY <1>2
  <1> QED
    BY <1>2, <1>4, <1>5 DEF Once, OwnKey, BackIfTwice, Unexpired

\* What has expired is forgotten; it is in nobody's way any more.
LEMMA TickOnce ==
    ASSUME Inv, Once, Tick
    PROVE  Once'
  <1>1. UNCHANGED <<stored, signed, pc>> /\ replaced' \subseteq replaced
    BY DEF Tick
  <1>2. \A t \in Tokens : Unexpired(t)' =>
          Unexpired(t) /\ (t \in again => t \in again')
    BY SessionsAssumption DEF Tick, Unexpired, Tokens, Inv, TypeOK
  <1>3. NewToRedis'
    BY <1>1, <1>2 DEF Once, NewToRedis, Inv, PendingSigned
  <1>4. BackIfTwice'
    BY <1>1, <1>2 DEF Once, BackIfTwice, Inv, TypeOK
  <1> QED
    BY <1>1, <1>3, <1>4 DEF Once, OwnKey

\* Once holds in every state the program reaches.
THEOREM OnceHolds == Spec => []Once
  <1>1. Init => Once
    <2> SUFFICES ASSUME Init PROVE Once
      OBVIOUS
    <2> QED
      BY DEF Init, Once, OwnKey, NewToRedis, BackIfTwice
  <1>2. Inv /\ Once /\ [Next]_vars => Once'
    <2> SUFFICES ASSUME Inv, Once, [Next]_vars PROVE Once'
      OBVIOUS
    <2>1. CASE UNCHANGED vars
      BY <2>1, UntouchedOnce DEF vars
    <2>2. ASSUME NEW c \in Clients, NEW u \in Users, Login(c, u) PROVE Once'
      BY <2>2, LoginOnce
    <2>3. ASSUME NEW c \in Clients, Set(c) \/ SetFails(c) \/ Leave(c) PROVE Once'
      <3>1. /\ pc[c] = "Set" /\ pc'[c] = "Idle" /\ signed'[c] = NoToken
            /\ \A d \in Clients \ {c} : pc'[d] = pc[d] /\ signed'[d] = signed[d]
            /\ UNCHANGED <<now, again>>
        BY <2>3, GotoTypes DEF Set, SetFails, Leave, HandOut, Inv, TypeOK
      <3>2. SetToken(signed[c]) \/ UNCHANGED <<stored, replaced>>
        BY <2>3 DEF Set, SetFails, Leave
      <3> QED
        BY <3>1, <3>2, AppliedOnce, UntouchedOnce
    <2>4. ASSUME NEW c \in Clients, Present(c) \/ Get(c) \/ GetFails(c) PROVE Once'
      <3>1. UNCHANGED <<stored, replaced, again, now, signed>>
        BY <2>4 DEF Present, Get, GetFails
      <3>2. pc'[c] # "Set" /\ \A d \in Clients \ {c} : pc'[d] = pc[d]
        BY <2>4, GotoTypes DEF Present, Get, GetFails, Inv
      <3> QED
        BY <3>1, <3>2, UntouchedOnce
    <2>5. CASE Tick
      BY <2>5, TickOnce
    <2>6. ASSUME NEW c \in Clients, SetAgain(c) PROVE Once'
      <3>1. /\ pc[c] = "Set" /\ signed' = signed /\ now' = now /\ SetToken(signed[c])
            /\ again' = again \cup {signed[c]}
            /\ \A d \in Clients \ {c} : pc'[d] = pc[d]
        BY <2>6, GotoTypes DEF SetAgain, Inv
      <3> QED
        BY <3>1, AppliedOnce
    <2> QED
      BY <2>1, <2>2, <2>3, <2>4, <2>5, <2>6 DEF Next
  <1> QED
    BY <1>1, <1>2, InvHolds, PTL DEF Spec

-----------------------------------------------------------------------------
\* The variables keep their types, for any clients, users and failures.
THEOREM TypeCorrect == Spec => []TypeOK
  <1>1. Inv => TypeOK
    BY DEF Inv
  <1> QED
    BY <1>1, InvHolds, PTL

\* A request is answered by the comparison itself, or by an error of Redis.
LEMMA AnsweredByGet ==
    ASSUME Inv, Next, NEW c \in Clients, NEW r \in {"Admitted", "Refused"}, Answers(c, r),
           r = "Admitted" \/ UNCHANGED faults
    PROVE  Get(c)
  <1>1. pc[c] = "Get" /\ pc'[c] = "Idle" /\ reply'[c] = r
    BY DEF Answers
  <1>2. \A d \in Clients, call \in {"Idle", "Set", "Get"} : Goto(d, call) => d = c
    BY <1>1, GotoTypes DEF Inv
  <1>3. \A d \in Clients, u \in Users : ~Login(d, u)
    BY <1>1, <1>2 DEF Login
  <1>4. \A d \in Clients : ~Set(d) /\ ~SetAgain(d) /\ ~SetFails(d) /\ ~Leave(d) /\ ~Present(d)
    BY <1>1, <1>2 DEF Set, SetAgain, SetFails, Leave, Present, HandOut
  <1>5. \A d \in Clients : ~GetFails(d)
    BY <1>1, <1>2, SessionsAssumption DEF GetFails, Fault, Inv, TypeOK
  <1>6. ~Tick
    BY <1>1 DEF Tick
  <1> QED
    BY <1>2, <1>3, <1>4, <1>5, <1>6 DEF Next, Get

\* Login and the middleware refuse an unexpired token that was handed out for no
\* other reason than a failed Set, a later Set of the user, or an error of Get.
THEOREM NoRefusalWithoutCause == Spec => RefusedForCause
  <1> DEFINE Step ==
        \A c \in Clients :
            Answers(c, "Refused") /\ UNCHANGED faults => c \in spoilt \/ ~Unexpired(tok[c])
  <1>1. Inv /\ [Next]_vars => [Step]_vars
    <2> SUFFICES ASSUME Inv, Next, NEW c \in Clients, Answers(c, "Refused"), UNCHANGED faults,
                        c \notin spoilt
                 PROVE  ~Unexpired(tok[c])
      OBVIOUS
    <2>1. Get(c)
      BY AnsweredByGet
    <2>2. Fetched(tok[c].user) # tok[c]
      BY <2>1 DEF Answers, Get, Matches, Inv, TypeOK
    <2>3. tok[c] \in Tokens /\ StillStored(tok[c], stored)
      BY <2>1, NoTokenIsNone DEF Get, Inv, PresentedHeld, UnspoiltStored
    <2>4. stored[tok[c].user].until \in Int /\ now \in Int /\ tok[c].exp \in Int
      BY <2>3, SessionsAssumption DEF Inv, TypeOK, Tokens
    <2> QED
      BY <2>2, <2>3, <2>4 DEF StillStored, Fetched, TokenKey, Unexpired
  <1> QED
    BY <1>1, InvHolds, PTL DEF Spec, RefusedForCause

\* The middleware does not let a replaced token in again while it is unexpired,
\* unless two logins signed it or the client library sent it to Redis twice.
THEOREM NoReturnOfReplaced == Spec => ReplacedStaysReplaced
  <1> DEFINE Step ==
        \A c \in Clients :
            Answers(c, "Admitted") /\ Unexpired(tok[c]) /\ tok[c] \in replaced
                => tok[c] \in again
  <1>1. Inv /\ Once /\ [Next]_vars => [Step]_vars
    <2> SUFFICES ASSUME Inv, Once, Next, NEW c \in Clients, Answers(c, "Admitted"),
                        Unexpired(tok[c]), tok[c] \in replaced
                 PROVE  tok[c] \in again
      OBVIOUS
    <2>1. Get(c)
      BY AnsweredByGet
    <2>2. Fetched(tok[c].user) = tok[c]
      BY <2>1 DEF Answers, Get, Matches, Inv, TypeOK
    <2>3. tok[c] \in Tokens /\ tok[c].user \in Users
      BY <2>1 DEF Get, Inv, PresentedHeld, Tokens
    <2>4. stored[tok[c].user].token = tok[c]
      BY <2>2, <2>3, NoTokenIsNone DEF Fetched, TokenKey
    <2> QED
      BY <2>3, <2>4 DEF Once, BackIfTwice
  <1> QED
    BY <1>1, InvHolds, OnceHolds, PTL DEF Spec, ReplacedStaysReplaced
=============================================================================
