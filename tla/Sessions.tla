------------------------------ MODULE Sessions ------------------------------
(***************************************************************************)
(* Login of internal/services/merch_service.go and the authentication      *)
(* middleware of internal/infrastructure/auth/middleware.go.  A login      *)
(* signs a token that expires an hour later and then sets it as the one    *)
(* token of its user in Redis, for an hour too; the middleware first       *)
(* checks the token's own expiry and then compares it with the one in      *)
(* Redis.  Signing and setting, checking and comparing are separate calls: *)
(* other logins, of other devices of the user, come between them.          *)
(***************************************************************************)
EXTENDS Integers, FiniteSets

CONSTANTS
    Clients,      \* devices; each logs in and uses the token it was given last
    Users,        \* registered users
    NoToken,      \* what a client has before it is given a token
    TTL,          \* life of a token and of its key in Redis, in ticks
    MaxDelay,     \* bound: ticks between two calls of one request
    MaxTime,      \* bound: ticks of the clock
    MaxFaults     \* bound: Redis calls that fail and clients that go away

ASSUME SessionsAssumption ==
    /\ TTL \in Nat \ {0}
    /\ MaxDelay \in Nat /\ MaxTime \in Nat /\ MaxFaults \in Nat
    /\ NoToken \notin [user : Users, exp : Nat]

VARIABLES
    pc,        \* pc[c]: the Redis call made next for client c
    tok,       \* tok[c]: the token client c was given last
    signed,    \* signed[c]: the token the pending login of c has signed
    at,        \* at[c]: when the pending request of c made its last step
    reply,     \* reply[c]: how the middleware answered c
    stored,    \* stored[u]: the token of user u in Redis, and when it is dropped
    faults,    \* calls that failed and clients that went away so far
    now,       \* the clock; a tick is a second, the precision of a token's expiry
    spoilt,    \* history: clients whose token was never set, or another one since
    replaced,  \* history: tokens another token has replaced in Redis
    again      \* history: tokens two logins have signed, and tokens the client library
               \* has sent to Redis twice; expired ones are forgotten

vars == <<pc, tok, signed, at, reply, stored, faults, now, spoilt, replaced, again>>

Goto(c, call) ==
    /\ pc' = [pc EXCEPT ![c] = call]
    /\ at' = [at EXCEPT ![c] = IF call = "Idle" THEN 0 ELSE now]

Fault ==
    /\ faults < MaxFaults
    /\ faults' = faults + 1

Init ==
    /\ pc = [c \in Clients |-> "Idle"]
    /\ tok = [c \in Clients |-> NoToken]
    /\ signed = [c \in Clients |-> NoToken]
    /\ at = [c \in Clients |-> 0]
    /\ reply = [c \in Clients |-> "none"]
    /\ stored = [u \in Users |-> [token |-> NoToken, until |-> 0]]
    /\ faults = 0
    /\ now = 0
    /\ spoilt = {}
    /\ replaced = {}
    /\ again = {}

-----------------------------------------------------------------------------
(* Tokens in Redis                                                         *)

\* Mutant of TokenKey: the key does not depend on the user.
BugSharedKey(u) == CHOOSE v \in Users : TRUE

\* The user under whose key a token is kept.
TokenKey(u) == u

\* Mutant of DroppedAt: the life of the key is added to what is left of it.
BugAddUp(u) == stored[TokenKey(u)].until + TTL

\* When Redis drops the token that is set for u now.
DroppedAt(u) == now + TTL

\* The token in Redis for u, as Get returns it.
Fetched(u) ==
    LET entry == stored[TokenKey(u)] IN
    IF now < entry.until THEN entry.token ELSE NoToken

SetToken(t) ==
    /\ stored' = [stored EXCEPT ![TokenKey(t.user)] =
                      [token |-> t, until |-> DroppedAt(t.user)]]
    /\ replaced' = replaced \cup ({stored[TokenKey(t.user)].token} \ {t, NoToken})

\* The clients that were given a token for u.
Holders(u) == {c \in Clients : tok[c] # NoToken /\ tok[c].user = u}

-----------------------------------------------------------------------------
(* Login                                                                   *)

\* Clients that have, or whose login has signed, a token of this login's user
\* and second: it is the same string.
SignedBefore(t) ==
    \/ \E c \in Clients : t \in {tok[c], signed[c]}
    \/ t \in replaced \cup {stored[u].token : u \in Users}

\* The password is right: a token is signed.  (A wrong one changes nothing.)
Login(c, u) ==
    LET t == [user |-> u, exp |-> now + TTL] IN
    /\ pc[c] = "Idle"
    /\ Goto(c, "Set")
    /\ signed' = [signed EXCEPT ![c] = t]
    /\ again' = IF SignedBefore(t) THEN again \cup {t} ELSE again
    /\ reply' = [reply EXCEPT ![c] = "none"]
    /\ UNCHANGED <<tok, stored, faults, now, spoilt, replaced>>

\* The client is answered with the token.
HandOut(c) ==
    /\ Goto(c, "Idle")
    /\ tok' = [tok EXCEPT ![c] = signed[c]]
    /\ signed' = [signed EXCEPT ![c] = NoToken]

\* The token is set for the user, whatever is there by now.
Set(c) ==
    /\ pc[c] = "Set"
    /\ SetToken(signed[c])
    /\ HandOut(c)
    /\ spoilt' = (spoilt \cup Holders(signed[c].user)) \ {c}
    /\ UNCHANGED <<reply, faults, now, again>>

\* Set is applied and its reply is lost: go-redis, which by default tries a command
\* three times more, sends it again, after whatever other logins have set by then.
SetAgain(c) ==
    /\ pc[c] = "Set"
    /\ Fault
    /\ SetToken(signed[c])
    /\ Goto(c, "Set")
    /\ spoilt' = spoilt \cup Holders(signed[c].user)
    /\ again' = again \cup {signed[c]}
    /\ UNCHANGED <<tok, signed, reply, now>>

\* Set fails, or is applied and reports an error, which is logged; the client is
\* answered with the token all the same.
SetFails(c) ==
    /\ pc[c] = "Set"
    /\ Fault
    /\ \/ SetToken(signed[c]) /\ spoilt' = (spoilt \cup Holders(signed[c].user)) \ {c}
       \/ UNCHANGED <<stored, replaced>> /\ spoilt' = spoilt \cup {c}
    /\ HandOut(c)
    /\ UNCHANGED <<reply, now, again>>

\* The client goes away before it is answered, with Set applied or not; it keeps
\* the token it had.
Leave(c) ==
    /\ pc[c] = "Set"
    /\ Fault
    /\ \/ SetToken(signed[c]) /\ spoilt' = spoilt \cup Holders(signed[c].user)
       \/ UNCHANGED <<stored, replaced, spoilt>>
    /\ Goto(c, "Idle")
    /\ signed' = [signed EXCEPT ![c] = NoToken]
    /\ UNCHANGED <<tok, reply, now, again>>

-----------------------------------------------------------------------------
(* The middleware                                                          *)

Unexpired(t) == now < t.exp

\* A protected request: jwt.Parse checks the token's expiry.
Present(c) ==
    /\ pc[c] = "Idle" /\ tok[c] # NoToken
    /\ IF Unexpired(tok[c])
         THEN Goto(c, "Get") /\ reply' = [reply EXCEPT ![c] = "none"]
         ELSE Goto(c, "Idle") /\ reply' = [reply EXCEPT ![c] = "Refused"]
    /\ UNCHANGED <<tok, signed, stored, faults, now, spoilt, replaced, again>>

\* Mutant of Matches: it is enough that the user has a token in Redis.
BugAnySession(c) == Fetched(tok[c].user) # NoToken

\* The token is the user's token in Redis.
Matches(c) == Fetched(tok[c].user) = tok[c]

\* Then it is compared with the user's token in Redis.
Get(c) ==
    /\ pc[c] = "Get"
    /\ Goto(c, "Idle")
    /\ reply' = [reply EXCEPT ![c] = IF Matches(c) THEN "Admitted" ELSE "Refused"]
    /\ UNCHANGED <<tok, signed, stored, faults, now, spoilt, replaced, again>>

\* An error of Get refuses the request like a token that was replaced.
GetFails(c) ==
    /\ pc[c] = "Get"
    /\ Fault
    /\ Goto(c, "Idle")
    /\ reply' = [reply EXCEPT ![c] = "Refused"]
    /\ UNCHANGED <<tok, signed, stored, now, spoilt, replaced, again>>

-----------------------------------------------------------------------------
Tick ==
    /\ now < MaxTime
    /\ \A c \in Clients : pc[c] # "Idle" => now - at[c] < MaxDelay
    /\ now' = now + 1
    /\ replaced' = {t \in replaced : now' < t.exp}
    /\ again' = {t \in again : now' < t.exp}
    /\ UNCHANGED <<pc, tok, signed, at, reply, stored, faults, spoilt>>

Next ==
    \/ \E c \in Clients :
          \/ \E u \in Users : Login(c, u)
          \/ Set(c) \/ SetAgain(c) \/ SetFails(c) \/ Leave(c)
          \/ Present(c) \/ Get(c) \/ GetFails(c)
    \/ Tick

Spec == Init /\ [][Next]_vars

-----------------------------------------------------------------------------
(* Properties                                                              *)

Tokens == [user : Users, exp : TTL .. MaxTime + TTL]

\* The variables have the values the code and the clock allow.
TypeOK ==
    /\ pc \in [Clients -> {"Idle", "Set", "Get"}]
    /\ tok \in [Clients -> Tokens \cup {NoToken}]
    /\ signed \in [Clients -> Tokens \cup {NoToken}]
    /\ at \in [Clients -> 0 .. MaxTime]
    /\ reply \in [Clients -> {"none", "Admitted", "Refused"}]
    /\ stored \in [Users -> [token : Tokens \cup {NoToken}, until : 0 .. MaxTime + TTL]]
    /\ faults \in 0 .. MaxFaults
    /\ now \in 0 .. MaxTime
    /\ spoilt \subseteq Clients
    /\ replaced \subseteq Tokens /\ again \subseteq Tokens

\* How the comparison with Redis ends in a step.
Answers(c, r) == pc[c] = "Get" /\ pc'[c] = "Idle" /\ reply'[c] = r

\* A token that was handed out is accepted for its hour: a client whose unexpired
\* token is refused, and not by an error of Redis, has one that was never set,
\* because Set failed, or that another login of the same user has replaced since.
\* No login of another user, no slow login and no expiry of the key before that
\* of the token takes a session away.
RefusedForCause ==
    [][\A c \in Clients :
          Answers(c, "Refused") /\ UNCHANGED faults => c \in spoilt \/ ~Unexpired(tok[c])]_vars

\* A token that another login has replaced is not let in again in its hour, however
\* late a Set comes, with two exceptions: two logins signed it in the same second,
\* which makes them one token, or the reply to its own Set was lost and the client
\* library sent it once more, over the newer token.
ReplacedStaysReplaced ==
    [][\A c \in Clients :
          Answers(c, "Admitted") /\ Unexpired(tok[c]) /\ tok[c] \in replaced
              => tok[c] \in again]_vars
=============================================================================
