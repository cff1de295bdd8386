------------------------------ MODULE WebProofs ------------------------------
(***************************************************************************)
(* Theorems about the web side (MCWeb).  Each part has an inductive        *)
(* invariant; a part that is not chosen stays as it is, so that the        *)
(* conjunction of the invariants is one of the composed system.            *)
(***************************************************************************)
EXTENDS MCWeb, FiniteSetTheorems, SequenceTheorems, Totals, TLAPS


-----------------------------------------------------------------------------
(* JWT *)

JwtCalls == [pc : {"idle", "drop", "parse"}, token : Tokens \cup {0},
             out : {"none", "refused", "user", "guest", "let_in"}, sure : BOOLEAN]
JwtShaped ==
    /\ jwt \in [now : Nat \ {0}, dies : [Tokens -> 0..(MaxTime + Life)], black : [Tokens -> Nat],
                revoked : SUBSET Tokens, ever : SUBSET Tokens,
                call : [Callers -> JwtCalls]]
    /\ jwt.now <= MaxTime
    /\ \A c \in Callers : jwt.call[c].pc # "idle" => jwt.call[c].token \in Tokens /\ jwt.call[c].out = "none"

Expired(t) == jwt.dies[t] # 0 /\ jwt.now >= jwt.dies[t]

(* Who finds an entry whose time is over has found one, so that a first     *)
(* revocation is not deleted before the token itself has expired; and who   *)
(* began to check a revoked token and was not refused holds an expired one. *)
RevocationsLast ==
    /\ \A t \in Tokens : jwt.black[t] # 0 => t \in jwt.ever
    /\ \A c \in Callers : jwt.call[c].pc = "drop" => jwt.call[c].token \in jwt.ever
    /\ \A t \in jwt.revoked :
        /\ t \in jwt.ever /\ jwt.dies[t] # 0
        /\ \/ Expired(t)
           \/ /\ jwt.black[t] >= jwt.dies[t]
              /\ \A c \in Callers : ~(jwt.call[c].pc = "drop" /\ jwt.call[c].token = t)
    /\ \A c \in Callers : jwt.call[c].sure => jwt.call[c].pc # "idle" /\ Expired(jwt.call[c].token)

JwtInv == JwtShaped /\ RevocationsLast

LEMMA JwtStart == Guard!GuardsInit => JwtInv
<1>1. SUFFICES ASSUME Guard!GuardsInit PROVE JwtInv
  OBVIOUS
<1>2. jwt = [now |-> 1, dies |-> [t \in Tokens |-> 0], black |-> [t \in Tokens |-> 0], revoked |-> {}, ever |-> {},
             call |-> [c \in Callers |-> [pc |-> "idle", token |-> 0, out |-> "none", sure |-> FALSE]]]
  BY <1>1 DEF Guard!GuardsInit, Guard!Nothing
<1>3. JwtShaped
  BY <1>2, WebAssumption DEF JwtShaped, JwtCalls
<1>4. RevocationsLast
  BY <1>2 DEF RevocationsLast
<1>5. QED
  BY <1>3, <1>4 DEF JwtInv

LEMMA JwtStays == JwtInv /\ UNCHANGED jwt => JwtInv'
  BY DEF JwtInv, JwtShaped, RevocationsLast, Expired

LEMMA JwtStep == JwtInv /\ Guard!JwtNext => JwtInv'
<1>1. SUFFICES ASSUME JwtInv, Guard!JwtNext PROVE JwtInv'
  OBVIOUS
<1>2. JwtShaped /\ RevocationsLast
  BY <1>1 DEF JwtInv
<1>0. ASSUME NEW c \in Callers, NEW v \in JwtCalls, v.pc # "idle" => v.token \in Tokens /\ v.out = "none",
             \/ jwt' = [jwt EXCEPT !.call[c] = v]
             \/ \E t \in Tokens : jwt' = [jwt EXCEPT !.black[t] = 0, !.call[c] = v]
      PROVE  JwtShaped'
  <2>1. /\ jwt'.now = jwt.now /\ jwt'.dies = jwt.dies /\ jwt'.revoked = jwt.revoked /\ jwt'.ever = jwt.ever
        /\ jwt'.call = [jwt.call EXCEPT ![c] = v] /\ DOMAIN jwt' = DOMAIN jwt
        /\ jwt'.black \in [Tokens -> Nat]
        /\ jwt' = [now |-> jwt'.now, dies |-> jwt'.dies, black |-> jwt'.black, revoked |-> jwt'.revoked,
                   ever |-> jwt'.ever, call |-> jwt'.call]
    <3>1. CASE jwt' = [jwt EXCEPT !.call[c] = v]
      BY <1>2, <3>1 DEF JwtShaped
    <3>2. CASE \E t \in Tokens : jwt' = [jwt EXCEPT !.black[t] = 0, !.call[c] = v]
      <4>1. PICK t \in Tokens : jwt' = [jwt EXCEPT !.black[t] = 0, !.call[c] = v]
        BY <3>2
      <4>2. jwt'.black = [jwt.black EXCEPT ![t] = 0]
        BY <1>2, <4>1 DEF JwtShaped
      <4>3. jwt'.black \in [Tokens -> Nat]
        BY <1>2, <4>2 DEF JwtShaped
      <4>4. QED
        BY <1>2, <4>1, <4>3 DEF JwtShaped
    <3>3. QED
      BY <1>0, <3>1, <3>2
  <2>2. jwt'.call \in [Callers -> JwtCalls] /\ \A d \in Callers \ {c} : jwt'.call[d] = jwt.call[d]
    BY <1>2, <2>1 DEF JwtShaped
  <2>3. QED
    BY <1>2, <1>0, <2>1, <2>2, ZenonT(60) DEF JwtShaped
<1>3. ASSUME NEW t \in Tokens, jwt.dies[t] = 0, jwt' = [jwt EXCEPT !.dies[t] = jwt.now + Life]
      PROVE  JwtInv'
  <2>1. JwtShaped'
    BY <1>2, <1>3, WebAssumption DEF JwtShaped
  <2>2. t \notin jwt.revoked /\ \A c \in Callers : jwt.call[c].sure => jwt.call[c].token # t
    BY <1>2, <1>3 DEF RevocationsLast, Expired
  <2>3. RevocationsLast'
    BY <1>2, <1>3, <2>2 DEF JwtShaped, RevocationsLast, Expired
  <2>4. QED
    BY <2>1, <2>3 DEF JwtInv
<1>4. ASSUME NEW t \in Tokens, NEW span \in {1, Life}, Guard!RevokeToken(t, span)
      PROVE  JwtInv'
  <2>1. JwtShaped'
    <3>1. jwt.now + span \in Nat
      BY <1>2, WebAssumption DEF JwtShaped
    <3>2. PICK R \in SUBSET (jwt.revoked \cup {t}) :
             jwt' = [jwt EXCEPT !.black[t] = jwt.now + span, !.ever = @ \cup {t}, !.revoked = R]
      BY <1>4 DEF Guard!RevokeToken
    <3>3. QED
      BY <1>2, <3>1, <3>2 DEF JwtShaped
  <2>2. RevocationsLast'
    BY <1>2, <1>4, WebAssumption DEF JwtShaped, RevocationsLast, Expired, Guard!RevokeToken, Guard!Nothing
  <2>3. QED
    BY <2>1, <2>2 DEF JwtInv
<1>5. ASSUME NEW c \in Callers, NEW t \in Tokens, Guard!IsTokenRevoked(c, t) PROVE JwtInv'
  <2>1. JwtShaped'
    <3> DEFINE v == IF jwt.black[t] = 0 THEN [pc |-> "parse", token |-> t, out |-> "none", sure |-> t \in jwt.revoked]
                    ELSE IF jwt.now > jwt.black[t] THEN [pc |-> "drop", token |-> t, out |-> "none", sure |-> t \in jwt.revoked]
                    ELSE [pc |-> "idle", token |-> 0, out |-> "refused", sure |-> FALSE]
    <3>1. jwt' = [jwt EXCEPT !.call[c] = v]
      BY <1>5 DEF Guard!IsTokenRevoked, Guard!Refused, Guard!Nothing
    <3>2. v \in JwtCalls /\ (v.pc # "idle" => v.token \in Tokens /\ v.out = "none")
      BY DEF JwtCalls
    <3> HIDE DEF v
    <3>3. QED
      BY <1>0, <3>1, <3>2
  <2>2. RevocationsLast'
    <3> DEFINE go(pc) == [pc |-> pc, token |-> t, out |-> "none", sure |-> t \in jwt.revoked]
    <3>1. CASE jwt.black[t] = 0
      <4>1. jwt' = [jwt EXCEPT !.call[c] = go("parse")]
        BY <1>5, <3>1 DEF Guard!IsTokenRevoked, Guard!Nothing
      <4>2. t \in jwt.revoked => Expired(t)
        BY <1>2, <3>1 DEF JwtShaped, RevocationsLast
      <4>3. QED
        BY <1>2, <4>1, <4>2, ZenonT(60) DEF JwtShaped, RevocationsLast, Expired
    <3>2. CASE jwt.black[t] # 0 /\ jwt.now > jwt.black[t]
      <4>1. jwt' = [jwt EXCEPT !.call[c] = go("drop")]
        BY <1>5, <3>2 DEF Guard!IsTokenRevoked, Guard!Nothing
      <4>2. t \in jwt.ever /\ (t \in jwt.revoked => Expired(t))
        BY <1>2, <3>2 DEF JwtShaped, RevocationsLast, Expired
      <4>3. QED
        BY <1>2, <4>1, <4>2, ZenonT(60) DEF JwtShaped, RevocationsLast, Expired
    <3>3. CASE jwt.black[t] # 0 /\ ~(jwt.now > jwt.black[t])
      <4>1. jwt' = [jwt EXCEPT !.call[c] = [pc |-> "idle", token |-> 0, out |-> "refused", sure |-> FALSE]]
        BY <1>5, <3>3 DEF Guard!IsTokenRevoked, Guard!Nothing, Guard!Refused
      <4>2. QED
        BY <1>2, <4>1 DEF JwtShaped, RevocationsLast, Expired
    <3>4. QED
      BY <3>1, <3>2, <3>3
  <2>3. QED
    BY <2>1, <2>2 DEF JwtInv
<1>6. ASSUME NEW c \in Callers, NEW t \in Tokens, Guard!OptionalJWT(c, t) PROVE JwtInv'
  <2> DEFINE v == [pc |-> "idle", token |-> 0, sure |-> FALSE, out |-> IF Guard!Valid(t) THEN "user" ELSE "guest"]
  <2>1. jwt' = [jwt EXCEPT !.call[c] = v]
    BY <1>6 DEF Guard!OptionalJWT, Guard!Nothing
  <2>2. v \in JwtCalls /\ v.pc = "idle" /\ v.sure = FALSE
    BY DEF JwtCalls
  <2> HIDE DEF v
  <2>3. JwtShaped'
    BY <1>0, <2>1, <2>2
  <2>4. RevocationsLast'
    BY <1>2, <2>1, <2>2 DEF JwtShaped, RevocationsLast, Expired
  <2>5. QED
    BY <2>3, <2>4 DEF JwtInv
<1>7. ASSUME NEW c \in Callers, Guard!DropExpired(c) PROVE JwtInv'
  <2>1. JwtShaped'
    <3> DEFINE v == [jwt.call[c] EXCEPT !.pc = "parse"]
    <3>1. jwt.call[c] \in JwtCalls /\ jwt.call[c].token \in Tokens /\ jwt.call[c].out = "none"
      BY <1>2, <1>7 DEF JwtShaped, Guard!DropExpired, Guard!Checking
    <3>2. jwt' = [jwt EXCEPT !.black[jwt.call[c].token] = 0, !.call[c] = v]
      BY <1>2, <1>7 DEF Guard!DropExpired, Guard!Nothing, JwtShaped
    <3>3. v \in JwtCalls /\ v.token \in Tokens /\ v.out = "none"
      BY <3>1 DEF JwtCalls
    <3> HIDE DEF v
    <3>4. QED
      BY <1>0, <3>1, <3>2, <3>3
  <2>2. RevocationsLast'
    BY <1>2, <1>7 DEF JwtShaped, RevocationsLast, Expired, Guard!DropExpired, Guard!Nothing, Guard!Checking
  <2>3. QED
    BY <2>1, <2>2 DEF JwtInv
<1>8. ASSUME NEW c \in Callers, Guard!ParseToken(c) PROVE JwtInv'
  <2>1. JwtShaped'
    <3> DEFINE v == IF Guard!Valid(jwt.call[c].token)
                    THEN [jwt.call[c] EXCEPT !.pc = "idle", !.token = 0, !.out = "user"]
                    ELSE [pc |-> "idle", token |-> 0, out |-> "refused", sure |-> FALSE]
    <3>1. jwt' = [jwt EXCEPT !.call[c] = v]
      BY <1>8 DEF Guard!ParseToken, Guard!Nothing, Guard!Refused
    <3>2. jwt.call[c] \in JwtCalls
      BY <1>2 DEF JwtShaped
    <3>3. v \in JwtCalls /\ v.pc = "idle"
      BY <3>2 DEF JwtCalls
    <3> HIDE DEF v
    <3>4. QED
      BY <1>0, <3>1, <3>3
  <2>2. RevocationsLast'
    BY <1>2, <1>8 DEF JwtShaped, RevocationsLast, Expired, Guard!ParseToken, Guard!Nothing, Guard!Checking, Guard!Refused, Guard!Valid
  <2>3. QED
    BY <2>1, <2>2 DEF JwtInv
<1>9. ASSUME NEW c \in Callers, NEW allowed \in BOOLEAN, Guard!RoleAuth(c, allowed) PROVE JwtInv'
  <2>1. JwtShaped'
    <3> DEFINE v == [jwt.call[c] EXCEPT !.out = IF jwt.call[c].out = "user" /\ allowed THEN "let_in" ELSE "refused"]
    <3>1. jwt' = [jwt EXCEPT !.call[c] = v]
      BY <1>2, <1>9 DEF Guard!RoleAuth, JwtShaped
    <3>2. jwt.call[c] \in JwtCalls /\ jwt.call[c].pc = "idle"
      BY <1>2, <1>9 DEF JwtShaped, Guard!RoleAuth, Guard!Checking
    <3>3. v \in JwtCalls /\ v.pc = "idle"
      BY <3>2 DEF JwtCalls
    <3> HIDE DEF v
    <3>4. QED
      BY <1>0, <3>1, <3>3
  <2>2. RevocationsLast'
    BY <1>2, <1>9 DEF JwtShaped, RevocationsLast, Expired, Guard!RoleAuth, Guard!Checking
  <2>3. QED
    BY <2>1, <2>2 DEF JwtInv
<1>10. ASSUME Guard!JwtTick PROVE JwtInv'
  BY <1>2, <1>10, WebAssumption DEF JwtInv, JwtShaped, RevocationsLast, Expired, Guard!JwtTick
<1>11. ASSUME NEW t \in Tokens, Guard!GenerateToken(t) PROVE JwtInv'
  BY <1>3, <1>11 DEF Guard!GenerateToken, Guard!Nothing
<1>12. ASSUME NEW t \in Tokens, NEW new \in Tokens, Guard!RefreshToken(t, new) PROVE JwtInv'
  BY <1>3, <1>12 DEF Guard!RefreshToken, Guard!Nothing
<1>13. QED
  BY <1>1, <1>4, <1>5, <1>6, <1>7, <1>8, <1>9, <1>10, <1>11, <1>12 DEF Guard!JwtNext

LEMMA JwtHolds == JwtInv => Guard!RevokedRefused /\ \A t \in Tokens : jwt.dies[t] \in 0..MaxTime + Life
<1>1. SUFFICES ASSUME JwtInv PROVE Guard!RevokedRefused /\ \A t \in Tokens : jwt.dies[t] \in 0..MaxTime + Life
  OBVIOUS
<1>2. Guard!RevokedRefused
  BY <1>1 DEF JwtInv, JwtShaped, RevocationsLast, Guard!RevokedRefused
<1>3. QED
  BY <1>1, <1>2 DEF JwtInv, JwtShaped

-----------------------------------------------------------------------------
(* Sessions *)

Numbered == 1..sessions.made
SessionCalls == [pc : {"idle", "check", "touch", "delete"}, id : Ids \cup {0}, session : 0..MaxSessions,
                 out : 0..MaxSessions, gone : SUBSET (1..MaxSessions)]
SessionsShaped ==
    /\ sessions \in [now : Nat, map : [Ids -> 0..MaxSessions], last : [1..MaxSessions -> Nat], made : 0..MaxSessions,
                     gone : SUBSET (1..MaxSessions), call : [Callers -> SessionCalls]]
    /\ \A c \in Callers : sessions.call[c].pc # "idle" => sessions.call[c].id \in Ids /\ sessions.call[c].session # 0

(* A session is under one id until it is gone; what a call has found was    *)
(* not gone when it looked.                                                 *)
SessionsLeave ==
    /\ \A i \in Ids : sessions.map[i] \in Numbered \cup {0} /\ sessions.map[i] \notin sessions.gone
    /\ \A i, j \in Ids : i # j /\ sessions.map[i] = sessions.map[j] => sessions.map[i] = 0
    /\ sessions.gone \subseteq Numbered
    /\ \A c \in Callers : {sessions.call[c].session, sessions.call[c].out} \cap sessions.call[c].gone = {}

SessionsInv == SessionsShaped /\ SessionsLeave

LEMMA SessionsStart == Guard!GuardsInit => SessionsInv
<1>1. SUFFICES ASSUME Guard!GuardsInit PROVE SessionsInv
  OBVIOUS
<1>2. sessions = [now |-> 1, map |-> [i \in Ids |-> 0], last |-> [s \in 1..MaxSessions |-> 0], made |-> 0, gone |-> {},
                  call |-> [c \in Callers |-> [pc |-> "idle", id |-> 0, session |-> 0, out |-> 0, gone |-> {}]]]
  BY <1>1 DEF Guard!GuardsInit, Guard!Nothing
<1>3. SessionsShaped
  BY <1>2, WebAssumption DEF SessionsShaped, SessionCalls
<1>4. SessionsLeave
  BY <1>2 DEF SessionsLeave, Numbered
<1>5. QED
  BY <1>3, <1>4 DEF SessionsInv

LEMMA SessionsStay == SessionsInv /\ UNCHANGED sessions => SessionsInv'
  BY DEF SessionsInv, SessionsShaped, SessionsLeave, Numbered

LEMMA SessionsStep == SessionsInv /\ Guard!SessionsNext => SessionsInv'
<1>1. SUFFICES ASSUME SessionsInv, Guard!SessionsNext PROVE SessionsInv'
  OBVIOUS
<1>2. SessionsShaped /\ SessionsLeave /\ MaxSessions \in Nat
  BY <1>1, WebAssumption DEF SessionsInv
(* A call goes on. *)
<1>3. ASSUME NEW c \in Callers, NEW v \in SessionCalls, v.pc # "idle" => v.id \in Ids /\ v.session # 0,
             {v.session, v.out} \cap v.gone = {}, sessions' = [sessions EXCEPT !.call[c] = v]
      PROVE  SessionsInv'
  <2>1. SessionsShaped'
    BY <1>2, <1>3 DEF SessionsShaped
  <2>2. SessionsLeave'
    BY <1>2, <1>3 DEF SessionsShaped, SessionsLeave, Numbered
  <2>3. QED
    BY <2>1, <2>2 DEF SessionsInv
(* Ids lose their sessions. *)
<1>4. ASSUME NEW S \in SUBSET Ids
      PROVE  \E m, G :
             /\ Guard!Without(S) = [sessions EXCEPT !.map = m, !.gone = G]
             /\ m \in [Ids -> 0..MaxSessions] /\ G \subseteq Numbered /\ G \subseteq 1..MaxSessions
             /\ \A i \in Ids : m[i] \in Numbered \cup {0} /\ m[i] \notin G
             /\ \A i, j \in Ids : i # j /\ m[i] = m[j] => m[i] = 0
  <2> DEFINE m == [i \in Ids |-> IF i \in S THEN 0 ELSE sessions.map[i]]
             G == sessions.gone \cup ({sessions.map[i] : i \in S} \ {0})
  <2>1. Guard!Without(S) = [sessions EXCEPT !.map = m, !.gone = G]
    BY DEF Guard!Without, Guard!Removed, Guard!Nothing
  <2>2. \A i \in Ids : sessions.map[i] \in 0..MaxSessions /\ m[i] = IF i \in S THEN 0 ELSE sessions.map[i]
    BY <1>2 DEF SessionsShaped
  <2>3. ASSUME NEW x \in G PROVE x \in Numbered /\ x \in 1..MaxSessions /\ x # 0
    <3>1. CASE x \in sessions.gone
      BY <1>2, <3>1 DEF SessionsLeave, SessionsShaped, Numbered
    <3>2. CASE \E i \in S : x = sessions.map[i] /\ x # 0
      BY <1>2, <3>2 DEF SessionsLeave, SessionsShaped, Numbered
    <3>3. QED
      BY <2>3, <3>1, <3>2
  <2>4. ASSUME NEW i \in Ids PROVE m[i] \in Numbered \cup {0} /\ m[i] \notin G
    <3>1. CASE m[i] = 0
      BY <2>3, <3>1
    <3>2. CASE m[i] # 0
      <4>1. i \notin S /\ m[i] = sessions.map[i] /\ m[i] \in Numbered
        BY <1>2, <2>2, <3>2 DEF SessionsLeave
      <4>2. m[i] \notin sessions.gone /\ \A j \in S : sessions.map[j] # m[i]
        BY <1>2, <3>2, <4>1 DEF SessionsLeave
      <4>3. QED
        BY <4>1, <4>2
    <3>3. QED
      BY <3>1, <3>2
  <2>5. \A i, j \in Ids : i # j /\ m[i] = m[j] => m[i] = 0
    BY <1>2, <2>2 DEF SessionsLeave
  <2>6. m \in [Ids -> 0..MaxSessions]
    BY <1>2, <2>2
  <2> HIDE DEF m, G
  <2>7. QED
    BY <2>1, <2>3, <2>4, <2>5, <2>6
<1>5. ASSUME NEW S \in SUBSET Ids, sessions' = Guard!Without(S) PROVE SessionsInv'
  <2>1. PICK m, G :
           /\ sessions' = [sessions EXCEPT !.map = m, !.gone = G]
           /\ m \in [Ids -> 0..MaxSessions] /\ G \subseteq Numbered /\ G \subseteq 1..MaxSessions
           /\ \A i \in Ids : m[i] \in Numbered \cup {0} /\ m[i] \notin G
           /\ \A i, j \in Ids : i # j /\ m[i] = m[j] => m[i] = 0
    BY <1>4, <1>5
  <2>2. /\ sessions'.map = m /\ sessions'.gone = G /\ sessions'.last = sessions.last
        /\ sessions'.made = sessions.made /\ sessions'.now = sessions.now /\ sessions'.call = sessions.call
        /\ sessions' = [now |-> sessions.now, map |-> m, last |-> sessions.last, made |-> sessions.made,
                        gone |-> G, call |-> sessions.call]
    BY <1>2, <2>1 DEF SessionsShaped
  <2>3. SessionsShaped'
    BY <1>2, <2>1, <2>2 DEF SessionsShaped
  <2>4. SessionsLeave'
    BY <1>2, <2>1, <2>2 DEF SessionsLeave, Numbered
  <2>5. QED
    BY <2>3, <2>4, SMTT(60) DEF SessionsInv
<1>6. ASSUME NEW i \in Ids, Guard!CreateSession(i) PROVE SessionsInv'
  <2> DEFINE s == sessions.made + 1
             G == sessions.gone \cup ({sessions.map[j] : j \in {i}} \ {0})
  <2>1. s \in 1..MaxSessions /\ s \notin sessions.gone /\ \A j \in Ids : sessions.map[j] # s
    BY <1>2, <1>6 DEF SessionsShaped, SessionsLeave, Numbered, Guard!CreateSession
  <2>2. sessions' = [sessions EXCEPT !.made = s, !.map[i] = s, !.last[s] = sessions.now, !.gone = G]
    BY <1>6 DEF Guard!CreateSession, Guard!Removed, Guard!Nothing
  <2>3. G \in SUBSET Numbered /\ G \subseteq 1..MaxSessions /\ s \notin G
    BY <1>2, <2>1 DEF SessionsShaped, SessionsLeave, Numbered
  <2>4. \A j \in Ids \ {i} : sessions.map[j] \notin G
    BY <1>2 DEF SessionsLeave
  <2>5. /\ sessions'.map = [sessions.map EXCEPT ![i] = s] /\ sessions'.last = [sessions.last EXCEPT ![s] = sessions.now]
        /\ sessions'.made = s /\ sessions'.gone = G /\ sessions'.now = sessions.now /\ sessions'.call = sessions.call
        /\ sessions' = [now |-> sessions'.now, map |-> sessions'.map, last |-> sessions'.last, made |-> s, gone |-> G,
                        call |-> sessions'.call]
    BY <1>2, <2>2 DEF SessionsShaped
  <2> HIDE DEF G
  <2>6. SessionsShaped'
    <3>1. sessions'.map \in [Ids -> 0..MaxSessions] /\ sessions'.last \in [1..MaxSessions -> Nat]
      BY <1>2, <2>1, <2>5 DEF SessionsShaped
    <3>2. QED
      <4>1. G \in SUBSET (1..MaxSessions) /\ s \in 0..MaxSessions /\ sessions.now \in Nat /\ sessions.call \in [Callers -> SessionCalls]
        BY <1>2, <2>1, <2>3 DEF SessionsShaped
      <4>2. sessions' \in [now : Nat, map : [Ids -> 0..MaxSessions], last : [1..MaxSessions -> Nat], made : 0..MaxSessions,
                           gone : SUBSET (1..MaxSessions), call : [Callers -> SessionCalls]]
        BY <2>5, <3>1, <4>1
      <4>3. QED
        BY <1>2, <2>5, <4>2 DEF SessionsShaped
  <2>7. SessionsLeave'
    BY <1>2, <2>1, <2>3, <2>4, <2>5 DEF SessionsShaped, SessionsLeave, Numbered
  <2>8. QED
    BY <2>6, <2>7 DEF SessionsInv
<1>7. ASSUME NEW c \in Callers, NEW i \in Ids, Guard!ReadSession(c, i) PROVE SessionsInv'
  <2> DEFINE v == [pc |-> IF sessions.map[i] = 0 THEN "idle" ELSE "check", id |-> i, session |-> sessions.map[i],
                   out |-> 0, gone |-> sessions.gone]
  <2>1. sessions' = [sessions EXCEPT !.call[c] = v]
    BY <1>7 DEF Guard!ReadSession, Guard!Nothing
  <2>2. v \in SessionCalls /\ (v.pc # "idle" => v.id \in Ids /\ v.session # 0) /\ {v.session, v.out} \cap v.gone = {}
    BY <1>2 DEF SessionsShaped, SessionsLeave, SessionCalls, Numbered
  <2> HIDE DEF v
  <2>3. QED
    BY <1>3, <2>1, <2>2
<1>8. ASSUME NEW c \in Callers PROVE /\ sessions.call[c] \in SessionCalls
                                     /\ {sessions.call[c].session, sessions.call[c].out} \cap sessions.call[c].gone = {}
                                     /\ sessions.call[c].pc # "idle" => sessions.call[c].id \in Ids /\ sessions.call[c].session # 0
  BY <1>2 DEF SessionsShaped, SessionsLeave
<1>9. ASSUME NEW c \in Callers, Guard!IsActive(c) PROVE SessionsInv'
  <2> DEFINE v == [sessions.call[c] EXCEPT !.pc = IF Guard!Active(sessions.call[c].session) THEN "touch" ELSE "delete"]
  <2>1. sessions' = [sessions EXCEPT !.call[c] = v] /\ sessions.call[c].pc = "check"
    BY <1>2, <1>9 DEF Guard!IsActive, Guard!InGet, SessionsShaped
  <2>2. v \in SessionCalls /\ (v.pc # "idle" => v.id \in Ids /\ v.session # 0) /\ {v.session, v.out} \cap v.gone = {}
    BY <1>8, <2>1 DEF SessionCalls
  <2> HIDE DEF v
  <2>3. QED
    BY <1>3, <2>1, <2>2
<1>10. ASSUME NEW c \in Callers, Guard!Touch(c) PROVE SessionsInv'
  <2> DEFINE s == sessions.call[c].session
             v == [sessions.call[c] EXCEPT !.pc = "idle", !.out = s]
  <2>1. s \in 1..MaxSessions
    BY <1>2, <1>8, <1>10 DEF Guard!Touch, Guard!InGet, SessionCalls
  <2>2. /\ sessions'.map = sessions.map /\ sessions'.last = [sessions.last EXCEPT ![s] = sessions.now]
        /\ sessions'.made = sessions.made /\ sessions'.gone = sessions.gone /\ sessions'.now = sessions.now
        /\ sessions'.call = [sessions.call EXCEPT ![c] = v]
        /\ sessions' = [now |-> sessions'.now, map |-> sessions'.map, last |-> sessions'.last, made |-> sessions'.made,
                        gone |-> sessions'.gone, call |-> sessions'.call]
    BY <1>2, <1>10 DEF Guard!Touch, SessionsShaped
  <2>3. v \in SessionCalls /\ v.pc = "idle" /\ {v.session, v.out} \cap v.gone = {}
    BY <1>8 DEF SessionCalls
  <2> HIDE DEF v, s
  <2>4. SessionsShaped'
    BY <1>2, <2>1, <2>2, <2>3, ZenonT(60) DEF SessionsShaped
  <2>5. SessionsLeave'
    BY <1>2, <2>2, <2>3 DEF SessionsShaped, SessionsLeave, Numbered
  <2>6. QED
    BY <2>4, <2>5 DEF SessionsInv
<1>11. ASSUME NEW c \in Callers, Guard!DropSession(c) PROVE SessionsInv'
  <2> DEFINE v == [sessions.call[c] EXCEPT !.pc = "idle"]
  <2>1. sessions.call[c].id \in Ids
    BY <1>8, <1>11 DEF Guard!DropSession, Guard!InGet
  <2>2. PICK m, G :
           /\ Guard!Without({sessions.call[c].id}) = [sessions EXCEPT !.map = m, !.gone = G]
           /\ m \in [Ids -> 0..MaxSessions] /\ G \subseteq Numbered /\ G \subseteq 1..MaxSessions
           /\ \A i \in Ids : m[i] \in Numbered \cup {0} /\ m[i] \notin G
           /\ \A i, j \in Ids : i # j /\ m[i] = m[j] => m[i] = 0
    BY <1>4, <2>1, ZenonT(60)
  <2>3. /\ sessions'.map = m /\ sessions'.gone = G /\ sessions'.last = sessions.last
        /\ sessions'.made = sessions.made /\ sessions'.now = sessions.now
        /\ sessions'.call = [sessions.call EXCEPT ![c] = v]
        /\ sessions' = [now |-> sessions.now, map |-> m, last |-> sessions.last, made |-> sessions.made,
                        gone |-> G, call |-> sessions'.call]
    BY <1>2, <1>11, <2>2 DEF SessionsShaped, Guard!DropSession
  <2>4. v \in SessionCalls /\ v.pc = "idle" /\ {v.session, v.out} \cap v.gone = {}
    BY <1>8 DEF SessionCalls
  <2> HIDE DEF v
  <2>5. SessionsShaped'
    <3>1. sessions.call \in [Callers -> SessionCalls] /\ sessions.now \in Nat /\ sessions.made \in 0..MaxSessions
          /\ sessions.last \in [1..MaxSessions -> Nat]
      BY <1>2 DEF SessionsShaped
    <3>2. sessions'.call \in [Callers -> SessionCalls] /\ \A d \in Callers : sessions'.call[d] = IF d = c THEN v ELSE sessions.call[d]
      BY <2>3, <2>4, <3>1
    <3>3. sessions' \in [now : Nat, map : [Ids -> 0..MaxSessions], last : [1..MaxSessions -> Nat], made : 0..MaxSessions,
                         gone : SUBSET (1..MaxSessions), call : [Callers -> SessionCalls]]
      BY <2>2, <2>3, <3>1, <3>2
    <3>4. QED
      BY <1>2, <2>4, <3>2, <3>3 DEF SessionsShaped
  <2>6. SessionsLeave'
    BY <1>2, <2>2, <2>3, <2>4 DEF SessionsShaped, SessionsLeave, Numbered
  <2>7. QED
    BY <2>5, <2>6 DEF SessionsInv
<1>12. ASSUME Guard!SessionTick PROVE SessionsInv'
  <2>1. /\ sessions' = [sessions EXCEPT !.now = sessions.now + 1] /\ sessions'.now \in Nat
        /\ sessions'.map = sessions.map /\ sessions'.gone = sessions.gone /\ sessions'.last = sessions.last
        /\ sessions'.made = sessions.made /\ sessions'.call = sessions.call
    BY <1>2, <1>12 DEF Guard!SessionTick, SessionsShaped
  <2>2. SessionsShaped'
    BY <1>2, <2>1 DEF SessionsShaped
  <2>3. SessionsLeave'
    BY <1>2, <2>1 DEF SessionsLeave, Numbered
  <2>4. QED
    BY <2>2, <2>3 DEF SessionsInv
<1>13. ASSUME NEW i \in Ids, Guard!DeleteSession(i) PROVE SessionsInv'
  BY <1>5, <1>13 DEF Guard!DeleteSession
<1>14. ASSUME Guard!ClearExpiredSessions PROVE SessionsInv'
  BY <1>5, <1>14 DEF Guard!ClearExpiredSessions
<1>15. QED
  BY <1>1, <1>6, <1>7, <1>9, <1>10, <1>11, <1>12, <1>13, <1>14 DEF Guard!SessionsNext

LEMMA SessionsHold == SessionsInv => Guard!LoggedOutGone /\ sessions.made \in 0..MaxSessions
  BY DEF SessionsInv, SessionsShaped, SessionsLeave, Guard!LoggedOutGone

-----------------------------------------------------------------------------
(* The checks that only read the request *)

BrowserInv ==
    /\ browser \in [now : Nat \ {0}, cookie : 0..MaxTime, page : BOOLEAN, out : {"none", "handled", "no_token", "refused"}]
    /\ browser.now <= MaxTime
    /\ Guard!PagesCarryToken

LEMMA BrowserStart == Guard!GuardsInit => BrowserInv
  BY WebAssumption DEF Guard!GuardsInit, Guard!Nothing, BrowserInv, Guard!PagesCarryToken

LEMMA BrowserStays == BrowserInv /\ UNCHANGED browser => BrowserInv'
  BY DEF BrowserInv, Guard!PagesCarryToken, Guard!HasCookie

LEMMA BrowserStep == BrowserInv /\ Guard!BrowserNext => BrowserInv'
<1>1. SUFFICES ASSUME BrowserInv, Guard!BrowserNext PROVE BrowserInv'
  OBVIOUS
<1>2. ASSUME NEW v \in Visits, NEW env \in {"none", "dev", "prod"}, NEW api \in BOOLEAN, Guard!Visit(v, env, api)
      PROVE  BrowserInv'
  <2> DEFINE verdicts == Guard!Verdicts(v, env, api)
             answers == {i \in DOMAIN verdicts : verdicts[i] # 0}
             out == Guard!FirstAnswer(verdicts)
             page == Guard!Safe(v) /\ ~v.internal /\ out = "handled"
             cookie == IF v.internal \/ Guard!HasCookie \/ \E i \in 1..2 : verdicts[i] # 0
                       THEN browser.cookie ELSE browser.now
  <2>1. browser' = [browser EXCEPT !.out = out, !.page = page, !.cookie = cookie]
    BY <1>1, <1>2 DEF Guard!Visit, BrowserInv, Guard!Nothing
  <2>2. out \in {"none", "handled", "no_token", "refused"} /\ page \in BOOLEAN
    BY DEF Guard!FirstAnswer
  <2>3. DOMAIN verdicts = 1..6
    BY DEF Guard!Verdicts
  <2>4. ASSUME out = "handled" PROVE \A i \in 1..2 : verdicts[i] = 0
    BY <2>3, <2>4 DEF Guard!FirstAnswer, Guard!Nothing
  <2> HIDE DEF out, verdicts
  <2>5. cookie \in 0..MaxTime
    BY <1>1 DEF BrowserInv
  <2>6. ASSUME page PROVE cookie # 0 /\ browser.now - cookie < Life
    BY <1>1, <2>4, <2>6, WebAssumption DEF BrowserInv, Guard!HasCookie, Guard!Nothing
  <2>7. /\ browser'.out = out /\ browser'.page = page /\ browser'.cookie = cookie /\ browser'.now = browser.now
        /\ browser' \in [now : Nat \ {0}, cookie : 0..MaxTime, page : BOOLEAN, out : {"none", "handled", "no_token", "refused"}]
    BY <1>1, <2>1, <2>2, <2>5 DEF BrowserInv
  <2> HIDE DEF page, cookie
  <2>8. QED
    BY <1>1, <2>6, <2>7 DEF BrowserInv, Guard!PagesCarryToken, Guard!HasCookie, Guard!Nothing
<1>3. ASSUME Guard!BrowserTick PROVE BrowserInv'
  <2>1. /\ browser' = [browser EXCEPT !.now = browser.now + 1, !.page = FALSE, !.out = "none"]
        /\ browser.now < MaxTime
    BY <1>1, <1>3 DEF Guard!BrowserTick, BrowserInv
  <2>2. browser'.page = FALSE /\ browser'.now = browser.now + 1
    BY <1>1, <2>1 DEF BrowserInv
  <2>3. browser' \in [now : Nat \ {0}, cookie : 0..MaxTime, page : BOOLEAN, out : {"none", "handled", "no_token", "refused"}]
    <3>1. browser' = [now |-> browser.now + 1, cookie |-> browser.cookie, page |-> FALSE, out |-> "none"]
      BY <1>1, <2>1 DEF BrowserInv
    <3>2. browser.now + 1 \in Nat \ {0} /\ browser.cookie \in 0..MaxTime
      BY <1>1 DEF BrowserInv
    <3>3. QED
      BY <3>1, <3>2
  <2>4. QED
    BY <1>1, <2>1, <2>2, <2>3, WebAssumption DEF BrowserInv, Guard!PagesCarryToken
<1>4. QED
  BY <1>1, <1>2, <1>3 DEF Guard!BrowserNext

LEMMA PoliciesHold == Guard!PoliciesAgree
<1>1. ASSUME NEW p \in Guard!Passwords, Guard!Allows(Guard!StrongPasswordPolicy, p) \/ Guard!PasswordStrength(p)
      PROVE  Guard!Allows(Guard!DefaultPasswordPolicy, p)
  <2>1. p.length \in {7, 8, 11, 12, 128}
    BY DEF Guard!Passwords
  <2>2. p.length >= 8 /\ p.length <= 128
    BY <1>1, <2>1 DEF Guard!Allows, Guard!StrongPasswordPolicy, Guard!PasswordStrength
  <2>3. {"upper", "lower", "number"} \subseteq p.classes
    BY <1>1 DEF Guard!Allows, Guard!StrongPasswordPolicy, Guard!PasswordStrength
  <2>4. QED
    BY <2>2, <2>3 DEF Guard!Allows, Guard!DefaultPasswordPolicy
<1>2. \A cost \in 4..31 : ~Guard!NeedsRehash(Guard!HashCost(cost), cost)
  BY DEF Guard!NeedsRehash, Guard!HashCost
<1>3. QED
  BY <1>1, <1>2 DEF Guard!PoliciesAgree

-----------------------------------------------------------------------------
(* The buckets of addresses *)

BucketCalls == [pc : {"idle", "make", "take"}, ip : Ips \cup {0}, bucket : 0..MaxMade]
Named(limits) == {ip \in Ips : limits[ip] # 0}
BucketsShaped ==
    /\ buckets \in [limits : [Ips -> 0..MaxMade], tokens : [1..MaxMade -> 0..Rate], made : 0..MaxMade, swept : Nat,
                    call : [Callers -> BucketCalls]]
    /\ \A c \in Callers : buckets.call[c].pc # "idle" => buckets.call[c].ip \in Ips
    /\ \A c \in Callers : buckets.call[c].pc = "take" => buckets.call[c].bucket # 0

(* Until a sweep, who takes from a bucket takes from the one its address has. *)
BucketsCounted ==
    /\ buckets.made = buckets.swept + Cardinality(Named(buckets.limits))
    /\ buckets.swept = 0 => \A c \in Callers :
          buckets.call[c].pc = "take" => buckets.call[c].bucket = buckets.limits[buckets.call[c].ip]

BucketsInv == BucketsShaped /\ BucketsCounted

LEMMA SizesOfSets == \A S : Guard!Cardinality(S) = Cardinality(S)
  BY DEF Guard!Cardinality, Cardinality

LEMMA BucketsStart == Guard!GuardsInit => BucketsInv
<1>1. SUFFICES ASSUME Guard!GuardsInit PROVE BucketsInv
  OBVIOUS
<1>2. buckets = [limits |-> [ip \in Ips |-> 0], tokens |-> [b \in 1..MaxMade |-> 0], made |-> 0, swept |-> 0,
                 call |-> [c \in Callers |-> [pc |-> "idle", ip |-> 0, bucket |-> 0]]]
  BY <1>1 DEF Guard!GuardsInit, Guard!Nothing, Guard!Made
<1>3. BucketsShaped
  BY <1>2, WebAssumption DEF BucketsShaped, BucketCalls
<1>4. Named(buckets.limits) = {}
  BY <1>2 DEF Named
<1>5. BucketsCounted
  <2>1. Cardinality(Named(buckets.limits)) = 0
    BY <1>4, FS_EmptySet
  <2>2. buckets.made = 0 /\ buckets.swept = 0 /\ \A c \in Callers : buckets.call[c].pc = "idle"
    BY <1>2
  <2>3. QED
    BY <2>1, <2>2 DEF BucketsCounted
<1>6. QED
  BY <1>3, <1>5 DEF BucketsInv

LEMMA BucketsStay == BucketsInv /\ UNCHANGED buckets => BucketsInv'
  BY DEF BucketsInv, BucketsShaped, BucketsCounted

LEMMA BucketsStep == BucketsInv /\ Guard!BucketsNext => BucketsInv'
<1>1. SUFFICES ASSUME BucketsInv, Guard!BucketsNext PROVE BucketsInv'
  OBVIOUS
<1>2. BucketsShaped /\ BucketsCounted /\ MaxMade \in Nat /\ Rate \in Nat \ {0} /\ IsFiniteSet(Ips)
  BY <1>1, WebAssumption DEF BucketsInv
<1>3. \A limits : IsFiniteSet(Named(limits)) /\ Cardinality(Named(limits)) \in Nat
  <2>1. \A limits : Named(limits) \in SUBSET Ips
    BY DEF Named
  <2>2. QED
    BY <1>2, <2>1, FS_Subset, FS_CardinalityType
(* A call goes on. *)
<1>4. ASSUME NEW c \in Callers, NEW v \in BucketCalls, NEW t \in [1..MaxMade -> 0..Rate],
             v.pc # "idle" => v.ip \in Ips, v.pc = "take" => v.bucket # 0 /\ v.bucket = buckets.limits[v.ip],
             buckets' = [buckets EXCEPT !.tokens = t, !.call[c] = v]
      PROVE  BucketsInv'
  <2>1. /\ buckets'.limits = buckets.limits /\ buckets'.tokens = t /\ buckets'.made = buckets.made
        /\ buckets'.swept = buckets.swept /\ buckets'.call = [buckets.call EXCEPT ![c] = v]
        /\ buckets' = [limits |-> buckets.limits, tokens |-> t, made |-> buckets.made, swept |-> buckets.swept,
                       call |-> buckets'.call]
    BY <1>2, <1>4 DEF BucketsShaped
  <2>2. BucketsShaped'
    BY <1>2, <1>4, <2>1 DEF BucketsShaped
  <2>3. BucketsCounted'
    BY <1>2, <1>4, <2>1 DEF BucketsShaped, BucketsCounted
  <2>4. QED
    BY <2>2, <2>3 DEF BucketsInv
<1>5. ASSUME NEW c \in Callers
      PROVE  /\ buckets.call[c] \in BucketCalls
             /\ buckets = [buckets EXCEPT !.tokens = buckets.tokens] /\ buckets.tokens \in [1..MaxMade -> 0..Rate]
  BY <1>2 DEF BucketsShaped
<1>6. ASSUME NEW c \in Callers, NEW ip \in Ips, Guard!FindBucket(c, ip) PROVE BucketsInv'
  <2> DEFINE v == [pc |-> IF buckets.limits[ip] = 0 THEN "make" ELSE "take", ip |-> ip, bucket |-> buckets.limits[ip]]
  <2>1. buckets' = [buckets EXCEPT !.tokens = buckets.tokens, !.call[c] = v]
    BY <1>2, <1>6 DEF Guard!FindBucket, Guard!Nothing, BucketsShaped
  <2>2. v \in BucketCalls /\ v.ip \in Ips /\ (v.pc = "take" => v.bucket # 0 /\ v.bucket = buckets.limits[v.ip])
    BY <1>2 DEF BucketsShaped, BucketCalls
  <2> HIDE DEF v
  <2>3. QED
    BY <1>4, <1>5, <2>1, <2>2
<1>7. ASSUME NEW c \in Callers, Guard!MakeBucket(c) PROVE BucketsInv'
  <2> DEFINE ip == buckets.call[c].ip
             b == buckets.made + 1
  <2>1. ip \in Ips /\ b \in 1..MaxMade /\ buckets.call[c] \in BucketCalls
    BY <1>2, <1>7 DEF Guard!MakeBucket, Guard!InAllow, Guard!Made, BucketsShaped
  <2>2. CASE buckets.limits[ip] # 0
    <3> DEFINE v == [buckets.call[c] EXCEPT !.bucket = buckets.limits[ip], !.pc = "take"]
    <3>1. buckets' = [buckets EXCEPT !.tokens = buckets.tokens, !.call[c] = v]
      BY <1>2, <1>7, <2>2 DEF Guard!MakeBucket, Guard!Nothing, BucketsShaped
    <3>2. v \in BucketCalls /\ v.ip \in Ips /\ (v.pc = "take" => v.bucket # 0 /\ v.bucket = buckets.limits[v.ip])
      BY <1>2, <2>1, <2>2 DEF BucketsShaped, BucketCalls
    <3> HIDE DEF v
    <3>3. QED
      BY <1>4, <1>5, <3>1, <3>2, ZenonT(60)
  <2>3. CASE buckets.limits[ip] = 0
    <3> DEFINE v == [buckets.call[c] EXCEPT !.bucket = b, !.pc = "take"]
    <3>1. /\ buckets'.limits = [buckets.limits EXCEPT ![ip] = b] /\ buckets'.tokens = [buckets.tokens EXCEPT ![b] = Rate]
          /\ buckets'.made = b /\ buckets'.swept = buckets.swept /\ buckets'.call = [buckets.call EXCEPT ![c] = v]
          /\ buckets' = [limits |-> buckets'.limits, tokens |-> buckets'.tokens, made |-> b, swept |-> buckets.swept,
                         call |-> buckets'.call]
      BY <1>2, <1>7, <2>3, ZenonT(60) DEF Guard!MakeBucket, Guard!Nothing, BucketsShaped
    <3>2. v \in BucketCalls /\ v.ip = ip /\ v.pc = "take" /\ v.bucket = b
      <4>1. b \in 0..MaxMade /\ buckets.call[c].ip = ip
        BY <1>2, <2>1
      <4> HIDE DEF b, ip
      <4>2. QED
        BY <2>1, <4>1 DEF BucketCalls
    <3>3. ip \notin Named(buckets.limits) /\ Named(buckets'.limits) = Named(buckets.limits) \cup {ip}
      BY <1>2, <2>1, <2>3, <3>1 DEF Named, BucketsShaped
    <3>4. Cardinality(Named(buckets'.limits)) = Cardinality(Named(buckets.limits)) + 1
      BY <1>3, <3>3, FS_AddElement
    <3> HIDE DEF v, ip
    <3>5. BucketsShaped'
      <4>1. buckets'.limits \in [Ips -> 0..MaxMade] /\ buckets'.tokens \in [1..MaxMade -> 0..Rate]
            /\ buckets'.call \in [Callers -> BucketCalls] /\ b \in 0..MaxMade
        BY <1>2, <2>1, <3>1, <3>2 DEF BucketsShaped
      <4>2. buckets' \in [limits : [Ips -> 0..MaxMade], tokens : [1..MaxMade -> 0..Rate], made : 0..MaxMade, swept : Nat,
                          call : [Callers -> BucketCalls]]
        BY <1>2, <3>1, <4>1 DEF BucketsShaped
      <4>3. QED
        BY <1>2, <2>1, <3>1, <3>2, <4>2, SMTT(60) DEF BucketsShaped
    <3>6. BucketsCounted'
      BY <1>2, <1>3, <2>1, <2>3, <3>1, <3>2, <3>4, SMTT(60) DEF BucketsCounted, BucketsShaped
    <3>7. QED
      BY <3>5, <3>6 DEF BucketsInv
  <2>4. QED
    BY <2>2, <2>3
<1>8. ASSUME NEW c \in Callers, Guard!TakeToken(c) PROVE BucketsInv'
  <2> DEFINE b == buckets.call[c].bucket
             v == [pc |-> "idle", ip |-> 0, bucket |-> 0]
             t == [buckets.tokens EXCEPT ![b] = IF @ > 0 THEN @ - 1 ELSE @]
  <2>1. buckets' = [buckets EXCEPT !.tokens = t, !.call[c] = v]
    BY <1>2, <1>8 DEF Guard!TakeToken, Guard!Nothing, BucketsShaped
  <2>2. b \in 1..MaxMade
    BY <1>2, <1>5, <1>8 DEF Guard!TakeToken, Guard!InAllow, BucketsShaped, BucketCalls
  <2>3. t \in [1..MaxMade -> 0..Rate]
    BY <1>2, <2>2, SMTT(60) DEF BucketsShaped
  <2>4. v \in BucketCalls /\ v.pc = "idle"
    BY <1>2 DEF BucketCalls
  <2> HIDE DEF v, t
  <2>5. QED
    BY <1>4, <2>1, <2>3, <2>4
<1>9. ASSUME NEW b \in Guard!Made, Guard!Refill(b) PROVE BucketsInv'
  <2>1. /\ buckets' = [buckets EXCEPT !.tokens = [buckets.tokens EXCEPT ![b] = buckets.tokens[b] + 1]]
        /\ [buckets.tokens EXCEPT ![b] = buckets.tokens[b] + 1] \in [1..MaxMade -> 0..Rate]
    BY <1>2, <1>9 DEF Guard!Refill, Guard!Made, BucketsShaped
  <2>2. BucketsShaped'
    BY <1>2, <2>1 DEF BucketsShaped
  <2>3. BucketsCounted'
    BY <1>2, <2>1 DEF BucketsShaped, BucketsCounted
  <2>4. QED
    BY <2>2, <2>3 DEF BucketsInv
<1>10. ASSUME Guard!SweepBuckets PROVE BucketsInv'
  <2> DEFINE full == {ip \in Ips : buckets.limits[ip] # 0 /\ buckets.tokens[buckets.limits[ip]] = Rate}
             left == [ip \in Ips |-> IF ip \in full THEN 0 ELSE buckets.limits[ip]]
  <2>1. full # {} /\ buckets' = [buckets EXCEPT !.limits = left, !.swept = buckets.swept + Cardinality(full)]
    BY <1>2, <1>10, SizesOfSets DEF Guard!SweepBuckets, Guard!Nothing, BucketsShaped
  <2>2. full \subseteq Named(buckets.limits) /\ IsFiniteSet(full) /\ Cardinality(full) \in Nat \ {0}
    <3>1. full \in SUBSET Named(buckets.limits)
      BY DEF Named
    <3>2. QED
      BY <1>3, <2>1, <3>1, FS_Subset, FS_CardinalityType, FS_EmptySet
  <2>3. Named(left) = Named(buckets.limits) \ full
    BY <1>2 DEF Named
  <2>4. Cardinality(Named(buckets.limits)) = Cardinality(Named(left)) + Cardinality(full)
    <3>1. Named(buckets.limits) \cap full = full
      BY <2>2
    <3>2. Cardinality(Named(left)) = Cardinality(Named(buckets.limits)) - Cardinality(full)
      BY <1>3, <2>3, <3>1, FS_Difference
    <3>3. QED
      BY <1>3, <2>2, <3>2
  <2>5. left \in [Ips -> 0..MaxMade]
    BY <1>2 DEF BucketsShaped
  <2> HIDE DEF full, left
  <2>6. /\ buckets'.limits = left /\ buckets'.swept = buckets.swept + Cardinality(full) /\ buckets'.made = buckets.made
        /\ buckets'.call = buckets.call
        /\ buckets' = [limits |-> left, tokens |-> buckets.tokens, made |-> buckets.made, swept |-> buckets'.swept,
                       call |-> buckets.call]
    BY <1>2, <2>1 DEF BucketsShaped
  <2>7. buckets'.swept \in Nat \ {0}
    BY <1>2, <2>2, <2>6 DEF BucketsShaped
  <2>8. BucketsShaped'
    BY <1>2, <2>5, <2>6, <2>7 DEF BucketsShaped
  <2>9. BucketsCounted'
    BY <1>2, <1>3, <2>2, <2>4, <2>6, <2>7 DEF BucketsShaped, BucketsCounted
  <2>10. QED
    BY <2>8, <2>9 DEF BucketsInv
<1>11. QED
  BY <1>1, <1>6, <1>7, <1>8, <1>9, <1>10 DEF Guard!BucketsNext

LEMMA BucketsHold == BucketsInv => Guard!OneBucketEach /\ \A b \in Guard!Made : buckets.tokens[b] \in 0..Rate
<1>1. SUFFICES ASSUME BucketsInv PROVE Guard!OneBucketEach /\ \A b \in Guard!Made : buckets.tokens[b] \in 0..Rate
  OBVIOUS
<1>2. BucketsShaped /\ BucketsCounted /\ \A b \in Guard!Made : buckets.tokens[b] \in 0..Rate
  BY <1>1 DEF BucketsInv, BucketsShaped, Guard!Made
<1>3. Guard!Cardinality({ip \in Ips : buckets.limits[ip] # Guard!Nothing}) = Cardinality(Named(buckets.limits))
  BY SizesOfSets DEF Named, Guard!Nothing
<1>4. \A c, d \in Callers : /\ buckets.call[c].pc = "take" /\ buckets.call[d].pc = "take"
                            /\ buckets.call[c].ip = buckets.call[d].ip /\ buckets.call[c].bucket # buckets.call[d].bucket
                            => buckets.swept > 0
  BY <1>2 DEF BucketsShaped, BucketsCounted
<1>5. QED
  BY <1>2, <1>3, <1>4 DEF BucketsCounted, Guard!OneBucketEach

-----------------------------------------------------------------------------
(* The history of addresses *)

Moments == 1..(Keep + 1)
Amounts == [Moments -> Nat]
HistoryShaped ==
    history \in [now : Moments, ips : [Ips -> Amounts], black : SUBSET Ips, earned : SUBSET Ips,
                 admitted : [Limiters -> [Ips -> Amounts]]]

(* What the strictest limiter let in within its window is still on the list *)
(* that all of them write, so that it counts it.                            *)
StrictestRemembered ==
    /\ \A l \in Limiters, ip \in Ips, t \in Moments : t > history.now => history.admitted[l][ip][t] = 0
    /\ \A l \in Limiters, ip \in Ips, t \in Moments :
          Guard!Shortest(l) /\ history.now - t < Window[l] => history.admitted[l][ip][t] <= history.ips[ip][t]

Span(s, w) == {t \in Moments : s <= t /\ t < s + w}
WindowsFull ==
    \A l \in Limiters, ip \in Ips, s \in Moments :
        Guard!Shortest(l) => Total(history.admitted[l][ip], Span(s, Window[l])) <= Limit[l]

(* A list is never longer than the limit of one that let the address in. *)
LetIn(k, ip) == \E t \in Moments : history.admitted[k][ip][t] > 0
ListsBounded ==
    \A ip \in Ips : \/ Total(history.ips[ip], Moments) = 0
                    \/ \E k \in Limiters : LetIn(k, ip) /\ Total(history.ips[ip], Moments) <= Limit[k]
Earned ==
    \A ip \in history.earned : \E l, k \in Limiters : l # k /\ LetIn(k, ip) /\ Limit[l] < Limit[k]

HistoryInv == HistoryShaped /\ StrictestRemembered /\ WindowsFull /\ ListsBounded /\ Earned

LEMMA MomentsFinite == IsFiniteSet(Moments) /\ \A s, w : Span(s, w) \in SUBSET Moments /\ IsFiniteSet(Span(s, w))
<1>1. IsFiniteSet(Moments)
  BY WebAssumption, FS_Interval DEF Moments
<1>2. QED
  BY <1>1, FS_Subset DEF Span

LEMMA CountIsTotal == \A l, ip : Guard!Count(l, ip) = Total(Guard!Fresh(ip, Window[l]), Moments)
  BY DEF Guard!Count, Guard!MapThenSumSet, Guard!MapThenFoldSet, Total, MapThenSumSet, MapThenFoldSet, Guard!Moments, Moments

LEMMA WindowIsTotal ==
    ASSUME NEW l, NEW ip, NEW S
    PROVE  Guard!MapThenSumSet(LAMBDA t : history.admitted[l][ip][t], S) = Total(history.admitted[l][ip], S)
  BY DEF Guard!MapThenSumSet, Guard!MapThenFoldSet, Total, MapThenSumSet, MapThenFoldSet

LEMMA HistoryStart == Guard!GuardsInit => HistoryInv
<1>1. SUFFICES ASSUME Guard!GuardsInit PROVE HistoryInv
  OBVIOUS
<1> DEFINE never == [t \in Moments |-> 0]
<1>2. history = [now |-> 1, ips |-> [ip \in Ips |-> never], black |-> {}, earned |-> {},
                 admitted |-> [l \in Limiters |-> [ip \in Ips |-> never]]]
  BY <1>1 DEF Guard!GuardsInit, Guard!Never, Guard!Moments, Moments
<1>3. never \in Amounts /\ 1 \in Moments /\ \A t \in Moments : never[t] = 0
  BY WebAssumption DEF Amounts, Moments
<1>4. \A S \in SUBSET Moments : Total(never, S) = 0
  BY <1>3, MomentsFinite, FS_Subset, TotalZero
<1> HIDE DEF never
<1>5. HistoryShaped
  BY <1>2, <1>3 DEF HistoryShaped
<1>6. StrictestRemembered
  BY <1>2, <1>3 DEF StrictestRemembered
<1>7. WindowsFull
  BY <1>2, <1>4, MomentsFinite, WebAssumption DEF WindowsFull
<1>8. ListsBounded /\ Earned
  BY <1>2, <1>4 DEF ListsBounded, Earned
<1>9. QED
  BY <1>5, <1>6, <1>7, <1>8 DEF HistoryInv

LEMMA HistoryStays == HistoryInv /\ UNCHANGED history => HistoryInv'
  BY DEF HistoryInv, HistoryShaped, StrictestRemembered, WindowsFull, ListsBounded, Earned, LetIn

LEMMA HistoryStep == HistoryInv /\ Guard!HistoryNext => HistoryInv'
<1>1. SUFFICES ASSUME HistoryInv, Guard!HistoryNext PROVE HistoryInv'
  OBVIOUS
<1>2. /\ HistoryShaped /\ StrictestRemembered /\ WindowsFull /\ ListsBounded /\ Earned
      /\ Keep \in Nat /\ Limit \in [Limiters -> Nat \ {0}] /\ Window \in [Limiters -> Nat]
  BY <1>1, WebAssumption DEF HistoryInv
<1>3. ASSUME NEW ip \in Ips, NEW age \in Nat
      PROVE  /\ Guard!Fresh(ip, age) \in Amounts
             /\ \A t \in Moments : Guard!Fresh(ip, age)[t] = IF history.now - t < age THEN history.ips[ip][t] ELSE 0
             /\ Total(Guard!Fresh(ip, age), Moments) \in Nat
             /\ Total(Guard!Fresh(ip, age), Moments) <= Total(history.ips[ip], Moments)
             /\ Total(history.ips[ip], Moments) \in Nat
             /\ history.ips[ip] \in Amounts
  <2>1. history.ips[ip] \in Amounts
    BY <1>2 DEF HistoryShaped
  <2>2. \A t \in Moments : Guard!Fresh(ip, age)[t] = IF history.now - t < age THEN history.ips[ip][t] ELSE 0
    BY DEF Guard!Fresh, Guard!Moments, Moments
  <2>3. \A t \in Moments : history.ips[ip][t] \in Nat
    BY <2>1 DEF Amounts
  <2>4. \A t \in Moments : Guard!Fresh(ip, age)[t] \in Nat /\ Guard!Fresh(ip, age)[t] <= history.ips[ip][t]
    BY <2>2, <2>3
  <2>5. Guard!Fresh(ip, age) \in Amounts
    BY <2>4 DEF Amounts, Guard!Fresh, Guard!Moments, Moments
  <2>6. QED
    BY <2>1, <2>2, <2>3, <2>4, <2>5, MomentsFinite, TotalNat, TotalOrder
<1>4. ASSUME NEW l \in Limiters, NEW ip \in Ips
      PROVE  /\ history.admitted[l][ip] \in Amounts
             /\ \A t \in Moments : history.admitted[l][ip][t] \in Nat
  BY <1>2 DEF HistoryShaped, Amounts
(* A middleware lets a request in. *)
<1>5. ASSUME NEW l \in Limiters, NEW ip \in Ips, Guard!Count(l, ip) < Limit[l],
             history' = [history EXCEPT !.ips[ip] = [Guard!Fresh(ip, Window[l]) EXCEPT ![history.now] = @ + 1],
                                        !.admitted[l][ip][history.now] = @ + 1]
      PROVE  HistoryInv'
  <2> DEFINE n == history.now
             f == Guard!Fresh(ip, Window[l])
             a == history.admitted[l][ip]
             g == [f EXCEPT ![n] = @ + 1]
             b == [a EXCEPT ![n] = @ + 1]
  <2>1. /\ f \in Amounts /\ a \in Amounts /\ n \in Moments /\ Total(f, Moments) \in Nat /\ Total(f, Moments) < Limit[l]
        /\ \A t \in Moments : f[t] = IF n - t < Window[l] THEN history.ips[ip][t] ELSE 0
    BY <1>2, <1>3, <1>4, <1>5, CountIsTotal DEF HistoryShaped
  <2>2. /\ history'.now = n /\ history'.ips = [history.ips EXCEPT ![ip] = g]
        /\ history'.admitted = [history.admitted EXCEPT ![l] = [history.admitted[l] EXCEPT ![ip] = b]]
        /\ history'.earned = history.earned /\ history'.black = history.black
        /\ history' = [now |-> n, ips |-> history'.ips, black |-> history.black, earned |-> history.earned,
                       admitted |-> history'.admitted]
    BY <1>2, <1>5 DEF HistoryShaped
  <2> HIDE DEF f, a
  <2>3. /\ g \in Amounts /\ b \in Amounts /\ g[n] = f[n] + 1 /\ b[n] = a[n] + 1
        /\ \A t \in Moments : f[t] \in Nat /\ a[t] \in Nat /\ g[t] \in Nat /\ b[t] \in Nat
        /\ \A t \in Moments \ {n} : g[t] = f[t] /\ b[t] = a[t]
    BY <2>1 DEF Amounts
  <2>4. a = history.admitted[l][ip]
    BY DEF a
  <2> HIDE DEF g, b, n
  <2>5. /\ history'.ips \in [Ips -> Amounts] /\ history'.admitted \in [Limiters -> [Ips -> Amounts]]
        /\ \A i \in Ips : history'.ips[i] = IF i = ip THEN g ELSE history.ips[i]
        /\ \A k \in Limiters, i \in Ips : history'.admitted[k][i] = IF k = l /\ i = ip THEN b ELSE history.admitted[k][i]
    BY <1>2, <2>2, <2>3 DEF HistoryShaped
  <2>6. HistoryShaped'
    BY <1>2, <2>1, <2>2, <2>5 DEF HistoryShaped
  <2>7. StrictestRemembered'
    <3>1. ASSUME NEW k \in Limiters, NEW i \in Ips, NEW t \in Moments, t > n PROVE history'.admitted[k][i][t] = 0
      <4>1. history.admitted[k][i][t] = 0
        BY <1>2, <3>1 DEF StrictestRemembered, n
      <4>2. n \in Int /\ t # n
        <5>1. n \in Int /\ t \in Int
          BY <2>1, WebAssumption DEF Moments
        <5>2. QED
          BY <3>1, <5>1
      <4>3. QED
        BY <2>3, <2>4, <2>5, <4>1, <4>2
    <3>2. ASSUME NEW k \in Limiters, NEW i \in Ips, NEW t \in Moments, Guard!Shortest(k), n - t < Window[k]
          PROVE  history'.admitted[k][i][t] <= history'.ips[i][t]
      <4>1. history.admitted[k][i][t] <= history.ips[i][t] /\ history.admitted[k][i][t] \in Nat /\ history.ips[i][t] \in Nat
        BY <1>2, <1>3, <1>4, <3>2 DEF StrictestRemembered, n, Amounts
      <4>2. i = ip => f[t] = history.ips[i][t]
        <5>1. n \in Int /\ t \in Int /\ Window[k] \in Nat /\ Window[l] \in Nat /\ Window[k] <= Window[l]
          BY <1>2, <2>1, <3>2 DEF Guard!Shortest, Moments
        <5>2. QED
          BY <2>1, <3>2, <5>1
      <4>3. i = ip => g[t] >= f[t] /\ (t = n => g[t] = f[t] + 1)
        BY <2>3
      <4>4. QED
        BY <2>3, <2>4, <2>5, <4>1, <4>2, <4>3
    <3>3. QED
      BY <2>2, <3>1, <3>2 DEF StrictestRemembered, Guard!Shortest
  <2>8. WindowsFull'
    <3>1. SUFFICES ASSUME NEW k \in Limiters, NEW i \in Ips, NEW s \in Moments, Guard!Shortest(k)
                   PROVE  Total(history'.admitted[k][i], Span(s, Window[k])) <= Limit[k]
      BY DEF WindowsFull, Guard!Shortest
    <3> DEFINE S == Span(s, Window[k])
    <3>2. S \in SUBSET Moments /\ IsFiniteSet(S)
      BY MomentsFinite
    <3>3. CASE ~(k = l /\ i = ip)
      BY <1>2, <2>5, <3>1, <3>3 DEF WindowsFull
    <3>4. CASE k = l /\ i = ip /\ n \notin S
      <4>1. \A t \in S : b[t] = a[t] /\ a[t] \in Int
        BY <2>3, <3>2, <3>4
      <4>2. Total(b, S) = Total(a, S)
        BY <3>2, <4>1, TotalSame
      <4>3. QED
        BY <1>2, <2>4, <2>5, <3>1, <3>4, <4>2 DEF WindowsFull
    <3>5. CASE k = l /\ i = ip /\ n \in S
      <4>1. ASSUME NEW t \in S PROVE a[t] <= f[t]
        <5>1. t \in Moments /\ t \in Int /\ n \in Int /\ n - t < Window[l]
          BY <1>2, <2>1, <3>1, <3>5 DEF Span, Moments
        <5>2. a[t] <= history.ips[ip][t] /\ f[t] = history.ips[ip][t]
          BY <1>2, <2>1, <2>4, <3>1, <3>5, <5>1 DEF StrictestRemembered, n
        <5>3. QED
          BY <5>2
      <4>2. \A t \in S : a[t] \in Int /\ f[t] \in Int /\ b[t] \in Int
        BY <2>3, <3>2
      <4>3. Total(a, S) <= Total(f, S)
        BY <3>2, <4>1, <4>2, TotalOrder
      <4>4. Total(f, S) <= Total(f, Moments) /\ Total(f, S) \in Nat
        BY <2>3, <3>2, MomentsFinite, TotalNat
      <4>5. Total(b, S) = Total(a, S) + b[n] - a[n]
        BY <2>3, <3>2, <3>5, <4>2, TotalChange, SMTT(60)
      <4>6. Total(a, S) \in Int
        BY <3>2, <4>2, TotalRemove
      <4>7. Total(b, S) <= Limit[l]
        BY <1>2, <2>1, <2>3, <4>3, <4>4, <4>5, <4>6
      <4>8. QED
        BY <2>5, <3>5, <4>7
    <3>6. QED
      BY <3>3, <3>4, <3>5
  <2>9. \A k \in Limiters, i \in Ips : LetIn(k, i) => LetIn(k, i)'
    <3>1. ASSUME NEW k \in Limiters, NEW i \in Ips, NEW t \in Moments, history.admitted[k][i][t] > 0
          PROVE  history'.admitted[k][i][t] > 0
      BY <2>3, <2>4, <2>5, <3>1
    <3>2. QED
      BY <3>1 DEF LetIn
  <2>10. ListsBounded'
    <3>1. Total(g, Moments) = Total(f, Moments) + 1
      <4>1. Total(g, Moments) = Total(f, Moments) + g[n] - f[n]
        <5>1. \A t \in Moments : f[t] \in Int /\ g[t] \in Int
          BY <2>3
        <5>2. \A t \in Moments \ {n} : g[t] = f[t]
          BY <2>3
        <5>3. IsFiniteSet(Moments) /\ n \in Moments
          BY <2>1, MomentsFinite
        <5>4. QED
          BY ONLY <5>1, <5>2, <5>3, TotalChange
      <4>2. QED
        BY <2>1, <2>3, <4>1
    <3>2. LetIn(l, ip)' /\ Total(g, Moments) <= Limit[l]
      BY <1>2, <2>1, <2>3, <2>5, <3>1 DEF LetIn
    <3>3. \A i \in Ips \ {ip} : history'.ips[i] = history.ips[i]
      BY <2>5
    <3>4. QED
      BY <1>2, <2>5, <2>9, <3>2, <3>3 DEF ListsBounded
  <2>11. Earned'
    BY <1>2, <2>2, <2>9 DEF Earned, HistoryShaped
  <2>12. QED
    BY <2>6, <2>7, <2>8, <2>10, <2>11 DEF HistoryInv
(* Nothing is let in. *)
<1>6. ASSUME HistoryShaped', history'.admitted = history.admitted, history'.now >= history.now,
             \A ip \in Ips : \A t \in Moments :
                /\ history'.ips[ip][t] <= history.ips[ip][t]
                /\ history'.now - t < Keep => history'.ips[ip][t] = history.ips[ip][t],
             Earned'
      PROVE  HistoryInv'
  <2>1. StrictestRemembered'
    <3>1. history.now \in Int /\ history'.now \in Int /\ \A t \in Moments : t \in Int
      BY <1>2, <1>6 DEF HistoryShaped, Moments
    <3>2. ASSUME NEW l \in Limiters, NEW ip \in Ips, NEW t \in Moments, Guard!Shortest(l), history'.now - t < Window[l]
          PROVE  history'.admitted[l][ip][t] <= history'.ips[ip][t]
      <4>1. Window[l] \in Nat /\ Window[l] <= Keep
        BY <1>2, <3>2 DEF Guard!Shortest
      <4>2. history.now - t < Window[l] /\ history'.now - t < Keep
        BY <1>2, <1>6, <3>1, <3>2, <4>1
      <4>3. QED
        BY <1>2, <1>6, <3>2, <4>2 DEF StrictestRemembered
    <3>3. ASSUME NEW l \in Limiters, NEW ip \in Ips, NEW t \in Moments, t > history'.now
          PROVE  history'.admitted[l][ip][t] = 0
      BY <1>2, <1>6, <3>1, <3>3 DEF StrictestRemembered
    <3>4. QED
      BY <3>2, <3>3 DEF StrictestRemembered, Guard!Shortest
  <2>2. WindowsFull'
    BY <1>2, <1>6 DEF WindowsFull, Guard!Shortest
  <2>3. ListsBounded'
    <3>1. ASSUME NEW ip \in Ips PROVE /\ Total(history'.ips[ip], Moments) <= Total(history.ips[ip], Moments)
                                      /\ Total(history'.ips[ip], Moments) \in Nat /\ Total(history.ips[ip], Moments) \in Nat
      <4>1. \A t \in Moments : history'.ips[ip][t] \in Nat /\ history.ips[ip][t] \in Nat
        BY <1>2, <1>6 DEF HistoryShaped, Amounts
      <4>2. QED
        BY <1>6, <4>1, MomentsFinite, TotalOrder, TotalNat
    <3>2. \A k \in Limiters, ip \in Ips : LetIn(k, ip)' <=> LetIn(k, ip)
      BY <1>6 DEF LetIn
    <3>3. QED
      BY <1>2, <3>1, <3>2 DEF ListsBounded
  <2>4. QED
    BY <1>6, <2>1, <2>2, <2>3 DEF HistoryInv
<1>7. ASSUME NEW l \in Limiters, NEW ip \in Ips, Guard!RateLimit(l, ip) PROVE HistoryInv'
  <2>1. CASE ~(Guard!Count(l, ip) >= Limit[l])
    <3>1. Guard!Count(l, ip) < Limit[l]
      BY <1>2, <1>3, <2>1, CountIsTotal
    <3>2. QED
      BY <1>5, <1>7, <2>1, <3>1 DEF Guard!RateLimit
  <2>2. CASE Guard!Count(l, ip) >= Limit[l]
    <3>1. /\ Guard!Count(l, ip) >= 2 * Limit[l]
          /\ history' = [history EXCEPT !.black = history.black \cup {ip}, !.earned = history.earned \cup {ip}]
          /\ history' = [now |-> history.now, ips |-> history.ips, black |-> history.black \cup {ip},
                         earned |-> history.earned \cup {ip}, admitted |-> history.admitted]
      BY <1>2, <1>7, <2>2 DEF Guard!RateLimit, HistoryShaped
    <3>2. /\ history'.now = history.now /\ history'.ips = history.ips /\ history'.admitted = history.admitted
          /\ history'.earned = history.earned \cup {ip} /\ HistoryShaped'
      BY <1>2, <3>1 DEF HistoryShaped
    <3>3. \E k \in Limiters : l # k /\ LetIn(k, ip) /\ Limit[l] < Limit[k]
      <4>1. /\ Guard!Count(l, ip) <= Total(history.ips[ip], Moments) /\ Guard!Count(l, ip) \in Nat
            /\ Total(history.ips[ip], Moments) \in Nat /\ Limit[l] \in Nat \ {0}
        BY <1>2, <1>3, CountIsTotal
      <4>2. PICK k \in Limiters : LetIn(k, ip) /\ Total(history.ips[ip], Moments) <= Limit[k]
        BY <1>2, <3>1, <4>1 DEF ListsBounded
      <4>3. Limit[k] \in Nat
        BY <1>2
      <4>4. QED
        BY <3>1, <4>1, <4>2, <4>3
    <3>4. \A k \in Limiters, i \in Ips : LetIn(k, i)' <=> LetIn(k, i)
      BY <3>2 DEF LetIn
    <3>5. Earned'
      BY <1>2, <3>2, <3>3, <3>4 DEF Earned, HistoryShaped
    <3>6. \A i \in Ips : \A t \in Moments : history.ips[i][t] \in Nat
      BY <1>3 DEF Amounts
    <3>7. history.now \in Nat
      BY <1>2 DEF HistoryShaped, Moments
    <3>8. QED
      BY <1>6, <3>2, <3>5, <3>6, <3>7
  <2>3. QED
    BY <2>1, <2>2
<1>8. ASSUME Guard!RateLimitCleanup PROVE HistoryInv'
  <2>1. history' = [history EXCEPT !.ips = [ip \in Ips |-> Guard!Fresh(ip, Keep)]]
    BY <1>8 DEF Guard!RateLimitCleanup
  <2>2. /\ history'.now = history.now /\ history'.admitted = history.admitted /\ history'.earned = history.earned
        /\ history'.black = history.black /\ history'.ips = [ip \in Ips |-> Guard!Fresh(ip, Keep)]
        /\ history' = [now |-> history.now, ips |-> history'.ips, black |-> history.black, earned |-> history.earned,
                       admitted |-> history.admitted]
    BY <1>2, <2>1 DEF HistoryShaped
  <2>3. ASSUME NEW ip \in Ips
        PROVE  /\ history'.ips[ip] \in Amounts
               /\ \A t \in Moments : /\ history'.ips[ip][t] <= history.ips[ip][t]
                                     /\ history.now - t < Keep => history'.ips[ip][t] = history.ips[ip][t]
    <3>1. \A t \in Moments : history.ips[ip][t] \in Nat
      BY <1>3 DEF Amounts
    <3>2. history'.ips[ip] = Guard!Fresh(ip, Keep)
      BY <2>2
    <3>3. QED
      BY <1>2, <1>3, <3>1, <3>2
  <2>4. history'.ips \in [Ips -> Amounts]
    BY <2>2, <2>3
  <2>5. HistoryShaped'
    BY <1>2, <2>2, <2>4 DEF HistoryShaped
  <2>6. Earned'
    BY <1>2, <2>2 DEF Earned, LetIn
  <2>7. history.now \in Nat
    BY <1>2 DEF HistoryShaped, Moments
  <2>8. QED
    BY <1>6, <2>2, <2>3, <2>5, <2>6, <2>7
<1>9. ASSUME Guard!SetBlackIPs \/ Guard!HistoryTick PROVE HistoryInv'
  <2>1. history.now \in Nat /\ \A ip \in Ips : \A t \in Moments : history.ips[ip][t] \in Nat
    BY <1>2, <1>3 DEF HistoryShaped, Moments, Amounts
  <2>2. \/ \E list \in SUBSET Ips : history' = [history EXCEPT !.black = history.black \cup list]
        \/ history.now <= Keep /\ history' = [history EXCEPT !.now = history.now + 1]
    BY <1>2, <1>9 DEF Guard!SetBlackIPs, Guard!HistoryTick, HistoryShaped
  <2>3. /\ history'.now >= history.now /\ history'.ips = history.ips /\ history'.admitted = history.admitted
        /\ history'.earned = history.earned /\ HistoryShaped'
    <3>1. CASE \E list \in SUBSET Ips : history' = [history EXCEPT !.black = history.black \cup list]
      <4>1. PICK list \in SUBSET Ips : history' = [history EXCEPT !.black = history.black \cup list]
        BY <3>1
      <4>2. history' = [now |-> history.now, ips |-> history.ips, black |-> history.black \cup list,
                        earned |-> history.earned, admitted |-> history.admitted]
        BY <1>2, <4>1 DEF HistoryShaped
      <4>3. QED
        BY <1>2, <2>1, <4>2 DEF HistoryShaped
    <3>2. CASE history.now <= Keep /\ history' = [history EXCEPT !.now = history.now + 1]
      BY <1>2, <2>1, <3>2, SMTT(60) DEF HistoryShaped, Moments
    <3>3. QED
      BY <2>2, <3>1, <3>2
  <2>4. Earned'
    BY <1>2, <2>3 DEF Earned, LetIn
  <2>5. QED
    BY <1>6, <2>1, <2>3, <2>4
<1>10. QED
  BY <1>1, <1>7, <1>8, <1>9 DEF Guard!HistoryNext

LEMMA HistoryHolds ==
    HistoryInv => /\ Guard!WindowsKept /\ Guard!BlackEarned
                  /\ history.now \in Guard!Moments /\ \A ip \in Ips : history.ips[ip] \in [Guard!Moments -> Nat]
<1>1. SUFFICES ASSUME HistoryInv
               PROVE  /\ Guard!WindowsKept /\ Guard!BlackEarned
                      /\ history.now \in Guard!Moments /\ \A ip \in Ips : history.ips[ip] \in [Guard!Moments -> Nat]
  OBVIOUS
<1>2. HistoryShaped /\ WindowsFull /\ Earned /\ Guard!Moments = Moments
  BY <1>1 DEF HistoryInv, Guard!Moments, Moments
<1>3. Guard!WindowsKept
  BY <1>2, WindowIsTotal, ZenonT(60) DEF Guard!WindowsKept, WindowsFull, Span
<1>4. \A k \in Limiters, ip \in Ips : LetIn(k, ip) => history.admitted[k][ip] # Guard!Never
  BY <1>2 DEF LetIn, Guard!Never
<1>5. Guard!BlackEarned
  BY <1>2, <1>4 DEF Guard!BlackEarned, Earned, HistoryShaped
<1>6. QED
  BY <1>2, <1>3, <1>5 DEF HistoryShaped, Amounts
-----------------------------------------------------------------------------
(* What the guards decide by, together *)

GuardsInv == HistoryInv /\ BucketsInv /\ JwtInv /\ SessionsInv /\ BrowserInv

LEMMA GuardsStart == MCInit => GuardsInv
  BY HistoryStart, BucketsStart, JwtStart, SessionsStart, BrowserStart DEF MCInit, GuardsInv

LEMMA GuardsStay == GuardsInv /\ UNCHANGED guardVars => GuardsInv'
  BY HistoryStays, BucketsStay, JwtStays, SessionsStay, BrowserStays DEF guardVars, GuardsInv

LEMMA GuardsStep == GuardsInv /\ [MCNext]_mcVars => GuardsInv'
<1>1. SUFFICES ASSUME GuardsInv, MCNext PROVE GuardsInv'
  BY GuardsStay DEF mcVars
<1>2. HistoryInv /\ BucketsInv /\ JwtInv /\ SessionsInv /\ BrowserInv
  BY <1>1 DEF GuardsInv
<1>3. CASE Guard!HistoryNext /\ UNCHANGED <<buckets, jwt, sessions, browser>>
  BY <1>2, <1>3, HistoryStep, BucketsStay, JwtStays, SessionsStay, BrowserStays DEF GuardsInv
<1>4. CASE Guard!BucketsNext /\ UNCHANGED <<history, jwt, sessions, browser>>
  BY <1>2, <1>4, HistoryStays, BucketsStep, JwtStays, SessionsStay, BrowserStays DEF GuardsInv
<1>5. CASE Guard!JwtNext /\ UNCHANGED <<history, buckets, sessions, browser>>
  BY <1>2, <1>5, HistoryStays, BucketsStay, JwtStep, SessionsStay, BrowserStays DEF GuardsInv
<1>6. CASE Guard!SessionsNext /\ UNCHANGED <<history, buckets, jwt, browser>>
  BY <1>2, <1>6, HistoryStays, BucketsStay, JwtStays, SessionsStep, BrowserStays DEF GuardsInv
<1>7. CASE Guard!BrowserNext /\ UNCHANGED <<history, buckets, jwt, sessions>>
  BY <1>2, <1>7, HistoryStays, BucketsStay, JwtStays, SessionsStay, BrowserStep DEF GuardsInv
<1>8. CASE UNCHANGED guardVars
  BY <1>1, <1>8, GuardsStay
<1>9. QED
  BY <1>1, <1>3, <1>4, <1>5, <1>6, <1>7, <1>8
     DEF MCNext, OnChain, OnGuard, OnRoutes, OnLife, OnLoad

(* middleware.go:395-447, rate_limiter.go:112-129, jwt.go:103-173,          *)
(* session_manager.go:77-95, middleware.go:154-208: for any limiters,       *)
(* addresses, tokens, sessions and callers, the shortest window lets no     *)
(* more in than its limit, an address is banned only for what several       *)
(* limiters let in and has one bucket, what was revoked or logged out stays *)
(* so, and a page carries a CSRF token.                                     *)
THEOREM GuardsHold == MCSpec => []GuardsSound
<1>1. GuardsInv => GuardsSound
  <2>1. SUFFICES ASSUME GuardsInv PROVE GuardsSound
    OBVIOUS
  <2>2. Guard!LimitsKept
    BY <2>1, HistoryHolds, BucketsHold DEF GuardsInv, Guard!LimitsKept
  <2>3. Guard!ChecksAgree
    BY <2>1, PoliciesHold DEF GuardsInv, BrowserInv, Guard!ChecksAgree
  <2>4. Guard!GuardsTypeOK
    BY <2>1, HistoryHolds, BucketsHold, JwtHolds, SessionsHold DEF GuardsInv, BrowserInv, Guard!GuardsTypeOK
  <2>5. QED
    BY <2>1, <2>2, <2>3, <2>4, JwtHolds, SessionsHold DEF GuardsInv, GuardsSound
<1>2. QED
  BY <1>1, GuardsStart, GuardsStep, PTL DEF MCSpec

-----------------------------------------------------------------------------
(* The life of the process *)

Opened == {"db", "rabbitmq", "redis", "nacos", "log"}
Mains == {"check", "connect", "run", "watch", "started", "listen", "serving", "failed", "exited"}
Stages == {"none", "go", "grpc", "http", "drain", "closing", "closed"}
Hooks == {"starting", "started", "stopping", "stopped"}
Processes ==
    [alive : BOOLEAN, main : Mains, left : SUBSET Ports, killing : Ports \cup {"none"}, rounds : 0..MaxRounds,
     asked : SUBSET Opened, signal : BOOLEAN, quit : Stages, timedOut : BOOLEAN, served : BOOLEAN, hooks : Seq(Hooks)]
AppShaped ==
    /\ app \in Processes
    /\ open \subseteq Opened
    /\ port \in [Ports -> {"free", "other", "ours"}]
    /\ grpc \in [start : {"none", "created", "go", "serve", "serving", "failed", "stopped"},
                 state : {"off", "running", "stopping"}, mu : BOOLEAN, late : BOOLEAN]
    /\ calls \in [http : 0..MaxCalls, grpc : 0..MaxCalls]

(* The listener is gone when the requests in progress are waited for.  Of   *)
(* the gRPC server: who stops it holds its mutex until no call is left, so  *)
(* that it runs behind that only when it came up late.                      *)
Ending == {"http", "drain", "closing", "closed"}
StopsOnce ==
    /\ app.quit # "none" => app.main \notin {"check", "connect", "run", "watch"}
    /\ app.main \in {"check", "connect"} => grpc.start = "none"
    /\ app.quit \in {"drain", "closing", "closed"} => port["http"] # "ours"
    /\ app.quit \in {"closing", "closed"} /\ calls.http > 0 => app.timedOut
    /\ grpc.start \in {"none", "created", "go"} => grpc.state = "off"
    /\ calls.grpc > 0 => grpc.state # "off"
    /\ grpc.state = "stopping" => app.quit = "grpc" /\ grpc.mu
    /\ app.quit \in Ending /\ grpc.state = "running" => grpc.late
    /\ app.quit = "closed" => open = {}

(* What has run says how far the two goroutines are. *)
Ran(name) == \E i \in DOMAIN app.hooks : app.hooks[i] = name
HooksTell ==
    /\ app.main \in {"check", "connect", "run"} => app.hooks = <<>>
    /\ app.main \in {"watch", "started"} => ~Ran("started")
    /\ app.quit \in {"none", "go"} => ~Ran("stopping")
    /\ app.quit # "closed" => ~Ran("stopped")
    /\ \A i, j \in DOMAIN app.hooks : i < j =>
          /\ app.hooks[j] \notin {"starting", app.hooks[i]}
          /\ app.hooks[i] = "stopped" => app.hooks[j] = "started"

AppInv == AppShaped /\ StopsOnce /\ HooksTell

LEMMA AppStart == MCInit => AppInv
<1>1. SUFFICES ASSUME Life1!LifeInit PROVE AppInv
  BY DEF MCInit
<1>2. /\ app.hooks = <<>> /\ app.main = "check" /\ app.quit = "none" /\ grpc.start = "none" /\ grpc.state = "off"
      /\ calls.http = 0 /\ calls.grpc = 0
  BY <1>1 DEF Life1!LifeInit
<1>3. AppShaped
  BY <1>1, WebAssumption DEF Life1!LifeInit, AppShaped, Processes, Mains, Stages, Hooks, Opened
<1>4. StopsOnce
  BY <1>2 DEF StopsOnce, Ending
<1>5. HooksTell
  BY <1>2 DEF HooksTell, Ran
<1>6. QED
  BY <1>3, <1>4, <1>5 DEF AppInv

LEMMA AppStays == AppInv /\ UNCHANGED appVars => AppInv'
  BY DEF AppInv, AppShaped, StopsOnce, HooksTell, Ran, appVars

LEMMA AppStep == AppInv /\ Life1!AppNext => AppInv'
<1>1. SUFFICES ASSUME AppInv, Life1!AppNext PROVE AppInv'
  OBVIOUS
<1>2. AppShaped /\ StopsOnce /\ HooksTell
  BY <1>1 DEF AppInv
<1>3. /\ "http" \in Ports /\ "grpc" \in Ports /\ MaxRounds \in Nat \ {0} /\ MaxCalls \in Nat
      /\ Opened = {"db", "rabbitmq", "redis", "nacos", "log"}
  BY WebAssumption DEF Opened
<1>26. \A name \in Hooks : Append(app.hooks, name) \in Seq(Hooks)
  BY <1>2 DEF AppShaped, Processes
(* A step that runs no hook. *)
<1>4. ASSUME AppShaped', StopsOnce', app'.hooks = app.hooks,
             \/ app'.main = app.main
             \/ app.main = "check" /\ app'.main = "connect"
             \/ app.main = "connect" /\ app'.main = "run"
             \/ app'.main \notin {"check", "connect", "run", "watch", "started"}
             \/ app.main = "watch" /\ app'.main = "started",
             \/ app'.quit = app.quit
             \/ app.quit = "none" /\ app'.quit = "go"
             \/ app'.quit \notin {"none", "go", "closed"} /\ app.quit # "closed"
      PROVE  AppInv'
  <2>1. HooksTell'
    BY <1>2, <1>4 DEF HooksTell, Ran, AppShaped, Processes, Mains, Stages, Hooks
  <2>2. QED
    BY <1>4, <2>1 DEF AppInv
(* A step that runs one. *)
<1>5. ASSUME NEW name \in Hooks, app'.hooks = Append(app.hooks, name),
             AppShaped', StopsOnce',
             name = "starting" => app.main = "run" /\ app'.main = "watch" /\ app'.quit = app.quit,
             name = "started" => app.main = "started" /\ app'.main = "listen" /\ app'.quit = app.quit,
             name = "stopping" => /\ app.quit = "go" /\ app'.quit \notin {"none", "go", "closed"}
                                  /\ app.main = app'.main,
             name = "stopped" => app.quit = "closing" /\ app'.quit = "closed" /\ app.main = app'.main
      PROVE  AppInv'
  <2>1. /\ Len(app.hooks) \in Nat /\ DOMAIN app.hooks = 1..Len(app.hooks)
        /\ DOMAIN app'.hooks = 1..(Len(app.hooks) + 1) /\ app'.hooks[Len(app.hooks) + 1] = name
        /\ \A i \in DOMAIN app.hooks : app'.hooks[i] = app.hooks[i]
    BY <1>2, <1>5 DEF AppShaped, Processes, Mains, Stages, Hooks
  <2>2. \A other : Ran(other)' <=> (Ran(other) \/ other = name)
    BY <2>1, SMTT(60) DEF Ran
  <2>3. /\ name = "starting" => app.hooks = <<>>
        /\ name = "started" => ~Ran("started")
        /\ name = "stopping" => ~Ran("stopping") /\ ~Ran("stopped")
        /\ name = "stopped" => ~Ran("stopped")
    BY <1>2, <1>5 DEF HooksTell
  <2>8. name = "starting" \/ name = "started" \/ name = "stopping" \/ name = "stopped"
    BY DEF Hooks
  <2>4. ASSUME NEW i \in DOMAIN app'.hooks, NEW j \in DOMAIN app'.hooks, i < j
        PROVE  /\ app'.hooks[j] \notin {"starting", app'.hooks[i]}
               /\ app'.hooks[i] = "stopped" => app'.hooks[j] = "started"
    <3>1. CASE j = Len(app.hooks) + 1
      <4>1. i \in DOMAIN app.hooks /\ app'.hooks[i] = app.hooks[i] /\ app'.hooks[j] = name /\ app.hooks # <<>>
        BY <2>1, <2>4, <3>1
      <4>2. Ran(app.hooks[i])
        BY <4>1 DEF Ran
      <4>3. QED
        BY <2>3, <2>8, <4>1, <4>2
    <3>2. CASE j # Len(app.hooks) + 1
      <4>1. i \in DOMAIN app.hooks /\ j \in DOMAIN app.hooks
        BY <2>1, <2>4, <3>2
      <4>2. QED
        BY <1>2, <2>1, <2>4, <4>1 DEF HooksTell
    <3>3. QED
      BY <3>1, <3>2
  <2>5. /\ app'.main \in {"check", "connect", "run"} => app'.hooks = <<>>
        /\ app'.main \in {"watch", "started"} => ~Ran("started")'
        /\ app'.quit \in {"none", "go"} => ~Ran("stopping")'
        /\ app'.quit # "closed" => ~Ran("stopped")'
    <3>1. CASE name = "starting"
      BY <1>2, <1>5, <2>2, <2>3, <3>1 DEF HooksTell, StopsOnce, Ran
    <3>2. CASE name = "started"
      BY <1>2, <1>5, <2>2, <3>2 DEF HooksTell, StopsOnce
    <3>3. CASE name = "stopping"
      BY <1>2, <1>5, <2>2, <3>3 DEF HooksTell, StopsOnce
    <3>4. CASE name = "stopped"
      BY <1>2, <1>5, <2>2, <3>4 DEF HooksTell, StopsOnce
    <3>5. QED
      BY <2>8, <3>1, <3>2, <3>3, <3>4
  <2>6. HooksTell'
    BY <2>4, <2>5 DEF HooksTell
  <2>7. QED
    BY <1>5, <2>6 DEF AppInv
(* Initialize. *)
<1>6. ASSUME NEW p \in Ports, Life1!TakePort(p) PROVE AppInv'
  <2>1. AppShaped'
    BY <1>2, <1>6 DEF AppShaped, Processes, Mains, Stages, Hooks, Life1!TakePort
  <2>2. StopsOnce'
    BY <1>2, <1>3, <1>6 DEF AppShaped, Processes, Mains, Stages, Hooks, StopsOnce, Life1!TakePort
  <2>3. QED
    BY <1>4, <1>6, <2>1, <2>2 DEF Life1!TakePort
<1>7. ASSUME NEW p \in Ports, NEW kill \in BOOLEAN, Life1!CheckPort(p, kill) PROVE AppInv'
  <2>1. /\ app'.main = app.main /\ app'.quit = app.quit /\ app'.hooks = app.hooks /\ app'.timedOut = app.timedOut
        /\ app.main = "check"
        /\ UNCHANGED <<open, grpc, calls>>
        /\ port' = port \/ port' = [port EXCEPT ![p] = "free"]
    <3>1. /\ app.main = "check" /\ UNCHANGED <<open, grpc, calls>>
          /\ port' = port \/ port' = [port EXCEPT ![p] = "free"]
      BY <1>7 DEF Life1!CheckPort, Life1!Main
    <3>2. app'.main = app.main /\ app'.quit = app.quit /\ app'.hooks = app.hooks /\ app'.timedOut = app.timedOut
      BY <1>2, <1>7, ZenonT(60) DEF AppShaped, Processes, Life1!CheckPort
    <3>3. QED
      BY <3>1, <3>2
  <2>2. app' \in {[app EXCEPT !.left = app.left \ {p}], [app EXCEPT !.left = app.left \ {p}, !.killing = p, !.rounds = 1],
                  [app EXCEPT !.left = {}]}
    BY <1>2, <1>7 DEF AppShaped, Processes, Mains, Stages, Hooks, Life1!CheckPort
  <2>6. app' \in Processes
    <3>1. app \in Processes /\ app.left \ {p} \in SUBSET Ports /\ {} \in SUBSET Ports /\ 1 \in 0..MaxRounds
      BY <1>2, <1>3 DEF AppShaped, Processes
    <3>2. QED
      <4>1. CASE app' = [app EXCEPT !.left = app.left \ {p}]
        BY <3>1, <4>1 DEF Processes
      <4>2. CASE app' = [app EXCEPT !.left = app.left \ {p}, !.killing = p, !.rounds = 1]
        BY <3>1, <4>2 DEF Processes
      <4>3. CASE app' = [app EXCEPT !.left = {}]
        BY <3>1, <4>3 DEF Processes
      <4>4. QED
        BY <2>2, <4>1, <4>2, <4>3
  <2>3. AppShaped'
    BY <1>2, <1>3, <2>1, <2>6 DEF AppShaped
  <2>4. StopsOnce'
    BY <1>2, <1>3, <2>1 DEF AppShaped, Processes, Mains, Stages, Hooks, StopsOnce
  <2>5. QED
    BY <1>4, <2>1, <2>3, <2>4
<1>8. ASSUME Life1!KillRound \/ Life1!Checked PROVE AppInv'
  <2>1. /\ app'.quit = app.quit /\ app'.hooks = app.hooks /\ app'.timedOut = app.timedOut /\ app.main = "check"
        /\ app'.main \in {"check", "connect"} /\ UNCHANGED <<open, port, grpc, calls>>
    <3>1. CASE Life1!KillRound
      BY <1>2, <3>1 DEF AppShaped, Processes, Life1!KillRound, Life1!Main
    <3>2. CASE Life1!Checked
      BY <1>2, <3>2 DEF AppShaped, Processes, Life1!Checked, Life1!Main, Life1!Goes
    <3>3. QED
      BY <1>8, <3>1, <3>2
  <2>5. app' \in Processes
    <3>1. /\ app \in Processes /\ {} \in SUBSET Ports /\ 0 \in 0..MaxRounds /\ "connect" \in Mains
          /\ app.rounds < MaxRounds => app.rounds + 1 \in 0..MaxRounds
      BY <1>2, <1>3 DEF AppShaped, Processes, Mains
    <3>2. \/ app' = [app EXCEPT !.killing = "none", !.rounds = 0]
          \/ app.rounds < MaxRounds /\ app' = [app EXCEPT !.rounds = app.rounds + 1]
          \/ app' = [app EXCEPT !.killing = "none", !.rounds = 0, !.left = {}]
          \/ app' = [app EXCEPT !.main = "connect"]
      BY <1>8 DEF Life1!KillRound, Life1!Checked, Life1!Goes
    <3>3. QED
      <4>1. CASE app' = [app EXCEPT !.killing = "none", !.rounds = 0]
        BY <3>1, <4>1 DEF Processes
      <4>2. CASE app.rounds < MaxRounds /\ app' = [app EXCEPT !.rounds = app.rounds + 1]
        BY <3>1, <4>2 DEF Processes
      <4>3. CASE app' = [app EXCEPT !.killing = "none", !.rounds = 0, !.left = {}]
        BY <3>1, <4>3 DEF Processes
      <4>4. CASE app' = [app EXCEPT !.main = "connect"]
        BY <3>1, <4>4 DEF Processes
      <4>5. QED
        BY <3>2, <4>1, <4>2, <4>3, <4>4
  <2>2. AppShaped'
    BY <1>2, <2>1, <2>5 DEF AppShaped
  <2>3. StopsOnce'
    BY <1>2, <2>1 DEF AppShaped, Processes, Mains, Stages, Hooks, StopsOnce
  <2>4. QED
    BY <1>4, <2>1, <2>2, <2>3
<1>9. ASSUME NEW s \in app.asked, Life1!Connect(s) PROVE AppInv'
  <2>1. /\ app' = [app EXCEPT !.asked = app.asked \ {s}] /\ app.main = "connect" /\ s \in Opened
        /\ open' \in {open, open \cup {s}} /\ UNCHANGED <<port, grpc, calls>>
    BY <1>2, <1>9 DEF AppShaped, Processes, Mains, Stages, Hooks, Life1!Connect, Life1!Main
  <2>2. AppShaped'
    <3>1. app' \in Processes
      BY <1>2, <2>1 DEF AppShaped, Processes, Mains, Stages, Hooks
    <3>2. QED
      BY <1>2, <2>1, <3>1 DEF AppShaped
  <2>3. StopsOnce'
    BY <1>2, <2>1 DEF AppShaped, Processes, Mains, Stages, Hooks, StopsOnce
  <2>4. QED
    BY <1>2, <1>4, <2>1, <2>2, <2>3 DEF AppShaped, Processes, Mains, Stages, Hooks
<1>10. ASSUME NEW enabled \in BOOLEAN, Life1!NewGrpcServer(enabled) PROVE AppInv'
  <2>1. /\ app' = [app EXCEPT !.main = "run"] /\ app.main = "connect"
        /\ grpc' = [grpc EXCEPT !.start = IF enabled THEN "created" ELSE "none"] /\ UNCHANGED <<open, port, calls>>
    BY <1>10 DEF Life1!NewGrpcServer, Life1!Main, Life1!Goes
  <2>2. AppShaped'
    <3>1. app' \in Processes
      BY <1>2, <2>1 DEF AppShaped, Processes, Mains, Stages, Hooks
    <3>2. QED
      BY <1>2, <2>1, <3>1 DEF AppShaped
  <2>3. StopsOnce'
    BY <1>2, <2>1 DEF AppShaped, Processes, Mains, Stages, Hooks, StopsOnce, Ending
  <2>4. app'.hooks = app.hooks /\ app'.main = "run" /\ app'.quit = app.quit
    BY <1>2, <2>1 DEF AppShaped, Processes
  <2>5. QED
    BY <1>4, <2>1, <2>2, <2>3, <2>4
(* Run. *)
<1>11. CASE Life1!Run
  <2>1. /\ app' = [app EXCEPT !.hooks = Append(app.hooks, "starting"), !.main = "watch"] /\ app.main = "run"
        /\ grpc' = [grpc EXCEPT !.start = IF grpc.start = "created" THEN "go" ELSE grpc.start]
        /\ UNCHANGED <<open, port, calls>>
    BY <1>2, <1>11 DEF Life1!Run, Life1!Main, Life1!RunHooks, AppShaped, Processes, Mains, Stages, Hooks
  <2>2. AppShaped'
    <3>1. app' \in Processes
      <4>1. PICK h \in Seq(Hooks) : app' = [app EXCEPT !.hooks = h, !.main = "watch"]
        BY <1>26, <2>1 DEF Hooks
      <4>2. QED
        BY <1>2, <4>1 DEF AppShaped, Processes, Mains, Stages
    <3>2. QED
      BY <1>2, <2>1, <3>1 DEF AppShaped
  <2>3. StopsOnce'
    BY <1>2, <2>1 DEF AppShaped, Processes, Mains, Stages, Hooks, StopsOnce, Ending
  <2>4. QED
    BY <1>2, <1>5, <2>1, <2>2, <2>3 DEF AppShaped, Processes, Mains, Stages, Hooks
<1>12. CASE Life1!WatchSignals
  <2>1. /\ app' = [app EXCEPT !.main = "started", !.quit = "go"] /\ app.main = "watch"
        /\ UNCHANGED <<open, port, grpc, calls>>
    BY <1>12 DEF Life1!WatchSignals, Life1!Main
  <2>2. app.quit = "none"
    BY <1>2, <2>1 DEF StopsOnce
  <2>3. AppShaped'
    <3>1. app' \in Processes
      BY <1>2, <2>1 DEF AppShaped, Processes, Mains, Stages, Hooks
    <3>2. QED
      BY <1>2, <2>1, <3>1 DEF AppShaped
  <2>4. StopsOnce'
    BY <1>2, <2>1, <2>2 DEF AppShaped, Processes, Mains, Stages, Hooks, StopsOnce, Ending
  <2>5. QED
    BY <1>2, <1>4, <2>1, <2>2, <2>3, <2>4 DEF AppShaped, Processes, Mains, Stages, Hooks
<1>13. CASE Life1!Started
  <2>1. /\ app' = [app EXCEPT !.hooks = Append(app.hooks, "started"), !.main = "listen"] /\ app.main = "started"
        /\ UNCHANGED <<open, port, grpc, calls>>
    BY <1>2, <1>13 DEF Life1!Started, Life1!Main, Life1!RunHooks, AppShaped, Processes, Mains, Stages, Hooks
  <2>2. AppShaped'
    <3>1. app' \in Processes
      <4>1. PICK h \in Seq(Hooks) : app' = [app EXCEPT !.hooks = h, !.main = "listen"]
        BY <1>26, <2>1 DEF Hooks
      <4>2. QED
        BY <1>2, <4>1 DEF AppShaped, Processes, Mains, Stages
    <3>2. QED
      BY <1>2, <2>1, <3>1 DEF AppShaped
  <2>3. StopsOnce'
    BY <1>2, <2>1 DEF AppShaped, Processes, Mains, Stages, Hooks, StopsOnce, Ending
  <2>4. QED
    BY <1>2, <1>5, <2>1, <2>2, <2>3 DEF AppShaped, Processes, Mains, Stages, Hooks
<1>14. CASE Life1!ListenAndServe
  <2>1. app.main = "listen" /\ UNCHANGED <<open, grpc, calls>>
    BY <1>14 DEF Life1!ListenAndServe, Life1!Main
  <2>2. CASE app' = [app EXCEPT !.main = "failed"] /\ port' = port
    <3>1. AppShaped'
      BY <1>2, <2>1, <2>2 DEF AppShaped, Processes, Mains
    <3>2. StopsOnce'
      BY <1>2, <2>1, <2>2 DEF AppShaped, Processes, StopsOnce, Ending
    <3>3. QED
      BY <1>2, <1>4, <2>1, <2>2, <3>1, <3>2 DEF AppShaped, Processes
  <2>3. CASE /\ app' = [app EXCEPT !.main = "serving", !.served = TRUE] /\ port' = [port EXCEPT !["http"] = "ours"]
             /\ app.quit \notin {"drain", "closing", "closed"}
    <3>1. AppShaped'
      BY <1>2, <2>1, <2>3 DEF AppShaped, Processes, Mains
    <3>2. StopsOnce'
      BY <1>2, <2>1, <2>3 DEF AppShaped, Processes, StopsOnce, Ending
    <3>3. QED
      BY <1>2, <1>4, <2>1, <2>3, <3>1, <3>2 DEF AppShaped, Processes
  <2>4. QED
    BY <1>14, <2>2, <2>3 DEF Life1!ListenAndServe, Life1!Goes
<1>15. ASSUME Life1!Return \/ Life1!Signal PROVE AppInv'
  <2>1. /\ app' \in {[app EXCEPT !.alive = FALSE, !.main = "exited"], [app EXCEPT !.signal = TRUE]}
        /\ UNCHANGED <<open, port, grpc, calls>>
    BY <1>15 DEF Life1!Return, Life1!Signal, Life1!Exits
  <2>2. app' \in Processes
    <3>1. CASE app' = [app EXCEPT !.alive = FALSE, !.main = "exited"]
      BY <1>2, <3>1 DEF AppShaped, Processes, Mains
    <3>2. CASE app' = [app EXCEPT !.signal = TRUE]
      BY <1>2, <3>2 DEF AppShaped, Processes
    <3>3. QED
      BY <2>1, <3>1, <3>2
  <2>3. /\ app'.main \in {app.main, "exited"} /\ app'.quit = app.quit /\ app'.hooks = app.hooks
        /\ app'.timedOut = app.timedOut
    BY <1>2, <2>1, ZenonT(60) DEF AppShaped, Processes
  <2>4. AppShaped'
    BY <1>2, <2>1, <2>2 DEF AppShaped
  <2>5. StopsOnce'
    BY <1>2, <2>1, <2>3 DEF StopsOnce, Ending
  <2>6. QED
    BY <1>4, <2>3, <2>4, <2>5
(* The gRPC server. *)
<1>16. CASE Life1!GrpcListen
  <2>1. grpc.start = "go" /\ UNCHANGED <<app, open, calls>>
    BY <1>16 DEF Life1!GrpcListen
  <2>2. CASE grpc' = [grpc EXCEPT !.start = "failed"] /\ port' = port
    <3>1. AppShaped'
      BY <1>2, <2>1, <2>2 DEF AppShaped
    <3>2. StopsOnce'
      BY <1>2, <2>1, <2>2 DEF AppShaped, StopsOnce, Ending
    <3>3. QED
      BY <1>2, <1>4, <2>1, <3>1, <3>2
  <2>3. CASE /\ port' = [port EXCEPT !["grpc"] = "ours"]
             /\ grpc' = [grpc EXCEPT !.start = "serve", !.state = "running", !.late = app.quit \notin {"none", "go", "grpc"}]
    <3>1. /\ grpc'.start = "serve" /\ grpc'.state = "running" /\ grpc'.mu = grpc.mu /\ grpc'.late \in BOOLEAN
          /\ grpc'.late <=> app.quit \notin {"none", "go", "grpc"}
          /\ grpc' = [start |-> "serve", state |-> "running", mu |-> grpc.mu, late |-> grpc'.late]
          /\ port' \in [Ports -> {"free", "other", "ours"}] /\ port'["http"] = port["http"]
      BY <1>2, <1>3, <2>3 DEF AppShaped
    <3>2. AppShaped'
      BY <1>2, <2>1, <3>1 DEF AppShaped
    <3>3. StopsOnce'
      BY <1>2, <2>1, <3>1 DEF StopsOnce, Ending
    <3>4. QED
      BY <1>2, <1>4, <2>1, <3>2, <3>3
  <2>4. QED
    BY <1>16, <2>2, <2>3 DEF Life1!GrpcListen
<1>17. CASE Life1!GrpcServe
  <2>1. /\ grpc.start = "serve" /\ UNCHANGED <<app, open, port, calls>>
        /\ \E x \in {"serving", "failed"} : grpc' = [grpc EXCEPT !.start = x]
    BY <1>17 DEF Life1!GrpcServe
  <2>2. AppShaped'
    <3>1. app' \in Processes
      BY <1>2, <2>1 DEF AppShaped, Processes, Mains, Stages, Hooks
    <3>2. QED
      BY <1>2, <2>1, <3>1 DEF AppShaped
  <2>3. StopsOnce'
    BY <1>2, <2>1 DEF AppShaped, Processes, Mains, Stages, Hooks, StopsOnce, Ending
  <2>4. QED
    BY <1>2, <1>4, <2>1, <2>2, <2>3 DEF AppShaped, Processes, Mains, Stages, Hooks
<1>18. CASE Life1!GracefulStop
  <2>1. /\ app.quit = "grpc" /\ ~grpc.mu /\ UNCHANGED <<open, port, calls>>
        /\ \/ grpc.state = "running" /\ grpc' = [grpc EXCEPT !.mu = TRUE, !.state = "stopping"] /\ app' = app
           \/ grpc.state # "running" /\ app' = [app EXCEPT !.quit = "http"] /\ grpc' = grpc
    BY <1>18 DEF Life1!GracefulStop, Life1!Quit, Life1!Quits
  <2>2. AppShaped'
    <3>1. app' \in Processes
      BY <1>2, <2>1 DEF AppShaped, Processes, Mains, Stages, Hooks
    <3>2. QED
      BY <1>2, <2>1, <3>1 DEF AppShaped
  <2>3. StopsOnce'
    BY <1>2, <2>1, ZenonT(60) DEF AppShaped, Processes, Mains, Stages, Hooks, StopsOnce, Ending
  <2>4. QED
    BY <1>2, <1>4, <2>1, <2>2, <2>3 DEF AppShaped, Processes, Mains, Stages, Hooks
<1>19. CASE Life1!GracefulStopped
  <2>1. /\ app.quit = "grpc" /\ grpc.state = "stopping" /\ calls.grpc = 0 /\ UNCHANGED <<open, calls>>
        /\ app' = [app EXCEPT !.quit = "http"] /\ port' = [port EXCEPT !["grpc"] = "free"]
        /\ grpc' = [grpc EXCEPT !.mu = FALSE, !.state = "off", !.start = IF grpc.start = "serving" THEN "stopped" ELSE grpc.start]
    BY <1>2, <1>19 DEF Life1!GracefulStopped, Life1!Quit, Life1!Quits, AppShaped, Processes, Mains, Stages, Hooks
  <2>2. AppShaped'
    <3>1. app' \in Processes
      BY <1>2, <2>1 DEF AppShaped, Processes, Mains, Stages, Hooks
    <3>2. QED
      BY <1>2, <2>1, <3>1 DEF AppShaped
  <2>3. StopsOnce'
    BY <1>2, <2>1 DEF AppShaped, Processes, Mains, Stages, Hooks, StopsOnce, Ending
  <2>4. QED
    BY <1>2, <1>4, <2>1, <2>2, <2>3, SMTT(60) DEF AppShaped, Processes, Mains, Stages, Hooks
(* gracefulShutdown. *)
<1>20. CASE Life1!Stopping
  <2>1. /\ app.quit = "go" /\ UNCHANGED <<open, port, grpc, calls>>
        /\ \E q \in {"http", "grpc"} : /\ app' = [app EXCEPT !.hooks = Append(app.hooks, "stopping"), !.quit = q]
                                       /\ q = "http" => grpc.start = "none"
    BY <1>2, <1>20 DEF Life1!Stopping, Life1!Quit, Life1!RunHooks, AppShaped, Processes, Mains, Stages, Hooks
  <2>2. AppShaped'
    <3>1. app' \in Processes
      <4>1. PICK h \in Seq(Hooks), q \in Stages : app' = [app EXCEPT !.hooks = h, !.quit = q]
        BY <1>26, <2>1 DEF Hooks, Stages
      <4>2. QED
        BY <1>2, <4>1 DEF AppShaped, Processes
    <3>2. QED
      BY <1>2, <2>1, <3>1 DEF AppShaped
  <2>3. StopsOnce'
    BY <1>2, <2>1 DEF AppShaped, Processes, Mains, Stages, Hooks, StopsOnce, Ending
  <2>4. QED
    BY <1>2, <1>5, <2>1, <2>2, <2>3 DEF AppShaped, Processes, Mains, Stages, Hooks
<1>21. CASE Life1!Shutdown
  <2>1. /\ app.quit = "http" /\ UNCHANGED <<open, grpc, calls>> /\ app' = [app EXCEPT !.quit = "drain"]
        /\ port' = [port EXCEPT !["http"] = IF port["http"] = "ours" THEN "free" ELSE port["http"]]
    BY <1>2, <1>3, <1>21 DEF Life1!Shutdown, Life1!Quit, Life1!Quits, AppShaped, Processes, Mains, Stages, Hooks
  <2>2. AppShaped'
    <3>1. app' \in Processes
      BY <1>2, <1>3, <2>1 DEF AppShaped, Processes, Mains, Stages, Hooks
    <3>2. QED
      BY <1>2, <1>3, <2>1, <3>1 DEF AppShaped
  <2>3. StopsOnce'
    BY <1>2, <1>3, <2>1 DEF AppShaped, Processes, Mains, Stages, Hooks, StopsOnce, Ending
  <2>4. QED
    BY <1>2, <1>4, <2>1, <2>2, <2>3 DEF AppShaped, Processes, Mains, Stages, Hooks
<1>22. CASE Life1!Drained
  <2>1. /\ app.quit = "drain" /\ UNCHANGED <<open, port, grpc, calls>>
        /\ app' = [app EXCEPT !.quit = "closing", !.timedOut = calls.http > 0]
    BY <1>22 DEF Life1!Drained, Life1!Quit
  <2>2. AppShaped'
    <3>1. app' \in Processes
      <4>1. CASE calls.http > 0
        <5>1. app' = [app EXCEPT !.quit = "closing", !.timedOut = TRUE]
          BY <2>1, <4>1
        <5>2. QED
          BY <1>2, <5>1 DEF AppShaped, Processes, Stages
      <4>2. CASE ~(calls.http > 0)
        <5>1. app' = [app EXCEPT !.quit = "closing", !.timedOut = FALSE]
          <6>1. (calls.http > 0) = FALSE
            BY <4>2
          <6>2. QED
            BY <2>1, <6>1, Zenon
        <5>2. QED
          BY <1>2, <5>1 DEF AppShaped, Processes, Stages
      <4>3. QED
        BY <4>1, <4>2
    <3>2. QED
      BY <1>2, <2>1, <3>1 DEF AppShaped
  <2>3. StopsOnce'
    BY <1>2, <2>1 DEF AppShaped, Processes, Mains, Stages, Hooks, StopsOnce, Ending
  <2>4. QED
    BY <1>2, <1>4, <2>1, <2>2, <2>3 DEF AppShaped, Processes, Mains, Stages, Hooks
<1>23. CASE Life1!CloseNext
  <2> DEFINE still == {i \in DOMAIN Life1!Services : Life1!Services[i] \in open}
  <2>1. app.quit = "closing" /\ UNCHANGED <<port, grpc, calls>>
    BY <1>23 DEF Life1!CloseNext, Life1!Quit
  <2>2. CASE still # {}
    <3>1. app' = app /\ open' \subseteq open
      BY <1>23, <2>2 DEF Life1!CloseNext
    <3>2. AppShaped'
      <4>1. app' \in Processes
        BY <1>2, <2>1, <3>1 DEF AppShaped, Processes, Mains, Stages, Hooks
      <4>2. QED
        BY <1>2, <2>1, <3>1, <4>1 DEF AppShaped
    <3>3. StopsOnce'
      BY <1>2, <2>1, <3>1 DEF AppShaped, Processes, Mains, Stages, Hooks, StopsOnce, Ending
    <3>4. QED
      BY <1>2, <1>4, <2>1, <3>1, <3>2, <3>3
  <2>3. CASE still = {}
    <3>1. open' = open /\ app' = [app EXCEPT !.hooks = Append(app.hooks, "stopped"), !.quit = "closed"]
      BY <1>23, <2>3 DEF Life1!CloseNext, Life1!RunHooks
    <3>2. open = {}
      <4>1. /\ DOMAIN Life1!Services = 1..5
            /\ Life1!Services[1] = "db" /\ Life1!Services[2] = "rabbitmq" /\ Life1!Services[3] = "redis"
            /\ Life1!Services[4] = "nacos" /\ Life1!Services[5] = "log"
        BY DEF Life1!Services
      <4>2. QED
        BY <1>2, <1>3, <2>3, <4>1 DEF AppShaped, Processes, Mains, Stages, Hooks
    <3>3. AppShaped'
      <4>1. app' \in Processes
        <5>1. PICK h \in Seq(Hooks) : app' = [app EXCEPT !.hooks = h, !.quit = "closed"]
          BY <1>26, <2>1, <3>1 DEF Hooks
        <5>2. QED
          BY <1>2, <5>1 DEF AppShaped, Processes, Mains, Stages
      <4>2. QED
        BY <1>2, <2>1, <3>1, <4>1 DEF AppShaped
    <3>4. StopsOnce'
      BY <1>2, <2>1, <3>1, <3>2 DEF AppShaped, Processes, Mains, Stages, Hooks, StopsOnce, Ending
    <3>5. QED
      BY <1>2, <1>5, <2>1, <3>1, <3>3, <3>4 DEF AppShaped, Processes, Mains, Stages, Hooks
  <2>4. QED
    BY <2>2, <2>3
<1>24. ASSUME NEW k \in {"http", "grpc"}, Life1!Call(k) \/ Life1!Ended(k) PROVE AppInv'
  <2>1. UNCHANGED <<app, open, port, grpc>>
    BY <1>24 DEF Life1!Call, Life1!Ended
  <2>2. /\ calls.http \in 0..MaxCalls /\ calls.grpc \in 0..MaxCalls
        /\ calls = [http |-> calls.http, grpc |-> calls.grpc]
        /\ calls["http"] = calls.http /\ calls["grpc"] = calls.grpc
    BY <1>2 DEF AppShaped
  <2>3. \E n \in 0..MaxCalls : /\ calls' = [calls EXCEPT ![k] = n]
                               /\ n > 0 => calls[k] > 0 \/ Life1!Accepts(k)
    <3>1. calls[k] \in 0..MaxCalls
      BY <2>2
    <3>2. CASE Life1!Call(k)
      <4>1. calls' = [calls EXCEPT ![k] = calls[k] + 1] /\ Life1!Accepts(k) /\ calls[k] < MaxCalls
        BY <3>2 DEF Life1!Call
      <4>2. calls[k] + 1 \in 0..MaxCalls
        BY <1>3, <3>1, <4>1
      <4>3. QED
        BY <4>1, <4>2
    <3>3. CASE Life1!Ended(k)
      <4>1. calls' = [calls EXCEPT ![k] = calls[k] - 1] /\ calls[k] > 0
        BY <3>3 DEF Life1!Ended
      <4>2. calls[k] - 1 \in 0..MaxCalls
        BY <1>3, <3>1, <4>1
      <4>3. QED
        BY <4>1, <4>2
    <3>4. QED
      BY <1>24, <3>2, <3>3
  <2>4. PICK n \in 0..MaxCalls : calls' = [calls EXCEPT ![k] = n] /\ (n > 0 => calls[k] > 0 \/ Life1!Accepts(k))
    BY <2>3
  <2>5. /\ calls'.http = IF k = "http" THEN n ELSE calls.http
        /\ calls'.grpc = IF k = "grpc" THEN n ELSE calls.grpc
        /\ calls' = [http |-> calls'.http, grpc |-> calls'.grpc]
    BY <2>2, <2>4
  <2>6. /\ calls'.http > 0 => calls.http > 0 \/ port["http"] = "ours"
        /\ calls'.grpc > 0 => calls.grpc > 0 \/ grpc.state = "running"
    BY <2>2, <2>4, <2>5 DEF Life1!Accepts
  <2>7. AppShaped'
    BY <1>2, <2>1, <2>2, <2>5 DEF AppShaped
  <2>8. StopsOnce'
    BY <1>2, <2>1, <2>6 DEF StopsOnce, Ending
  <2>9. QED
    BY <1>2, <1>4, <2>1, <2>7, <2>8
<1>25. QED
  BY <1>1, <1>6, <1>7, <1>8, <1>9, <1>10, <1>11, <1>12, <1>13, <1>14, <1>15, <1>16, <1>17, <1>18, <1>19, <1>20,
     <1>21, <1>22, <1>23, <1>24 DEF Life1!AppNext

-----------------------------------------------------------------------------
(* The configuration centre *)

Contents == [Keys -> Values \cup {0}]
Newest == Len(center.server)
Known(k, v) == \E i \in 1..Newest : center.server[i][k] = v
CenterShaped ==
    /\ center \in [server : Seq(Contents), nacos : Nat, behind : BOOLEAN, load : Nat, changes : Nat,
                   merged : [Keys -> Values \cup {0}], poll : Nat, told : SUBSET (Keys \X (Values \cup {0})),
                   closed : BOOLEAN]
    /\ Newest \in 1..MaxVersions /\ center.nacos \in 1..Newest /\ center.changes \in 0..(Newest - 1)
    /\ center.load \in 0..Newest /\ center.poll \in 0..Newest

(* A Load that began after the client had fallen behind has what it was     *)
(* told last, or something later.                                           *)
CenterSound ==
    /\ \A pair \in center.told : Known(pair[1], pair[2])
    /\ \A k \in Keys : center.merged[k] # 0 => Known(k, center.merged[k])
    /\ center.nacos >= Newest - center.changes \/ center.behind
    /\ center.load # 0 /\ center.behind => center.load >= Newest - center.changes

CenterInv == CenterShaped /\ CenterSound

LEMMA CenterStart == MCInit => CenterInv
<1>1. SUFFICES ASSUME Life1!LifeInit PROVE CenterInv
  BY DEF MCInit
<1> DEFINE none == [k \in Keys |-> 0]
<1>2. center = [server |-> <<none>>, nacos |-> 1, behind |-> FALSE, load |-> 0, changes |-> 0,
                merged |-> none, poll |-> 0, told |-> {}, closed |-> FALSE]
  BY <1>1 DEF Life1!LifeInit, Life1!Absent
<1>3. none \in Contents /\ none \in [Keys -> Values \cup {0}] /\ \A k \in Keys : none[k] = 0
  BY DEF Contents
<1> HIDE DEF none
<1>4. <<none>> \in Seq(Contents) /\ Len(<<none>>) = 1
  BY <1>3
<1>5. CenterShaped
  BY <1>2, <1>3, <1>4, WebAssumption DEF CenterShaped, Newest
<1>6. CenterSound
  BY <1>2, <1>3, <1>4 DEF CenterSound, Newest
<1>7. QED
  BY <1>5, <1>6 DEF CenterInv

LEMMA CenterStays == CenterInv /\ UNCHANGED center => CenterInv'
  BY DEF CenterInv, CenterShaped, CenterSound, Newest, Known

LEMMA CenterStep == CenterInv /\ Life1!CenterNext => CenterInv'
<1>1. SUFFICES ASSUME CenterInv, Life1!CenterNext PROVE CenterInv'
  OBVIOUS
<1>2. /\ CenterShaped /\ CenterSound /\ MaxVersions \in Nat \ {0} /\ Life1!Absent = 0 /\ Life1!Latest = Newest
      /\ Newest \in Nat /\ center.changes \in Nat /\ center.nacos \in Nat /\ center.load \in Nat /\ center.poll \in Nat
  BY <1>1, WebAssumption DEF CenterInv, CenterShaped, Life1!Absent, Life1!Latest, Newest
(* A content more. *)
<1>3. ASSUME NEW content \in Contents, Newest < MaxVersions, center'.server = Append(center.server, content),
             NEW merged \in [Keys -> Values \cup {0}],
             center' = [center EXCEPT !.server = Append(center.server, content), !.changes = center.changes + 1,
                                      !.merged = merged],
             \A k \in Keys : merged[k] \in {0, center.merged[k], content[k]}
      PROVE  CenterInv'
  <2>1. /\ Append(center.server, content) \in Seq(Contents) /\ Newest' = Newest + 1
        /\ center'.server[Newest + 1] = content /\ \A i \in 1..Newest : center'.server[i] = center.server[i]
    BY <1>2, <1>3 DEF CenterShaped, Newest
  <2>2. \A k, v : Known(k, v) => Known(k, v)'
    BY <1>2, <2>1 DEF Known
  <2>3. \A k \in Keys : Known(k, content[k])'
    BY <1>2, <2>1 DEF Known
  <2>4. /\ center'.changes = center.changes + 1 /\ center'.merged = merged /\ center'.nacos = center.nacos
        /\ center'.behind = center.behind /\ center'.load = center.load /\ center'.poll = center.poll
        /\ center'.told = center.told /\ center'.closed = center.closed
        /\ center' = [server |-> Append(center.server, content), nacos |-> center.nacos, behind |-> center.behind,
                      load |-> center.load, changes |-> center.changes + 1, merged |-> merged, poll |-> center.poll,
                      told |-> center.told, closed |-> center.closed]
    BY <1>2, <1>3 DEF CenterShaped
  <2>8. /\ center.nacos \in 1..Newest /\ center.changes \in 0..(Newest - 1) /\ center.load \in 0..Newest
        /\ center.poll \in 0..Newest /\ center.behind \in BOOLEAN /\ center.closed \in BOOLEAN
        /\ center.told \in SUBSET (Keys \X (Values \cup {0}))
    BY <1>2 DEF CenterShaped
  <2>9. /\ Newest + 1 \in 1..MaxVersions /\ center.nacos \in 1..(Newest + 1)
        /\ center.changes + 1 \in 0..((Newest + 1) - 1) /\ center.load \in 0..(Newest + 1) /\ center.poll \in 0..(Newest + 1)
    BY <1>2, <1>3, <2>8, SMTT(60)
  <2>5. CenterShaped'
    <3>1. center.changes + 1 \in Nat /\ merged \in [Keys -> Values \cup {0}]
      BY <1>2, <1>3
    <3>2. center' \in [server : Seq(Contents), nacos : Nat, behind : BOOLEAN, load : Nat, changes : Nat,
                      merged : [Keys -> Values \cup {0}], poll : Nat, told : SUBSET (Keys \X (Values \cup {0})),
                      closed : BOOLEAN]
      BY <1>2, <2>1, <2>4, <2>8, <3>1
    <3>3. QED
      BY <2>1, <2>4, <2>9, <3>2 DEF CenterShaped
  <2>6. CenterSound'
    <3>1. \A pair \in center'.told : Known(pair[1], pair[2])'
      BY <1>2, <2>2, <2>4 DEF CenterSound
    <3>2. ASSUME NEW k \in Keys, merged[k] # 0 PROVE Known(k, merged[k])'
      <4>1. CASE merged[k] = content[k]
        BY <2>3, <4>1
      <4>2. CASE merged[k] = center.merged[k]
        BY <1>2, <2>2, <3>2, <4>2 DEF CenterSound
      <4>3. QED
        BY <1>3, <3>2, <4>1, <4>2
    <3>3. /\ center'.nacos >= Newest' - center'.changes \/ center'.behind
          /\ center'.load # 0 /\ center'.behind => center'.load >= Newest' - center'.changes
      BY <1>2, <2>1, <2>4, SMTT(60) DEF CenterSound
    <3>4. \A k \in Keys : center'.merged[k] # 0 => Known(k, center.merged[k])'
      BY <2>4, <3>2
    <3>5. QED
      BY <3>1, <3>3, <3>4 DEF CenterSound
  <2>7. QED
    BY <2>5, <2>6 DEF CenterInv
(* No content more. *)
<1>4. ASSUME CenterShaped', center'.server = center.server,
             \A pair \in center'.told : pair \in center.told \/ Known(pair[1], pair[2]),
             \A k \in Keys : center'.merged[k] # 0 => Known(k, center'.merged[k]),
             center'.nacos >= Newest - center'.changes \/ center'.behind,
             center'.load # 0 /\ center'.behind => center'.load >= Newest - center'.changes
      PROVE  CenterInv'
  BY <1>2, <1>4, SMTT(60) DEF CenterInv, CenterSound, Known, Newest
<1>5. ASSUME NEW content \in Contents, Life1!Publish(content) PROVE CenterInv'
  <2>1. /\ Newest < MaxVersions /\ center.merged \in [Keys -> Values \cup {0}]
        /\ center' = [center EXCEPT !.server = Append(center.server, content), !.changes = center.changes + 1]
    BY <1>2, <1>5 DEF Life1!Publish, CenterShaped
  <2>2. center' = [center EXCEPT !.server = Append(center.server, content), !.changes = center.changes + 1,
                                 !.merged = center.merged]
    BY <1>2, <2>1 DEF CenterShaped
  <2>3. center'.server = Append(center.server, content)
    BY <1>2, <2>1 DEF CenterShaped
  <2>4. QED
    BY <1>3, <2>1, <2>2, <2>3
<1>6. ASSUME NEW k \in Keys, NEW v \in Values, Life1!PublishKey(k, v) PROVE CenterInv'
  <2> DEFINE content == [j \in Keys |-> IF j = k THEN v ELSE 0]
             merged == [center.merged EXCEPT ![k] = v]
  <2>1. /\ Newest < MaxVersions /\ center.merged \in [Keys -> Values \cup {0}]
        /\ center' = [center EXCEPT !.server = Append(center.server, content), !.changes = center.changes + 1,
                                    !.merged = merged]
    BY <1>2, <1>6 DEF Life1!PublishKey, CenterShaped
  <2>2. /\ content \in Contents /\ merged \in [Keys -> Values \cup {0}]
        /\ \A j \in Keys : merged[j] \in {0, center.merged[j], content[j]}
    BY <2>1 DEF Contents
  <2> HIDE DEF content, merged
  <2>3. center'.server = Append(center.server, content)
    BY <1>2, <2>1, SMTT(60) DEF CenterShaped
  <2>4. QED
    BY <1>3, <2>1, <2>2, <2>3
<1>7. ASSUME NEW k \in Keys, Life1!DeleteKey(k) PROVE CenterInv'
  <2> DEFINE content == [j \in Keys |-> 0]
             merged == [center.merged EXCEPT ![k] = 0]
  <2>1. /\ Newest < MaxVersions /\ center.merged \in [Keys -> Values \cup {0}]
        /\ center' = [center EXCEPT !.server = Append(center.server, content), !.changes = center.changes + 1,
                                    !.merged = merged]
    BY <1>2, <1>7 DEF Life1!DeleteKey, CenterShaped
  <2>2. /\ content \in Contents /\ merged \in [Keys -> Values \cup {0}]
        /\ \A j \in Keys : merged[j] \in {0, center.merged[j], content[j]}
    BY <2>1 DEF Contents
  <2> HIDE DEF content, merged
  <2>3. center'.server = Append(center.server, content)
    BY <1>2, <2>1 DEF CenterShaped
  <2>4. QED
    BY <1>3, <2>1, <2>2, <2>3
<1>8. CASE Life1!GetConfig
  <2>1. center' = [center EXCEPT !.load = Newest]
    BY <1>2, <1>8 DEF Life1!GetConfig
  <2>2. /\ center'.load = Newest /\ center'.server = center.server /\ center'.told = center.told
        /\ center'.merged = center.merged /\ center'.changes = center.changes /\ center'.nacos = center.nacos
        /\ center'.behind = center.behind
        /\ center' = [server |-> center.server, nacos |-> center.nacos, behind |-> center.behind, load |-> Newest,
                      changes |-> center.changes, merged |-> center.merged, poll |-> center.poll, told |-> center.told,
                      closed |-> center.closed]
    BY <1>2, <2>1 DEF CenterShaped
  <2>3. CenterShaped'
    BY <1>2, <2>2 DEF CenterShaped, Newest
  <2>4. Newest >= Newest - center.changes
    BY <1>2
  <2>5. QED
    BY <1>2, <1>4, <2>2, <2>3, <2>4 DEF CenterSound
<1>9. CASE Life1!Install
  <2>1. center.load # 0 /\ center' = [center EXCEPT !.nacos = center.load, !.behind = center.load < center.nacos, !.load = 0]
    BY <1>2, <1>9 DEF Life1!Install
  <2>2. ASSUME NEW b \in BOOLEAN, center' = [center EXCEPT !.nacos = center.load, !.behind = b, !.load = 0],
               b = TRUE \/ center.load >= center.nacos
        PROVE  CenterInv'
    <3>1. /\ center'.nacos = center.load /\ center'.load = 0 /\ center'.server = center.server /\ center'.told = center.told
          /\ center'.merged = center.merged /\ center'.changes = center.changes /\ center'.behind = b
          /\ center' = [server |-> center.server, nacos |-> center.load, behind |-> b, load |-> 0,
                        changes |-> center.changes, merged |-> center.merged, poll |-> center.poll,
                        told |-> center.told, closed |-> center.closed]
      BY <1>2, <2>2 DEF CenterShaped
    <3>2. CenterShaped'
      BY <1>2, <2>1, <3>1 DEF CenterShaped, Newest
    <3>3. center.load >= Newest - center.changes \/ b = TRUE
      BY <1>2, <2>1, <2>2 DEF CenterSound
    <3>4. QED
      BY <1>2, <1>4, <3>1, <3>2, <3>3 DEF CenterSound
  <2>3. CASE center.load < center.nacos
    <3>1. (center.load < center.nacos) = TRUE
      BY <2>3
    <3>2. center' = [center EXCEPT !.nacos = center.load, !.behind = TRUE, !.load = 0]
      BY <2>1, <3>1, Zenon
    <3>3. QED
      BY <2>2, <3>2
  <2>4. CASE ~(center.load < center.nacos)
    <3>1. (center.load < center.nacos) = FALSE /\ center.load >= center.nacos
      BY <1>2, <2>4
    <3>2. center' = [center EXCEPT !.nacos = center.load, !.behind = FALSE, !.load = 0]
      BY <2>1, <3>1, Zenon
    <3>3. QED
      BY <2>2, <3>1, <3>2
  <2>5. QED
    BY <2>3, <2>4
<1>10. CASE Life1!OnChange
  <2> DEFINE new == Newest - center.changes + 1
             more == {<<k, center.server[new][k]>> : k \in Life1!Differs(center.nacos, new)}
  <2>1. /\ center.changes > 0
        /\ center' = [center EXCEPT !.nacos = new, !.behind = FALSE, !.changes = center.changes - 1, !.told = center.told \cup more]
    BY <1>2, <1>10 DEF Life1!OnChange
  <2>2. new \in 1..Newest
    BY <1>2, <2>1 DEF CenterShaped
  <2>3. \A k \in Life1!Differs(center.nacos, new) : k \in Keys /\ Known(k, center.server[new][k])
    BY <2>2 DEF Life1!Differs, Known
  <2>4. center.server[new] \in Contents
    BY <1>2, <2>2 DEF CenterShaped, Newest
  <2>5. /\ \A pair \in more : Known(pair[1], pair[2])
        /\ more \subseteq Keys \X (Values \cup {0})
    BY <2>3, <2>4 DEF Contents
  <2> HIDE DEF new, more
  <2>6. CenterShaped' /\ center'.server = center.server
    <3>1. center'.changes \in 0..(Newest - 1) /\ center'.changes = center.changes - 1 /\ center'.nacos = new
          /\ new \in Nat /\ center.changes - 1 \in Nat
      BY <1>2, <2>1, <2>2 DEF CenterShaped
    <3>2. center.told \cup more \in SUBSET (Keys \X (Values \cup {0}))
      BY <1>2, <2>5 DEF CenterShaped
    <3>3. QED
      BY <1>2, <2>1, <2>2, <3>1, <3>2 DEF CenterShaped, Newest
  <2>7. new >= Newest - (center.changes - 1)
    BY <1>2 DEF new
  <2>8. QED
    BY <1>2, <1>4, <2>1, <2>5, <2>6, <2>7 DEF CenterShaped, CenterSound
<1>11. CASE Life1!Poll
  <2>1. center' = [center EXCEPT !.poll = Newest]
    BY <1>2, <1>11 DEF Life1!Poll
  <2>2. CenterShaped' /\ center'.server = center.server
    <3>1. center'.poll = Newest /\ center'.server = center.server /\ Newest \in 0..Newest
      BY <1>2, <2>1 DEF CenterShaped
    <3>2. Newest' = Newest
      BY <3>1 DEF Newest
    <3>3. QED
      BY <1>2, <2>1, <3>1, <3>2 DEF CenterShaped
  <2>3. QED
    BY <1>2, <1>4, <2>1, <2>2 DEF CenterShaped, CenterSound
<1>12. CASE Life1!Polled
  <2> DEFINE merged == [k \in Keys |-> Life1!Merge(k, center.poll)]
             more == {<<k, Life1!Merge(k, center.poll)>> : k \in {j \in Keys : Life1!Merge(j, center.poll) # 0}}
  <2>1. /\ center.poll # 0
        /\ center' = [center EXCEPT !.merged = merged, !.poll = 0, !.told = center.told \cup more]
    BY <1>2, <1>12 DEF Life1!Polled
  <2>2. center.poll \in 1..Newest /\ center.server[center.poll] \in Contents
    BY <1>2, <2>1 DEF CenterShaped, Newest
  <2>3. \A k \in Keys : /\ Life1!Merge(k, center.poll) \in Values \cup {0}
                        /\ Life1!Merge(k, center.poll) # 0 => Known(k, Life1!Merge(k, center.poll))
    BY <1>2, <2>2 DEF Life1!Merge, Contents, CenterShaped, CenterSound, Known
  <2>4. /\ \A pair \in more : Known(pair[1], pair[2])
        /\ more \subseteq Keys \X (Values \cup {0})
        /\ merged \in [Keys -> Values \cup {0}] /\ \A k \in Keys : merged[k] # 0 => Known(k, merged[k])
    BY <2>3
  <2> HIDE DEF merged, more
  <2>5. CenterShaped' /\ center'.server = center.server
    <3>1. center.told \cup more \in SUBSET (Keys \X (Values \cup {0}))
      BY <1>2, <2>4 DEF CenterShaped
    <3>2. center' = [server |-> center.server, nacos |-> center.nacos, behind |-> center.behind, load |-> center.load,
                     changes |-> center.changes, merged |-> merged, poll |-> 0, told |-> center.told \cup more,
                     closed |-> center.closed]
      BY <1>2, <2>1 DEF CenterShaped
    <3>3. QED
      BY <1>2, <2>4, <3>1, <3>2 DEF CenterShaped, Newest
  <2>6. QED
    BY <1>2, <1>4, <2>1, <2>4, <2>5 DEF CenterShaped, CenterSound
<1>13. CASE Life1!CloseCenter
  <2>1. center' = [center EXCEPT !.merged = [k \in Keys |-> 0], !.closed = TRUE]
    BY <1>2, <1>13 DEF Life1!CloseCenter
  <2>2. CenterShaped' /\ center'.server = center.server
    BY <1>2, <2>1 DEF CenterShaped, Newest
  <2>3. QED
    BY <1>2, <1>4, <2>1, <2>2 DEF CenterShaped, CenterSound
<1>14. QED
  BY <1>1, <1>2, <1>5, <1>6, <1>7, <1>8, <1>9, <1>10, <1>11, <1>12, <1>13 DEF Life1!CenterNext, Contents

-----------------------------------------------------------------------------
(* Together *)

LEMMA AppHolds == AppInv => Life1!ClosedAfterUse /\ Life1!HooksInOrder
<1>1. SUFFICES ASSUME AppInv PROVE Life1!ClosedAfterUse /\ Life1!HooksInOrder
  OBVIOUS
<1>2. AppShaped /\ StopsOnce /\ HooksTell
  BY <1>1 DEF AppInv
<1>3. Life1!ClosedAfterUse
  BY <1>2 DEF StopsOnce, AppShaped, Life1!ClosedAfterUse, Ending
<1>4. "stopped" \in Life1!Range(app.hooks) => open = {}
  BY <1>2 DEF Life1!Range, HooksTell, Ran, StopsOnce
<1>5. QED
  BY <1>2, <1>3, <1>4 DEF HooksTell, Life1!HooksInOrder

(* app.go:589-642, config: for any ports, keys, calls and versions, the     *)
(* database is closed under no request but those that had their time, hooks *)
(* run once and in order, and no client of the configuration centre keeps   *)
(* or tells what was never published.                                       *)
THEOREM LifeHolds == MCSpec => []LifeSound
<1> DEFINE Inv == AppInv /\ CenterInv
<1>1. MCInit => Inv
  BY AppStart, CenterStart
<1>2. Inv /\ [MCNext]_mcVars => Inv'
  <2>1. SUFFICES ASSUME Inv, [MCNext]_mcVars PROVE Inv'
    OBVIOUS
  <2>2. CASE UNCHANGED <<appVars, center>>
    BY <2>1, <2>2, AppStays, CenterStays
  <2>3. CASE Life1!AppNext /\ UNCHANGED center
    BY <2>1, <2>3, AppStep, CenterStays
  <2>4. CASE Life1!CenterNext /\ UNCHANGED appVars
    BY <2>1, <2>4, AppStays, CenterStep, SMTT(60)
  <2>5. Life1!AppNext => UNCHANGED center
    BY DEF Life1!AppNext, Life1!TakePort, Life1!CheckPort, Life1!KillRound, Life1!Checked, Life1!Connect,
           Life1!NewGrpcServer, Life1!Run, Life1!WatchSignals, Life1!Started, Life1!ListenAndServe, Life1!Return,
           Life1!GrpcListen, Life1!GrpcServe, Life1!GracefulStop, Life1!GracefulStopped, Life1!Signal, Life1!Stopping,
           Life1!Shutdown, Life1!Drained, Life1!CloseNext, Life1!Call, Life1!Ended
  <2>6. Life1!CenterNext => UNCHANGED appVars
    BY DEF Life1!CenterNext, Life1!appVars, appVars
  <2>7. QED
    BY <2>1, <2>2, <2>3, <2>4, <2>5, <2>6 DEF MCNext, mcVars, OnChain, OnGuard, OnRoutes, OnLife, OnLoad
<1>3. Inv => LifeSound
  <2>1. SUFFICES ASSUME Inv PROVE LifeSound
    OBVIOUS
  <2>2. Life1!ConfigsPublished
    BY <2>1 DEF CenterInv, CenterSound, Life1!ConfigsPublished, Life1!Published, Known, Newest, Life1!Latest, Life1!Absent
  <2>3. Life1!LifeTypeOK
    <3>1. Life1!Range(Life1!Services) = Opened
      <4>1. /\ DOMAIN Life1!Services = 1..5
            /\ Life1!Services[1] = "db" /\ Life1!Services[2] = "rabbitmq" /\ Life1!Services[3] = "redis"
            /\ Life1!Services[4] = "nacos" /\ Life1!Services[5] = "log"
        BY DEF Life1!Services
      <4>2. QED
        BY <4>1 DEF Life1!Range, Opened
    <3>2. calls \in [{"http", "grpc"} -> 0..MaxCalls]
      BY <2>1 DEF AppInv, AppShaped
    <3>3. center.nacos \in 1..MaxVersions
      BY <2>1, WebAssumption DEF CenterInv, CenterShaped
    <3>4. QED
      BY <2>1, <3>1, <3>2, <3>3 DEF AppInv, AppShaped, Processes, Life1!LifeTypeOK
  <2>4. QED
    BY <2>1, <2>2, <2>3, AppHolds DEF LifeSound, Life1!LifeSound
<1> HIDE DEF Inv
<1>4. QED
  BY <1>1, <1>2, <1>3, PTL DEF MCSpec

-----------------------------------------------------------------------------
(* The chain of handlers *)

Contexts1 == [owner : Requests \cup {"nobody"}, busy : BOOLEAN, chain : Seq(STRING), index : Nat,
              wrapped : BOOLEAN, error : BOOLEAN]
Calling == {"start", "after", "done", "wait"}
Frames == [call : BOOLEAN, at : Nat, kind : STRING \cup {"loop"}, pc : Calling \cup {"loop"}, tries : 0..MaxRetries]
Traces == [begun : BOOLEAN, at : Contexts \cup {"nobody"}, chain : Seq(STRING), ran : Seq(Nat), passed : SUBSET Nat,
           panicked : BOOLEAN, late : BOOLEAN, refused : BOOLEAN, failed : BOOLEAN, foreign : BOOLEAN, sent : BOOLEAN]
Threads == Requests \X {"main", "child"}
MainOf(r) == <<r, "main">>
ChildOf(r) == <<r, "child">>

ChainShaped ==
    /\ up \in BOOLEAN
    /\ context \in [Contexts -> Contexts1]
    /\ stack \in [Threads -> Seq(Frames)]
    /\ answer \in [Requests -> Seq(Nat)]
    /\ trace \in [Requests -> Traces]

(* Loops and calls of handlers alternate, and only the last call can be of  *)
(* a handler that has not called Next yet.                                  *)
Alternate(s) ==
    /\ Len(s) > 0 => ~s[1].call
    /\ \A k \in 1..Len(s) : k > 1 => (s[k].call <=> ~s[k - 1].call)
    /\ \A k \in 1..Len(s) : /\ s[k].call <=> s[k].pc # "loop"
                            /\ k < Len(s) => s[k].pc # "start"
Top1(s) == s[Len(s)]

(* A Context belongs to its request until the answer is sent.  A goroutine  *)
(* that was not left behind works while its request waits for it.           *)
Owned ==
    /\ \A c \in Contexts : context[c].owner # "nobody" =>
          LET r == context[c].owner IN
          trace[r].begun /\ trace[r].at = c /\ trace[r].chain = context[c].chain /\ context[c].index > 0
    /\ \A r \in Requests :
          /\ Len(trace[r].ran) = Len(trace[r].chain)
          /\ ~trace[r].begun => answer[r] = <<>> /\ ~trace[r].sent
          /\ trace[r].begun =>
                /\ trace[r].at \in Contexts /\ context[trace[r].at].owner # "nobody"
                /\ trace[r].chain \in Chains[r]
                /\ ~trace[r].sent => context[trace[r].at].owner = r /\ context[trace[r].at].busy
          /\ trace[r].foreign => \E s \in Requests \ {r} : trace[s].late
    /\ \A t \in Threads : Alternate(stack[t]) /\ (stack[t] # <<>> => trace[t[1]].begun)
    /\ \A r \in Requests :
          /\ stack[MainOf(r)] # <<>> => ~trace[r].sent
          /\ stack[ChildOf(r)] # <<>> /\ ~trace[r].late =>
                stack[MainOf(r)] # <<>> /\ Top1(stack[MainOf(r)]).pc = "wait"

(* A request that nothing disturbed is worked on by one goroutine.          *)
Calm(r) == ~trace[r].late /\ ~trace[r].foreign
Unspoilt(h) == ~h.late /\ ~h.foreign /\ ~h.panicked /\ ~h.refused /\ ~h.failed
Clean(r) == ~trace[r].panicked /\ ~trace[r].refused /\ ~trace[r].failed
Live(r) == IF stack[ChildOf(r)] # <<>> THEN stack[ChildOf(r)] ELSE stack[MainOf(r)]
Index(r) == context[trace[r].at].index
Starting(r) == Live(r) # <<>> /\ Top1(Live(r)).pc = "start"

(* Where the index is: at the handler that starts, or behind the last one   *)
(* when a handler has called Next and comes back.                           *)
Working(r) ==
    /\ Index(r) > 0
    /\ Starting(r) => /\ Top1(Live(r)).at = Index(r) /\ Index(r) <= Len(trace[r].chain)
                      /\ Top1(Live(r)).kind = trace[r].chain[Index(r)]
    /\ Live(r) # <<>> /\ Top1(Live(r)).pc \in {"after", "done", "wait"} => Index(r) > Len(trace[r].chain)
    /\ \A j \in 1..Len(trace[r].chain) : trace[r].ran[j] > 0 => j < Index(r) \/ (j = Index(r) /\ Starting(r))
    /\ ~trace[r].panicked /\ Index(r) <= Len(trace[r].chain) =>
          \A i \in 1..Len(trace[r].chain) : trace[r].chain[i] = "guard" /\ i < Index(r) => i \in trace[r].passed
    /\ Clean(r) /\ answer[r] # <<>> => Index(r) > Len(trace[r].chain)
    /\ context[trace[r].at].error => trace[r].failed
Outcome(r) ==
    /\ \A j \in 1..Len(trace[r].chain) : trace[r].ran[j] <= 1
    /\ ~trace[r].panicked =>
          \A i, j \in 1..Len(trace[r].chain) :
              trace[r].chain[i] = "guard" /\ i < j /\ trace[r].ran[j] > 0 => i \in trace[r].passed
    /\ Clean(r) => Len(answer[r]) <= 1 /\ \A k \in 1..Len(answer[r]) : answer[r][k] \in {200, 403}
CalmOnes ==
    \A r \in Requests : Calm(r) => /\ Outcome(r)
                                   /\ up /\ trace[r].begun /\ ~trace[r].sent => Working(r)

ChainInv == ChainShaped /\ Owned /\ CalmOnes

(* Goroutines and their names. *)
LEMMA Names ==
    /\ \A r \in Requests : MainOf(r) \in Threads /\ ChildOf(r) \in Threads
    /\ \A r, q : MainOf(r) # ChildOf(q) /\ (MainOf(r) = MainOf(q) => r = q) /\ (ChildOf(r) = ChildOf(q) => r = q)
    /\ \A r : MainOf(r)[1] = r /\ ChildOf(r)[1] = r
    /\ \A t \in Threads : t[1] \in Requests /\ t \in {MainOf(t[1]), ChildOf(t[1])}
                          /\ Chain!Child(t) = ChildOf(t[1]) /\ (Chain!Main(t) <=> t = MainOf(t[1]))
  BY DEF Threads, MainOf, ChildOf, Chain!Child, Chain!Main

(* What is left of a stack, and what a call or a loop on top makes of it.   *)
LEMMA Cut ==
    ASSUME NEW s \in Seq(Frames), Alternate(s), NEW k \in 1..Len(s)
    PROVE  LET cut == SubSeq(s, 1, k - 1) IN
           /\ cut \in Seq(Frames) /\ Alternate(cut) /\ Len(cut) = k - 1
           /\ s[k].call => cut # <<>> /\ Top1(cut).pc = "loop"
           /\ ~s[k].call => cut = <<>> \/ Top1(cut).pc \notin {"loop", "start"}
<1> DEFINE cut == SubSeq(s, 1, k - 1)
<1>1. cut \in Seq(Frames) /\ Len(cut) = k - 1 /\ \A i \in 1..(k - 1) : cut[i] = s[i]
  <2>1. \A i \in 1..(k - 1) : s[i] \in Frames
    BY ElementOfSeq
  <2>2. QED
    BY <2>1, SubSeqProperties
<1> HIDE DEF cut
<1>2. Alternate(cut)
  <2>1. \A i \in 1..Len(cut) : cut[i] = s[i] /\ i \in 1..Len(s) /\ (i < Len(cut) => i < Len(s))
    BY <1>1
  <2>2. Len(cut) > 0 => cut[1] = s[1] /\ Len(s) > 0
    BY <1>1
  <2>3. \A i \in 1..Len(cut) : i > 1 => cut[i - 1] = s[i - 1]
    BY <1>1
  <2> HIDE <1>1
  <2>4. QED
    BY <2>1, <2>2, <2>3, ZenonT(60) DEF Alternate
<1>3. s[k].call => cut # <<>> /\ Top1(cut).pc = "loop"
  <2>1. SUFFICES ASSUME s[k].call PROVE cut # <<>> /\ Top1(cut).pc = "loop"
    OBVIOUS
  <2>2. k > 1
    BY <2>1 DEF Alternate
  <2>3. Len(cut) = k - 1 /\ cut[k - 1] = s[k - 1] /\ k - 1 \in 1..Len(s) /\ ~s[k - 1].call
    BY <1>1, <2>1, <2>2 DEF Alternate
  <2>4. s[k - 1].pc = "loop"
    BY <2>3 DEF Alternate
  <2>5. QED
    BY <1>1, <2>2, <2>3, <2>4 DEF Top1
<1>4. ~s[k].call => cut = <<>> \/ Top1(cut).pc \notin {"loop", "start"}
  <2>1. SUFFICES ASSUME ~s[k].call, cut # <<>> PROVE Top1(cut).pc \notin {"loop", "start"}
    OBVIOUS
  <2>2. k > 1
    BY <1>1, <2>1, EmptySeq
  <2>3. Len(cut) = k - 1 /\ cut[k - 1] = s[k - 1] /\ k - 1 \in 1..Len(s) /\ s[k - 1].call /\ k - 1 < Len(s)
    BY <1>1, <2>1, <2>2 DEF Alternate
  <2>4. s[k - 1].pc \notin {"loop", "start"}
    BY <2>3 DEF Alternate
  <2>5. QED
    BY <1>1, <2>3, <2>4 DEF Top1
<1>5. QED
  BY <1>1, <1>2, <1>3, <1>4 DEF cut

LEMMA Entered ==
    ASSUME NEW s \in Seq(Frames), Alternate(s), s # <<>>, Top1(s).call,
           NEW f \in Frames, f.call, f.pc \notin {"loop", "start"},
           NEW e \in Seq(Frames), Len(e) = Len(s) + 1, \A k \in 1..(Len(s) - 1) : e[k] = s[k],
           e[Len(s)] = f, e[Len(s) + 1] = Chain!Loop
    PROVE  Alternate(e) /\ e # <<>> /\ Top1(e).pc = "loop"
<1>1. /\ Len(s) \in Nat \ {0} /\ Chain!Loop.pc = "loop" /\ ~Chain!Loop.call
      /\ s[Len(s)].call /\ Len(s) > 1
  BY EmptySeq DEF Top1, Chain!Loop, Alternate
<1>2. ~e[1].call
  BY <1>1 DEF Alternate
<1>3. ASSUME NEW k \in 1..Len(e), k > 1 PROVE e[k].call <=> ~e[k - 1].call
  <2>1. CASE k < Len(s)
    BY <2>1, <1>3, SMTT(60) DEF Alternate
  <2>2. CASE k = Len(s)
    BY <2>2, <1>1, <1>3 DEF Alternate
  <2>3. CASE k = Len(s) + 1
    BY <2>3, <1>1
  <2>4. QED
    BY <2>1, <2>2, <2>3, <1>1
<1>4. ASSUME NEW k \in 1..Len(e) PROVE (e[k].call <=> e[k].pc # "loop") /\ (k < Len(e) => e[k].pc # "start")
  <2>1. CASE k < Len(s)
    BY <2>1, <1>4, SMTT(60) DEF Alternate
  <2>2. CASE k = Len(s)
    BY <2>2, <1>1
  <2>3. CASE k = Len(s) + 1
    BY <2>3, <1>1
  <2>4. QED
    BY <2>1, <2>2, <2>3, <1>1
<1>5. QED
  BY <1>1, <1>2, <1>3, <1>4 DEF Alternate, Top1

(* A handler calls Next with its place marked. *)
AtPlace(s, pc) == [s EXCEPT ![Len(s)].pc = pc]
Onward(s, pc) == Append(AtPlace(s, pc), Chain!Loop)
LEMMA Marked ==
    ASSUME NEW s \in Seq(Frames), Alternate(s), s # <<>>, Top1(s).call, NEW pc \in {"after", "done", "wait"}
    PROVE  LET at == AtPlace(s, pc)
               e == Onward(s, pc)
           IN  /\ at \in Seq(Frames) /\ Alternate(at) /\ at # <<>> /\ Top1(at).pc = pc
               /\ e \in Seq(Frames) /\ Alternate(e) /\ e # <<>> /\ Top1(e).pc = "loop"
<1> DEFINE f == [Top1(s) EXCEPT !.pc = pc]
           at == [s EXCEPT ![Len(s)] = f]
           e == Append(at, Chain!Loop)
<1>1. Len(s) \in 1..Len(s) /\ Top1(s) \in Frames /\ Chain!Loop \in Frames
  <2>1. Chain!Loop \in Frames
    <3>1. 0 \in 0..MaxRetries
      BY ChainsAssumption
    <3>2. QED
      BY <3>1 DEF Chain!Loop, Frames
  <2>2. QED
    BY <2>1, EmptySeq, ElementOfSeq DEF Top1
<1>2. f \in Frames /\ f.call /\ f.pc = pc
  BY <1>1 DEF Frames, Calling
<1>3. at = AtPlace(s, pc) /\ e = Onward(s, pc)
  BY DEF Top1, AtPlace, Onward
<1>4. at \in Seq(Frames) /\ Len(at) = Len(s) /\ at[Len(s)] = f /\ \A k \in 1..(Len(s) - 1) : at[k] = s[k]
  BY <1>1, <1>2, ExceptSeq
<1> HIDE DEF f, at
<1>5. /\ e \in Seq(Frames) /\ Len(e) = Len(s) + 1 /\ e[Len(s)] = f /\ e[Len(s) + 1] = Chain!Loop
      /\ \A k \in 1..(Len(s) - 1) : e[k] = s[k]
  BY <1>1, <1>4
<1> HIDE DEF e
<1>6. Alternate(e) /\ e # <<>> /\ Top1(e).pc = "loop"
  BY <1>2, <1>5, Entered
<1>7. Alternate(at) /\ at # <<>> /\ Top1(at).pc = pc
  <2>1. Top1(at).pc = pc /\ at # <<>>
    BY <1>1, <1>2, <1>4, EmptySeq DEF Top1
  <2>2. ASSUME NEW k \in 1..Len(at) PROVE at[k] = e[k]
    BY <1>1, <1>4, <1>5, <2>2
  <2>3. QED
    BY <1>1, <1>4, <1>5, <1>6, <2>1, <2>2, SMTT(60) DEF Alternate
<1>8. QED
  BY <1>3, <1>4, <1>5, <1>6, <1>7

(* Next calls a handler. *)
LEMMA Called ==
    ASSUME NEW s \in Seq(Frames), Alternate(s), s # <<>>, ~Top1(s).call, NEW i \in Nat, NEW kind \in STRING
    PROVE  LET e == Append(s, Chain!Call(i, kind)) IN
           /\ e \in Seq(Frames) /\ Alternate(e) /\ e # <<>> /\ Top1(e) = Chain!Call(i, kind)
           /\ Top1(e).pc = "start" /\ Top1(e).at = i /\ Top1(e).kind = kind
<1> DEFINE f == Chain!Call(i, kind)
           e == Append(s, f)
<1>1. f \in Frames /\ f.call /\ f.pc = "start" /\ f.at = i /\ f.kind = kind
  BY ChainsAssumption DEF Chain!Call, Frames, Calling
<1> HIDE DEF f
<1>2. /\ e \in Seq(Frames) /\ Len(e) = Len(s) + 1 /\ e[Len(s) + 1] = f /\ \A k \in 1..Len(s) : e[k] = s[k]
      /\ Len(s) \in Nat \ {0}
  BY <1>1, EmptySeq
<1> HIDE DEF e
<1>3. e # <<>> /\ Top1(e) = f
  BY <1>2 DEF Top1
<1>4. s[Len(s)].pc = "loop"
  BY <1>2 DEF Alternate, Top1
<1>5. ASSUME NEW k \in 1..Len(e) PROVE (e[k].call <=> e[k].pc # "loop") /\ (k < Len(e) => e[k].pc # "start")
  <2>1. CASE k < Len(s)
    BY <2>1, <1>2 DEF Alternate
  <2>2. CASE k = Len(s)
    BY <2>2, <1>2, <1>4 DEF Top1, Alternate
  <2>3. CASE k = Len(s) + 1
    BY <2>3, <1>1, <1>2
  <2>4. QED
    BY <2>1, <2>2, <2>3, <1>2
<1>6. ASSUME NEW k \in 1..Len(e), k > 1 PROVE e[k].call <=> ~e[k - 1].call
  <2>1. CASE k <= Len(s)
    BY <2>1, <1>2, <1>6 DEF Alternate
  <2>2. CASE k = Len(s) + 1
    BY <2>2, <1>1, <1>2 DEF Top1
  <2>3. QED
    BY <2>1, <2>2, <1>2
<1>7. ~e[1].call
  BY <1>2 DEF Alternate
<1>8. QED
  BY <1>1, <1>2, <1>3, <1>5, <1>6, <1>7 DEF Alternate, e, f

(* Next calls the handler at a place of the chain, and counts it. *)
CalledAt(s, chain, i, e) ==
    /\ e = Append(s, Chain!Call(i, chain[i])) /\ e \in Seq(Frames) /\ Alternate(e) /\ e # <<>>
    /\ Top1(e).pc = "start" /\ Top1(e).at = i /\ Top1(e).kind = chain[i]
Counted(ran, i) == [ran EXCEPT ![i] = @ + 1]

LEMMA CalledInChain ==
    ASSUME NEW s \in Seq(Frames), Alternate(s), s # <<>>, ~Top1(s).call,
           NEW chain \in Seq(STRING), NEW i \in 1..Len(chain)
    PROVE  CalledAt(s, chain, i, Append(s, Chain!Call(i, chain[i])))
<1>1. chain[i] \in STRING /\ i \in Nat
  BY ElementOfSeq
<1>2. PICK kind \in STRING : kind = chain[i]
  BY <1>1
<1> DEFINE e == Append(s, Chain!Call(i, kind))
<1>3. e \in Seq(Frames) /\ Alternate(e) /\ e # <<>> /\ Top1(e).pc = "start" /\ Top1(e).at = i /\ Top1(e).kind = kind
  BY <1>1, Called
<1>4. QED
  BY <1>2, <1>3 DEF CalledAt

LEMMA Counts ==
    ASSUME NEW ran \in Seq(Nat), NEW i \in 1..Len(ran)
    PROVE  Counted(ran, i) \in Seq(Nat) /\ Len(Counted(ran, i)) = Len(ran)
<1>1. ran[i] + 1 \in Nat
  BY ElementOfSeq, SMTT(60)
<1>2. QED
  BY <1>1, ExceptSeq DEF Counted

(* Whose Context a goroutine works on: another's only when it was left      *)
(* behind.                                                                  *)
LEMMA OwnerKnown ==
    ASSUME ChainShaped, Owned, NEW t \in Threads, stack[t] # <<>>
    PROVE  LET s == t[1]
               o == Chain!Owner(t)
               c == Chain!At(t)
           IN  /\ s \in Requests /\ c \in Contexts /\ c = trace[s].at /\ context[c].owner = o
               /\ o \in Requests /\ trace[s].begun /\ trace[o].begun /\ trace[o].at = c
               /\ trace[o].chain = context[c].chain /\ trace[o].chain \in Chains[o]
               /\ context[c].index \in Nat \ {0}
               /\ o # s => t = ChildOf(s) /\ trace[s].late /\ trace[s].sent
<1> DEFINE s == t[1]
           o == Chain!Owner(t)
           c == Chain!At(t)
<1>1. s \in Requests /\ trace[s].begun /\ c = trace[s].at /\ o = context[c].owner
  BY Names DEF Owned, Chain!At, Chain!Owner, Chain!Here, Chain!Request
<1> HIDE DEF s, o, c
<1>2. c \in Contexts /\ o # "nobody" /\ o \in Requests \cup {"nobody"} /\ context[c].index \in Nat
  BY <1>1, SMTT(60) DEF Owned, ChainShaped, Contexts1
<1>3. /\ trace[o].begun /\ trace[o].at = c /\ trace[o].chain = context[c].chain /\ trace[o].chain \in Chains[o]
      /\ context[c].index > 0
  BY <1>1, <1>2 DEF Owned
<1>4. ASSUME o # s PROVE t = ChildOf(s) /\ trace[s].late /\ trace[s].sent
  <2>1. trace[s].sent
    BY <1>1, <1>4 DEF Owned
  <2>2. stack[MainOf(s)] = <<>>
    BY <1>1, <2>1 DEF Owned
  <2>3. t = ChildOf(s)
    BY <2>2, Names DEF s
  <2>4. trace[s].late
    BY <1>1, <2>2, <2>3 DEF Owned
  <2>5. QED
    BY <2>1, <2>3, <2>4
<1>5. /\ context[c].index \in Nat \ {0}
      /\ o \in Requests
  BY <1>2, <1>3
<1>6. QED
  BY <1>1, <1>2, <1>3, <1>4, <1>5 DEF s, o, c

(* What a step of a goroutine leaves as it was.                             *)
Keeps(t) ==
    /\ \A c \in Contexts :
          /\ context'[c].owner = context[c].owner /\ context'[c].chain = context[c].chain
          /\ context'[c].busy = context[c].busy /\ (context[c].index > 0 => context'[c].index > 0)
          /\ c # Chain!At(t) => context'[c] = context[c]
    /\ \A r \in Requests : r # Chain!Owner(t) => answer'[r] = answer[r]
    /\ \A r \in Requests :
          /\ trace'[r].begun = trace[r].begun /\ trace'[r].at = trace[r].at /\ trace'[r].chain = trace[r].chain
          /\ Len(trace'[r].ran) = Len(trace[r].ran)
          /\ trace[r].late => trace'[r].late
          /\ trace[r].foreign => trace'[r].foreign
          /\ trace'[r].foreign => trace[r].foreign \/ (r = Chain!Owner(t) /\ r # t[1])
          /\ trace[r].sent => trace'[r].sent
          /\ r # t[1] => (trace'[r].sent <=> trace[r].sent)
          /\ r \notin {t[1], Chain!Owner(t)} => trace'[r] = trace[r]
    /\ Chain!Owner(t) # t[1] => trace'[Chain!Owner(t)].foreign \/ UNCHANGED <<context, answer, trace>>
    /\ \A u \in Threads : Alternate(stack'[u]) /\ (u[1] # t[1] => stack'[u] = stack[u])
    /\ stack'[MainOf(t[1])] # <<>> => ~trace'[t[1]].sent
    /\ stack'[ChildOf(t[1])] # <<>> /\ ~trace'[t[1]].late =>
          stack'[MainOf(t[1])] # <<>> /\ Top1(stack'[MainOf(t[1])]).pc = "wait"

LEMMA OwnedKept ==
    ASSUME ChainShaped, Owned, NEW t \in Threads, stack[t] # <<>>, Keeps(t)
    PROVE  Owned'
<1> DEFINE s == t[1]
           o == Chain!Owner(t)
<1>1. /\ s \in Requests /\ o \in Requests /\ trace[s].begun /\ trace[o].begun /\ trace[o].at = Chain!At(t)
      /\ o # s => trace[s].late
  BY OwnerKnown
<1>2. Keeps(t)
  OBVIOUS
<1> HIDE DEF s, o
<1>3. ASSUME NEW c \in Contexts, context'[c].owner # "nobody"
      PROVE  LET r == context'[c].owner IN
             trace'[r].begun /\ trace'[r].at = c /\ trace'[r].chain = context'[c].chain /\ context'[c].index > 0
  <2> DEFINE r == context[c].owner
  <2>1. r # "nobody" /\ r \in Requests
    BY <1>2, <1>3 DEF Keeps, ChainShaped, Contexts1
  <2>2. trace[r].begun /\ trace[r].at = c /\ trace[r].chain = context[c].chain /\ context[c].index > 0
    BY <2>1 DEF Owned
  <2>3. QED
    BY <1>2, <2>1, <2>2 DEF Keeps
<1>4. ASSUME NEW r \in Requests
      PROVE  /\ Len(trace'[r].ran) = Len(trace'[r].chain)
             /\ ~trace'[r].begun => answer'[r] = <<>> /\ ~trace'[r].sent
             /\ trace'[r].begun =>
                   /\ trace'[r].at \in Contexts /\ context'[trace'[r].at].owner # "nobody"
                   /\ trace'[r].chain \in Chains[r]
                   /\ ~trace'[r].sent => context'[trace'[r].at].owner = r /\ context'[trace'[r].at].busy
  <2>1. ~trace'[r].begun => answer'[r] = <<>> /\ ~trace'[r].sent
    BY <1>1, <1>2 DEF Keeps, Owned, o
  <2>2. QED
    BY <1>2, <2>1 DEF Keeps, Owned
<1>5. ASSUME NEW r \in Requests, trace'[r].foreign
      PROVE  \E q \in Requests \ {r} : trace'[q].late
  <2>1. CASE trace[r].foreign
    <3>1. PICK q \in Requests \ {r} : trace[q].late
      BY <2>1 DEF Owned
    <3>2. QED
      BY <1>2, <3>1 DEF Keeps
  <2>2. CASE r = o /\ r # s
    BY <1>1, <1>2, <2>2 DEF Keeps
  <2>3. QED
    BY <1>2, <1>5, <2>1, <2>2 DEF Keeps, s, o
<1>6. ASSUME NEW u \in Threads PROVE Alternate(stack'[u]) /\ (stack'[u] # <<>> => trace'[u[1]].begun)
  <2>1. u[1] \in Requests
    BY Names
  <2>2. u[1] # s => stack'[u] = stack[u]
    BY <1>2 DEF Keeps, s
  <2>3. stack'[u] # <<>> => trace[u[1]].begun
    BY <1>1, <2>2 DEF Owned
  <2>4. QED
    BY <1>2, <2>1, <2>3 DEF Keeps
<1>7. ASSUME NEW r \in Requests
      PROVE  /\ stack'[MainOf(r)] # <<>> => ~trace'[r].sent
             /\ stack'[ChildOf(r)] # <<>> /\ ~trace'[r].late =>
                   stack'[MainOf(r)] # <<>> /\ Top1(stack'[MainOf(r)]).pc = "wait"
  <2>1. CASE r = s
    BY <1>2, <2>1 DEF Keeps, s
  <2>2. CASE r # s
    <3>1. stack'[MainOf(r)] = stack[MainOf(r)] /\ stack'[ChildOf(r)] = stack[ChildOf(r)]
      BY <1>2, <2>2, Names DEF Keeps, s
    <3>2. (trace'[r].sent <=> trace[r].sent) /\ (~trace'[r].late => ~trace[r].late)
      BY <1>2, <2>2 DEF Keeps, s
    <3>3. QED
      BY <3>1, <3>2 DEF Owned
  <2>3. QED
    BY <2>1, <2>2
<1>8. QED
  BY <1>3, <1>4, <1>5, <1>6, <1>7 DEF Owned

(* A calm request that a step is not of keeps what is known of it.          *)
LEMMA Elsewhere ==
    ASSUME ChainShaped, Owned, CalmOnes, NEW t \in Threads, stack[t] # <<>>, Keeps(t),
           NEW q \in Requests, ~(q = t[1] /\ q = Chain!Owner(t)), Calm(q)', up' => up
    PROVE  Outcome(q)' /\ (up' /\ trace'[q].begun /\ ~trace'[q].sent => Working(q)')
<1> DEFINE s == t[1]
           o == Chain!Owner(t)
<1>1. /\ s \in Requests /\ o \in Requests /\ trace[s].begun /\ trace[o].begun /\ trace[o].at = Chain!At(t)
      /\ o = context[Chain!At(t)].owner
      /\ o # s => trace[s].late
  BY OwnerKnown
<1>2. Keeps(t) /\ Calm(q)
  BY DEF Keeps, Calm
<1> HIDE DEF s, o
<1>3. trace'[q] = trace[q] /\ answer'[q] = answer[q]
  <2>1. CASE q = o /\ o # s
    BY <1>2, <2>1 DEF Keeps, Calm, s, o
  <2>2. CASE q = s /\ o # s
    BY <1>1, <1>2, <2>2 DEF Calm
  <2>3. CASE q \notin {s, o}
    BY <1>2, <2>3 DEF Keeps, s, o
  <2>4. QED
    BY <2>1, <2>2, <2>3 DEF s, o
<1>4. Outcome(q)'
  BY <1>2, <1>3, SMTT(60) DEF CalmOnes, Outcome, Clean
<1>5. ASSUME up', trace'[q].begun, ~trace'[q].sent PROVE Working(q)'
  <2>1. Working(q) /\ trace[q].begun /\ ~trace[q].sent
    BY <1>2, <1>3, <1>5 DEF CalmOnes
  <2>2. q # s
    BY <1>1, <1>2 DEF Calm, s, o
  <2>3. context'[trace[q].at] = context[trace[q].at]
    <3>1. CASE q = o
      BY <1>2, <2>2, <3>1, SMTT(60) DEF Keeps, Calm, s, o
    <3>2. CASE q # o
      BY <1>1, <1>2, <2>1, <3>2 DEF Keeps, Owned
    <3>3. QED
      BY <3>1, <3>2
  <2>4. stack'[MainOf(q)] = stack[MainOf(q)] /\ stack'[ChildOf(q)] = stack[ChildOf(q)]
    BY <1>2, <2>2, Names DEF Keeps, s
  <2>5. QED
    BY <1>3, <2>1, <2>3, <2>4 DEF Working, Live, Index, Starting, Clean
<1>6. QED
  BY <1>4, <1>5

(* What is known of a calm request that its own goroutine works on: when a  *)
(* handler is left for the loop that called it, or for a new one, ...       *)
LEMMA Resumed ==
    ASSUME ChainShaped, ChainShaped', NEW q \in Requests, Outcome(q), Working(q),
           trace[q].at \in Contexts, trace[q].chain \in Chains[q], Len(trace[q].ran) = Len(trace[q].chain),
           NEW f, Live(q) # <<>>, f = Top1(Live(q)), f.pc \in Calling,
           (Live(q) # <<>> /\ Top1(Live(q)).pc = "loop")',
           trace'[q].at = trace[q].at, trace'[q].chain = trace[q].chain, trace'[q].ran = trace[q].ran,
           trace[q].passed \subseteq trace'[q].passed, trace[q].panicked => trace'[q].panicked,
           trace[q].refused => trace'[q].refused, trace[q].failed => trace'[q].failed,
           Index(q)' \in {Index(q) + 1, Chain!AbortIndex},
           f.pc = "start" /\ f.kind = "guard" =>
               f.at \in trace'[q].passed \/ trace'[q].panicked \/ Index(q)' = Chain!AbortIndex,
           Clean(q)' => \/ answer'[q] = answer[q]
                        \/ /\ \E code \in {200, 403} : answer'[q] = Append(answer[q], code)
                           /\ f.pc = "start" /\ (f.kind = "handler" \/ Index(q)' = Chain!AbortIndex),
           context'[trace[q].at].error => context[trace[q].at].error \/ trace'[q].failed
    PROVE  Outcome(q)' /\ Working(q)'
<1> DEFINE n == Len(trace[q].chain)
           i == Index(q)
           chain == trace[q].chain
<1>1. /\ chain \in Seq(STRING) /\ n \in Nat /\ n < Chain!AbortIndex /\ Chain!AbortIndex = 16383
      /\ \A j \in 1..n : chain[j] = "handler" => j = n
      /\ i \in Nat /\ trace[q].ran \in Seq(Nat) /\ answer[q] \in Seq(Nat)
      /\ \A j \in 1..n : trace[q].ran[j] \in Nat
  <2>1. trace[q].ran \in Seq(Nat) /\ answer[q] \in Seq(Nat)
    BY DEF ChainShaped, Traces
  <2>2. i \in Nat
    BY DEF ChainShaped, Contexts1, Index
  <2>3. /\ chain \in Seq(STRING) /\ n < Chain!AbortIndex
        /\ \A j \in 1..n : chain[j] = "handler" => j = n
    BY ChainsAssumption
  <2>4. n \in Nat
    BY <2>3
  <2>5. \A j \in 1..n : trace[q].ran[j] \in Nat
    BY <2>1, ElementOfSeq
  <2> HIDE DEF chain, n, i
  <2>6. QED
    BY <2>1, <2>2, <2>3, <2>4, <2>5 DEF Chain!AbortIndex
<1>2. Index(q)' > i \/ Index(q)' > n
  BY <1>1
<1>3. /\ f.pc = "start" => f.at = i /\ i <= n /\ f.kind = chain[i] /\ i > 0
      /\ f.pc # "start" => i > n
      /\ Starting(q) <=> f.pc = "start"
      /\ \A j \in 1..n : trace[q].ran[j] > 0 => j <= i
  <2>1. Starting(q) <=> f.pc = "start"
    BY DEF Starting
  <2>2. f.pc = "start" => f.at = i /\ i <= n /\ f.kind = chain[i] /\ i > 0
    BY <2>1 DEF Working
  <2>3. f.pc # "start" => i > n
    <3>1. f.pc # "start" => f.pc \in {"after", "done", "wait"}
      BY DEF Calling
    <3>2. QED
      BY <3>1 DEF Working
  <2>4. \A j \in 1..n : trace[q].ran[j] > 0 => j < i \/ j = i
    BY DEF Working
  <2>5. \A j \in 1..n : j < i \/ j = i => j <= i
    BY <1>1
  <2>6. QED
    BY <2>1, <2>2, <2>3, <2>4, <2>5
<1>4. Outcome(q)'
  <2>1. ASSUME Clean(q)' PROVE Len(answer'[q]) <= 1 /\ \A k \in 1..Len(answer'[q]) : answer'[q][k] \in {200, 403}
    <3>1. Clean(q)
      BY <2>1 DEF Clean
    <3>2. CASE answer'[q] = answer[q]
      BY <3>1, <3>2 DEF Outcome
    <3>3. ASSUME NEW code \in {200, 403}, answer'[q] = Append(answer[q], code), f.pc = "start"
          PROVE Len(answer'[q]) <= 1 /\ \A k \in 1..Len(answer'[q]) : answer'[q][k] \in {200, 403}
      <4>1. answer[q] = <<>>
        BY <1>1, <1>3, <3>1, <3>3, SMTT(60) DEF Working
      <4>2. answer'[q] = <<code>>
        BY <3>3, <4>1
      <4>3. QED
        BY <4>2
    <3>4. QED
      BY <2>1, <3>2, <3>3
  <2>2. ASSUME NEW a \in 1..n, NEW b \in 1..n, ~trace'[q].panicked, chain[a] = "guard", a < b, trace[q].ran[b] > 0
        PROVE a \in trace'[q].passed
    <3>1. ~trace[q].panicked
      BY <2>2
    <3>2. QED
      BY <2>2, <3>1 DEF Outcome
  <2>3. \A j \in 1..n : trace[q].ran[j] <= 1
    BY DEF Outcome
  <2> HIDE DEF i
  <2>4. QED
    BY <2>1, <2>2, <2>3 DEF Outcome
<1>5. Working(q)'
  <2>1. Index(q)' > 0 /\ Index(q)' \in Nat
    BY <1>1
  <2>2. ~Starting(q)' /\ ~(Top1(Live(q)).pc \in {"after", "done", "wait"})'
    BY DEF Starting
  <2>3. \A j \in 1..n : trace[q].ran[j] > 0 => j < Index(q)'
    BY <1>1, <1>2, <1>3, SMTT(60)
  <2>4. ASSUME ~trace'[q].panicked, Index(q)' <= n, NEW a \in 1..n, chain[a] = "guard", a < Index(q)'
        PROVE a \in trace'[q].passed
    <3>1. ~trace[q].panicked /\ Index(q)' = i + 1 /\ i <= n /\ f.pc = "start"
      BY <1>1, <1>3, <2>4, SMTT(60) DEF Calling
    <3>2. CASE a < i
      BY <3>1, <3>2, <2>4 DEF Working
    <3>3. CASE a = i
      BY <1>1, <1>3, <3>1, <3>3, <2>4, SMTT(60)
    <3>4. QED
      BY <1>1, <3>1, <3>2, <3>3, <2>4
  <2>5. ASSUME Clean(q)', answer'[q] # <<>> PROVE Index(q)' > n
    <3>1. Clean(q)
      BY <2>5 DEF Clean
    <3>2. CASE answer'[q] = answer[q]
      <4>1. i > n
        BY <2>5, <3>1, <3>2 DEF Working
      <4>2. QED
        BY <1>1, <1>2, <4>1, <2>1
    <3>3. CASE f.pc = "start" /\ f.kind = "handler"
      <4>1. i = n
        BY <1>1, <1>3, <3>3
      <4>2. QED
        BY <1>1, <1>2, <4>1, <2>1
    <3>4. CASE Index(q)' = Chain!AbortIndex
      BY <1>1, <3>4
    <3>5. QED
      BY <2>5, <3>2, <3>3, <3>4
  <2>6. context'[trace'[q].at].error => trace'[q].failed
    BY DEF Working
  <2> HIDE DEF i
  <2>7. QED
    BY <2>1, <2>2, <2>3, <2>4, <2>5, <2>6 DEF Working
<1>6. QED
  BY <1>4, <1>5

(* ... when the loop calls the handler at the index, ...                    *)
LEMMA Begun ==
    ASSUME ChainShaped, NEW q \in Requests, Outcome(q), Working(q),
           trace[q].at \in Contexts, Len(trace[q].ran) = Len(trace[q].chain),
           Live(q) # <<>>, Top1(Live(q)).pc = "loop", Index(q) <= Len(trace[q].chain),
           (Live(q) # <<>> /\ Top1(Live(q)).pc = "start")',
           Top1(Live(q))'.at = Index(q), Top1(Live(q))'.kind = trace[q].chain[Index(q)],
           NEW ran, ran = [trace[q].ran EXCEPT ![Index(q)] = @ + 1], trace'[q] = [trace[q] EXCEPT !.ran = ran],
           answer'[q] = answer[q], context' = context
    PROVE  Outcome(q)' /\ Working(q)'
<1> DEFINE n == Len(trace[q].chain)
           i == Index(q)
           chain == trace[q].chain
<1>1. /\ i \in Nat /\ i \in 1..n /\ n \in Nat /\ ~Starting(q)
      /\ \A j \in 1..n : trace[q].ran[j] \in Nat
      /\ trace[q] \in Traces
  <2>1. trace[q].ran \in Seq(Nat) /\ trace[q].chain \in Seq(STRING) /\ trace[q] \in Traces
    BY SMTT(60) DEF ChainShaped, Traces
  <2>2. i \in Nat /\ i > 0 /\ ~Starting(q)
    BY SMTT(60) DEF ChainShaped, Contexts1, Index, Working, Starting
  <2>3. QED
    BY <2>1, <2>2, ElementOfSeq, SMTT(60)
<1>2. /\ trace'[q].at = trace[q].at /\ trace'[q].chain = chain /\ trace'[q].passed = trace[q].passed
      /\ trace'[q].panicked = trace[q].panicked /\ trace'[q].refused = trace[q].refused
      /\ trace'[q].failed = trace[q].failed
      /\ trace'[q].ran = [trace[q].ran EXCEPT ![i] = @ + 1]
      /\ Index(q)' = i
  <2>1. /\ trace'[q].at = trace[q].at /\ trace'[q].chain = chain /\ trace'[q].passed = trace[q].passed
        /\ trace'[q].panicked = trace[q].panicked /\ trace'[q].refused = trace[q].refused
        /\ trace'[q].failed = trace[q].failed
        /\ trace'[q].ran = ran
    BY <1>1 DEF Traces
  <2>2. QED
    BY <2>1 DEF Index
<1>3. \A j \in 1..n : trace'[q].ran[j] = IF j = i THEN trace[q].ran[j] + 1 ELSE trace[q].ran[j]
  <2>1. trace[q].ran \in Seq(Nat) /\ trace[q].ran[i] + 1 \in Nat
    BY <1>1 DEF Traces
  <2>2. QED
    BY <1>1, <1>2, <2>1, ExceptSeq, SMTT(60)
<1>4. trace[q].ran[i] = 0 /\ \A j \in 1..n : trace[q].ran[j] > 0 => j < i
  BY <1>1, SMTT(60) DEF Working
<1>5. Outcome(q)'
  <2>1. \A j \in 1..n : trace'[q].ran[j] <= 1
    BY <1>1, <1>3, <1>4 DEF Outcome
  <2>2. ASSUME ~trace[q].panicked, NEW a \in 1..n, NEW b \in 1..n, chain[a] = "guard", a < b, trace'[q].ran[b] > 0
        PROVE a \in trace[q].passed
    <3>1. CASE b = i
      BY <1>1, <2>2, <3>1 DEF Working
    <3>2. CASE b # i
      BY <1>3, <2>2, <3>2 DEF Outcome
    <3>3. QED
      BY <3>1, <3>2
  <2>3. Clean(q)' => Clean(q)
    BY <1>2 DEF Clean
  <2> HIDE DEF i
  <2>4. QED
    BY <1>2, <2>1, <2>2, <2>3 DEF Outcome
<1>6. Working(q)'
  <2>1. Starting(q)'
    BY DEF Starting
  <2>2. \A j \in 1..n : trace'[q].ran[j] > 0 => j < i \/ j = i
    BY <1>1, <1>3, <1>4
  <2>3. Clean(q)' => Clean(q)
    BY <1>2 DEF Clean
  <2> HIDE DEF i
  <2>4. QED
    BY <1>1, <1>2, <2>1, <2>2, <2>3 DEF Working, i
<1>7. QED
  BY <1>5, <1>6

(* ... and when it finds no more.                                           *)
LEMMA Finished ==
    ASSUME ChainShaped, NEW q \in Requests, Outcome(q), Working(q),
           Live(q) # <<>>, Top1(Live(q)).pc = "loop", Index(q) > Len(trace[q].chain),
           Live(q)' # <<>> => Top1(Live(q))'.pc # "start",
           UNCHANGED <<trace, answer, context>>
    PROVE  Outcome(q)' /\ Working(q)'
<1>1. ~Starting(q) /\ ~Starting(q)' /\ Index(q)' = Index(q) /\ (Clean(q)' <=> Clean(q))
  BY DEF Starting, Index, Clean
<1>2. Outcome(q)'
  BY <1>1 DEF Outcome
<1>3. Working(q)'
  BY <1>1 DEF Working
<1>4. QED
  BY <1>2, <1>3

(* What the steps of goroutines do to the history of the requests.          *)
Marks(t, tr) ==
    /\ tr \in [Requests -> Traces]
    /\ \A r \in Requests :
          /\ tr[r].begun = trace[r].begun /\ tr[r].at = trace[r].at /\ tr[r].chain = trace[r].chain
          /\ tr[r].ran = trace[r].ran /\ tr[r].sent = trace[r].sent
          /\ trace[r].passed \subseteq tr[r].passed /\ (trace[r].late => tr[r].late)
          /\ trace[r].panicked => tr[r].panicked
          /\ trace[r].refused => tr[r].refused
          /\ trace[r].failed => tr[r].failed
          /\ tr[r].foreign <=> trace[r].foreign \/ (r = Chain!Owner(t) /\ r # t[1])
          /\ r \notin {t[1], Chain!Owner(t)} => tr[r] = trace[r]

LEMMA Seeing ==
    ASSUME ChainShaped, Owned, NEW t \in Threads, stack[t] # <<>>
    PROVE  Marks(t, Chain!Seen(t))
<1> DEFINE s == t[1]
           o == Chain!Owner(t)
<1>1. o \in Requests /\ s \in Requests /\ trace \in [Requests -> Traces]
  BY OwnerKnown DEF ChainShaped
<1>2. PICK b \in BOOLEAN : b <=> trace[o].foreign \/ o # s
  OBVIOUS
<1>3. b = (trace[o].foreign \/ o # s)
  BY <1>1, <1>2 DEF Traces
<1>4. Chain!Seen(t) = [trace EXCEPT ![o].foreign = b]
  BY <1>3 DEF Chain!Seen, Chain!Request
<1> HIDE DEF s, o
<1>5. [trace EXCEPT ![o].foreign = b] \in [Requests -> Traces]
  BY <1>1, ZenonT(60) DEF Traces
<1>6. ASSUME NEW r \in Requests, r # o PROVE Chain!Seen(t)[r] = trace[r]
  BY <1>1, <1>4, <1>6
<1>7. Chain!Seen(t)[o] = [trace[o] EXCEPT !.foreign = b]
  BY <1>1, <1>4
<1>8. QED
  BY <1>1, <1>2, <1>4, <1>5, <1>6, <1>7 DEF Marks, Traces, s, o

(* More is told of a request. *)
Noted(old, v) ==
    /\ v \in Traces /\ v.begun = old.begun /\ v.at = old.at /\ v.chain = old.chain /\ v.ran = old.ran
    /\ v.sent = old.sent /\ v.foreign = old.foreign /\ old.passed \subseteq v.passed /\ (old.late => v.late)
    /\ old.panicked => v.panicked
    /\ old.refused => v.refused
    /\ old.failed => v.failed

Told(tr, x, v, new) == new = [tr EXCEPT ![x] = v] /\ Noted(tr[x], v)

LEMMA Marking ==
    ASSUME ChainShaped, NEW t \in Threads, NEW tr, Marks(t, tr), NEW x \in Requests, x = t[1] \/ x = Chain!Owner(t),
           NEW v, NEW new, Told(tr, x, v, new)
    PROVE  Marks(t, new) /\ new[x] = v
<1>1. Noted(tr[x], v) /\ new \in [Requests -> Traces] /\ new[x] = v /\ \A r \in Requests : r # x => new[r] = tr[r]
  BY DEF Marks, Noted, Told
<1>2. QED
  BY <1>1 DEF Marks, Noted

(* A goroutine leaves a handler, for the loop that called it or for a new   *)
(* one: what becomes of its stack, its Context and the answer.              *)
Left(t, ns, ctx, a) ==
    /\ up /\ up' = up /\ stack[t] # <<>> /\ Top1(stack[t]).call
    /\ ns \in Seq(Frames) /\ Alternate(ns) /\ ns # <<>> /\ Top1(ns).pc = "loop"
    /\ stack' = [stack EXCEPT ![t] = ns]
    /\ Top1(stack[t]).pc = "wait" => stack[ChildOf(t[1])] = <<>> \/ trace'[t[1]].late
    /\ Marks(t, trace')
    /\ ctx \in Contexts1 /\ context' = [context EXCEPT ![Chain!At(t)] = ctx]
    /\ ctx.owner = Chain!Owner(t) /\ ctx.chain = context[Chain!At(t)].chain /\ ctx.busy = context[Chain!At(t)].busy
    /\ ctx.index \in {context[Chain!At(t)].index + 1, Chain!AbortIndex}
    /\ ctx.error => context[Chain!At(t)].error \/ trace'[Chain!Owner(t)].failed
    /\ a \in Seq(Nat) /\ answer' = [answer EXCEPT ![Chain!Owner(t)] = a]
    /\ Chain!Owner(t) = t[1] /\ Top1(stack[t]).pc = "start" /\ Top1(stack[t]).kind = "guard" =>
           \/ Top1(stack[t]).at \in trace'[t[1]].passed \/ trace'[t[1]].panicked
           \/ ctx.index = Chain!AbortIndex
    /\ Chain!Owner(t) = t[1] /\ Unspoilt(trace'[t[1]]) =>
           \/ a = answer[t[1]]
           \/ /\ \E code \in {200, 403} : a = Append(answer[t[1]], code)
              /\ Top1(stack[t]).pc = "start" /\ (Top1(stack[t]).kind = "handler" \/ ctx.index = Chain!AbortIndex)

LEMMA Comes ==
    ASSUME ChainShaped, Owned, CalmOnes, NEW t \in Threads, NEW ns, NEW ctx, NEW a, Left(t, ns, ctx, a)
    PROVE  ChainInv'
<1> USE DEF Left
<1> DEFINE s == t[1]
           o == Chain!Owner(t)
           c == Chain!At(t)
           f == Top1(stack[t])
<1>1. /\ s \in Requests /\ c \in Contexts /\ c = trace[s].at /\ context[c].owner = o
      /\ o \in Requests /\ trace[s].begun /\ trace[o].begun /\ trace[o].at = c
      /\ trace[o].chain = context[c].chain /\ trace[o].chain \in Chains[o]
  BY OwnerKnown
<1>2. Marks(t, trace')
  OBVIOUS
<1>3. f.pc \in Calling /\ f.call
  <2>1. stack[t] \in Seq(Frames) /\ Alternate(stack[t])
    BY DEF ChainShaped, Owned
  <2>2. Len(stack[t]) \in 1..Len(stack[t]) /\ f \in Frames
    BY <2>1, EmptySeq, ElementOfSeq DEF Top1
  <2>3. f.pc # "loop"
    BY <2>1, <2>2 DEF Alternate, Top1
  <2>4. QED
    BY <2>2, <2>3 DEF Frames
<1> HIDE DEF s, o, c, f
<1>4. ChainShaped'
  <2>1. context' \in [Contexts -> Contexts1]
    BY DEF ChainShaped
  <2>2. stack' \in [Threads -> Seq(Frames)]
    BY DEF ChainShaped
  <2>3. answer' \in [Requests -> Seq(Nat)]
    BY DEF ChainShaped
  <2>4. QED
    BY <1>2, <2>1, <2>2, <2>3 DEF ChainShaped, Marks
<1>5. context'[c] = ctx /\ \A x \in Contexts : x # c => context'[x] = context[x]
  BY <1>1 DEF ChainShaped, c
<1>6. stack'[t] = ns /\ \A u \in Threads : u # t => stack'[u] = stack[u]
  BY DEF ChainShaped
<1>7. answer'[o] = a /\ \A r \in Requests : r # o => answer'[r] = answer[r]
  BY <1>1, SMTT(60) DEF ChainShaped, o
(* Nobody else works for a request that was not left behind.                *)
<1>8. ASSUME t = MainOf(s), ~trace'[s].late PROVE stack[ChildOf(s)] = <<>>
  BY <1>1, <1>2, <1>8, SMTT(60) DEF Owned, Marks, s
<1>9. Keeps(t)
  <2>1. \A x \in Contexts :
            /\ context'[x].owner = context[x].owner /\ context'[x].chain = context[x].chain
            /\ context'[x].busy = context[x].busy /\ (context[x].index > 0 => context'[x].index > 0)
            /\ x # Chain!At(t) => context'[x] = context[x]
    <3>1. ctx.index > 0
      <4>1. context[c].index \in Nat
        BY OwnerKnown DEF c
      <4>2. QED
        BY <4>1 DEF c, Chain!AbortIndex
    <3>2. QED
      BY <1>1, <1>5, <3>1 DEF c, o
  <2>2. \A u \in Threads : Alternate(stack'[u]) /\ (u[1] # t[1] => stack'[u] = stack[u])
    BY <1>6, SMTT(60) DEF Owned
  <2>3. stack'[MainOf(s)] # <<>> => ~trace'[s].sent
    <3>1. stack'[MainOf(s)] # <<>> => stack[MainOf(s)] # <<>>
      BY <1>1, <1>6, Names, SMTT(60)
    <3>2. QED
      BY <1>1, <1>2, <3>1 DEF Owned, Marks
  <2>4. ASSUME stack'[ChildOf(s)] # <<>>, ~trace'[s].late
        PROVE  stack'[MainOf(s)] # <<>> /\ Top1(stack'[MainOf(s)]).pc = "wait"
    <3>1. t = ChildOf(s)
      BY <1>1, <1>6, <1>8, <2>4, Names DEF s
    <3>2. stack'[MainOf(s)] = stack[MainOf(s)]
      BY <1>1, <1>6, <3>1, Names, SMTT(60)
    <3>3. ~trace[s].late /\ stack[ChildOf(s)] # <<>>
      BY <1>1, <1>2, <2>4, <3>1 DEF Marks
    <3>4. QED
      BY <1>1, <3>2, <3>3 DEF Owned
  <2>5. \A r \in Requests : trace'[r].foreign <=> trace[r].foreign \/ (r = o /\ r # s)
    BY <1>2 DEF Marks, o, s
  <2>6. \A r \in Requests :
            /\ trace'[r].begun = trace[r].begun /\ trace'[r].at = trace[r].at /\ trace'[r].chain = trace[r].chain
            /\ trace'[r].ran = trace[r].ran /\ trace'[r].sent = trace[r].sent
            /\ trace[r].late => trace'[r].late
            /\ r \notin {s, o} => trace'[r] = trace[r]
    BY <1>2 DEF Marks, o, s
  <2>7. QED
    BY <1>1, <1>7, <2>1, <2>2, <2>3, <2>4, <2>5, <2>6 DEF Keeps, s, o
<1>10. Owned'
  BY <1>9, OwnedKept
<1>11. ASSUME NEW q \in Requests, Calm(q)'
       PROVE  Outcome(q)' /\ (up' /\ trace'[q].begun /\ ~trace'[q].sent => Working(q)')
  <2>1. CASE q = s /\ q = o
    <3>1. ~trace[s].late /\ ~trace'[s].late /\ ~trace[s].foreign /\ Calm(q)
      BY <1>2, <1>11, <2>1 DEF Calm, Marks
    <3>2. t = MainOf(s) => stack[ChildOf(s)] = <<>>
      BY <1>8, <3>1, SMTT(60)
    <3>3. stack[MainOf(s)] # <<>>
      BY <1>1, <3>1, Names, SMTT(60) DEF Owned, s
    <3>4. Outcome(q) /\ Working(q)
      BY <1>1, <2>1, <3>1, <3>3 DEF CalmOnes, Owned
    <3>5. Live(q) = stack[t] /\ Live(q)' = ns
      <4>0. stack[t] # <<>> /\ stack'[t] = ns /\ ns # <<>>
        BY <1>6
      <4>1. CASE t = ChildOf(s)
        <5>1. Live(s) = stack[t] /\ Live(s)' = stack'[t]
          BY <4>0, <4>1 DEF Live
        <5>2. QED
          BY <2>1, <4>0, <5>1
      <4>2. CASE t = MainOf(s)
        <5>1. stack'[ChildOf(s)] = <<>> /\ stack[ChildOf(s)] = <<>> /\ stack'[MainOf(s)] = ns
          BY <1>1, <1>6, <3>2, <4>2, Names
        <5>2. Live(s) = stack[t] /\ Live(s)' = ns
          BY <4>2, <5>1 DEF Live
        <5>3. QED
          BY <2>1, <5>2
      <4>3. QED
        BY <4>1, <4>2, Names DEF s
    <3>6. Index(q) = context[c].index /\ Index(q)' = ctx.index /\ trace'[q].at = trace[q].at
      BY <1>1, <1>2, <1>5, <2>1, SMTT(60) DEF Index, Marks
    <3>7. Len(trace[q].ran) = Len(trace[q].chain) /\ trace[q].chain \in Chains[q] /\ trace[q].at \in Contexts
      BY <1>1, <2>1 DEF Owned
    <3>8. /\ trace'[q].chain = trace[q].chain /\ trace'[q].ran = trace[q].ran
          /\ trace[q].passed \subseteq trace'[q].passed /\ (trace[q].panicked => trace'[q].panicked)
          /\ trace[q].refused => trace'[q].refused
          /\ trace[q].failed => trace'[q].failed
      BY <1>2 DEF Marks
    <3>9. f.pc = "start" /\ f.kind = "guard" =>
              f.at \in trace'[q].passed \/ trace'[q].panicked \/ Index(q)' = Chain!AbortIndex
      BY <2>1, <3>6 DEF s, o, f
    <3>10. Clean(q)' => \/ answer'[q] = answer[q]
                        \/ /\ \E code \in {200, 403} : answer'[q] = Append(answer[q], code)
                           /\ f.pc = "start" /\ (f.kind = "handler" \/ Index(q)' = Chain!AbortIndex)
      <4>1. o = s /\ s = q /\ answer'[q] = a /\ Index(q)' = ctx.index
        BY <1>7, <2>1, <3>6
      <4>2. QED
        BY <1>11, <4>1 DEF s, o, f, Calm, Clean, Unspoilt
    <3>11. context'[trace[q].at].error => context[trace[q].at].error \/ trace'[q].failed
      BY <1>1, <1>5, <2>1 DEF c, o
    <3>12. Index(q)' \in {Index(q) + 1, Chain!AbortIndex}
      BY <3>6 DEF c
    <3>13. (Live(q) # <<>> /\ Top1(Live(q)).pc = "loop")'
      BY <3>5
    <3>14. Live(q) # <<>> /\ f = Top1(Live(q))
      BY <3>5 DEF f
    <3>15. QED
      BY <1>3, <1>4, <3>4, <3>6, <3>7, <3>8, <3>9, <3>10, <3>11, <3>12, <3>13, <3>14, Resumed
  <2>2. CASE ~(q = s /\ q = o)
    BY <1>9, <1>11, <2>2, Elsewhere DEF s, o
  <2>3. QED
    BY <2>1, <2>2, SMTT(60)
<1>12. QED
  BY <1>4, <1>10, <1>11 DEF ChainInv, CalmOnes

LEMMA InCall ==
    ASSUME ChainShaped, Owned, NEW t \in Threads, NEW kinds, NEW pc \in Calling, Chain!In(t, kinds, pc)
    PROVE  /\ up /\ stack[t] # <<>> /\ stack[t] \in Seq(Frames) /\ Alternate(stack[t]) /\ Len(stack[t]) \in 1..Len(stack[t])
           /\ Top1(stack[t]) \in Frames /\ Chain!Top(t) = Top1(stack[t])
           /\ Top1(stack[t]).pc = pc /\ Top1(stack[t]).kind \in kinds /\ Top1(stack[t]).call
<1>1. up /\ stack[t] # <<>> /\ Chain!Top(t) = Top1(stack[t]) /\ Top1(stack[t]).pc = pc /\ Top1(stack[t]).kind \in kinds
  BY DEF Chain!In, Chain!Runs, Chain!Top, Top1
<1>2. stack[t] \in Seq(Frames) /\ Alternate(stack[t])
  BY DEF ChainShaped, Owned
<1>3. Len(stack[t]) \in 1..Len(stack[t]) /\ Top1(stack[t]) \in Frames
  BY <1>1, <1>2, EmptySeq, ElementOfSeq DEF Top1
<1>4. Top1(stack[t]).call
  BY <1>1, <1>2, <1>3 DEF Alternate, Top1, Calling
<1>5. QED
  BY <1>1, <1>2, <1>3, <1>4

LEMMA Popping ==
    ASSUME ChainShaped, Owned, NEW t \in Threads, NEW kinds, NEW pc \in Calling, Chain!In(t, kinds, pc)
    PROVE  \E ns \in Seq(Frames) :
               Alternate(ns) /\ ns # <<>> /\ Top1(ns).pc = "loop" /\ Chain!Pop(t) = [stack EXCEPT ![t] = ns]
<1> DEFINE ns == SubSeq(stack[t], 1, Len(stack[t]) - 1)
<1>1. /\ stack[t] \in Seq(Frames) /\ Alternate(stack[t]) /\ Len(stack[t]) \in 1..Len(stack[t])
      /\ stack[t][Len(stack[t])].call
  BY InCall DEF Top1
<1>2. ns \in Seq(Frames) /\ Alternate(ns) /\ ns # <<>> /\ Top1(ns).pc = "loop"
  BY <1>1, Cut
<1>3. Chain!Pop(t) = [stack EXCEPT ![t] = ns]
  BY DEF Chain!Pop
<1>4. QED
  BY <1>2, <1>3

LEMMA Moving ==
    ASSUME ChainShaped, Owned, NEW t \in Threads, stack[t] # <<>>, NEW n \in Nat
    PROVE  \E ctx \in Contexts1 :
               /\ Chain!Move(t, n) = [context EXCEPT ![Chain!At(t)] = ctx]
               /\ ctx.index = n /\ ctx.owner = Chain!Owner(t) /\ ctx.chain = context[Chain!At(t)].chain
               /\ ctx.busy = context[Chain!At(t)].busy /\ ctx.error = context[Chain!At(t)].error
               /\ ctx.wrapped = context[Chain!At(t)].wrapped
<1> DEFINE c == Chain!At(t)
           ctx == [context[c] EXCEPT !.index = n]
<1>1. c \in Contexts /\ context[c].owner = Chain!Owner(t) /\ context[c] \in Contexts1
  BY OwnerKnown DEF ChainShaped
<1>2. Chain!Move(t, n) = [context EXCEPT ![c] = ctx]
  BY DEF Chain!Move
<1> HIDE DEF c
<1>3. /\ ctx \in Contexts1 /\ ctx.index = n /\ ctx.owner = context[c].owner /\ ctx.chain = context[c].chain
      /\ ctx.busy = context[c].busy /\ ctx.error = context[c].error /\ ctx.wrapped = context[c].wrapped
  BY <1>1 DEF Contexts1
<1>4. QED
  BY <1>1, <1>2, <1>3 DEF c

(* A handler that returns. *)
Returned(t, kinds, pc, n, a) ==
    /\ pc \in Calling /\ Chain!In(t, kinds, pc)
    /\ up' = up /\ stack' = Chain!Pop(t) /\ Marks(t, trace')
    /\ pc = "wait" => stack[ChildOf(t[1])] = <<>> \/ trace'[t[1]].late
    /\ n \in {Chain!Here(t).index + 1, Chain!AbortIndex} /\ context' = Chain!Move(t, n)
    /\ a \in Seq(Nat) /\ answer' = [answer EXCEPT ![Chain!Owner(t)] = a]
    /\ pc = "start" /\ "guard" \in kinds => n = Chain!AbortIndex
    /\ Chain!Owner(t) = t[1] /\ Unspoilt(trace'[t[1]]) =>
           \/ a = answer[t[1]]
           \/ /\ \E code \in {200, 403} : a = Append(answer[t[1]], code)
              /\ pc = "start" /\ (kinds = {"handler"} \/ n = Chain!AbortIndex)

LEMMA Leaves ==
    ASSUME ChainShaped, Owned, CalmOnes, NEW t \in Threads, NEW kinds, NEW pc, NEW n, NEW a,
           Returned(t, kinds, pc, n, a)
    PROVE  ChainInv'
<1> USE DEF Returned
<1>1. PICK ns \in Seq(Frames) : Alternate(ns) /\ ns # <<>> /\ Top1(ns).pc = "loop" /\ stack' = [stack EXCEPT ![t] = ns]
  BY Popping
<1>2. /\ up /\ stack[t] # <<>> /\ Top1(stack[t]).pc = pc /\ Top1(stack[t]).kind \in kinds /\ Top1(stack[t]).call
  BY InCall
<1>3. Chain!Here(t) = context[Chain!At(t)] /\ n \in Nat
  <2>1. context[Chain!At(t)].index \in Nat
    BY <1>2, OwnerKnown
  <2>2. QED
    BY <2>1 DEF Chain!Here, Chain!AbortIndex
<1>4. PICK ctx \in Contexts1 :
          /\ context' = [context EXCEPT ![Chain!At(t)] = ctx]
          /\ ctx.index = n /\ ctx.owner = Chain!Owner(t) /\ ctx.chain = context[Chain!At(t)].chain
          /\ ctx.busy = context[Chain!At(t)].busy /\ ctx.error = context[Chain!At(t)].error
  BY <1>2, <1>3, Moving
<1>5. Top1(stack[t]).pc = "start" /\ Top1(stack[t]).kind = "guard" =>
          ctx.index = Chain!AbortIndex
  BY <1>2, <1>4
<1>6. Chain!Owner(t) = t[1] /\ Unspoilt(trace'[t[1]]) =>
          \/ a = answer[t[1]]
          \/ /\ \E code \in {200, 403} : a = Append(answer[t[1]], code)
             /\ Top1(stack[t]).pc = "start" /\ (Top1(stack[t]).kind = "handler" \/ ctx.index = Chain!AbortIndex)
  BY <1>2, <1>4
<1>7. ctx.index \in {context[Chain!At(t)].index + 1, Chain!AbortIndex}
  BY <1>3, <1>4
<1>8. Top1(stack[t]).pc = "wait" => stack[ChildOf(t[1])] = <<>> \/ trace'[t[1]].late
  BY <1>2
<1>9. Left(t, ns, ctx, a)
  BY <1>1, <1>2, <1>4, <1>5, <1>6, <1>7, <1>8 DEF Left
<1>10. QED
  BY <1>9, Comes

(* A handler that calls Next. *)
Continued(t, kinds, pc, mark, ctx) ==
    /\ pc \in Calling \ {"wait"} /\ Chain!In(t, kinds, pc)
    /\ up' = up /\ answer' = answer /\ Marks(t, trace')
    /\ mark \in {"after", "done"} /\ stack' = [Chain!At1(t, mark) EXCEPT ![t] = Append(@, Chain!Loop)]
    /\ ctx \in Contexts1 /\ context' = [context EXCEPT ![Chain!At(t)] = ctx]
    /\ ctx.owner = Chain!Owner(t) /\ ctx.chain = context[Chain!At(t)].chain /\ ctx.busy = context[Chain!At(t)].busy
    /\ ctx.index = context[Chain!At(t)].index + 1 /\ ctx.error = context[Chain!At(t)].error
    /\ pc = "start" /\ "guard" \in kinds => Top1(stack[t]).at \in trace'[t[1]].passed

LEMMA Nexts ==
    ASSUME ChainShaped, Owned, CalmOnes, NEW t \in Threads, NEW kinds, NEW pc, NEW mark, NEW ctx,
           Continued(t, kinds, pc, mark, ctx)
    PROVE  ChainInv'
<1> USE DEF Continued
<1> DEFINE ns == Onward(stack[t], mark)
<1>1. /\ up /\ stack[t] # <<>> /\ stack[t] \in Seq(Frames) /\ Alternate(stack[t])
      /\ Top1(stack[t]).pc = pc /\ Top1(stack[t]).kind \in kinds /\ Top1(stack[t]).call
  BY InCall
<1>2. ns \in Seq(Frames) /\ Alternate(ns) /\ ns # <<>> /\ Top1(ns).pc = "loop"
  BY <1>1, Marked
<1>3. stack' = [stack EXCEPT ![t] = ns]
  BY DEF ChainShaped, Chain!At1, Onward, AtPlace
<1> HIDE DEF ns
<1>4. /\ answer' = [answer EXCEPT ![Chain!Owner(t)] = answer[Chain!Owner(t)]]
      /\ answer[Chain!Owner(t)] \in Seq(Nat)
  BY <1>1, OwnerKnown, SMTT(60) DEF ChainShaped
<1>5. Left(t, ns, ctx, answer[Chain!Owner(t)])
  BY <1>1, <1>2, <1>3, <1>4 DEF Left
<1>6. QED
  BY <1>5, Comes

(* One by one: those that return. *)
LEMMA Returning ==
    ASSUME ChainShaped, Owned, CalmOnes, NEW t \in Threads,
           Chain!ComeBack(t) \/ Chain!Done(t) \/ Chain!Join(t) \/ Chain!Fallback(t) \/ Chain!AppError(t) \/ Chain!Reject(t)
    PROVE  ChainInv'
<1> DEFINE o == Chain!Owner(t)
           next == Chain!Here(t).index + 1
<1>1. ASSUME stack[t] # <<>> PROVE o \in Requests /\ answer[o] \in Seq(Nat) /\ Marks(t, Chain!Seen(t))
  BY <1>1, OwnerKnown, Seeing DEF ChainShaped
<1>2. ASSUME NEW kinds, NEW pc, Chain!In(t, kinds, pc) PROVE stack[t] # <<>>
  BY <1>2 DEF Chain!In, Chain!Runs
<1>3. ASSUME stack[t] # <<>>, UNCHANGED answer PROVE answer' = [answer EXCEPT ![o] = answer[o]]
  BY <1>1, <1>3 DEF ChainShaped
<1>4. CASE Chain!ComeBack(t)
  <2> DEFINE kinds == {"pass", "logger", "recovery", "recovery+abort"}
  <2>1. /\ Chain!In(t, kinds, "after") /\ trace' = Chain!Seen(t) /\ up' = up /\ UNCHANGED answer
        /\ stack' = Chain!Pop(t) /\ context' = Chain!Move(t, next)
    BY <1>4 DEF Chain!ComeBack, Chain!Return
  <2>2. Returned(t, kinds, "after", next, answer[o])
    BY <1>1, <1>2, <1>3, <2>1 DEF Returned, Calling
  <2>3. QED
    BY <2>2, Leaves
<1>5. CASE Chain!Done(t)
  <2>1. /\ Chain!In(t, {"guard"}, "done") /\ trace' = Chain!Seen(t) /\ up' = up /\ UNCHANGED answer
        /\ stack' = Chain!Pop(t) /\ context' = Chain!Move(t, next)
    BY <1>5 DEF Chain!Done, Chain!Return
  <2>2. Returned(t, {"guard"}, "done", next, answer[o])
    BY <1>1, <1>2, <1>3, <2>1 DEF Returned, Calling
  <2>3. QED
    BY <2>2, Leaves
<1>6. CASE Chain!Join(t)
  <2>1. /\ Chain!In(t, {"timeout", "breaker"}, "wait") /\ trace' = Chain!Seen(t) /\ up' = up /\ UNCHANGED answer
        /\ stack' = Chain!Pop(t) /\ context' = Chain!Move(t, next) /\ stack[ChildOf(t[1])] = <<>>
    BY <1>6, Names DEF Chain!Join, Chain!Return
  <2>2. Returned(t, {"timeout", "breaker"}, "wait", next, answer[o])
    BY <1>1, <1>2, <1>3, <2>1 DEF Returned, Calling
  <2>3. QED
    BY <2>2, Leaves
<1>7. CASE Chain!Reject(t)
  <2>1. /\ Chain!In(t, {"guard"}, "start") /\ trace' = Chain!Seen(t) /\ up' = up
        /\ answer' = [answer EXCEPT ![o] = Append(answer[o], 403)]
        /\ stack' = Chain!Pop(t) /\ context' = Chain!Move(t, Chain!AbortIndex)
    BY <1>7 DEF Chain!Reject, Chain!Write
  <2>2. Append(answer[o], 403) \in Seq(Nat)
    BY <1>1, <1>2, <2>1
  <2>3. Returned(t, {"guard"}, "start", Chain!AbortIndex, Append(answer[o], 403))
    BY <1>1, <1>2, <2>1, <2>2 DEF Returned, Calling
  <2>4. QED
    BY <2>3, Leaves
(* A request that nothing failed for has an answer below 500, and no error. *)
<1>8. ASSUME stack[t] # <<>>, up, o = t[1], Unspoilt(trace'[o]), trace' = Chain!Seen(t)
      PROVE  Chain!Status(t) < 500 /\ ~Chain!Here(t).error
  <2>1. /\ o \in Requests /\ trace[o].begun /\ trace[o].at = Chain!At(t) /\ Marks(t, trace')
    BY <1>1, <1>8, OwnerKnown
  <2>2. Calm(o) /\ Clean(o)
    BY <1>8, <2>1 DEF Unspoilt, Marks, Calm, Clean
  <2>3. ~trace[o].sent
    BY <1>8, <2>1, <2>2, Names DEF Owned, Calm
  <2>4. Outcome(o) /\ Working(o)
    BY <1>8, <2>1, <2>2, <2>3 DEF CalmOnes
  <2>5. ~Chain!Here(t).error
    BY <2>1, <2>2, <2>4 DEF Working, Clean, Chain!Here
  <2>6. Len(answer[o]) <= 1 /\ \A k \in 1..Len(answer[o]) : answer[o][k] \in {200, 403}
    BY <2>2, <2>4 DEF Outcome
  <2>7. Chain!Status(t) < 500
    <3>1. CASE answer[o] = <<>>
      BY <3>1 DEF Chain!Status
    <3>2. CASE answer[o] # <<>>
      <4>1. answer[o] \in Seq(Nat)
        BY <1>1, <1>8
      <4>2. 1 \in 1..Len(answer[o])
        BY <3>2, <4>1, EmptySeq
      <4>3. answer[o][1] \in {200, 403}
        BY <2>6, <4>2
      <4>4. QED
        BY <4>3 DEF Chain!Status
    <3>3. QED
      BY <3>1, <3>2
  <2>8. QED
    BY <2>5, <2>7
<1>9. ASSUME Chain!Fallback(t) \/ Chain!AppError(t) PROVE ChainInv'
  <2>1. PICK kind \in {"fallback", "apperror"}, code \in {200, 422} :
            /\ Chain!In(t, {kind}, "after") /\ trace' = Chain!Seen(t) /\ up' = up
            /\ stack' = Chain!Pop(t) /\ context' = Chain!Move(t, next)
            /\ \/ UNCHANGED answer
               \/ /\ answer' = [answer EXCEPT ![o] = Append(answer[o], code)]
                  /\ Chain!Status(t) >= 500 \/ Chain!Here(t).error
    <3>1. CASE Chain!Fallback(t)
      BY <3>1 DEF Chain!Fallback, Chain!Return, Chain!Write
    <3>2. CASE Chain!AppError(t)
      BY <3>2 DEF Chain!AppError, Chain!Return, Chain!Write
    <3>3. QED
      BY <1>9, <3>1, <3>2
  <2>2. up /\ stack[t] # <<>> /\ Marks(t, trace') /\ answer[o] \in Seq(Nat)
    BY <1>1, <2>1 DEF Chain!In, Chain!Runs
  <2>3. CASE UNCHANGED answer
    <3>1. Returned(t, {kind}, "after", next, answer[o])
      BY <1>3, <2>1, <2>2, <2>3 DEF Returned, Calling
    <3>2. QED
      BY <3>1, Leaves
  <2>4. CASE answer' = [answer EXCEPT ![o] = Append(answer[o], code)] /\ (Chain!Status(t) >= 500 \/ Chain!Here(t).error)
    <3>1. ~(o = t[1] /\ Unspoilt(trace'[t[1]]))
      <4>1. Chain!Status(t) >= 500 => ~(Chain!Status(t) < 500)
        <5>1. Chain!Status(t) \in Nat
          <6>1. answer[o] # <<>> => answer[o][1] \in Nat
            BY <2>2, EmptySeq, ElementOfSeq
          <6>2. QED
            BY <6>1 DEF Chain!Status
        <5>2. QED
          BY <5>1
      <4>2. QED
        BY <1>8, <2>1, <2>2, <2>4, <4>1
    <3>2. Append(answer[o], code) \in Seq(Nat)
      BY <2>2
    <3>3. Returned(t, {kind}, "after", next, Append(answer[o], code))
      BY <2>1, <2>2, <2>4, <3>1, <3>2 DEF Returned, Calling
    <3>4. QED
      BY <3>3, Leaves
  <2>5. QED
    BY <2>1, <2>3, <2>4
<1>10. QED
  BY <1>4, <1>5, <1>6, <1>7, <1>9

(* Those that return and tell the history what happened. *)
LEMMA Telling ==
    ASSUME ChainShaped, Owned, CalmOnes, NEW t \in Threads,
           Chain!Refuse(t) \/ Chain!TimeOut(t) \/ Chain!Handle(t, 200) \/ Chain!Handle(t, 500)
    PROVE  ChainInv'
<1> DEFINE s == t[1]
           o == Chain!Owner(t)
           next == Chain!Here(t).index + 1
           seen == Chain!Seen(t)
<1>1. ASSUME stack[t] # <<>>
      PROVE  s \in Requests /\ o \in Requests /\ answer[o] \in Seq(Nat) /\ Marks(t, seen) /\ seen[o] \in Traces /\ seen[s] \in Traces
  BY <1>1, OwnerKnown, Seeing DEF ChainShaped, Marks
<1>2. ASSUME NEW kinds, NEW pc, Chain!In(t, kinds, pc) PROVE stack[t] # <<>>
  BY <1>2 DEF Chain!In, Chain!Runs
<1> HIDE DEF s, o, next, seen
<1>3. CASE Chain!Refuse(t)
  <2> DEFINE v == [seen[o] EXCEPT !.refused = TRUE]
  <2>1. /\ Chain!In(t, {"breaker"}, "start") /\ trace' = [seen EXCEPT ![o] = v] /\ up' = up
        /\ answer' = [answer EXCEPT ![o] = Append(answer[o], 503)]
        /\ stack' = Chain!Pop(t) /\ context' = Chain!Move(t, next)
    BY <1>3 DEF Chain!Refuse, Chain!Write, Chain!Return, seen, o, next
  <2>2. stack[t] # <<>>
    BY <1>2, <2>1
  <2>3. /\ v \in Traces /\ v.refused /\ v.begun = seen[o].begun /\ v.at = seen[o].at /\ v.chain = seen[o].chain
        /\ v.ran = seen[o].ran /\ v.sent = seen[o].sent /\ v.foreign = seen[o].foreign /\ v.passed = seen[o].passed
        /\ v.late = seen[o].late /\ v.panicked = seen[o].panicked /\ v.failed = seen[o].failed
    BY <1>1, <2>2 DEF Traces
  <2> HIDE DEF v
  <2>4. Marks(t, trace') /\ trace'[o] = v
    <3>1. Told(seen, o, v, trace')
      BY <2>1, <2>3 DEF Noted, Told
    <3>2. QED
      BY <1>1, <2>2, <3>1, Marking DEF o, s
  <2>5. Append(answer[o], 503) \in Seq(Nat)
    BY <1>1, <2>2
  <2>6. ~(o = s /\ Unspoilt(trace'[s]))
    BY <2>3, <2>4 DEF Unspoilt
  <2>7. Returned(t, {"breaker"}, "start", next, Append(answer[o], 503))
    BY <2>1, <2>4, <2>5, <2>6 DEF Returned, Calling, s, o, next
  <2>8. QED
    BY <2>7, Leaves
<1>4. CASE Chain!TimeOut(t)
  <2> DEFINE v == [seen[s] EXCEPT !.late = TRUE]
  <2>1. /\ Chain!In(t, {"timeout", "breaker"}, "wait") /\ trace' = [seen EXCEPT ![s] = v] /\ up' = up
        /\ answer' = [answer EXCEPT ![o] = Append(answer[o], 504)]
        /\ stack' = Chain!Pop(t) /\ context' = Chain!Move(t, next)
    BY <1>4 DEF Chain!TimeOut, Chain!Write, Chain!Return, Chain!Request, seen, s, o, next
  <2>2. stack[t] # <<>>
    BY <1>2, <2>1
  <2>3. /\ v \in Traces /\ v.late /\ v.begun = seen[s].begun /\ v.at = seen[s].at /\ v.chain = seen[s].chain
        /\ v.ran = seen[s].ran /\ v.sent = seen[s].sent /\ v.foreign = seen[s].foreign /\ v.passed = seen[s].passed
        /\ v.refused = seen[s].refused /\ v.panicked = seen[s].panicked /\ v.failed = seen[s].failed
    BY <1>1, <2>2 DEF Traces
  <2> HIDE DEF v
  <2>4. Marks(t, trace') /\ trace'[s] = v
    <3>1. Told(seen, s, v, trace')
      BY <2>1, <2>3 DEF Noted, Told
    <3>2. QED
      BY <1>1, <2>2, <3>1, Marking DEF o, s
  <2>5. Append(answer[o], 504) \in Seq(Nat)
    BY <1>1, <2>2
  <2>6. ~Unspoilt(trace'[s])
    BY <2>3, <2>4 DEF Unspoilt
  <2>7. Returned(t, {"timeout", "breaker"}, "wait", next, Append(answer[o], 504))
    BY <2>1, <2>3, <2>4, <2>5, <2>6 DEF Returned, Calling, s, o, next
  <2>8. QED
    BY <2>7, Leaves
<1>5. ASSUME NEW code \in {200, 500}, Chain!Handle(t, code) PROVE ChainInv'
  <2>1. PICK fails \in BOOLEAN : fails <=> seen[o].failed \/ code >= 500
    BY ZenonT(60)
  <2> DEFINE v == [seen[o] EXCEPT !.failed = fails]
  <2>2. Chain!In(t, {"handler"}, "start") /\ stack[t] # <<>>
    BY <1>2, <1>5 DEF Chain!Handle
  <2>3. (seen[o].failed \/ code >= 500) = fails
    BY <1>1, <2>1, <2>2 DEF Traces
  <2>4. /\ trace' = [seen EXCEPT ![o] = v] /\ up' = up
        /\ answer' = [answer EXCEPT ![o] = Append(answer[o], code)]
        /\ stack' = Chain!Pop(t) /\ context' = Chain!Move(t, next)
    BY <1>5, <2>3, ZenonT(60) DEF Chain!Handle, Chain!Write, Chain!Return, seen, o, next
  <2>5. /\ v \in Traces /\ v.failed = fails /\ v.begun = seen[o].begun /\ v.at = seen[o].at /\ v.chain = seen[o].chain
        /\ v.ran = seen[o].ran /\ v.sent = seen[o].sent /\ v.foreign = seen[o].foreign /\ v.passed = seen[o].passed
        /\ v.late = seen[o].late /\ v.panicked = seen[o].panicked /\ v.refused = seen[o].refused
    BY <1>1, <2>2, ZenonT(60) DEF Traces
  <2> HIDE DEF v
  <2>6. Marks(t, trace') /\ trace'[o] = v
    <3>1. Told(seen, o, v, trace')
      BY <2>1, <2>4, <2>5 DEF Noted, Told
    <3>2. QED
      BY <1>1, <2>2, <3>1, Marking DEF o, s
  <2>7. Append(answer[o], code) \in Seq(Nat)
    BY <1>1, <2>2
  <2>8. o = s /\ Unspoilt(trace'[s]) => code = 200
    BY <2>1, <2>5, <2>6, SMTT(60) DEF Unspoilt
  <2>9. Returned(t, {"handler"}, "start", next, Append(answer[o], code))
    BY <2>2, <2>4, <2>6, <2>7, <2>8 DEF Returned, Calling, s, o, next
  <2>10. QED
    BY <2>9, Leaves
<1>6. QED
  BY <1>3, <1>4, <1>5

(* Those that call Next. *)
LEMMA GoingOn ==
    ASSUME ChainShaped, Owned, CalmOnes, NEW t \in Threads, Chain!GoOn(t) \/ Chain!Pass(t)
    PROVE  ChainInv'
<1> DEFINE s == t[1]
           o == Chain!Owner(t)
           c == Chain!At(t)
           next == Chain!Here(t).index + 1
           seen == Chain!Seen(t)
<1>1. PICK kinds : Chain!In(t, kinds, "start")
  BY DEF Chain!GoOn, Chain!Pass
<1>2. up /\ stack[t] # <<>> /\ Chain!Top(t) = Top1(stack[t]) /\ Top1(stack[t]) \in Frames
  BY <1>1, InCall DEF Calling
<1>3. /\ s \in Requests /\ c \in Contexts /\ context[c].index \in Nat /\ Chain!Here(t) = context[c]
      /\ Marks(t, seen) /\ seen[s] \in Traces /\ next \in Nat
  <2>1. s \in Requests /\ c \in Contexts /\ context[c].index \in Nat
    BY <1>2, OwnerKnown
  <2>2. Chain!Here(t) = context[c]
    BY DEF Chain!Here
  <2>3. Marks(t, seen)
    BY <1>2, Seeing
  <2>4. QED
    BY <2>1, <2>2, <2>3 DEF Marks
<1>4. PICK ctx \in Contexts1 :
          /\ Chain!Move(t, next) = [context EXCEPT ![c] = ctx]
          /\ ctx.index = next /\ ctx.owner = o /\ ctx.chain = context[c].chain
          /\ ctx.busy = context[c].busy /\ ctx.error = context[c].error /\ ctx.wrapped = context[c].wrapped
  BY <1>2, <1>3, Moving
<1>5. context \in [Contexts -> Contexts1]
  BY DEF ChainShaped
<1>6. CASE Chain!GoOn(t)
  <2>1. PICK b \in BOOLEAN : b = (ctx.wrapped \/ Chain!Top(t).kind = "logger")
    BY <1>4 DEF Contexts1
  <2> DEFINE put == [ctx EXCEPT !.wrapped = b]
  <2> HIDE DEF o, c, next, seen
  <2>2. /\ Chain!In(t, Chain!Around, "start") /\ trace' = seen /\ up' = up /\ answer' = answer
        /\ stack' = [Chain!At1(t, "after") EXCEPT ![t] = Append(@, Chain!Loop)]
        /\ context' = [Chain!Move(t, next) EXCEPT ![c].wrapped = @ \/ Chain!Top(t).kind = "logger"]
    BY <1>6 DEF Chain!GoOn, c, next, seen
  <2>3. context' = [context EXCEPT ![c] = put]
    <3>1. [context EXCEPT ![c] = ctx][c] = ctx
      BY <1>3, <1>5
    <3>2. context' = [[context EXCEPT ![c] = ctx] EXCEPT ![c] = put]
      BY <1>4, <2>1, <2>2, <3>1
    <3>3. QED
      BY <1>5, <3>2
  <2>4. /\ put \in Contexts1 /\ put.index = next /\ put.owner = o /\ put.chain = context[c].chain
        /\ put.busy = context[c].busy /\ put.error = context[c].error
    BY <1>4 DEF Contexts1
  <2> HIDE DEF put
  <2>5. next = context[c].index + 1
    BY <1>3 DEF next
  <2>6. Continued(t, Chain!Around, "start", "after", put)
    BY <1>3, <2>2, <2>3, <2>4, <2>5 DEF Continued, Calling, Chain!Around, o, c
  <2>7. QED
    BY <2>6, Nexts
<1>7. CASE Chain!Pass(t)
  <2> DEFINE v == [seen[s] EXCEPT !.passed = @ \cup {Top1(stack[t]).at}]
  <2> HIDE DEF s, o, c, next, seen
  <2>1. /\ Chain!In(t, {"guard"}, "start") /\ trace' = [seen EXCEPT ![s] = v] /\ up' = up /\ answer' = answer
        /\ stack' = [Chain!At1(t, "done") EXCEPT ![t] = Append(@, Chain!Loop)]
        /\ context' = [context EXCEPT ![c] = ctx]
    BY <1>2, <1>4, <1>7 DEF Chain!Pass, Chain!Next1, Chain!Request, s, next, seen
  <2>2. /\ v \in Traces /\ v.begun = seen[s].begun /\ v.at = seen[s].at /\ v.chain = seen[s].chain
        /\ v.ran = seen[s].ran /\ v.sent = seen[s].sent /\ v.foreign = seen[s].foreign
        /\ v.passed = seen[s].passed \cup {Top1(stack[t]).at}
        /\ v.refused = seen[s].refused /\ v.panicked = seen[s].panicked /\ v.failed = seen[s].failed
        /\ v.late = seen[s].late
    <3>1. Top1(stack[t]).at \in Nat /\ seen[s].passed \in SUBSET Nat
      BY <1>2, <1>3 DEF Frames, Traces
    <3>2. PICK set \in SUBSET Nat : set = seen[s].passed \cup {Top1(stack[t]).at}
      BY <3>1
    <3>3. v = [seen[s] EXCEPT !.passed = set]
      BY <3>2
    <3> HIDE DEF v
    <3>4. QED
      BY <1>3, <3>2, <3>3 DEF Traces
  <2> HIDE DEF v
  <2>3. Marks(t, trace') /\ trace'[s] = v
    <3>1. Told(seen, s, v, trace')
      BY <2>1, <2>2 DEF Noted, Told
    <3>2. QED
      BY <1>2, <1>3, <3>1, Marking DEF s
  <2>4. Top1(stack[t]).at \in trace'[s].passed
    BY <2>2, <2>3
  <2>5. next = context[c].index + 1
    BY <1>3 DEF next
  <2>6. Continued(t, {"guard"}, "start", "done", ctx)
    BY <1>4, <2>1, <2>3, <2>4, <2>5 DEF Continued, Calling, s, o, c
  <2>7. QED
    BY <2>6, Nexts
<1>8. QED
  BY <1>6, <1>7

(* Retry, whose loop finds nothing more. *)
LEMMA Retrying ==
    ASSUME ChainShaped, Owned, CalmOnes, NEW t \in Threads, Chain!Retry(t)
    PROVE  ChainInv'
<1> DEFINE o == Chain!Owner(t)
           c == Chain!At(t)
           next == Chain!Here(t).index + 1
           s == stack[t]
<1>1. Chain!In(t, {"retry"}, "after") /\ trace' = Chain!Seen(t) /\ up' = up /\ answer' = answer
  BY DEF Chain!Retry
<1>2. /\ up /\ s # <<>> /\ Chain!Top(t) = Top1(s) /\ Top1(s) \in Frames /\ Top1(s).call /\ Top1(s).pc = "after"
      /\ s \in Seq(Frames) /\ Alternate(s) /\ Len(s) \in 1..Len(s) /\ Top1(s).kind = "retry"
  BY <1>1, InCall DEF Calling
<1>3. /\ o \in Requests /\ c \in Contexts /\ Chain!Here(t) = context[c] /\ context[c].index \in Nat
      /\ Marks(t, trace') /\ answer[o] \in Seq(Nat) /\ answer' = [answer EXCEPT ![o] = answer[o]]
  <2>1. o \in Requests /\ c \in Contexts /\ context[c].index \in Nat
    BY <1>2, OwnerKnown
  <2>2. QED
    BY <1>1, <1>2, <2>1, Seeing DEF ChainShaped, Chain!Here
<1>4. CASE stack' = Chain!Pop(t) /\ context' = Chain!Move(t, next)
  <2>1. Returned(t, {"retry"}, "after", next, answer[o])
    BY <1>1, <1>3, <1>4 DEF Returned, Calling
  <2>2. QED
    BY <2>1, Leaves
<1>5. CASE /\ stack' = [stack EXCEPT ![t] = Append(SubSeq(@, 1, Len(@) - 1), [Chain!Top(t) EXCEPT !.tries = @ + 1]) \o <<Chain!Loop>>]
           /\ context' = Chain!Move(t, next) /\ Chain!Top(t).tries < MaxRetries
  <2> DEFINE f == [Top1(s) EXCEPT !.tries = @ + 1]
             front == SubSeq(s, 1, Len(s) - 1)
             e == Append(front, f) \o <<Chain!Loop>>
  <2>1. f \in Frames /\ f.call /\ f.pc = "after"
    <3>1. Top1(s).tries + 1 \in 0..MaxRetries
      BY <1>2, <1>5, ChainsAssumption DEF Frames
    <3>2. QED
      BY <1>2, <3>1 DEF Frames
  <2>2. Chain!Loop \in Frames
    <3>1. 0 \in 0..MaxRetries
      BY ChainsAssumption
    <3>2. QED
      BY <3>1 DEF Chain!Loop, Frames
  <2>3. front \in Seq(Frames) /\ Len(front) = Len(s) - 1 /\ \A k \in 1..(Len(s) - 1) : front[k] = s[k]
    <3>1. \A k \in 1..(Len(s) - 1) : s[k] \in Frames
      BY <1>2, ElementOfSeq
    <3>2. QED
      BY <1>2, <3>1, SubSeqProperties
  <2>4. stack' = [stack EXCEPT ![t] = e]
    BY <1>2, <1>5
  <2> HIDE DEF f, front
  <2>5. /\ e \in Seq(Frames) /\ Len(e) = Len(s) + 1 /\ \A k \in 1..(Len(s) - 1) : e[k] = s[k]
        /\ e[Len(s)] = f /\ e[Len(s) + 1] = Chain!Loop
    BY <1>2, <2>1, <2>2, <2>3
  <2> HIDE DEF e
  <2>6. Alternate(e) /\ e # <<>> /\ Top1(e).pc = "loop"
    BY <1>2, <2>1, <2>5, Entered
  <2>7. next \in Nat /\ next = context[c].index + 1
    BY <1>3
  <2>8. PICK ctx \in Contexts1 :
            /\ Chain!Move(t, next) = [context EXCEPT ![c] = ctx]
            /\ ctx.index = next /\ ctx.owner = o /\ ctx.chain = context[c].chain
            /\ ctx.busy = context[c].busy /\ ctx.error = context[c].error
    <3>1. stack[t] # <<>>
      BY <1>2
    <3>2. QED
      BY <2>7, <3>1, Moving, SMTT(60)
  <2> HIDE DEF next
  <2>9. Left(t, e, ctx, answer[o])
    BY <1>1, <1>2, <1>3, <1>5, <2>4, <2>5, <2>6, <2>7, <2>8 DEF Left
  <2>10. QED
    BY <2>9, Comes
<1>6. QED
  BY <1>4, <1>5 DEF Chain!Retry, Chain!Return

(* A handler that leaves an error in the Context. *)
LEMMA LeavingError ==
    ASSUME ChainShaped, Owned, CalmOnes, NEW t \in Threads, Chain!LeaveError(t)
    PROVE  ChainInv'
<1> DEFINE o == Chain!Owner(t)
           c == Chain!At(t)
           next == Chain!Here(t).index + 1
           seen == Chain!Seen(t)
           v == [seen[o] EXCEPT !.failed = TRUE]
<1>1. /\ Chain!In(t, {"handler"}, "start") /\ trace' = [seen EXCEPT ![o] = v] /\ up' = up /\ answer' = answer
      /\ stack' = Chain!Pop(t) /\ context' = [Chain!Move(t, next) EXCEPT ![c].error = TRUE]
  BY DEF Chain!LeaveError
<1>2. up /\ stack[t] # <<>> /\ Top1(stack[t]).call /\ Top1(stack[t]).kind = "handler" /\ Top1(stack[t]).pc = "start"
  BY <1>1, InCall DEF Calling
<1>3. /\ o \in Requests /\ c \in Contexts /\ Chain!Here(t) = context[c] /\ context[c].index \in Nat
      /\ Marks(t, seen) /\ answer[o] \in Seq(Nat) /\ answer' = [answer EXCEPT ![o] = answer[o]]
      /\ context \in [Contexts -> Contexts1]
  <2>1. o \in Requests /\ c \in Contexts /\ context[c].index \in Nat
    BY <1>2, OwnerKnown
  <2>2. QED
    BY <1>1, <1>2, <2>1, Seeing DEF ChainShaped, Chain!Here
<1>4. next \in Nat /\ next = context[c].index + 1
  BY <1>3
<1>5. PICK ctx \in Contexts1 :
          /\ Chain!Move(t, next) = [context EXCEPT ![c] = ctx]
          /\ ctx.index = next /\ ctx.owner = o /\ ctx.chain = context[c].chain
          /\ ctx.busy = context[c].busy /\ ctx.error = context[c].error
  <2>1. stack[t] # <<>>
    BY <1>2
  <2> HIDE DEF next
  <2>2. QED
    BY <1>4, <2>1, Moving
<1>6. PICK ns \in Seq(Frames) : Alternate(ns) /\ ns # <<>> /\ Top1(ns).pc = "loop" /\ stack' = [stack EXCEPT ![t] = ns]
  BY <1>1, Popping DEF Calling
<1> DEFINE put == [ctx EXCEPT !.error = TRUE]
<1> HIDE DEF o, c, next, seen
<1>7. context' = [context EXCEPT ![c] = put]
  <2>1. [context EXCEPT ![c] = ctx][c] = ctx
    BY <1>3
  <2>2. context' = [[context EXCEPT ![c] = ctx] EXCEPT ![c] = put]
    BY <1>1, <1>5, <2>1
  <2>3. QED
    BY <1>3, <2>2
<1>8. put \in Contexts1 /\ put.index = next /\ put.owner = o /\ put.chain = context[c].chain /\ put.busy = context[c].busy
  BY <1>5 DEF Contexts1
<1>9. seen[o] \in Traces
  BY <1>3 DEF Marks
<1>10. /\ v \in Traces /\ v.failed /\ v.begun = seen[o].begun /\ v.at = seen[o].at /\ v.chain = seen[o].chain
       /\ v.ran = seen[o].ran /\ v.sent = seen[o].sent /\ v.foreign = seen[o].foreign /\ v.passed = seen[o].passed
       /\ v.late = seen[o].late /\ v.panicked = seen[o].panicked /\ v.refused = seen[o].refused
  BY <1>9 DEF Traces
<1> HIDE DEF v, put
<1>11. Marks(t, trace') /\ trace'[o] = v
  <2>1. Told(seen, o, v, trace')
    BY <1>1, <1>10 DEF Noted, Told
  <2>2. QED
    BY <1>3, <2>1, Marking DEF o
<1>12. trace'[o].failed /\ (o = t[1] => ~Unspoilt(trace'[t[1]]))
  BY <1>10, <1>11, SMTT(60) DEF Unspoilt
<1>13. Left(t, ns, put, answer[o])
  BY <1>1, <1>2, <1>3, <1>4, <1>6, <1>7, <1>8, <1>11, <1>12 DEF Left, o, c
<1>14. QED
  BY <1>13, Comes

(* A request that is calm, worked on by its own goroutine.                  *)
LEMMA Alone ==
    ASSUME ChainShaped, Owned, CalmOnes, NEW t \in Threads, up, stack[t] # <<>>, Top1(stack[t]).pc # "wait",
           Chain!Owner(t) = t[1], Calm(t[1])
    PROVE  /\ t = MainOf(t[1]) => stack[ChildOf(t[1])] = <<>>
           /\ stack[MainOf(t[1])] # <<>> /\ Live(t[1]) = stack[t] /\ Outcome(t[1]) /\ Working(t[1])
           /\ ~trace[t[1]].sent /\ Index(t[1]) = context[Chain!At(t)].index
<1> DEFINE s == t[1]
<1>1. s \in Requests /\ trace[s].begun /\ Chain!At(t) = trace[s].at /\ ~trace[s].late
  BY OwnerKnown DEF Calm
<1>2. t = MainOf(s) => stack[ChildOf(s)] = <<>>
  BY <1>1 DEF Owned
<1>3. stack[MainOf(s)] # <<>>
  BY <1>1, Names DEF Owned
<1>4. ~trace[s].sent
  BY <1>1, <1>3 DEF Owned
<1>5. Outcome(s) /\ Working(s)
  BY <1>1, <1>4 DEF CalmOnes
<1>6. Live(s) = stack[t]
  BY <1>1, <1>2, Names DEF Live
<1>7. QED
  BY <1>1, <1>2, <1>3, <1>4, <1>5, <1>6 DEF Index

(* A goroutine for the rest of the chain, while its own waits. *)
LEMMA Spawning ==
    ASSUME ChainShaped, Owned, CalmOnes, NEW t \in Threads, Chain!Spawn(t)
    PROVE  ChainInv'
<1> DEFINE s == t[1]
           o == Chain!Owner(t)
           c == Chain!At(t)
           next == Chain!Here(t).index + 1
           main == AtPlace(stack[t], "wait")
           child == <<Chain!Loop>>
<1>1. /\ Chain!In(t, {"timeout", "breaker"}, "start") /\ t = MainOf(s) /\ up' = up /\ answer' = answer
      /\ trace' = Chain!Seen(t) /\ context' = Chain!Move(t, next)
      /\ stack' = [[stack EXCEPT ![t] = main] EXCEPT ![ChildOf(s)] = child]
  BY Names DEF Chain!Spawn, Chain!At1, AtPlace
<1>2. /\ up /\ stack[t] # <<>> /\ stack[t] \in Seq(Frames) /\ Alternate(stack[t])
      /\ Top1(stack[t]).pc = "start" /\ Top1(stack[t]).kind \in {"timeout", "breaker"} /\ Top1(stack[t]).call
  BY <1>1, InCall DEF Calling
<1>3. /\ s \in Requests /\ o = s /\ c \in Contexts /\ c = trace[s].at /\ Chain!Here(t) = context[c]
      /\ context[c].index \in Nat \ {0} /\ trace[s].begun /\ ~trace[s].sent /\ trace[s].chain \in Chains[s]
      /\ Marks(t, trace') /\ next = context[c].index + 1 /\ ChildOf(s) # t /\ ChildOf(s) \in Threads
  <2>1. s \in Requests /\ o = s /\ c \in Contexts /\ c = trace[s].at /\ context[c].index \in Nat \ {0} /\ trace[s].begun
        /\ trace[o].chain \in Chains[o] /\ ChildOf(s) # t /\ ChildOf(s) \in Threads
    BY <1>1, <1>2, OwnerKnown, Names
  <2>2. ~trace[s].sent
    BY <1>1, <1>2, <2>1 DEF Owned
  <2>3. QED
    BY <1>1, <1>2, <2>1, <2>2, Seeing DEF Chain!Here
<1>4. main \in Seq(Frames) /\ Alternate(main) /\ main # <<>> /\ Top1(main).pc = "wait"
  BY <1>2, Marked
<1>5. child \in Seq(Frames) /\ Alternate(child) /\ child # <<>> /\ Top1(child).pc = "loop"
  <2>1. Chain!Loop \in Frames
    <3>1. 0 \in 0..MaxRetries
      BY ChainsAssumption
    <3>2. QED
      BY <3>1 DEF Chain!Loop, Frames
  <2>2. Len(child) = 1 /\ child[1] = Chain!Loop /\ ~Chain!Loop.call /\ Chain!Loop.pc = "loop"
    BY SMTT(60) DEF Chain!Loop
  <2>3. QED
    BY <2>1, <2>2 DEF Alternate, Top1
<1> HIDE DEF main, child
<1>6. /\ stack'[t] = main /\ stack'[ChildOf(s)] = child /\ stack' \in [Threads -> Seq(Frames)]
      /\ \A u \in Threads : u \notin {t, ChildOf(s)} => stack'[u] = stack[u]
  BY <1>1, <1>3, <1>4, <1>5 DEF ChainShaped
<1>7. PICK ctx \in Contexts1 :
          /\ context' = [context EXCEPT ![c] = ctx]
          /\ ctx.index = next /\ ctx.owner = o /\ ctx.chain = context[c].chain
          /\ ctx.busy = context[c].busy /\ ctx.error = context[c].error
  <2>1. next \in Nat
    BY <1>3
  <2>2. PICK ctx \in Contexts1 :
            /\ Chain!Move(t, next) = [context EXCEPT ![c] = ctx]
            /\ ctx.index = next /\ ctx.owner = o /\ ctx.chain = context[c].chain
            /\ ctx.busy = context[c].busy /\ ctx.error = context[c].error
    <3>1. stack[t] # <<>>
      BY <1>2
    <3>2. QED
      BY <2>1, <3>1, Moving, ZenonT(60)
  <2>3. QED
    BY <1>1, <2>2
<1>8. context' \in [Contexts -> Contexts1] /\ context'[c] = ctx /\ \A x \in Contexts : x # c => context'[x] = context[x]
  BY <1>3, <1>7, SMTT(60) DEF ChainShaped
<1>9. ChainShaped'
  BY <1>1, <1>3, <1>6, <1>8, ZenonT(60) DEF ChainShaped, Marks
<1> HIDE DEF s, o, c, next
<1>10. Keeps(t)
  <2>1. \A x \in Contexts :
            /\ context'[x].owner = context[x].owner /\ context'[x].chain = context[x].chain
            /\ context'[x].busy = context[x].busy /\ (context[x].index > 0 => context'[x].index > 0)
            /\ x # Chain!At(t) => context'[x] = context[x]
    <3>1. context[c].owner = o
      BY <1>2, OwnerKnown DEF c, o
    <3>2. QED
      BY <1>3, <1>7, <1>8, <3>1 DEF c
  <2>2. \A u \in Threads : Alternate(stack'[u]) /\ (u[1] # t[1] => stack'[u] = stack[u])
    <3>1. \A u \in Threads : Alternate(stack[u])
      BY DEF Owned
    <3>2. \A u \in Threads : u[1] # s => u \notin {t, ChildOf(s)}
      BY <1>3, Names DEF s
    <3>3. QED
      BY <1>4, <1>5, <1>6, <3>1, <3>2 DEF s
  <2>3. stack'[MainOf(s)] # <<>> /\ Top1(stack'[MainOf(s)]).pc = "wait"
    BY <1>1, <1>4, <1>6
  <2>4. \A r \in Requests : trace'[r].foreign <=> trace[r].foreign
    BY <1>3 DEF Marks, o, s
  <2>5. \A r \in Requests :
            /\ trace'[r].begun = trace[r].begun /\ trace'[r].at = trace[r].at /\ trace'[r].chain = trace[r].chain
            /\ trace'[r].ran = trace[r].ran /\ trace'[r].sent = trace[r].sent
            /\ trace[r].late => trace'[r].late
            /\ r \notin {s, o} => trace'[r] = trace[r]
    BY <1>3 DEF Marks, o, s
  <2>6. QED
    BY <1>1, <1>3, <2>1, <2>2, <2>3, <2>4, <2>5, ZenonT(60) DEF Keeps, s, o
<1>11. Owned'
  BY <1>2, <1>10, OwnedKept
<1>12. ASSUME NEW q \in Requests, Calm(q)'
       PROVE  Outcome(q)' /\ (up' /\ trace'[q].begun /\ ~trace'[q].sent => Working(q)')
  <2>1. CASE q = s
    <3>1. Calm(q)
      BY <1>3, <1>12, <2>1 DEF Calm, Marks
    <3>2. Outcome(q) /\ Working(q) /\ Live(q) = stack[t] /\ Index(q) = context[c].index
      BY <1>2, <1>3, <2>1, <3>1, Alone DEF s, o, c
    <3>3. Live(q)' = child
      BY <1>5, <1>6, <2>1 DEF Live
    <3>4. trace'[q].at = trace[q].at /\ trace'[q].chain = trace[q].chain /\ trace'[q].ran = trace[q].ran
          /\ trace[q].passed \subseteq trace'[q].passed /\ (trace[q].panicked => trace'[q].panicked)
          /\ (trace[q].refused => trace'[q].refused)
          /\ (trace[q].failed => trace'[q].failed)
      BY <1>3 DEF Marks
    <3>5. Index(q)' = Index(q) + 1 /\ (context'[trace[q].at].error => context[trace[q].at].error)
      BY <1>3, <1>7, <1>8, <2>1, <3>2, <3>4 DEF Index
    <3>6. Len(trace[q].ran) = Len(trace[q].chain) /\ trace[q].chain \in Chains[q] /\ trace[q].at \in Contexts
      BY <1>3, <2>1 DEF Owned
    <3>7. (Live(q) # <<>> /\ Top1(Live(q)).pc = "loop")'
      BY <1>5, <3>3
    <3>8. PICK f : f = Top1(Live(q)) /\ f.pc = "start" /\ f.kind # "guard" /\ Live(q) # <<>>
      BY <1>2, <3>2
    <3>9. f.pc \in Calling /\ Index(q)' \in {Index(q) + 1, Chain!AbortIndex} /\ answer'[q] = answer[q]
      BY <1>1, <3>5, <3>8 DEF Calling
    <3>10. QED
      BY <1>9, <3>2, <3>4, <3>5, <3>6, <3>7, <3>8, <3>9, Resumed
  <2>2. CASE q # s
    BY <1>1, <1>2, <1>10, <1>12, <2>2, Elsewhere DEF s
  <2>3. QED
    BY <2>1, <2>2
<1>13. QED
  BY <1>9, <1>11, <1>12 DEF ChainInv, CalmOnes

(* The loop of Next. *)
LEMMA Looping ==
    ASSUME ChainShaped, Owned, CalmOnes, NEW t \in Threads, Chain!Step(t)
    PROVE  ChainInv'
<1> DEFINE s == t[1]
           o == Chain!Owner(t)
           c == Chain!At(t)
           i == context[c].index
           chain == context[c].chain
<1>1. /\ up /\ up' = up /\ stack[t] # <<>> /\ stack[t] \in Seq(Frames) /\ Alternate(stack[t]) /\ ~Top1(stack[t]).call
      /\ Len(stack[t]) \in 1..Len(stack[t]) /\ Top1(stack[t]).pc = "loop" /\ UNCHANGED <<context, answer>>
  <2>1. up /\ up' = up /\ stack[t] # <<>> /\ ~Top1(stack[t]).call /\ UNCHANGED <<context, answer>>
    BY DEF Chain!Step, Chain!Runs, Chain!Top, Top1
  <2>2. stack[t] \in Seq(Frames) /\ Alternate(stack[t]) /\ Len(stack[t]) \in 1..Len(stack[t])
    BY <2>1, EmptySeq DEF ChainShaped, Owned
  <2>3. Top1(stack[t]).pc = "loop"
    BY <2>1, <2>2, SMTT(60) DEF Alternate, Top1
  <2>4. QED
    BY <2>1, <2>2, <2>3
<1>2. /\ s \in Requests /\ o \in Requests /\ c \in Contexts /\ c = trace[s].at /\ trace[s].begun
      /\ trace[o].at = c /\ trace[o].chain = chain /\ i \in Nat \ {0} /\ Chain!Here(t) = context[c]
      /\ chain \in Seq(STRING) /\ trace[o].ran \in Seq(Nat) /\ Len(trace[o].ran) = Len(chain)
  <2>1. /\ s \in Requests /\ o \in Requests /\ c \in Contexts /\ c = trace[s].at /\ trace[s].begun
        /\ trace[o].at = c /\ trace[o].chain = chain /\ i \in Nat \ {0}
    BY <1>1, OwnerKnown
  <2>2. chain \in Seq(STRING) /\ trace[o].ran \in Seq(Nat)
    BY <2>1, SMTT(60) DEF ChainShaped, Contexts1, Traces
  <2>3. QED
    BY <2>1, <2>2 DEF Owned, Chain!Here
<1>3. ASSUME t = MainOf(s), ~trace[s].late PROVE stack[ChildOf(s)] = <<>>
  BY <1>1, <1>2, <1>3 DEF Owned
(* What does not depend on what the loop finds. *)
<1>4. ASSUME NEW ns \in Seq(Frames), stack' = [stack EXCEPT ![t] = ns], Alternate(ns),
             ns # <<>> => Top1(ns).pc # "wait" \/ trace'[s].late = trace[s].late,
             trace' \in [Requests -> Traces],
             \A r \in Requests :
                /\ trace'[r].begun = trace[r].begun /\ trace'[r].at = trace[r].at /\ trace'[r].chain = trace[r].chain
                /\ Len(trace'[r].ran) = Len(trace[r].ran) /\ trace'[r].late = trace[r].late
                /\ trace'[r].sent = trace[r].sent
                /\ trace[r].foreign => trace'[r].foreign
                /\ trace'[r].foreign => trace[r].foreign \/ (r = o /\ r # s)
                /\ r # o => trace'[r] = trace[r],
             o # s => trace'[o].foreign \/ UNCHANGED trace
      PROVE  ChainShaped' /\ Keeps(t) /\ Owned'
  <2>1. ChainShaped' /\ stack'[t] = ns /\ \A u \in Threads : u # t => stack'[u] = stack[u]
    BY <1>1, <1>4 DEF ChainShaped
  <2> HIDE DEF s, o, c, i, chain
  <2>2. stack'[MainOf(s)] # <<>> => ~trace'[s].sent
    <3>1. stack'[MainOf(s)] # <<>> => stack[MainOf(s)] # <<>>
      BY <1>1, <1>2, <2>1, Names
    <3>2. QED
      BY <1>2, <1>4, <3>1 DEF Owned
  <2>3. ASSUME stack'[ChildOf(s)] # <<>>, ~trace'[s].late
        PROVE  stack'[MainOf(s)] # <<>> /\ Top1(stack'[MainOf(s)]).pc = "wait"
    <3>1. ~trace[s].late
      BY <1>2, <1>4, <2>3
    <3>2. t = ChildOf(s)
      BY <1>2, <1>3, <2>1, <2>3, <3>1, Names DEF s
    <3>3. stack'[MainOf(s)] = stack[MainOf(s)]
      BY <1>2, <2>1, <3>2, Names
    <3>4. QED
      BY <1>1, <1>2, <3>1, <3>2, <3>3 DEF Owned
  <2>4. \A u \in Threads : Alternate(stack'[u]) /\ (u[1] # t[1] => stack'[u] = stack[u])
    BY <1>4, <2>1 DEF Owned
  <2>5. Keeps(t)
    BY <1>1, <1>2, <1>4, <2>2, <2>3, <2>4, SMTT(60) DEF Keeps, s, o, c
  <2>6. QED
    BY <1>1, <2>1, <2>5, OwnedKept
(* It calls a handler. *)
<1>5. CASE i <= Len(chain)
  <2> DEFINE ns == Append(stack[t], Chain!Call(i, chain[i]))
             ran == [trace[o].ran EXCEPT ![i] = @ + 1]
             seen == Chain!Seen(t)
             v == [seen[o] EXCEPT !.ran = ran]
  <2>1. i \in 1..Len(chain) /\ i \in 1..Len(trace[o].ran)
    <3>1. Len(chain) \in Nat
      BY <1>2
    <3>2. QED
      BY <1>2, <1>5, <3>1
  <2>2. /\ ns \in Seq(Frames) /\ Alternate(ns) /\ ns # <<>> /\ Top1(ns).pc = "start" /\ Top1(ns).at = i
        /\ Top1(ns).kind = chain[i]
    <3> HIDE DEF s, o, c, i, chain
    <3>1. CalledAt(stack[t], chain, i, ns)
      BY <1>1, <1>2, <2>1, CalledInChain
    <3>2. QED
      BY <3>1 DEF CalledAt
  <2>3. ran \in Seq(Nat) /\ Len(ran) = Len(trace[o].ran)
    <3> DEFINE old == trace[o].ran
    <3>1. old \in Seq(Nat) /\ i \in 1..Len(old)
      BY <1>2, <2>1
    <3> HIDE DEF old, i
    <3>2. Counted(old, i) \in Seq(Nat) /\ Len(Counted(old, i)) = Len(old)
      BY <3>1, Counts, SMTT(60)
    <3>3. QED
      BY <3>2, SMTT(60) DEF Counted, old
  <2>4. Marks(t, seen) /\ seen[o].ran = trace[o].ran
    BY <1>1, <1>2, Seeing DEF Marks
  <2>5. stack' = [stack EXCEPT ![t] = ns] /\ trace' = [seen EXCEPT ![o] = v]
    <3>1. /\ stack' = [stack EXCEPT ![t] = ns]
          /\ trace' = [seen EXCEPT ![o].ran[i] = @ + 1]
      BY <1>2, <1>5 DEF Chain!Step
    <3>2. QED
      BY <2>4, <3>1, SMTT(60)
  <2> HIDE DEF s, o, c, i, chain, ns, ran, seen
  <2>6. seen[o] \in Traces /\ seen \in [Requests -> Traces]
    BY <1>2, <2>4 DEF Marks
  <2>7. /\ v \in Traces /\ v.failed = seen[o].failed /\ v.begun = seen[o].begun /\ v.at = seen[o].at
        /\ v.chain = seen[o].chain /\ v.ran = ran /\ v.sent = seen[o].sent /\ v.foreign = seen[o].foreign
        /\ v.passed = seen[o].passed /\ v.late = seen[o].late /\ v.panicked = seen[o].panicked
        /\ v.refused = seen[o].refused
    BY <2>3, <2>6 DEF Traces
  <2>8. trace' \in [Requests -> Traces] /\ trace'[o] = v /\ \A r \in Requests : r # o => trace'[r] = seen[r]
    <3> HIDE DEF v
    <3>1. QED
      BY <1>2, <2>5, <2>6, <2>7
  <2>9. seen = [trace EXCEPT ![o].foreign = trace[o].foreign \/ o # s]
    BY DEF seen, o, s, Chain!Seen, Chain!Request
  <2>10. \A r \in Requests : r # o => seen[r] = trace[r]
    BY <1>2, <2>9 DEF ChainShaped
  <2>11. seen[o] = [trace[o] EXCEPT !.foreign = trace[o].foreign \/ o # s]
    BY <1>2, <2>9 DEF ChainShaped
  <2>12. seen[o].late = trace[o].late
    BY <1>2, <2>11 DEF ChainShaped, Traces
  <2>13. \A r \in Requests :
            /\ trace'[r].begun = trace[r].begun /\ trace'[r].at = trace[r].at /\ trace'[r].chain = trace[r].chain
            /\ Len(trace'[r].ran) = Len(trace[r].ran) /\ trace'[r].late = trace[r].late
            /\ trace'[r].sent = trace[r].sent
            /\ trace[r].foreign => trace'[r].foreign
            /\ trace'[r].foreign => trace[r].foreign \/ (r = o /\ r # s)
            /\ r # o => trace'[r] = trace[r]
    <3> HIDE DEF v
    <3>1. \A r \in Requests : r # o => trace'[r] = trace[r]
      BY <2>8, <2>10
    <3>2. seen[o].foreign <=> trace[o].foreign \/ o # s
      BY <1>2, <2>4 DEF Marks, o, s
    <3>3. seen[o].begun = trace[o].begun /\ seen[o].at = trace[o].at /\ seen[o].chain = trace[o].chain
          /\ seen[o].sent = trace[o].sent
      BY <1>2, <2>4 DEF Marks
    <3>4. QED
      BY <2>3, <2>7, <2>8, <2>12, <3>1, <3>2, <3>3
  <2>14. o # s => trace'[o].foreign
    <3> HIDE DEF v
    <3>1. QED
      BY <1>2, <2>4, <2>7, <2>8 DEF Marks, o, s
  <2>15. ChainShaped' /\ Keeps(t) /\ Owned'
    <3> HIDE DEF v
    <3>1. QED
      BY <1>4, <2>2, <2>5, <2>8, <2>13, <2>14
  <2>16. ASSUME NEW q \in Requests, Calm(q)'
         PROVE  Outcome(q)' /\ (up' /\ trace'[q].begun /\ ~trace'[q].sent => Working(q)')
    <3>1. CASE q = s /\ q = o
      <4>1. Calm(q)
        BY <2>13, <2>16 DEF Calm
      <4>2. /\ t = MainOf(s) => stack[ChildOf(s)] = <<>>
            /\ Outcome(q) /\ Working(q) /\ Live(q) = stack[t] /\ Index(q) = i
        BY <1>1, <3>1, <4>1, Alone DEF s, o, c, i
      <4>3. Live(q)' = ns
        <5>1. stack'[t] = ns /\ \A u \in Threads : u # t => stack'[u] = stack[u]
          BY <2>5 DEF ChainShaped
        <5>2. CASE t = ChildOf(s)
          BY <2>2, <3>1, <5>1, <5>2 DEF Live
        <5>3. CASE t = MainOf(s)
          <6>1. stack'[ChildOf(s)] = <<>> /\ stack'[MainOf(s)] = ns
            BY <1>2, <4>2, <5>1, <5>3, Names
          <6>2. QED
            BY <3>1, <6>1 DEF Live
        <5>4. QED
          BY <5>2, <5>3, Names DEF s
      <4>4. trace'[q] = [trace[q] EXCEPT !.ran = ran]
        <5>1. (trace[o].foreign \/ o # s) = trace[o].foreign
          BY <1>2, <3>1 DEF ChainShaped, Traces
        <5>2. seen[o] = trace[o]
          BY <1>2, <2>11, <5>1 DEF ChainShaped, Traces
        <5>3. QED
          BY <2>8, <3>1, <5>2
      <4>5. ran = [trace[q].ran EXCEPT ![Index(q)] = @ + 1]
        BY <3>1, <4>2 DEF ran
      <4>6. Len(trace[q].ran) = Len(trace[q].chain) /\ trace[q].at \in Contexts /\ Index(q) <= Len(trace[q].chain)
            /\ trace[q].chain = chain
        BY <1>2, <1>5, <3>1, <4>2
      <4>7. (Live(q) # <<>> /\ Top1(Live(q)).pc = "start")'
        BY <2>2, <4>3
      <4>8. Top1(Live(q))'.at = Index(q) /\ Top1(Live(q))'.kind = trace[q].chain[Index(q)]
        BY <2>2, <4>2, <4>3, <4>6 DEF Top1
      <4>9. Live(q) # <<>> /\ Top1(Live(q)).pc = "loop" /\ context' = context /\ answer'[q] = answer[q]
        BY <1>1, <4>2
      <4>10. QED
        BY <4>2, <4>4, <4>5, <4>6, <4>7, <4>8, <4>9, Begun
    <3>2. CASE ~(q = s /\ q = o)
      BY <1>1, <2>15, <2>16, <3>2, Elsewhere DEF s, o
    <3>3. QED
      BY <3>1, <3>2
  <2>17. QED
    BY <2>15, <2>16 DEF ChainInv, CalmOnes
(* It finds no more. *)
<1>6. CASE ~(i <= Len(chain))
  <2> DEFINE ns == SubSeq(stack[t], 1, Len(stack[t]) - 1)
  <2>1. stack' = [stack EXCEPT ![t] = ns] /\ trace' = trace
    BY <1>2, <1>6 DEF Chain!Step, Chain!Pop
  <2>2. /\ ns \in Seq(Frames) /\ Alternate(ns)
        /\ ns = <<>> \/ Top1(ns).pc \notin {"loop", "start"}
    BY <1>1, Cut DEF Top1
  <2> HIDE DEF s, o, c, i, chain, ns
  <2>3. ChainShaped' /\ Keeps(t) /\ Owned'
    <3>1. trace' \in [Requests -> Traces]
      BY <2>1 DEF ChainShaped
    <3>2. QED
      BY <1>4, <2>1, <2>2, <3>1
  <2>4. ASSUME NEW q \in Requests, Calm(q)'
        PROVE  Outcome(q)' /\ (up' /\ trace'[q].begun /\ ~trace'[q].sent => Working(q)')
    <3>1. CASE q = s /\ q = o
      <4>1. Calm(q)
        BY <2>1, <2>4 DEF Calm
      <4>2. /\ t = MainOf(s) => stack[ChildOf(s)] = <<>>
            /\ Outcome(q) /\ Working(q) /\ Live(q) = stack[t] /\ Index(q) = i
        BY <1>1, <3>1, <4>1, Alone DEF s, o, c, i
      <4>3. stack'[t] = ns /\ \A u \in Threads : u # t => stack'[u] = stack[u]
        BY <2>1, <2>2 DEF ChainShaped
      <4>4. Live(q)' # <<>> => Top1(Live(q))'.pc # "start"
        <5>1. CASE t = ChildOf(s)
          <6>1. stack[MainOf(s)] # <<>> /\ Top1(stack[MainOf(s)]).pc = "wait" /\ stack'[MainOf(s)] = stack[MainOf(s)]
            BY <1>1, <1>2, <3>1, <4>1, <4>3, <5>1, Names, ZenonT(60) DEF Owned, Calm
          <6>2. Live(q)' = IF ns # <<>> THEN ns ELSE stack[MainOf(s)]
            BY <3>1, <4>3, <5>1, <6>1 DEF Live
          <6>3. Top1(Live(q))' = Top1(Live(q)')
            BY DEF Top1
          <6>4. QED
            BY <2>2, <6>1, <6>2, <6>3
        <5>2. CASE t = MainOf(s)
          <6>1. stack'[ChildOf(s)] = <<>> /\ stack'[MainOf(s)] = ns
            BY <1>2, <4>2, <4>3, <5>2, Names
          <6>2. Live(q)' = ns
            BY <3>1, <6>1 DEF Live
          <6>3. Top1(Live(q))' = Top1(ns)
            BY <6>2 DEF Top1
          <6>4. QED
            BY <2>2, <6>2, <6>3
        <5>3. QED
          BY <5>1, <5>2, Names DEF s
      <4>5. Index(q) > Len(trace[q].chain)
        <5>1. Len(chain) \in Nat
          BY <1>2
        <5>2. QED
          BY <1>2, <1>6, <3>1, <4>2, <5>1
      <4>6. Live(q) # <<>> /\ Top1(Live(q)).pc = "loop" /\ UNCHANGED <<trace, answer, context>>
        BY <1>1, <2>1, <4>2
      <4>7. QED
        BY <4>2, <4>4, <4>5, <4>6, Finished
    <3>2. CASE ~(q = s /\ q = o)
      BY <1>1, <2>3, <2>4, <3>2, Elsewhere DEF s, o
    <3>3. QED
      BY <3>1, <3>2
  <2>5. QED
    BY <2>3, <2>4 DEF ChainInv, CalmOnes
<1>7. QED
  BY <1>5, <1>6

(* ServeHTTP ends. *)
LEMMA Serving ==
    ASSUME ChainShaped, Owned, CalmOnes, NEW t \in Threads, Chain!Serve(t)
    PROVE  ChainInv'
<1> DEFINE s == t[1]
           c == Chain!At(t)
           ctx == [context[c] EXCEPT !.busy = FALSE]
           v == [trace[s] EXCEPT !.sent = TRUE]
<1>1. /\ up /\ up' = up /\ t = MainOf(s) /\ s \in Requests /\ c = trace[s].at /\ UNCHANGED <<stack, answer>>
      /\ stack[MainOf(s)] = <<>> /\ trace[s].begun /\ ~trace[s].sent
      /\ context' = [context EXCEPT ![c] = ctx] /\ trace' = [trace EXCEPT ![s] = v]
  BY Names DEF Chain!Serve, Chain!At, Chain!Request
<1> HIDE DEF c, s
<1>2. c \in Contexts /\ context[c].owner = s
  BY <1>1 DEF Owned
<1>3. /\ ctx \in Contexts1 /\ ctx.owner = context[c].owner /\ ctx.chain = context[c].chain
      /\ ctx.index = context[c].index
  BY <1>2 DEF ChainShaped, Contexts1
<1>4. /\ v \in Traces /\ v.sent /\ v.begun = trace[s].begun /\ v.at = trace[s].at /\ v.chain = trace[s].chain
      /\ v.ran = trace[s].ran /\ v.foreign = trace[s].foreign /\ v.passed = trace[s].passed /\ v.late = trace[s].late
      /\ v.panicked = trace[s].panicked /\ v.refused = trace[s].refused /\ v.failed = trace[s].failed
  BY <1>1 DEF ChainShaped, Traces
<1> HIDE DEF ctx, v
<1>5. ChainShaped'
  BY <1>1, <1>2, <1>3, <1>4 DEF ChainShaped
<1>6. /\ context'[c] = ctx /\ trace'[s] = v
      /\ \A x \in Contexts : x # c => context'[x] = context[x]
      /\ \A r \in Requests : r # s => trace'[r] = trace[r]
  BY <1>1, <1>2 DEF ChainShaped
<1>7. \A r \in Requests :
          /\ trace'[r].begun = trace[r].begun /\ trace'[r].at = trace[r].at /\ trace'[r].chain = trace[r].chain
          /\ trace'[r].ran = trace[r].ran /\ trace'[r].foreign = trace[r].foreign /\ trace'[r].late = trace[r].late
          /\ ~trace'[r].sent => r # s /\ ~trace[r].sent
          /\ r # s => trace'[r].sent = trace[r].sent
  BY <1>4, <1>6
<1>8. \A x \in Contexts :
          /\ context'[x].owner = context[x].owner /\ context'[x].chain = context[x].chain
          /\ context'[x].index = context[x].index
  BY <1>3, <1>6
(* Another request that is not answered has a Context of its own. *)
<1>9. ASSUME NEW r \in Requests, trace[r].begun, ~trace'[r].sent
      PROVE  context'[trace[r].at] = context[trace[r].at]
  <2>1. r # s /\ ~trace[r].sent
    BY <1>7, <1>9
  <2>2. context[trace[r].at].owner = r /\ trace[r].at \in Contexts
    BY <1>9, <2>1 DEF Owned
  <2>3. QED
    BY <1>2, <1>6, <2>1, <2>2
<1>10. Owned'
  <2>1. ASSUME NEW x \in Contexts, context'[x].owner # "nobody"
        PROVE  LET r == context'[x].owner IN
               trace'[r].begun /\ trace'[r].at = x /\ trace'[r].chain = context'[x].chain /\ context'[x].index > 0
    <3>1. context[x].owner \in Requests
      BY <1>8, <2>1 DEF ChainShaped, Contexts1
    <3>2. QED
      BY <1>7, <1>8, <2>1, <3>1 DEF Owned
  <2>2. ASSUME NEW r \in Requests
        PROVE  /\ Len(trace'[r].ran) = Len(trace'[r].chain)
               /\ ~trace'[r].begun => answer'[r] = <<>> /\ ~trace'[r].sent
               /\ trace'[r].begun =>
                     /\ trace'[r].at \in Contexts /\ context'[trace'[r].at].owner # "nobody"
                     /\ trace'[r].chain \in Chains[r]
                     /\ ~trace'[r].sent => context'[trace'[r].at].owner = r /\ context'[trace'[r].at].busy
    BY <1>1, <1>7, <1>8, <1>9 DEF Owned
  <2>3. ASSUME NEW r \in Requests, trace'[r].foreign PROVE \E q \in Requests \ {r} : trace'[q].late
    BY <1>7, <2>3 DEF Owned
  <2>4. ASSUME NEW u \in Threads PROVE Alternate(stack'[u]) /\ (stack'[u] # <<>> => trace'[u[1]].begun)
    BY <1>1, <1>7, Names DEF Owned
  <2>5. ASSUME NEW r \in Requests
        PROVE  /\ stack'[MainOf(r)] # <<>> => ~trace'[r].sent
               /\ stack'[ChildOf(r)] # <<>> /\ ~trace'[r].late =>
                     stack'[MainOf(r)] # <<>> /\ Top1(stack'[MainOf(r)]).pc = "wait"
    <3>1. CASE r = s
      BY <1>1, <1>7, <3>1 DEF Owned
    <3>2. CASE r # s
      BY <1>1, <1>7, <3>2 DEF Owned
    <3>3. QED
      BY <3>1, <3>2
  <2>6. QED
    BY <2>1, <2>2, <2>3, <2>4, <2>5 DEF Owned
<1>11. ASSUME NEW q \in Requests, Calm(q)'
       PROVE  Outcome(q)' /\ (up' /\ trace'[q].begun /\ ~trace'[q].sent => Working(q)')
  <2>1. Calm(q)
    BY <1>7, <1>11 DEF Calm
  <2>2. /\ trace'[q].passed = trace[q].passed /\ trace'[q].panicked = trace[q].panicked
        /\ trace'[q].refused = trace[q].refused /\ trace'[q].failed = trace[q].failed
    BY <1>4, <1>6
  <2>3. Outcome(q)'
    BY <1>1, <1>7, <2>1, <2>2, SMTT(60) DEF CalmOnes, Outcome, Clean
  <2>4. ASSUME up', trace'[q].begun, ~trace'[q].sent PROVE Working(q)'
    <3>1. Working(q) /\ trace[q].begun /\ trace'[q] = trace[q]
      BY <1>1, <1>6, <1>7, <2>1, <2>4 DEF CalmOnes
    <3>2. context'[trace[q].at] = context[trace[q].at]
      BY <1>9, <2>4, <3>1
    <3>3. QED
      BY <1>1, <3>1, <3>2 DEF Working, Live, Index, Starting, Clean
  <2>5. QED
    BY <2>3, <2>4
<1>12. QED
  BY <1>5, <1>10, <1>11 DEF ChainInv, CalmOnes

(* ServeHTTP takes a Context that nobody uses. *)
LEMMA Accepting ==
    ASSUME ChainShaped, Owned, CalmOnes, NEW r \in Requests, NEW c \in Contexts, NEW chain \in Chains[r],
           Chain!ServeHTTP(r, c, chain)
    PROVE  ChainInv'
<1> DEFINE ctx == [Chain!Unused EXCEPT !.owner = r, !.busy = TRUE, !.chain = chain, !.index = 1]
           ran == [i \in 1..Len(chain) |-> 0]
           v == [trace[r] EXCEPT !.begun = TRUE, !.at = c, !.chain = chain, !.ran = ran]
<1>1. /\ ~trace[r].begun /\ ~context[c].busy /\ UNCHANGED <<up, answer>>
      /\ context' = [context EXCEPT ![c] = ctx] /\ trace' = [trace EXCEPT ![r] = v]
      /\ stack' = [stack EXCEPT ![MainOf(r)] = <<Chain!Loop>>]
  <2>1. /\ ~trace[r].begun /\ ~context[c].busy /\ UNCHANGED <<up, answer>>
        /\ context' = [context EXCEPT ![c] = ctx]
        /\ stack' = [stack EXCEPT ![<<r, "main">>] = <<Chain!Loop>>]
        /\ trace' = [trace EXCEPT ![r].begun = TRUE, ![r].at = c, ![r].chain = chain,
                                  ![r].ran = [i \in 1..Len(chain) |-> 0]]
    BY DEF Chain!ServeHTTP
  <2>2. trace' = [trace EXCEPT ![r] = v]
    BY <2>1 DEF ChainShaped
  <2> HIDE DEF ctx, v
  <2>3. QED
    BY <2>1, <2>2 DEF MainOf
<1>2. chain \in Seq(STRING) /\ Len(chain) \in Nat /\ r # "nobody"
  BY ChainsAssumption DEF Chain!Nobody
<1>3. ran \in Seq(Nat) /\ Len(ran) = Len(chain) /\ \A i \in 1..Len(chain) : ran[i] = 0
  <2>1. ran \in Seq(Nat)
    BY <1>2, IsASeq
  <2>2. QED
    BY <1>2, <2>1
<1>4. ctx \in Contexts1 /\ ctx.owner = r /\ ctx.busy /\ ctx.chain = chain /\ ctx.index = 1 /\ ~ctx.error
  BY <1>2 DEF Chain!Unused, Contexts1
<1> HIDE DEF ran
<1>5. /\ v \in Traces /\ v.begun /\ v.at = c /\ v.chain = chain /\ v.ran = ran /\ v.sent = trace[r].sent
      /\ v.foreign = trace[r].foreign /\ v.passed = trace[r].passed /\ v.late = trace[r].late
      /\ v.panicked = trace[r].panicked /\ v.refused = trace[r].refused /\ v.failed = trace[r].failed
  BY <1>2, <1>3, ZenonT(60) DEF ChainShaped, Traces
<1> HIDE DEF ctx, v
<1>6. /\ <<Chain!Loop>> \in Seq(Frames) /\ Alternate(<<Chain!Loop>>) /\ <<Chain!Loop>> # <<>>
      /\ Top1(<<Chain!Loop>>).pc = "loop"
  <2>1. 0 \in 0..MaxRetries
    BY ChainsAssumption
  <2>2. Chain!Loop \in Frames /\ ~Chain!Loop.call /\ Chain!Loop.pc = "loop"
    BY <2>1 DEF Chain!Loop, Frames
  <2>3. QED
    BY <2>2 DEF Alternate, Top1
<1>7. ChainShaped'
  BY <1>1, <1>4, <1>5, <1>6 DEF ChainShaped
<1>8. /\ context'[c] = ctx /\ trace'[r] = v /\ stack'[MainOf(r)] = <<Chain!Loop>>
      /\ \A x \in Contexts : x # c => context'[x] = context[x]
      /\ \A q \in Requests : q # r => trace'[q] = trace[q]
      /\ \A u \in Threads : u # MainOf(r) => stack'[u] = stack[u]
  BY <1>1, Names DEF ChainShaped
<1>9. stack[MainOf(r)] = <<>> /\ stack[ChildOf(r)] = <<>> /\ answer[r] = <<>>
  BY <1>1, Names DEF Owned
<1>10. stack'[ChildOf(r)] = <<>>
  BY <1>8, <1>9, Names
(* A Context that a request still uses is not taken. *)
<1>11. ASSUME NEW q \in Requests, q # r, trace[q].begun, ~trace[q].sent
       PROVE  trace[q].at \in Contexts /\ context'[trace[q].at] = context[trace[q].at]
  BY <1>1, <1>8, <1>11, SMTT(60) DEF Owned
<1>12. Owned'
  <2>1. ASSUME NEW x \in Contexts, context'[x].owner # "nobody"
        PROVE  LET q == context'[x].owner IN
               trace'[q].begun /\ trace'[q].at = x /\ trace'[q].chain = context'[x].chain /\ context'[x].index > 0
    <3>1. CASE x = c
      BY <1>4, <1>5, <1>8, <3>1
    <3>2. CASE x # c
      <4>1. context'[x] = context[x] /\ context[x].owner \in Requests /\ trace[context[x].owner].begun
        BY <1>8, <2>1, <3>2 DEF ChainShaped, Contexts1, Owned
      <4>2. context[x].owner # r
        BY <1>1, <4>1, SMTT(60)
      <4>3. QED
        BY <1>8, <2>1, <4>1, <4>2 DEF Owned
    <3>3. QED
      BY <3>1, <3>2
  <2>2. ASSUME NEW q \in Requests
        PROVE  /\ Len(trace'[q].ran) = Len(trace'[q].chain)
               /\ ~trace'[q].begun => answer'[q] = <<>> /\ ~trace'[q].sent
               /\ trace'[q].begun =>
                     /\ trace'[q].at \in Contexts /\ context'[trace'[q].at].owner # "nobody"
                     /\ trace'[q].chain \in Chains[q]
                     /\ ~trace'[q].sent => context'[trace'[q].at].owner = q /\ context'[trace'[q].at].busy
    <3>1. CASE q = r
      BY <1>2, <1>3, <1>4, <1>5, <1>8, <3>1
    <3>2. CASE q # r
      <4>1. trace'[q] = trace[q] /\ answer'[q] = answer[q]
        BY <1>1, <1>8, <3>2
      <4>2. ASSUME trace[q].begun PROVE context'[trace[q].at].owner # "nobody"
        BY <1>2, <1>4, <1>8, <4>2 DEF Owned
      <4>3. QED
        BY <1>11, <3>2, <4>1, <4>2 DEF Owned
    <3>3. QED
      BY <3>1, <3>2
  <2>3. \A q \in Requests : trace'[q].late = trace[q].late /\ trace'[q].foreign = trace[q].foreign
                            /\ trace'[q].sent = trace[q].sent /\ (trace[q].begun => trace'[q].begun)
    BY <1>5, <1>8
  <2>4. ASSUME NEW q \in Requests, trace'[q].foreign PROVE \E p \in Requests \ {q} : trace'[p].late
    BY <2>3, <2>4 DEF Owned
  <2>5. ASSUME NEW u \in Threads PROVE Alternate(stack'[u]) /\ (stack'[u] # <<>> => trace'[u[1]].begun)
    <3>1. CASE u = MainOf(r)
      BY <1>5, <1>6, <1>8, <3>1, Names
    <3>2. CASE u # MainOf(r)
      BY <1>8, <2>3, <3>2, Names DEF Owned
    <3>3. QED
      BY <3>1, <3>2
  <2>6. ASSUME NEW q \in Requests
        PROVE  /\ stack'[MainOf(q)] # <<>> => ~trace'[q].sent
               /\ stack'[ChildOf(q)] # <<>> /\ ~trace'[q].late =>
                     stack'[MainOf(q)] # <<>> /\ Top1(stack'[MainOf(q)]).pc = "wait"
    <3>1. CASE q = r
      <4>1. ~trace[r].sent
        BY <1>1 DEF Owned
      <4>2. QED
        BY <1>10, <2>3, <3>1, <4>1
    <3>2. CASE q # r
      <4>1. stack'[MainOf(q)] = stack[MainOf(q)] /\ stack'[ChildOf(q)] = stack[ChildOf(q)]
        BY <1>8, <3>2, Names
      <4>2. QED
        BY <2>3, <4>1 DEF Owned
    <3>3. QED
      BY <3>1, <3>2
  <2>7. QED
    BY <2>1, <2>2, <2>4, <2>5, <2>6 DEF Owned
<1>13. ASSUME NEW q \in Requests, Calm(q)'
       PROVE  Outcome(q)' /\ (up' /\ trace'[q].begun /\ ~trace'[q].sent => Working(q)')
  <2>1. CASE q = r
    <3>1. /\ trace'[q].chain = chain /\ trace'[q].ran = ran /\ trace'[q].at = c /\ answer'[q] = <<>>
          /\ \A i \in 1..Len(chain) : ran[i] = 0
      BY <1>1, <1>3, <1>5, <1>8, <1>9, <2>1
    <3>2. Index(q)' = 1 /\ ~context'[c].error
      BY <1>4, <1>8, <3>1 DEF Index
    <3>3. Live(q)' = <<Chain!Loop>>
      BY <1>8, <1>10, <2>1 DEF Live
    <3>4. ~Starting(q)' /\ Top1(Live(q))'.pc = "loop"
      BY <1>6, <3>3 DEF Starting, Top1
    <3>5. Outcome(q)'
      BY <3>1 DEF Outcome
    <3>6. Working(q)'
      BY <1>2, <3>1, <3>2, <3>4 DEF Working
    <3>7. QED
      BY <3>5, <3>6
  <2>2. CASE q # r
    <3>1. trace'[q] = trace[q] /\ answer'[q] = answer[q] /\ Calm(q)
      BY <1>1, <1>8, <1>13, <2>2 DEF Calm
    <3>2. Outcome(q)'
      BY <3>1, SMTT(60) DEF CalmOnes, Outcome, Clean
    <3>3. ASSUME up', trace'[q].begun, ~trace'[q].sent PROVE Working(q)'
      <4>1. Working(q) /\ context'[trace[q].at] = context[trace[q].at]
        BY <1>1, <1>11, <2>2, <3>1, <3>3 DEF CalmOnes
      <4>2. stack'[MainOf(q)] = stack[MainOf(q)] /\ stack'[ChildOf(q)] = stack[ChildOf(q)]
        BY <1>8, <2>2, Names
      <4>3. QED
        BY <3>1, <4>1, <4>2 DEF Working, Live, Index, Starting, Clean
    <3>4. QED
      BY <3>2, <3>3
  <2>3. QED
    BY <2>1, <2>2
<1>14. QED
  BY <1>7, <1>12, <1>13 DEF ChainInv, CalmOnes

(* The middleware that catches a panic is one of the calls on the stack. *)
LEMMA Greatest == ASSUME NEW n \in Nat, NEW S \in SUBSET (1..n), S # {} PROVE \E x \in S : \A y \in S : x >= y
<1> DEFINE T == {n - x : x \in S}
<1>1. T \in SUBSET Nat /\ T # {}
  <2>1. ASSUME NEW x \in S PROVE n - x \in Nat
    OBVIOUS
  <2>2. QED
    BY <2>1
<1>2. PICK m \in T : \A k \in T : m <= k
  BY <1>1, Least
<1>3. PICK x \in S : m = n - x
  BY <1>2
<1>4. ASSUME NEW y \in S PROVE x >= y
  <2>1. n - y \in T /\ x \in Int /\ y \in Int
    <3>1. x \in 1..n /\ y \in 1..n
      OBVIOUS
    <3>2. n - y \in T
      BY <1>4
    <3>3. QED
      BY <3>1, <3>2
  <2>2. n - x <= n - y
    BY <1>2, <1>3, <2>1
  <2>3. QED
    BY <2>1, <2>2
<1>5. QED
  BY <1>4

LEMMA Catcher ==
    ASSUME NEW t \in Threads, stack[t] \in Seq(Frames)
    PROVE  LET k == Chain!Catching(t) IN k = 0 \/ (k \in 1..Len(stack[t]) /\ stack[t][k].call /\ k > 0)
<1> DEFINE I == {i \in DOMAIN stack[t] : Chain!Catches(stack[t][i])}
           k == Chain!Catching(t)
<1>1. Len(stack[t]) \in Nat /\ I \in SUBSET (1..Len(stack[t]))
  OBVIOUS
<1>2. k = CHOOSE x \in {0} \cup I : \A y \in {0} \cup I : x >= y
  BY DEF Chain!Catching, Chain!Max
<1>3. \E x \in {0} \cup I : \A y \in {0} \cup I : x >= y
  <2> HIDE DEF I
  <2>1. CASE I = {}
    BY <2>1
  <2>2. CASE I # {}
    <3>1. PICK x \in I : \A y \in I : x >= y
      BY <1>1, <2>2, Greatest
    <3>2. x >= 0 /\ x \in {0} \cup I
      BY <1>1
    <3>3. QED
      BY <3>1, <3>2
  <2>3. QED
    BY <2>1, <2>2
<1>4. k \in {0} \cup I
  <2> HIDE DEF I, k
  <2>1. QED
    BY <1>2, <1>3
<1>5. QED
  BY <1>1, <1>4 DEF Chain!Catches

(* A guard or a handler panics. *)
LEMMA Panicking ==
    ASSUME ChainShaped, Owned, CalmOnes, NEW t \in Threads, Chain!Panic(t)
    PROVE  ChainInv'
<1> DEFINE s == t[1]
           o == Chain!Owner(t)
           c == Chain!At(t)
           k == Chain!Catching(t)
           seen == Chain!Seen(t)
           v == [seen[o] EXCEPT !.panicked = TRUE]
           told == [seen EXCEPT ![o] = v]
<1>1. Chain!In(t, {"guard", "handler"}, "start")
  BY DEF Chain!Panic
<1>2. /\ up /\ stack[t] # <<>> /\ stack[t] \in Seq(Frames) /\ Alternate(stack[t])
      /\ Top1(stack[t]).pc = "start" /\ Top1(stack[t]).call
  BY <1>1, InCall, SMTT(60) DEF Calling
<1>3. /\ s \in Requests /\ o \in Requests /\ c \in Contexts /\ context[c].index \in Nat /\ Chain!Here(t) = context[c]
      /\ answer[o] \in Seq(Nat) /\ Marks(t, seen) /\ seen[o] \in Traces /\ context[c] \in Contexts1
      /\ trace[s].begun
  BY <1>2, OwnerKnown, Seeing DEF ChainShaped, Marks, Chain!Here
<1>4. k = 0 \/ (k \in 1..Len(stack[t]) /\ stack[t][k].call /\ k > 0)
  BY <1>2, Catcher
<1>5. /\ trace' = [seen EXCEPT ![o].panicked = TRUE, ![s].sent = @ \/ (k = 0 /\ Chain!Main(t))]
      /\ k > 0 => /\ stack' = [stack EXCEPT ![t] = SubSeq(@, 1, k - 1)] /\ up' = up
                   /\ answer' = [answer EXCEPT ![o] = Append(answer[o], 500)]
                   /\ \E n \in {Chain!AbortIndex, Chain!Here(t).index + 1} : context' = Chain!Move(t, n)
      /\ ~(k > 0) => up' = Chain!Main(t) /\ stack' = [stack EXCEPT ![t] = <<>>] /\ UNCHANGED <<context, answer>>
  BY DEF Chain!Panic, Chain!Write, Chain!Request
<1>6. trace' = [told EXCEPT ![s].sent = @ \/ (k = 0 /\ Chain!Main(t))]
  <2> HIDE DEF s, o, c, k, seen
  <2>1. PICK b : b = (k = 0 /\ Chain!Main(t))
    OBVIOUS
  <2>2. trace' = [seen EXCEPT ![o].panicked = TRUE, ![s].sent = @ \/ b]
    BY <1>5, <2>1
  <2>3. trace' = [told EXCEPT ![s].sent = @ \/ b]
    BY <2>2
  <2>4. QED
    BY <2>1, <2>3
<1> HIDE DEF s, o, c, k, seen
<1>7. /\ v \in Traces /\ v.panicked /\ v.begun = seen[o].begun /\ v.at = seen[o].at /\ v.chain = seen[o].chain
      /\ v.ran = seen[o].ran /\ v.sent = seen[o].sent /\ v.foreign = seen[o].foreign /\ v.passed = seen[o].passed
      /\ v.late = seen[o].late /\ v.refused = seen[o].refused /\ v.failed = seen[o].failed
  BY <1>3 DEF Traces
<1> HIDE DEF v, told
<1>8. Marks(t, told) /\ told[o] = v
  <2>1. Told(seen, o, v, told)
    BY <1>7 DEF Noted, Told, told
  <2>2. QED
    BY <1>3, <2>1, Marking DEF o, s
<1>9. told \in [Requests -> Traces] /\ told[s] \in Traces
  BY <1>3, <1>8, SMTT(60) DEF Marks
(* It is caught. *)
<1>10. CASE k > 0
  <2> DEFINE ns == SubSeq(stack[t], 1, k - 1)
  <2>1. ns \in Seq(Frames) /\ Alternate(ns) /\ ns # <<>> /\ Top1(ns).pc = "loop"
    BY <1>2, <1>4, <1>10, Cut
  <2> HIDE DEF ns
  <2>2. stack' = [stack EXCEPT ![t] = ns] /\ up' = up /\ answer' = [answer EXCEPT ![o] = Append(answer[o], 500)]
    BY <1>5, <1>10 DEF ns
  <2>3. trace' = told
    <3>1. k # 0
      BY <1>4, <1>10
    <3>2. trace' = [told EXCEPT ![s] = [told[s] EXCEPT !.sent = told[s].sent \/ FALSE]]
      BY <1>6, <3>1
    <3>3. PICK b \in BOOLEAN : b = told[s].sent
      BY <1>9 DEF Traces
    <3>4. (told[s].sent \/ FALSE) = b
      BY <3>3
    <3>5. [told[s] EXCEPT !.sent = told[s].sent \/ FALSE] = told[s]
      BY <1>9, <3>3, <3>4 DEF Traces
    <3>6. QED
      BY <1>3, <1>9, <3>2, <3>5
  <2>4. PICK n \in Nat : n \in {context[c].index + 1, Chain!AbortIndex} /\ context' = Chain!Move(t, n)
    <3>1. PICK n \in {Chain!AbortIndex, Chain!Here(t).index + 1} : context' = Chain!Move(t, n)
      BY <1>5, <1>10
    <3>2. n \in Nat
      BY <1>3, <3>1 DEF Chain!AbortIndex
    <3>3. QED
      BY <1>3, <3>1, <3>2
  <2>5. PICK ctx \in Contexts1 :
            /\ context' = [context EXCEPT ![Chain!At(t)] = ctx]
            /\ ctx.index = n /\ ctx.owner = Chain!Owner(t) /\ ctx.chain = context[Chain!At(t)].chain
            /\ ctx.busy = context[Chain!At(t)].busy /\ ctx.error = context[Chain!At(t)].error
    BY <1>2, <2>4, Moving
  <2>6. Append(answer[o], 500) \in Seq(Nat)
    BY <1>3
  <2>7. Chain!Owner(t) = t[1] => trace'[t[1]].panicked
    BY <1>7, <1>8, <2>3 DEF o
  <2>8. Left(t, ns, ctx, Append(answer[o], 500))
    BY <1>2, <1>8, <2>1, <2>2, <2>3, <2>4, <2>5, <2>6, <2>7 DEF Left, Unspoilt, o, c
  <2>9. QED
    BY <2>8, Comes
(* Nobody catches it: the connection is dropped, or the process ends. *)
<1>11. CASE ~(k > 0)
  <2> DEFINE gone == told[s].sent \/ Chain!Main(t)
  <2>1. up' = Chain!Main(t) /\ stack' = [stack EXCEPT ![t] = <<>>] /\ UNCHANGED <<context, answer>> /\ k = 0
    BY <1>4, <1>5, <1>11
  <2>2. PICK b \in BOOLEAN : b <=> gone
    OBVIOUS
  <2>3. b = gone
    BY <1>9, <2>2 DEF Traces
  <2> DEFINE w == [told[s] EXCEPT !.sent = b]
  <2>4. trace' = [told EXCEPT ![s] = w]
    BY <1>6, <2>1, <2>3
  <2> HIDE DEF gone
  <2>5. /\ w \in Traces /\ w.sent = b /\ w.begun = told[s].begun /\ w.at = told[s].at /\ w.chain = told[s].chain
        /\ w.ran = told[s].ran /\ w.foreign = told[s].foreign /\ w.passed = told[s].passed /\ w.late = told[s].late
        /\ w.panicked = told[s].panicked
    BY <1>9 DEF Traces
  <2> HIDE DEF w
  <2>6. trace' \in [Requests -> Traces] /\ trace'[s] = w /\ \A r \in Requests : r # s => trace'[r] = told[r]
    BY <1>3, <1>9, <2>4, <2>5
  <2>7. \A r \in Requests :
            /\ trace'[r].begun = trace[r].begun /\ trace'[r].at = trace[r].at /\ trace'[r].chain = trace[r].chain
            /\ trace'[r].ran = trace[r].ran /\ (trace[r].late => trace'[r].late)
            /\ (trace'[r].late => told[r].late)
            /\ trace'[r].foreign <=> trace[r].foreign \/ (r = o /\ r # s)
            /\ r # s => trace'[r].sent = trace[r].sent
            /\ r \notin {s, o} => trace'[r] = trace[r]
    BY <1>8, <2>5, <2>6 DEF Marks, o, s
  <2>8. (trace[s].sent => trace'[s].sent) /\ (trace'[s].sent <=> trace[s].sent \/ Chain!Main(t))
    <3>1. told[s].sent = trace[s].sent
      BY <1>3, <1>8 DEF Marks
    <3>2. QED
      BY <2>2, <2>5, <2>6, <3>1 DEF gone
  <2>9. /\ stack'[t] = <<>> /\ \A u \in Threads : u # t => stack'[u] = stack[u]
        /\ stack' \in [Threads -> Seq(Frames)]
    BY <2>1 DEF ChainShaped
  <2>10. up' \in BOOLEAN /\ (up' => t = MainOf(s))
    BY <2>1, Names DEF s, Chain!Main
  <2>11. ChainShaped'
    BY <2>1, <2>6, <2>9, <2>10 DEF ChainShaped
  <2>12. ASSUME t = MainOf(s), ~trace[s].late PROVE stack[ChildOf(s)] = <<>>
    BY <1>2, <1>3, <2>12 DEF Owned
  <2>13. Keeps(t)
    <3>1. \A u \in Threads : Alternate(stack'[u]) /\ (u[1] # t[1] => stack'[u] = stack[u])
      <4>1. Alternate(<<>>)
        BY DEF Alternate
      <4>2. \A u \in Threads : Alternate(stack[u])
        BY DEF Owned
      <4>3. QED
        BY <2>9, <4>1, <4>2
    <3>2. stack'[MainOf(s)] # <<>> => ~trace'[s].sent
      <4>1. stack'[MainOf(s)] # <<>> => stack[MainOf(s)] # <<>> /\ t # MainOf(s)
        BY <1>3, <2>9, Names
      <4>2. ~trace[s].sent \/ stack[MainOf(s)] = <<>>
        BY <1>3 DEF Owned
      <4>3. t # MainOf(s) => ~Chain!Main(t)
        BY Names DEF s
      <4>4. QED
        BY <2>8, <4>1, <4>2, <4>3
    <3>3. ASSUME stack'[ChildOf(s)] # <<>>, ~trace'[s].late
          PROVE  stack'[MainOf(s)] # <<>> /\ Top1(stack'[MainOf(s)]).pc = "wait"
      <4>1. t = MainOf(s) /\ ~trace[s].late
        BY <1>3, <2>7, <2>9, <3>3, Names DEF s
      <4>2. stack'[ChildOf(s)] = stack[ChildOf(s)]
        BY <1>3, <2>9, <4>1, Names
      <4>3. QED
        BY <2>12, <3>3, <4>1, <4>2
    <3>4. QED
      BY <1>3, <2>1, <2>7, <2>8, <3>1, <3>2, <3>3 DEF Keeps, s, o
  <2>14. Owned'
    BY <1>2, <2>13, OwnedKept
  <2>15. ASSUME NEW q \in Requests, Calm(q)'
         PROVE  Outcome(q)' /\ (up' /\ trace'[q].begun /\ ~trace'[q].sent => Working(q)')
    <3>1. CASE q = s /\ q = o
      <4>1. Calm(q)
        BY <2>7, <2>15 DEF Calm
      <4>2. Outcome(q)
        BY <4>1 DEF CalmOnes
      <4>3. trace'[q].panicked
        BY <1>7, <1>8, <2>5, <2>6, <3>1
      <4>4. Outcome(q)'
        BY <2>7, <4>2, <4>3 DEF Outcome, Clean
      <4>5. ~(up' /\ ~trace'[q].sent)
        BY <2>1, <2>8, <3>1
      <4>6. QED
        BY <4>4, <4>5
    <3>2. CASE ~(q = s /\ q = o)
      BY <1>2, <2>13, <2>15, <3>2, Elsewhere DEF s, o
    <3>3. QED
      BY <3>1, <3>2
  <2>16. QED
    BY <2>11, <2>14, <2>15 DEF ChainInv, CalmOnes
<1>12. QED
  BY <1>10, <1>11

LEMMA ChainStart == MCInit => ChainInv
<1>1. SUFFICES ASSUME Chain!ChainInit PROVE ChainInv
  BY DEF MCInit
<1>2. /\ up = TRUE /\ context = [c \in Contexts |-> Chain!Unused] /\ stack = [t \in Threads |-> <<>>]
      /\ answer = [r \in Requests |-> <<>>] /\ trace = [r \in Requests |-> Chain!NoTrace]
  BY <1>1 DEF Chain!ChainInit, Chain!Threads, Threads
<1>3. /\ Chain!Unused \in Contexts1 /\ Chain!Unused.owner = "nobody"
      /\ Chain!NoTrace \in Traces /\ ~Chain!NoTrace.begun /\ ~Chain!NoTrace.sent /\ ~Chain!NoTrace.foreign
      /\ Chain!NoTrace.ran = <<>> /\ Chain!NoTrace.chain = <<>>
  BY DEF Chain!Unused, Chain!NoTrace, Chain!Nobody, Contexts1, Traces
<1>4. ChainShaped
  BY <1>2, <1>3 DEF ChainShaped
<1>5. /\ \A r \in Requests : trace[r] = Chain!NoTrace /\ answer[r] = <<>>
      /\ \A t \in Threads : stack[t] = <<>>
      /\ \A c \in Contexts : context[c].owner = "nobody"
  BY <1>2, <1>3
<1>6. Alternate(<<>>)
  BY DEF Alternate
<1>7. Owned
  BY <1>3, <1>5, <1>6, Names DEF Owned
<1>8. CalmOnes
  BY <1>3, <1>5 DEF CalmOnes, Outcome
<1>9. QED
  BY <1>4, <1>7, <1>8 DEF ChainInv

LEMMA ChainStays == ChainInv /\ UNCHANGED chainVars => ChainInv'
<1>1. SUFFICES ASSUME ChainShaped, Owned, CalmOnes, UNCHANGED chainVars PROVE ChainInv'
  BY DEF ChainInv
<1>2. UNCHANGED <<up, context, stack, answer, trace>>
  BY <1>1 DEF chainVars
<1>3. ChainShaped'
  BY <1>1, <1>2 DEF ChainShaped
<1>4. Owned'
  BY <1>1, <1>2 DEF Owned
<1>5. ASSUME NEW r \in Requests, Calm(r)'
      PROVE  Outcome(r)' /\ (up' /\ trace'[r].begun /\ ~trace'[r].sent => Working(r)')
  <2>1. Outcome(r) /\ (up /\ trace[r].begun /\ ~trace[r].sent => Working(r))
    BY <1>1, <1>2, <1>5 DEF CalmOnes, Calm
  <2>2. Outcome(r)'
    BY <1>2, <2>1 DEF Outcome, Clean
  <2>3. Working(r) => Working(r)'
    BY <1>2 DEF Working, Live, Index, Starting, Clean
  <2>4. QED
    BY <1>2, <2>1, <2>2, <2>3
<1>6. QED
  BY <1>3, <1>4, <1>5 DEF ChainInv, CalmOnes

LEMMA ChainStep == ChainInv /\ Chain!ChainNext => ChainInv'
<1>1. SUFFICES ASSUME ChainShaped, Owned, CalmOnes, Chain!ChainNext PROVE ChainInv'
  BY DEF ChainInv
<1>2. ASSUME NEW r \in Requests, NEW c \in Contexts, NEW chain \in Chains[r], Chain!ServeHTTP(r, c, chain)
      PROVE  ChainInv'
  BY <1>1, <1>2, Accepting
<1>3. ASSUME NEW t \in Threads,
             \/ Chain!Step(t) \/ Chain!Serve(t) \/ Chain!GoOn(t) \/ Chain!ComeBack(t) \/ Chain!Pass(t) \/ Chain!Reject(t)
             \/ Chain!Done(t) \/ Chain!Retry(t) \/ Chain!Fallback(t) \/ Chain!AppError(t) \/ Chain!Refuse(t)
             \/ Chain!Spawn(t) \/ Chain!Join(t) \/ Chain!TimeOut(t) \/ Chain!Handle(t, 200) \/ Chain!Handle(t, 500)
             \/ Chain!LeaveError(t) \/ Chain!Panic(t)
      PROVE  ChainInv'
  BY <1>1, <1>3, Looping, Serving, Returning, Telling, GoingOn, Retrying, LeavingError, Spawning, Panicking
<1>4. QED
  BY <1>1, <1>2, <1>3 DEF Chain!ChainNext, Chain!Threads, Threads

LEMMA ChainKept == ChainInv => Chain!ChainTypeOK /\ Chain!ChainSound
<1>1. SUFFICES ASSUME ChainShaped, Owned, CalmOnes PROVE Chain!ChainTypeOK /\ Chain!ChainSound
  BY DEF ChainInv
<1>2. \A r \in Requests : /\ trace[r].ran \in Seq(Nat) /\ DOMAIN trace[r].ran = 1..Len(trace[r].chain)
                          /\ trace[r].at \in Contexts \cup {"nobody"}
  BY <1>1 DEF ChainShaped, Traces, Owned
<1>3. Chain!ChainTypeOK
  <2>1. \A c \in Contexts : context[c].owner \in Requests \cup {"nobody"}
    BY <1>1 DEF ChainShaped, Contexts1
  <2>2. ASSUME NEW t \in Threads, NEW k \in 1..Len(stack[t]) PROVE stack[t][k].tries \in 0..MaxRetries
    <3>1. stack[t] \in Seq(Frames)
      BY <1>1 DEF ChainShaped
    <3>2. stack[t][k] \in Frames
      BY <3>1, ElementOfSeq
    <3>3. QED
      BY <3>2 DEF Frames
  <2>3. QED
    BY <1>2, <2>1, <2>2 DEF Chain!ChainTypeOK, Chain!Nobody, Chain!Threads, Threads
<1>4. Chain!GuardsHold
  <2>1. ASSUME NEW r \in Requests, Chain!Undisturbed(r), ~trace[r].panicked,
               NEW i \in DOMAIN trace[r].ran, NEW j \in DOMAIN trace[r].ran,
               trace[r].chain[i] = "guard", i < j, trace[r].ran[j] > 0
        PROVE  i \in trace[r].passed
    <3>1. Outcome(r) /\ i \in 1..Len(trace[r].chain) /\ j \in 1..Len(trace[r].chain)
      BY <1>1, <1>2, <2>1 DEF Chain!Undisturbed, CalmOnes, Calm
    <3>2. QED
      BY <2>1, <3>1 DEF Outcome
  <2>2. QED
    BY <2>1 DEF Chain!GuardsHold
<1>5. Chain!HandlersRunOnce
  BY <1>1, <1>2 DEF Chain!HandlersRunOnce, Chain!Undisturbed, CalmOnes, Calm, Outcome
<1>6. Chain!OneBody
  BY <1>1 DEF Chain!OneBody, Chain!Undisturbed, CalmOnes, Calm, Outcome, Clean
<1>7. Chain!ContextsKept
  BY <1>1 DEF Owned, Chain!ContextsKept
<1>8. QED
  BY <1>3, <1>4, <1>5, <1>6, <1>7 DEF Chain!ChainSound

(* context.go:83-97, router.go:153-182: for any requests, Contexts and      *)
(* chains that end in their handler, a guard that rejects a request keeps   *)
(* it from what comes behind, no handler runs twice, a request that nothing *)
(* disturbed gets one body, and only a goroutine that was late touches the  *)
(* Context of another request.                                              *)
THEOREM ChainHolds == MCSpec => []ChainSound
<1>1. MCInit => ChainInv
  BY ChainStart
<1>2. ChainInv /\ [MCNext]_mcVars => ChainInv'
  <2>1. SUFFICES ASSUME ChainInv, [MCNext]_mcVars PROVE ChainInv'
    OBVIOUS
  <2>2. CASE Chain!ChainNext
    BY <2>1, <2>2, ChainStep
  <2>3. CASE UNCHANGED chainVars
    BY <2>1, <2>3, ChainStays
  <2>4. QED
    BY <2>1, <2>2, <2>3 DEF MCNext, mcVars, OnChain, OnGuard, OnRoutes, OnLife, OnLoad
<1>3. ChainInv => ChainSound
  BY ChainKept DEF ChainSound
<1>4. QED
  BY <1>1, <1>2, <1>3, PTL DEF MCSpec

=============================================================================
