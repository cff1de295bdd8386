-------------------------------- MODULE Guards --------------------------------
(***************************************************************************)
(* What the middlewares of framework/middleware decide by: the history of  *)
(* addresses that all RateLimit middlewares share, a bucket per address,   *)
(* tokens that are revoked while others are checking them, sessions, and   *)
(* the checks that only read the request.                                  *)
(*                                                                         *)
(* The parts share nothing; each is a record and has a next-state relation *)
(* of its own.                                                             *)
(***************************************************************************)
EXTENDS Integers, FiniteSets, FiniteSetsExt

CONSTANTS
    Callers,                \* goroutines
    Ips, Limiters,          \* addresses; the middlewares RateLimit(limit, window)
    Limit, Window,          \* of each
    Keep,                   \* the five minutes of rateLimitCleanup
    Rate,                   \* tokens of a bucket
    Tokens, Ids,            \* JWT tokens; session ids
    Life,                   \* of a token, of a session and of the CSRF cookie
    Visits,                 \* the requests a browser sends
    MaxTime,                \* bounds: of the clocks (Keep + 1 for RateLimit's),
    MaxMade, MaxSessions    \* of buckets and of sessions made

VARIABLES
    history,        \* the shards of RateLimit
    buckets,        \* IPBasedRateLimiter
    jwt,            \* the tokens and JWTBlacklist
    sessions,       \* SessionManager
    browser         \* one client of the checks that only read the request

guardVars == <<history, buckets, jwt, sessions, browser>>

Made == 1..MaxMade
Moments == 1..Keep + 1      \* of RateLimit's clock
Never == [t \in Moments |-> 0]
Nothing == 0

GuardsInit ==
    /\ history = [now |-> 1, ips |-> [ip \in Ips |-> Never], black |-> {}, earned |-> {},
                  admitted |-> [l \in Limiters |-> [ip \in Ips |-> Never]]]
    /\ buckets = [limits |-> [ip \in Ips |-> Nothing], tokens |-> [b \in Made |-> 0], made |-> 0, swept |-> 0,
                  call |-> [c \in Callers |-> [pc |-> "idle", ip |-> Nothing, bucket |-> Nothing]]]
    /\ jwt = [now |-> 1, dies |-> [t \in Tokens |-> Nothing], black |-> [t \in Tokens |-> Nothing], revoked |-> {}, ever |-> {},
              call |-> [c \in Callers |-> [pc |-> "idle", token |-> Nothing, out |-> "none", sure |-> FALSE]]]
    /\ sessions = [now |-> 1, map |-> [i \in Ids |-> Nothing], last |-> [s \in 1..MaxSessions |-> 0], made |-> 0, gone |-> {},
                   call |-> [c \in Callers |-> [pc |-> "idle", id |-> Nothing, session |-> Nothing, out |-> Nothing, gone |-> {}]]]
    /\ browser = [now |-> 1, cookie |-> Nothing, page |-> FALSE, out |-> "none"]

-----------------------------------------------------------------------------
(* RateLimit(limit, window): what is in the window is counted, whichever    *)
(* middleware let it in, and what is not in this window is forgotten.  An   *)
(* address has a number of requests at each moment.                         *)

Fresh(ip, age) == [t \in Moments |-> IF history.now - t < age THEN history.ips[ip][t] ELSE 0]

Count(l, ip) == MapThenSumSet(LAMBDA t : Fresh(ip, Window[l])[t], Moments)

RateLimit(l, ip) ==
    /\ ip \notin history.black
    /\ IF Count(l, ip) >= Limit[l]
       THEN /\ Count(l, ip) >= 2 * Limit[l]
            /\ history' = [history EXCEPT !.black = @ \cup {ip}, !.earned = @ \cup {ip}]
       ELSE history' = [history EXCEPT !.ips[ip] = [Fresh(ip, Window[l]) EXCEPT ![history.now] = @ + 1],
                                       !.admitted[l][ip][history.now] = @ + 1]
RateLimitCleanup == history' = [history EXCEPT !.ips = [ip \in Ips |-> Fresh(ip, Keep)]]
SetBlackIPs == \E list \in SUBSET Ips : history' = [history EXCEPT !.black = @ \cup list]
HistoryTick == history.now <= Keep /\ history' = [history EXCEPT !.now = @ + 1]

HistoryNext ==
    \/ \E l \in Limiters, ip \in Ips : RateLimit(l, ip)
    \/ RateLimitCleanup \/ SetBlackIPs \/ HistoryTick

(* A middleware whose window is the shortest of all, and no longer than     *)
(* what the cleanup keeps, lets at most its limit in within any window.     *)
Shortest(l) == Window[l] <= Keep /\ \A k \in Limiters : Window[l] <= Window[k]
WindowsKept ==
    \A l \in Limiters, ip \in Ips, s \in Moments : Shortest(l) =>
        MapThenSumSet(LAMBDA t : history.admitted[l][ip][t], {t \in Moments : s <= t /\ t < s + Window[l]})
            <= Limit[l]

(* An address is put on the list for good only when others than the         *)
(* middleware that does it have let it in: alone none sees twice its limit. *)
BlackEarned ==
    \A ip \in history.earned : \E l, k \in Limiters :
        l # k /\ history.admitted[k][ip] # Never /\ Limit[l] < Limit[k]

-----------------------------------------------------------------------------
(* IPBasedRateLimiter.Allow looks under the read lock, makes a bucket under *)
(* the write lock after looking again, and takes a token from whatever it   *)
(* found; the sweep drops full buckets, whose goroutines go on refilling.   *)

InAllow(c, pc) == buckets.call[c].pc = pc
FindBucket(c, ip) ==
    /\ InAllow(c, "idle")
    /\ buckets' = [buckets EXCEPT !.call[c] = [pc |-> IF buckets.limits[ip] = Nothing THEN "make" ELSE "take",
                                               ip |-> ip, bucket |-> buckets.limits[ip]]]
MakeBucket(c) ==
    LET ip == buckets.call[c].ip
        b == buckets.made + 1
    IN
    /\ InAllow(c, "make") /\ b \in Made
    /\ buckets' = IF buckets.limits[ip] # Nothing
                  THEN [buckets EXCEPT !.call[c].bucket = buckets.limits[ip], !.call[c].pc = "take"]
                  ELSE [buckets EXCEPT !.made = b, !.tokens[b] = Rate, !.limits[ip] = b,
                                       !.call[c].bucket = b, !.call[c].pc = "take"]
TakeToken(c) ==
    LET b == buckets.call[c].bucket IN
    /\ InAllow(c, "take")
    /\ buckets' = [buckets EXCEPT !.tokens[b] = IF @ > 0 THEN @ - 1 ELSE @,
                                  !.call[c] = [pc |-> "idle", ip |-> Nothing, bucket |-> Nothing]]
Refill(b) ==
    /\ b <= buckets.made /\ buckets.tokens[b] < Rate
    /\ buckets' = [buckets EXCEPT !.tokens[b] = @ + 1]
SweepBuckets ==
    LET full == {ip \in Ips : buckets.limits[ip] # Nothing /\ buckets.tokens[buckets.limits[ip]] = Rate} IN
    /\ full # {}
    /\ buckets' = [buckets EXCEPT !.limits = [ip \in Ips |-> IF ip \in full THEN Nothing ELSE @[ip]],
                                  !.swept = @ + Cardinality(full)]

BucketsNext ==
    \/ \E c \in Callers : (\E ip \in Ips : FindBucket(c, ip)) \/ MakeBucket(c) \/ TakeToken(c)
    \/ \E b \in Made : Refill(b)
    \/ SweepBuckets

(* rate_limiter.go:112-129: however many callers meet an address for the    *)
(* first time at once, it gets one bucket; another only after a sweep.      *)
OneBucketEach ==
    /\ buckets.made = buckets.swept + Cardinality({ip \in Ips : buckets.limits[ip] # Nothing})
    /\ \A c, d \in Callers :
        LET x == buckets.call[c] y == buckets.call[d] IN
        x.pc = "take" /\ y.pc = "take" /\ x.ip = y.ip /\ x.bucket # y.bucket => buckets.swept > 0

-----------------------------------------------------------------------------
(* JWTAuth: the blacklist is read, an entry whose time is over is removed   *)
(* by a second call of the map, and the token is parsed.                    *)

Valid(t) == jwt.dies[t] # Nothing /\ jwt.now < jwt.dies[t]

GenerateToken(t) ==
    /\ jwt.dies[t] = Nothing
    /\ jwt' = [jwt EXCEPT !.dies[t] = jwt.now + Life]
RefreshToken(t, new) ==
    /\ Valid(t) /\ jwt.dies[new] = Nothing
    /\ jwt' = [jwt EXCEPT !.dies[new] = jwt.now + Life]

(* Revoked: for the rest of the token's life, and once. *)
RevokeToken(t, span) ==
    /\ jwt.dies[t] # Nothing
    /\ jwt' = [jwt EXCEPT !.black[t] = jwt.now + span, !.ever = @ \cup {t},
                          !.revoked = IF t \notin jwt.ever /\ jwt.now + span >= jwt.dies[t] THEN @ \cup {t} ELSE @ \ {t}]

Refused == [pc |-> "idle", token |-> Nothing, out |-> "refused", sure |-> FALSE]
Checking(c, pc) == jwt.call[c].pc = pc
ReadBlacklistOnly(c, t) ==
    /\ Checking(c, "idle")
    /\ jwt' = [jwt EXCEPT !.call[c] = [pc |-> "parse", token |-> t, out |-> "none", sure |-> t \in jwt.revoked]]
IsTokenRevoked(c, t) ==
    LET expiry == jwt.black[t]
        on(pc, out) == [pc |-> pc, token |-> t, out |-> out, sure |-> t \in jwt.revoked]
    IN
    /\ Checking(c, "idle")
    /\ jwt' = [jwt EXCEPT !.call[c] = IF expiry = Nothing THEN on("parse", "none")
                                      ELSE IF jwt.now > expiry THEN on("drop", "none")
                                      ELSE Refused]
DropExpired(c) ==
    /\ Checking(c, "drop")
    /\ jwt' = [jwt EXCEPT !.black[jwt.call[c].token] = Nothing, !.call[c].pc = "parse"]
ParseToken(c) ==
    /\ Checking(c, "parse")
    /\ jwt' = [jwt EXCEPT !.call[c] = IF Valid(@.token) THEN [@ EXCEPT !.pc = "idle", !.token = Nothing, !.out = "user"]
                                      ELSE Refused]

(* OptionalJWT sets the user of a token that parses, revoked or not.        *)
OptionalJWT(c, t) ==
    /\ Checking(c, "idle")
    /\ jwt' = [jwt EXCEPT !.call[c] = [pc |-> "idle", token |-> Nothing, sure |-> FALSE, out |-> IF Valid(t) THEN "user" ELSE "guest"]]

(* RoleAuth asks what JWTAuth has put into the Context. *)
RoleAuth(c, allowed) ==
    /\ Checking(c, "idle") /\ jwt.call[c].out \in {"user", "guest"}
    /\ jwt' = [jwt EXCEPT !.call[c].out = IF jwt.call[c].out = "user" /\ allowed THEN "let_in" ELSE "refused"]
JwtTick == jwt.now < MaxTime /\ jwt' = [jwt EXCEPT !.now = @ + 1]

JwtNext ==
    \/ \E t \in Tokens :
        \/ GenerateToken(t)
        \/ \E new \in Tokens : RefreshToken(t, new)
        \/ \E span \in {1, Life} : RevokeToken(t, span)
    \/ \E c \in Callers :
        \/ \E t \in Tokens : IsTokenRevoked(c, t) \/ OptionalJWT(c, t)
        \/ DropExpired(c) \/ ParseToken(c)
        \/ \E allowed \in BOOLEAN : RoleAuth(c, allowed)
    \/ JwtTick

(* jwt.go:103-173: a token revoked for the rest of its life, and only once, *)
(* is not accepted by a check that begins afterwards, whatever others do to *)
(* the blacklist meanwhile.  (A second revocation may be deleted by a check *)
(* that found the first had expired.)                                       *)
RevokedRefused ==
    \A c \in Callers : jwt.call[c].sure => jwt.call[c].out \notin {"user", "let_in"}

-----------------------------------------------------------------------------
(* SessionManager: GetSession reads the map, asks the session whether it is *)
(* active, and touches it or deletes whatever has its id by then.           *)

Active(s) == sessions.now - sessions.last[s] < Life
Removed(ids) == {sessions.map[i] : i \in ids} \ {Nothing}
Without(ids) == [sessions EXCEPT !.map = [i \in Ids |-> IF i \in ids THEN Nothing ELSE @[i]],
                                 !.gone = @ \cup Removed(ids)]

CreateSession(i) ==
    LET s == sessions.made + 1 IN
    /\ s <= MaxSessions
    /\ sessions' = [sessions EXCEPT !.made = s, !.map[i] = s, !.last[s] = sessions.now, !.gone = @ \cup Removed({i})]
DeleteSession(i) == sessions.map[i] # Nothing /\ sessions' = Without({i})
ClearExpiredSessions ==
    LET expired == {i \in Ids : sessions.map[i] # Nothing /\ ~Active(sessions.map[i])} IN
    /\ expired # {}
    /\ sessions' = Without(expired)

InGet(c, pc) == sessions.call[c].pc = pc
ReadSession(c, i) ==
    /\ InGet(c, "idle")
    /\ sessions' = [sessions EXCEPT !.call[c] = [pc |-> IF sessions.map[i] = Nothing THEN "idle" ELSE "check", id |-> i,
                                                 session |-> sessions.map[i], out |-> Nothing, gone |-> sessions.gone]]
IsActive(c) ==
    /\ InGet(c, "check")
    /\ sessions' = [sessions EXCEPT !.call[c].pc = IF Active(sessions.call[c].session) THEN "touch" ELSE "delete"]
Touch(c) ==
    LET s == sessions.call[c].session IN
    /\ InGet(c, "touch")
    /\ sessions' = [sessions EXCEPT !.last[s] = sessions.now, !.call[c].pc = "idle", !.call[c].out = s]
DropSession(c) ==
    /\ InGet(c, "delete")
    /\ sessions' = [Without({sessions.call[c].id}) EXCEPT !.call[c].pc = "idle"]
SessionTick == sessions.now < MaxTime /\ sessions' = [sessions EXCEPT !.now = @ + 1]

SessionsNext ==
    \/ \E i \in Ids : CreateSession(i) \/ DeleteSession(i)
    \/ ClearExpiredSessions
    \/ \E c \in Callers : (\E i \in Ids : ReadSession(c, i)) \/ IsActive(c) \/ Touch(c) \/ DropSession(c)
    \/ SessionTick

(* session_manager.go:77-95: a call gets no session that was logged out,    *)
(* replaced or swept before the call began, and a session that has left the *)
(* map never comes back under any id, late touches and deletions included.  *)
LoggedOutGone ==
    /\ \A c \in Callers : sessions.call[c].out \notin sessions.call[c].gone
    /\ \A i \in Ids : sessions.map[i] \notin sessions.gone

-----------------------------------------------------------------------------
(* The checks that only read the request.  A visit says how its path,       *)
(* method, origin, address and content look to them, and which token it     *)
(* echoes: none, that of the cookie, or another.                            *)

Safe(v) == v.method \in {"GET", "OPTIONS"}

(* EnvironmentMiddleware, where an application has it. *)
ValidateOrigin(v) == v.origin \in {"none", "desktop", "allowed"}
ValidateIP(v) == v.ip = "white"
Environment(v, env) ==
    CASE env = "none" -> Nothing
      [] env = "dev" -> IF v.method = "OPTIONS" THEN 200 ELSE Nothing
      [] env = "prod" -> IF ValidateOrigin(v) /\ ValidateIP(v) THEN Nothing ELSE 403

(* SecurityMiddleware looks at the query, the form of what is not GET, and  *)
(* the user agent.                                                          *)
Security(v) == IF ~v.internal /\ (v.threat \in {"query", "agent"} \/ (v.threat = "form" /\ v.method = "POST")) THEN 400 ELSE Nothing

(* CSRF: a browser without the cookie is given one. *)
HasCookie == browser.cookie # Nothing /\ browser.now - browser.cookie < Life
CSRF(v) == IF ~v.internal /\ ~Safe(v) /\ ~(v.echo = "own" /\ HasCookie) THEN 403 ELSE Nothing
RequestSizeLimit(v) == IF v.big THEN 413 ELSE Nothing
CORS(v) == IF v.origin # "none" /\ v.method = "OPTIONS" THEN 204 ELSE Nothing
HMACSign(v) == IF v.signed = "none" \/ v.signed = "late" \/ v.signed = "wrong" THEN 401 ELSE Nothing

(* The guards of a chain, in order; the first that answers aborts it. *)
Verdicts(v, env, api) == <<Environment(v, env), Security(v), CSRF(v), RequestSizeLimit(v), CORS(v),
                           IF api THEN HMACSign(v) ELSE Nothing>>
FirstAnswer(verdicts) ==
    LET answers == {i \in DOMAIN verdicts : verdicts[i] # Nothing} IN
    IF answers = {} THEN "handled" ELSE IF Min(answers) = 3 THEN "no_token" ELSE "refused"

Visit(v, env, api) ==
    LET verdicts == Verdicts(v, env, api) IN
    browser' = [browser EXCEPT
        !.out = FirstAnswer(verdicts),
        !.page = Safe(v) /\ ~v.internal /\ FirstAnswer(verdicts) = "handled",
        !.cookie = IF v.internal \/ HasCookie \/ \E i \in 1..2 : verdicts[i] # Nothing THEN @ ELSE browser.now]
BrowserTick == browser.now < MaxTime /\ browser' = [browser EXCEPT !.now = @ + 1, !.page = FALSE, !.out = "none"]
BrowserNext ==
    \/ \E v \in Visits, env \in {"none", "dev", "prod"}, api \in BOOLEAN : Visit(v, env, api)
    \/ BrowserTick

(* middleware.go:154-208: whoever has just been shown a page has a token in *)
(* its cookie that the next form may echo.                                  *)
PagesCarryToken == browser.page => HasCookie

(* Password policies, and bcrypt's cost in a hash. *)
Allows(policy, p) ==
    /\ p.length >= policy.min /\ (policy.max > 0 => p.length <= policy.max)
    /\ policy.required \subseteq p.classes
DefaultPasswordPolicy == [min |-> 8, max |-> 128, required |-> {"upper", "lower", "number"}]
StrongPasswordPolicy == [min |-> 12, max |-> 128, required |-> {"upper", "lower", "number", "special"}]
PasswordStrength(p) == p.length >= 8 /\ {"upper", "lower", "number"} \subseteq (p.classes \cap p.ascii)
HashCost(cost) == IF cost \in 4..31 THEN cost ELSE 10
NeedsRehash(hashed, target) == hashed # target

Passwords == [length : {7, 8, 11, 12, 128}, classes : SUBSET {"upper", "lower", "number", "special"},
              ascii : SUBSET {"upper", "lower", "number"}]
(* security/password.go: what is strong is allowed, what PasswordStrength   *)
(* of the middlewares takes is allowed too, and a hash made at an allowed   *)
(* cost is not made again.                                                  *)
PoliciesAgree ==
    /\ \A p \in Passwords : Allows(StrongPasswordPolicy, p) \/ PasswordStrength(p) => Allows(DefaultPasswordPolicy, p)
    /\ \A cost \in 4..31 : ~NeedsRehash(HashCost(cost), cost)

-----------------------------------------------------------------------------
GuardsTypeOK ==
    /\ history.now \in Moments /\ \A ip \in Ips : history.ips[ip] \in [Moments -> Nat]
    /\ \A b \in Made : buckets.tokens[b] \in 0..Rate
    /\ \A t \in Tokens : jwt.dies[t] \in 0..MaxTime + Life
    /\ sessions.made \in 0..MaxSessions
    /\ browser.cookie \in 0..MaxTime

LimitsKept == WindowsKept /\ BlackEarned /\ OneBucketEach
ChecksAgree == PagesCarryToken /\ PoliciesAgree

=============================================================================
