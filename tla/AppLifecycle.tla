----------------------------- MODULE AppLifecycle -----------------------------
(***************************************************************************)
(* The life of the process: main.go calls Initialize and Run of            *)
(* framework/app, Run starts the gRPC server and the shutdown in           *)
(* goroutines of their own, and the process is gone when main returns,     *)
(* whatever the goroutines are doing.  The ports are checked by            *)
(* framework/port before, and everything else is asked for the settings    *)
(* of a configuration centre (framework/config): NacosConfig swaps the     *)
(* whole of what it keeps, ApolloConfig and Config merge.                  *)
(***************************************************************************)
EXTENDS Integers, Sequences, FiniteSets, FiniteSetsExt

CONSTANTS
    Ports,          \* "http" and "grpc", and others of config.GetAllPorts
    Keys, Values,   \* of the configuration
    MaxRounds,      \* bound: the rounds CheckAndKill waits
    MaxCalls,       \* bound: requests in progress, of HTTP and of gRPC
    MaxVersions     \* bound: versions of the configuration that are published

VARIABLES
    app,            \* the main goroutine and the one of gracefulShutdown
    open,           \* what Initialize has opened and not closed
    port,           \* of each port: who listens on it
    grpc,           \* the gRPC server, with its mutex
    calls,          \* requests in progress
    center          \* the configuration centre and two clients

appVars == <<app, open, port, grpc, calls>>
lifeVars == <<appVars, center>>

Services == <<"db", "rabbitmq", "redis", "nacos", "log">>   \* in the order they are closed
Absent == 0

LifeInit ==
    /\ app = [alive |-> TRUE, main |-> "check", left |-> Ports, killing |-> "none", rounds |-> 0, asked |-> {"db", "rabbitmq", "redis", "nacos"},
              signal |-> FALSE, quit |-> "none", timedOut |-> FALSE, served |-> FALSE, hooks |-> <<>>]
    /\ open = {"log"}
    /\ port \in [Ports -> {"free", "other"}]
    /\ grpc = [start |-> "none", state |-> "off", mu |-> FALSE, late |-> FALSE]
    /\ calls = [http |-> 0, grpc |-> 0]
    /\ center = [server |-> << [k \in Keys |-> Absent] >>, nacos |-> 1, behind |-> FALSE, load |-> Absent, changes |-> 0,
                 merged |-> [k \in Keys |-> Absent], poll |-> Absent, told |-> {}, closed |-> FALSE]

Main(at) == app.alive /\ app.main = at
Quit(at) == app.alive /\ app.quit = at
Goes(at) == app' = [app EXCEPT !.main = at]
Quits(at) == app' = [app EXCEPT !.quit = at]
RunHooks(name) == [app EXCEPT !.hooks = Append(@, name)]
Exits == app' = [app EXCEPT !.alive = FALSE, !.main = "exited"]

-----------------------------------------------------------------------------
(* Initialize. *)

(* checkPorts: port by port in the order of a map, to the first that stays  *)
(* taken; what it finds is printed.  With auto_kill_port the process that   *)
(* listens is killed and the port looked at for some rounds.                *)
CheckPort(p, kill) ==
    /\ Main("check") /\ app.killing = "none" /\ p \in app.left
    /\ \/ /\ port[p] # "other"
          /\ app' = [app EXCEPT !.left = @ \ {p}]
          /\ UNCHANGED port
       \/ /\ port[p] = "other" /\ kill
          /\ app' = [app EXCEPT !.left = @ \ {p}, !.killing = p, !.rounds = 1]
          /\ port' \in {port, [port EXCEPT ![p] = "free"]}
       \/ /\ port[p] = "other"
          /\ app' = [app EXCEPT !.left = {}]
          /\ UNCHANGED port
    /\ UNCHANGED <<open, grpc, calls, center>>
KillRound ==
    /\ Main("check") /\ app.killing # "none"
    /\ app' = IF port[app.killing] # "other" THEN [app EXCEPT !.killing = "none", !.rounds = 0]
              ELSE IF app.rounds < MaxRounds THEN [app EXCEPT !.rounds = @ + 1]
              ELSE [app EXCEPT !.killing = "none", !.rounds = 0, !.left = {}]
    /\ UNCHANGED <<open, port, grpc, calls, center>>
Checked ==
    /\ Main("check") /\ app.left = {} /\ app.killing = "none"
    /\ Goes("connect")
    /\ UNCHANGED <<open, port, grpc, calls, center>>

(* A service that does not answer is left out, and the start goes on.       *)
Connect(s) ==
    /\ Main("connect") /\ s \in app.asked
    /\ app' = [app EXCEPT !.asked = @ \ {s}]
    /\ open' \in {open, open \cup {s}}
    /\ UNCHANGED <<port, grpc, calls, center>>
NewGrpcServer(enabled) ==
    /\ Main("connect") /\ app.asked = {}
    /\ Goes("run")
    /\ grpc' = [grpc EXCEPT !.start = IF enabled THEN "created" ELSE "none"]
    /\ UNCHANGED <<open, port, calls, center>>

-----------------------------------------------------------------------------
(* Run. *)

Run ==
    /\ Main("run")
    /\ app' = [RunHooks("starting") EXCEPT !.main = "watch"]
    /\ grpc' = [grpc EXCEPT !.start = IF @ = "created" THEN "go" ELSE @]
    /\ UNCHANGED <<open, port, calls, center>>
WatchSignals ==
    /\ Main("watch")
    /\ app' = [app EXCEPT !.main = "started", !.quit = "go"]
    /\ UNCHANGED <<open, port, grpc, calls, center>>
Started ==
    /\ Main("started")
    /\ app' = [RunHooks("started") EXCEPT !.main = "listen"]
    /\ UNCHANGED <<open, port, grpc, calls, center>>
ListenAndServe ==
    /\ Main("listen")
    /\ IF app.quit \in {"drain", "closing", "closed"} \/ port["http"] # "free"
       THEN Goes("failed") /\ UNCHANGED port
       ELSE app' = [app EXCEPT !.main = "serving", !.served = TRUE] /\ port' = [port EXCEPT !["http"] = "ours"]
    /\ UNCHANGED <<open, grpc, calls, center>>

(* Serve returns as soon as Shutdown has closed the listener, and main with *)
(* it; after an error main waits for a key first.                           *)
Return ==
    /\ \/ Main("failed")
       \/ Main("serving") /\ app.quit \in {"drain", "closing", "closed"}
    /\ Exits
    /\ UNCHANGED <<open, port, grpc, calls, center>>

-----------------------------------------------------------------------------
(* Server.Start and GracefulStop of framework/grpc. *)

GrpcListen ==
    /\ app.alive /\ grpc.start = "go" /\ ~grpc.mu
    /\ IF port["grpc"] = "free"
       THEN /\ port' = [port EXCEPT !["grpc"] = "ours"]
            /\ grpc' = [grpc EXCEPT !.start = "serve", !.state = "running", !.late = app.quit \notin {"none", "go", "grpc"}]
       ELSE /\ grpc' = [grpc EXCEPT !.start = "failed"]
            /\ UNCHANGED port
    /\ UNCHANGED <<app, open, calls, center>>
GrpcServe ==
    /\ app.alive /\ grpc.start = "serve"
    /\ grpc' = [grpc EXCEPT !.start = IF grpc.state = "running" THEN "serving" ELSE "failed"]
    /\ UNCHANGED <<app, open, port, calls, center>>
GracefulStop ==
    /\ Quit("grpc") /\ ~grpc.mu
    /\ IF grpc.state = "running"
       THEN grpc' = [grpc EXCEPT !.mu = TRUE, !.state = "stopping"] /\ UNCHANGED app
       ELSE Quits("http") /\ UNCHANGED grpc
    /\ UNCHANGED <<open, port, calls, center>>
GracefulStopped ==
    /\ Quit("grpc") /\ grpc.state = "stopping" /\ calls.grpc = 0
    /\ grpc' = [grpc EXCEPT !.mu = FALSE, !.state = "off", !.start = IF @ = "serving" THEN "stopped" ELSE @]
    /\ port' = [port EXCEPT !["grpc"] = "free"]
    /\ Quits("http")
    /\ UNCHANGED <<open, calls, center>>

-----------------------------------------------------------------------------
(* gracefulShutdown. *)

(* A signal nobody has asked for ends the process. *)
Signal ==
    /\ app.alive /\ ~app.signal
    /\ IF app.quit = "none" THEN Exits ELSE app' = [app EXCEPT !.signal = TRUE]
    /\ UNCHANGED <<open, port, grpc, calls, center>>
Stopping ==
    /\ Quit("go") /\ app.signal
    /\ app' = [RunHooks("stopping") EXCEPT !.quit = IF grpc.start = "none" THEN "http" ELSE "grpc"]
    /\ UNCHANGED <<open, port, grpc, calls, center>>
Shutdown ==
    /\ Quit("http")
    /\ Quits("drain")
    /\ port' = [port EXCEPT !["http"] = IF @ = "ours" THEN "free" ELSE @]
    /\ UNCHANGED <<open, grpc, calls, center>>
CloseEarly ==
    /\ Quit("drain")
    /\ Quits("closing")
    /\ UNCHANGED <<open, port, grpc, calls, center>>
Drained ==
    /\ Quit("drain")
    /\ app' = [app EXCEPT !.quit = "closing", !.timedOut = calls.http > 0]
    /\ UNCHANGED <<open, port, grpc, calls, center>>
CloseNext ==
    LET still == {i \in DOMAIN Services : Services[i] \in open} IN
    /\ Quit("closing")
    /\ IF still # {}
       THEN open' = open \ {Services[Min(still)]} /\ UNCHANGED app
       ELSE app' = [RunHooks("stopped") EXCEPT !.quit = "closed"] /\ UNCHANGED open
    /\ UNCHANGED <<port, grpc, calls, center>>

(* Requests come and end; each uses the database. *)
Accepts(kind) ==
    CASE kind = "http" -> app.main = "serving" /\ port["http"] = "ours"
      [] kind = "grpc" -> grpc.start = "serving" /\ grpc.state = "running"
Call(kind) ==
    /\ app.alive /\ Accepts(kind) /\ calls[kind] < MaxCalls
    /\ calls' = [calls EXCEPT ![kind] = @ + 1]
    /\ UNCHANGED <<app, open, port, grpc, center>>
Ended(kind) ==
    /\ app.alive /\ calls[kind] > 0
    /\ calls' = [calls EXCEPT ![kind] = @ - 1]
    /\ UNCHANGED <<app, open, port, grpc, center>>
(* Another process takes a port that is free. *)
TakePort(p) ==
    /\ app.alive /\ port[p] = "free" /\ app.main \in {"check", "connect"}
    /\ port' = [port EXCEPT ![p] = "other"]
    /\ UNCHANGED <<app, open, grpc, calls, center>>

AppNext ==
    \/ \E p \in Ports : TakePort(p) \/ \E kill \in BOOLEAN : CheckPort(p, kill)
    \/ KillRound \/ Checked \/ (\E s \in app.asked : Connect(s)) \/ (\E enabled \in BOOLEAN : NewGrpcServer(enabled))
    \/ Run \/ WatchSignals \/ Started \/ ListenAndServe \/ Return
    \/ GrpcListen \/ GrpcServe \/ GracefulStop \/ GracefulStopped
    \/ Signal \/ Stopping \/ Shutdown \/ Drained \/ CloseNext
    \/ \E kind \in {"http", "grpc"} : Call(kind) \/ Ended(kind)

(* app.go:599-641: the database is closed under no request, unless those of *)
(* HTTP had ten seconds, or the gRPC server came up after it was stopped.   *)
ClosedAfterUse ==
    app.quit = "closed" \/ (app.quit = "closing" /\ "db" \notin open) =>
        /\ calls.http > 0 => app.timedOut
        /\ calls.grpc > 0 => grpc.late

(* app.go:87-118, 589-642: a hook runs once, those of the start come first, *)
(* and those of the end come when everything is closed; only onStarted,     *)
(* which nothing waits for, may still come after them.                      *)
HooksInOrder ==
    /\ \A i, j \in DOMAIN app.hooks : i < j =>
        /\ app.hooks[j] \notin {"starting", app.hooks[i]}
        /\ app.hooks[i] = "stopped" => app.hooks[j] = "started"
    /\ "stopped" \in Range(app.hooks) => open = {}

(* app.go:105-109, 589-590: a process that served and was told to stop has  *)
(* closed everything, and run its last hooks, when it is gone.              *)
AllClosed ==
    ~app.alive /\ app.served /\ "stopping" \in Range(app.hooks) => open = {} /\ "stopped" \in Range(app.hooks)

-----------------------------------------------------------------------------
(* The configuration centre.  The server keeps a sequence of contents; the  *)
(* client of NacosConfig keeps the number of one, that of ApolloConfig and  *)
(* Config (which merge what they get, and never drop a key) values.         *)

Latest == Len(center.server)
Publish(content) ==
    /\ Latest < MaxVersions
    /\ center' = [center EXCEPT !.server = Append(@, content), !.changes = @ + 1]

(* NacosConfig.Load gets a content and installs it; OnChange of Watch is    *)
(* called with every content, in order, and tells listeners what differs.   *)
GetConfig == center.load = Absent /\ center' = [center EXCEPT !.load = Latest]
Install ==
    /\ center.load # Absent
    /\ center' = [center EXCEPT !.nacos = center.load, !.behind = center.load < center.nacos, !.load = Absent]
Differs(old, new) == {k \in Keys : center.server[new][k] \notin {Absent, center.server[old][k]}}
OnChange ==
    LET new == Latest - center.changes + 1 IN
    /\ center.changes > 0
    /\ center' = [center EXCEPT !.nacos = new, !.behind = FALSE, !.changes = @ - 1,
                                !.told = @ \cup {<<k, center.server[new][k]>> : k \in Differs(center.nacos, new)}]

(* ApolloConfig.Watch and Config.StartLongPolling ask again and again and   *)
(* tell every listener; Close clears what is kept, and a poll in progress   *)
(* fills it again.                                                          *)
Merge(k, new) == IF center.server[new][k] = Absent THEN center.merged[k] ELSE center.server[new][k]
Poll == center.poll = Absent /\ center' = [center EXCEPT !.poll = Latest]
Polled ==
    /\ center.poll # Absent
    /\ center' = [center EXCEPT !.merged = [k \in Keys |-> Merge(k, center.poll)], !.poll = Absent,
                                !.told = @ \cup {<<k, Merge(k, center.poll)>> : k \in {j \in Keys : Merge(j, center.poll) # Absent}}]
PublishKey(k, v) ==
    /\ Latest < MaxVersions
    /\ center' = [center EXCEPT !.server = Append(@, [j \in Keys |-> IF j = k THEN v ELSE Absent]),
                                !.changes = @ + 1, !.merged[k] = v]
DeleteKey(k) ==
    /\ Latest < MaxVersions
    /\ center' = [center EXCEPT !.server = Append(@, [j \in Keys |-> Absent]), !.changes = @ + 1, !.merged[k] = Absent]
CloseCenter == ~center.closed /\ center' = [center EXCEPT !.merged = [k \in Keys |-> Absent], !.closed = TRUE]

CenterNext ==
    /\ \/ \E content \in [Keys -> Values \cup {Absent}] : Publish(content)
       \/ GetConfig \/ Install \/ OnChange \/ Poll \/ Polled \/ CloseCenter
       \/ \E k \in Keys : DeleteKey(k) \/ \E v \in Values : PublishKey(k, v)
    /\ UNCHANGED appVars

(* apollo.go, config.go, nacos.go: nobody is told, and no client keeps, a   *)
(* value that was never published under that key; and NacosConfig is not    *)
(* behind what it was last told of, unless a Load that began before has     *)
(* ended after.                                                             *)
Published(k, v) == \E i \in 1..Latest : center.server[i][k] = v
ConfigsPublished ==
    /\ \A pair \in center.told : Published(pair[1], pair[2])
    /\ \A k \in Keys : center.merged[k] # Absent => Published(k, center.merged[k])
    /\ center.nacos >= Latest - center.changes \/ center.behind

LifeTypeOK ==
    /\ app.left \subseteq Ports /\ app.killing \in Ports \cup {"none"} /\ app.rounds \in 0..MaxRounds
    /\ open \subseteq Range(Services)
    /\ port \in [Ports -> {"free", "other", "ours"}]
    /\ calls \in [{"http", "grpc"} -> 0..MaxCalls]
    /\ center.nacos \in 1..MaxVersions

LifeSound == ClosedAfterUse /\ HooksInOrder /\ ConfigsPublished
=============================================================================
