----------------------------- MODULE Discovery ------------------------------
(***************************************************************************)
(* The instances of one service as framework/discovery/discovery.go gives  *)
(* them out: GetInstances keeps the answer of Nacos for CacheTime, and     *)
(* fetches it without a lock, so answers overtake each other.  The watch   *)
(* loop of StartWatching asks the same way, every WatchTime, and calls the *)
(* listeners when the number of instances is another one.                  *)
(*                                                                         *)
(* Ages are in ticks and stop counting where it makes no difference.       *)
(*                                                                         *)
(* The watchers of nacos.go are beside it: they share nothing, so they     *)
(* have an initial predicate and a next-state relation of their own.       *)
(***************************************************************************)
EXTENDS Integers, Sequences, FiniteSets

CONSTANTS
    Instances,
    Callers,        \* bound: calls of GetInstances at a time
    Loop,           \* the watch loop
    CacheTime,
    WatchTime,
    MaxFetch,       \* how long an answer of Nacos may be under way
    Watchers,       \* bound: calls of Watch of nacos.go
    QueueSize,      \* capacity of an event channel
    MaxVersion      \* bound: changes of the list

VARIABLES
    healthy,        \* the instances Nacos has
    cached, cacheAge, \* d.cache, and the time since lastUpdated
    dataAge,        \* history: the time since Nacos sent what is cached
    fetched, fetchAge, \* the answer a call waits for, and since when
    loop,           \* the watch loop: "wait" or "get"
    ticker,         \* the time since its last tick
    lastInstances,  \* their number
    notified        \* the number the listeners were called with last

cache == <<cached, cacheAge, dataAge>>
fetches == <<fetched, fetchAge>>
watch == <<loop, ticker, lastInstances, notified>>
vars == <<healthy, cache, fetches, watch>>

Askers == Callers \cup {Loop}
None == {"none"}
Oldest == CacheTime + MaxFetch

TypeOK ==
    /\ healthy \subseteq Instances
    /\ cached \in (SUBSET Instances) \cup {None}
    /\ cacheAge \in 0..CacheTime /\ dataAge \in 0..Oldest
    /\ fetched \in [Askers -> (SUBSET Instances) \cup {None}]
    /\ fetchAge \in [Askers -> 0..MaxFetch]
    /\ loop \in {"wait", "get"} /\ ticker \in 0..WatchTime
    /\ lastInstances \in 0..Cardinality(Instances)
    /\ notified \in 0..Cardinality(Instances)

Init ==
    /\ healthy \in SUBSET Instances
    /\ cached = None /\ cacheAge = CacheTime /\ dataAge = 0
    /\ fetched = [a \in Askers |-> None]
    /\ fetchAge = [a \in Askers |-> 0]
    /\ loop = "wait" /\ ticker = 0
    /\ lastInstances = 0 /\ notified = 0

-----------------------------------------------------------------------------
Lower(a, b) == IF a < b THEN a ELSE b
Fresh == cached # None /\ cacheAge < CacheTime
MayAsk(a) == a = Loop => loop = "get"

(* GetInstances finds no fresh answer and asks Nacos, which answers now or *)
(* fails; the answer is on its way.                                        *)
Fetch(a) ==
    /\ MayAsk(a) /\ ~Fresh /\ fetched[a] = None
    /\ fetched' = [fetched EXCEPT ![a] = healthy]
    /\ fetchAge' = [fetchAge EXCEPT ![a] = 0]
    /\ UNCHANGED <<healthy, cache, watch>>

(* What the watch loop does with the instances it got. *)
Compare(a, instances) ==
    IF a = Loop
      THEN /\ loop' = "wait"
           /\ lastInstances' = Cardinality(instances)
           /\ notified' = IF Cardinality(instances) # lastInstances
                            THEN Cardinality(instances) ELSE notified
           /\ UNCHANGED ticker
      ELSE UNCHANGED watch

Store(a) ==
    /\ fetched[a] # None
    /\ cached' = fetched[a] /\ cacheAge' = 0 /\ dataAge' = fetchAge[a]
    /\ fetched' = [fetched EXCEPT ![a] = None]
    /\ fetchAge' = [fetchAge EXCEPT ![a] = 0]
    /\ Compare(a, fetched[a])
    /\ UNCHANGED healthy

(* A request that fails with no answer matters to the watch loop only. *)
Fail(a) ==
    /\ MayAsk(a)
    /\ fetched[a] # None \/ (a = Loop /\ ~Fresh)
    /\ fetched' = [fetched EXCEPT ![a] = None]
    /\ fetchAge' = [fetchAge EXCEPT ![a] = 0]
    /\ IF a = Loop THEN loop' = "wait" /\ UNCHANGED <<ticker, lastInstances, notified>>
                   ELSE UNCHANGED watch
    /\ UNCHANGED <<healthy, cache>>

(* The watch loop gets what is cached; what a caller gets so changes       *)
(* nothing.                                                                *)
Hit ==
    /\ loop = "get" /\ Fresh /\ fetched[Loop] = None
    /\ Compare(Loop, cached)
    /\ UNCHANGED <<healthy, cache, fetches>>

WatchTick ==
    /\ loop = "wait" /\ ticker = WatchTime
    /\ loop' = "get" /\ ticker' = 0
    /\ UNCHANGED <<healthy, cache, fetches, lastInstances, notified>>

(* Register, Deregister or a health check of Nacos. *)
Change(i) ==
    /\ healthy' = IF i \in healthy THEN healthy \ {i} ELSE healthy \cup {i}
    /\ UNCHANGED <<cache, fetches, watch>>

(* Time passes no further than the time-out of the HTTP client. *)
Tick ==
    /\ \A a \in Askers : fetched[a] # None => fetchAge[a] < MaxFetch
    /\ cacheAge' = Lower(cacheAge + 1, CacheTime)
    /\ dataAge' = IF cached = None THEN 0 ELSE Lower(dataAge + 1, Oldest)
    /\ fetchAge' = [a \in Askers |->
                        IF fetched[a] = None THEN 0 ELSE fetchAge[a] + 1]
    /\ ticker' = Lower(ticker + 1, WatchTime)
    /\ UNCHANGED <<healthy, cached, fetched, loop, lastInstances, notified>>

Next ==
    \/ \E a \in Askers : Fetch(a) \/ Store(a) \/ Fail(a)
    \/ Hit \/ WatchTick \/ Tick
    \/ \E i \in Instances : Change(i)

Ends(a) == Store(a) \/ Fail(a)
Asks == Hit \/ Fetch(Loop)

(* Time passes, calls end, the watch loop runs, and Nacos answers it now   *)
(* and then.                                                               *)
Fairness ==
    /\ WF_vars(Tick) /\ WF_vars(WatchTick)
    /\ \A a \in Askers : WF_vars(Ends(a))
    /\ SF_vars(Asks) /\ SF_vars(Store(Loop))

Spec == Init /\ [][Next]_vars /\ Fairness

-----------------------------------------------------------------------------
(* Lines 155-195: what is given out from the cache is no older than the    *)
(* time it is kept and the time its answer took, however the answers of    *)
(* concurrent calls overtake each other.                                   *)
StaleBounded == Fresh => dataAge < CacheTime + MaxFetch /\ dataAge <= cacheAge + MaxFetch

(* Lines 268-282: the number of instances that stays is the number the     *)
(* listeners were called with in the end, none being where they start.     *)
ChangesNotified ==
    \A k \in 0..Cardinality(Instances) :
        <>[](Cardinality(healthy) = k) => <>[](notified = k)

-----------------------------------------------------------------------------
(* The watchers of framework/discovery/nacos.go.  Watch gives the Nacos    *)
(* library a callback that sends on the watcher's channel, without         *)
(* waiting; Unwatch and Close close channels, and never take a callback    *)
(* back.  There is one service, and its list of instances is a number that *)
(* grows; the library calls a callback at its subscription and after every *)
(* change, one call at a time for each.                                    *)

VARIABLES
    version,        \* of the list
    subscribed,     \* whose callbacks the library has
    due,            \* whose callbacks it has yet to call
    watchers,       \* those in d.watchers
    channel,        \* of a watcher: "none", "open", "closed"
    queue,          \* the lists in a channel
    seen,           \* the last list a watcher received
    skipped,        \* history: the last list was for a channel that was full
    panicked        \* "no", "send" or "close" on a closed channel

channels == <<channel, queue>>
listVars == <<version, subscribed, due, watchers, channels, seen, skipped, panicked>>

ListsTypeOK ==
    /\ version \in 0..MaxVersion
    /\ subscribed \subseteq Watchers /\ due \subseteq subscribed
    /\ watchers \subseteq Watchers
    /\ channel \in [Watchers -> {"none", "open", "closed"}]
    /\ queue \in [Watchers -> Seq(0..version)]
    /\ \A w \in Watchers : Len(queue[w]) <= QueueSize
    /\ seen \in [Watchers -> -1..version]
    /\ skipped \in [Watchers -> BOOLEAN]
    /\ panicked \in {"no", "send", "close"}

ListsInit ==
    /\ version = 0
    /\ subscribed = {} /\ due = {} /\ watchers = {}
    /\ channel = [w \in Watchers |-> "none"]
    /\ queue = [w \in Watchers |-> <<>>]
    /\ seen = [w \in Watchers |-> -1]
    /\ skipped = [w \in Watchers |-> FALSE]
    /\ panicked = "no"

-----------------------------------------------------------------------------
(* A panic in a goroutine of the library ends the process. *)
Running == panicked = "no"

Subscribe(w) ==
    /\ Running /\ channel[w] = "none"
    /\ \/ /\ channel' = [channel EXCEPT ![w] = "open"]
          /\ subscribed' = subscribed \cup {w} /\ due' = due \cup {w}
       \/ /\ channel' = [channel EXCEPT ![w] = "closed"]
          /\ UNCHANGED <<subscribed, due>>
    /\ UNCHANGED <<version, watchers, queue, seen, skipped, panicked>>

(* Watch once it has d.mu: Close may have come and gone. *)
Enter(w) ==
    /\ Running
    /\ w \in subscribed \ watchers /\ channel[w] = "open"
    /\ watchers' = watchers \cup {w}
    /\ UNCHANGED <<version, subscribed, due, channels, seen, skipped, panicked>>

CloseChannels(ws) ==
    /\ channel' = [w \in Watchers |-> IF w \in ws THEN "closed" ELSE channel[w]]
    /\ panicked' = IF \E w \in ws : channel[w] = "closed" THEN "close" ELSE panicked

Unwatch(w) ==
    /\ Running
    /\ w \in watchers
    /\ CloseChannels({w})
    /\ watchers' = watchers \ {w}
    /\ UNCHANGED <<version, subscribed, due, queue, seen, skipped>>

CloseWatchers ==
    /\ Running
    /\ CloseChannels(watchers)
    /\ watchers' = {}
    /\ UNCHANGED <<version, subscribed, due, queue, seen, skipped>>

(* The list of instances changes. *)
ChangeList ==
    /\ Running /\ version < MaxVersion
    /\ version' = version + 1
    /\ due' = subscribed
    /\ UNCHANGED <<subscribed, watchers, channels, seen, skipped, panicked>>

Callback(w) ==
    LET full == Len(queue[w]) = QueueSize IN
    /\ Running /\ w \in due
    /\ due' = due \ {w}
    /\ IF channel[w] = "closed"
         THEN panicked' = "send" /\ UNCHANGED <<queue, skipped>>
         ELSE /\ queue' = [queue EXCEPT ![w] = IF full THEN @ ELSE Append(@, version)]
              /\ skipped' = [skipped EXCEPT ![w] = full]
              /\ UNCHANGED panicked
    /\ UNCHANGED <<version, subscribed, watchers, channel, seen>>

(* The application receives what is in the channel. *)
Receive(w) ==
    /\ Running /\ queue[w] # <<>>
    /\ seen' = [seen EXCEPT ![w] = Head(queue[w])]
    /\ queue' = [queue EXCEPT ![w] = Tail(@)]
    /\ UNCHANGED <<version, subscribed, due, watchers, channel, skipped, panicked>>

ListsNext ==
    \/ \E w \in Watchers : \/ Subscribe(w) \/ Enter(w) \/ Unwatch(w)
                           \/ Callback(w) \/ Receive(w)
    \/ CloseWatchers \/ ChangeList

-----------------------------------------------------------------------------
(* No channel is closed twice, by Unwatch and by Close in any order.       *)
ClosedOnce == panicked # "close"

(* A watcher that has received everything has the list as it is, unless a  *)
(* call is still due, or the last found the channel full (line 346).       *)
SeesTheLatest ==
    \A w \in subscribed :
        channel[w] = "open" /\ queue[w] = <<>> /\ w \notin due /\ ~skipped[w]
            => seen[w] = version

(* Lists come in the order in which they were current. *)
InOrder ==
    \A w \in Watchers : \A i \in DOMAIN queue[w] :
        (IF i = 1 THEN seen[w] ELSE queue[w][i - 1]) <= queue[w][i]

(* nacos.go:256-350: what a watcher can rely on. *)
WatchersSound == ClosedOnce /\ SeesTheLatest /\ InOrder
=============================================================================
