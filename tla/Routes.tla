-------------------------------- MODULE Routes --------------------------------
(***************************************************************************)
(* The tables of routes of framework/mvc and framework/radixtree.  Router  *)
(* keeps static patterns in a map and the others in a RadixTree, which     *)
(* looks into a static child and nowhere else; TrieRouter looks            *)
(* everywhere.  Routes are added one at a time, to both; what a request    *)
(* finds depends on what was added before, and in which order.             *)
(*                                                                         *)
(* A pattern is a sequence of segments, a path a sequence of names.  The   *)
(* chain of a route is the number of its registration, with the global     *)
(* middlewares there were at that time and the rule it was given.          *)
(***************************************************************************)
EXTENDS Integers, Sequences, FiniteSets, TLC

CONSTANTS
    Methods,
    Patterns,       \* sequences of [kind : {"static", "param", "any"}, name : ...]; "any" comes last
    Paths,          \* of requests
    Fit,            \* the names that every rule accepts
    Rules,          \* of RouteRuleBuilder.When: "none", "id", "regex", "enum"
    MaxRoutes       \* bound: registrations and calls of Use

VARIABLES
    uses,           \* the number of global middlewares
    added,          \* history: the routes, in the order they were added
    cache,          \* RadixTree: the static routes, pattern -> method -> chain
    radix, trie     \* the two trees: node -> [name, chains]

routeVars == <<uses, added, cache, radix, trie>>

Static(name) == [kind |-> "static", name |-> name]
Dynamic(pattern) == \E i \in DOMAIN pattern : pattern[i].kind # "static"
NoChain == 0
NoChains == [m \in Methods |-> NoChain]

(* A node is the way to it: of parameters, and of wildcards, a node has one *)
(* child, named by the first pattern that came by.                          *)
Slot(s) == IF s.kind = "static" THEN s ELSE [kind |-> s.kind, name |-> "?"]
Way(pattern) == [i \in DOMAIN pattern |-> Slot(pattern[i])]
Root == <<>>
Node(name) == [name |-> name, chains |-> NoChains, raw |-> FALSE]

RoutesInit ==
    /\ uses = 0
    /\ added = <<>>
    /\ cache = [w \in {} |-> NoChains]
    /\ radix = Root :> Node("/")
    /\ trie = Root :> Node("/")

-----------------------------------------------------------------------------
(* insert, and AddRoute of TrieRouter: the nodes on the way, then the chain *)
(* in the last.  The wildcard of RadixTree takes the chain itself where the *)
(* search expects a map from methods.                                       *)

GrownAnew(tree, pattern) ==
    LET ways == {SubSeq(Way(pattern), 1, i) : i \in 1..Len(pattern)} IN
    [w \in DOMAIN tree \cup ways |-> IF w \in ways THEN Node(pattern[Len(w)].name) ELSE tree[w]]
Grown(tree, pattern) ==
    LET ways == {SubSeq(Way(pattern), 1, i) : i \in 1..Len(pattern)} IN
    [w \in DOMAIN tree \cup ways |-> IF w \in DOMAIN tree THEN tree[w] ELSE Node(pattern[Len(w)].name)]

Wildcard(pattern) == pattern[Len(pattern)].kind = "any"
Insert(tree, method, pattern, chain) ==
    LET w == Way(pattern) IN
    IF Wildcard(pattern) THEN [Grown(tree, pattern) EXCEPT ![w].raw = TRUE]
    ELSE [Grown(tree, pattern) EXCEPT ![w].chains[method] = chain]
AddToTrie(tree, method, pattern, chain) == [Grown(tree, pattern) EXCEPT ![Way(pattern)].chains[method] = chain]
AddToCache(method, pattern, chain) ==
    [w \in DOMAIN cache \cup {pattern} |->
        IF w # pattern THEN cache[w]
        ELSE [(IF w \in DOMAIN cache THEN cache[w] ELSE NoChains) EXCEPT ![method] = chain]]

AddRoute(method, pattern, rule) ==
    LET chain == Len(added) + 1 IN
    /\ chain + uses <= MaxRoutes
    /\ added' = Append(added, [method |-> method, pattern |-> pattern, rule |-> rule, uses |-> uses])
    /\ IF Dynamic(pattern)
       THEN radix' = Insert(radix, method, pattern, chain) /\ UNCHANGED cache
       ELSE cache' = AddToCache(method, pattern, chain) /\ UNCHANGED radix
    /\ trie' = AddToTrie(trie, method, pattern, chain)
    /\ UNCHANGED uses
Use ==
    /\ Len(added) + uses < MaxRoutes
    /\ uses' = uses + 1
    /\ UNCHANGED <<added, cache, radix, trie>>

RoutesNext == Use \/ \E m \in Methods, p \in Patterns, rule \in Rules : AddRoute(m, p, rule)

-----------------------------------------------------------------------------
(* search and matchRecursive: a chain, and the parameters bound on the way; *)
(* a name that stands for two segments is bound to the later one.           *)

NotFound == [chain |-> NoChain, params |-> {}]
Found(chain, params) == IF chain = NoChain THEN NotFound ELSE [chain |-> chain, params |-> params]
ParamSlot == [kind |-> "param", name |-> "?"]
AnySlot == [kind |-> "any", name |-> "?"]
Bind(tree, node, params, i) == {p \in params : p[1] # tree[node].name} \cup {<<tree[node].name, i>>}

(* RadixTree goes down from segment to segment and never comes back: on     *)
(* says that it still has a node.                                           *)
Start == [on |-> TRUE, node |-> Root, params |-> {}]
Down(at, name, i) ==
    LET static == Append(at.node, Static(name))
        param == Append(at.node, ParamSlot)
    IN
    IF ~at.on THEN at
    ELSE IF static \in DOMAIN radix THEN [at EXCEPT !.node = static]
    ELSE IF param \in DOMAIN radix THEN [at EXCEPT !.node = param, !.params = Bind(radix, param, @, i)]
    ELSE [at EXCEPT !.on = FALSE]
Search(method, path) ==
    LET at[i \in 0..Len(path)] == IF i = 0 THEN Start ELSE Down(at[i - 1], path[i], i)
        end == at[Len(path)]
    IN
    IF end.on THEN Found(radix[end.node].chains[method], end.params) ELSE NotFound

Get(method, path) ==
    LET p == [i \in DOMAIN path |-> Static(path[i])] IN
    IF p \in DOMAIN cache /\ cache[p][method] # NoChain
    THEN [chain |-> cache[p][method], params |-> {}]
    ELSE Search(method, path)

(* TrieRouter tries what is below a node, so what it binds further up must  *)
(* not replace what is bound below.                                         *)
BindAbove(node, found, i) ==
    IF found.chain = NoChain \/ \E p \in found.params : p[1] = trie[node].name THEN found
    ELSE [found EXCEPT !.params = @ \cup {<<trie[node].name, i>>}]
MatchRecursive(method, path) ==
    LET below[node \in DOMAIN trie] ==
            LET i == Len(node) + 1
                static == Append(node, Static(path[i]))
                param == Append(node, ParamSlot)
                any == Append(node, AnySlot)
                byStatic == IF static \in DOMAIN trie THEN below[static] ELSE NotFound
                byParam == IF param \in DOMAIN trie THEN BindAbove(param, below[param], i) ELSE NotFound
                byAny == IF any \in DOMAIN trie
                         THEN BindAbove(any, Found(trie[any].chains[method], {}), i) ELSE NotFound
            IN
            IF i > Len(path) THEN Found(trie[node].chains[method], {})
            ELSE IF byStatic.chain # NoChain THEN byStatic
            ELSE IF byParam.chain # NoChain THEN byParam
            ELSE byAny
    IN below[Root]
Match(method, path) == MatchRecursive(method, path)

(* Register: the middleware that checks the rule asks the Context for the   *)
(* value of its field, here the first parameter of the route's own pattern, *)
(* and lets the request pass when there is none.  A predefined rule asks    *)
(* only whether its expression compiles.                                    *)
Field(pattern) ==
    LET slots == {i \in DOMAIN pattern : pattern[i].kind = "param"}
    IN pattern[CHOOSE i \in slots : \A j \in slots : i <= j].name
Value(found, path, field) == {path[p[2]] : p \in {q \in found.params : q[1] = field}}
Validates(rule, values) == rule \in {"none", "id"} \/ values \subseteq Fit
Handled(method, path) ==
    LET found == Get(method, path)
        route == added[found.chain]
    IN
    /\ found.chain # NoChain
    /\ \/ \A i \in DOMAIN route.pattern : route.pattern[i].kind # "param"
       \/ Validates(route.rule, Value(found, path, Field(route.pattern)))

-----------------------------------------------------------------------------
(* What the tables should find. *)

Fits(pattern, path) ==
    \/ Len(pattern) = Len(path) /\ \A i \in DOMAIN path : pattern[i] = Static(path[i]) \/ pattern[i].kind = "param"
    \/ /\ Wildcard(pattern) /\ Len(pattern) <= Len(path)
       /\ \A i \in 1..Len(pattern) - 1 : pattern[i] = Static(path[i]) \/ pattern[i].kind = "param"
Fitting(method, path) == {n \in DOMAIN added : added[n].method = method /\ Fits(added[n].pattern, path)}
Newest(n) == \A k \in n + 1..Len(added) : added[k].method = added[n].method => Way(added[k].pattern) # Way(added[n].pattern)

(* Whether a static child of another pattern, of any method, stands in the  *)
(* way: the search has gone into it and does not come back.                 *)
InTheWay(n, path) ==
    \E k \in DOMAIN added : Dynamic(added[k].pattern) /\ \E i \in DOMAIN path :
        /\ i <= Len(added[k].pattern) /\ i <= Len(added[n].pattern)
        /\ SubSeq(Way(added[k].pattern), 1, i - 1) = SubSeq(Way(added[n].pattern), 1, i - 1)
        /\ added[n].pattern[i].kind # "static" /\ added[k].pattern[i] = Static(path[i])

(* radixtree.go: what is found fits and is the newest of its kind; a route  *)
(* that fits is found, unless it ends in a wildcard or a static segment of  *)
(* another stands in its way, or another that fits was found instead.       *)
RadixFinds ==
    \A m \in Methods, path \in Paths :
        LET found == Get(m, path).chain IN
        /\ found # NoChain => found \in Fitting(m, path) /\ Newest(found)
        /\ found = NoChain => \A n \in Fitting(m, path) : Wildcard(added[n].pattern) \/ InTheWay(n, path)

(* trie_router.go:41-159: a chain is found whenever a route fits, and it is *)
(* the newest of its kind.                                                  *)
TrieFinds ==
    \A m \in Methods, path \in Paths :
        LET found == Match(m, path).chain IN
        /\ found = NoChain <=> Fitting(m, path) = {}
        /\ found # NoChain => found \in Fitting(m, path) /\ Newest(found)

(* radixtree.go:50-95, 125-181: a parameter of what is found is bound to    *)
(* the last segment that stands for its name, and the names are those that  *)
(* the first pattern to come by has given, whichever pattern is found.      *)
Makes(n, w) ==
    Dynamic(added[n].pattern) /\ \E i \in DOMAIN added[n].pattern : SubSeq(Way(added[n].pattern), 1, i) = w
FirstName(w) ==
    added[CHOOSE n \in DOMAIN added : Makes(n, w) /\ \A k \in 1..n - 1 : ~Makes(k, w)].pattern[Len(w)].name
ParamsBound ==
    \A m \in Methods, path \in Paths :
        LET found == Get(m, path)
            way == Way(added[found.chain].pattern)
        IN
        found.chain # NoChain =>
            LET slots == {i \in DOMAIN way : way[i] = ParamSlot}
                name(i) == FirstName(SubSeq(way, 1, i))
            IN
            found.params = {<<name(i), i>> : i \in {j \in slots : \A k \in slots : k > j => name(k) # name(j)}}

(* route_rule.go:96-182: a route whose rule says which values it takes does *)
(* not handle another, unless an older pattern has given the parameter      *)
(* another name, so that the rule finds no value, or the name stands for a  *)
(* later segment as well.                                                   *)
RulesChecked ==
    \A m \in Methods, path \in Paths :
        Handled(m, path) =>
            LET found == Get(m, path)
                route == added[found.chain]
                slots == {i \in DOMAIN route.pattern : route.pattern[i].kind = "param"}
                name(i) == FirstName(SubSeq(Way(route.pattern), 1, i))
            IN
            \A i \in slots :
                \/ route.rule \notin {"regex", "enum"} \/ path[i] \in Fit
                \/ name(i) # Field(route.pattern) \/ \E j \in slots : j > i /\ name(j) = name(i)

RoutesSound == RadixFinds /\ TrieFinds /\ ParamsBound /\ RulesChecked
=============================================================================
