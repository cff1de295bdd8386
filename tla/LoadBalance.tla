---------------------------- MODULE LoadBalance -----------------------------
(***************************************************************************)
(* Three balancers of framework/loadbalance/balancer.go: round robin,      *)
(* weighted round robin and least connections.  Select is given the list   *)
(* of instances each time, leaves out those that are not alive, and takes  *)
(* its decision under the balancer's mutex or with one atomic addition.    *)
(* What a balancer remembers of an instance it remembers by its place in   *)
(* the list of those alive (weighted) or by its address (least             *)
(* connections).  The balancers by chance and by hash remember nothing.    *)
(***************************************************************************)
EXTENDS Integers, Sequences, FiniteSetsExt

CONSTANTS
    N,              \* the instances are 1..N, in the order of the list
    MaxWeight,
    Users,
    Cycle           \* where index starts again: a multiple of every size of the list

VARIABLES
    strategy,
    weight, up,     \* of the instances, and which are alive
    index,
    currentWeights,
    connectionCounts,
    using,          \* the instance a user has a connection with, or 0
    turns, chosen,  \* history: selections, and whose, since the last change
    mixed           \* history: weights are left of another list

config == <<strategy, weight>>
balance == <<index, currentWeights, connectionCounts>>
history == <<turns, chosen, mixed>>
vars == <<config, up, balance, using, history>>

AllInstances == 1..N
Size == Cardinality(up)
AliveInstances ==
    CHOOSE list \in [1..Size -> up] : \A j, k \in 1..Size : j < k => list[j] < list[k]
(* Sizes divide Cycle, so k % Size is that of the int64 of the code. *)
At(k) == AliveInstances[(k % Size) + 1]

TypeOK ==
    /\ strategy \in {"round_robin", "weighted_round_robin", "least_connection"}
    /\ weight \in [AllInstances -> 0..MaxWeight]
    /\ up \subseteq AllInstances
    /\ index \in 0..Cycle - 1
    /\ currentWeights \in Seq(Int) /\ Len(currentWeights) <= N
    /\ connectionCounts \in [AllInstances -> Nat]
    /\ using \in [Users -> 0..N]
    /\ chosen \in [AllInstances -> Nat] /\ mixed \in BOOLEAN

Nobody == [i \in AllInstances |-> 0]

Init ==
    /\ strategy \in {"round_robin", "weighted_round_robin", "least_connection"}
    /\ weight \in IF strategy = "weighted_round_robin"
                    THEN [AllInstances -> 0..MaxWeight] ELSE {[i \in AllInstances |-> 1]}
    /\ up = AllInstances
    /\ index = 0 /\ currentWeights = <<>> /\ connectionCounts = Nobody
    /\ using = [u \in Users |-> 0]
    /\ turns = 0 /\ chosen = Nobody /\ mixed = FALSE

-----------------------------------------------------------------------------
TotalWeight == MapThenSumSet(LAMBDA i : weight[i], up)
Weighted == strategy = "weighted_round_robin" /\ TotalWeight > 0

(* What an instance is due of the selections of one round. *)
Share(i) == IF Weighted THEN weight[i] ELSE 1
Round == IF Weighted THEN TotalWeight ELSE Size

(* The history of a selection; a round that is complete is forgotten. *)
Chosen(i) ==
    LET fresh == turns = Round IN
    /\ turns' = IF fresh THEN 1 ELSE turns + 1
    /\ chosen' = [(IF fresh THEN Nobody ELSE chosen) EXCEPT ![i] = @ + 1]

(* The list is another one: an instance has died or is back. *)
Change(i) ==
    /\ up' = IF i \in up THEN up \ {i} ELSE up \cup {i}
    /\ turns' = 0 /\ chosen' = Nobody
    /\ mixed' = (currentWeights # [j \in DOMAIN currentWeights |-> 0])
    /\ UNCHANGED <<config, balance, using>>

SelectNext ==
    /\ strategy = "round_robin" /\ up # {}
    /\ index' = (index + 1) % Cycle
    /\ Chosen(At(index'))
    /\ UNCHANGED <<config, up, currentWeights, connectionCounts, using, mixed>>

(* The first of the highest. *)
Highest(weights) ==
    CHOOSE j \in DOMAIN weights : \A k \in DOMAIN weights :
        weights[k] < weights[j] \/ (weights[k] = weights[j] /\ j <= k)

(* Another number of instances makes the balancer forget its weights; with *)
(* no weight at all it goes round.                                         *)
SelectWeighted ==
    LET kept == Len(currentWeights) = Size
        weights == IF kept THEN currentWeights ELSE [j \in 1..Size |-> 0]
        raised == [j \in 1..Size |-> weights[j] + weight[AliveInstances[j]]]
        best == Highest(raised)
        turn == IF kept THEN index ELSE 0
    IN
    /\ strategy = "weighted_round_robin" /\ up # {}
    /\ IF TotalWeight > 0
         THEN /\ currentWeights' = [raised EXCEPT ![best] = @ - TotalWeight]
              /\ index' = turn
              /\ Chosen(AliveInstances[best])
         ELSE /\ currentWeights' = weights
              /\ index' = (turn + 1) % Size
              /\ Chosen(At(turn))
    /\ mixed' = (kept /\ mixed)
    /\ UNCHANGED <<config, up, connectionCounts, using>>

SelectLeast(u) ==
    LET least == CHOOSE i \in up : \A j \in up :
                    \/ connectionCounts[i] < connectionCounts[j]
                    \/ connectionCounts[i] = connectionCounts[j] /\ i <= j
    IN
    /\ strategy = "least_connection" /\ up # {}
    /\ using[u] = 0
    /\ connectionCounts' = [connectionCounts EXCEPT ![least] = @ + 1]
    /\ using' = [using EXCEPT ![u] = least]
    /\ UNCHANGED <<config, up, index, currentWeights, history>>

(* mutant: the connection is given back to a living instance only *)
ReleaseToLiving(u) ==
    /\ using[u] # 0
    /\ connectionCounts' = [connectionCounts EXCEPT ![using[u]] =
                                IF using[u] \in up THEN @ - 1 ELSE @]
    /\ using' = [using EXCEPT ![u] = 0]
    /\ UNCHANGED <<config, up, index, currentWeights, history>>

(* The instance may have died meanwhile. *)
ReleaseConnection(u) ==
    /\ using[u] # 0
    /\ connectionCounts' = [connectionCounts EXCEPT ![using[u]] =
                                IF @ > 0 THEN @ - 1 ELSE @]
    /\ using' = [using EXCEPT ![u] = 0]
    /\ UNCHANGED <<config, up, index, currentWeights, history>>

Next ==
    \/ \E i \in AllInstances : Change(i)
    \/ SelectNext \/ SelectWeighted
    \/ \E u \in Users : SelectLeast(u) \/ ReleaseConnection(u)

Spec == Init /\ [][Next]_vars

-----------------------------------------------------------------------------
(* A complete round has given everyone alive its share (round robin from   *)
(* any index, weighted from weights of no other list); before its end no   *)
(* weighted instance is a whole selection ahead of its share, and so none  *)
(* is behind it by more than the others together can be ahead.             *)
FairRounds == ~mixed =>
    /\ turns = Round => \A i \in up : chosen[i] = Share(i)
    /\ Weighted => \A i \in up :
          LET due == turns * weight[i] - chosen[i] * TotalWeight IN
          -TotalWeight < due /\ due <= (Size - 1) * (TotalWeight - 1)

(* The weights add up to nothing, whatever lists they are of, so none can  *)
(* be starved by weights that are left over.                               *)
WeightsCancel ==
    MapThenSumSet(LAMBDA j : currentWeights[j], DOMAIN currentWeights) = 0

(* The counts are those of the connections, of dead instances too. *)
CountsRight ==
    \A i \in AllInstances : connectionCounts[i] = Cardinality({u \in Users : using[u] = i})

(* balancer.go:98-155, 287-344: the balancers are fair while the list      *)
(* stays, and remember nothing wrong when it changes.                      *)
BalancersFair == FairRounds /\ WeightsCancel /\ CountsRight
=============================================================================
