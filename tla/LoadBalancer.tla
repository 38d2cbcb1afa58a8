---------------------------- MODULE LoadBalancer ----------------------------
(***************************************************************************)
(* common/LoadBalancer.cpp: a balancer picks one of the instances of a     *)
(* service.  A behaviour is that of one balancer that is kept, as the      *)
(* tests keep it, while instances come, go and change their weights;       *)
(* IBusNet::sendMsgTo makes a new one for every message.                   *)
(***************************************************************************)
EXTENDS Integers, SequencesExt

CONSTANTS
    Ids,          \* instances
    Weights,      \* what they may weigh
    Metrics,      \* connections, latency or load; 0 is an unknown latency
    Hash,         \* Hash[k]: std::hash of key k
    MaxChanges,   \* bound: changes of the instances
    Cycle         \* a multiple of every length that idx_ is divided by

\* The sum of the numbers f[i]: how many pairs there are of an i and one of 1 .. f[i].
Units(f, S) == UNION {{i} \X (1 .. f[i]) : i \in S}
Sum(f, S) == Cardinality(Units(f, S))

ASSUME BalancerAssumption ==
    /\ IsFiniteSet(Ids) /\ Weights \subseteq Nat
    /\ Cycle \in Nat \ {0}
    /\ \A S \in (SUBSET Ids) \ {{}} :
         /\ Cycle % Cardinality(S) = 0
         /\ \A w \in [S -> (Weights \ {0}) \cup {1}] : Cycle % Sum(w, S) = 0

Rotating == {"round_robin", "weighted_rr", "smooth_weighted"}
Least == {"least_conn", "latency_aware", "least_load"}
Policies == Rotating \cup Least \cup {"most_load", "weighted_load", "cons_hash"}
NoInstance == "none"

VARIABLES
    policy,       \* the balancer
    instances,    \* the map, in the order of its iteration
    weight,
    idx,          \* idx_, modulo Cycle
    nodes,        \* nodes_: current and effective_weight
    metric,       \* the figures of the last pick
    picked,       \* the last pick
    picks,        \* history: the picks since the last change or full turn
    even,         \* history: nothing changed while a node was owed a pick, and no
                  \* node has changed its weight
    changes

balancerVars == <<policy, instances, weight, idx, nodes, metric, picked, picks, even, changes>>

Members == ToSet(instances)

BalancerInit ==
    /\ policy \in Policies
    /\ instances = << >>
    /\ weight \in [Ids -> Weights]
    /\ idx = 0 /\ nodes = << >>
    /\ metric = [i \in Ids |-> 0] /\ picked = NoInstance
    /\ picks = [i \in Ids |-> 0] /\ even = TRUE
    /\ changes = 0

-----------------------------------------------------------------------------
(* The instances, as the routing table gives them.                          *)

AtRest == \A i \in DOMAIN nodes : nodes[i].current = 0

\* The map may be iterated in any order after a change.
ChangeInstances ==
    /\ changes < MaxChanges /\ changes' = changes + 1
    /\ \/ \E S \in SUBSET Ids \ {Members} : instances' \in SetToSeqs(S) /\ UNCHANGED weight
       \/ \E i \in Members, w \in Weights :
              weight' = [weight EXCEPT ![i] = w] /\ instances' \in SetToSeqs(Members)
    /\ even' = (even /\ AtRest /\ \A i \in DOMAIN nodes : weight'[i] = weight[i])
    /\ picks' = [i \in Ids |-> 0]
    /\ UNCHANGED <<policy, idx, nodes, metric, picked>>

-----------------------------------------------------------------------------
(* select of each balancer.                                                 *)

Weighs(i) == IF weight[i] = 0 THEN 1 ELSE weight[i]

\* What a full turn is to give an instance: what it weighs.  round_robin gives one each.
Share(i) == IF policy \in {"weighted_rr", "smooth_weighted"} THEN Weighs(i) ELSE 1

\* What the balancer gives it: the smooth one keeps the weight the node came with.
Counted(i) == IF policy = "smooth_weighted" /\ i \in DOMAIN nodes THEN nodes[i].effective
              ELSE Share(i)

Turn == Sum([i \in Members |-> Counted(i)], Members)

Pick(i) ==
    LET done == [picks EXCEPT ![i] = @ + 1]
    IN  /\ picked' = i
        /\ picks' = IF Sum(picks, Ids) = Turn THEN [j \in Ids |-> IF j = i THEN 1 ELSE 0] ELSE done
        /\ UNCHANGED <<policy, instances, weight, even, changes>>

\* fetch_add, and a walk to that place of the map.
RoundRobin ==
    /\ policy = "round_robin" /\ instances # << >>
    /\ idx' = (idx + 1) % Cycle
    /\ Pick(instances[(idx % Len(instances)) + 1])
    /\ UNCHANGED <<nodes, metric>>

Times(i, n) == [k \in 1 .. n |-> i]
Wheel == FlattenSeq([k \in DOMAIN instances |-> Times(instances[k], Weighs(instances[k]))])

\* Mutant of the next: every instance is on the wheel once.
WheelUnweighted ==
    /\ policy = "weighted_rr" /\ instances # << >>
    /\ idx' = (idx + 1) % Cycle
    /\ Pick(instances[(idx % Len(instances)) + 1])
    /\ UNCHANGED <<nodes, metric>>

WeightedRR ==
    /\ policy = "weighted_rr" /\ instances # << >>
    /\ idx' = (idx + 1) % Cycle
    /\ Pick(Wheel[(idx % Len(Wheel)) + 1])
    /\ UNCHANGED <<nodes, metric>>

\* nodes_ after its update: new nodes are added, those that have gone are erased.  The
\* effective_weight of a node that stays is kept, whatever it weighs now.
Updated == [i \in Members |-> IF i \in DOMAIN nodes THEN nodes[i]
                              ELSE [current |-> 0, effective |-> Weighs(i)]]

\* Every node gains its weight; the first of the greatest, in the order of nodes_, which
\* is not that of the instances, is picked and pays for all.
SmoothWeightedRR ==
    /\ policy = "smooth_weighted" /\ instances # << >>
    /\ LET gained == [i \in Members |-> Updated[i].current + Updated[i].effective]
           total == Sum([i \in Members |-> Updated[i].effective], Members)
       IN  \E best \in Members :
               /\ \A i \in Members : gained[i] <= gained[best]
               /\ nodes' = [i \in Members |->
                              [current |-> gained[i] - (IF i = best THEN total ELSE 0),
                               effective |-> Updated[i].effective]]
               /\ Pick(best)
    /\ UNCHANGED <<idx, metric>>

\* Unknown latency counts as very high.
Cost(i, m) == IF policy = "latency_aware" /\ m[i] = 0 THEN 1000 ELSE m[i]

\* The loops that keep the first best: the least, or the most with a sign of -1.
Best(m, sign) ==
    FoldLeft(LAMBDA best, i :
                 IF best = NoInstance \/ sign * Cost(i, m) < sign * Cost(best, m) THEN i ELSE best,
             NoInstance, instances)

Extreme ==
    /\ policy \in Least \cup {"most_load"} /\ instances # << >>
    /\ metric' \in [Ids -> Metrics]
    /\ Pick(Best(metric', IF policy = "most_load" THEN -1 ELSE 1))
    /\ UNCHANGED <<idx, nodes>>

\* A roll of the dice over the loads: every instance weighs 1 at least.
WeightedLoad ==
    /\ policy = "weighted_load" /\ instances # << >>
    /\ \E i \in Members : Pick(i)
    /\ UNCHANGED <<idx, nodes, metric>>

\* Without a key a fresh round robin is asked: the first.
ConsistentHash ==
    /\ policy = "cons_hash" /\ instances # << >>
    /\ \/ \E k \in DOMAIN Hash : Pick(instances[(Hash[k] % Len(instances)) + 1])
       \/ Pick(instances[1])
    /\ UNCHANGED <<idx, nodes, metric>>

\* Round robin with a key looks it up; and all of them answer nothing when there is nobody.
Nobody ==
    /\ instances = << >> \/ (policy = "round_robin" /\ Members # Ids)
    /\ picked' = NoInstance
    /\ UNCHANGED <<policy, instances, weight, idx, nodes, metric, picks, even, changes>>

Lookup ==
    /\ policy = "round_robin"
    /\ \E i \in Members : picked' = i
    /\ UNCHANGED <<policy, instances, weight, idx, nodes, metric, picks, even, changes>>

BalancerNext ==
    \/ ChangeInstances
    \/ RoundRobin \/ WeightedRR \/ SmoothWeightedRR \/ Extreme \/ WeightedLoad \/ ConsistentHash
    \/ Nobody \/ Lookup

BalancerSpec == BalancerInit /\ [][BalancerNext]_balancerVars

-----------------------------------------------------------------------------
\* Over a full turn with the same instances weighted_rr and smooth_weighted pick every one
\* of them as often as it weighs, and round_robin picks it once, wherever the turn begins.
\* Of smooth_weighted it is said as long as no node has changed its weight, which it does not
\* follow (WeightsFollow), and none has come or gone while another was owed a pick.
Shares ==
    policy \in Rotating /\ Sum(picks, Ids) = Turn /\ even
        => \A i \in Members : picks[i] = Share(i)

\* LoadBalancer.cpp:127: each pick brings the nodes up to date, "new or of a changed weight".
WeightsFollow ==
    [][SmoothWeightedRR => \A i \in Members : nodes'[i].effective = Weighs(i)]_balancerVars
=============================================================================
