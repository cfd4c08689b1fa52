---------------------------- MODULE MCSequence ----------------------------
(* Small instances of Sequence, and the planner against its reference.       *)
EXTENDS Sequence
SE == INSTANCE SequencesExt

(* Every dependency relation without a cycle, up to the order of the tasks. *)
Acyclic(S) == {g \in [S -> SUBSET S] : \A t \in S : \A d \in g[t] : d < t}
(* Those of three tasks with two waves at least, up to the names of tasks.   *)
ThreeTaskGraphs ==
  {g \in Acyclic(Task) : g[2] # {} \/ g[3] = {1, 2}}

Command(scope, attached, resume) ==
  [scope |-> scope, from |-> 1, through |-> 0, resume |-> resume,
   attached |-> attached, stop |-> TRUE, force |-> TRUE]
Whole == {Command(Task, a, r) : a \in BOOLEAN, r \in BOOLEAN}
AllCommands ==
  Whole
  \cup {[Command(Task, TRUE, FALSE) EXCEPT !.stop = FALSE]}
  \cup {[Command(PendingScope, TRUE, r) EXCEPT !.force = FALSE] : r \in BOOLEAN}
  \cup {[Command(Task \ {1}, FALSE, FALSE) EXCEPT !.through = 1]}

---------------------------------------------------------------------------
(* The planner on every graph of four tasks, every overlap of three and      *)
(* every number of lanes.                                                    *)
Nodes == 1..4
Symmetric(S) == {o \in SUBSET (S \X S) : \A p \in o : <<p[2], p[1]>> \in o /\ p[1] # p[2]}

(* The reference: the wave of a task is the length of the longest chain of   *)
(* dependencies that ends in it.                                             *)
ChainEnds(g, n) == [t \in DOMAIN g |->
  Cardinality({i \in 1..n : \E c \in [1..i -> DOMAIN g] :
    c[i] = t /\ \A j \in 1..(i - 1) : c[j] \in g[c[j + 1]]})]

(* topoWaves: each wave takes what the waves before it unblock, and nothing  *)
(* else.                                                                     *)
ASSUME WavesByLongestChain ==
  \A g \in Acyclic(Nodes) :
    LET kahn == TopoWaves(g) depth == ChainEnds(g, 4)
    IN  /\ kahn.remaining = {}
        /\ \A w \in DOMAIN kahn.waves : kahn.waves[w] # {}
        /\ UNION SE!ToSet(kahn.waves) = Nodes
        /\ \A w \in DOMAIN kahn.waves, t \in Nodes :
             t \in kahn.waves[w] <=> depth[t] = w

(* buildPlan throws on a cycle before topoWaves may leave tasks over:        *)
(* "Unexpected remaining nodes after topo sort" cannot be reached.           *)
ASSUME CycleIsAllThatRemains ==
  \A g \in [1..3 -> SUBSET (1..3)] : HasCycle(g) <=> TopoWaves(g).remaining # {}

(* assignLanesToWaves: the lanes of the ticks partition the wave, each in    *)
(* task order, on at most maxParallel lanes; a virtual lane is in one tick;  *)
(* and tasks that overlap are apart only when the later one overlaps an      *)
(* earlier lane, too.                                                        *)
LanesAreSound(overlap, p, excess) ==
  LET wave == 1..3
      lanes == VirtualLanes(wave, overlap)
      ticks == Ticks(wave, overlap, p, excess)
      slots == {<<k, l>> : k \in DOMAIN ticks, l \in 1..p}
      At(t) == {s \in slots : t \in SE!ToSet(ticks[s[1]][s[2]])}
      VirtualOf(t) == CHOOSE i \in DOMAIN lanes : t \in SE!ToSet(lanes[i])
  IN  /\ \A t \in wave : Cardinality(At(t)) = 1
      /\ \A s \in slots : LET q == ticks[s[1]][s[2]] IN
           SE!ToSet(q) \subseteq wave /\ \A i, j \in DOMAIN q : i < j => q[i] < q[j]
      /\ \A t, u \in wave : VirtualOf(t) = VirtualOf(u) => At(t) = At(u)
      /\ \A t, u \in wave : t < u /\ <<t, u>> \in overlap /\ VirtualOf(t) # VirtualOf(u)
           => \E v \in wave : v < u /\ <<v, u>> \in overlap /\ VirtualOf(v) < VirtualOf(t)
ASSUME LanesPartition ==
  \A o \in Symmetric(1..3), p \in 1..3, x \in BOOLEAN : LanesAreSound(o, p, x)

(* docs/EXECUTION-FLOW.md and the warning of waves.mjs say that tasks whose  *)
(* file scopes overlap are serialized: not when one overlaps two lanes.      *)
ASSUME OverlapMayRunInParallel ==
  LET overlap == {<<1, 3>>, <<3, 1>>, <<2, 3>>, <<3, 2>>}
      ticks == Ticks(1..3, overlap, 2, TRUE)
  IN  <<2, 3>> \in WaveOverlaps(1..3, overlap) /\ ticks = << << <<1, 3>>, <<2>> >> >>

(* What module LaneScheduler assumes of a plan is true of every plan.        *)
ASSUME PlansAreSchedulable ==
  \A g \in Acyclic(1..3), p \in 1..2, x \in BOOLEAN :
    LET waves == Waves(g, 1..3) plan3 == PlanWaves(waves, {}, p, x)
    IN  /\ Len(plan3) > 0
        /\ \A w \in DOMAIN plan3 : Len(plan3[w]) > 0
             /\ \A k \in DOMAIN plan3[w] :
                  /\ plan3[w][k] \in [1..p -> Seq(waves[w])]
                  /\ \A l \in 1..p :
                       Cardinality(SE!ToSet(plan3[w][k][l])) = Len(plan3[w][k][l])
             /\ \A t \in waves[w] : g[t] \subseteq UNION {waves[v] : v \in 1..(w - 1)}

(* canStartMultiTaskBatch lets no plan of several waves start without an     *)
(* explicit scope.                                                           *)
ASSUME ImplicitIsOneWave ==
  \A g \in Acyclic(1..3) :
    CanStartBatch(Waves(g, 1..3), {}, FALSE) <=> \A t \in 1..3 : g[t] = {}
=============================================================================
