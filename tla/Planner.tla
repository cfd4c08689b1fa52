------------------------------ MODULE Planner ------------------------------
(* The planner: src/src/planner/{index,graph,cycles,waves,wave-scope}.mjs    *)
(* and the batch scope policy of src/src/batch/engine-scope.mjs, as pure     *)
(* operators.  Tasks are numbers, in the order of compareTaskIds.  deps[t]   *)
(* are the dependencies of t as its packet names them, overlap the pairs of  *)
(* tasks whose file scopes overlap (fileScopesOverlap is symmetric).  The    *)
(* rows of a matrix are no tasks of a plan: buildPlan hands assignLanes no   *)
(* matrix columns.                                                           *)
EXTENDS Naturals, Sequences, FiniteSets
LOCAL SX == INSTANCE SequencesExt
LOCAL INSTANCE FiniteSetsExt

---------------------------------------------------------------------------
(* Waves.                                                                    *)

(* buildPlan: dependencies outside the scope are no edges of the graph. *)
Graph(deps, scope) == [t \in scope |-> deps[t] \cap scope]

(* findCyclePath finds a path that closes: a set of tasks each of which      *)
(* depends on another one of the set.                                        *)
HasCycle(graph) ==
  \E S \in SUBSET DOMAIN graph : S # {} /\ \A t \in S : graph[t] \cap S # {}

(* One turn of the loop of topoWaves: the tasks whose last dependency is in  *)
(* the current wave are the next one.                                        *)
Turn(graph, kahn) ==
  LET left == [t \in DOMAIN graph |->
                 kahn.indegree[t] - Cardinality(graph[t] \cap kahn.current)]
  IN  [indegree |-> left,
       current |-> {t \in DOMAIN graph : left[t] = 0 /\ kahn.indegree[t] > 0}]

TopoWaves(graph) ==
  LET n == Cardinality(DOMAIN graph)
      turn[i \in 0..n] ==
        IF i = 0
        THEN [indegree |-> [t \in DOMAIN graph |-> Cardinality(graph[t])],
              current |-> {t \in DOMAIN graph : graph[t] = {}}]
        ELSE Turn(graph, turn[i - 1])
      count == Cardinality({i \in 0..n : turn[i].current # {}})
  IN  [waves |-> [i \in 1..count |-> turn[i - 1].current],
       remaining |-> {t \in DOMAIN graph : turn[n].indegree[t] > 0}]

---------------------------------------------------------------------------
(* Lanes.                                                                    *)

(* findWaveFileScopeOverlaps *)
WaveOverlaps(wave, overlap) ==
  {p \in wave \X wave : p[1] < p[2] /\ p \in overlap}

TaskOverlapsLane(t, lane, overlap) == \E u \in SX!ToSet(lane) : <<t, u>> \in overlap

(* assignLanesToWaves, for one wave: a task goes to the first virtual lane   *)
(* it overlaps with, or opens one.                                           *)
Place(lanes, t, overlap) ==
  LET hits == {i \in DOMAIN lanes : TaskOverlapsLane(t, lanes[i], overlap)}
  IN  IF hits = {} THEN Append(lanes, <<t>>)
      ELSE [lanes EXCEPT ![Min(hits)] = Append(@, t)]

InOrder(wave) == SX!SetToSortSeq(wave, <)
VirtualLanes(wave, overlap) ==
  SX!FoldLeft(LAMBDA lanes, t : Place(lanes, t, overlap), <<>>, InOrder(wave))

(* The ticks of a wave: virtual lane v (from 0) is worked in tick v div      *)
(* maxParallel on lane v mod maxParallel; with queueExcess off there is one  *)
(* tick, and the virtual lanes that share a lane keep the order of the wave. *)
Ticks(wave, overlap, maxParallel, queueExcess) ==
  LET lanes == VirtualLanes(wave, overlap)
      virtual(t) == (CHOOSE i \in DOMAIN lanes : t \in SX!ToSet(lanes[i])) - 1
      tickOf(t) == IF queueExcess THEN virtual(t) \div maxParallel ELSE 0
      count == IF queueExcess
               THEN (Len(lanes) + maxParallel - 1) \div maxParallel ELSE 1
  IN  [k \in 1..count |-> [l \in 1..maxParallel |->
        SelectSeq(InOrder(wave), LAMBDA t :
          tickOf(t) = k - 1 /\ virtual(t) % maxParallel = l - 1)]]

(* planWaves: the plan in the form module LaneScheduler takes. *)
PlanWaves(waves, overlap, maxParallel, queueExcess) ==
  [w \in DOMAIN waves |-> Ticks(waves[w], overlap, maxParallel, queueExcess)]

(* canStartMultiTaskBatch *)
CanStartBatch(waves, overlap, explicit) ==
  \/ Cardinality(UNION SX!ToSet(waves)) <= 1
  \/ explicit
  \/ Len(waves) = 1 /\ Len(VirtualLanes(waves[1], overlap)) > 1

---------------------------------------------------------------------------
(* The waves of a sequence: resolveWaveTaskIds, resolveSequenceWaves.        *)

(* The waves of the plan for a scope: buildPlan, filterPlanToWave. *)
Waves(deps, scope) == TopoWaves(Graph(deps, scope)).waves

(* throughWave 0 stands for none. *)
LastWave(waves, through) == IF through = 0 THEN Len(waves) ELSE through
InRange(waves, from, through) ==
  /\ from \in DOMAIN waves
  /\ LastWave(waves, through) \in DOMAIN waves
  /\ from <= LastWave(waves, through)
=============================================================================
