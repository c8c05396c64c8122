-------------------------- MODULE WorkflowMigration --------------------------
(***************************************************************************)
(* How a workflow of the first version, nodes joined by edges, becomes a   *)
(* control flow (migrateWorkflowSnapshotV1 in                              *)
(* shared/workflow-control-flow.mjs with shared/workflow-sequence.mjs).    *)
(* The edges of a condition's branches name the condition and the outcome. *)
(* The stored edges may form any graph: branches that meet, loops, nodes   *)
(* that hang on nothing, conditions and ends that have been deleted.       *)
(***************************************************************************)
EXTENDS WorkflowFlow

CONSTANTS
  Size,      \* of the workflows that are migrated
  MaxEdges,  \* bound on their edges
  NotYet,
  Thrown     \* the migration throws

VARIABLES
  snapshot,  \* the nodes by position, and the edges in the order they are stored
  migrated   \* the flow, and the nodes that are left

migrationVars == <<snapshot, migrated>>

OldNodes == Triggers \cup Conditions \cup Steps

\* The nodes from top to bottom, those of a kind in one order.
Positions ==
  {s \in [1..Size -> OldNodes] :
     /\ \A i, j \in 1..Size : s[i] = s[j] => i = j
     /\ ToSet(s) \cap Triggers # {}
     /\ \A kind \in {Triggers, Conditions, Steps} :
          \E first \in SUBSET kind :
            /\ ToSet(s) \cap kind = first
            /\ SelectSeq(s, LAMBDA n : n \in first) =
                 SelectSeq(SetToSeq(kind), LAMBDA n : n \in first)
            /\ first = {SetToSeq(kind)[i] : i \in 1..Cardinality(first)}}

\* Edges between the nodes, outside branches or of a branch.  An edge of a branch
\* that has lost an end stands for all of them; one outside branches, or from a
\* node to itself, changes no more than an order.
EdgeChoices(nodes) ==
  {e \in [from : nodes, to : nodes, of : {NoTarget} \cup UNION {Branches(c) : c \in Conditions}] :
     e.from # e.to}
  \cup {[from |-> NoTarget, to |-> NoTarget, of |-> <<c, TRUE>>] : c \in Conditions}

MigrationInit ==
  /\ \E s \in Positions :
       \E edges \in SeqOf(EdgeChoices(ToSet(s)), MaxEdges) :
         snapshot = [positions |-> s, edges |-> edges]
  /\ migrated = NotYet

-----------------------------------------------------------------------------
(* workflow-sequence.mjs                                                   *)

ByPosition(set) == SelectSeq(snapshot.positions, LAMBDA n : n \in set)

\* Depth first, from the nodes without an incoming edge and then from the rest.
RECURSIVE Visit(_, _, _)
Visit(todo, edges, ordered) ==
  IF todo = <<>> THEN ordered
  ELSE IF Contains(ordered, Head(todo)) THEN Visit(Tail(todo), edges, ordered)
  ELSE LET targets == ByPosition({e[2] : e \in {d \in edges : d[1] = Head(todo)}})
       IN  Visit(targets \o Tail(todo), edges, Append(ordered, Head(todo)))

OrderedWorkflowStepIds(nodes, allEdges) ==
  LET edges == {<<e.from, e.to>> : e \in {d \in allEdges : {d.from, d.to} \subseteq nodes}}
      sources == nodes \ {e[2] : e \in edges}
  IN  Visit(ByPosition(sources) \o ByPosition(nodes), edges, <<>>)

BranchEdges(branch) ==
  SelectSeq(snapshot.edges, LAMBDA e : e.of = branch /\ e.from # NoTarget)

\* The first edge of each node counts, up to a node that has been visited.
RECURSIVE Chain(_, _)
Chain(edges, visited) ==
  LET i == SelectInSeq(edges, LAMBDA e : e.from = Last(visited))
  IN  IF i = 0 \/ Contains(visited, edges[i].to) THEN visited
      ELSE Chain(edges, Append(visited, edges[i].to))

BranchNodes(branch) ==
  UNION {{e.from, e.to} : e \in ToSet(BranchEdges(branch))} \ {branch[1]}

\* The chain as far as it hangs on the condition, then the other nodes of the branch.
OrderedConditionBranchIds(branch) ==
  LET chain == Chain(BranchEdges(branch), <<branch[1]>>)
  IN  Tail(chain) \o ByPosition(BranchNodes(branch) \ ToSet(chain))

\* Faulty: the nodes of the branches stay in the trunk as well.
TrunkOfAll(c) == OrderedWorkflowStepIds(ToSet(snapshot.positions), ToSet(snapshot.edges))

TrunkStepIds(c) ==
  OrderedWorkflowStepIds(ToSet(snapshot.positions) \ UNION {BranchNodes(b) : b \in Branches(c)},
                         {e \in ToSet(snapshot.edges) : e.of = NoTarget})

\* The first edge of a branch names the condition whose branches count, whether
\* that is still a node or not.
PersistedCondition ==
  LET i == SelectInSeq(snapshot.edges, LAMBDA e : e.of # NoTarget)
  IN  IF i = 0 THEN NoTarget ELSE snapshot.edges[i].of[1]

\* Without edges of branches the first condition owns what follows it.
NormalizeWorkflowConditionBranches ==
  LET c == PersistedCondition
      linear == OrderedWorkflowStepIds(ToSet(snapshot.positions), ToSet(snapshot.edges))
      i == SelectInSeq(linear, LAMBDA n : n \in Conditions)
  IN  IF c # NoTarget
      THEN [trunk |-> TrunkStepIds(c), condition |-> c,
            true |-> OrderedConditionBranchIds(<<c, TRUE>>),
            false |-> OrderedConditionBranchIds(<<c, FALSE>>)]
      ELSE IF i = 0
      THEN [trunk |-> linear, condition |-> NoTarget, true |-> <<>>, false |-> <<>>]
      ELSE [trunk |-> SubSeq(linear, 1, i), condition |-> linear[i],
            true |-> SubSeq(linear, i + 1, Len(linear)), false |-> <<>>]

-----------------------------------------------------------------------------
(* workflow-control-flow.mjs                                               *)

\* The condition whose branches are known keeps them; any other condition takes
\* what follows it into its true branch.
RECURSIVE LegacySequenceItems(_, _, _)
LegacySequenceItems(ids, ref, graph) ==
  IF ids = <<>> THEN ref :> <<>>
  ELSE LET n == Head(ids)
           Rest == LegacySequenceItems(Tail(ids), ref, graph)
           With(f) == [f EXCEPT ![ref] = <<n>> \o @]
       IN  IF n \notin Conditions THEN With(Rest)
           ELSE IF n = graph.condition
           THEN With(Rest) @@ LegacySequenceItems(graph.true, <<n, TRUE>>, graph)
                           @@ LegacySequenceItems(graph.false, <<n, FALSE>>, graph)
           ELSE (ref :> <<n>>) @@ LegacySequenceItems(Tail(ids), <<n, TRUE>>, graph)
                               @@ (<<n, FALSE>> :> <<>>)

\* workflowNodeIds: each item before the items of its branches.
RECURSIVE WorkflowNodeIds(_, _)
WorkflowNodeIds(items, ref) ==
  FlattenSeq([i \in DOMAIN items[ref] |->
    LET n == items[ref][i]
    IN  <<n>> \o IF n \in Conditions
                 THEN WorkflowNodeIds(items, <<n, TRUE>>) \o WorkflowNodeIds(items, <<n, FALSE>>)
                 ELSE <<>>])

\* The first trigger moves to the front, the others are dropped with their nodes.
KeepFirstTrigger(items) ==
  LET triggers == SelectSeq(WorkflowNodeIds(items, Root), LAMBDA n : n \in Triggers)
      others == [r \in DOMAIN items |-> SelectSeq(items[r], LAMBDA n : n \notin Triggers)]
  IN  IF triggers = <<>> THEN [items |-> items, nodes |-> ToSet(snapshot.positions)]
      ELSE [items |-> [others EXCEPT ![Root] = <<triggers[1]>> \o @],
            nodes |-> ToSet(snapshot.positions) \ ToSet(Tail(triggers))]

\* assertWorkflowFlow, with the nodes: each has its place in the flow.
AssertWorkflowFlow(result) ==
  /\ ValidFlow([items |-> result.items, parent |-> <<>>])
  /\ Items(result) = result.nodes

MigrateWorkflowSnapshotV1 ==
  /\ migrated = NotYet
  /\ LET graph == NormalizeWorkflowConditionBranches
         result == KeepFirstTrigger(LegacySequenceItems(graph.trunk, Root, graph))
     IN  migrated' = IF AssertWorkflowFlow(result) THEN result ELSE Thrown
  /\ UNCHANGED snapshot

-----------------------------------------------------------------------------
(* Properties.                                                             *)

\* The two branches of the condition lead to one node, or the condition is no
\* node any more and its branches hang on nothing.
BranchesMeet == BranchNodes(<<PersistedCondition, TRUE>>) \cap BranchNodes(<<PersistedCondition, FALSE>>) # {}
BranchesOrphaned ==
  /\ PersistedCondition \notin ToSet(snapshot.positions)
  /\ \E b \in Branches(PersistedCondition) : BranchNodes(b) # {}

\* A workflow of the first version that has a trigger can be opened, whatever
\* edges were stored: loops, several conditions, nodes that hang on nothing.  Its
\* migration passes assertWorkflowFlow and keeps every node but the triggers
\* after the first; it throws only for branches that meet or that have lost
\* their condition.
MigrationKeepsNodes ==
  migrated # NotYet =>
    IF migrated = Thrown THEN BranchesMeet \/ BranchesOrphaned
    ELSE /\ Items(migrated) = migrated.nodes
         /\ ToSet(snapshot.positions) \ migrated.nodes \subseteq Triggers

\* Does not hold: every workflow of the first version with a trigger can be opened.
EveryWorkflowMigrates == migrated # Thrown

\* Neither edits nor the migration make a flow that cannot be read.
FlowsStayWhole == EditsKeepFlowValid /\ MigrationKeepsNodes
=============================================================================
