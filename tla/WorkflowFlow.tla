---------------------------- MODULE WorkflowFlow ----------------------------
(***************************************************************************)
(* The control flow of one workflow (shared/workflow-control-flow.mjs) as  *)
(* the workflow board edits it (web/src/components/WorkflowBoard.tsx): a   *)
(* tree of sequences, in which every condition owns a true and a false     *)
(* sequence, and items nested in plan steps.  While the user chooses a     *)
(* step for a place, another client's version may replace the whole flow.  *)
(***************************************************************************)
EXTENDS Integers, SequencesExt

CONSTANTS
  Triggers, Conditions, Steps,  \* node ids, by the kind of the node
  Plans,      \* steps with data.acceptsChildren
  PlanItems,  \* nodes nested in a plan
  MaxNodes,   \* bound on the nodes that are created
  Root,
  NoTarget

VARIABLES
  flow,      \* the sequences, and the nodes nested in plans
  used,      \* ids that have been given to nodes
  picker,    \* where the step that is being chosen will go
  misplaced  \* has a step gone to a place of a flow that had been replaced?

flowVars == <<flow, used, picker, misplaced>>

\* A sequence is named by the condition and the outcome that own it.
Branches(c) == {<<c, outcome>> : outcome \in BOOLEAN}
Refs(f) == DOMAIN f.items
Items(f) == UNION {ToSet(f.items[r]) : r \in Refs(f)}
Holder(f, n) == CHOOSE r \in Refs(f) : n \in ToSet(f.items[r])

RECURSIVE Path(_, _)
Path(f, r) == IF r = Root THEN <<>> ELSE Append(Path(f, Holder(f, r[1])), r)

\* itemNodeIds: an item and everything in the sequences it owns.
RECURSIVE ItemNodeIds(_, _)
ItemNodeIds(f, n) ==
  IF n \notin Conditions THEN {n}
  ELSE {n} \cup UNION {ItemNodeIds(f, m) : m \in UNION {ToSet(f.items[r]) : r \in Branches(n)}}

EmptyFlow == [items |-> (Root :> <<>>), parent |-> <<>>]

-----------------------------------------------------------------------------
(* The operations on a flow.                                               *)

Clamp(i, s) == IF i > Len(s) THEN Len(s) ELSE i

\* What follows a new condition moves into its true branch.
InsertWorkflowNode(f, ref, index, n) ==
  LET s == f.items[ref]
      at == Clamp(index, s)
  IN  [f EXCEPT !.items =
        IF n \in Conditions
        THEN (<<n, TRUE>> :> SubSeq(s, at + 1, Len(s))) @@ (<<n, FALSE>> :> <<>>)
             @@ [f.items EXCEPT ![ref] = Append(SubSeq(s, 1, at), n)]
        ELSE [f.items EXCEPT ![ref] = InsertAt(s, at + 1, n)]]

\* Faulty: the nodes nested in plans of a removed branch stay.
DeleteItemOnly(f, n) ==
  LET gone == ItemNodeIds(f, n)
      left == Refs(f) \ UNION {Branches(c) : c \in gone \cap Conditions}
  IN  [items  |-> [r \in left |-> SelectSeq(f.items[r], LAMBDA m : m # n)],
       parent |-> [p \in {q \in DOMAIN f.parent : f.parent[q] # n} |-> f.parent[p]]]

\* A condition goes with its branches; plans go with their items.
DeleteWorkflowNode(f, n) ==
  LET gone == ItemNodeIds(f, n)
      left == Refs(f) \ UNION {Branches(c) : c \in gone \cap Conditions}
  IN  [items  |-> [r \in left |-> SelectSeq(f.items[r], LAMBDA m : m # n)],
       parent |-> [p \in {q \in DOMAIN f.parent : f.parent[q] \notin gone} |-> f.parent[p]]]

AddPlanItem(f, plan, p) == [f EXCEPT !.parent = (p :> plan) @@ @]
DeletePlanItem(f, p) ==
  [f EXCEPT !.parent = [q \in DOMAIN f.parent \ {p} |-> f.parent[q]]]

\* The places at which the board offers to insert a step (deriveWorkflowLayout).
InsertionPoints(f) ==
  {t \in [ref : Refs(f), index : 0..Cardinality(Items(f))] :
     /\ t.index <= Len(f.items[t.ref])
     /\ t.ref = Root /\ f.items[Root] # <<>> => t.index > 0}

\* assertWorkflowFlow: every item has one place, sequences belong to conditions
\* of the flow, the one trigger comes first, and nested nodes are in a plan.
ValidFlow(f) ==
  /\ \A r, q \in Refs(f) : \A i \in DOMAIN f.items[r], j \in DOMAIN f.items[q] :
       f.items[r][i] = f.items[q][j] => r = q /\ i = j
  /\ Refs(f) = {Root} \cup UNION {Branches(c) : c \in Items(f) \cap Conditions}
  /\ Items(f) = UNION {ItemNodeIds(f, n) : n \in ToSet(f.items[Root])}
  /\ f.items[Root] # <<>> => Items(f) \cap Triggers = {f.items[Root][1]}
  /\ \A p \in DOMAIN f.parent : f.parent[p] \in Items(f) \cap Plans

-----------------------------------------------------------------------------
(* The board.                                                              *)

FlowInit ==
  /\ flow = EmptyFlow /\ used = {}
  /\ picker = NoTarget /\ misplaced = FALSE

\* Ids are random: one node of each kind stands for all that have not been used.
Unused(kind) == IF kind \subseteq used THEN {} ELSE {CHOOSE n \in kind : n \notin used}
Fresh(kinds) == IF Cardinality(used) = MaxNodes THEN {} ELSE UNION {Unused(k) : k \in kinds}
Use(n) == used' = used \cup {n}

OpenStepPicker ==
  /\ picker = NoTarget
  /\ \/ \E t \in InsertionPoints(flow) :
          picker' = [path |-> Path(flow, t.ref), ref |-> t.ref, index |-> t.index, stale |-> FALSE]
     \/ \E p \in Items(flow) \cap Plans : picker' = [plan |-> p, stale |-> FALSE]
  /\ UNCHANGED <<flow, used, misplaced>>

CloseStepPicker ==
  /\ picker # NoTarget /\ picker' = NoTarget
  /\ UNCHANGED <<flow, used, misplaced>>

\* pickerItems: an empty flow is begun with a trigger.
Offered == IF flow.items[Root] = <<>> THEN {Triggers} ELSE {Conditions, Steps, Plans}

Taken == picker' = NoTarget /\ misplaced' = (misplaced \/ picker.stale)

\* getWorkflowSequence throws if the path is not in the flow any more.
SelectStep ==
  /\ picker # NoTarget /\ "path" \in DOMAIN picker
  /\ picker.ref \in Refs(flow) /\ Path(flow, picker.ref) = picker.path
  /\ \E n \in Fresh(Offered) :
       flow' = InsertWorkflowNode(flow, picker.ref, picker.index, n) /\ Use(n)
  /\ Taken

\* Nobody looks whether the plan is still there.
SelectPlanItem ==
  /\ picker # NoTarget /\ "plan" \in DOMAIN picker
  /\ \E p \in Fresh({PlanItems}) : flow' = AddPlanItem(flow, picker.plan, p) /\ Use(p)
  /\ Taken

\* No trigger can be deleted; the picker covers the board.
DeleteNode ==
  /\ picker = NoTarget
  /\ \/ \E n \in Items(flow) \ Triggers : flow' = DeleteWorkflowNode(flow, n)
     \/ \E p \in DOMAIN flow.parent : flow' = DeletePlanItem(flow, p)
  /\ UNCHANGED <<used, picker, misplaced>>

\* A trigger or a condition has no copy; the copy of a plan is empty.
DuplicateNode ==
  /\ picker = NoTarget
  /\ \/ \E n \in Items(flow) \cap (Steps \cup Plans) :
          LET r == Holder(flow, n)
              i == CHOOSE j \in DOMAIN flow.items[r] : flow.items[r][j] = n
          IN  \E m \in Fresh({IF n \in Plans THEN Plans ELSE Steps}) :
                flow' = InsertWorkflowNode(flow, r, i, m) /\ Use(m)
     \/ \E p \in DOMAIN flow.parent, q \in Fresh({PlanItems}) :
          flow' = AddPlanItem(flow, flow.parent[p], q) /\ Use(q)
  /\ UNCHANGED <<picker, misplaced>>

\* applyWorkspace: what another client has saved, after edits of its own or in
\* another tab, replaces the flow under an open picker.
ApplyWorkspace ==
  /\ \/ \E t \in InsertionPoints(flow), n \in Fresh(Offered) :
          flow' = InsertWorkflowNode(flow, t.ref, t.index, n) /\ Use(n)
     \/ \E n \in Items(flow) \ Triggers : flow' = DeleteWorkflowNode(flow, n) /\ UNCHANGED used
     \/ flow' = EmptyFlow /\ UNCHANGED used
  /\ picker' = IF picker = NoTarget THEN picker ELSE [picker EXCEPT !.stale = TRUE]
  /\ UNCHANGED misplaced

\* The board cannot draw a flow that is not valid.
FlowNext ==
  /\ ValidFlow(flow)
  /\ \/ OpenStepPicker \/ CloseStepPicker \/ SelectStep \/ SelectPlanItem
     \/ DeleteNode \/ DuplicateNode \/ ApplyWorkspace

-----------------------------------------------------------------------------
(* Properties.                                                             *)

\* Whatever is inserted, copied and deleted, with conditions nested in branches,
\* the flow is one the server and the other clients can read: a flow that is not
\* makes serializeWorkflowSnapshot throw while the board is drawn.  Only a step
\* that is put where the flow has been replaced since can break it.
EditsKeepFlowValid == ValidFlow(flow) \/ misplaced

\* Does not hold: the flow on screen is valid.
FlowIsValid == ValidFlow(flow)
=============================================================================
