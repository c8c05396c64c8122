------------------------- MODULE MCSubjectLifecycle -------------------------
(***************************************************************************)
(* Small instances of SubjectLifecycle: two subjects and two requests with *)
(* a quiet registry, or one subject that is edited and enabled while the   *)
(* registry is mutated.                                                    *)
(***************************************************************************)
EXTENDS SubjectLifecycle

CONSTANTS c1, c2, p1, p2

VARIABLE scenario  \* "subjects" or "registry"

TwoSubjects == 1..2

\* One package and no mutations; the second subject is only enabled and removed,
\* the first goes through four versions (six for both).  A second request starts before the
\* fault: a transition, since it may wait while the first request has the
\* transaction (a removal never does).  Other statements join in while only the
\* first subject moves.
Base ==
  /\ UNCHANGED registry /\ mutations' = <<>>
  /\ \A s \in Subjects : db'.rows[s].alias = p1
  /\ Version(db'.rows[2]) <= 3
  /\ Version(db'.rows[1]) + Version(db'.rows[2]) <= 6
  /\ \A i \in 2..Version(db'.rows[2]) : db'.rows[2].history[i] # "draft"
  /\ call[c2] = None /\ call'[c2] # None =>
       call'[c2].op = "transition" /\ call'[c2].subject = 2 /\ faults = 0
  /\ notes' # 0 => db'.rows[2] = FirstDraft(p1) /\ call'[c2] = None /\ faults' = 0

\* One request and no faults: the first subject is edited or enabled, no more.
\* Beside the request, one mutation at a time.
Registry ==
  /\ call'[c2] = None /\ faults' = 0 /\ notes' = 0
  /\ db'.baseRemoved = FALSE /\ db'.rows[1].removed = FALSE
  /\ db'.rows[2] = db.rows[2]
  /\ Version(db'.rows[1]) <= 2
  /\ call'[c1] # None => call'[c1].lifecycle = "enabled" /\ Len(mutations') <= 1

Story ==
  /\ scenario' = scenario
  /\ scenario = "subjects" => Base
  /\ scenario = "registry" => Registry

MCInit == /\ Init
          /\ scenario \in {"subjects", "registry"}
          /\ \A s \in Subjects : db.rows[s].alias = p1

MCNext == Next /\ Story

MCSpec == MCInit /\ [][MCNext]_<<vars, scenario>> /\ Fairness
=============================================================================
