---------------------- MODULE SubjectLifecycle_proofs ----------------------
(***************************************************************************)
(* Proofs about SubjectLifecycle: the transaction that stays open while    *)
(* the Bridge is asked has one owner, acknowledged versions and edits of   *)
(* packages persist, and Bridge and database agree.                        *)
(***************************************************************************)
EXTENDS SubjectLifecycle, DataFacts

-----------------------------------------------------------------------------
(* The inductive invariant of the subjects.                                *)

\* saveVersion: the newest version has the lifecycle of the row.
Stored(row) ==
  Len(row.history) >= 1 /\ row.history[Len(row.history)] = row.lifecycle

\* A removed subject shows all items and remembers the view of its user.
Shown(row) ==
  /\ row.removed = row.readOnly
  /\ row.removed => row.frozen = "own"
  /\ row.view = IF row.removed THEN "all" ELSE "own"

RowShape(row) ==
  /\ Stored(row) /\ Shown(row)
  /\ row.removed = row.archived
  /\ row.removed => row.lifecycle = "disabled"

RowWhole(row) == RowShape(row) /\ Version(row) <= MaxVersion

TablesTyped ==
  /\ db \in Tables /\ saved \in Tables \cup {None}
  /\ call \in [Calls -> Call \cup {None}]
  /\ bridge \in [Subjects -> Snapshot \cup {None}]
  /\ notes \in 0..MaxNotes /\ acked \in [Subjects -> 1..MaxVersion]
  /\ unsettled \subseteq Subjects
  /\ faults \in 0..MaxFaults

RowsWhole == \A s \in Subjects : RowWhole(db.rows[s]) /\ RowWhole(Committed.rows[s])

BaseWhole == Committed.baseRemoved => \A s \in Subjects : Committed.rows[s].removed

\* A client knows exactly what is committed.
AckedExact == \A s \in Subjects : acked[s] = Version(Committed.rows[s])

Waiting(c) == At(c, "sync") \/ At(c, "accepted")

\* Only the owner of the open transaction waits for the Bridge.
Owned ==
  /\ \A c \in Calls : Waiting(c) => saved # None /\ \A d \in Calls : Waiting(d) => d = c
  /\ saved # None =>
       (\E c \in Calls : Waiting(c)) /\ db.baseRemoved = saved.baseRemoved

CanBump(row) == row.lifecycle = "disabled" \/ Version(row) < MaxVersion

\* What a transition k that waits for the Bridge has found and done.
TransitionHeld(k) ==
  /\ db.rows = saved.rows
  /\ ~db.rows[k.subject].removed
  /\ Version(db.rows[k.subject]) = k.version /\ k.version < MaxVersion
  /\ k.lifecycle # "draft"
  /\ IF k.pc = "accepted"
       THEN /\ k.told = {k.subject}
            /\ bridge[k.subject] = [lifecycle |-> k.lifecycle, version |-> k.version + 1]
       ELSE k.told = {}

\* A removal under way that has told the Bridge of some subjects: one of them is
\* still to be removed, never was to be, or has been removed after the Bridge
\* was told or because it need not be.
StillDue(rows, s) ==
  rows[s] = Committed.rows[s] /\ ~rows[s].removed /\ CanBump(rows[s])
Spared(rows, op, told, s) ==
  rows[s] = Committed.rows[s] /\ s \notin told /\ (op = "removeBase" => rows[s].removed)
RemovedNow(rows, told, s) ==
  /\ ~Committed.rows[s].removed /\ CanBump(Committed.rows[s])
  /\ rows[s] = RemoveRow(Committed.rows[s])
  /\ s \in told \/ ~RequiresBridgeDisable(Committed.rows[s])

Removing(rows, op, todo, told) ==
  /\ \A s \in Subjects :
       IF s \in todo THEN StillDue(rows, s)
       ELSE Spared(rows, op, told, s) \/ RemovedNow(rows, told, s)
  /\ \A s \in told : bridge[s] # None /\ bridge[s].lifecycle = "disabled"

RemovalHeld(k) ==
  /\ k.subject \in k.todo /\ k.lifecycle = "disabled"
  /\ Removing(db.rows, k.op, k.todo, k.told)
  /\ k.pc = "accepted" => k.subject \in k.told

Held(k) == IF k.op = "transition" THEN TransitionHeld(k) ELSE RemovalHeld(k)

CallsFit ==
  \A c \in Calls : call[c] # None =>
    IF Waiting(c) THEN Held(call[c])
    ELSE call[c].told = {} /\ call[c].op = "transition" /\ call[c].lifecycle # "draft"

\* The Bridge runs row s only with a version the removal of it will tell it about.
Agrees(row, s) ==
  /\ row.lifecycle = "enabled" => EnabledAtBridge(s) /\ bridge[s].version = Version(row)
  /\ EnabledAtBridge(s) => RequiresBridgeDisable(row)

\* A request under way has told the Bridge of subject s.
Told(s) == \E c \in Calls : call[c] # None /\ s \in call[c].told

BridgeKnown ==
  \A s \in Subjects : s \notin unsettled /\ ~Told(s) => Agrees(Committed.rows[s], s)

SubjectInv ==
  /\ TablesTyped /\ RowsWhole /\ BaseWhole /\ AckedExact
  /\ Owned /\ CallsFit /\ BridgeKnown

-----------------------------------------------------------------------------
(* Facts about single rows.                                                *)

\* saveVersion appends one version and changes the lifecycle, nothing else.
LEMMA BumpFits ==
  ASSUME NEW row \in Row, NEW l \in Lifecycles
  PROVE  /\ Bump(row, l) \in Row /\ Stored(Bump(row, l))
         /\ Bump(row, l).lifecycle = l
         /\ Bump(row, l).history = Append(row.history, l)
         /\ Version(Bump(row, l)) = Version(row) + 1
         /\ \A j \in 1..Version(row) : Bump(row, l).history[j] = row.history[j]
         /\ Bump(row, l).history[Version(row) + 1] = l
         /\ Bump(row, l).removed = row.removed
         /\ Bump(row, l).archived = row.archived
         /\ Bump(row, l).alias = row.alias
         /\ Bump(row, l).view = row.view
         /\ Bump(row, l).frozen = row.frozen
         /\ Bump(row, l).readOnly = row.readOnly
<1> DEFINE h == row.history
           b == Bump(row, l)
<1>1. h \in Seq(Lifecycles) /\ Len(h) \in Nat
  BY DEF Row
<1>2. /\ Append(h, l) \in Seq(Lifecycles)
      /\ Len(Append(h, l)) = Len(h) + 1
      /\ \A j \in 1..Len(h) : Append(h, l)[j] = h[j]
      /\ Append(h, l)[Len(h) + 1] = l
  BY <1>1, AppendProperties
<1>3. b = [row EXCEPT !.lifecycle = l, !.history = Append(h, l)]
  BY DEF Bump
<1>4. /\ b.lifecycle = l /\ b.history = Append(h, l)
      /\ b.removed = row.removed /\ b.archived = row.archived
      /\ b.alias = row.alias /\ b.view = row.view
      /\ b.frozen = row.frozen /\ b.readOnly = row.readOnly
      /\ b \in Row
  <2> HIDE DEF b
  <2>1. QED
    BY <1>2, <1>3 DEF Row
<1>5. QED
  <2> HIDE DEF b
  <2>1. Len(b.history) >= 1 /\ b.history[Len(b.history)] = b.lifecycle
    BY <1>1, <1>2, <1>4
  <2>2. Version(b) = Version(row) + 1 /\ Version(row) = Len(h)
    BY <1>2, <1>4 DEF Version
  <2>3. QED
    BY <1>2, <1>4, <2>1, <2>2 DEF Stored, b

\* What the Bridge must be told depends on the lifecycle and the history alone.
LEMMA RequiresSame ==
  ASSUME NEW row, NEW other, row.lifecycle = other.lifecycle, row.history = other.history
  PROVE  RequiresBridgeDisable(row) <=> RequiresBridgeDisable(other)
BY DEF RequiresBridgeDisable, LastSyncedEnabled, Version

\* A disabled row need not be told to the Bridge, an enabled one must.
LEMMA RequiresByLifecycle ==
  ASSUME NEW row
  PROVE  /\ row.lifecycle = "disabled" => ~RequiresBridgeDisable(row)
         /\ row.lifecycle = "enabled" => RequiresBridgeDisable(row)
BY DEF RequiresBridgeDisable

\* A draft over a version the Bridge runs does not hide that it runs.
LEMMA DraftKeepsRequires ==
  ASSUME NEW row \in Row, Stored(row), RequiresBridgeDisable(row)
  PROVE  RequiresBridgeDisable(Bump(row, "draft"))
<1> DEFINE b == Bump(row, "draft")
           n == Version(row)
<1>1. n \in Nat /\ n >= 1 /\ DOMAIN row.history = 1..n /\ row.history[n] = row.lifecycle
  BY DEF Row, Version, Stored
<1>2. /\ b.lifecycle = "draft"
      /\ Version(b) = n + 1
      /\ \A j \in 1..n : b.history[j] = row.history[j]
      /\ b.history[n + 1] = "draft"
      /\ DOMAIN b.history = 1..(n + 1)
  <2>1. "draft" \in Lifecycles
    BY DEF Lifecycles
  <2>2. b \in Row
    BY <2>1, BumpFits
  <2>3. DOMAIN b.history = 1..Version(b)
    BY <2>2 DEF Row, Version
  <2>4. QED
    BY <2>1, <2>3, BumpFits
<1>3. PICK i \in 1..n : /\ row.history[i] \notin {"draft", "disabled"}
                        /\ \A j \in (i + 1)..n : row.history[j] = "draft"
  <2>1. CASE row.lifecycle = "enabled"
    <3>1. row.history[n] \notin {"draft", "disabled"} /\ \A j \in (n + 1)..n : row.history[j] = "draft"
      BY <1>1, <2>1
    <3>2. n \in 1..n
      BY <1>1
    <3>3. QED
      BY <3>1, <3>2
  <2>2. CASE LastSyncedEnabled(row)
    BY <1>1, <2>2 DEF LastSyncedEnabled
  <2>3. QED
    BY <2>1, <2>2 DEF RequiresBridgeDisable
<1>4. LastSyncedEnabled(b)
  <2> HIDE DEF b, n
  <2>1. i \in DOMAIN b.history /\ b.history[i] \notin {"draft", "disabled"}
    BY <1>1, <1>2, <1>3
  <2>2. ASSUME NEW j \in (i + 1)..(n + 1)
        PROVE  b.history[j] = "draft"
    <3>1. j = n + 1 \/ (j \in 1..n /\ j \in (i + 1)..n)
      BY <1>1, <2>2
    <3>2. QED
      BY <1>2, <1>3, <3>1
  <2>3. QED
    BY <1>2, <2>1, <2>2 DEF LastSyncedEnabled
<1>5. QED
  BY <1>2, <1>4 DEF RequiresBridgeDisable

\* A subject that comes back is shown in the view its user had chosen.
LEMMA PresentFits ==
  ASSUME NEW row \in Row, Stored(row), Shown(row)
  PROVE  /\ Present(row) \in Row /\ RowShape(Present(row))
         /\ ~Present(row).removed
         /\ Present(row).lifecycle = row.lifecycle
         /\ Present(row).history = row.history
<1> DEFINE r == [row EXCEPT !.removed = FALSE, !.archived = FALSE]
           p == [r EXCEPT !.view = IF r.frozen = None THEN "all" ELSE r.frozen,
                          !.frozen = None, !.readOnly = FALSE]
<1>1. /\ r \in Row /\ ~r.removed /\ ~r.archived
      /\ r.lifecycle = row.lifecycle /\ r.history = row.history
      /\ r.view = row.view /\ r.frozen = row.frozen /\ r.readOnly = row.readOnly
  BY DEF Row
<1>2. CASE row.readOnly
  <2>1. row.removed /\ r.frozen = "own" /\ r.frozen # None /\ r.readOnly
    BY <1>1, <1>2, SubjectAssumption DEF Shown, Row
  <2>2. Present(row) = p
    BY <1>1, <2>1 DEF Present, Restore
  <2>3. /\ p \in Row /\ p.view = "own" /\ ~p.readOnly
        /\ p.removed = r.removed /\ p.archived = r.archived
        /\ p.lifecycle = r.lifecycle /\ p.history = r.history
    <3> HIDE DEF r
    <3>1. QED
      BY <1>1, <2>1 DEF Row
  <2> HIDE DEF p, r
  <2>4. QED
    BY <1>1, <2>2, <2>3 DEF RowShape, Stored, Shown, Row
<1>3. CASE ~row.readOnly
  <2>1. Present(row) = r
    BY <1>1, <1>3 DEF Present, Restore
  <2>2. ~row.removed /\ r.view = "own" /\ ~r.readOnly
    BY <1>1, <1>3 DEF Shown
  <2> HIDE DEF r
  <2>3. QED
    BY <1>1, <2>1, <2>2 DEF RowShape, Stored, Shown, Row
<1>4. QED
  BY <1>2, <1>3

\* A removed subject is disabled, archived and frozen with the view of its user.
LEMMA RemoveRowFits ==
  ASSUME NEW row \in Row, RowShape(row), ~row.removed
  PROVE  /\ RemoveRow(row) \in Row /\ RowShape(RemoveRow(row))
         /\ RemoveRow(row).removed /\ RemoveRow(row).lifecycle = "disabled"
         /\ CanBump(row) /\ Version(row) <= MaxVersion => Version(RemoveRow(row)) <= MaxVersion
         /\ Version(RemoveRow(row)) >= Version(row)
<1> DEFINE d == IF row.lifecycle = "disabled" THEN row ELSE Bump(row, "disabled")
           g == [d EXCEPT !.removed = TRUE, !.archived = TRUE]
           z == [g EXCEPT !.frozen = g.view, !.view = "all", !.readOnly = TRUE]
<1>0. "disabled" \in Lifecycles /\ Version(row) \in Nat /\ MaxVersion \in Nat
  BY SubjectAssumption DEF Lifecycles, Version, Row
<1>1. /\ d \in Row /\ Stored(d) /\ d.lifecycle = "disabled"
      /\ d.view = "own" /\ ~d.readOnly
      /\ Version(d) >= Version(row)
      /\ CanBump(row) /\ Version(row) <= MaxVersion => Version(d) <= MaxVersion
  <2>1. CASE row.lifecycle = "disabled"
    <3>1. d = row
      BY <2>1
    <3>2. row.view = "own" /\ ~row.readOnly
      BY DEF RowShape, Shown
    <3>3. QED
      BY <1>0, <2>1, <3>1, <3>2 DEF RowShape
  <2>2. CASE row.lifecycle # "disabled"
    <3>1. d = Bump(row, "disabled")
      BY <2>2
    <3>2. row.view = "own" /\ ~row.readOnly
      BY DEF RowShape, Shown
    <3>3. QED
      BY <1>0, <2>2, <3>1, <3>2, BumpFits DEF CanBump
  <2>3. QED
    BY <2>1, <2>2
<1>2. /\ g \in Row /\ g.removed /\ g.archived /\ g.view = "own" /\ ~g.readOnly
      /\ g.lifecycle = d.lifecycle /\ g.history = d.history
  <2> HIDE DEF d
  <2>1. QED
    BY <1>1 DEF Row
<1>3. RemoveRow(row) = z
  BY <1>2 DEF RemoveRow, Freeze
<1>4. /\ z \in Row /\ z.removed /\ z.archived /\ z.readOnly /\ z.view = "all" /\ z.frozen = "own"
      /\ z.lifecycle = g.lifecycle /\ z.history = g.history
  <2> HIDE DEF g
  <2>1. QED
    BY <1>2 DEF Row
<1>5. QED
  <2> HIDE DEF d, g, z
  <2>1. RowShape(z)
    BY <1>1, <1>2, <1>4 DEF RowShape, Stored, Shown
  <2>2. Version(z) = Version(d)
    BY <1>2, <1>4 DEF Version
  <2>3. QED
    BY <1>1, <1>2, <1>3, <1>4, <2>1, <2>2

-----------------------------------------------------------------------------
(* The subjects: requests that only touch the database.                    *)

\* Steps that leave the subjects and their requests alone keep the invariant.
LEMMA SameSubjects ==
  ASSUME SubjectInv, UNCHANGED <<db, saved, call, bridge, notes, acked, unsettled, faults>>
  PROVE  SubjectInv'
<1>1. TablesTyped'
  BY DEF SubjectInv, TablesTyped
<1>2. RowsWhole' /\ BaseWhole' /\ AckedExact'
  BY DEF SubjectInv, RowsWhole, BaseWhole, AckedExact, Committed
<1>3. Owned'
  BY DEF SubjectInv, Owned, Waiting, At
<1>4. CallsFit'
  BY DEF SubjectInv, CallsFit, Waiting, At, Held, TransitionHeld, RemovalHeld, Removing,
         StillDue, Spared, RemovedNow, Committed
<1>5. BridgeKnown'
  BY DEF SubjectInv, BridgeKnown, Told, Agrees, EnabledAtBridge, Committed
<1>6. QED
  BY <1>1, <1>2, <1>3, <1>4, <1>5 DEF SubjectInv

\* Without an open transaction nobody waits for the Bridge, what is committed is
\* what the connection sees, and nobody has told the Bridge anything.
LEMMA NobodyWaits ==
  ASSUME SubjectInv, saved = None
  PROVE  /\ \A c \in Calls : ~Waiting(c)
         /\ \A c \in Calls : call[c] # None =>
              /\ call[c].told = {} /\ call[c].op = "transition"
              /\ call[c].lifecycle # "draft"
         /\ \A s \in Subjects : ~Told(s)
         /\ Committed = db
<1>1. \A c \in Calls : ~Waiting(c)
  BY DEF SubjectInv, Owned
<1>2. \A c \in Calls : call[c] # None =>
              /\ call[c].told = {} /\ call[c].op = "transition"
              /\ call[c].lifecycle # "draft"
  BY <1>1 DEF SubjectInv, CallsFit
<1>3. \A s \in Subjects : ~Told(s)
  BY <1>2 DEF Told
<1>4. QED
  BY <1>1, <1>2, <1>3 DEF Committed

\* Without requests that wait, and with whole rows which agree with the Bridge, the
\* committed tables are fine.
LEMMA QuietTables ==
  ASSUME TablesTyped', saved' = None,
         \A c \in Calls : ~Waiting(c)',
         \A c \in Calls : call'[c] # None =>
              /\ call'[c].told = {} /\ call'[c].op = "transition"
              /\ call'[c].lifecycle # "draft",
         \A s \in Subjects : RowWhole(db.rows[s])' /\ acked'[s] = Version(db.rows[s])',
         db'.baseRemoved => \A s \in Subjects : db'.rows[s].removed,
         \A s \in Subjects : s \notin unsettled' => Agrees(db.rows[s], s)'
  PROVE  SubjectInv'
<1>1. Committed' = db'
  BY DEF Committed
<1>2. RowsWhole' /\ BaseWhole' /\ AckedExact'
  BY <1>1 DEF RowsWhole, BaseWhole, AckedExact
<1>3. Owned' /\ CallsFit'
  BY DEF Owned, CallsFit
<1>4. BridgeKnown'
  BY <1>1 DEF BridgeKnown
<1>5. QED
  BY <1>2, <1>3, <1>4 DEF SubjectInv

\* A synchronous change keeps row whole, and the Bridge need not hear of it: it
\* enables nothing and hides no subject that runs there.
Follows(new, old) ==
  /\ new \in Row /\ RowShape(new)
  /\ new.lifecycle = "enabled" => old.lifecycle = "enabled" /\ new.history = old.history
  /\ RequiresBridgeDisable(old) => RequiresBridgeDisable(new)

LEMMA WriteKeeps ==
  ASSUME SubjectInv, NEW rows \in [Subjects -> Row], NEW base \in BOOLEAN,
         Write(rows, base),
         \A s \in Subjects : Follows(rows[s], db.rows[s]),
         base => \A s \in Subjects : rows[s].removed
  PROVE  SubjectInv'
<1>1. /\ saved = None /\ saved' = None
      /\ db' = [db EXCEPT !.rows = rows, !.baseRemoved = base]
      /\ acked' = [s \in Subjects |-> Version(rows[s])]
      /\ \A s \in Subjects : Version(rows[s]) <= MaxVersion
      /\ UNCHANGED <<call, bridge, notes, unsettled, faults>>
  BY DEF Write
<1>2. db \in Tables
  BY DEF SubjectInv, TablesTyped
<1>3. db' \in Tables /\ db'.rows = rows /\ db'.baseRemoved = base
  BY <1>1, <1>2 DEF Tables
<1>4. \A s \in Subjects : RowWhole(rows[s])
  BY <1>1 DEF Follows, RowWhole
<1>5. acked' \in [Subjects -> 1..MaxVersion]
  <2>1. ASSUME NEW s \in Subjects
        PROVE  Version(rows[s]) \in 1..MaxVersion
    <3>1. Version(rows[s]) \in Nat /\ Version(rows[s]) >= 1 /\ MaxVersion \in Nat
      BY <1>4, SubjectAssumption DEF RowWhole, RowShape, Stored, Version, Row
    <3>2. QED
      BY <1>1, <3>1
  <2>2. QED
    BY <1>1, <2>1
<1>6. TablesTyped'
  BY <1>1, <1>3, <1>5 DEF SubjectInv, TablesTyped
<1>7. /\ \A c \in Calls : ~Waiting(c)'
      /\ \A c \in Calls : call'[c] # None =>
              /\ call'[c].told = {} /\ call'[c].op = "transition"
              /\ call'[c].lifecycle # "draft"
  BY <1>1, NobodyWaits DEF Waiting, At
<1>8. \A s \in Subjects : RowWhole(db.rows[s])' /\ acked'[s] = Version(db.rows[s])'
  BY <1>1, <1>3, <1>4 DEF RowWhole, RowShape, Stored, Shown, Version
<1>9. ASSUME NEW s \in Subjects, s \notin unsettled'
      PROVE  Agrees(db.rows[s], s)'
  <2>1. Agrees(db.rows[s], s)
    BY <1>1, <1>9, NobodyWaits DEF SubjectInv, BridgeKnown
  <2>2. Follows(rows[s], db.rows[s])
    OBVIOUS
  <2>3. Agrees(rows[s], s)
    BY <2>1, <2>2 DEF Agrees, Follows, Version
  <2>4. bridge' = bridge /\ db'.rows[s] = rows[s]
    BY <1>1, <1>3
  <2>5. QED
    BY <2>3, <2>4 DEF Agrees, EnabledAtBridge, RequiresBridgeDisable, LastSyncedEnabled, Version
<1>10. QED
  BY <1>1, <1>3, <1>6, <1>7, <1>8, <1>9, QuietTables

\* A row follows itself, and so does the same row brought back.
LEMMA PresentFollows ==
  ASSUME NEW row \in Row, NEW old, Stored(row), Shown(row),
         row.lifecycle = "enabled" => old.lifecycle = "enabled" /\ row.history = old.history,
         RequiresBridgeDisable(old) => RequiresBridgeDisable(row)
  PROVE  Follows(Present(row), old) /\ ~Present(row).removed
<1>1. /\ Present(row) \in Row /\ RowShape(Present(row)) /\ ~Present(row).removed
      /\ Present(row).lifecycle = row.lifecycle /\ Present(row).history = row.history
  BY PresentFits
<1>2. RequiresBridgeDisable(Present(row)) <=> RequiresBridgeDisable(row)
  BY <1>1, RequiresSame
<1>3. QED
  BY <1>1, <1>2 DEF Follows

\* One more draft of a row, with whichever package.
LEMMA DraftFollows ==
  ASSUME NEW row \in Row, RowShape(row), NEW p \in Packages
  PROVE  LET d == [Bump(row, "draft") EXCEPT !.alias = p]
         IN  /\ d \in Row /\ Stored(d) /\ Shown(d) /\ d.lifecycle = "draft"
             /\ d.removed = row.removed /\ d.archived = row.archived
             /\ RequiresBridgeDisable(row) => RequiresBridgeDisable(d)
<1> DEFINE b == Bump(row, "draft")
           d == [b EXCEPT !.alias = p]
<1>1. "draft" \in Lifecycles /\ Stored(row) /\ Shown(row)
  BY DEF Lifecycles, RowShape
<1>2. /\ b \in Row /\ Stored(b) /\ b.lifecycle = "draft"
      /\ b.removed = row.removed /\ b.archived = row.archived
      /\ b.view = row.view /\ b.frozen = row.frozen /\ b.readOnly = row.readOnly
  BY <1>1, BumpFits
<1>3. RequiresBridgeDisable(row) => RequiresBridgeDisable(b)
  BY <1>1, DraftKeepsRequires
<1> HIDE DEF b
<1>4. /\ d \in Row /\ d.lifecycle = b.lifecycle /\ d.history = b.history
      /\ d.removed = b.removed /\ d.archived = b.archived
      /\ d.view = b.view /\ d.frozen = b.frozen /\ d.readOnly = b.readOnly
  BY <1>2 DEF Row
<1>5. RequiresBridgeDisable(d) <=> RequiresBridgeDisable(b)
  BY <1>4, RequiresSame
<1> HIDE DEF d
<1>6. Stored(d) /\ Shown(d)
  BY <1>1, <1>2, <1>4 DEF Stored, Shown
<1>7. QED
  BY <1>2, <1>3, <1>4, <1>5, <1>6 DEF b, d

\* A row follows itself.
LEMMA RowFollows ==
  ASSUME SubjectInv, NEW s \in Subjects
  PROVE  Follows(db.rows[s], db.rows[s]) /\ db.rows[s] \in Row /\ RowShape(db.rows[s])
BY DEF SubjectInv, TablesTyped, Tables, RowsWhole, RowWhole, Follows

\* Saving a draft keeps the subjects correct.
LEMMA SaveSubjectDraftKeeps ==
  ASSUME SubjectInv, NEW s \in Subjects, NEW p \in Packages, SaveSubjectDraft(s, p)
  PROVE  SubjectInv'
<1> DEFINE d == [Bump(db.rows[s], "draft") EXCEPT !.alias = p]
           rows == [db.rows EXCEPT ![s] = d]
<1>1. ~db.rows[s].removed /\ Write(rows, db.baseRemoved) /\ saved = None
  BY DEF SaveSubjectDraft, Write
<1>2. /\ d \in Row /\ Stored(d) /\ Shown(d) /\ d.lifecycle = "draft"
      /\ d.removed = db.rows[s].removed /\ d.archived = db.rows[s].archived
      /\ RequiresBridgeDisable(db.rows[s]) => RequiresBridgeDisable(d)
  BY RowFollows, DraftFollows
<1> HIDE DEF d
<1>3. db.rows \in [Subjects -> Row] /\ db.baseRemoved \in BOOLEAN
  BY DEF SubjectInv, TablesTyped, Tables
<1>4. Follows(d, db.rows[s])
  BY <1>1, <1>2, RowFollows DEF Follows, RowShape
<1>5. rows \in [Subjects -> Row] /\ \A r \in Subjects : Follows(rows[r], db.rows[r])
  BY <1>2, <1>3, <1>4, RowFollows
<1>6. ~db.baseRemoved
  BY <1>1, NobodyWaits DEF SubjectInv, BaseWhole
<1> HIDE DEF rows
<1>7. QED
  BY <1>1, <1>3, <1>5, <1>6, WriteKeeps

\* A preview of the Base keeps the subjects correct.
LEMMA UpsertBasePreviewKeeps ==
  ASSUME SubjectInv, NEW listed \in SUBSET Subjects, NEW changed \in SUBSET listed,
         UpsertBasePreview(listed, changed)
  PROVE  SubjectInv'
<1> DEFINE R(row) == Bump(row, IF row.lifecycle = "enabled" THEN "draft" ELSE row.lifecycle)
           N(s) == IF s \in changed THEN R(db.rows[s]) ELSE db.rows[s]
           rows == [s \in Subjects |-> IF s \notin listed THEN db.rows[s] ELSE Present(N(s))]
<1>1. Write(rows, FALSE)
  BY DEF UpsertBasePreview
<1>2. ASSUME NEW s \in Subjects
      PROVE  /\ R(db.rows[s]) \in Row /\ Stored(R(db.rows[s])) /\ Shown(R(db.rows[s]))
             /\ R(db.rows[s]).lifecycle # "enabled"
             /\ RequiresBridgeDisable(db.rows[s]) => RequiresBridgeDisable(R(db.rows[s]))
  <2> DEFINE row == db.rows[s]
             l == IF row.lifecycle = "enabled" THEN "draft" ELSE row.lifecycle
  <2>1. row \in Row /\ RowShape(row) /\ Stored(row) /\ Shown(row)
    BY RowFollows DEF RowShape
  <2>2. l \in Lifecycles /\ l \in {"draft", "disabled"} /\ (l = "disabled" => row.lifecycle = "disabled")
    BY <2>1 DEF Row, Lifecycles
  <2> HIDE DEF row
  <2>3. RequiresBridgeDisable(row) => l = "draft"
    BY <2>1, <2>2, RequiresByLifecycle DEF Row
  <2> HIDE DEF l
  <2>4. /\ Bump(row, l) \in Row /\ Stored(Bump(row, l)) /\ Bump(row, l).lifecycle = l
        /\ Bump(row, l).removed = row.removed /\ Bump(row, l).view = row.view
        /\ Bump(row, l).frozen = row.frozen /\ Bump(row, l).readOnly = row.readOnly
    BY <2>1, <2>2, BumpFits
  <2>5. RequiresBridgeDisable(row) => RequiresBridgeDisable(Bump(row, l))
    BY <2>1, <2>3, DraftKeepsRequires
  <2>6. Shown(Bump(row, l))
    BY <2>1, <2>4 DEF Shown
  <2>7. QED
    BY <2>2, <2>4, <2>5, <2>6 DEF l, row
<1>3. ASSUME NEW s \in Subjects
      PROVE  Follows(rows[s], db.rows[s]) /\ rows[s] \in Row
  <2> HIDE DEF R
  <2>1. CASE s \notin listed
    BY <2>1, RowFollows
  <2>2. CASE s \in listed /\ s \in changed
    <3>1. rows[s] = Present(R(db.rows[s]))
      BY <2>2
    <3>2. Follows(Present(R(db.rows[s])), db.rows[s])
      BY <1>2, PresentFollows
    <3>3. QED
      BY <3>1, <3>2 DEF Follows
  <2>3. CASE s \in listed /\ s \notin changed
    <3>1. rows[s] = Present(db.rows[s])
      BY <2>3
    <3>2. Follows(Present(db.rows[s]), db.rows[s])
      BY RowFollows, PresentFollows DEF RowShape
    <3>3. QED
      BY <3>1, <3>2 DEF Follows
  <2>4. QED
    BY <2>1, <2>2, <2>3
<1>4. rows \in [Subjects -> Row]
  BY <1>3
<1> HIDE DEF rows
<1>5. QED
  BY <1>1, <1>3, <1>4, WriteKeeps

\* Importing a shared configuration keeps the subjects correct.
LEMMA ImportShareableKeeps ==
  ASSUME SubjectInv, NEW listed \in SUBSET Subjects, NEW p \in Packages,
         ImportShareable(listed, p)
  PROVE  SubjectInv'
<1> DEFINE D(row) == [Bump(row, "draft") EXCEPT !.alias = p]
           rows == [s \in Subjects |-> IF s \in listed THEN Present(D(db.rows[s])) ELSE db.rows[s]]
<1>1. Write(rows, FALSE)
  BY DEF ImportShareable
<1>2. ASSUME NEW s \in Subjects
      PROVE  /\ D(db.rows[s]) \in Row /\ Stored(D(db.rows[s])) /\ Shown(D(db.rows[s]))
             /\ D(db.rows[s]).lifecycle = "draft"
             /\ RequiresBridgeDisable(db.rows[s]) => RequiresBridgeDisable(D(db.rows[s]))
  BY RowFollows, DraftFollows
<1>3. ASSUME NEW s \in Subjects
      PROVE  Follows(rows[s], db.rows[s]) /\ rows[s] \in Row
  <2> HIDE DEF D
  <2>1. CASE s \notin listed
    BY <2>1, RowFollows
  <2>2. CASE s \in listed
    <3>1. rows[s] = Present(D(db.rows[s]))
      BY <2>2
    <3>2. Follows(Present(D(db.rows[s])), db.rows[s])
      BY <1>2, PresentFollows
    <3>3. QED
      BY <3>1, <3>2 DEF Follows
  <2>3. QED
    BY <2>1, <2>2
<1>4. rows \in [Subjects -> Row]
  BY <1>3
<1> HIDE DEF rows
<1>5. QED
  BY <1>1, <1>3, <1>4, WriteKeeps

-----------------------------------------------------------------------------
(* The subjects: requests that await the Bridge.                           *)

\* What a request holds does not depend on the other tables or other requests.
LEMMA HeldStays ==
  ASSUME NEW k, Held(k), db'.rows = db.rows, saved' = saved, bridge' = bridge,
         saved # None
  PROVE  Held(k)'
<1>1. Committed' = Committed \/ (saved' # None /\ Committed' = saved' /\ Committed = saved)
  BY DEF Committed
<1>2. Committed' = Committed
  BY <1>1
<1>3. QED
  BY <1>2 DEF Held, TransitionHeld, RemovalHeld, Removing, StillDue, Spared, RemovedNow

\* A statement of another handler touches no subject.
LEMMA PlainStatementKeeps ==
  ASSUME SubjectInv, PlainStatement
  PROVE  SubjectInv'
<1>1. /\ notes < MaxNotes /\ notes' = notes + 1
      /\ db' = [db EXCEPT !.notes = @ + 1]
      /\ UNCHANGED <<saved, call, bridge, acked, unsettled, faults>>
      /\ db \in Tables
  BY DEF PlainStatement, SubjectInv, TablesTyped
<1>2. db' \in Tables /\ db'.rows = db.rows /\ db'.baseRemoved = db.baseRemoved
  BY <1>1 DEF Tables
<1>3. TablesTyped'
  <2>1. notes' \in 0..MaxNotes
    BY <1>1, SubjectAssumption DEF SubjectInv, TablesTyped
  <2>2. QED
    BY <1>1, <1>2, <2>1 DEF SubjectInv, TablesTyped
<1>4. Committed'.rows = Committed.rows /\ Committed'.baseRemoved = Committed.baseRemoved
  BY <1>1, <1>2 DEF Committed
<1>5. RowsWhole' /\ BaseWhole' /\ AckedExact'
  BY <1>1, <1>2, <1>4 DEF SubjectInv, RowsWhole, BaseWhole, AckedExact
<1>6. Owned'
  BY <1>1, <1>2 DEF SubjectInv, Owned, Waiting, At
<1>7. CallsFit'
  <2>1. ASSUME NEW c \in Calls, Waiting(c), call[c] # None
        PROVE  Held(call[c])'
    <3>1. saved # None /\ Held(call[c]) /\ call' = call
      BY <1>1, <2>1 DEF SubjectInv, Owned, CallsFit
    <3>2. QED
      BY <1>1, <1>2, <1>4, <3>1
         DEF Held, TransitionHeld, RemovalHeld, Removing, StillDue, Spared, RemovedNow
  <2>2. QED
    BY <1>1, <2>1 DEF SubjectInv, CallsFit, Waiting, At
<1>8. BridgeKnown'
  BY <1>1, <1>4 DEF SubjectInv, BridgeKnown, Told, Agrees, EnabledAtBridge
<1>9. QED
  BY <1>3, <1>5, <1>6, <1>7, <1>8 DEF SubjectInv

\* A request that does not wait for the Bridge may start, go on and end.
LEMMA BeforeBridge ==
  ASSUME SubjectInv, NEW c \in Calls, NEW k, ~Waiting(c),
         call' = [call EXCEPT ![c] = k],
         k = None \/ /\ k \in Call /\ k # None /\ k.pc \in {"alias", "begin"} /\ k.told = {}
                     /\ k.op = "transition" /\ k.lifecycle # "draft",
         UNCHANGED <<db, saved, bridge, notes, acked, unsettled, faults>>
  PROVE  SubjectInv'
<1>1. call \in [Calls -> Call \cup {None}]
  BY DEF SubjectInv, TablesTyped
<1>2. /\ call'[c] = k /\ \A d \in Calls : d # c => call'[d] = call[d]
      /\ call' \in [Calls -> Call \cup {None}]
  BY <1>1
<1>3. TablesTyped'
  BY <1>2 DEF SubjectInv, TablesTyped
<1>4. RowsWhole' /\ BaseWhole' /\ AckedExact' /\ Committed' = Committed
  BY DEF SubjectInv, RowsWhole, BaseWhole, AckedExact, Committed
<1>5. ~Waiting(c)' /\ \A d \in Calls : d # c => (Waiting(d)' <=> Waiting(d))
  BY <1>2 DEF Waiting, At
<1>6. Owned'
  <2>1. \A d \in Calls : Waiting(d)' <=> Waiting(d)
    BY <1>5
  <2>2. QED
    BY <2>1 DEF SubjectInv, Owned
<1>7. CallsFit'
  <2>1. ASSUME NEW d \in Calls, d # c, Waiting(d), call[d] # None
        PROVE  Held(call[d])'
    <3>1. saved # None /\ Held(call[d]) /\ call'[d] = call[d]
      BY <1>2, <2>1 DEF SubjectInv, Owned, CallsFit
    <3>2. QED
      BY <1>4, <3>1
         DEF Held, TransitionHeld, RemovalHeld, Removing, StillDue, Spared, RemovedNow
  <2>2. QED
    BY <1>2, <1>5, <2>1 DEF SubjectInv, CallsFit
<1>8. \A s \in Subjects : Told(s)' <=> Told(s)
  <2>1. call[c] # None => call[c].told = {}
    BY DEF SubjectInv, CallsFit
  <2>2. QED
    BY <1>2, <2>1 DEF Told
<1>9. BridgeKnown'
  BY <1>4, <1>8 DEF SubjectInv, BridgeKnown, Agrees, EnabledAtBridge
<1>10. QED
  BY <1>3, <1>4, <1>6, <1>7, <1>9 DEF SubjectInv

\* A request is accepted and reads the aliases.
LEMMA TransitionKeeps ==
  ASSUME SubjectInv, NEW c \in Calls, NEW s \in Subjects, NEW l \in {"enabled", "disabled"},
         Transition(c, s, l)
  PROVE  SubjectInv'
<1> DEFINE k == [op |-> "transition", subject |-> s, lifecycle |-> l,
                 version |-> Version(db.rows[s]), alias |-> db.rows[s].alias,
                 pc |-> IF l = "enabled" THEN "alias" ELSE "begin",
                 todo |-> {s}, told |-> {}]
<1>1. db.rows[s] \in Row
  BY RowFollows
<1>2. k \in Call /\ k # None
  <2>1. Version(db.rows[s]) \in Nat /\ db.rows[s].alias \in Packages
    BY <1>1 DEF Version, Row
  <2>2. k \in Call
    BY <2>1 DEF Call, Lifecycles
  <2>3. QED
    BY <2>2, SubjectAssumption
<1>3. /\ call' = [call EXCEPT ![c] = k] /\ ~Waiting(c)
      /\ UNCHANGED <<db, saved, bridge, notes, acked, unsettled, faults>>
  BY DEF Transition, Waiting, At
<1>4. k.pc \in {"alias", "begin"} /\ k.told = {} /\ k.op = "transition" /\ k.lifecycle # "draft"
  OBVIOUS
<1> HIDE DEF k
<1>5. QED
  BY <1>2, <1>3, <1>4, BeforeBridge

LEMMA ReadAliasesKeeps ==
  ASSUME SubjectInv, NEW c \in Calls, ReadAliases(c)
  PROVE  SubjectInv'
<1>1. /\ call[c] \in Call /\ call[c] # None /\ call[c].pc = "alias" /\ ~Waiting(c)
      /\ UNCHANGED <<db, saved, bridge, notes, acked, unsettled, faults>>
      /\ call \in [Calls -> Call \cup {None}]
  BY DEF ReadAliases, At, Waiting, SubjectInv, TablesTyped
<1>2. call[c].told = {} /\ call[c].op = "transition" /\ call[c].lifecycle # "draft"
  BY <1>1 DEF SubjectInv, CallsFit
<1>3. CASE Return(c)
  BY <1>1, <1>3, BeforeBridge DEF Return
<1>4. CASE Goto(c, "begin")
  <2> DEFINE k == [call[c] EXCEPT !.pc = "begin"]
  <2>1. call' = [call EXCEPT ![c] = k]
    BY <1>1, <1>4 DEF Goto
  <2>2. k \in Call /\ k.pc = "begin" /\ k.told = {} /\ k.op = "transition" /\ k.lifecycle # "draft"
    BY <1>1, <1>2 DEF Call
  <2>3. k # None
    BY <2>2, SubjectAssumption
  <2> HIDE DEF k
  <2>4. QED
    BY <1>1, <2>1, <2>2, <2>3, BeforeBridge
<1>5. QED
  BY <1>3, <1>4 DEF ReadAliases

\* A transition opens the transaction on the version its client has seen, or ends.
LEMMA BeginTransitionKeeps ==
  ASSUME SubjectInv, NEW c \in Calls, BeginTransition(c)
  PROVE  SubjectInv'
<1> DEFINE row == db.rows[call[c].subject]
<1>k. PICK k : k = [call[c] EXCEPT !.pc = "sync"]
  OBVIOUS
<1>1. /\ call[c] \in Call /\ call[c] # None /\ call[c].pc = "begin" /\ ~Waiting(c)
      /\ UNCHANGED <<db, bridge, notes, acked, unsettled, faults>>
      /\ call \in [Calls -> Call \cup {None}]
  BY DEF BeginTransition, At, Waiting, SubjectInv, TablesTyped
<1>2. call[c].told = {} /\ call[c].op = "transition" /\ call[c].lifecycle # "draft"
  BY <1>1 DEF SubjectInv, CallsFit
<1>3. CASE Return(c) /\ UNCHANGED saved
  BY <1>1, <1>3, BeforeBridge DEF Return
<1>4. CASE /\ saved = None /\ ~row.removed /\ Version(row) = call[c].version
           /\ Version(row) < MaxVersion /\ Goto(c, "sync") /\ saved' = db
  <2>1. call' = [call EXCEPT ![c] = k]
    BY <1>1, <1>4, <1>k DEF Goto
  <2>2. /\ k \in Call /\ k # None /\ k.pc = "sync" /\ k.told = {} /\ k.op = "transition"
        /\ k.lifecycle = call[c].lifecycle /\ k.subject = call[c].subject
        /\ k.version = call[c].version
    <3>1. k \in Call
      BY <1>1, <1>k DEF Call
    <3>2. QED
      BY <1>1, <1>2, <1>k, <3>1, SubjectAssumption DEF Call
  <2>3. /\ call'[c] = k /\ \A d \in Calls : d # c => call'[d] = call[d]
        /\ call' \in [Calls -> Call \cup {None}]
    BY <1>1, <2>1, <2>2
  <2>4. db \in Tables /\ saved' # None /\ Committed' = db /\ Committed = db
    BY <1>4, SubjectAssumption DEF SubjectInv, TablesTyped, Committed
  <2>5. TablesTyped'
    BY <1>1, <1>4, <2>3, <2>4 DEF SubjectInv, TablesTyped
  <2>6. RowsWhole' /\ BaseWhole' /\ AckedExact'
    BY <1>1, <2>4 DEF SubjectInv, RowsWhole, BaseWhole, AckedExact
  <2>7. Waiting(c)' /\ \A d \in Calls : d # c => ~Waiting(d)'
    <3>1. \A d \in Calls : ~Waiting(d)
      BY <1>4, NobodyWaits
    <3>2. QED
      BY <2>2, <2>3, <3>1 DEF Waiting, At
  <2>8. Owned'
    BY <1>1, <1>4, <2>4, <2>7 DEF Owned
  <2>9. Held(k)'
    BY <1>1, <1>2, <1>4, <2>2, <2>4 DEF Held, TransitionHeld, Version
  <2>10. CallsFit'
    BY <2>3, <2>7, <2>9 DEF SubjectInv, CallsFit, Waiting, At
  <2>11. \A s \in Subjects : Told(s)' <=> Told(s)
    BY <1>2, <2>2, <2>3 DEF Told
  <2>12. BridgeKnown'
    BY <1>1, <2>4, <2>11 DEF SubjectInv, BridgeKnown, Agrees, EnabledAtBridge
  <2>13. QED
    BY <2>5, <2>6, <2>8, <2>10, <2>12 DEF SubjectInv
<1>5. QED
  BY <1>3, <1>4 DEF BeginTransition

\* The Bridge has accepted what the owner of the transaction has sent.
LEMMA BridgeAcceptsKeeps ==
  ASSUME SubjectInv, NEW c \in Calls, BridgeAccepts(c)
  PROVE  SubjectInv'
<1>s. PICK s : s = call[c].subject
  OBVIOUS
<1>k. PICK k : k = [call[c] EXCEPT !.pc = "accepted", !.told = @ \cup {s}]
  OBVIOUS
<1>t. PICK snapshot : snapshot = [lifecycle |-> call[c].lifecycle, version |-> call[c].version + 1]
  OBVIOUS
<1>1. /\ call[c] \in Call /\ call[c] # None /\ call[c].pc = "sync" /\ Waiting(c)
      /\ bridge' = [bridge EXCEPT ![s] = snapshot]
      /\ call' = [call EXCEPT ![c] = k]
      /\ UNCHANGED <<db, saved, notes, acked, unsettled, faults>>
      /\ call \in [Calls -> Call \cup {None}] /\ bridge \in [Subjects -> Snapshot \cup {None}]
  BY <1>s, <1>k, <1>t DEF BridgeAccepts, At, Waiting, SubjectInv, TablesTyped
<1>2. /\ k \in Call /\ k # None /\ k.pc = "accepted" /\ k.told = call[c].told \cup {s}
      /\ k.op = call[c].op /\ k.lifecycle = call[c].lifecycle /\ k.subject = s
      /\ k.version = call[c].version /\ k.todo = call[c].todo /\ s \in Subjects
  <2>1. k \in Call
    BY <1>1, <1>s, <1>k DEF Call
  <2>2. QED
    BY <1>1, <1>s, <1>k, <2>1, SubjectAssumption DEF Call
<1>3. snapshot \in Snapshot /\ snapshot # None
  <2>1. snapshot \in Snapshot
    BY <1>1, <1>t DEF Call, Snapshot
  <2>2. QED
    BY <2>1, SubjectAssumption
<1>4. saved # None /\ Held(call[c]) /\ \A d \in Calls : Waiting(d) => d = c
  BY <1>1 DEF SubjectInv, Owned, CallsFit
<1>5. /\ call'[c] = k /\ \A d \in Calls : d # c => call'[d] = call[d]
      /\ call' \in [Calls -> Call \cup {None}]
  BY <1>1, <1>2
<1>6. /\ bridge'[s] = snapshot /\ \A r \in Subjects : r # s => bridge'[r] = bridge[r]
      /\ bridge' \in [Subjects -> Snapshot \cup {None}]
  BY <1>1, <1>2, <1>3
<1>7. TablesTyped'
  BY <1>1, <1>5, <1>6 DEF SubjectInv, TablesTyped
<1>8. RowsWhole' /\ BaseWhole' /\ AckedExact' /\ Committed' = Committed
  BY <1>1 DEF SubjectInv, RowsWhole, BaseWhole, AckedExact, Committed
<1>9. \A d \in Calls : Waiting(d)' <=> Waiting(d)
  BY <1>1, <1>2, <1>5 DEF Waiting, At
<1>10. Owned'
  BY <1>1, <1>9 DEF SubjectInv, Owned
<1>11. Held(k)'
  <2>1. CASE call[c].op = "transition"
    <3>1. TransitionHeld(call[c]) /\ call[c].told = {}
      BY <1>1, <1>4, <2>1 DEF Held, TransitionHeld
    <3>2. TransitionHeld(k)'
      BY <1>1, <1>2, <1>6, <1>s, <1>t, <3>1 DEF TransitionHeld, Version
    <3>3. QED
      BY <1>2, <2>1, <3>2 DEF Held
  <2>2. CASE call[c].op # "transition"
    <3>1. /\ RemovalHeld(call[c]) /\ call[c].lifecycle = "disabled" /\ s \in call[c].todo
          /\ Removing(db.rows, call[c].op, call[c].todo, call[c].told)
      BY <1>4, <1>s, <2>2 DEF Held, RemovalHeld
    <3>2. \A r \in k.told : bridge'[r] # None /\ bridge'[r].lifecycle = "disabled"
      <4>1. ASSUME NEW r \in k.told
            PROVE  bridge'[r] # None /\ bridge'[r].lifecycle = "disabled"
        <5>1. CASE r = s
          BY <1>3, <1>6, <1>t, <3>1, <5>1
        <5>2. CASE r # s
          <6>1. r \in call[c].told /\ r \in Subjects
            BY <1>1, <1>2, <5>2 DEF Call
          <6>2. QED
            BY <1>6, <3>1, <5>2, <6>1 DEF Removing
        <5>3. QED
          BY <5>1, <5>2
      <4>2. QED
        BY <4>1
    <3>3. ASSUME NEW r \in Subjects
          PROVE  IF r \in k.todo THEN StillDue(db.rows, r)'
                 ELSE Spared(db.rows, k.op, k.told, r)' \/ RemovedNow(db.rows, k.told, r)'
      BY <1>1, <1>2, <1>8, <3>1 DEF Removing, StillDue, Spared, RemovedNow
    <3>4. Removing(db.rows, k.op, k.todo, k.told)'
      BY <3>2, <3>3 DEF Removing
    <3>5. QED
      BY <1>2, <2>2, <3>1, <3>4 DEF Held, RemovalHeld
  <2>3. QED
    BY <2>1, <2>2
<1>12. CallsFit'
  <2>1. ASSUME NEW d \in Calls, d # c, call'[d] # None
        PROVE  ~Waiting(d)' /\ call'[d].told = {} /\ call'[d].op = "transition"
               /\ call'[d].lifecycle # "draft"
    BY <1>4, <1>5, <1>9, <2>1 DEF SubjectInv, CallsFit
  <2>2. QED
    BY <1>1, <1>5, <1>9, <1>11, <2>1 DEF CallsFit
<1>13. Told(s)' /\ \A r \in Subjects : r # s => (Told(r)' <=> Told(r))
  BY <1>1, <1>2, <1>5 DEF Told
<1>14. BridgeKnown'
  BY <1>1, <1>6, <1>8, <1>13 DEF SubjectInv, BridgeKnown, Agrees, EnabledAtBridge
<1>15. QED
  BY <1>7, <1>8, <1>10, <1>12, <1>14 DEF SubjectInv

\* The request that waits for the Bridge owns the transaction: nobody else waits,
\* and nobody else has told the Bridge anything.
LEMMA OwnerAlone ==
  ASSUME SubjectInv, NEW c \in Calls, Waiting(c)
  PROVE  /\ call[c] \in Call /\ call[c] # None /\ Held(call[c])
         /\ saved # None /\ saved \in Tables /\ Committed = saved
         /\ db.baseRemoved = saved.baseRemoved
         /\ \A d \in Calls : d # c => ~Waiting(d)
         /\ \A d \in Calls : d # c /\ call[d] # None =>
              /\ call[d].told = {} /\ call[d].op = "transition"
              /\ call[d].lifecycle # "draft"
         /\ \A s \in Subjects : Told(s) <=> s \in call[c].told
<1>1. call[c] # None /\ call[c] \in Call
  BY DEF Waiting, At, SubjectInv, TablesTyped
<1>2. /\ saved # None /\ db.baseRemoved = saved.baseRemoved
      /\ \A d \in Calls : d # c => ~Waiting(d)
  BY DEF SubjectInv, Owned
<1>3. saved \in Tables /\ Committed = saved
  BY <1>2 DEF SubjectInv, TablesTyped, Committed
<1>4. /\ Held(call[c])
      /\ \A d \in Calls : d # c /\ call[d] # None =>
              /\ call[d].told = {} /\ call[d].op = "transition"
              /\ call[d].lifecycle # "draft"
  BY <1>1, <1>2 DEF SubjectInv, CallsFit
<1>5. \A s \in Subjects : Told(s) <=> s \in call[c].told
  BY <1>1, <1>4 DEF Told
<1>6. QED
  BY <1>1, <1>2, <1>3, <1>4, <1>5

\* When the owner returns nobody waits.
LEMMA OwnerReturns ==
  ASSUME SubjectInv, NEW c \in Calls, Return(c), \A d \in Calls : d # c => ~Waiting(d)
  PROVE  /\ call' \in [Calls -> Call \cup {None}]
         /\ \A d \in Calls : ~Waiting(d)'
         /\ \A d \in Calls : call'[d] # None =>
              /\ call'[d].told = {} /\ call'[d].op = "transition"
              /\ call'[d].lifecycle # "draft"
<1>1. call \in [Calls -> Call \cup {None}] /\ call' = [call EXCEPT ![c] = None]
  BY DEF SubjectInv, TablesTyped, Return
<1>2. /\ call' \in [Calls -> Call \cup {None}]
      /\ call'[c] = None /\ \A d \in Calls : d # c => call'[d] = call[d]
  BY <1>1
<1>3. \A d \in Calls : ~Waiting(d)'
  BY <1>2 DEF Waiting, At
<1>4. QED
  BY <1>2, <1>3 DEF SubjectInv, CallsFit

\* The tables go back to what was committed, and what the Bridge was told is
\* unsettled.
LEMMA UndoneKeeps ==
  ASSUME SubjectInv, db' = Committed, saved' = None,
         UNCHANGED <<bridge, notes, acked>>,
         unsettled' \subseteq Subjects, faults' \in 0..MaxFaults,
         call' \in [Calls -> Call \cup {None}],
         \A d \in Calls : ~Waiting(d)',
         \A d \in Calls : call'[d] # None =>
              /\ call'[d].told = {} /\ call'[d].op = "transition"
              /\ call'[d].lifecycle # "draft",
         \A s \in Subjects : s \notin unsettled' => s \notin unsettled /\ ~Told(s)
  PROVE  SubjectInv'
<1>1. Committed \in Tables
  BY DEF SubjectInv, TablesTyped, Committed
<1>2. TablesTyped'
  BY <1>1 DEF SubjectInv, TablesTyped
<1>3. \A s \in Subjects : RowWhole(db.rows[s])' /\ acked'[s] = Version(db.rows[s])'
  BY DEF SubjectInv, RowsWhole, AckedExact, RowWhole, RowShape, Stored, Shown, Version
<1>4. db'.baseRemoved => \A s \in Subjects : db'.rows[s].removed
  BY DEF SubjectInv, BaseWhole
<1>5. ASSUME NEW s \in Subjects, s \notin unsettled'
      PROVE  Agrees(db.rows[s], s)'
  <2>1. Agrees(Committed.rows[s], s)
    BY <1>5 DEF SubjectInv, BridgeKnown
  <2>2. QED
    BY <2>1 DEF Agrees, EnabledAtBridge, RequiresBridgeDisable, LastSyncedEnabled, Version
<1>6. QED
  BY <1>2, <1>3, <1>4, <1>5, QuietTables

\* A request the Bridge refuses, or whose answer is lost, is rolled back.
LEMMA RollbackKeeps ==
  ASSUME SubjectInv, NEW c \in Calls, Waiting(c), Rollback(c),
         UNCHANGED <<bridge, notes, acked>>, faults' \in 0..MaxFaults
  PROVE  SubjectInv'
<1>1. /\ saved # None /\ Committed = saved /\ call[c] \in Call
      /\ \A d \in Calls : d # c => ~Waiting(d)
      /\ \A s \in Subjects : Told(s) <=> s \in call[c].told
  BY OwnerAlone
<1>2. /\ db' = Committed /\ saved' = None /\ Return(c)
      /\ unsettled' = unsettled \cup call[c].told
  BY <1>1 DEF Rollback
<1>3. unsettled' \subseteq Subjects
  BY <1>1, <1>2 DEF SubjectInv, TablesTyped, Call
<1>4. \A s \in Subjects : s \notin unsettled' => s \notin unsettled /\ ~Told(s)
  BY <1>1, <1>2
<1>5. QED
  BY <1>1, <1>2, <1>3, <1>4, OwnerReturns, UndoneKeeps

LEMMA BridgeRefusesKeeps ==
  ASSUME SubjectInv, NEW c \in Calls, BridgeRefuses(c)
  PROVE  SubjectInv'
<1>1. /\ Waiting(c) /\ Rollback(c) /\ UNCHANGED <<bridge, notes, acked, faults>>
      /\ faults' \in 0..MaxFaults
  BY DEF BridgeRefuses, Waiting, SubjectInv, TablesTyped
<1>2. QED
  BY <1>1, RollbackKeeps

LEMMA AnswerLostKeeps ==
  ASSUME SubjectInv, NEW c \in Calls, AnswerLost(c)
  PROVE  SubjectInv'
<1>1. /\ Waiting(c) /\ Rollback(c) /\ UNCHANGED <<bridge, notes, acked>>
      /\ faults < MaxFaults /\ faults' = faults + 1 /\ faults \in 0..MaxFaults
  BY DEF AnswerLost, Waiting, SubjectInv, TablesTyped
<1>2. faults' \in 0..MaxFaults
  BY <1>1, SubjectAssumption
<1>3. QED
  BY <1>1, <1>2, RollbackKeeps

\* A crash rolls the open transaction back and forgets the requests.
LEMMA CrashKeeps ==
  ASSUME SubjectInv, Crash
  PROVE  SubjectInv'
<1>1. /\ db' = Committed /\ saved' = None /\ UNCHANGED <<bridge, notes, acked>>
      /\ call' = [c \in Calls |-> None]
      /\ faults < MaxFaults /\ faults' = faults + 1 /\ faults \in 0..MaxFaults
      /\ unsettled' = unsettled \cup UNION {call[c].told : c \in {d \in Calls : call[d] # None}}
  BY DEF Crash, Committed, SubjectInv, TablesTyped
<1>2. faults' \in 0..MaxFaults
  BY <1>1, SubjectAssumption
<1>3. /\ call' \in [Calls -> Call \cup {None}] /\ \A d \in Calls : call'[d] = None
      /\ \A d \in Calls : ~Waiting(d)'
  BY <1>1 DEF Waiting, At
<1>4. unsettled' \subseteq Subjects
  <2>1. \A d \in Calls : call[d] # None => call[d].told \subseteq Subjects
    BY DEF SubjectInv, TablesTyped, Call
  <2>2. unsettled \subseteq Subjects
    BY DEF SubjectInv, TablesTyped
  <2>3. QED
    BY <1>1, <2>1, <2>2
<1>5. \A s \in Subjects : s \notin unsettled' => s \notin unsettled /\ ~Told(s)
  BY <1>1 DEF Told
<1>6. QED
  BY <1>1, <1>2, <1>3, <1>4, <1>5, UndoneKeeps

\* A transition is committed as the version the Bridge has accepted.
LEMMA CommitTransitionKeeps ==
  ASSUME SubjectInv, NEW c \in Calls, CommitTransition(c)
  PROVE  SubjectInv'
<1>s. PICK s : s = call[c].subject
  OBVIOUS
<1>k. PICK k : k = call[c]
  OBVIOUS
<1>r. PICK rows : rows = [db.rows EXCEPT ![s] = Bump(@, k.lifecycle)]
  OBVIOUS
<1>1. /\ Waiting(c) /\ k.op = "transition" /\ k.pc = "accepted" /\ call[c] # None
      /\ Version(db.rows[s]) = k.version
      /\ db' = [db EXCEPT !.rows = rows, !.baseRemoved = db.baseRemoved]
      /\ saved' = None /\ Return(c)
      /\ acked' = [r \in Subjects |-> Version(rows[r])]
      /\ unsettled' = unsettled \ k.told
      /\ UNCHANGED <<bridge, notes, faults>>
  BY <1>s, <1>k, <1>r DEF CommitTransition, Commit, Waiting, At
<1>2. /\ k \in Call /\ Held(k) /\ Committed = saved /\ db.baseRemoved = saved.baseRemoved
      /\ \A d \in Calls : d # c => ~Waiting(d)
      /\ \A r \in Subjects : Told(r) <=> r \in k.told
  BY <1>1, <1>k, OwnerAlone
<1>3. /\ s \in Subjects /\ k.subject = s /\ k.lifecycle \in {"enabled", "disabled"}
      /\ db.rows = saved.rows /\ ~db.rows[s].removed /\ k.version < MaxVersion
      /\ k.told = {s}
      /\ bridge[s] = [lifecycle |-> k.lifecycle, version |-> k.version + 1]
  <2>1. TransitionHeld(k) /\ k.lifecycle # "draft"
    BY <1>1, <1>2 DEF Held, TransitionHeld
  <2>2. k.subject = s /\ s \in Subjects /\ k.lifecycle \in {"enabled", "disabled"}
    BY <1>2, <1>k, <1>s, <2>1 DEF Call, Lifecycles
  <2>3. QED
    BY <1>1, <2>1, <2>2 DEF TransitionHeld
<1>4. PICK new : new = Bump(db.rows[s], k.lifecycle)
  OBVIOUS
<1>5. /\ new \in Row /\ Stored(new) /\ new.lifecycle = k.lifecycle
      /\ Version(new) = Version(db.rows[s]) + 1
      /\ new.removed = db.rows[s].removed /\ new.archived = db.rows[s].archived
      /\ new.view = db.rows[s].view /\ new.frozen = db.rows[s].frozen
      /\ new.readOnly = db.rows[s].readOnly
  <2>1. k.lifecycle \in Lifecycles /\ db.rows[s] \in Row
    BY <1>3, RowFollows DEF Lifecycles
  <2>2. QED
    BY <1>4, <2>1, BumpFits
<1>6. /\ db.rows \in [Subjects -> Row] /\ db \in Tables
      /\ \A r \in Subjects : RowWhole(db.rows[r])
  BY DEF SubjectInv, TablesTyped, Tables, RowsWhole
<1>7. /\ rows \in [Subjects -> Row] /\ rows[s] = new
      /\ \A r \in Subjects : r # s => rows[r] = db.rows[r]
  BY <1>r, <1>3, <1>4, <1>5, <1>6
<1>8. db' \in Tables /\ db'.rows = rows /\ db'.baseRemoved = db.baseRemoved
  BY <1>1, <1>6, <1>7 DEF Tables
<1>9. RowWhole(new)
  <2>1. Version(new) <= MaxVersion
    BY <1>1, <1>2, <1>3, <1>5, SubjectAssumption DEF Call
  <2>2. Shown(db.rows[s]) /\ db.rows[s].removed = db.rows[s].archived
    BY <1>3, <1>6 DEF RowWhole, RowShape
  <2>3. Shown(new)
    BY <1>5, <2>2 DEF Shown
  <2>4. QED
    BY <1>3, <1>5, <2>1, <2>2, <2>3 DEF RowWhole, RowShape
<1>10. \A r \in Subjects : RowWhole(rows[r])
  BY <1>6, <1>7, <1>9
<1>11. acked' \in [Subjects -> 1..MaxVersion]
  <2>1. ASSUME NEW r \in Subjects
        PROVE  Version(rows[r]) \in 1..MaxVersion
    BY <1>7, <1>10, SubjectAssumption DEF RowWhole, RowShape, Stored, Version, Row
  <2>2. QED
    BY <1>1, <2>1
<1>12. TablesTyped'
  <2>1. unsettled' \subseteq Subjects /\ call' \in [Calls -> Call \cup {None}]
    BY <1>1, <1>2, OwnerReturns DEF SubjectInv, TablesTyped
  <2>2. QED
    BY <1>1, <1>8, <1>11, <2>1 DEF SubjectInv, TablesTyped
<1>13. \A r \in Subjects : RowWhole(db.rows[r])' /\ acked'[r] = Version(db.rows[r])'
  BY <1>1, <1>8, <1>10 DEF RowWhole, RowShape, Stored, Shown, Version
<1>14. ~db'.baseRemoved
  BY <1>2, <1>3, <1>8 DEF SubjectInv, BaseWhole
<1>15. ASSUME NEW r \in Subjects, r \notin unsettled'
       PROVE  Agrees(db.rows[r], r)'
  <2>1. CASE r = s
    <3>1. bridge[s] # None
      <4>1. bridge[s] \in Snapshot
        BY <1>2, <1>3 DEF Call, Snapshot
      <4>2. QED
        BY <4>1, SubjectAssumption
    <3>2. EnabledAtBridge(s) <=> new.lifecycle = "enabled"
      BY <1>3, <1>5, <3>1 DEF EnabledAtBridge
    <3>3. bridge[s].version = Version(new)
      BY <1>1, <1>3, <1>5
    <3>4. Agrees(rows[s], s)
      BY <1>7, <3>2, <3>3, RequiresByLifecycle DEF Agrees
    <3>5. QED
      BY <1>1, <1>8, <2>1, <3>4
         DEF Agrees, EnabledAtBridge, RequiresBridgeDisable, LastSyncedEnabled, Version
  <2>2. CASE r # s
    <3>1. Agrees(Committed.rows[r], r)
      BY <1>1, <1>2, <1>3, <1>15, <2>2 DEF SubjectInv, BridgeKnown
    <3>2. db'.rows[r] = Committed.rows[r]
      BY <1>2, <1>3, <1>7, <1>8, <2>2
    <3>3. QED
      BY <1>1, <3>1, <3>2
         DEF Agrees, EnabledAtBridge, RequiresBridgeDisable, LastSyncedEnabled, Version
  <2>3. QED
    BY <2>1, <2>2
<1>16. QED
  BY <1>1, <1>2, <1>12, <1>13, <1>14, <1>15, OwnerReturns, QuietTables

-----------------------------------------------------------------------------
(* The subjects: removal.                                                  *)

\* What removeSubjectRows removes without telling the Bridge keeps the removal
\* consistent, and leaves the rest to be done.
LEMMA UntoldRemoved ==
  ASSUME SubjectInv, NEW op, NEW before \in [Subjects -> Row], NEW todo \in SUBSET Subjects,
         NEW told \in SUBSET Subjects, Removing(before, op, todo, told)
  PROVE  LET rows == RemoveUntold(before, todo)
             rest == todo \ Untold(before, todo)
         IN  /\ rows \in [Subjects -> Row]
             /\ \A s \in Subjects : RowWhole(rows[s])
             /\ Removing(rows, op, rest, told)
<1> DEFINE untold == Untold(before, todo)
           rows == RemoveUntold(before, todo)
           rest == todo \ untold
<1>1. /\ untold \subseteq todo
      /\ \A s \in untold : ~RequiresBridgeDisable(before[s])
  <2>1. ASSUME NEW s \in untold
        PROVE  ~RequiresBridgeDisable(before[s])
    <3>1. s \in todo /\ s \in Nat /\ s <= s
      BY SubjectAssumption DEF Untold
    <3>2. QED
      BY <3>1 DEF Untold
  <2>2. QED
    BY <2>1 DEF Untold
<1>2. \A s \in Subjects : rows[s] = IF s \in untold THEN RemoveRow(before[s]) ELSE before[s]
  BY DEF RemoveUntold
<1> HIDE DEF untold, rows
<1>3. \A s \in Subjects : Committed.rows[s] \in Row /\ RowWhole(Committed.rows[s])
  BY DEF SubjectInv, TablesTyped, Tables, RowsWhole, Committed
<1>4. ASSUME NEW s \in Subjects
      PROVE  IF s \in rest THEN StillDue(rows, s)
             ELSE Spared(rows, op, told, s) \/ RemovedNow(rows, told, s)
  <2>1. CASE s \in rest
    BY <1>2, <2>1 DEF Removing, StillDue
  <2>2. CASE s \in untold
    <3>1. StillDue(before, s) /\ ~RequiresBridgeDisable(before[s])
      BY <1>1, <2>2 DEF Removing
    <3>2. RemovedNow(rows, told, s)
      BY <1>2, <2>2, <3>1 DEF StillDue, RemovedNow
    <3>3. QED
      BY <2>2, <3>2
  <2>3. CASE s \notin todo
    BY <1>1, <1>2, <2>3 DEF Removing, Spared, RemovedNow
  <2>4. QED
    BY <2>1, <2>2, <2>3
<1>5. ASSUME NEW s \in Subjects
      PROVE  rows[s] \in Row /\ RowWhole(rows[s])
  <2>1. CASE rows[s] = Committed.rows[s]
    BY <1>3, <2>1
  <2>2. CASE RemovedNow(rows, told, s)
    <3>1. /\ Committed.rows[s] \in Row /\ RowShape(Committed.rows[s])
          /\ Version(Committed.rows[s]) <= MaxVersion
          /\ ~Committed.rows[s].removed /\ CanBump(Committed.rows[s])
          /\ rows[s] = RemoveRow(Committed.rows[s])
      BY <1>3, <2>2 DEF RemovedNow, RowWhole
    <3>2. QED
      BY <3>1, RemoveRowFits DEF RowWhole
  <2>3. QED
    BY <1>4, <2>1, <2>2 DEF StillDue, Spared
<1>6. rows \in [Subjects -> Row]
  <2>1. rows = [s \in Subjects |-> IF s \in untold THEN RemoveRow(before[s]) ELSE before[s]]
    BY DEF rows, RemoveUntold, untold
  <2>2. QED
    BY <1>2, <1>5, <2>1
<1>7. Removing(rows, op, rest, told)
  BY <1>4 DEF Removing
<1>8. QED
  BY <1>5, <1>6, <1>7 DEF rows, untold

\* A removal goes on to its next await, or commits everything at once.
LEMMA RemovalGoesOn ==
  ASSUME SubjectInv, NEW c \in Calls, NEW op \in {"removeSubject", "removeBase"},
         NEW before \in [Subjects -> Row], NEW todo \in SUBSET Subjects,
         NEW told \in SUBSET Subjects, Removing(before, op, todo, told),
         \A d \in Calls : d # c => ~Waiting(d),
         \A s \in Subjects : Told(s) <=> s \in told,
         ~Committed.baseRemoved, db.baseRemoved = Committed.baseRemoved,
         RemoveUntilBridge(c, op, before, todo, told),
         UNCHANGED <<bridge, notes, faults>>
  PROVE  SubjectInv'
<1>r. PICK rows : rows = RemoveUntold(before, todo)
  OBVIOUS
<1>t. PICK rest : rest = todo \ Untold(before, todo)
  OBVIOUS
<1>1. /\ rows \in [Subjects -> Row]
      /\ \A s \in Subjects : RowWhole(rows[s])
      /\ Removing(rows, op, rest, told)
  BY <1>r, <1>t, UntoldRemoved
<1>2. rest \subseteq Subjects
  BY <1>t
<1>3. db \in Tables
  BY DEF SubjectInv, TablesTyped
<1>4. CASE rest = {} /\ Commit(c, rows, db.baseRemoved \/ op = "removeBase", told)
  <2>1. /\ db' = [db EXCEPT !.rows = rows, !.baseRemoved = db.baseRemoved \/ op = "removeBase"]
        /\ saved' = None /\ Return(c)
        /\ acked' = [s \in Subjects |-> Version(rows[s])]
        /\ unsettled' = unsettled \ told
    BY <1>4 DEF Commit
  <2>2. /\ db' \in Tables /\ db'.rows = rows
        /\ db'.baseRemoved => op = "removeBase"
    BY <1>1, <1>3, <2>1 DEF Tables
  <2>3. acked' \in [Subjects -> 1..MaxVersion]
    <3>1. ASSUME NEW s \in Subjects
          PROVE  Version(rows[s]) \in 1..MaxVersion
      BY <1>1, SubjectAssumption DEF RowWhole, RowShape, Stored, Version, Row
    <3>2. QED
      BY <2>1, <3>1
  <2>4. TablesTyped'
    <3>1. unsettled' \subseteq Subjects /\ call' \in [Calls -> Call \cup {None}]
      BY <2>1, OwnerReturns DEF SubjectInv, TablesTyped
    <3>2. QED
      BY <2>1, <2>2, <2>3, <3>1 DEF SubjectInv, TablesTyped
  <2>5. \A s \in Subjects : RowWhole(db.rows[s])' /\ acked'[s] = Version(db.rows[s])'
    BY <1>1, <2>1, <2>2 DEF RowWhole, RowShape, Stored, Shown, Version
  <2>6. ASSUME NEW s \in Subjects
        PROVE  Spared(rows, op, told, s) \/ RemovedNow(rows, told, s)
    BY <1>1, <1>4 DEF Removing
  <2>7. ASSUME NEW s \in Subjects, RemovedNow(rows, told, s)
        PROVE  rows[s].removed /\ rows[s].lifecycle = "disabled"
    <3>1. Committed.rows[s] \in Row /\ RowShape(Committed.rows[s])
      BY DEF SubjectInv, TablesTyped, Tables, RowsWhole, RowWhole, Committed
    <3>2. QED
      BY <2>7, <3>1, RemoveRowFits DEF RemovedNow
  <2>8. op = "removeBase" => \A s \in Subjects : rows[s].removed
    BY <2>6, <2>7 DEF Spared
  <2>9. ASSUME NEW s \in Subjects, s \notin unsettled'
        PROVE  Agrees(db.rows[s], s)'
    <3>1. s \notin told => Agrees(Committed.rows[s], s)
      BY <2>1, <2>9 DEF SubjectInv, BridgeKnown
    <3>2. Agrees(rows[s], s)
      <4>1. CASE Spared(rows, op, told, s)
        BY <3>1, <4>1 DEF Spared
      <4>2. CASE RemovedNow(rows, told, s)
        <5>1. ~EnabledAtBridge(s)
          <6>1. CASE s \in told
            BY <1>1, <6>1 DEF Removing, EnabledAtBridge
          <6>2. CASE s \notin told
            BY <3>1, <4>2, <6>2 DEF RemovedNow, Agrees
          <6>3. QED
            BY <6>1, <6>2
        <5>2. QED
          BY <2>7, <4>2, <5>1 DEF Agrees
      <4>3. QED
        BY <2>6, <4>1, <4>2
    <3>3. db'.rows[s] = rows[s] /\ bridge' = bridge
      BY <2>2
    <3>4. QED
      BY <3>2, <3>3
         DEF Agrees, EnabledAtBridge, RequiresBridgeDisable, LastSyncedEnabled, Version
  <2>10. QED
    BY <2>1, <2>2, <2>4, <2>5, <2>8, <2>9, OwnerReturns, QuietTables
<1>5. CASE rest # {} /\ ~(rest = {} /\ Commit(c, rows, db.baseRemoved \/ op = "removeBase", told))
  <2>n. PICK next : next = Min(rest)
    OBVIOUS
  <2>k. PICK k : k = [op |-> op, subject |-> next, lifecycle |-> "disabled",
                      version |-> Version(rows[next]), alias |-> rows[next].alias,
                      pc |-> "sync", todo |-> rest, told |-> told]
    OBVIOUS
  <2>1. /\ db' = [db EXCEPT !.rows = rows]
        /\ saved' = IF saved = None THEN db ELSE saved
        /\ call' = [call EXCEPT ![c] = k]
        /\ UNCHANGED <<acked, unsettled>>
    BY <1>r, <1>t, <1>5, <2>n, <2>k DEF RemoveUntilBridge
  <2>2. next \in rest /\ next \in Subjects
    BY <1>2, <1>5, <2>n, MinExists, SubjectAssumption
  <2>3. /\ k \in Call /\ k # None /\ k.op = op /\ k.subject = next /\ k.lifecycle = "disabled"
        /\ k.pc = "sync" /\ k.todo = rest /\ k.told = told
    <3>1. Version(rows[next]) \in Nat /\ rows[next].alias \in Packages
      BY <1>1, <2>2 DEF Row, Version
    <3>2. k \in Call
      BY <1>2, <2>2, <2>k, <3>1 DEF Call, Lifecycles
    <3>3. QED
      BY <2>k, <3>2, SubjectAssumption
  <2>4. call \in [Calls -> Call \cup {None}]
    BY DEF SubjectInv, TablesTyped
  <2>5. /\ call'[c] = k /\ \A d \in Calls : d # c => call'[d] = call[d]
        /\ call' \in [Calls -> Call \cup {None}]
    BY <2>1, <2>3, <2>4
  <2>6. db' \in Tables /\ db'.rows = rows /\ db'.baseRemoved = db.baseRemoved
    BY <1>1, <1>3, <2>1 DEF Tables
  <2>7. /\ saved' \in Tables /\ saved' # None /\ saved' = Committed /\ Committed' = Committed
    BY <1>3, <2>1, SubjectAssumption DEF SubjectInv, TablesTyped, Committed
  <2>8. TablesTyped'
    BY <2>1, <2>5, <2>6, <2>7 DEF SubjectInv, TablesTyped
  <2>9. RowsWhole' /\ BaseWhole' /\ AckedExact'
    <3>1. RowsWhole'
      BY <1>1, <2>6, <2>7
         DEF SubjectInv, RowsWhole, RowWhole, RowShape, Stored, Shown, Version
    <3>2. BaseWhole' /\ AckedExact'
      BY <2>1, <2>7 DEF SubjectInv, BaseWhole, AckedExact, Version
    <3>3. QED
      BY <3>1, <3>2
  <2>10. Waiting(c)' /\ \A d \in Calls : d # c => ~Waiting(d)'
    BY <2>3, <2>5 DEF Waiting, At
  <2>11. Owned'
    BY <2>6, <2>7, <2>10 DEF Owned
  <2>12. Held(k)'
    <3>1. Removing(db.rows, op, rest, told)'
      <4>1. ASSUME NEW s \in Subjects
            PROVE  IF s \in rest THEN StillDue(db.rows, s)'
                   ELSE Spared(db.rows, op, told, s)' \/ RemovedNow(db.rows, told, s)'
        <5>1. IF s \in rest THEN StillDue(rows, s)
              ELSE Spared(rows, op, told, s) \/ RemovedNow(rows, told, s)
          BY <1>1 DEF Removing
        <5>2. QED
          BY <2>6, <2>7, <5>1 DEF StillDue, Spared, RemovedNow
      <4>2. \A s \in told : bridge'[s] # None /\ bridge'[s].lifecycle = "disabled"
        BY <1>1 DEF Removing
      <4>3. QED
        BY <4>1, <4>2 DEF Removing
    <3>2. QED
      BY <2>2, <2>3, <3>1 DEF Held, RemovalHeld
  <2>13. CallsFit'
    <3>1. ASSUME NEW d \in Calls, d # c, call'[d] # None
          PROVE  ~Waiting(d)' /\ call'[d].told = {} /\ call'[d].op = "transition"
                 /\ call'[d].lifecycle # "draft"
      BY <2>5, <2>10, <3>1 DEF SubjectInv, CallsFit
    <3>2. QED
      BY <2>5, <2>10, <2>12, <3>1 DEF CallsFit
  <2>14. \A s \in Subjects : Told(s)' <=> Told(s)
    <3>1. \A d \in Calls : d # c /\ call[d] # None => call[d].told = {}
      BY DEF SubjectInv, CallsFit
    <3>2. QED
      BY <2>3, <2>5, <3>1 DEF Told
  <2>15. BridgeKnown'
    BY <2>1, <2>7, <2>14 DEF SubjectInv, BridgeKnown, Agrees, EnabledAtBridge
  <2>16. QED
    BY <2>8, <2>9, <2>11, <2>13, <2>15 DEF SubjectInv
<1>6. QED
  BY <1>r, <1>t, <1>4, <1>5 DEF RemoveUntilBridge

\* One subject is removed.
LEMMA RemoveSubjectKeeps ==
  ASSUME SubjectInv, NEW c \in Calls, NEW s \in Subjects, RemoveSubject(c, s)
  PROVE  SubjectInv'
<1>b. PICK before : before = db.rows
  OBVIOUS
<1>1. /\ saved = None /\ Committed = db /\ ~db.rows[s].removed /\ CanRemove({s})
      /\ RemoveUntilBridge(c, "removeSubject", before, {s}, {})
      /\ UNCHANGED <<bridge, notes, faults>>
      /\ \A d \in Calls : ~Waiting(d)
      /\ \A r \in Subjects : ~Told(r)
  BY <1>b, NobodyWaits DEF RemoveSubject
<1>2. before \in [Subjects -> Row]
  BY <1>b DEF SubjectInv, TablesTyped, Tables
<1>3. Removing(before, "removeSubject", {s}, {})
  BY <1>1, <1>b DEF Removing, StillDue, Spared, CanRemove, CanBump
<1>4. ~Committed.baseRemoved
  BY <1>1 DEF SubjectInv, BaseWhole
<1>5. QED
  BY <1>1, <1>2, <1>3, <1>4, RemovalGoesOn

\* The whole Base is removed.
LEMMA RemoveBaseKeeps ==
  ASSUME SubjectInv, NEW c \in Calls, RemoveBase(c)
  PROVE  SubjectInv'
<1>b. PICK before : before = db.rows
  OBVIOUS
<1>t. PICK todo : todo = {s \in Subjects : ~db.rows[s].removed}
  OBVIOUS
<1>1. /\ saved = None /\ Committed = db /\ ~db.baseRemoved /\ CanRemove(todo)
      /\ RemoveUntilBridge(c, "removeBase", before, todo, {})
      /\ UNCHANGED <<bridge, notes, faults>>
      /\ \A d \in Calls : ~Waiting(d)
      /\ \A r \in Subjects : ~Told(r)
  BY <1>b, <1>t, NobodyWaits DEF RemoveBase
<1>2. before \in [Subjects -> Row] /\ todo \in SUBSET Subjects
  BY <1>b, <1>t DEF SubjectInv, TablesTyped, Tables
<1>3. Removing(before, "removeBase", todo, {})
  BY <1>1, <1>b, <1>t DEF Removing, StillDue, Spared, CanRemove, CanBump
<1>4. QED
  BY <1>1, <1>2, <1>3, RemovalGoesOn

\* The Bridge has disabled a subject: it is removed, and the removal goes on.
LEMMA ContinueRemovalKeeps ==
  ASSUME SubjectInv, NEW c \in Calls, ContinueRemoval(c)
  PROVE  SubjectInv'
<1>k. PICK k : k = call[c]
  OBVIOUS
<1>s. PICK s : s = k.subject
  OBVIOUS
<1>b. PICK before : before = [db.rows EXCEPT ![s] = RemoveRow(@)]
  OBVIOUS
<1>1. /\ Waiting(c) /\ k.op # "transition" /\ k.pc = "accepted" /\ call[c] # None
      /\ RemoveUntilBridge(c, k.op, before, k.todo \ {s}, k.told)
      /\ UNCHANGED <<bridge, notes, faults>>
  BY <1>k, <1>s, <1>b DEF ContinueRemoval, Waiting, At
<1>2. /\ k \in Call /\ Held(k) /\ Committed = saved /\ db.baseRemoved = saved.baseRemoved
      /\ \A d \in Calls : d # c => ~Waiting(d)
      /\ \A r \in Subjects : Told(r) <=> r \in k.told
  BY <1>1, <1>k, OwnerAlone
<1>3. /\ k.op \in {"removeSubject", "removeBase"} /\ k.todo \in SUBSET Subjects
      /\ k.told \in SUBSET Subjects /\ s \in Subjects
  BY <1>1, <1>2, <1>s DEF Call
<1>4. /\ s \in k.todo /\ s \in k.told
      /\ Removing(db.rows, k.op, k.todo, k.told)
  BY <1>1, <1>2, <1>s DEF Held, RemovalHeld
<1>5. StillDue(db.rows, s)
  BY <1>3, <1>4 DEF Removing
<1>6. db.rows \in [Subjects -> Row] /\ db.rows[s] \in Row /\ RowShape(db.rows[s])
  BY <1>3 DEF SubjectInv, TablesTyped, Tables, RowsWhole, RowWhole
<1>7. /\ before \in [Subjects -> Row] /\ before[s] = RemoveRow(db.rows[s])
      /\ \A r \in Subjects : r # s => before[r] = db.rows[r]
  <2>1. RemoveRow(db.rows[s]) \in Row
    BY <1>5, <1>6, RemoveRowFits DEF StillDue
  <2>2. QED
    BY <1>b, <1>3, <1>6, <2>1
<1>8. Removing(before, k.op, k.todo \ {s}, k.told)
  <2>1. ASSUME NEW r \in Subjects
        PROVE  IF r \in k.todo \ {s} THEN StillDue(before, r)
               ELSE Spared(before, k.op, k.told, r) \/ RemovedNow(before, k.told, r)
    <3>1. CASE r = s
      BY <1>4, <1>5, <1>7, <3>1 DEF StillDue, RemovedNow
    <3>2. CASE r # s
      <4>1. IF r \in k.todo THEN StillDue(db.rows, r)
            ELSE Spared(db.rows, k.op, k.told, r) \/ RemovedNow(db.rows, k.told, r)
        BY <1>4 DEF Removing
      <4>2. QED
        BY <1>7, <3>2, <4>1 DEF StillDue, Spared, RemovedNow
    <3>3. QED
      BY <3>1, <3>2
  <2>2. QED
    BY <1>4, <2>1 DEF Removing
<1>9. ~Committed.baseRemoved
  BY <1>3, <1>5 DEF SubjectInv, BaseWhole, StillDue
<1>10. k.todo \ {s} \in SUBSET Subjects /\ db.baseRemoved = Committed.baseRemoved
  BY <1>2, <1>3
<1>11. QED
  BY <1>1, <1>2, <1>3, <1>7, <1>8, <1>9, <1>10, RemovalGoesOn

-----------------------------------------------------------------------------
(* The package registry.                                                   *)

FileTyped ==
  /\ registry \in Catalog /\ catalog \in Catalog \cup {None}
  /\ mutations \in Seq(Mutation) /\ Len(mutations) <= MaxQueue
  /\ edits \in [Packages -> Nat]

\* The head of the queue was allowed by the catalog it has read.
Allowed(m) ==
  IF m.op = "create" THEN registry[m.package] = None
  ELSE /\ registry[m.package] # None
       /\ registry[m.package].revision # MaxRevision
       /\ m.op = "rename" => registry[m.to] = None

\* Mutations run one by one: what the head has read is what the file still holds.
CatalogIsFile ==
  catalog # None => mutations # <<>> /\ catalog = registry /\ Allowed(Head(mutations))

FileInv == FileTyped /\ CatalogIsFile /\ RegistryKeepsEdits

\* Steps that leave the registry alone keep its invariant.
LEMMA SameFile ==
  ASSUME FileInv, UNCHANGED registryVars
  PROVE  FileInv'
BY DEF FileInv, registryVars, FileTyped, CatalogIsFile, Allowed, RegistryKeepsEdits

\* The first of the queued mutations, and the others.
LEMMA FirstMutation ==
  ASSUME FileInv, mutations # <<>>
  PROVE  /\ Head(mutations) \in Mutation
         /\ Tail(mutations) \in Seq(Mutation) /\ Len(Tail(mutations)) <= MaxQueue
<1>1. mutations \in Seq(Mutation) /\ Len(mutations) <= MaxQueue /\ Len(mutations) \in Nat
  BY LenProperties DEF FileInv, FileTyped
<1>2. /\ Head(mutations) \in Mutation /\ Tail(mutations) \in Seq(Mutation)
      /\ Len(Tail(mutations)) = Len(mutations) - 1
  BY <1>1, HeadTailProperties
<1> DEFINE n == Len(mutations)
           m == Len(Tail(mutations))
<1> HIDE DEF n, m
<1>3. m = n - 1 /\ n \in Nat /\ n <= MaxQueue
  BY <1>1, <1>2 DEF n, m
<1>4. m <= MaxQueue
  BY <1>3, SubjectAssumption
<1>5. QED
  BY <1>2, <1>4 DEF m

\* A mutation joins the queue.
LEMMA EnqueueKeeps ==
  ASSUME FileInv, NEW op \in {"create", "save", "rename", "enable", "disable", "remove"},
         NEW p \in Packages, NEW q \in Packages, NEW r \in Nat, Enqueue(op, p, q, r)
  PROVE  FileInv'
<1>m. PICK m : m = [op |-> op, package |-> p, to |-> q, revision |-> r]
  OBVIOUS
<1>1. /\ Len(mutations) < MaxQueue /\ mutations' = Append(mutations, m)
      /\ UNCHANGED <<registry, catalog, edits>>
      /\ mutations \in Seq(Mutation) /\ m \in Mutation
  BY <1>m DEF Enqueue, FileInv, FileTyped, Mutation
<1>2. /\ mutations' \in Seq(Mutation) /\ Len(mutations') = Len(mutations) + 1
      /\ Len(mutations) \in Nat
  BY <1>1, AppendProperties, LenProperties
<1>3. Len(mutations') <= MaxQueue
  BY <1>1, <1>2, SubjectAssumption
<1>4. mutations # <<>> => mutations' # <<>> /\ Head(mutations') = Head(mutations)
  BY <1>1, <1>2
<1>5. QED
  BY <1>1, <1>2, <1>3, <1>4
     DEF FileInv, FileTyped, CatalogIsFile, Allowed, RegistryKeepsEdits

\* The head reads the catalog, or is refused.
LEMMA ReadCatalogKeeps ==
  ASSUME FileInv, ReadCatalog
  PROVE  FileInv'
<1>1. mutations # <<>> /\ catalog = None /\ UNCHANGED <<registry, edits>>
  BY DEF ReadCatalog
<1>2. CASE mutations' = Tail(mutations) /\ UNCHANGED catalog
  BY <1>1, <1>2, FirstMutation
     DEF FileInv, FileTyped, CatalogIsFile, RegistryKeepsEdits
<1>3. CASE /\ ~Refused(Head(mutations), registry) /\ catalog' = registry
           /\ UNCHANGED mutations
  <2>1. Allowed(Head(mutations))
    BY <1>3, FirstMutation DEF Refused, Allowed, Mutation
  <2>2. QED
    BY <1>1, <1>3, <2>1
       DEF FileInv, FileTyped, CatalogIsFile, Allowed, RegistryKeepsEdits
<1>4. QED
  BY <1>2, <1>3 DEF ReadCatalog

\* A mutation fails before it writes.
LEMMA MutationFailsKeeps ==
  ASSUME FileInv, MutationFails
  PROVE  FileInv'
<1>1. /\ mutations # <<>> /\ mutations' = Tail(mutations) /\ catalog' = None
      /\ UNCHANGED <<registry, edits>>
  BY DEF MutationFails, FileInv, CatalogIsFile
<1>2. QED
  BY <1>1, FirstMutation DEF FileInv, FileTyped, CatalogIsFile, RegistryKeepsEdits

\* The file is replaced, and counts the edit its client is told of.
LEMMA PersistCatalogKeeps ==
  ASSUME FileInv, PersistCatalog
  PROVE  FileInv'
<1>m. PICK m : m = Head(mutations)
  OBVIOUS
<1>1. /\ mutations # <<>> /\ mutations' = Tail(mutations) /\ catalog' = None
      /\ registry' = Mutated(m, registry) /\ Allowed(m)
      /\ edits' = CASE m.op \in {"create", "remove"} -> [edits EXCEPT ![m.package] = 0]
                    [] m.op = "rename" -> [edits EXCEPT ![m.package] = 0,
                                                        ![m.to] = edits[m.package] + 1]
                    [] OTHER -> [edits EXCEPT ![m.package] = @ + 1]
  BY <1>m DEF PersistCatalog, FileInv, CatalogIsFile
<1>2. m \in Mutation /\ m.package \in Packages /\ m.to \in Packages
  BY <1>1, <1>m, FirstMutation DEF Mutation
<1>3. /\ registry \in [Packages -> Record \cup {None}] /\ edits \in [Packages -> Nat]
      /\ \A p \in Packages : IF registry[p] = None THEN edits[p] = 0
                             ELSE registry[p].revision = edits[p] + 1
  BY DEF FileInv, FileTyped, Catalog, RegistryKeepsEdits
<1>o. PICK old : old = registry[m.package]
  OBVIOUS
<1>b. PICK bumped : bumped = [old EXCEPT !.revision = @ + 1]
  OBVIOUS
<1>4. ASSUME m.op # "create"
      PROVE  /\ old # None /\ old \in Record /\ bumped \in Record /\ bumped # None
             /\ bumped.revision = edits[m.package] + 2
             /\ edits[m.package] \in Nat
  <2>1. /\ old # None /\ old \in Record /\ old.revision # MaxRevision
        /\ old.revision = edits[m.package] + 1 /\ edits[m.package] \in Nat
    BY <1>1, <1>2, <1>3, <1>4, <1>o DEF Allowed
  <2>2. old.revision \in 1..MaxRevision /\ MaxRevision \in Nat
    BY <2>1, SubjectAssumption DEF Record
  <2>3. old.revision + 1 \in 1..MaxRevision
    BY <2>1, <2>2
  <2>4. bumped \in Record /\ bumped.revision = old.revision + 1
    BY <1>b, <2>1, <2>3 DEF Record
  <2>5. bumped # None
    BY <2>4, SubjectAssumption
  <2>6. QED
    BY <2>1, <2>4, <2>5
<1> DEFINE Right(r, e) == /\ r \in [Packages -> Record \cup {None}]
                          /\ e \in [Packages -> Nat]
                          /\ \A p \in Packages : IF r[p] = None THEN e[p] = 0
                                                 ELSE r[p].revision = e[p] + 1
<1>5. Right(registry', edits')
  <2>1. CASE m.op = "create"
    <3>1. /\ registry' = [registry EXCEPT ![m.package] = [state |-> "draft", revision |-> 1]]
          /\ edits' = [edits EXCEPT ![m.package] = 0]
      BY <1>1, <2>1 DEF Mutated
    <3>2. [state |-> "draft", revision |-> 1] \in Record
      BY SubjectAssumption DEF Record, Lifecycles
    <3>3. [state |-> "draft", revision |-> 1] # None
      BY <3>2, SubjectAssumption
    <3>4. QED
      BY <1>2, <1>3, <3>1, <3>2, <3>3
  <2>2. CASE m.op = "save"
    <3>1. /\ registry' = [registry EXCEPT ![m.package] = bumped]
          /\ edits' = [edits EXCEPT ![m.package] = @ + 1]
      BY <1>1, <1>o, <1>b, <2>2 DEF Mutated
    <3>2. QED
      BY <1>2, <1>3, <1>4, <2>2, <3>1
  <2>3. CASE m.op = "rename"
    <3>1. /\ registry' = [registry EXCEPT ![m.package] = None, ![m.to] = bumped]
          /\ edits' = [edits EXCEPT ![m.package] = 0, ![m.to] = edits[m.package] + 1]
      BY <1>1, <1>o, <1>b, <2>3 DEF Mutated
    <3>2. m.to # m.package
      BY <1>1, <2>3 DEF Allowed
    <3>3. bumped.revision = edits[m.package] + 2 /\ edits[m.package] \in Nat
      BY <1>4, <2>3
    <3>4. QED
      BY <1>2, <1>3, <1>4, <2>3, <3>1, <3>2, <3>3
  <2>4. CASE m.op \in {"enable", "disable"}
    <3>s. PICK state \in {"enabled", "disabled"} :
            registry' = [registry EXCEPT ![m.package] = [bumped EXCEPT !.state = state]]
      BY <1>1, <1>o, <1>b, <2>4 DEF Mutated
    <3>n. PICK new : new = [bumped EXCEPT !.state = state]
      OBVIOUS
    <3>1. /\ registry' = [registry EXCEPT ![m.package] = new]
          /\ edits' = [edits EXCEPT ![m.package] = @ + 1]
      BY <1>1, <2>4, <3>s, <3>n
    <3>2. new \in Record /\ new.revision = bumped.revision
      BY <1>4, <2>4, <3>n DEF Record, Lifecycles
    <3>3. new # None
      BY <3>2, SubjectAssumption
    <3>4. QED
      BY <1>2, <1>3, <1>4, <2>4, <3>1, <3>2, <3>3
  <2>5. CASE m.op = "remove"
    <3>1. /\ registry' = [registry EXCEPT ![m.package] = None]
          /\ edits' = [edits EXCEPT ![m.package] = 0]
      BY <1>1, <2>5 DEF Mutated
    <3>2. QED
      BY <1>2, <1>3, <3>1
  <2>6. QED
    BY <1>2, <2>1, <2>2, <2>3, <2>4, <2>5 DEF Mutation
<1>6. QED
  BY <1>1, <1>5, FirstMutation
     DEF FileInv, FileTyped, Catalog, CatalogIsFile, RegistryKeepsEdits

-----------------------------------------------------------------------------
(* The theorems.                                                           *)

\* The initial state satisfies both invariants.
LEMMA InitHolds == Init => SubjectInv /\ FileInv
<1> SUFFICES ASSUME Init PROVE SubjectInv /\ FileInv
  OBVIOUS
<1>1. PICK p \in Packages :
        db = [rows |-> [s \in Subjects |-> FirstDraft(p)], baseRemoved |-> FALSE, notes |-> 0]
  BY DEF Init
<1>d. PICK d : d = FirstDraft(p)
  OBVIOUS
<1>2. /\ d \in Row /\ RowWhole(d) /\ d.lifecycle = "draft" /\ Version(d) = 1
      /\ d.removed = FALSE
  <2>1. <<"draft">> \in Seq(Lifecycles)
    BY DEF Lifecycles
  <2>2. d \in Row
    BY <1>d, <2>1 DEF FirstDraft, Row, Lifecycles
  <2>3. QED
    BY <1>d, <2>2, SubjectAssumption DEF FirstDraft, RowWhole, RowShape, Stored, Shown, Version
<1>3. /\ db \in Tables /\ ~db.baseRemoved /\ \A s \in Subjects : db.rows[s] = d
  <2>1. db.rows = [s \in Subjects |-> d] /\ db.baseRemoved = FALSE /\ db.notes = 0
    BY <1>1, <1>d
  <2>2. db \in Tables
    BY <1>1, <1>2, <1>d DEF Tables
  <2>3. QED
    BY <2>1, <2>2
<1>4. /\ saved = None /\ call = [c \in Calls |-> None] /\ bridge = [s \in Subjects |-> None]
      /\ acked = [s \in Subjects |-> 1] /\ unsettled = {} /\ faults = 0 /\ notes = 0
      /\ Committed = db
  BY DEF Init, Committed
<1>5. TablesTyped
  BY <1>3, <1>4, SubjectAssumption DEF TablesTyped
<1>6. RowsWhole /\ BaseWhole /\ AckedExact
  BY <1>2, <1>3, <1>4 DEF RowsWhole, BaseWhole, AckedExact
<1>7. Owned /\ CallsFit
  BY <1>4 DEF Owned, CallsFit, Waiting, At
<1>8. BridgeKnown
  BY <1>2, <1>3, <1>4 DEF BridgeKnown, Agrees, EnabledAtBridge
<1>9. FileInv
  <2>1. /\ registry = [q \in Packages |-> [state |-> "enabled", revision |-> 1]]
        /\ mutations = <<>> /\ catalog = None /\ edits = [q \in Packages |-> 0]
    BY DEF Init
  <2>2. [state |-> "enabled", revision |-> 1] \in Record
    BY SubjectAssumption DEF Record, Lifecycles
  <2>3. [state |-> "enabled", revision |-> 1] # None
    BY <2>2, SubjectAssumption
  <2>4. registry \in Catalog /\ edits \in [Packages -> Nat]
    BY <2>1, <2>2 DEF Catalog
  <2>5. mutations \in Seq(Mutation) /\ Len(mutations) <= MaxQueue
    BY <2>1, SubjectAssumption
  <2>6. RegistryKeepsEdits
    BY <2>1, <2>3 DEF RegistryKeepsEdits
  <2>7. QED
    BY <2>1, <2>4, <2>5, <2>6 DEF FileInv, FileTyped, CatalogIsFile
<1>10. QED
  BY <1>5, <1>6, <1>7, <1>8, <1>9 DEF SubjectInv

\* Every step preserves the invariant of the subjects.
LEMMA SubjectStep == SubjectInv /\ [Next]_vars => SubjectInv'
<1> SUFFICES ASSUME SubjectInv, [Next]_vars PROVE SubjectInv'
  OBVIOUS
<1>1. CASE SubjectWrite
  BY <1>1, SaveSubjectDraftKeeps, UpsertBasePreviewKeeps, ImportShareableKeeps DEF SubjectWrite
<1>2. CASE PlainStatement
  BY <1>2, PlainStatementKeeps
<1>3. ASSUME NEW c \in Calls, CallStep(c)
      PROVE  SubjectInv'
  BY <1>3, ReadAliasesKeeps, BeginTransitionKeeps, BridgeAcceptsKeeps, BridgeRefusesKeeps,
     CommitTransitionKeeps, ContinueRemovalKeeps DEF CallStep
<1>4. ASSUME NEW c \in Calls,
             \/ \E s \in Subjects, l \in {"enabled", "disabled"} : Transition(c, s, l)
             \/ AnswerLost(c)
             \/ \E s \in Subjects : RemoveSubject(c, s)
             \/ RemoveBase(c)
      PROVE  SubjectInv'
  BY <1>4, TransitionKeeps, AnswerLostKeeps, RemoveSubjectKeeps, RemoveBaseKeeps
<1>5. CASE Crash
  BY <1>5, CrashKeeps
<1>6. CASE RegistryStep
  BY <1>6, SameSubjects DEF RegistryStep, ReadCatalog, MutationFails, PersistCatalog
<1>7. ASSUME NEW op, NEW p, NEW q, NEW r, Enqueue(op, p, q, r)
      PROVE  SubjectInv'
  BY <1>7, SameSubjects DEF Enqueue
<1>8. CASE UNCHANGED vars
  BY <1>8, SameSubjects DEF vars
<1>9. QED
  BY <1>1, <1>2, <1>3, <1>4, <1>5, <1>6, <1>7, <1>8 DEF Next

\* Every step preserves the invariant of the registry.
LEMMA FileStep == FileInv /\ [Next]_vars => FileInv'
<1> SUFFICES ASSUME FileInv, [Next]_vars PROVE FileInv'
  OBVIOUS
<1>1. CASE SubjectWrite \/ PlainStatement
  BY <1>1, SameFile DEF SubjectWrite, SaveSubjectDraft, UpsertBasePreview, ImportShareable,
     Write, PlainStatement
<1>2. ASSUME NEW c \in Calls, CallStep(c)
      PROVE  FileInv'
  BY <1>2, SameFile DEF CallStep, ReadAliases, BeginTransition, BridgeAccepts, BridgeRefuses,
     CommitTransition, ContinueRemoval
<1>3. ASSUME NEW c \in Calls,
             \/ \E s \in Subjects, l \in {"enabled", "disabled"} : Transition(c, s, l)
             \/ AnswerLost(c)
             \/ \E s \in Subjects : RemoveSubject(c, s)
             \/ RemoveBase(c)
      PROVE  FileInv'
  BY <1>3, SameFile DEF Transition, AnswerLost, RemoveSubject, RemoveBase
<1>4. CASE Crash
  <2>1. /\ mutations' = <<>> /\ catalog' = None /\ UNCHANGED <<registry, edits>>
    BY <1>4 DEF Crash
  <2>2. mutations' \in Seq(Mutation) /\ Len(mutations') <= MaxQueue
    BY <2>1, SubjectAssumption
  <2>3. QED
    BY <2>1, <2>2 DEF FileInv, FileTyped, CatalogIsFile, RegistryKeepsEdits
<1>5. CASE RegistryStep
  BY <1>5, ReadCatalogKeeps, MutationFailsKeeps, PersistCatalogKeeps DEF RegistryStep
<1>6. ASSUME NEW p \in Packages, NEW r \in Revisions(p)
      PROVE  r \in Nat
  BY <1>6, SubjectAssumption DEF Revisions, FileInv, FileTyped, Catalog, Record
<1>7. ASSUME NEW p \in Packages, NEW r \in Revisions(p),
             \/ \E op \in {"save", "enable", "disable", "remove"} : Enqueue(op, p, p, r)
             \/ \E q \in Packages \ {p} : Enqueue("rename", p, q, r)
      PROVE  FileInv'
  <2>1. r \in Nat
    BY <1>6
  <2>2. QED
    BY <1>7, <2>1, EnqueueKeeps
<1>8. ASSUME NEW p \in Packages, Enqueue("create", p, p, 0)
      PROVE  FileInv'
  BY <1>8, EnqueueKeeps
<1>9. CASE UNCHANGED vars
  BY <1>9, SameFile DEF vars
<1>10. QED
  BY <1>1, <1>2, <1>3, <1>4, <1>5, <1>7, <1>8, <1>9 DEF Next

\* Subjects, open transaction, Bridge and registry always fit together.
THEOREM SubjectInvariant == Spec => [](SubjectInv /\ FileInv)
<1>1. Init => SubjectInv /\ FileInv
  BY InitHolds
<1>2. SubjectInv /\ FileInv /\ [Next]_vars => (SubjectInv /\ FileInv)'
  BY SubjectStep, FileStep
<1>3. QED
  BY <1>1, <1>2, PTL DEF Spec

\* The transaction that a request keeps open while it awaits the Bridge belongs to
\* that request alone, and the tables are as saveVersion leaves them.
THEOREM TransactionsStayOwned == Spec => []TransactionsNest
<1>1. SubjectInv /\ FileInv => TransactionsNest
  <2> SUFFICES ASSUME SubjectInv, FileInv PROVE TransactionsNest
    OBVIOUS
  <2>1. TypeOK
    <3>1. \A s \in Subjects : Last(db.rows[s].history) = db.rows[s].lifecycle
      BY DEF SubjectInv, RowsWhole, RowWhole, RowShape, Stored, Last
    <3>2. QED
      BY <3>1 DEF TypeOK, SubjectInv, TablesTyped, FileInv, FileTyped
  <2>2. TransactionHasOwner
    <3> DEFINE waiting == {c \in Calls : At(c, "sync") \/ At(c, "accepted")}
    <3>1. waiting = {c \in Calls : Waiting(c)}
      BY DEF Waiting
    <3> HIDE DEF waiting
    <3>2. CASE saved = None
      BY <3>1, <3>2, NobodyWaits DEF TransactionHasOwner, waiting
    <3>3. CASE saved # None
      <4>1. PICK c \in Calls : Waiting(c)
        BY <3>3 DEF SubjectInv, Owned
      <4>2. waiting = {c}
        BY <3>1, <4>1 DEF SubjectInv, Owned
      <4>3. Cardinality(waiting) = 1
        BY <4>2, FS_Singleton
      <4>4. QED
        BY <3>3, <4>3 DEF TransactionHasOwner, waiting
    <3>4. QED
      BY <3>2, <3>3
  <2>3. QED
    BY <2>1, <2>2 DEF TransactionsNest
<1>2. QED
  BY <1>1, SubjectInvariant, PTL

\* What was acknowledged, a version of a subject or an edit of a package, is kept,
\* whatever other requests fail, roll back or crash.
THEOREM AckedEditsStay == Spec => []AckedEditsPersist
<1>1. SubjectInv /\ FileInv => AckedEditsPersist
  <2> SUFFICES ASSUME SubjectInv, FileInv PROVE AckedEditsPersist
    OBVIOUS
  <2>1. ASSUME NEW s \in Subjects
        PROVE  Version(Committed.rows[s]) >= acked[s]
    <3>1. acked[s] = Version(Committed.rows[s]) /\ acked[s] \in Nat
      BY SubjectAssumption DEF SubjectInv, AckedExact, TablesTyped
    <3>2. QED
      BY <3>1
  <2>2. QED
    BY <2>1 DEF AckedEditsPersist, AckedVersionsPersist, FileInv
<1>2. QED
  BY <1>1, SubjectInvariant, PTL

\* A subject whose snapshots are all settled runs at the Bridge exactly when it is
\* enabled or drafted over an enabled version here, with the version enabled here; and
\* a removal leaves no part of a Base behind.
THEOREM BridgeStaysInStep == Spec => []BridgeAgrees
<1>1. SubjectInv => BridgeAgrees
  <2> SUFFICES ASSUME SubjectInv PROVE BridgeAgrees
    OBVIOUS
  <2>1. ASSUME NEW s \in Settled
        PROVE  LET row == Committed.rows[s]
               IN  /\ row.lifecycle = "enabled" =>
                        EnabledAtBridge(s) /\ bridge[s].version = Version(row)
                   /\ row.lifecycle = "disabled" \/ row.removed => ~EnabledAtBridge(s)
    <3>1. s \in Subjects /\ s \notin unsettled /\ ~Told(s)
      BY <2>1 DEF Settled, Told
    <3>2. Agrees(Committed.rows[s], s)
      BY <3>1 DEF SubjectInv, BridgeKnown
    <3>3. Committed.rows[s].removed => Committed.rows[s].lifecycle = "disabled"
      BY <3>1 DEF SubjectInv, RowsWhole, RowWhole, RowShape
    <3>4. QED
      BY <3>2, <3>3, RequiresByLifecycle DEF Agrees
  <2>2. SettledMatchesBridge
    BY <2>1 DEF SettledMatchesBridge
  <2>3. RemovedTogether
    BY DEF SubjectInv, BaseWhole, RowsWhole, RowWhole, RowShape, Shown, RemovedTogether
  <2>4. QED
    BY <2>2, <2>3 DEF BridgeAgrees
<1>2. QED
  BY <1>1, SubjectInvariant, PTL
=============================================================================
