--------------------------- MODULE EventStoreProofs ---------------------------
(***************************************************************************)
(* What holds of EventStore for every set of Events, clients, Subjects and *)
(* Goals, every clock and every bound on versions.                         *)
(***************************************************************************)
EXTENDS EventStore, TLAPS

LEMMA CatalogType ==
  ASSUME CatalogTypeOK, GoalStep
  PROVE  CatalogTypeOK'
<1>1. ASSUME NEW s \in Subject, InsertSubject(s) PROVE CatalogTypeOK'
  BY <1>1 DEF InsertSubject, CatalogTypeOK
<1>2. ASSUME NEW g \in Goal, NEW state \in {"active", "inactive"},
             NEW ss \in SUBSET Subject, InsertGoal(g, state, ss)
      PROVE  CatalogTypeOK'
  BY <1>2 DEF InsertGoal, CatalogTypeOK
<1>3. ASSUME NEW g \in Goal, NEW state \in {"active", "inactive"},
             ConfigureGoal(g, state)
      PROVE  CatalogTypeOK'
  BY <1>3 DEF ConfigureGoal, CatalogTypeOK
<1>4. ASSUME NEW g \in Goal, RetireGoal(g) PROVE CatalogTypeOK'
  BY <1>4 DEF RetireGoal, CatalogTypeOK
<1>5. ASSUME NEW s \in Subject, NEW g \in Goal, Link(s, g) \/ Unlink(s, g)
      PROVE  CatalogTypeOK'
  BY <1>5 DEF Link, Unlink, CatalogTypeOK
<1>6. ASSUME NEW g \in Goal, NEW ss \in SUBSET Subject, Relink(g, ss)
      PROVE  CatalogTypeOK'
  BY <1>6 DEF Relink, CatalogTypeOK
<1>7. QED
  BY <1>1, <1>2, <1>3, <1>4, <1>5, <1>6 DEF GoalStep

\* Rewriting a row below the version bound keeps it well-typed.
LEMMA RewrittenRow ==
  ASSUME NEW r \in Row, r.version < MaxVersion,
         NEW start \in Time, NEW end \in Time \cup {Ongoing}
  PROVE  Rewritten(r, start, end) \in Row
<1>1. r.version \in Nat /\ r.version + 1 \in 0 .. MaxVersion
  BY VersionAssumption DEF Row
<1> QED BY <1>1 DEF Rewritten, Row

\* So is the row of a new Event.
LEMMA NewRow ==
  ASSUME MaxVersion > 0, NEW start \in Time, NEW end \in Time \cup {Ongoing}
  PROVE  [start |-> start, end |-> end, version |-> 1] \in Row
<1>1. 1 \in 0 .. MaxVersion
  BY VersionAssumption
<1> QED BY <1>1 DEF Row

LEMMA EligibleType == \A ss : Eligible(ss) \in SUBSET (Goal \X Subject)
BY DEF Eligible

LEMMA ReconcileType ==
  ASSUME TypeOK, NEW e \in EventId, NEW end, NEW added, NEW removed
  PROVE  Reconcile(e, end, added, removed) \in SUBSET (Goal \X Subject)
BY EligibleType DEF Reconcile, TypeOK

\* A client that may write holds a row of an Event.
LEMMA WritableType ==
  ASSUME TypeOK, NEW c \in Client, Writable(c)
  PROVE  held[c] \in Snapshot /\ held[c].id \in EventId
BY DEF TypeOK, Writable, Snapshot

(***************************************************************************)
(* Every state the program reaches is of the declared type.                *)
(***************************************************************************)
LEMMA TypeStep ==
  ASSUME TypeOK, [Next]_vars
  PROVE  TypeOK'
<1>1. CASE Tick
  BY <1>1, TimeAssumption DEF Tick, TypeOK, CatalogTypeOK, catalogVars, Time, Row, Ongoing, Snapshot
<1>2. ASSUME NEW c \in Client, NEW e \in EventId, Read(c, e) PROVE TypeOK'
  BY <1>2 DEF Read, TypeOK, CatalogTypeOK, catalogVars, Snapshot
<1>3. ASSUME NEW e \in EventId, NEW start \in Time, NEW ss \in SUBSET Subject,
             StartEvent(e, start, ss)
      PROVE  TypeOK'
  <2> DEFINE closed == [f \in EventId |->
                          IF f \in Running
                          THEN Rewritten(event[f], event[f].start, start)
                          ELSE event[f]]
             row == [start |-> start, end |-> Ongoing, version |-> 1]
  <2>1. row \in Row
    BY <1>3, NewRow DEF StartEvent
  <2>2. closed \in [EventId -> Row]
    <3> SUFFICES ASSUME NEW f \in EventId
                 PROVE  closed[f] \in Row
      OBVIOUS
    <3>1. CASE f \in Running
      <4>1. event[f] \in Row /\ event[f].start \in Time
        BY DEF TypeOK, Row
      <4>2. event[f].version < MaxVersion
        BY <3>1, <1>3 DEF StartEvent
      <4> QED BY <3>1, <4>1, <4>2, RewrittenRow
    <3>2. CASE f \notin Running
      BY <3>2 DEF TypeOK
    <3> QED BY <3>1, <3>2
  <2>3. event' \in [EventId -> Row]
    BY <1>3, <2>1, <2>2 DEF StartEvent
  <2>4. earned' \in [EventId -> SUBSET (Goal \X Subject)]
    BY <1>3, ReconcileType DEF StartEvent, TypeOK
  <2> QED
    BY <1>3, <2>3, <2>4 DEF StartEvent, TypeOK, CatalogTypeOK, catalogVars
<1>4. ASSUME NEW e \in EventId, NEW start \in Time, NEW end \in Time,
             NEW ss \in SUBSET Subject, AddPastEvent(e, start, end, ss)
      PROVE  TypeOK'
  <2>1. [start |-> start, end |-> end, version |-> 1] \in Row
    BY <1>4, NewRow DEF AddPastEvent
  <2> QED
    BY <1>4, <2>1, EligibleType
       DEF AddPastEvent, TypeOK, CatalogTypeOK, catalogVars
<1>5. ASSUME NEW c \in Client, NEW end \in Time, EndEvent(c, end)
      PROVE  TypeOK'
  <2> DEFINE e == held[c].id
  <2>1. e \in EventId /\ event[e] \in Row /\ event[e].version < MaxVersion
    BY <1>5, WritableType DEF EndEvent, Writable, TypeOK
  <2>2. Rewritten(event[e], event[e].start, end) \in Row
    BY <2>1, RewrittenRow DEF Row
  <2> QED
    BY <1>5, <2>1, <2>2, ReconcileType
       DEF EndEvent, TypeOK, CatalogTypeOK, catalogVars
<1>6. ASSUME NEW c \in Client, NEW start \in Time,
             NEW end \in Time \cup {Ongoing}, NEW ss \in SUBSET Subject,
             UpdateEvent(c, start, end, ss)
      PROVE  TypeOK'
  <2> DEFINE e == held[c].id
  <2>1. e \in EventId /\ event[e] \in Row /\ event[e].version < MaxVersion
    BY <1>6, WritableType DEF UpdateEvent, Writable, TypeOK
  <2>2. Rewritten(event[e], start, end) \in Row
    BY <2>1, RewrittenRow
  <2> QED
    BY <1>6, <2>1, <2>2, ReconcileType
       DEF UpdateEvent, TypeOK, CatalogTypeOK, catalogVars
<1>7. ASSUME NEW s \in Subject, DeleteSubject(s) PROVE TypeOK'
  <2>1. CatalogTypeOK'
    BY <1>7 DEF DeleteSubject, RetireSubject, TypeOK, CatalogTypeOK
  <2>2. event' \in [EventId -> Row]
    <3>1. \A e \in EventId : /\ event[e] \in Row
                              /\ event[e].start \in Time
                              /\ event[e].end \in Time \cup {Ongoing}
      BY DEF TypeOK, Row
    <3> QED BY <1>7, <3>1, RewrittenRow DEF DeleteSubject
  <2> QED
    BY <1>7, <2>1, <2>2 DEF DeleteSubject, TypeOK
<1>8. CASE CatalogStep
  BY <1>8, CatalogType DEF CatalogStep, TypeOK, eventVars
<1>9. CASE UNCHANGED vars
  BY <1>9 DEF vars, catalogVars, eventVars, TypeOK, CatalogTypeOK
<1>10. QED
  BY <1>1, <1>2, <1>3, <1>4, <1>5, <1>6, <1>7, <1>8, <1>9 DEF Next

THEOREM TypeCorrect == Spec => []TypeOK
<1>1. Init => TypeOK
  BY TimeAssumption, VersionAssumption
     DEF Init, CatalogInit, TypeOK, CatalogTypeOK, Row, Time, Ongoing
<1>2. TypeOK /\ [Next]_vars => TypeOK'
  BY TypeStep
<1> QED BY <1>1, <1>2, PTL DEF Spec
-----------------------------------------------------------------------------
(***************************************************************************)
(* The track: no two inserted Events overlap.                              *)
(***************************************************************************)
LEMMA OverlapSymmetric ==
  ASSUME NEW r, NEW q
  PROVE  Overlap(r, q) <=> Overlap(q, r)
BY DEF Overlap

\* An interval that ends earlier overlaps no more than it did.
LEMMA ShrunkOverlap ==
  ASSUME NEW r \in Row, NEW q \in Row, NEW s \in Row,
         s.start = r.start, s.end <= r.end, Overlap(s, q)
  PROVE  Overlap(r, q)
BY TimeAssumption DEF Overlap, Row, Time, Ongoing

LEMMA FitsKeepsDisjoint ==
  ASSUME NEW table \in [EventId -> Row], NEW e \in EventId, NEW r \in Row,
         Disjoint(table), Fits(table, e, r)
  PROVE  Disjoint([table EXCEPT ![e] = r])
BY OverlapSymmetric DEF Disjoint, Fits

\* Ending rows earlier, or only advancing their versions, keeps a table disjoint.
LEMMA ShrinkingKeepsDisjoint ==
  ASSUME NEW table \in [EventId -> Row], NEW other \in [EventId -> Row],
         Disjoint(table),
         \A f \in EventId : /\ other[f].version > 0 => table[f].version > 0
                            /\ other[f].start = table[f].start
                            /\ other[f].end <= table[f].end
  PROVE  Disjoint(other)
<1> SUFFICES ASSUME NEW e \in EventId, NEW f \in EventId, e # f,
                    other[e].version > 0, other[f].version > 0,
                    Overlap(other[e], other[f])
             PROVE  FALSE
  BY DEF Disjoint
<1>1. Overlap(table[e], other[f])
  BY ShrunkOverlap
<1>2. Overlap(table[f], table[e])
  BY <1>1, ShrunkOverlap, OverlapSymmetric
<1> QED BY <1>2 DEF Disjoint

LEMMA NoOverlapStep ==
  ASSUME TypeOK, TypeOK', AssignedLive, NoOverlap, [Next]_vars
  PROVE  NoOverlap'
<1> USE DEF NoOverlap
<1>0. SUFFICES Disjoint(event')
  BY DEF Disjoint
<1>1. ASSUME UNCHANGED event PROVE Disjoint(event')
  BY <1>1
<1>2. ASSUME NEW e \in EventId, NEW start \in Time, NEW ss \in SUBSET Subject,
             StartEvent(e, start, ss)
      PROVE  Disjoint(event')
  <2> DEFINE closed == [f \in EventId |->
                          IF f \in Running
                          THEN Rewritten(event[f], event[f].start, start)
                          ELSE event[f]]
             row == [start |-> start, end |-> Ongoing, version |-> 1]
  <2>1. closed \in [EventId -> Row]
    <3> SUFFICES ASSUME NEW f \in EventId
                 PROVE  closed[f] \in Row
      OBVIOUS
    <3>1. event[f] \in Row /\ event[f].start \in Time
      BY DEF TypeOK, Row
    <3>2. f \in Running => event[f].version < MaxVersion
      BY <1>2 DEF StartEvent
    <3> QED BY <3>1, <3>2, RewrittenRow
  <2>2. ASSUME NEW f \in EventId
        PROVE  /\ closed[f].version > 0 => event[f].version > 0
               /\ closed[f].start = event[f].start
               /\ closed[f].end <= event[f].end
    <3>1. event[f] \in Row
      BY DEF TypeOK
    <3>2. CASE f \in Running
      BY <3>1, <3>2, TimeAssumption
         DEF Running, Inserted, Rewritten, Row, Time, Ongoing
    <3>3. CASE f \notin Running
      BY <3>1, <3>3, TimeAssumption DEF Row, Time, Ongoing
    <3> QED BY <3>2, <3>3
  <2>3. Disjoint(closed)
    BY <2>1, <2>2, ShrinkingKeepsDisjoint DEF TypeOK
  <2>4. row \in Row
    BY <1>2, NewRow DEF StartEvent
  <2>5. Fits(closed, e, row) /\ event' = [closed EXCEPT ![e] = row]
    BY <1>2 DEF StartEvent
  <2> QED BY <2>1, <2>3, <2>4, <2>5, FitsKeepsDisjoint
<1>3. ASSUME NEW e \in EventId, NEW start \in Time, NEW end \in Time,
             NEW ss \in SUBSET Subject, AddPastEvent(e, start, end, ss)
      PROVE  Disjoint(event')
  <2>1. [start |-> start, end |-> end, version |-> 1] \in Row
    BY <1>3, NewRow DEF AddPastEvent
  <2> QED BY <1>3, <2>1, FitsKeepsDisjoint DEF AddPastEvent, TypeOK
<1>4. ASSUME NEW c \in Client, NEW end \in Time, EndEvent(c, end)
      PROVE  Disjoint(event')
  <2> DEFINE e == held[c].id
  <2>1. e \in EventId /\ event[e] \in Row /\ event[e].version < MaxVersion
    BY <1>4, WritableType DEF EndEvent, Writable, TypeOK
  <2>2. Rewritten(event[e], event[e].start, end) \in Row
    BY <2>1, RewrittenRow DEF Row
  <2> QED BY <1>4, <2>1, <2>2, FitsKeepsDisjoint DEF EndEvent, TypeOK
<1>5. ASSUME NEW c \in Client, NEW start \in Time,
             NEW end \in Time \cup {Ongoing}, NEW ss \in SUBSET Subject,
             UpdateEvent(c, start, end, ss)
      PROVE  Disjoint(event')
  <2> DEFINE e == held[c].id
  <2>1. e \in EventId /\ event[e] \in Row /\ event[e].version < MaxVersion
    BY <1>5, WritableType DEF UpdateEvent, Writable, TypeOK
  <2>2. Rewritten(event[e], start, end) \in Row
    BY <2>1, RewrittenRow
  <2> QED BY <1>5, <2>1, <2>2, FitsKeepsDisjoint DEF UpdateEvent, TypeOK
<1>6. ASSUME NEW s \in Subject, DeleteSubject(s)
      PROVE  Disjoint(event')
  <2>1. ASSUME NEW f \in EventId
        PROVE  /\ event'[f].version > 0 => event[f].version > 0
               /\ event'[f].start = event[f].start
               /\ event'[f].end <= event[f].end
    <3>1. event[f] \in Row
      BY DEF TypeOK
    <3>2. s \in assigned[f] => event[f].version > 0
      BY DEF AssignedLive, Inserted
    <3>3. CASE s \in assigned[f]
      BY <1>6, <3>1, <3>2, <3>3, TimeAssumption
         DEF DeleteSubject, Rewritten, Row, Time, Ongoing
    <3>4. CASE s \notin assigned[f]
      BY <1>6, <3>1, <3>4, TimeAssumption DEF DeleteSubject, Row, Time, Ongoing
    <3> QED BY <3>3, <3>4
  <2> QED BY <2>1, ShrinkingKeepsDisjoint DEF TypeOK
<1>7. CASE Tick \/ CatalogStep \/ UNCHANGED vars
  BY <1>1, <1>7 DEF Tick, CatalogStep, vars, eventVars
<1>8. ASSUME NEW c \in Client, NEW e \in EventId, Read(c, e)
      PROVE  Disjoint(event')
  BY <1>1, <1>8 DEF Read
<1> QED
  BY <1>2, <1>3, <1>4, <1>5, <1>6, <1>7, <1>8 DEF Next
-----------------------------------------------------------------------------
(***************************************************************************)
(* Versions: every change of an Event or of its Subjects advances its      *)
(* version, so a client whose version is current holds the current row.    *)
(***************************************************************************)
LEMMA RewritingAdvances ==
  ASSUME NEW r \in Row, NEW start, NEW end
  PROVE  Rewritten(r, start, end).version > r.version
BY VersionAssumption DEF Row, Rewritten

LEMMA ChangeAdvancesVersion ==
  ASSUME TypeOK, AssignedLive, [Next]_vars, NEW e \in EventId
  PROVE  \/ event'[e] = event[e] /\ assigned'[e] = assigned[e]
         \/ event'[e].version > event[e].version
<1> DEFINE Same == event'[e] = event[e] /\ assigned'[e] = assigned[e]
           Newer == event'[e].version > event[e].version
<1>0. event[e] \in Row
  BY DEF TypeOK
<1>1. CASE Tick \/ CatalogStep \/ UNCHANGED vars
  BY <1>1 DEF Tick, CatalogStep, vars, eventVars
<1>2. ASSUME NEW c \in Client, NEW f \in EventId, Read(c, f) PROVE Same
  BY <1>2 DEF Read
<1>3. ASSUME NEW f \in EventId, NEW start \in Time, NEW ss \in SUBSET Subject,
             StartEvent(f, start, ss)
      PROVE  Same \/ Newer
  <2>1. CASE e = f
    <3>1. event[e].version = 0
      BY <1>0, <1>3, <2>1, VersionAssumption DEF StartEvent, Inserted, Row
    <3>2. event'[e].version = 1
      BY <1>3, <2>1 DEF StartEvent
    <3> QED BY <3>1, <3>2
  <2>2. CASE e # f /\ e \in Running
    <3>1. event'[e] = Rewritten(event[e], event[e].start, start)
      BY <1>3, <2>2 DEF StartEvent
    <3> QED BY <1>0, <3>1, RewritingAdvances
  <2>3. CASE e # f /\ e \notin Running
    BY <1>3, <2>3 DEF StartEvent, TypeOK
  <2> QED BY <2>1, <2>2, <2>3
<1>4. ASSUME NEW f \in EventId, NEW start \in Time, NEW end \in Time,
             NEW ss \in SUBSET Subject, AddPastEvent(f, start, end, ss)
      PROVE  Same \/ Newer
  <2>1. CASE e = f
    <3>1. event[e].version = 0
      BY <1>0, <1>4, <2>1, VersionAssumption DEF AddPastEvent, Inserted, Row
    <3>2. event'[e].version = 1
      BY <1>4, <2>1 DEF AddPastEvent, TypeOK
    <3> QED BY <3>1, <3>2
  <2>2. CASE e # f
    BY <1>4, <2>2 DEF AddPastEvent, TypeOK
  <2> QED BY <2>1, <2>2
<1>5. ASSUME NEW c \in Client, NEW end \in Time, EndEvent(c, end)
      PROVE  Same \/ Newer
  <2>1. CASE e = held[c].id
    <3>1. event'[e] = Rewritten(event[e], event[e].start, end)
      BY <1>5, <2>1 DEF EndEvent, TypeOK
    <3> QED BY <1>0, <3>1, RewritingAdvances
  <2>2. CASE e # held[c].id
    BY <1>5, <2>2 DEF EndEvent, TypeOK
  <2> QED BY <2>1, <2>2
<1>6. ASSUME NEW c \in Client, NEW start \in Time,
             NEW end \in Time \cup {Ongoing}, NEW ss \in SUBSET Subject,
             UpdateEvent(c, start, end, ss)
      PROVE  Same \/ Newer
  <2>1. CASE e = held[c].id
    <3>1. event'[e] = Rewritten(event[e], start, end)
      BY <1>6, <2>1 DEF UpdateEvent, TypeOK
    <3> QED BY <1>0, <3>1, RewritingAdvances
  <2>2. CASE e # held[c].id
    BY <1>6, <2>2 DEF UpdateEvent, TypeOK
  <2> QED BY <2>1, <2>2
<1>7. ASSUME NEW s \in Subject, DeleteSubject(s) PROVE Same \/ Newer
  <2>1. CASE s \in assigned[e]
    <3>1. event'[e] = Rewritten(event[e], event[e].start, event[e].end)
      BY <1>7, <2>1 DEF DeleteSubject
    <3> QED BY <1>0, <3>1, RewritingAdvances
  <2>2. CASE s \notin assigned[e]
    BY <1>7, <2>2 DEF DeleteSubject
  <2> QED BY <2>1, <2>2
<1> QED
  BY <1>1, <1>2, <1>3, <1>4, <1>5, <1>6, <1>7 DEF Next

\* A client keeps its row, drops it, or reads a stored one.
LEMMA HeldChange ==
  ASSUME TypeOK, [Next]_vars, NEW c \in Client
  PROVE  \/ held'[c] \in {held[c], Nothing}
         \/ \E e \in EventId :
               /\ Inserted(e)
               /\ held'[c] = [id |-> e, row |-> event[e], subjects |-> assigned[e]]
               /\ UNCHANGED <<event, assigned>>
<1>1. CASE Tick \/ CatalogStep \/ UNCHANGED vars
  BY <1>1 DEF Tick, CatalogStep, vars, eventVars
<1>2. ASSUME NEW d \in Client, NEW e \in EventId, Read(d, e)
      PROVE  \/ held'[c] = held[c]
             \/ /\ Inserted(e)
                /\ held'[c] = [id |-> e, row |-> event[e], subjects |-> assigned[e]]
                /\ UNCHANGED <<event, assigned>>
  BY <1>2 DEF Read, TypeOK
<1>3. ASSUME NEW e \in EventId, NEW start \in Time, NEW ss \in SUBSET Subject,
             StartEvent(e, start, ss)
      PROVE  held'[c] = held[c]
  BY <1>3 DEF StartEvent
<1>4. ASSUME NEW e \in EventId, NEW start \in Time, NEW end \in Time,
             NEW ss \in SUBSET Subject, AddPastEvent(e, start, end, ss)
      PROVE  held'[c] = held[c]
  BY <1>4 DEF AddPastEvent
<1>5. ASSUME NEW d \in Client, NEW end \in Time, EndEvent(d, end)
      PROVE  held'[c] \in {held[c], Nothing}
  BY <1>5 DEF EndEvent, TypeOK
<1>6. ASSUME NEW d \in Client, NEW start \in Time,
             NEW end \in Time \cup {Ongoing}, NEW ss \in SUBSET Subject,
             UpdateEvent(d, start, end, ss)
      PROVE  held'[c] \in {held[c], Nothing}
  BY <1>6 DEF UpdateEvent, TypeOK
<1>7. ASSUME NEW s \in Subject, DeleteSubject(s) PROVE held'[c] = held[c]
  BY <1>7 DEF DeleteSubject
<1> QED
  BY <1>1, <1>2, <1>3, <1>4, <1>5, <1>6, <1>7 DEF Next

LEMMA HeldStep ==
  ASSUME TypeOK, TypeOK', AssignedLive, HeldBehind,
         CurrentVersionMeansCurrentRow, [Next]_vars
  PROVE  HeldBehind' /\ CurrentVersionMeansCurrentRow'
<1> SUFFICES ASSUME NEW c \in Client, held'[c] # Nothing
             PROVE  LET e == held'[c].id
                        r == held'[c].row
                    IN /\ r.version > 0
                       /\ r.version <= event'[e].version
                       /\ event'[e].version = r.version
                            => event'[e] = r /\ assigned'[e] = held'[c].subjects
  BY DEF HeldBehind, CurrentVersionMeansCurrentRow
<1>1. CASE held'[c] = held[c]
  <2> DEFINE e == held[c].id
  <2>1. held[c] \in Snapshot /\ e \in EventId /\ held[c].row \in Row
    BY <1>1 DEF TypeOK, Snapshot
  <2>2. event[e] \in Row /\ event'[e] \in Row
    BY <2>1 DEF TypeOK
  <2>3. held[c].row.version > 0 /\ held[c].row.version <= event[e].version
    BY <1>1 DEF HeldBehind
  <2>4. event[e].version = held[c].row.version
          => event[e] = held[c].row /\ assigned[e] = held[c].subjects
    BY <1>1 DEF CurrentVersionMeansCurrentRow
  <2>5. \/ event'[e] = event[e] /\ assigned'[e] = assigned[e]
        \/ event'[e].version > event[e].version
    BY <2>1, ChangeAdvancesVersion
  <2>6. /\ event[e].version \in Int
        /\ event'[e].version \in Int
        /\ held[c].row.version \in Int
    BY <2>1, <2>2, VersionAssumption DEF Row
  <2> QED BY <1>1, <2>3, <2>4, <2>5, <2>6
<1>2. CASE held'[c] # held[c]
  <2>1. PICK e \in EventId :
               /\ Inserted(e)
               /\ held'[c] = [id |-> e, row |-> event[e], subjects |-> assigned[e]]
               /\ UNCHANGED <<event, assigned>>
    BY <1>2, HeldChange
  <2>2. event[e].version \in Int
    BY VersionAssumption DEF TypeOK, Row
  <2> QED BY <2>1, <2>2 DEF Inserted
<1> QED BY <1>1, <1>2
-----------------------------------------------------------------------------
(***************************************************************************)
(* Assignments and credit.                                                 *)
(***************************************************************************)
\* Goals and links leave live Subjects live and deleted Subjects deleted.
LEMMA GoalStepKeepsSubjects ==
  ASSUME CatalogTypeOK, GoalStep
  PROVE  /\ LiveSubjects \subseteq LiveSubjects'
         /\ \A s \in Subject : subjectState[s] = "deleted" => subjectState'[s] = "deleted"
<1> USE DEF LiveSubjects
<1>1. ASSUME NEW s \in Subject, InsertSubject(s)
      PROVE  \A t \in Subject : t # s => subjectState'[t] = subjectState[t]
  BY <1>1 DEF InsertSubject, CatalogTypeOK
<1>2. ASSUME NEW s \in Subject, InsertSubject(s)
      PROVE  subjectState[s] = "absent" /\ subjectState'[s] = "live"
  BY <1>2 DEF InsertSubject, CatalogTypeOK
<1>3. CASE UNCHANGED subjectState
  BY <1>3
<1>4. CASE ~ UNCHANGED subjectState
  <2>1. PICK s \in Subject : InsertSubject(s)
    BY <1>4 DEF GoalStep, InsertGoal, ConfigureGoal, RetireGoal, Link, Unlink, Relink
  <2> QED BY <2>1, <1>1, <1>2
<1> QED BY <1>3, <1>4

LEMMA AssignedLiveStep ==
  ASSUME TypeOK, TypeOK', AssignedLive, [Next]_vars
  PROVE  AssignedLive'
<1> USE DEF AssignedLive
<1>1. CASE Tick \/ UNCHANGED vars
  BY <1>1 DEF Tick, vars, catalogVars, eventVars, LiveSubjects, Inserted
<1>2. ASSUME NEW c \in Client, NEW e \in EventId, Read(c, e)
      PROVE  AssignedLive'
  BY <1>2 DEF Read, catalogVars, LiveSubjects, Inserted
<1>3. ASSUME NEW e \in EventId, NEW start \in Time, NEW ss \in SUBSET Subject,
             StartEvent(e, start, ss)
      PROVE  AssignedLive'
  <2>1. LiveSubjects' = LiveSubjects
    BY <1>3 DEF StartEvent, catalogVars, LiveSubjects
  <2>2. ASSUME NEW f \in EventId PROVE f = e \/ (Inserted(f) => Inserted(f)')
    BY <1>3, VersionAssumption DEF StartEvent, Inserted, Rewritten, TypeOK, Row
  <2>3. Inserted(e)'
    BY <1>3 DEF StartEvent, Inserted
  <2> QED
    BY <1>3, <2>1, <2>2, <2>3 DEF StartEvent, ValidSubjects, TypeOK
<1>4. ASSUME NEW e \in EventId, NEW start \in Time, NEW end \in Time,
             NEW ss \in SUBSET Subject, AddPastEvent(e, start, end, ss)
      PROVE  AssignedLive'
  BY <1>4 DEF AddPastEvent, ValidSubjects, catalogVars, LiveSubjects, Inserted, TypeOK
<1>5. ASSUME NEW c \in Client, NEW end \in Time, EndEvent(c, end)
      PROVE  AssignedLive'
  <2>1. LiveSubjects' = LiveSubjects /\ assigned' = assigned
    BY <1>5 DEF EndEvent, catalogVars, LiveSubjects
  <2>2. ASSUME NEW f \in EventId, Inserted(f) PROVE Inserted(f)'
    BY <1>5, <2>2, VersionAssumption DEF EndEvent, Inserted, Rewritten, TypeOK, Row
  <2> QED BY <2>1, <2>2
<1>6. ASSUME NEW c \in Client, NEW start \in Time,
             NEW end \in Time \cup {Ongoing}, NEW ss \in SUBSET Subject,
             UpdateEvent(c, start, end, ss)
      PROVE  AssignedLive'
  <2> DEFINE e == held[c].id
  <2>1. LiveSubjects' = LiveSubjects
    BY <1>6 DEF UpdateEvent, catalogVars, LiveSubjects
  <2>2. e \in EventId /\ event[e] \in Row
    BY <1>6, WritableType DEF UpdateEvent, TypeOK
  <2>3. event'[e].version = event[e].version + 1
    BY <1>6, <2>2 DEF UpdateEvent, Rewritten, TypeOK
  <2>4. event'[e].version > 0
    BY <2>2, <2>3, VersionAssumption DEF Row
  <2>5. ASSUME NEW f \in EventId, f # e
        PROVE  event'[f] = event[f] /\ assigned'[f] = assigned[f]
    BY <1>6, <2>5 DEF UpdateEvent, TypeOK
  <2>6. assigned'[e] = ss /\ ss \subseteq LiveSubjects
    BY <1>6, <2>2 DEF UpdateEvent, ValidSubjects, TypeOK
  <2> QED BY <2>1, <2>4, <2>5, <2>6 DEF Inserted
<1>7. ASSUME NEW s \in Subject, DeleteSubject(s) PROVE AssignedLive'
  <2>1. LiveSubjects' = LiveSubjects \ {s}
    BY <1>7 DEF DeleteSubject, RetireSubject, LiveSubjects, TypeOK, CatalogTypeOK
  <2>2. ASSUME NEW e \in EventId
        PROVE  assigned'[e] = assigned[e] \ {s} /\ (Inserted(e) => Inserted(e)')
    BY <1>7, VersionAssumption DEF DeleteSubject, Inserted, Rewritten, TypeOK, Row
  <2> QED BY <2>1, <2>2
<1>8. CASE CatalogStep
  BY <1>8, GoalStepKeepsSubjects DEF CatalogStep, eventVars, Inserted, TypeOK
<1> QED
  BY <1>1, <1>2, <1>3, <1>4, <1>5, <1>6, <1>7, <1>8 DEF Next

\* The four things a step can do to the credit of Event e.
CreditKept(e) ==
  /\ earned'[e] = earned[e]
  /\ Completed(e)' <=> Completed(e)
  /\ \A s \in assigned[e] : s \in assigned'[e] \/ subjectState'[s] = "deleted"
  /\ \A s \in Subject : subjectState[s] = "deleted" => subjectState'[s] = "deleted"

StillOpen(e) ==
  /\ ~Completed(e)
  /\ ~Completed(e)'
  /\ earned'[e] = earned[e]

Credited(e) ==
  /\ ~Completed(e)
  /\ Completed(e)'
  /\ earned'[e] = earned[e] \cup Eligible(assigned'[e])
  /\ UNCHANGED catalogVars

Corrected(e) ==
  /\ Completed(e)
  /\ Completed(e)'
  /\ earned'[e] = {p \in earned[e] : p[2] \notin assigned[e] \ assigned'[e]}
                    \cup Eligible(assigned'[e] \ assigned[e])
  /\ UNCHANGED catalogVars

LEMMA CreditChange ==
  ASSUME TypeOK, TypeOK', AssignedLive, HeldBehind, EarnedThroughAssignment,
         [Next]_vars,
         NEW e \in EventId
  PROVE  CreditKept(e) \/ StillOpen(e) \/ Credited(e) \/ Corrected(e)
<1>0. event[e] \in Row /\ event'[e] \in Row
  BY DEF TypeOK
<1>1. CASE /\ UNCHANGED <<event, assigned, earned>>
           /\ \A s \in Subject : subjectState[s] = "deleted" => subjectState'[s] = "deleted"
  BY <1>1 DEF CreditKept, Completed, Inserted
<1>2. CASE Tick \/ UNCHANGED vars
  BY <1>1, <1>2 DEF Tick, vars, catalogVars, eventVars
<1>3. ASSUME NEW c \in Client, NEW f \in EventId, Read(c, f)
      PROVE  CreditKept(e)
  BY <1>3 DEF Read, catalogVars, CreditKept, Completed, Inserted
<1>4. ASSUME NEW f \in EventId, NEW start \in Time, NEW ss \in SUBSET Subject,
             StartEvent(f, start, ss)
      PROVE  CreditKept(e) \/ StillOpen(e) \/ Credited(e)
  <2>1. CASE e = f
    <3>1. e \notin Running /\ ~Completed(e)
      BY <1>4, <2>1 DEF StartEvent, Running, Completed
    <3>2. event'[e].end = Ongoing
      BY <1>4, <2>1 DEF StartEvent
    <3>3. earned'[e] = earned[e]
      BY <1>4, <3>1 DEF StartEvent
    <3> QED BY <3>1, <3>2, <3>3 DEF StillOpen, Completed
  <2>2. CASE e # f /\ e \in Running
    <3>1. event'[e] = Rewritten(event[e], event[e].start, start)
      BY <1>4, <2>2 DEF StartEvent
    <3>2. event'[e].end = start /\ event'[e].version > 0 /\ start # Ongoing
      BY <1>0, <3>1, VersionAssumption, TimeAssumption
         DEF Rewritten, Row, Time, Ongoing
    <3>3. earned'[e] = Reconcile(e, start, assigned[e], {})
      BY <1>4, <2>2 DEF StartEvent
    <3>4. assigned'[e] = assigned[e] /\ UNCHANGED catalogVars
      BY <1>4, <2>2 DEF StartEvent, TypeOK
    <3>5. earned'[e] = earned[e] \cup Eligible(assigned'[e])
      BY <3>2, <3>3, <3>4 DEF Reconcile
    <3> QED
      BY <2>2, <3>2, <3>4, <3>5 DEF Credited, Completed, Inserted, Running
  <2>3. CASE e # f /\ e \notin Running
    BY <1>4, <2>3
       DEF StartEvent, catalogVars, CreditKept, Completed, Inserted, TypeOK
  <2> QED BY <2>1, <2>2, <2>3
<1>5. ASSUME NEW f \in EventId, NEW start \in Time, NEW end \in Time,
             NEW ss \in SUBSET Subject, AddPastEvent(f, start, end, ss)
      PROVE  CreditKept(e) \/ Credited(e)
  <2>1. CASE e = f
    <3>1. ~Completed(e) /\ earned[e] = {}
      BY <1>5, <2>1 DEF AddPastEvent, Completed, EarnedThroughAssignment
    <3> QED
      BY <1>5, <2>1, <3>1, TimeAssumption
         DEF AddPastEvent, Credited, Completed, Inserted, TypeOK, Time, Ongoing
  <2>2. CASE e # f
    BY <1>5, <2>2
       DEF AddPastEvent, catalogVars, CreditKept, Completed, Inserted, TypeOK
  <2> QED BY <2>1, <2>2
<1>6. ASSUME NEW c \in Client, NEW end \in Time, EndEvent(c, end)
      PROVE  CreditKept(e) \/ Credited(e)
  <2>1. CASE e = held[c].id
    <3>1. event[e].end = Ongoing /\ event'[e] = Rewritten(event[e], event[e].start, end)
      BY <1>6, <2>1 DEF EndEvent, TypeOK
    <3>2. event'[e].end = end /\ event'[e].version > 0 /\ end # Ongoing
      BY <1>0, <3>1, VersionAssumption, TimeAssumption
         DEF Rewritten, Row, Time, Ongoing
    <3>3. /\ earned'[e] = Reconcile(e, end, assigned[e], {})
          /\ assigned'[e] = assigned[e]
          /\ UNCHANGED catalogVars
      BY <1>6, <2>1 DEF EndEvent, TypeOK
    <3>4. earned'[e] = earned[e] \cup Eligible(assigned'[e])
      BY <3>2, <3>3 DEF Reconcile
    <3> QED
      BY <3>1, <3>2, <3>3, <3>4 DEF Credited, Completed, Inserted
  <2>2. CASE e # held[c].id
    BY <1>6, <2>2
       DEF EndEvent, catalogVars, CreditKept, Completed, Inserted, TypeOK
  <2> QED BY <2>1, <2>2
<1>7. ASSUME NEW c \in Client, NEW start \in Time,
             NEW end \in Time \cup {Ongoing}, NEW ss \in SUBSET Subject,
             UpdateEvent(c, start, end, ss)
      PROVE  CreditKept(e) \/ StillOpen(e) \/ Corrected(e)
  <2> DEFINE added == ss \ assigned[e]
             removed == assigned[e] \ ss
  <2>1. CASE e = held[c].id
    <3>1. /\ event'[e] = Rewritten(event[e], start, end)
          /\ earned'[e] = Reconcile(e, end, added, removed)
          /\ assigned'[e] = ss
          /\ UNCHANGED catalogVars
          /\ (event[e].end = Ongoing) <=> (end = Ongoing)
      BY <1>7, <2>1 DEF UpdateEvent, TypeOK
    <3>2. event'[e].end = end
      BY <3>1 DEF Rewritten
    <3>3. CASE end = Ongoing
      BY <3>1, <3>2, <3>3 DEF Reconcile, StillOpen, Completed
    <3>4. CASE end # Ongoing
      <4>1. event[e].version > 0 /\ event'[e].version > 0
        <5>1. event[e].version \in Nat /\ event'[e].version = event[e].version + 1
          BY <1>0, <3>1, VersionAssumption DEF Rewritten, Row
        <5>2. event[e].version > 0
          BY <1>7, <2>1 DEF UpdateEvent, Writable, HeldBehind
        <5> QED BY <5>1, <5>2
      <4>2. Completed(e) /\ Completed(e)'
        BY <3>1, <3>2, <3>4, <4>1 DEF Completed, Inserted
      <4> QED BY <3>1, <3>4, <4>2 DEF Corrected, Reconcile
    <3> QED BY <3>3, <3>4
  <2>2. CASE e # held[c].id
    BY <1>7, <2>2
       DEF UpdateEvent, catalogVars, CreditKept, Completed, Inserted, TypeOK
  <2> QED BY <2>1, <2>2
<1>8. ASSUME NEW s \in Subject, DeleteSubject(s) PROVE CreditKept(e)
  <2>1. Completed(e)' <=> Completed(e)
    <3>1. CASE s \in assigned[e]
      <4>1. event'[e] = Rewritten(event[e], event[e].start, event[e].end)
        BY <1>8, <3>1 DEF DeleteSubject
      <4>2. Inserted(e)
        BY <3>1 DEF AssignedLive
      <4> QED
        BY <1>0, <4>1, <4>2, VersionAssumption
           DEF Rewritten, Completed, Inserted, Row
    <3>2. CASE s \notin assigned[e]
      BY <1>8, <3>2 DEF DeleteSubject, Completed, Inserted
    <3> QED BY <3>1, <3>2
  <2> QED
    BY <1>8, <2>1
       DEF DeleteSubject, RetireSubject, CreditKept, TypeOK, CatalogTypeOK
<1>9. CASE CatalogStep
  BY <1>1, <1>9, GoalStepKeepsSubjects DEF CatalogStep, eventVars, TypeOK
<1> QED
  BY <1>2, <1>3, <1>4, <1>5, <1>6, <1>7, <1>8, <1>9 DEF Next

LEMMA EarnedStep ==
  ASSUME TypeOK, TypeOK', AssignedLive, HeldBehind, EarnedThroughAssignment,
         [Next]_vars
  PROVE  EarnedThroughAssignment'
<1> SUFFICES ASSUME NEW e \in EventId, NEW p \in earned'[e]
             PROVE  /\ Completed(e)'
                    /\ p[2] \in assigned'[e] \/ subjectState'[p[2]] = "deleted"
  BY DEF EarnedThroughAssignment
<1>0. p \in Goal \X Subject
  BY DEF TypeOK
<1>1. p \in earned[e] =>
        /\ Completed(e)
        /\ p[2] \in assigned[e] \/ subjectState[p[2]] = "deleted"
  BY DEF EarnedThroughAssignment
<1>2. CASE CreditKept(e)
  BY <1>0, <1>1, <1>2 DEF CreditKept
<1>3. CASE StillOpen(e)
  BY <1>1, <1>3 DEF StillOpen
<1>4. CASE Credited(e)
  BY <1>1, <1>4 DEF Credited, Eligible
<1>5. CASE Corrected(e)
  BY <1>1, <1>5 DEF Corrected, Eligible, catalogVars
<1> QED BY <1>2, <1>3, <1>4, <1>5, CreditChange
-----------------------------------------------------------------------------
(***************************************************************************)
(* The theorems, from the inductive invariant IInv.                        *)
(***************************************************************************)
LEMMA InitIInv == Init => IInv
<1> SUFFICES ASSUME Init PROVE IInv
  OBVIOUS
<1>1. TypeOK
  BY TimeAssumption, VersionAssumption
     DEF Init, CatalogInit, TypeOK, CatalogTypeOK, Row, Time, Ongoing
<1>2. AssignedLive /\ HeldBehind /\ NoOverlap
  BY DEF Init, AssignedLive, HeldBehind, NoOverlap, Disjoint
<1>3. EarnedThroughAssignment /\ CurrentVersionMeansCurrentRow
  BY DEF Init, EarnedThroughAssignment, CurrentVersionMeansCurrentRow
<1> QED BY <1>1, <1>2, <1>3 DEF IInv

LEMMA NextIInv ==
  ASSUME IInv, [Next]_vars
  PROVE  IInv'
<1>1. TypeOK'
  BY TypeStep DEF IInv
<1>2. AssignedLive' /\ NoOverlap'
  BY <1>1, AssignedLiveStep, NoOverlapStep DEF IInv
<1>3. HeldBehind' /\ CurrentVersionMeansCurrentRow'
  BY <1>1, HeldStep DEF IInv
<1>4. EarnedThroughAssignment'
  BY <1>1, EarnedStep DEF IInv
<1> QED BY <1>1, <1>2, <1>3, <1>4 DEF IInv

\* IInv is inductive and so holds in every state the event store reaches.
THEOREM Invariance == Spec => []IInv
BY InitIInv, NextIInv, PTL DEF Spec

\* StartEvent, AddPastEvent, EndEvent and UpdateEvent with checkEventOverlap:
\* two inserted Events never overlap.
THEOREM TrackIsATrack == Spec => []NoOverlap
<1>1. IInv => NoOverlap
  BY DEF IInv
<1> QED BY <1>1, Invariance, PTL

\* The version check of eventForEdit and updateEvent is enough: a write it
\* accepts is based on the stored row and Subjects.
THEOREM AcceptedWritesAreCurrent == Spec => []CurrentVersionMeansCurrentRow
<1>1. IInv => CurrentVersionMeansCurrentRow
  BY DEF IInv
<1> QED BY <1>1, Invariance, PTL

\* reconcileEventGoalContributions with DeleteSubject: contributions exist for
\* completed Events only, through assigned or since deleted Subjects.
THEOREM CreditIsThroughAssignment == Spec => []EarnedThroughAssignment
<1>1. IInv => EarnedThroughAssignment
  BY DEF IInv
<1> QED BY <1>1, Invariance, PTL

\* DeleteSubject, the Goal stores and the Event writes: a contribution is
\* removed only with the live Subject it was earned through.
THEOREM CreditIsKept == Spec => EarnedIsKept
<1>1. ASSUME IInv, [Next]_vars, NEW e \in EventId, NEW p \in earned[e] \ earned'[e]
      PROVE  /\ p[2] \in assigned[e] \ assigned'[e]
             /\ subjectState'[p[2]] = "live"
  <2>1. TypeOK' /\ p \notin earned'[e]
    BY <1>1, NextIInv DEF IInv
  <2>2. Corrected(e)
    BY <1>1, <2>1, CreditChange DEF IInv, CreditKept, StillOpen, Credited
  <2>3. p[2] \in assigned[e] \ assigned'[e] /\ subjectState' = subjectState
    BY <1>1, <2>1, <2>2 DEF Corrected, catalogVars
  <2>4. p[2] \in LiveSubjects
    BY <1>1, <2>3 DEF IInv, AssignedLive
  <2> QED BY <2>3, <2>4 DEF LiveSubjects
<1>2. IInv /\ [Next]_vars =>
        [\A e \in EventId : \A p \in earned[e] \ earned'[e] :
            /\ p[2] \in assigned[e] \ assigned'[e]
            /\ subjectState'[p[2]] = "live"]_vars
  BY <1>1
<1> QED BY <1>2, Invariance, PTL DEF Spec, EarnedIsKept

\* reconcileEventGoalContributions on the completion of an Event: it credits
\* exactly the active Goals linked to the Event's Subjects.
THEOREM CompletionCreditsExactly == Spec => CompletionCredits
<1>1. ASSUME IInv, [Next]_vars, NEW e \in EventId, ~Completed(e), Completed(e)',
             NEW g \in Goal, NEW s \in Subject
      PROVE  <<g, s>> \in earned'[e] <=> /\ s \in assigned'[e]
                                         /\ <<s, g>> \in links
                                         /\ goalState[g] = "active"
  <2>1. TypeOK' /\ AssignedLive'
    BY <1>1, NextIInv DEF IInv
  <2>2. Credited(e)
    BY <1>1, <2>1, CreditChange DEF IInv, CreditKept, StillOpen, Corrected
  <2>3. earned[e] = {}
    BY <1>1 DEF IInv, EarnedThroughAssignment
  <2>4. assigned'[e] \subseteq LiveSubjects
    BY <2>1, <2>2 DEF AssignedLive, Credited, catalogVars, LiveSubjects
  <2> QED BY <2>2, <2>3, <2>4 DEF Credited, Eligible
<1>2. IInv /\ [Next]_vars =>
        [\A e \in EventId : ~Completed(e) /\ Completed(e)' =>
            \A g \in Goal, s \in Subject :
               <<g, s>> \in earned'[e] <=> /\ s \in assigned'[e]
                                           /\ <<s, g>> \in links
                                           /\ goalState[g] = "active"]_vars
  BY <1>1
<1> QED BY <1>2, Invariance, PTL DEF Spec, CompletionCredits
=============================================================================
