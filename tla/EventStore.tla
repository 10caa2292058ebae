------------------------------ MODULE EventStore ------------------------------
(***************************************************************************)
(* The Event store of one user: the activity track (at most one ongoing    *)
(* Event, no two overlapping intervals), the Subjects each Event is        *)
(* assigned to, and the Goal contributions ("earned") that completed       *)
(* Events establish.  Each action is one store transaction: SQLite runs    *)
(* them one at a time, and a transaction that fails (validation, stale     *)
(* version, overlap, busy database, constraint) changes nothing, so a      *)
(* failure is an action that is not enabled.  Clients hold rows they read  *)
(* earlier and write with the version they hold.                           *)
(***************************************************************************)
EXTENDS GoalCatalog

CONSTANTS
  EventId,     \* event_id of every Event that will be inserted
  Client,      \* callers that hold a row between a read and a write
  Nothing,     \* "this client holds no row"
  MaxTime,     \* bound: last second of the modelled clock
  MaxVersion   \* bound: largest Event version reached

ASSUME TimeAssumption == MaxTime \in Nat
ASSUME VersionAssumption == MaxVersion \in Nat
ASSUME NothingAssumption ==
  Nothing \notin [id : EventId, row : [start : Int, end : Int, version : Int],
                  subjects : SUBSET Subject]

VARIABLES
  now,        \* the services' clock, in whole seconds
  event,      \* rows of the events table; version 0 means not inserted yet
  assigned,   \* live event_subjects rows of each Event
  earned,     \* goal_progress rows of each Event, as <<goal, subject>> pairs
  held        \* the row each client read and has not written yet

eventVars == <<now, event, assigned, earned, held>>
vars == <<catalogVars, eventVars>>

Time == 0 .. MaxTime

\* ended_at NULL.  An ongoing interval is unbounded: its end lies after every time.
Ongoing == MaxTime + 1

Row == [start : Time, end : Time \cup {Ongoing}, version : 0 .. MaxVersion]
Snapshot == [id : EventId, row : Row, subjects : SUBSET Subject]

Inserted(e) == event[e].version > 0
Running == {e \in EventId : Inserted(e) /\ event[e].end = Ongoing}
Completed(e) == Inserted(e) /\ event[e].end # Ongoing

TypeOK ==
  /\ CatalogTypeOK
  /\ now \in Time
  /\ event \in [EventId -> Row]
  /\ assigned \in [EventId -> SUBSET Subject]
  /\ earned \in [EventId -> SUBSET (Goal \X Subject)]
  /\ held \in [Client -> Snapshot \cup {Nothing}]

Init ==
  /\ CatalogInit
  /\ now = 0
  /\ event = [e \in EventId |-> [start |-> 0, end |-> 0, version |-> 0]]
  /\ assigned = [e \in EventId |-> {}]
  /\ earned = [e \in EventId |-> {}]
  /\ held = [c \in Client |-> Nothing]
-----------------------------------------------------------------------------
\* Empty intervals overlap nothing; others are [start, end).
Overlap(r, q) ==
  /\ r.start < r.end
  /\ q.start < q.end
  /\ r.start < q.end
  /\ q.start < r.end

\* Mutant of Fits: only completed Events are looked at.
FitsCompletedOnly(table, e, r) ==
  /\ r.start <= r.end
  /\ \A f \in EventId \ {e} :
        table[f].version > 0 /\ table[f].end # Ongoing => ~Overlap(r, table[f])

\* No inserted row of table other than e's own overlaps row r of Event e.
Fits(table, e, r) ==
  /\ r.start <= r.end
  /\ \A f \in EventId \ {e} : table[f].version > 0 => ~Overlap(r, table[f])

\* What the services accept as the times of an Event.
ValidTimes(start, end) ==
  /\ start <= now
  /\ end = Ongoing \/ (start <= end /\ end <= now)

\* The row r rewritten with new times: its version advances by one.
Rewritten(r, start, end) ==
  [start |-> start, end |-> end, version |-> r.version + 1]

ValidSubjects(ss) == ss \subseteq LiveSubjects

\* Mutant of Reconcile: contributions through removed Subjects stay.
ReconcileAddingOnly(e, end, added, removed) ==
  IF end = Ongoing THEN earned[e] ELSE earned[e] \cup Eligible(added)

\* The contribution rows of Event e once those through "added" are inserted
\* and those through "removed" are deleted; an ongoing Event is left alone.
Reconcile(e, end, added, removed) ==
  IF end = Ongoing
  THEN earned[e]
  ELSE {p \in earned[e] : p[2] \notin removed} \cup Eligible(added)

\* Inserting a contribution that is there already violates UNIQUE and the
\* whole transaction rolls back.
NoDuplicate(e, end, added) == end = Ongoing \/ Eligible(added) \cap earned[e] = {}
-----------------------------------------------------------------------------
Tick ==
  /\ now < MaxTime
  /\ now' = now + 1
  /\ UNCHANGED <<catalogVars, event, assigned, earned, held>>

\* GetEvent and ListEvents: the row with the Subjects live at the read.
Read(c, e) ==
  /\ Inserted(e)
  /\ held' = [held EXCEPT ![c] = [id |-> e, row |-> event[e], subjects |-> assigned[e]]]
  /\ UNCHANGED <<catalogVars, now, event, assigned, earned>>

\* Closes the Event that runs, if any, at the new start and opens e there.
StartEvent(e, start, ss) ==
  LET closed == [f \in EventId |->
                   IF f \in Running
                   THEN Rewritten(event[f], event[f].start, start)
                   ELSE event[f]]
      row == [start |-> start, end |-> Ongoing, version |-> 1]
  IN /\ ~Inserted(e)
     /\ MaxVersion > 0
     /\ ValidTimes(start, Ongoing)
     /\ ValidSubjects(ss)
     /\ \A f \in Running : /\ event[f].start <= start
                           /\ event[f].version < MaxVersion
                           /\ NoDuplicate(f, start, assigned[f])
     /\ Fits(closed, e, row)
     /\ event' = [closed EXCEPT ![e] = row]
     /\ assigned' = [assigned EXCEPT ![e] = ss]
     /\ earned' = [f \in EventId |->
                     IF f \in Running THEN Reconcile(f, start, assigned[f], {})
                                      ELSE earned[f]]
     /\ UNCHANGED <<catalogVars, now, held>>

AddPastEvent(e, start, end, ss) ==
  LET row == [start |-> start, end |-> end, version |-> 1]
  IN /\ ~Inserted(e)
     /\ MaxVersion > 0
     /\ end # Ongoing
     /\ ValidTimes(start, end)
     /\ ValidSubjects(ss)
     /\ Fits(event, e, row)
     /\ event' = [event EXCEPT ![e] = row]
     /\ assigned' = [assigned EXCEPT ![e] = ss]
     /\ earned' = [earned EXCEPT ![e] = Eligible(ss)]
     /\ UNCHANGED <<catalogVars, now, held>>

\* A write by client c of the row it holds goes through only while the stored
\* version is the one it read.
Writable(c) ==
  /\ held[c] # Nothing
  /\ event[held[c].id].version = held[c].row.version
  /\ event[held[c].id].version < MaxVersion

EndEvent(c, end) ==
  LET e == held[c].id
      row == Rewritten(event[e], event[e].start, end)
  IN /\ Writable(c)
     /\ event[e].end = Ongoing
     /\ end <= now
     /\ Fits(event, e, row)
     /\ NoDuplicate(e, end, assigned[e])
     /\ event' = [event EXCEPT ![e] = row]
     /\ earned' = [earned EXCEPT ![e] = Reconcile(e, end, assigned[e], {})]
     /\ held' = [held EXCEPT ![c] = Nothing]
     /\ UNCHANGED <<catalogVars, now, assigned>>

UpdateEvent(c, start, end, ss) ==
  LET e == held[c].id
      row == Rewritten(event[e], start, end)
      added == ss \ assigned[e]
      removed == assigned[e] \ ss
  IN /\ Writable(c)
     /\ ValidTimes(start, end)
     /\ ValidSubjects(ss)
     /\ (event[e].end = Ongoing) <=> (end = Ongoing)
     /\ Fits(event, e, row)
     /\ NoDuplicate(e, end, added)
     /\ event' = [event EXCEPT ![e] = row]
     /\ assigned' = [assigned EXCEPT ![e] = ss]
     /\ earned' = [earned EXCEPT ![e] = Reconcile(e, end, added, removed)]
     /\ held' = [held EXCEPT ![c] = Nothing]
     /\ UNCHANGED <<catalogVars, now>>

\* Mutant of DeleteSubject: the versions of its Events do not advance.
DeleteSubjectQuietly(s) ==
  /\ RetireSubject(s)
  /\ assigned' = [e \in EventId |-> assigned[e] \ {s}]
  /\ UNCHANGED <<now, event, earned, held>>

\* Mutant of DeleteSubject: the credit earned through it goes too.
DeleteSubjectAndCredit(s) ==
  LET affected == {e \in EventId : s \in assigned[e]}
  IN /\ RetireSubject(s)
     /\ \A e \in affected : event[e].version < MaxVersion
     /\ event' = [e \in EventId |->
                    IF e \in affected
                    THEN Rewritten(event[e], event[e].start, event[e].end)
                    ELSE event[e]]
     /\ assigned' = [e \in EventId |-> assigned[e] \ {s}]
     /\ earned' = [e \in EventId |-> {p \in earned[e] : p[2] # s}]
     /\ UNCHANGED <<now, held>>

\* Deleting a Subject retires its assignments and advances the version of
\* every Event that had it; contributions and Goal links stay.
DeleteSubject(s) ==
  LET affected == {e \in EventId : s \in assigned[e]}
  IN /\ RetireSubject(s)
     /\ \A e \in affected : event[e].version < MaxVersion
     /\ event' = [e \in EventId |->
                    IF e \in affected
                    THEN Rewritten(event[e], event[e].start, event[e].end)
                    ELSE event[e]]
     /\ assigned' = [e \in EventId |-> assigned[e] \ {s}]
     /\ UNCHANGED <<now, earned, held>>

CatalogStep == GoalStep /\ UNCHANGED eventVars

Next ==
  \/ Tick
  \/ \E c \in Client, e \in EventId : Read(c, e)
  \/ \E e \in EventId, start \in Time, ss \in SUBSET Subject :
        StartEvent(e, start, ss)
  \/ \E e \in EventId, start \in Time, end \in Time, ss \in SUBSET Subject :
        AddPastEvent(e, start, end, ss)
  \/ \E c \in Client, end \in Time : EndEvent(c, end)
  \/ \E c \in Client, start \in Time, end \in Time \cup {Ongoing},
        ss \in SUBSET Subject : UpdateEvent(c, start, end, ss)
  \/ \E s \in Subject : DeleteSubject(s)
  \/ CatalogStep

Spec == Init /\ [][Next]_vars
-----------------------------------------------------------------------------
(* Properties *)

Disjoint(table) ==
  \A e, f \in EventId :
     e # f /\ table[e].version > 0 /\ table[f].version > 0
       => ~Overlap(table[e], table[f])

\* The track is a track: no two inserted Events of the user overlap, whatever
\* the order of starts, late entries, corrections and ends.  An ongoing Event
\* reaches past every time, so there is at most one of them.
NoOverlap == Disjoint(event)

\* Optimistic concurrency works: while the version a client holds is the stored
\* one, the row and the Subjects it holds are the stored ones too, so a write
\* that is accepted never overwrites a change its author did not see.  Another
\* client, a successor that closed the Event or the deletion of one of its
\* Subjects may have written in between.
CurrentVersionMeansCurrentRow ==
  \A c \in Client :
     held[c] # Nothing /\ event[held[c].id].version = held[c].row.version
       => /\ event[held[c].id] = held[c].row
          /\ assigned[held[c].id] = held[c].subjects

\* Credit exists only for completed Events, and only through a Subject that is
\* still assigned to the Event or has been deleted since.  So an assignment
\* that is added later never meets a contribution left by an earlier one.
EarnedThroughAssignment ==
  \A e \in EventId : \A p \in earned[e] :
     /\ Completed(e)
     /\ p[2] \in assigned[e] \/ subjectState[p[2]] = "deleted"

\* Earned credit is only taken back by a correction that removes the live
\* Subject it was earned through: not by the deletion of the Subject, nor by
\* deactivating, deleting or unlinking the Goal, nor by new times.
EarnedIsKept ==
  [][\A e \in EventId : \A p \in earned[e] \ earned'[e] :
        /\ p[2] \in assigned[e] \ assigned'[e]
        /\ subjectState'[p[2]] = "live"]_vars

\* However an Event is completed (ended, closed by its successor, entered as
\* past), it credits at that moment exactly the active Goals linked to its
\* Subjects.
CompletionCredits ==
  [][\A e \in EventId : ~Completed(e) /\ Completed(e)' =>
        \A g \in Goal, s \in Subject :
           <<g, s>> \in earned'[e] <=> /\ s \in assigned'[e]
                                       /\ <<s, g>> \in links
                                       /\ goalState[g] = "active"]_vars
-----------------------------------------------------------------------------
(* What the invariants rest on *)

\* Only inserted Events have Subjects, and only live ones.
AssignedLive ==
  \A e \in EventId : /\ assigned[e] \subseteq LiveSubjects
                     /\ ~Inserted(e) => assigned[e] = {}

\* No client holds a version the store has not reached.
HeldBehind ==
  \A c \in Client :
     held[c] # Nothing => /\ held[c].row.version > 0
                          /\ held[c].row.version <= event[held[c].id].version

IInv ==
  /\ TypeOK
  /\ AssignedLive
  /\ HeldBehind
  /\ NoOverlap
  /\ EarnedThroughAssignment
  /\ CurrentVersionMeansCurrentRow
=============================================================================
