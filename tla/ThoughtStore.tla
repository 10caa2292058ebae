----------------------------- MODULE ThoughtStore -----------------------------
(***************************************************************************)
(* The Thought store of one user, with the names of its Subjects: Thoughts *)
(* with their versions, texts and Subjects, and the mindset periods of     *)
(* each Thought.  Each action is one store transaction.  Clients hold the  *)
(* Thought they read and write with its version; they choose the times of  *)
(* mindset changes themselves, before the change is carried out.           *)
(***************************************************************************)
EXTENDS SubjectNames, Sequences

CONSTANTS
  Thought,     \* thought_id of every Thought that will be inserted
  Body,        \* texts
  MaxVersion,  \* bound: largest version reached
  MaxTime,     \* bound: last second of the clocks
  MaxPeriods   \* bound: mindset periods of one Thought

ASSUME BoundsAssumption ==
  MaxVersion \in Nat \ {0} /\ MaxTime \in Nat /\ MaxPeriods \in Nat
ASSUME BodyAssumption == Nothing \notin Body
ASSUME SnapshotAssumption ==
  Nothing \notin [id : Thought, version : Nat, body : Body,
                  subject : Subject \cup {Nothing}]

VARIABLES
  thought,   \* rows of thoughts
  periods,   \* rows of thought_mindset_periods of each Thought, by their id
  held       \* the Thought each client read and has not written yet

thoughtVars == <<thought, periods, held>>
vars == <<nameVars, thoughtVars>>

Time == 0 .. MaxTime
Open == MaxTime + 1   \* ended_at NULL
Period == [start : Time, end : Time \cup {Open}]
Row == [state : States, version : 0 .. MaxVersion,
        body : Body \cup {Nothing}, subject : Subject \cup {Nothing}]
Snapshot == [id : Thought, version : 1 .. MaxVersion, body : Body,
             subject : Subject \cup {Nothing}]

TypeOK ==
  /\ NamesTypeOK
  /\ thought \in [Thought -> Row]
  /\ periods \in [Thought -> Seq(Period)]
  /\ \A t \in Thought : Len(periods[t]) <= MaxPeriods
  /\ held \in [Client -> Snapshot \cup {Nothing}]

Init ==
  /\ NamesInit
  /\ thought = [t \in Thought |->
       [state |-> "absent", version |-> 0, body |-> Nothing, subject |-> Nothing]]
  /\ periods = [t \in Thought |-> <<>>]
  /\ held = [c \in Client |-> Nothing]
-----------------------------------------------------------------------------
LiveThoughts == {t \in Thought : thought[t].state = "live"}

\* The Subject that a read of the Thought shows: none once it is deleted.
ShownSubject(t) ==
  IF thought[t].subject \in LiveSubjects THEN thought[t].subject ELSE Nothing

\* ListThoughts of the Subject s, and ListUnassignedThoughts.
ThoughtsOf(s) == {t \in LiveThoughts : s \in LiveSubjects /\ thought[t].subject = s}
UnassignedThoughts == {t \in LiveThoughts : thought[t].subject = Nothing}

\* The row with its version advanced by one.
Advanced(row) == [row EXCEPT !.version = @ + 1]

\* Mutant of AssignableTo: the Subject must exist, deleted or not.
AssignableToAny(s) == s # Nothing => subject[s].state # "absent"

AssignableTo(s) == s # Nothing => s \in LiveSubjects

\* A write by client c goes through while the version is the one it read.
Writable(c) ==
  /\ held[c] # Nothing
  /\ held[c].id \in LiveThoughts
  /\ thought[held[c].id].version = held[c].version
  /\ held[c].version < MaxVersion
-----------------------------------------------------------------------------
CreateThought(t, body, s) ==
  /\ thought[t].state = "absent"
  /\ AssignableTo(s)
  /\ thought' = [thought EXCEPT ![t] =
       [state |-> "live", version |-> 1, body |-> body, subject |-> s]]
  /\ UNCHANGED <<nameVars, periods, held>>

GetThought(c, t) ==
  /\ t \in LiveThoughts
  /\ held' = [held EXCEPT ![c] = [id |-> t, version |-> thought[t].version,
                                  body |-> thought[t].body, subject |-> ShownSubject(t)]]
  /\ UNCHANGED <<nameVars, thought, periods>>

\* Only the text; the Subject stays.
UpdateThought(c, body) ==
  /\ Writable(c)
  /\ thought' = [thought EXCEPT ![held[c].id] = [Advanced(@) EXCEPT !.body = body]]
  /\ held' = [held EXCEPT ![c] = Nothing]
  /\ UNCHANGED <<nameVars, periods>>

\* The text and the mindset history of the Thought are retained.
DeleteThought(c) ==
  /\ Writable(c)
  /\ thought' = [thought EXCEPT ![held[c].id] = [Advanced(@) EXCEPT !.state = "deleted"]]
  /\ held' = [held EXCEPT ![c] = Nothing]
  /\ UNCHANGED <<nameVars, periods>>

\* Mutant of DeleteSubject: the versions of its Thoughts do not advance.
DeleteSubjectQuietly(s) ==
  /\ RetireSubject(s)
  /\ thought' = [t \in Thought |-> IF thought[t].subject = s
                                   THEN [thought[t] EXCEPT !.subject = Nothing]
                                   ELSE thought[t]]
  /\ UNCHANGED <<periods, held>>

\* Every Thought of the Subject is unassigned, deleted Thoughts too.
DeleteSubject(s) ==
  LET unlinked == {t \in Thought : thought[t].subject = s}
  IN /\ RetireSubject(s)
     /\ \A t \in unlinked : thought[t].version < MaxVersion
     /\ thought' = [t \in Thought |-> IF t \in unlinked
                                      THEN [Advanced(thought[t]) EXCEPT !.subject = Nothing]
                                      ELSE thought[t]]
     /\ UNCHANGED <<periods, held>>
-----------------------------------------------------------------------------
(* Mindset periods                                                         *)

IsOpen(p) == p.end = Open

\* started_at DESC, mindset_period_id DESC: where the latest of the periods is.
LatestIndex(ps) ==
  CHOOSE i \in DOMAIN ps :
    \A j \in DOMAIN ps : \/ ps[j].start < ps[i].start
                         \/ ps[j].start = ps[i].start /\ j <= i

IsMindset(t) == \E i \in DOMAIN periods[t] : IsOpen(periods[t][i])

\* Mutant of InOrder: only the beginning of the latest period is looked at.
InOrderByStart(p, at) == p.start <= at

\* A transition at the time at does not precede the latest one.
InOrder(p, at) == at >= (IF IsOpen(p) THEN p.start ELSE p.end)

\* Marking opens a period.  A Thought that is marked already stays as it is.
MarkMindset(t, at) ==
  LET ps == periods[t] IN
  /\ t \in LiveThoughts
  /\ Len(ps) < MaxPeriods
  /\ ps # <<>> => LET p == ps[LatestIndex(ps)] IN ~IsOpen(p) /\ InOrder(p, at)
  /\ ~IsMindset(t)   \* unique index on open periods
  /\ periods' = [periods EXCEPT ![t] = Append(@, [start |-> at, end |-> Open])]
  /\ UNCHANGED <<nameVars, thought, held>>

\* Unmarking closes the latest period, if it is open.
UnmarkMindset(t, at) ==
  LET ps == periods[t] IN
  /\ t \in LiveThoughts
  /\ ps # <<>>
  /\ LET i == LatestIndex(ps)
     IN /\ IsOpen(ps[i])
        /\ InOrder(ps[i], at)
        /\ periods' = [periods EXCEPT ![t][i].end = at]
  /\ UNCHANGED <<nameVars, thought, held>>
-----------------------------------------------------------------------------
Next ==
  \/ NameStep /\ UNCHANGED thoughtVars
  \/ \E s \in Subject : DeleteSubject(s)
  \/ \E t \in Thought, body \in Body, s \in Subject \cup {Nothing} :
        CreateThought(t, body, s)
  \/ \E c \in Client : \/ \E t \in Thought : GetThought(c, t)
                       \/ \E body \in Body : UpdateThought(c, body)
                       \/ DeleteThought(c)
  \/ \E t \in Thought, at \in Time : MarkMindset(t, at) \/ UnmarkMindset(t, at)

Spec == Init /\ [][Next]_vars
-----------------------------------------------------------------------------
(* Properties *)

\* While the version a client holds is the stored one, the text and the
\* Subject it was shown are what a read would show now, so an accepted edit
\* or deletion never hits a Thought its author has not seen.  Another client
\* may have edited it, and a deleted Subject may have left it.
AcceptedEditIsCurrent ==
  \A c \in Client : held[c] # Nothing /\ held[c].id \in LiveThoughts =>
     LET t == held[c].id IN
     thought[t].version = held[c].version =>
       held[c].body = thought[t].body /\ held[c].subject = ShownSubject(t)

\* Every live Thought is in exactly one list: that of its live Subject or that
\* of unassigned Thoughts.  No creation or deletion hides one from both.
EveryThoughtIsListed ==
  \A t \in LiveThoughts :
     (t \in UnassignedThoughts) # (\E s \in Subject : t \in ThoughtsOf(s))

\* The mindset history of a Thought runs forward: each period ends before the
\* next one begins, so only the last may be open, in whatever order the
\* clients' times arrive.
PeriodsChronological ==
  \A t \in Thought : \A i, j \in DOMAIN periods[t] :
     i < j => periods[t][i].end <= periods[t][j].start
=============================================================================
