-------------------------- MODULE ThoughtStoreProofs --------------------------
(***************************************************************************)
(* Proofs about the namespace of SubjectNames and about ThoughtStore, for  *)
(* all sets of Thoughts, Subjects, aliases, names, texts and clients, and  *)
(* for all bounds.                                                         *)
(***************************************************************************)
EXTENDS ThoughtStore, TLAPS

\* No live alias belongs to a Subject that is not live.  RefusedNameResolves
\* follows; it alone is not inductive, as it looks at names only.
AliasesHaveSubjects == \A a \in LiveAliases : alias[a].subject \in LiveSubjects

\* A live row has a name.
LiveNamed ==
  /\ \A s \in LiveSubjects : subject[s].name \in Name
  /\ \A a \in LiveAliases : alias[a].name \in Name

NamesInv == NamesTypeOK /\ OneOwnerPerName /\ AliasesHaveSubjects /\ LiveNamed

\* An empty store satisfies the invariant.
LEMMA InitNames == NamesInit => NamesInv
  BY NamesAssumption
  DEF NamesInit, NamesInv, NamesTypeOK, OneOwnerPerName, AliasesHaveSubjects, LiveNamed, States,
      SubjectRow, AliasRow, LiveAliases, LiveSubjects, NamedAliases, NamedSubjects

\* No operation on names breaks their invariant.
LEMMA NextNames == NamesInv /\ [NamesNext]_nameVars => NamesInv'
<1> SUFFICES ASSUME NamesInv, [NamesNext]_nameVars PROVE NamesInv'
    OBVIOUS
<1> USE NamesAssumption
    DEF NamesInv, NamesTypeOK, States, SubjectRow, AliasRow, LiveAliases, LiveSubjects
<1>1. ASSUME NEW s \in Subject, NEW n \in Name, CreateSubject(s, n) PROVE NamesInv'
  <2>1. NamesTypeOK'  BY <1>1 DEF CreateSubject
  <2>2. OneOwnerPerName'
        BY <1>1, <2>1 DEF CreateSubject, SubjectMayBe, OneOwnerPerName, NamedSubjects, NamedAliases
  <2>3. (AliasesHaveSubjects /\ LiveNamed)'  BY <1>1 DEF CreateSubject, AliasesHaveSubjects, LiveNamed
  <2> QED  BY <2>1, <2>2, <2>3
<1>2. ASSUME NEW s \in Subject, NEW n \in Name, UpdateSubject(s, n) PROVE NamesInv'
  <2>1. NamesTypeOK'  BY <1>2 DEF UpdateSubject
  <2>2. OneOwnerPerName'
        BY <1>2, <2>1 DEF UpdateSubject, SubjectMayBe, OneOwnerPerName, NamedSubjects, NamedAliases
  <2>3. (AliasesHaveSubjects /\ LiveNamed)'  BY <1>2 DEF UpdateSubject, AliasesHaveSubjects, LiveNamed
  <2> QED  BY <2>1, <2>2, <2>3
<1>3. ASSUME NEW a \in Alias, NEW s \in Subject, NEW n \in Name, CreateSubjectAlias(a, s, n)
      PROVE NamesInv'
  <2>1. NamesTypeOK'  BY <1>3 DEF CreateSubjectAlias
  <2>2. OneOwnerPerName'
        BY <1>3, <2>1 DEF CreateSubjectAlias, AliasMayBe, OneOwnerPerName, NamedSubjects, NamedAliases
  <2>3. (AliasesHaveSubjects /\ LiveNamed)'  BY <1>3 DEF CreateSubjectAlias, AliasesHaveSubjects, LiveNamed
  <2> QED  BY <2>1, <2>2, <2>3
<1>4. ASSUME NEW a \in Alias, NEW n \in Name, UpdateSubjectAlias(a, n) PROVE NamesInv'
  <2>1. NamesTypeOK'  BY <1>4 DEF UpdateSubjectAlias
  <2>2. OneOwnerPerName'
        BY <1>4, <2>1 DEF UpdateSubjectAlias, AliasMayBe, OneOwnerPerName, NamedSubjects, NamedAliases
  <2>3. (AliasesHaveSubjects /\ LiveNamed)'  BY <1>4 DEF UpdateSubjectAlias, AliasesHaveSubjects, LiveNamed
  <2> QED  BY <2>1, <2>2, <2>3
<1>5. ASSUME NEW a \in Alias, RemoveSubjectAlias(a) PROVE NamesInv'
  <2>1. NamesTypeOK'  BY <1>5 DEF RemoveSubjectAlias
  <2>2. OneOwnerPerName'
        BY <1>5 DEF RemoveSubjectAlias, OneOwnerPerName, NamedSubjects, NamedAliases
  <2>3. (AliasesHaveSubjects /\ LiveNamed)'  BY <1>5 DEF RemoveSubjectAlias, AliasesHaveSubjects, LiveNamed
  <2> QED  BY <2>1, <2>2, <2>3
<1>6. ASSUME NEW c \in Client, NEW a \in Alias, ReviewConflict(c, a) PROVE NamesInv'
  <2>1. NamesTypeOK'
    <3>1. [alias |-> a, subject |-> alias[a].subject, name |-> alias[a].name] \in Review
          BY <1>6 DEF ReviewConflict, Review, AliasesHaveSubjects, LiveNamed
    <3> QED  BY <1>6, <3>1 DEF ReviewConflict
  <2> QED  BY <1>6, <2>1 DEF ReviewConflict, OneOwnerPerName, AliasesHaveSubjects, LiveNamed,
                              NamedSubjects, NamedAliases
<1>7. ASSUME NEW c \in Client, Dismiss(c) PROVE NamesInv'
      BY <1>7 DEF Dismiss, OneOwnerPerName, AliasesHaveSubjects, LiveNamed, NamedSubjects, NamedAliases
<1>8. ASSUME NEW c \in Client, NEW a \in Alias, NEW s \in Subject, CreateSubjectFromAlias(c, a, s)
      PROVE NamesInv'
  <2>1. reviewed[c] \in Review  BY <1>8 DEF CreateSubjectFromAlias, IsReviewed
  <2>2. NamesTypeOK'  BY <1>8, <2>1 DEF CreateSubjectFromAlias, Review
  <2>3. OneOwnerPerName'
        BY <1>8, <2>1, <2>2 DEF CreateSubjectFromAlias, Review, OneOwnerPerName,
                                 NamedSubjects, NamedAliases
  <2>4. AliasesHaveSubjects'
        BY <1>8 DEF CreateSubjectFromAlias, AliasesHaveSubjects
  <2>5. LiveNamed'
        BY <1>8, <2>1 DEF CreateSubjectFromAlias, Review, LiveNamed
  <2> QED  BY <2>2, <2>3, <2>4, <2>5
<1>9. ASSUME NEW s \in Subject, RetireSubject(s) PROVE NamesInv'
  <2>1. NamesTypeOK'  BY <1>9 DEF RetireSubject
  <2>2. OneOwnerPerName'
        BY <1>9 DEF RetireSubject, OneOwnerPerName, NamedSubjects, NamedAliases
  <2>3. (AliasesHaveSubjects /\ LiveNamed)'  BY <1>9 DEF RetireSubject, AliasesHaveSubjects, LiveNamed
  <2> QED  BY <2>1, <2>2, <2>3
<1>10. CASE UNCHANGED nameVars
       BY <1>10 DEF nameVars, OneOwnerPerName, AliasesHaveSubjects, LiveNamed, NamedSubjects, NamedAliases
<1> QED
    BY <1>1, <1>2, <1>3, <1>4, <1>5, <1>6, <1>7, <1>8, <1>9, <1>10 DEF NamesNext, NameStep
-----------------------------------------------------------------------------
\* Every reachable store satisfies the invariant.
LEMMA NamesInvariant == NamesSpec => []NamesInv
  BY InitNames, NextNames, PTL DEF NamesSpec

\* Whatever creations, renamings, promotions and deletions took place, a name
\* has at most one owner in the two tables.
THEOREM OneOwnerAlways == NamesSpec => []OneOwnerPerName
<1>1. NamesInv => OneOwnerPerName
      BY DEF NamesInv
<1> QED  BY <1>1, NamesInvariant, PTL

\* A name that an alias holds leads to a live Subject.
THEOREM RefusedNameAlwaysResolves == NamesSpec => []RefusedNameResolves
<1>1. NamesInv => RefusedNameResolves
      BY DEF NamesInv, AliasesHaveSubjects, RefusedNameResolves, NamedAliases
<1> QED  BY <1>1, NamesInvariant, PTL

\* Only the promotion turns an alias into a Subject, and it takes the alias
\* that its client was shown.
THEOREM PromotionAlwaysTakesReviewed == NamesSpec => PromotionTakesReviewed
<1> DEFINE Promotion ==
      \A a \in LiveAliases : \A s \in Subject \ LiveSubjects :
        alias'[a].state = "deleted" /\ subject'[s].state = "live" =>
          /\ subject'[s].name = alias[a].name
          /\ \E c \in Client : reviewed[c] =
               [alias |-> a, subject |-> alias[a].subject, name |-> alias[a].name]
<1>1. NamesInv /\ [NamesNext]_nameVars => [Promotion]_nameVars
  <2> SUFFICES ASSUME NamesInv, NamesNext,
                      NEW a \in LiveAliases, NEW s \in Subject \ LiveSubjects,
                      alias'[a].state = "deleted", subject'[s].state = "live"
               PROVE  /\ subject'[s].name = alias[a].name
                      /\ \E c \in Client : reviewed[c] =
                           [alias |-> a, subject |-> alias[a].subject, name |-> alias[a].name]
      OBVIOUS
  <2>1. PICK c \in Client, b \in Alias, t \in Subject : CreateSubjectFromAlias(c, b, t)
        BY DEF NamesNext, NameStep, NamesInv, NamesTypeOK, SubjectRow, AliasRow, States,
               LiveAliases, LiveSubjects, CreateSubject, UpdateSubject, CreateSubjectAlias,
               UpdateSubjectAlias, RemoveSubjectAlias, Dismiss, ReviewConflict, RetireSubject
  <2>2. a = b /\ s = t
        BY <2>1 DEF CreateSubjectFromAlias, NamesInv, NamesTypeOK, SubjectRow, AliasRow, States,
                     LiveAliases, LiveSubjects
  <2> QED  BY <2>1, <2>2 DEF CreateSubjectFromAlias, IsReviewed, NamesInv, NamesTypeOK,
                              SubjectRow, AliasRow, LiveAliases, LiveSubjects
<1> QED  BY <1>1, NamesInvariant, PTL DEF NamesSpec, PromotionTakesReviewed
-----------------------------------------------------------------------------

\* No row, deleted or not, names a Subject that is not live: the deletion of a
\* Subject unassigns every row.  So a Subject that a read shows is the stored one.
AssignedToLive == \A t \in Thought : thought[t].subject \in LiveSubjects \cup {Nothing}

\* An inserted row has a text and a version.
Written == \A t \in Thought :
  thought[t].state # "absent" => thought[t].version >= 1 /\ thought[t].body \in Body

\* No client holds a version from the future, which a row written later could
\* reach by chance.
HeldBehind == \A c \in Client : held[c] # Nothing =>
  /\ thought[held[c].id].state # "absent"
  /\ held[c].version <= thought[held[c].id].version

\* No mindset period ends before it begins.
EndAfterStart == \A t \in Thought : \A i \in DOMAIN periods[t] :
  periods[t][i].start <= periods[t][i].end

IInv ==
  /\ TypeOK
  /\ NamesInv
  /\ AssignedToLive
  /\ Written
  /\ HeldBehind
  /\ AcceptedEditIsCurrent
  /\ EndAfterStart
  /\ PeriodsChronological

\* An empty store satisfies the invariant.
LEMMA InitIInv == Init => IInv
<1> SUFFICES ASSUME Init PROVE IInv
    OBVIOUS
<1>1. NamesInv
      BY InitNames DEF Init
<1>2. TypeOK
      BY <1>1, BoundsAssumption DEF Init, NamesInv, TypeOK, Row, States, Period, Time
<1> QED
    BY <1>1, <1>2, SnapshotAssumption
    DEF Init, IInv, AssignedToLive, Written, HeldBehind, AcceptedEditIsCurrent, EndAfterStart,
        PeriodsChronological
-----------------------------------------------------------------------------
(* The steps                                                               *)

\* Reads, creations, renamings and promotions leave the Subjects that a Thought
\* may name in place.
LEMMA SubjectsStay ==
  ASSUME NamesInv, NameStep \/ UNCHANGED nameVars
  PROVE  NamesInv' /\ LiveSubjects \subseteq LiveSubjects'
<1>1. NamesInv'
      BY NextNames DEF NamesNext
<1>2. LiveSubjects \subseteq LiveSubjects'
      BY DEF NameStep, nameVars, NamesInv, NamesTypeOK, SubjectRow, States, LiveSubjects,
             CreateSubject, UpdateSubject, CreateSubjectAlias, UpdateSubjectAlias,
             RemoveSubjectAlias, Dismiss, ReviewConflict, CreateSubjectFromAlias
<1> QED  BY <1>1, <1>2

\* A step that leaves Thoughts alone and no Subject out keeps the invariant.
LEMMA NamesPreserve ==
  ASSUME IInv, NameStep \/ UNCHANGED nameVars, UNCHANGED thoughtVars
  PROVE  IInv'
<1>1. NamesInv' /\ LiveSubjects \subseteq LiveSubjects'
      BY SubjectsStay DEF IInv
<1>2. TypeOK'
      BY <1>1 DEF IInv, TypeOK, NamesInv, thoughtVars
<1>3. AssignedToLive' /\ AcceptedEditIsCurrent'
      BY <1>1, NamesAssumption
      DEF IInv, TypeOK, Row, Snapshot, thoughtVars, AssignedToLive, AcceptedEditIsCurrent,
          ShownSubject, LiveThoughts
<1> QED
    BY <1>1, <1>2, <1>3
    DEF IInv, thoughtVars, Written, HeldBehind, EndAfterStart, PeriodsChronological

\* A new Thought has no reader yet, and its Subject is live.
LEMMA CreateThoughtPreserves ==
  ASSUME IInv, NEW t \in Thought, NEW body \in Body, NEW s \in Subject \cup {Nothing},
         CreateThought(t, body, s)
  PROVE  IInv'
<1>1. NamesInv' /\ LiveSubjects \subseteq LiveSubjects' /\ LiveSubjects' = LiveSubjects
      BY SubjectsStay DEF IInv, CreateThought, LiveSubjects, nameVars
<1>2. TypeOK'
      BY <1>1, BoundsAssumption DEF IInv, TypeOK, NamesInv, CreateThought, Row, States
<1>3. AssignedToLive' /\ Written' /\ HeldBehind'
      BY <1>1, <1>2, SnapshotAssumption
      DEF IInv, TypeOK, Row, Snapshot, CreateThought, AssignableTo, AssignedToLive, Written, HeldBehind
<1>4. AcceptedEditIsCurrent'
      BY <1>1, SnapshotAssumption
      DEF IInv, TypeOK, Row, Snapshot, CreateThought, HeldBehind, AcceptedEditIsCurrent,
          ShownSubject, LiveThoughts
<1> QED
    BY <1>1, <1>2, <1>3, <1>4 DEF IInv, CreateThought, EndAfterStart, PeriodsChronological

\* What a read returns is current.
LEMMA GetThoughtPreserves ==
  ASSUME IInv, NEW c \in Client, NEW t \in Thought, GetThought(c, t)
  PROVE  IInv'
<1>1. NamesInv' /\ LiveSubjects' = LiveSubjects
      BY SubjectsStay DEF IInv, GetThought, LiveSubjects, nameVars
<1> DEFINE read == [id |-> t, version |-> thought[t].version, body |-> thought[t].body,
                    subject |-> ShownSubject(t)]
<1>2. read \in Snapshot
      BY DEF IInv, TypeOK, Row, Written, GetThought, LiveThoughts, Snapshot, ShownSubject, LiveSubjects
<1>3. held' = [held EXCEPT ![c] = read] /\ UNCHANGED <<nameVars, thought, periods>>
      BY DEF GetThought
<1> HIDE DEF read
<1>4. TypeOK'
      BY <1>1, <1>2, <1>3 DEF IInv, TypeOK, NamesInv
<1>5. read.id = t /\ read.version = thought[t].version /\ read.body = thought[t].body
      /\ read.subject = ShownSubject(t)
      BY DEF read
<1>6. HeldBehind'
      BY <1>2, <1>3, <1>5 DEF IInv, TypeOK, Row, HeldBehind, GetThought, LiveThoughts
<1>7. AcceptedEditIsCurrent'
      BY <1>1, <1>2, <1>3, <1>5
      DEF IInv, TypeOK, AcceptedEditIsCurrent, ShownSubject, LiveThoughts
<1> QED
    BY <1>1, <1>3, <1>4, <1>6, <1>7
    DEF IInv, AssignedToLive, Written, EndAfterStart, PeriodsChronological

\* What the version of a row advances to, field by field.
LEMMA AdvancedRow ==
  ASSUME NEW row \in Row, NEW b
  PROVE  LET v == row.version + 1 IN
         /\ [Advanced(row) EXCEPT !.body = b] =
              [state |-> row.state, version |-> v, body |-> b, subject |-> row.subject]
         /\ [Advanced(row) EXCEPT !.state = "deleted"] =
              [state |-> "deleted", version |-> v, body |-> row.body, subject |-> row.subject]
         /\ [Advanced(row) EXCEPT !.subject = Nothing] =
              [state |-> row.state, version |-> v, body |-> row.body, subject |-> Nothing]
<1> DEFINE v == row.version + 1
           advanced == [state |-> row.state, version |-> v, body |-> row.body,
                        subject |-> row.subject]
<1>1. row = [state |-> row.state, version |-> row.version, body |-> row.body,
             subject |-> row.subject]
      BY DEF Row
<1>2. Advanced(row) = [row EXCEPT !.version = v]
      BY DEF Advanced
<1>3. Advanced(row) = advanced
      BY <1>1, <1>2
<1> QED  BY <1>3

\* An accepted edit or deletion advances the version past every other reader.
LEMMA WritePreserves ==
  ASSUME IInv, NEW c \in Client, (\E body \in Body : UpdateThought(c, body)) \/ DeleteThought(c)
  PROVE  IInv'
<1>1. NamesInv' /\ LiveSubjects' = LiveSubjects
      BY SubjectsStay DEF IInv, UpdateThought, DeleteThought, LiveSubjects, nameVars
<1> DEFINE t == held[c].id
<1>2. /\ held[c] \in Snapshot
      /\ t \in Thought
      /\ thought[t].state = "live"
      /\ thought[t].version = held[c].version
      /\ held[c].version < MaxVersion
      BY DEF IInv, TypeOK, Snapshot, UpdateThought, DeleteThought, Writable, LiveThoughts
<1>3. PICK row \in Row :
        /\ thought' = [thought EXCEPT ![t] = row]
        /\ row.version = thought[t].version + 1
        /\ row.subject = thought[t].subject
        /\ row.state \in {"live", "deleted"}
        /\ row.body \in Body
  <2> DEFINE r(state, body) == [state |-> state, version |-> thought[t].version + 1,
                                body |-> body, subject |-> thought[t].subject]
  <2>1. thought[t] \in Row /\ thought[t].body \in Body
        BY <1>2 DEF IInv, TypeOK, Written
  <2>2. CASE \E body \in Body : UpdateThought(c, body)
    <3>1. PICK body \in Body : UpdateThought(c, body)
          BY <2>2
    <3>2. [Advanced(thought[t]) EXCEPT !.body = body] = r("live", body)
          BY <1>2, <2>1, AdvancedRow, ZenonT(40)
    <3>3. r("live", body) \in Row
          BY <1>2, <2>1, BoundsAssumption DEF Row, States
    <3> QED  BY <3>1, <3>2, <3>3 DEF UpdateThought
  <2>3. CASE DeleteThought(c)
    <3>1. [Advanced(thought[t]) EXCEPT !.state = "deleted"] = r("deleted", thought[t].body)
          BY <1>2, <2>1, AdvancedRow
    <3>2. r("deleted", thought[t].body) \in Row
          BY <1>2, <2>1, BoundsAssumption DEF Row, States
    <3> QED  BY <2>1, <2>3, <3>1, <3>2 DEF DeleteThought
  <2> QED  BY <2>2, <2>3
<1>4. held' = [held EXCEPT ![c] = Nothing] /\ UNCHANGED <<nameVars, periods>>
      BY DEF UpdateThought, DeleteThought
<1> HIDE DEF t
<1>5. TypeOK'
      BY <1>1, <1>2, <1>3, <1>4 DEF IInv, TypeOK, NamesInv
<1>6. AssignedToLive' /\ Written'
      BY <1>1, <1>2, <1>3, <1>4 DEF IInv, TypeOK, Row, AssignedToLive, Written
<1>7. HeldBehind'
      BY <1>2, <1>3, <1>4, SnapshotAssumption DEF IInv, TypeOK, Row, Snapshot, HeldBehind
<1>8. AcceptedEditIsCurrent'
      BY <1>1, <1>2, <1>3, <1>4
      DEF IInv, TypeOK, Row, Snapshot, HeldBehind, AcceptedEditIsCurrent, ShownSubject, LiveThoughts
<1> QED
    BY <1>1, <1>4, <1>5, <1>6, <1>7, <1>8 DEF IInv, EndAfterStart, PeriodsChronological

\* The deletion of a Subject unassigns its Thoughts and advances their versions.
LEMMA DeleteSubjectPreserves ==
  ASSUME IInv, NEW s \in Subject, DeleteSubject(s)
  PROVE  IInv'
<1>1. NamesInv'
      BY NextNames DEF IInv, DeleteSubject, NamesNext
<1>2. LiveSubjects' = LiveSubjects \ {s}
      BY DEF IInv, DeleteSubject, RetireSubject, NamesInv, NamesTypeOK, SubjectRow, States, LiveSubjects
<1>3. \A t \in Thought :
        /\ thought[t].subject = s =>
             /\ thought'[t] \in Row
             /\ thought'[t].version = thought[t].version + 1
             /\ thought'[t].subject = Nothing
        /\ thought[t].subject # s => thought'[t] = thought[t]
        /\ thought'[t].state = thought[t].state
        /\ thought'[t].body = thought[t].body
  <2> TAKE t \in Thought
  <2>1. thought[t] \in Row
        BY DEF IInv, TypeOK
  <2>2. CASE thought[t].subject = s
    <3>1. thought'[t] = [Advanced(thought[t]) EXCEPT !.subject = Nothing]
          /\ thought[t].version < MaxVersion
          BY <2>2 DEF DeleteSubject
    <3>2. thought'[t] = [state |-> thought[t].state, version |-> thought[t].version + 1,
                         body |-> thought[t].body, subject |-> Nothing]
          BY <2>1, <3>1, AdvancedRow
    <3> QED  BY <2>1, <2>2, <3>1, <3>2, BoundsAssumption DEF Row
  <2>3. CASE thought[t].subject # s
        BY <2>3 DEF DeleteSubject
  <2> QED  BY <2>2, <2>3
<1>4. DOMAIN thought' = Thought /\ thought' = [t \in Thought |-> thought'[t]]
      BY DEF DeleteSubject
<1>5. UNCHANGED <<periods, held>>
      BY DEF DeleteSubject
<1>6. TypeOK'
      BY <1>1, <1>3, <1>4, <1>5 DEF IInv, TypeOK, NamesInv
<1>7. AssignedToLive' /\ Written' /\ HeldBehind'
      BY <1>2, <1>3, <1>5 DEF IInv, TypeOK, Row, Snapshot, AssignedToLive, Written, HeldBehind
<1>8. AcceptedEditIsCurrent'
      BY <1>2, <1>3, <1>5
      DEF IInv, TypeOK, Row, Snapshot, HeldBehind, AcceptedEditIsCurrent, ShownSubject, LiveThoughts
<1> QED
    BY <1>1, <1>5, <1>6, <1>7, <1>8 DEF IInv, EndAfterStart, PeriodsChronological
-----------------------------------------------------------------------------
(* Mindset periods                                                         *)

\* EndAfterStart and PeriodsChronological of one history.
Forward(ps) ==
  /\ \A i \in DOMAIN ps : ps[i].start <= ps[i].end
  /\ \A i, j \in DOMAIN ps : i < j => ps[i].end <= ps[j].start

\* Positions are numbers, and so are times.
LEMMA History ==
  ASSUME NEW ps \in Seq(Period)
  PROVE  /\ Len(ps) \in Nat
         /\ DOMAIN ps = 1 .. Len(ps)
         /\ \A i \in DOMAIN ps : ps[i] \in Period /\ ps[i].start \in Int /\ ps[i].end \in Int
<1>1. Len(ps) \in Nat /\ DOMAIN ps = 1 .. Len(ps) /\ \A i \in DOMAIN ps : ps[i] \in Period
      OBVIOUS
<1>2. \A p \in Period : p.start \in Int /\ p.end \in Int
      BY BoundsAssumption DEF Period, Time, Open
<1> QED  BY <1>1, <1>2

\* In a history that runs forward, nothing begins or ends after the last period.
LEMMA LastIsLatest ==
  ASSUME NEW ps \in Seq(Period), Forward(ps), NEW i \in DOMAIN ps, i # Len(ps)
  PROVE  /\ Len(ps) \in DOMAIN ps
         /\ ps[i].end <= ps[Len(ps)].start
         /\ ps[i].start <= ps[Len(ps)].start
         /\ ps[i].end <= ps[Len(ps)].end
<1>1. i \in Int /\ Len(ps) \in DOMAIN ps /\ i < Len(ps)
      BY History
<1>2. /\ ps[i].start \in Int /\ ps[i].end \in Int
      /\ ps[Len(ps)].start \in Int /\ ps[Len(ps)].end \in Int
      BY <1>1, History
<1>3. /\ ps[i].start <= ps[i].end
      /\ ps[i].end <= ps[Len(ps)].start
      /\ ps[Len(ps)].start <= ps[Len(ps)].end
      BY <1>1 DEF Forward
<1> QED  BY <1>1, <1>2, <1>3

\* The latest period by start and id is the last one.
LEMMA LatestIsLast ==
  ASSUME NEW ps \in Seq(Period), ps # <<>>, Forward(ps)
  PROVE  LatestIndex(ps) = Len(ps) /\ Len(ps) \in DOMAIN ps
<1> DEFINE Latest(i) == \A j \in DOMAIN ps : \/ ps[j].start < ps[i].start
                                             \/ ps[j].start = ps[i].start /\ j <= i
<1>1. Len(ps) \in DOMAIN ps
      OBVIOUS
<1>2. Latest(Len(ps))
  <2> TAKE j \in DOMAIN ps
  <2>1. CASE j = Len(ps)
        BY <1>1, <2>1, History
  <2>2. CASE j # Len(ps)
        BY <1>1, <2>2, History, LastIsLatest
  <2> QED  BY <2>1, <2>2
<1>3. ASSUME NEW i \in DOMAIN ps, Latest(i), i # Len(ps) PROVE FALSE
  <2>1. ps[i].start <= ps[Len(ps)].start /\ ~(Len(ps) <= i)
        BY <1>3, LastIsLatest, History
  <2>2. \/ ps[Len(ps)].start < ps[i].start
        \/ ps[Len(ps)].start = ps[i].start /\ Len(ps) <= i
        BY <1>1, <1>3
  <2> QED  BY <1>1, <2>1, <2>2, History
<1>4. LatestIndex(ps) = CHOOSE i \in DOMAIN ps : Latest(i)
      BY DEF LatestIndex
<1> HIDE DEF Latest
<1> QED  BY <1>1, <1>2, <1>3, <1>4

\* A period that begins where the history has ended may follow it.
LEMMA ForwardAppend ==
  ASSUME NEW ps \in Seq(Period), Forward(ps), NEW p \in Period, p.start <= p.end,
         ps # <<>> => ps[Len(ps)].end <= p.start
  PROVE  Append(ps, p) \in Seq(Period) /\ Forward(Append(ps, p))
<1> DEFINE qs == Append(ps, p)
<1>1. /\ qs \in Seq(Period)
      /\ DOMAIN qs = 1 .. Len(ps) + 1
      /\ qs[Len(ps) + 1] = p
      /\ \A i \in DOMAIN ps : qs[i] = ps[i]
      OBVIOUS
<1>2. p.start \in Int
      BY DEF Period, Time
<1>3. \A i \in DOMAIN ps : ps[i].end <= p.start
  <2> TAKE i \in DOMAIN ps
  <2>1. ps # <<>> /\ Len(ps) \in DOMAIN ps
        BY History
  <2>2. ps[i].end <= ps[Len(ps)].end
        BY LastIsLatest, History
  <2> QED  BY <1>2, <2>1, <2>2, History
<1>4. \A i \in DOMAIN qs : i \in DOMAIN ps \/ i = Len(ps) + 1
      BY <1>1, History
<1>5. ASSUME NEW i \in DOMAIN qs PROVE qs[i].start <= qs[i].end
      BY <1>1, <1>4 DEF Forward
<1>6. ASSUME NEW i \in DOMAIN qs, NEW j \in DOMAIN qs, i < j PROVE qs[i].end <= qs[j].start
  <2>1. i \in DOMAIN ps
        BY <1>1, <1>4, <1>6, History
  <2>2. CASE j \in DOMAIN ps
        BY <1>1, <1>6, <2>1, <2>2 DEF Forward
  <2>3. CASE j = Len(ps) + 1
        BY <1>1, <1>3, <2>1, <2>3
  <2> QED  BY <1>4, <2>2, <2>3
<1> QED  BY <1>1, <1>5, <1>6 DEF Forward

\* The last period may end at any time after its start.
LEMMA ForwardClose ==
  ASSUME NEW ps \in Seq(Period), ps # <<>>, Forward(ps), NEW at \in Time,
         ps[Len(ps)].start <= at
  PROVE  LET qs == [ps EXCEPT ![Len(ps)].end = at]
         IN qs \in Seq(Period) /\ Len(qs) = Len(ps) /\ Forward(qs)
<1> DEFINE n == Len(ps)
           p == [ps[n] EXCEPT !.end = at]
           qs == [ps EXCEPT ![n] = p]
<1>1. n \in DOMAIN ps /\ ps[n] \in Period
      BY History
<1>2. p \in Period /\ p.start = ps[n].start /\ p.end = at
      BY <1>1 DEF Period
<1>3. qs \in Seq(Period) /\ Len(qs) = n /\ DOMAIN qs = DOMAIN ps
      /\ qs[n] = p /\ \A i \in DOMAIN ps : i # n => qs[i] = ps[i]
      BY <1>1, <1>2
<1>4. ASSUME NEW i \in DOMAIN qs PROVE qs[i].start <= qs[i].end
      BY <1>2, <1>3 DEF Forward
<1>5. ASSUME NEW i \in DOMAIN qs, NEW j \in DOMAIN qs, i < j PROVE qs[i].end <= qs[j].start
  <2>1. i # n
        BY <1>3, <1>5, History
  <2>2. qs[j].start = ps[j].start
        BY <1>2, <1>3
  <2> QED  BY <1>3, <1>5, <2>1, <2>2 DEF Forward
<1> QED  BY <1>3, <1>4, <1>5 DEF Forward

\* A step that changes the history of one Thought only, and keeps it forward.
LEMMA HistoryPreserves ==
  ASSUME IInv, NEW t \in Thought, NEW qs \in Seq(Period), Forward(qs), Len(qs) <= MaxPeriods,
         periods' = [periods EXCEPT ![t] = qs], UNCHANGED <<nameVars, thought, held>>
  PROVE  IInv'
<1>1. NamesInv' /\ LiveSubjects' = LiveSubjects
      BY SubjectsStay DEF IInv, LiveSubjects, nameVars
<1>2. \A u \in Thought : periods'[u] = IF u = t THEN qs ELSE periods[u]
      BY DEF IInv, TypeOK
<1>3. TypeOK'
      BY <1>1, <1>2 DEF IInv, TypeOK, NamesInv
<1>4. EndAfterStart' /\ PeriodsChronological'
      BY <1>2 DEF IInv, EndAfterStart, PeriodsChronological, Forward
<1> QED
    BY <1>1, <1>3, <1>4
    DEF IInv, AssignedToLive, Written, HeldBehind, AcceptedEditIsCurrent, ShownSubject, LiveThoughts

\* A period opens where the last one has ended.
LEMMA MarkPreserves ==
  ASSUME IInv, NEW t \in Thought, NEW at \in Time, MarkMindset(t, at)
  PROVE  IInv'
<1> DEFINE ps == periods[t]
           p == [start |-> at, end |-> Open]
<1>1. ps \in Seq(Period) /\ Forward(ps) /\ Len(ps) < MaxPeriods
      BY DEF IInv, TypeOK, MarkMindset, EndAfterStart, PeriodsChronological, Forward
<1>2. p \in Period /\ p.start = at /\ p.start <= p.end
      BY BoundsAssumption DEF Period, Time, Open
<1>3. ps # <<>> => ps[Len(ps)].end <= at
      BY <1>1, LatestIsLast, History DEF MarkMindset, InOrder, IsOpen
<1>4. Append(ps, p) \in Seq(Period) /\ Forward(Append(ps, p))
      BY <1>1, <1>2, <1>3, ForwardAppend
<1>5. Len(Append(ps, p)) <= MaxPeriods
      BY <1>1, BoundsAssumption
<1>6. periods' = [periods EXCEPT ![t] = Append(ps, p)] /\ UNCHANGED <<nameVars, thought, held>>
      BY DEF MarkMindset
<1> HIDE DEF p
<1> QED  BY <1>4, <1>5, <1>6, HistoryPreserves

\* The open period that is closed is the last one.
LEMMA UnmarkPreserves ==
  ASSUME IInv, NEW t \in Thought, NEW at \in Time, UnmarkMindset(t, at)
  PROVE  IInv'
<1> DEFINE ps == periods[t]
           qs == [ps EXCEPT ![Len(ps)].end = at]
<1>1. ps \in Seq(Period) /\ Forward(ps) /\ Len(ps) <= MaxPeriods /\ ps # <<>>
      BY DEF IInv, TypeOK, UnmarkMindset, EndAfterStart, PeriodsChronological, Forward
<1>2. LatestIndex(ps) = Len(ps) /\ ps[Len(ps)].start <= at
      BY <1>1, LatestIsLast DEF UnmarkMindset, InOrder, IsOpen
<1>3. qs \in Seq(Period) /\ Len(qs) = Len(ps) /\ Forward(qs)
      BY <1>1, <1>2, ForwardClose
<1>4. periods' = [periods EXCEPT ![t] = qs] /\ UNCHANGED <<nameVars, thought, held>>
      BY <1>2 DEF UnmarkMindset
<1> HIDE DEF qs
<1> QED  BY <1>1, <1>3, <1>4, HistoryPreserves
-----------------------------------------------------------------------------
\* Every step of the store keeps the invariant.
LEMMA NextIInv == IInv /\ [Next]_vars => IInv'
<1> SUFFICES ASSUME IInv, [Next]_vars PROVE IInv'
    OBVIOUS
<1>1. CASE NameStep /\ UNCHANGED thoughtVars
      BY <1>1, NamesPreserve
<1>2. CASE \E s \in Subject : DeleteSubject(s)
      BY <1>2, DeleteSubjectPreserves
<1>3. CASE \E t \in Thought, body \in Body, s \in Subject \cup {Nothing} :
             CreateThought(t, body, s)
      BY <1>3, CreateThoughtPreserves
<1>4. CASE \E c \in Client : \E t \in Thought : GetThought(c, t)
      BY <1>4, GetThoughtPreserves
<1>5. CASE \E c \in Client : (\E body \in Body : UpdateThought(c, body)) \/ DeleteThought(c)
      BY <1>5, WritePreserves
<1>6. CASE \E t \in Thought, at \in Time : MarkMindset(t, at) \/ UnmarkMindset(t, at)
      BY <1>6, MarkPreserves, UnmarkPreserves
<1>7. CASE UNCHANGED vars
      BY <1>7, NamesPreserve DEF vars
<1> QED  BY <1>1, <1>2, <1>3, <1>4, <1>5, <1>6, <1>7 DEF Next

\* Every reachable store satisfies the invariant.
LEMMA Invariance == Spec => []IInv
  BY InitIInv, NextIInv, PTL DEF Spec

\* Rows, versions, histories and what clients hold keep their types and bounds.
THEOREM TypeCorrect == Spec => []TypeOK
<1>1. IInv => TypeOK
      BY DEF IInv
<1> QED  BY <1>1, Invariance, PTL

\* An edit or deletion that the version check lets through was made by someone
\* who saw the present text and Subject.
THEOREM AcceptedEditAlwaysCurrent == Spec => []AcceptedEditIsCurrent
<1>1. IInv => AcceptedEditIsCurrent
      BY DEF IInv
<1> QED  BY <1>1, Invariance, PTL

\* Every Thought stays in exactly one of the lists.
THEOREM EveryThoughtAlwaysListed == Spec => []EveryThoughtIsListed
<1>1. IInv => EveryThoughtIsListed
      BY NamesAssumption
      DEF IInv, AssignedToLive, EveryThoughtIsListed, UnassignedThoughts, ThoughtsOf,
          LiveThoughts, LiveSubjects
<1> QED  BY <1>1, Invariance, PTL

\* Mindset histories run forward, in whatever order the changes arrive.
THEOREM PeriodsAlwaysChronological == Spec => []PeriodsChronological
<1>1. IInv => PeriodsChronological
      BY DEF IInv
<1> QED  BY <1>1, Invariance, PTL

\* The names keep one owner each while Thoughts come and go.
THEOREM NamesAlwaysOwned == Spec => []OneOwnerPerName
<1>1. IInv => OneOwnerPerName
      BY DEF IInv, NamesInv
<1> QED  BY <1>1, Invariance, PTL
=============================================================================
