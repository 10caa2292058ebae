---------------------------- MODULE GoalStoreProofs ----------------------------
(***************************************************************************)
(* What holds of GoalStore for every set of Subjects, Goals and clients    *)
(* and every bound on versions.                                            *)
(***************************************************************************)
EXTENDS GoalStore, WellFoundedInduction, TLAPS

\* Numbers are bounded, so that a largest one exists.
NumbersBounded == \E n \in Nat : \A p \in Pair : number[p] <= n

\* A bounded, nonempty set of naturals has a largest element.
LEMMA MaxOfBounded ==
  ASSUME NEW S \in SUBSET Nat, S # {}, NEW bound \in Nat, \A x \in S : x <= bound
  PROVE  Max(S) \in S /\ \A y \in S : Max(S) >= y
<1> DEFINE gaps == {bound - x : x \in S}
           less == {p \in Nat \X Nat : p[1] < p[2]}
<1>1. gaps \subseteq Nat /\ gaps # {}
  <2>1. ASSUME NEW x \in S PROVE bound - x \in Nat
    <3>1. x \in Nat /\ x <= bound
      OBVIOUS
    <3> QED BY <3>1
  <2> QED BY <2>1
<1>2. IsWellFoundedOn(less, Nat)
  BY NatLessThanWellFounded, Zenon DEF OpToRel
<1>3. PICK gap \in gaps : \A other \in gaps : <<other, gap>> \notin less
  <2> HIDE DEF less, gaps
  <2> QED BY <1>1, <1>2, WFMin
<1>4. PICK x \in S : gap = bound - x
  BY <1>3
<1>5. ASSUME NEW y \in S PROVE x >= y
  <2>1. bound - y \in gaps
    OBVIOUS
  <2>2. ~ (bound - y < gap)
    BY <2>1, <1>1, <1>3
  <2>3. x \in Nat /\ y \in Nat
    OBVIOUS
  <2> QED BY <2>2, <2>3, <1>4
<1> QED BY <1>5 DEF Max

LEMMA NextNumberIsNew ==
  ASSUME TypeOK, NEW bound \in Nat, \A p \in Pair : number[p] <= bound,
         NEW s \in Subject, NEW g \in Goal
  PROVE  /\ NextNumber(s) \in Nat \ {0}
         /\ NextNumber(s) <= bound + 1
         /\ \A h \in Goal : number[<<s, h>>] < NextNumber(s)
<1> DEFINE given == {number[<<s, h>>] : h \in Goal}
<1>1. \A h \in Goal : number[<<s, h>>] \in Nat /\ number[<<s, h>>] <= bound
  BY DEF TypeOK, Pair
<1>2. given \in SUBSET Nat /\ given # {} /\ \A n \in given : n <= bound
  BY <1>1
<1>3. Max(given) \in given /\ \A n \in given : Max(given) >= n
  BY <1>2, MaxOfBounded
<1>4. NextNumber(s) = 1 + Max(given)
  BY DEF NextNumber
<1>5. Max(given) \in Nat /\ Max(given) <= bound
  BY <1>2, <1>3
<1>6. \A h \in Goal : Max(given) >= number[<<s, h>>]
  BY <1>3
<1> HIDE DEF given
<1> QED BY <1>1, <1>4, <1>5, <1>6

\* What linking the Subjects in ss to g does to the numbers.
LEMMA NumberedFacts ==
  ASSUME TypeOK, NumbersBounded, NEW g \in Goal, NEW ss \in SUBSET Subject
  PROVE  /\ Numbered(g, ss) \in [Pair -> Nat]
         /\ \E n \in Nat : \A p \in Pair : Numbered(g, ss)[p] <= n
         /\ \A p \in Pair :
              \/ /\ Numbered(g, ss)[p] = number[p]
                 /\ p[2] = g /\ p[1] \in ss => number[p] > 0
              \/ /\ p[2] = g /\ p[1] \in ss /\ number[p] = 0
                 /\ Numbered(g, ss)[p] > 0
                 /\ \A h \in Goal : number[<<p[1], h>>] < Numbered(g, ss)[p]
<1>1. PICK bound \in Nat : \A p \in Pair : number[p] <= bound
  BY DEF NumbersBounded
<1>2. ASSUME NEW p \in Pair
      PROVE  /\ number[p] \in Nat
             /\ p[1] \in Subject
             /\ NextNumber(p[1]) \in Nat \ {0}
             /\ NextNumber(p[1]) <= bound + 1
             /\ \A h \in Goal : number[<<p[1], h>>] < NextNumber(p[1])
  <2>1. p[1] \in Subject /\ p[2] \in Goal /\ number[p] \in Nat
    BY DEF Pair, TypeOK
  <2> QED BY <1>1, <2>1, NextNumberIsNew
<1>3. ASSUME NEW p \in Pair
      PROVE  /\ Numbered(g, ss)[p] \in Nat
             /\ Numbered(g, ss)[p] <= bound + 1
             /\ \/ /\ Numbered(g, ss)[p] = number[p]
                   /\ p[2] = g /\ p[1] \in ss => number[p] > 0
                \/ /\ p[2] = g /\ p[1] \in ss /\ number[p] = 0
                   /\ Numbered(g, ss)[p] > 0
                   /\ \A h \in Goal : number[<<p[1], h>>] < Numbered(g, ss)[p]
  <2>1. CASE p[2] = g /\ p[1] \in ss /\ number[p] = 0
    <3>1. Numbered(g, ss)[p] = NextNumber(p[1])
      BY <2>1 DEF Numbered
    <3> QED BY <1>2, <2>1, <3>1
  <2>2. CASE ~ (p[2] = g /\ p[1] \in ss /\ number[p] = 0)
    <3>1. Numbered(g, ss)[p] = number[p]
      BY <2>2 DEF Numbered
    <3> QED BY <1>1, <1>2, <2>2, <3>1
  <2> QED BY <2>1, <2>2
<1>4. Numbered(g, ss) \in [Pair -> Nat]
  BY <1>3 DEF Numbered
<1>5. \A p \in Pair : Numbered(g, ss)[p] <= bound + 1
  BY <1>3
<1> QED BY <1>3, <1>4, <1>5

\* Advancing a Goal below the version bound keeps its row well-typed.
LEMMA AdvancedRow ==
  ASSUME TypeOK, NEW g \in Goal, goal[g].version < MaxVersion,
         NEW state \in {"active", "inactive", "deleted"}
  PROVE  Advanced(g, state) \in Row
<1>1. goal[g].version \in Nat /\ goal[g].version + 1 \in 0 .. MaxVersion
  BY VersionAssumption DEF TypeOK, Row
<1> QED BY <1>1 DEF Advanced, Row

LEMMA HeldType ==
  ASSUME TypeOK, NEW c \in Client, held[c] # Nothing
  PROVE  held[c] \in Edit /\ held[c].goal \in Goal
BY DEF TypeOK, Edit

\* A new Goal, or a new link, of the Subjects in ss to g.
LEMMA CreateType ==
  ASSUME TypeOK, NumbersBounded, NEW g \in Goal, NEW state \in {"active", "inactive"},
         NEW ss \in SUBSET Subject, CreateGoalWithSubjects(g, state, ss)
  PROVE  TypeOK'
<1>1. [state |-> state, version |-> 1] \in Row
  <2>1. 1 \in 0 .. MaxVersion
    BY VersionAssumption DEF CreateGoalWithSubjects
  <2> QED BY <2>1 DEF Row
<1>2. number' \in [Pair -> Nat]
  BY NumberedFacts DEF CreateGoalWithSubjects
<1> QED BY <1>1, <1>2 DEF CreateGoalWithSubjects, TypeOK, Pair

(***************************************************************************)
(* Every state the program reaches is of the declared type.                *)
(***************************************************************************)
LEMMA TypeStep ==
  ASSUME TypeOK, NumbersBounded, [Next]_vars
  PROVE  TypeOK'
<1>1. ASSUME NEW s \in Subject, CreateSubject(s) \/ DeleteSubject(s) PROVE TypeOK'
  BY <1>1 DEF CreateSubject, DeleteSubject, TypeOK
<1>2. ASSUME NEW g \in Goal, NEW state \in {"active", "inactive"}, CreateGoal(g, state)
      PROVE  TypeOK'
  BY <1>2, CreateType DEF CreateGoal
<1>3. ASSUME NEW g \in Goal, NEW state \in {"active", "inactive"},
             NEW ss \in SUBSET Subject, CreateGoalWithSubjects(g, state, ss)
      PROVE  TypeOK'
  BY <1>3, CreateType
<1>4. ASSUME NEW s \in Subject, NEW g \in Goal, AddSubjectGoal(s, g)
      PROVE  TypeOK'
  <2>1. Advanced(g, goal[g].state) \in Row
    BY <1>4, AdvancedRow DEF AddSubjectGoal, VisibleGoals
  <2>2. number' \in [Pair -> Nat]
    BY <1>4, NumberedFacts DEF AddSubjectGoal
  <2> QED BY <1>4, <2>1, <2>2 DEF AddSubjectGoal, TypeOK, Pair
<1>5. ASSUME NEW s \in Subject, NEW g \in Goal, RemoveSubjectGoal(s, g)
      PROVE  TypeOK'
  <2>1. Advanced(g, goal[g].state) \in Row
    BY <1>5, AdvancedRow DEF RemoveSubjectGoal, VisibleGoals
  <2> QED BY <1>5, <2>1 DEF RemoveSubjectGoal, TypeOK
<1>6. ASSUME NEW child \in Goal, NEW parent \in Goal,
             AddGoalParent(child, parent) \/ RemoveGoalParent(child, parent)
      PROVE  TypeOK'
  BY <1>6 DEF AddGoalParent, RemoveGoalParent, TypeOK
<1>7. ASSUME NEW c \in Client, NEW g \in Goal, GetGoal(c, g) PROVE TypeOK'
  <2>1. [goal |-> g, version |-> goal[g].version, listed |-> FALSE,
         subjects |-> {}, activation |-> "unread"] \in Edit
    BY DEF Edit, TypeOK, Row
  <2> QED BY <1>7, <2>1 DEF GetGoal, TypeOK
<1>8. ASSUME NEW c \in Client, ListLiveSubjectsForGoal(c) PROVE TypeOK'
  <2>1. held[c] \in Edit
    BY <1>8, HeldType DEF ListLiveSubjectsForGoal
  <2>2. [held[c] EXCEPT !.listed = TRUE,
                        !.subjects = LiveSubjectsOf(held[c].goal)] \in Edit
    BY <2>1 DEF Edit, LiveSubjectsOf, LiveSubjects
  <2> QED BY <1>8, <2>1, <2>2 DEF ListLiveSubjectsForGoal, TypeOK
<1>9. ASSUME NEW c \in Client, ReadOmittedSettings(c) PROVE TypeOK'
  <2>1. held[c] \in Edit /\ goal[held[c].goal].state \in {"active", "inactive"}
    BY <1>9, HeldType DEF ReadOmittedSettings, VisibleGoals
  <2>2. [held[c] EXCEPT !.activation = goal[held[c].goal].state] \in Edit
    BY <2>1 DEF Edit
  <2> QED BY <1>9, <2>1, <2>2 DEF ReadOmittedSettings, TypeOK
<1>10. ASSUME NEW c \in Client, NEW state \in {"active", "inactive"},
              UpdateGoal(c, state)
       PROVE  TypeOK'
  <2>1. held[c].goal \in Goal
    BY <1>10, HeldType DEF UpdateGoal, Writable
  <2>2. Advanced(held[c].goal, state) \in Row
    BY <1>10, <2>1, AdvancedRow DEF UpdateGoal
  <2> QED BY <1>10, <2>1, <2>2 DEF UpdateGoal, TypeOK
<1>11. ASSUME NEW c \in Client, UpdateGoalOmittingActivation(c) PROVE TypeOK'
  <2>1. held[c].activation \in {"active", "inactive"}
    BY <1>11, HeldType DEF UpdateGoalOmittingActivation, Edit
  <2> QED BY <1>10, <1>11, <2>1 DEF UpdateGoalOmittingActivation
<1>12. ASSUME NEW c \in Client, DeleteGoal(c) PROVE TypeOK'
  <2>1. held[c].goal \in Goal
    BY <1>12, HeldType DEF DeleteGoal, Writable
  <2>2. Advanced(held[c].goal, "deleted") \in Row
    BY <1>12, <2>1, AdvancedRow DEF DeleteGoal
  <2> QED BY <1>12, <2>1, <2>2 DEF DeleteGoal, TypeOK
<1>13. ASSUME NEW c \in Client, NEW ss \in SUBSET Subject, ReplaceGoalSubjects(c, ss)
       PROVE  TypeOK'
  <2> DEFINE g == held[c].goal
  <2>1. g \in VisibleGoals
    BY <1>13 DEF ReplaceGoalSubjects, Writable
  <2>2. goal' \in [Goal -> Row]
    <3>1. CASE ss = LiveSubjectsOf(g)
      BY <1>13, <3>1 DEF ReplaceGoalSubjects, TypeOK
    <3>2. CASE ss # LiveSubjectsOf(g)
      <4>1. Advanced(g, goal[g].state) \in Row
        BY <1>13, <2>1, <3>2, AdvancedRow DEF ReplaceGoalSubjects, VisibleGoals
      <4> QED BY <1>13, <3>2, <4>1 DEF ReplaceGoalSubjects, TypeOK
    <3> QED BY <3>1, <3>2
  <2>3. number' \in [Pair -> Nat]
    BY <1>13, <2>1, NumberedFacts DEF ReplaceGoalSubjects, VisibleGoals
  <2>4. linked' \in SUBSET Pair
    BY <1>13, <2>1 DEF ReplaceGoalSubjects, TypeOK, Pair, VisibleGoals
  <2> QED BY <1>13, <2>2, <2>3, <2>4 DEF ReplaceGoalSubjects, TypeOK
<1>14. CASE UNCHANGED vars
  BY <1>14 DEF vars, TypeOK
<1> QED
  BY <1>1, <1>2, <1>3, <1>4, <1>5, <1>6, <1>7, <1>8, <1>9, <1>10, <1>11,
     <1>12, <1>13, <1>14
     DEF Next
-----------------------------------------------------------------------------
(***************************************************************************)
(* Numbers.                                                                *)
(***************************************************************************)
\* Numbers change only where Subjects are linked to one Goal.
LEMMA NumberChange ==
  ASSUME TypeOK, [Next]_vars
  PROVE  \/ number' = number /\ linked' \subseteq linked
         \/ \E g \in Goal, ss \in SUBSET Subject :
               /\ number' = Numbered(g, ss)
               /\ linked' \subseteq linked \cup (ss \X {g})
<1> DEFINE Kept == number' = number /\ linked' \subseteq linked
           Given == \E g \in Goal, ss \in SUBSET Subject :
                       /\ number' = Numbered(g, ss)
                       /\ linked' \subseteq linked \cup (ss \X {g})
<1>1. ASSUME NEW s \in Subject, CreateSubject(s) \/ DeleteSubject(s) PROVE Kept
  BY <1>1 DEF CreateSubject, DeleteSubject
<1>2. ASSUME NEW g \in Goal, NEW state \in {"active", "inactive"}, CreateGoal(g, state)
      PROVE  Given
  BY <1>2 DEF CreateGoal, CreateGoalWithSubjects
<1>3. ASSUME NEW g \in Goal, NEW state \in {"active", "inactive"},
             NEW ss \in SUBSET Subject, CreateGoalWithSubjects(g, state, ss)
      PROVE  Given
  BY <1>3 DEF CreateGoalWithSubjects
<1>4. ASSUME NEW s \in Subject, NEW g \in Goal, AddSubjectGoal(s, g)
      PROVE  Given
  <2>1. number' = Numbered(g, {s}) /\ linked' \subseteq linked \cup ({s} \X {g})
    BY <1>4 DEF AddSubjectGoal
  <2> QED BY <2>1
<1>5. ASSUME NEW s \in Subject, NEW g \in Goal, RemoveSubjectGoal(s, g)
      PROVE  Kept
  BY <1>5 DEF RemoveSubjectGoal
<1>6. ASSUME NEW child \in Goal, NEW parent \in Goal,
             AddGoalParent(child, parent) \/ RemoveGoalParent(child, parent)
      PROVE  Kept
  BY <1>6 DEF AddGoalParent, RemoveGoalParent
<1>7. ASSUME NEW c \in Client, NEW g \in Goal, GetGoal(c, g) PROVE Kept
  BY <1>7 DEF GetGoal
<1>8. ASSUME NEW c \in Client,
             ListLiveSubjectsForGoal(c) \/ ReadOmittedSettings(c) \/ DeleteGoal(c)
      PROVE  Kept
  BY <1>8 DEF ListLiveSubjectsForGoal, ReadOmittedSettings, DeleteGoal
<1>9. ASSUME NEW c \in Client, NEW state, UpdateGoal(c, state) PROVE Kept
  BY <1>9 DEF UpdateGoal
<1>10. ASSUME NEW c \in Client, UpdateGoalOmittingActivation(c) PROVE Kept
  BY <1>9, <1>10 DEF UpdateGoalOmittingActivation
<1>11. ASSUME NEW c \in Client, NEW ss \in SUBSET Subject, ReplaceGoalSubjects(c, ss)
       PROVE  Given
  <2>1. held[c].goal \in Goal
    BY <1>11, HeldType DEF ReplaceGoalSubjects, Writable
  <2>2. /\ number' = Numbered(held[c].goal, ss)
        /\ linked' \subseteq linked \cup (ss \X {held[c].goal})
    BY <1>11 DEF ReplaceGoalSubjects
  <2> QED BY <2>1, <2>2
<1>12. CASE UNCHANGED vars
  BY <1>12 DEF vars
<1> QED
  BY <1>1, <1>2, <1>3, <1>4, <1>5, <1>6, <1>7, <1>8, <1>9, <1>10, <1>11, <1>12
     DEF Next

LEMMA NumbersStep ==
  ASSUME TypeOK, NumbersBounded, NumbersAreReferences, [Next]_vars
  PROVE  /\ NumbersBounded'
         /\ NumbersAreReferences'
         /\ \A p \in Pair : \/ number'[p] = number[p]
                            \/ /\ number[p] = 0
                               /\ \A g \in Goal : number[<<p[1], g>>] < number'[p]
<1>1. CASE number' = number /\ linked' \subseteq linked
  BY <1>1 DEF NumbersBounded, NumbersAreReferences
<1>2. ASSUME NEW g \in Goal, NEW ss \in SUBSET Subject,
             number' = Numbered(g, ss),
             linked' \subseteq linked \cup (ss \X {g})
      PROVE  /\ NumbersBounded'
             /\ NumbersAreReferences'
             /\ \A p \in Pair : \/ number'[p] = number[p]
                                \/ /\ number[p] = 0
                                   /\ \A h \in Goal : number[<<p[1], h>>] < number'[p]
  <2>1. /\ \E n \in Nat : \A p \in Pair : number'[p] <= n
        /\ \A p \in Pair :
             \/ /\ number'[p] = number[p]
                /\ p[2] = g /\ p[1] \in ss => number[p] > 0
             \/ /\ p[2] = g /\ p[1] \in ss /\ number[p] = 0
                /\ number'[p] > 0
                /\ \A h \in Goal : number[<<p[1], h>>] < number'[p]
    BY <1>2, NumberedFacts
  <2>2. \A p \in Pair : number[p] \in Nat
    BY DEF TypeOK
  <2>3. ASSUME NEW p \in linked' PROVE number'[p] > 0
    <3>1. p \in Pair
      BY <1>2, <2>3 DEF TypeOK, Pair
    <3>2. CASE p \in linked
      BY <2>1, <2>2, <3>1, <3>2 DEF NumbersAreReferences
    <3>3. CASE p \in ss \X {g}
      BY <2>1, <3>1, <3>3
    <3> QED BY <1>2, <3>2, <3>3
  <2>4. ASSUME NEW s \in Subject, NEW h \in Goal, NEW k \in Goal,
               number'[<<s, h>>] = number'[<<s, k>>], number'[<<s, h>>] > 0
        PROVE  h = k
    <3>1. <<s, h>> \in Pair /\ <<s, k>> \in Pair
      BY DEF Pair
    <3>2. number[<<s, h>>] \in Nat /\ number[<<s, k>>] \in Nat
      BY <3>1, <2>2
    <3>3. number[<<s, h>>] = number[<<s, k>>] /\ number[<<s, h>>] > 0 => h = k
      BY DEF NumbersAreReferences
    <3>4. \/ number'[<<s, h>>] = number[<<s, h>>]
          \/ h = g /\ \A m \in Goal : number[<<s, m>>] < number'[<<s, h>>]
      BY <2>1, <3>1
    <3>5. \/ number'[<<s, k>>] = number[<<s, k>>]
          \/ k = g /\ \A m \in Goal : number[<<s, m>>] < number'[<<s, k>>]
      BY <2>1, <3>1
    <3>6. number[<<s, h>>] # number'[<<s, h>>] => number[<<s, k>>] < number'[<<s, h>>]
      BY <3>4
    <3>7. number[<<s, k>>] # number'[<<s, k>>] => number[<<s, h>>] < number'[<<s, k>>]
      BY <3>5
    <3>8. CASE number'[<<s, h>>] = number[<<s, h>>]
      BY <2>4, <3>2, <3>3, <3>7, <3>8
    <3>9. CASE number'[<<s, k>>] = number[<<s, k>>]
      BY <2>4, <3>2, <3>3, <3>6, <3>9
    <3> QED BY <3>4, <3>5, <3>8, <3>9
  <2> QED
    BY <2>1, <2>3, <2>4 DEF NumbersBounded, NumbersAreReferences
<1> QED BY <1>1, <1>2, NumberChange
-----------------------------------------------------------------------------
(***************************************************************************)
(* The hierarchy has no cycle.                                             *)
(***************************************************************************)
\* What is above g is closed and contains g.
LEMMA AncestorsClosed ==
  ASSUME NEW edges \in SUBSET (Goal \X Goal), NEW g \in Goal
  PROVE  /\ g \in SelfAndAncestors(edges, g)
         /\ ClosedUnder(edges, SelfAndAncestors(edges, g))
         /\ SelfAndAncestors(edges, g) \subseteq Goal
<1>1. ASSUME NEW e \in edges, e[1] \in SelfAndAncestors(edges, g)
      PROVE  e[2] \in SelfAndAncestors(edges, g)
  <2>1. e[2] \in Goal
    OBVIOUS
  <2> QED BY <1>1, <2>1 DEF SelfAndAncestors, ClosedUnder
<1> QED BY <1>1 DEF SelfAndAncestors, ClosedUnder

\* ... and it is the least such set.
LEMMA AncestorsLeast ==
  ASSUME NEW edges, NEW g, NEW set \in SUBSET Goal, g \in set, ClosedUnder(edges, set)
  PROVE  SelfAndAncestors(edges, g) \subseteq set
BY DEF SelfAndAncestors

Acyclic(edges) == \A e \in edges : e[1] \notin SelfAndAncestors(edges, e[2])

LEMMA RemovingKeepsAcyclic ==
  ASSUME NEW edges \in SUBSET (Goal \X Goal), NEW fewer \in SUBSET edges, Acyclic(edges)
  PROVE  Acyclic(fewer)
<1> SUFFICES ASSUME NEW e \in fewer PROVE e[1] \notin SelfAndAncestors(fewer, e[2])
  BY DEF Acyclic
<1>1. e[2] \in Goal /\ e \in edges
  OBVIOUS
<1>2. ClosedUnder(fewer, SelfAndAncestors(edges, e[2]))
  BY <1>1, AncestorsClosed DEF ClosedUnder
<1>3. SelfAndAncestors(fewer, e[2]) \subseteq SelfAndAncestors(edges, e[2])
  BY <1>1, <1>2, AncestorsClosed, AncestorsLeast
<1> QED BY <1>1, <1>3 DEF Acyclic

\* An edge whose child is not above its parent closes no cycle.
LEMMA AddingKeepsAcyclic ==
  ASSUME NEW edges \in SUBSET (Goal \X Goal), Acyclic(edges),
         NEW child \in Goal, NEW parent \in Goal,
         child \notin SelfAndAncestors(edges, parent)
  PROVE  Acyclic(edges \cup {<<child, parent>>})
<1> DEFINE more == edges \cup {<<child, parent>>}
           Up(g) == SelfAndAncestors(edges, g)
<1> SUFFICES ASSUME NEW e \in more PROVE e[1] \notin SelfAndAncestors(more, e[2])
  BY DEF Acyclic
<1>1. e[1] \in Goal /\ e[2] \in Goal
  OBVIOUS
<1>2. e[1] \notin Up(e[2])
  BY DEF Acyclic
<1>3. CASE child \notin Up(e[2])
  <2>1. ClosedUnder(more, Up(e[2]))
    BY <1>1, <1>3, AncestorsClosed DEF ClosedUnder
  <2>2. SelfAndAncestors(more, e[2]) \subseteq Up(e[2])
    BY <1>1, <2>1, AncestorsClosed, AncestorsLeast
  <2> QED BY <1>2, <2>2
<1>4. CASE child \in Up(e[2])
  <2>1. e \in edges
    BY <1>4
  <2>2. ClosedUnder(more, Up(e[2]) \cup Up(parent))
    BY <1>1, AncestorsClosed DEF ClosedUnder
  <2>3. SelfAndAncestors(more, e[2]) \subseteq Up(e[2]) \cup Up(parent)
    BY <1>1, <2>2, AncestorsClosed, AncestorsLeast
  <2>4. e[1] \in Up(parent) => Up(e[2]) \subseteq Up(parent)
    BY <1>1, <2>1, AncestorsClosed, AncestorsLeast DEF ClosedUnder
  <2> QED BY <1>2, <1>4, <2>3, <2>4
<1> QED BY <1>3, <1>4

LEMMA ParentsChange ==
  ASSUME TypeOK, [Next]_vars
  PROVE  \/ parents' \subseteq parents
         \/ \E child, parent \in Goal :
               /\ child \notin SelfAndAncestors(parents, parent)
               /\ parents' = parents \cup {<<child, parent>>}
<1>1. ASSUME NEW child \in Goal, NEW parent \in Goal, AddGoalParent(child, parent)
      PROVE  /\ child \notin SelfAndAncestors(parents, parent)
             /\ parents' = parents \cup {<<child, parent>>}
  BY <1>1 DEF AddGoalParent
<1>2. ASSUME NEW child \in Goal, NEW parent \in Goal, RemoveGoalParent(child, parent)
      PROVE  parents' \subseteq parents
  BY <1>2 DEF RemoveGoalParent
<1>3. CASE UNCHANGED parents
  BY <1>3
<1> QED
  BY <1>1, <1>2, <1>3
     DEF Next, vars, CreateSubject, DeleteSubject, CreateGoal,
         CreateGoalWithSubjects, AddSubjectGoal, RemoveSubjectGoal, GetGoal,
         ListLiveSubjectsForGoal, ReadOmittedSettings, UpdateGoal,
         UpdateGoalOmittingActivation, DeleteGoal, ReplaceGoalSubjects

LEMMA NoCycleStep ==
  ASSUME TypeOK, NoCycle, [Next]_vars
  PROVE  NoCycle'
<1>1. Acyclic(parents) /\ parents \in SUBSET (Goal \X Goal)
  BY DEF NoCycle, Acyclic, TypeOK
<1>2. Acyclic(parents')
  BY <1>1, ParentsChange, RemovingKeepsAcyclic, AddingKeepsAcyclic
<1> QED BY <1>2 DEF NoCycle, Acyclic, SelfAndAncestors, ClosedUnder
-----------------------------------------------------------------------------
(***************************************************************************)
(* Versions: a Goal whose row or links change advances.                    *)
(***************************************************************************)
SameGoal(g) ==
  /\ goal'[g] = goal[g]
  /\ \A s \in Subject : <<s, g>> \in linked' <=> <<s, g>> \in linked

NewerGoal(g) == goal'[g].version > goal[g].version

LEMMA AdvancedIsNewer ==
  ASSUME TypeOK, NEW g \in Goal, NEW state
  PROVE  Advanced(g, state).version > goal[g].version
BY VersionAssumption DEF TypeOK, Row, Advanced

LEMMA GoalChange ==
  ASSUME TypeOK, AbsentAtZero, [Next]_vars, NEW g \in Goal
  PROVE  /\ SameGoal(g) \/ NewerGoal(g)
         /\ goal'[g].state = "absent" => goal[g].state = "absent"
         /\ SameGoal(g) \/ goal'[g].state # "absent"
<1> DEFINE Change(h) == /\ SameGoal(h) \/ NewerGoal(h)
                        /\ goal'[h].state = "absent" => goal[h].state = "absent"
                        /\ SameGoal(h) \/ goal'[h].state # "absent"
<1>1. ASSUME UNCHANGED <<goal, linked>> PROVE Change(g)
  BY <1>1 DEF SameGoal
<1>2. ASSUME NEW h \in Goal, NEW state \in {"active", "inactive"},
             NEW ss \in SUBSET Subject, CreateGoalWithSubjects(h, state, ss)
      PROVE  Change(g)
  <2>1. CASE g = h
    BY <1>2, <2>1 DEF CreateGoalWithSubjects, NewerGoal, AbsentAtZero, TypeOK
  <2>2. CASE g # h
    BY <1>2, <2>2 DEF CreateGoalWithSubjects, SameGoal, TypeOK
  <2> QED BY <2>1, <2>2
<1>3. ASSUME NEW h \in Goal, NEW state \in {"active", "inactive"}, CreateGoal(h, state)
      PROVE  Change(g)
  BY <1>2, <1>3 DEF CreateGoal
<1>4. ASSUME NEW s \in Subject, NEW h \in Goal,
             AddSubjectGoal(s, h) \/ RemoveSubjectGoal(s, h)
      PROVE  Change(g)
  <2>1. /\ goal' = [goal EXCEPT ![h] = Advanced(h, goal[h].state)]
        /\ linked' = linked \cup {<<s, h>>} \/ linked' = linked \ {<<s, h>>}
        /\ goal[h].state # "absent"
    BY <1>4 DEF AddSubjectGoal, RemoveSubjectGoal, VisibleGoals
  <2>2. CASE g = h
    BY <2>1, <2>2, AdvancedIsNewer DEF NewerGoal, TypeOK, Advanced
  <2>3. CASE g # h
    BY <2>1, <2>3 DEF SameGoal, TypeOK
  <2> QED BY <2>2, <2>3
<1>5. ASSUME NEW c \in Client, NEW state, state # "absent",
             Writable(c), linked' = linked,
             goal' = [goal EXCEPT ![held[c].goal] = Advanced(held[c].goal, state)]
      PROVE  Change(g)
  <2>1. CASE g = held[c].goal
    BY <1>5, <2>1, AdvancedIsNewer DEF NewerGoal, TypeOK, Advanced
  <2>2. CASE g # held[c].goal
    BY <1>5, <2>2 DEF SameGoal, TypeOK
  <2> QED BY <2>1, <2>2
<1>6. ASSUME NEW c \in Client, NEW state \in {"active", "inactive"}, UpdateGoal(c, state)
      PROVE  Change(g)
  BY <1>5, <1>6 DEF UpdateGoal
<1>7. ASSUME NEW c \in Client, UpdateGoalOmittingActivation(c) PROVE Change(g)
  <2>1. held[c].activation \in {"active", "inactive"}
    BY <1>7, HeldType DEF UpdateGoalOmittingActivation, Edit
  <2> QED BY <1>6, <1>7, <2>1 DEF UpdateGoalOmittingActivation
<1>8. ASSUME NEW c \in Client, DeleteGoal(c) PROVE Change(g)
  BY <1>5, <1>8 DEF DeleteGoal
<1>9. ASSUME NEW c \in Client, NEW ss \in SUBSET Subject, ReplaceGoalSubjects(c, ss)
      PROVE  Change(g)
  <2> DEFINE h == held[c].goal
  <2>1. /\ h \in VisibleGoals
        /\ ss \subseteq LiveSubjects
        /\ linked' = (linked \ (LiveSubjects \X {h})) \cup (ss \X {h})
        /\ goal' = IF ss # LiveSubjectsOf(h)
                   THEN [goal EXCEPT ![h] = Advanced(h, goal[h].state)]
                   ELSE goal
    BY <1>9 DEF ReplaceGoalSubjects, Writable
  <2>2. CASE g # h
    BY <2>1, <2>2 DEF SameGoal, TypeOK
  <2>3. CASE g = h /\ ss = LiveSubjectsOf(h)
    <3>1. goal'[g] = goal[g]
      BY <2>1, <2>3
    <3>2. \A s \in Subject : <<s, g>> \in linked' <=> <<s, g>> \in linked
      BY <2>1, <2>3 DEF LiveSubjectsOf
    <3> QED BY <3>1, <3>2 DEF SameGoal
  <2>4. CASE g = h /\ ss # LiveSubjectsOf(h)
    BY <2>1, <2>4, AdvancedIsNewer DEF NewerGoal, TypeOK, Advanced, VisibleGoals
  <2> QED BY <2>2, <2>3, <2>4
<1>10. CASE UNCHANGED vars
  BY <1>1, <1>10 DEF vars
<1> QED
  BY <1>1, <1>2, <1>3, <1>4, <1>6, <1>7, <1>8, <1>9, <1>10
     DEF Next, CreateSubject, DeleteSubject, AddGoalParent, RemoveGoalParent,
         GetGoal, ListLiveSubjectsForGoal, ReadOmittedSettings

\* Subjects that are known stay known; a deleted one does not come back.
LEMMA KnownGrows ==
  ASSUME TypeOK, [Next]_vars
  PROVE  /\ Known \subseteq Known'
         /\ LiveSubjects' \cap Known \subseteq LiveSubjects
<1>1. ASSUME NEW s \in Subject, CreateSubject(s)
      PROVE  Known \subseteq Known' /\ LiveSubjects' \cap Known \subseteq LiveSubjects
  BY <1>1 DEF CreateSubject, Known, LiveSubjects, TypeOK
<1>2. ASSUME NEW s \in Subject, DeleteSubject(s)
      PROVE  Known \subseteq Known' /\ LiveSubjects' \cap Known \subseteq LiveSubjects
  BY <1>2 DEF DeleteSubject, Known, LiveSubjects, TypeOK
<1>3. CASE UNCHANGED subjectState
  BY <1>3 DEF Known, LiveSubjects
<1> QED
  BY <1>1, <1>2, <1>3
     DEF Next, vars, CreateGoal, CreateGoalWithSubjects, AddSubjectGoal,
         RemoveSubjectGoal, AddGoalParent, RemoveGoalParent, GetGoal,
         ListLiveSubjectsForGoal, ReadOmittedSettings, UpdateGoal,
         UpdateGoalOmittingActivation, DeleteGoal, ReplaceGoalSubjects

\* What a client holds is kept, dropped, or read from the stored state.
LEMMA HeldChange ==
  ASSUME TypeOK, [Next]_vars, NEW c \in Client
  PROVE  \/ held'[c] \in {held[c], Nothing}
         \/ /\ UNCHANGED <<subjectState, goal, linked>>
            /\ \/ \E g \in Goal :
                     held'[c] = [goal |-> g, version |-> goal[g].version,
                                 listed |-> FALSE, subjects |-> {},
                                 activation |-> "unread"]
               \/ /\ held[c] # Nothing
                  /\ \/ held'[c] = [held[c] EXCEPT !.listed = TRUE,
                                      !.subjects = LiveSubjectsOf(held[c].goal)]
                     \/ held'[c] = [held[c] EXCEPT
                                      !.activation = goal[held[c].goal].state]
<1> DEFINE Reads == UNCHANGED <<subjectState, goal, linked>>
           Kept == held'[c] \in {held[c], Nothing}
<1>1. ASSUME NEW d \in Client, NEW g \in Goal, GetGoal(d, g)
      PROVE  Kept \/ (Reads /\ held'[c] = [goal |-> g, version |-> goal[g].version,
                                           listed |-> FALSE, subjects |-> {},
                                           activation |-> "unread"])
  BY <1>1 DEF GetGoal, TypeOK
<1>2. ASSUME NEW d \in Client, ListLiveSubjectsForGoal(d)
      PROVE  Kept \/ (Reads /\ held[c] # Nothing
                      /\ held'[c] = [held[c] EXCEPT !.listed = TRUE,
                                       !.subjects = LiveSubjectsOf(held[c].goal)])
  BY <1>2 DEF ListLiveSubjectsForGoal, TypeOK
<1>3. ASSUME NEW d \in Client, ReadOmittedSettings(d)
      PROVE  Kept \/ (Reads /\ held[c] # Nothing
                      /\ held'[c] = [held[c] EXCEPT
                                       !.activation = goal[held[c].goal].state])
  BY <1>3 DEF ReadOmittedSettings, TypeOK
<1>4. ASSUME NEW d \in Client, held' = [held EXCEPT ![d] = Nothing]
      PROVE  Kept
  BY <1>4 DEF TypeOK
<1>5. CASE UNCHANGED held
  BY <1>5
<1> QED
  BY <1>1, <1>2, <1>3, <1>4, <1>5
     DEF Next, vars, CreateSubject, DeleteSubject, CreateGoal,
         CreateGoalWithSubjects, AddSubjectGoal, RemoveSubjectGoal,
         AddGoalParent, RemoveGoalParent, UpdateGoal,
         UpdateGoalOmittingActivation, DeleteGoal, ReplaceGoalSubjects

LEMMA LinksKnownStep ==
  ASSUME TypeOK, LinksKnown, [Next]_vars
  PROVE  LinksKnown'
<1>0. Known \subseteq Known' /\ LiveSubjects \subseteq Known
  BY KnownGrows DEF Known, LiveSubjects
<1>1. ASSUME NEW p \in linked' PROVE p[1] \in Known'
  <2>1. ASSUME NEW g, NEW ss \in SUBSET LiveSubjects,
               linked' \subseteq linked \cup (ss \X {g})
        PROVE  p[1] \in Known'
    BY <1>0, <2>1 DEF LinksKnown
  <2>2. CASE linked' \subseteq linked
    BY <1>0, <2>2 DEF LinksKnown
  <2>3. ASSUME NEW g \in Goal, NEW state, NEW ss, CreateGoalWithSubjects(g, state, ss)
        PROVE  p[1] \in Known'
    BY <2>1, <2>3 DEF CreateGoalWithSubjects
  <2>4. ASSUME NEW s \in Subject, NEW g \in Goal, AddSubjectGoal(s, g)
        PROVE  p[1] \in Known'
    <3>1. {s} \in SUBSET LiveSubjects /\ linked' \subseteq linked \cup ({s} \X {g})
      BY <2>4 DEF AddSubjectGoal
    <3> QED BY <2>1, <3>1
  <2>5. ASSUME NEW c \in Client, NEW ss, ReplaceGoalSubjects(c, ss)
        PROVE  p[1] \in Known'
    BY <2>1, <2>5 DEF ReplaceGoalSubjects
  <2> QED
    BY <2>2, <2>3, <2>4, <2>5
       DEF Next, vars, CreateSubject, DeleteSubject, CreateGoal,
           RemoveSubjectGoal, AddGoalParent, RemoveGoalParent, GetGoal,
           ListLiveSubjectsForGoal, ReadOmittedSettings, UpdateGoal,
           UpdateGoalOmittingActivation, DeleteGoal
<1>2. ASSUME NEW c \in Client, held'[c] # Nothing
      PROVE  held'[c].subjects \subseteq Known'
  <2>1. CASE held'[c] = held[c]
    BY <1>0, <1>2, <2>1 DEF LinksKnown
  <2>2. held[c] # Nothing => held[c] \in Edit
    BY HeldType
  <2>3. CASE \E g \in Goal :
                held'[c] = [goal |-> g, version |-> goal[g].version,
                            listed |-> FALSE, subjects |-> {}, activation |-> "unread"]
    BY <2>3
  <2>4. CASE held[c] # Nothing
             /\ held'[c] = [held[c] EXCEPT !.listed = TRUE,
                               !.subjects = LiveSubjectsOf(held[c].goal)]
    BY <1>0, <2>2, <2>4 DEF Edit, LiveSubjectsOf
  <2>5. CASE held[c] # Nothing
             /\ held'[c] = [held[c] EXCEPT !.activation = goal[held[c].goal].state]
    BY <1>0, <2>2, <2>5 DEF Edit, LinksKnown
  <2> QED BY <1>2, <2>1, <2>3, <2>4, <2>5, HeldChange
<1> QED BY <1>1, <1>2 DEF LinksKnown

LEMMA AbsentAtZeroStep ==
  ASSUME TypeOK, AbsentAtZero, [Next]_vars
  PROVE  AbsentAtZero'
BY GoalChange DEF AbsentAtZero, SameGoal

LEMMA HeldStep ==
  ASSUME TypeOK, TypeOK', AbsentAtZero, LinksKnown, HeldBehind,
         CurrentVersionMeansCurrentGoal, [Next]_vars
  PROVE  HeldBehind' /\ CurrentVersionMeansCurrentGoal'
<1> SUFFICES ASSUME NEW c \in Client, held'[c] # Nothing
             PROVE  LET h == held'[c]
                        g == h.goal
                    IN /\ h.version <= goal'[g].version
                       /\ g \in VisibleGoals' /\ goal'[g].version = h.version =>
                            /\ h.listed =>
                                 h.subjects \cap LiveSubjects' =
                                   {s \in LiveSubjects' : <<s, g>> \in linked'}
                            /\ h.activation # "unread" => h.activation = goal'[g].state
  BY DEF HeldBehind, CurrentVersionMeansCurrentGoal, Writable, LiveSubjectsOf
<1>1. CASE held'[c] = held[c]
  <2> DEFINE h == held[c]
             g == h.goal
  <2>1. h \in Edit /\ g \in Goal /\ h.subjects \subseteq Known
    BY <1>1, HeldType DEF LinksKnown
  <2>2. h.version <= goal[g].version
    BY <1>1 DEF HeldBehind
  <2>3. /\ h.version \in Int
        /\ goal[g].version \in Int
        /\ goal'[g].version \in Int
    BY <2>1, VersionAssumption DEF Edit, TypeOK, Row
  <2>4. CASE NewerGoal(g)
    BY <1>1, <2>2, <2>3, <2>4 DEF NewerGoal
  <2>5. CASE SameGoal(g)
    <3>1. ASSUME g \in VisibleGoals', goal'[g].version = h.version
          PROVE  /\ h.listed =>
                      h.subjects \cap LiveSubjects' =
                        {s \in LiveSubjects' : <<s, g>> \in linked'}
                 /\ h.activation # "unread" => h.activation = goal'[g].state
      <4>1. Writable(c)
        BY <1>1, <2>1, <2>5, <3>1 DEF Writable, SameGoal, VisibleGoals
      <4>2. /\ h.listed =>
                 h.subjects \cap LiveSubjects = {s \in LiveSubjects : <<s, g>> \in linked}
            /\ h.activation # "unread" => h.activation = goal[g].state
        BY <1>1, <4>1 DEF CurrentVersionMeansCurrentGoal, LiveSubjectsOf
      <4>3. ASSUME NEW s \in LiveSubjects', h.listed
            PROVE  s \in h.subjects <=> <<s, g>> \in linked'
        <5>1. s \in Subject
          BY DEF LiveSubjects
        <5>2. CASE s \in Known
          BY <2>5, <4>2, <4>3, <5>1, <5>2, KnownGrows DEF SameGoal
        <5>3. CASE s \notin Known
          <6>1. <<s, g>> \notin linked
            BY <5>3 DEF LinksKnown
          <6> QED BY <2>1, <2>5, <5>1, <5>3, <6>1 DEF SameGoal
        <5> QED BY <5>2, <5>3
      <4> QED BY <2>5, <4>2, <4>3 DEF SameGoal
    <3> QED BY <1>1, <2>2, <2>5, <3>1 DEF SameGoal
  <2> QED BY <2>1, <2>4, <2>5, GoalChange
<1>2. CASE held'[c] # held[c]
  <2>1. UNCHANGED <<subjectState, goal, linked>>
    BY <1>2, HeldChange
  <2>2. LiveSubjects' = LiveSubjects /\ VisibleGoals' = VisibleGoals
    BY <2>1 DEF LiveSubjects, VisibleGoals
  <2>3. ASSUME NEW g \in Goal,
               held'[c] = [goal |-> g, version |-> goal[g].version, listed |-> FALSE,
                           subjects |-> {}, activation |-> "unread"]
        PROVE  /\ held'[c].goal = g
               /\ held'[c].version = goal'[g].version
               /\ ~ held'[c].listed
               /\ held'[c].activation = "unread"
               /\ goal'[g].version \in Int
    BY <2>1, <2>3, VersionAssumption DEF TypeOK, Row
  <2>4. CASE held[c] # Nothing /\
             \/ held'[c] = [held[c] EXCEPT !.listed = TRUE,
                              !.subjects = LiveSubjectsOf(held[c].goal)]
             \/ held'[c] = [held[c] EXCEPT !.activation = goal[held[c].goal].state]
    <3> DEFINE h == held'[c]
               g == held[c].goal
    <3>1. held[c] \in Edit /\ held[c].version <= goal[g].version
      BY <2>4, HeldType DEF HeldBehind
    <3>2. h.goal = g /\ h.version = held[c].version
      BY <2>4, <3>1 DEF Edit
    <3>3. ASSUME g \in VisibleGoals, goal[g].version = h.version
          PROVE  /\ h.listed =>
                      h.subjects \cap LiveSubjects =
                        {s \in LiveSubjects : <<s, g>> \in linked}
                 /\ h.activation # "unread" => h.activation = goal[g].state
      <4>1. Writable(c)
        BY <2>4, <3>2, <3>3 DEF Writable
      <4>2. /\ held[c].listed =>
                 held[c].subjects \cap LiveSubjects =
                   {s \in LiveSubjects : <<s, g>> \in linked}
            /\ held[c].activation # "unread" => held[c].activation = goal[g].state
        BY <2>4, <4>1 DEF CurrentVersionMeansCurrentGoal, LiveSubjectsOf
      <4>3. CASE held'[c] = [held[c] EXCEPT !.listed = TRUE,
                               !.subjects = LiveSubjectsOf(held[c].goal)]
        BY <3>1, <4>2, <4>3 DEF Edit, LiveSubjectsOf
      <4>4. CASE held'[c] = [held[c] EXCEPT !.activation = goal[held[c].goal].state]
        BY <3>1, <4>2, <4>4 DEF Edit
      <4> QED BY <2>4, <4>3, <4>4
    <3> QED BY <2>1, <2>2, <3>1, <3>2, <3>3
  <2>5. CASE \E g \in Goal :
                held'[c] = [goal |-> g, version |-> goal[g].version, listed |-> FALSE,
                            subjects |-> {}, activation |-> "unread"]
    <3>1. PICK g \in Goal :
                held'[c] = [goal |-> g, version |-> goal[g].version, listed |-> FALSE,
                            subjects |-> {}, activation |-> "unread"]
      BY <2>5
    <3> QED BY <2>3, <3>1
  <2>6. held'[c] \notin {held[c], Nothing}
    BY <1>2
  <2> QED BY <2>4, <2>5, <2>6, HeldChange
<1> QED BY <1>1, <1>2
-----------------------------------------------------------------------------
(***************************************************************************)
(* The theorems, from the inductive invariant IInv with bounded numbers.   *)
(***************************************************************************)
LEMMA InitIInv == Init => IInv /\ NumbersBounded
<1> SUFFICES ASSUME Init PROVE IInv /\ NumbersBounded
  OBVIOUS
<1>1. TypeOK
  BY VersionAssumption DEF Init, TypeOK, Row, Pair
<1>2. NumbersBounded
  BY DEF Init, NumbersBounded
<1>3. NumbersAreReferences
  BY DEF Init, NumbersAreReferences, Pair
<1>4. AbsentAtZero /\ LinksKnown /\ HeldBehind /\ NoCycle /\ CurrentVersionMeansCurrentGoal
  BY DEF Init, AbsentAtZero, LinksKnown, HeldBehind, NoCycle,
         CurrentVersionMeansCurrentGoal
<1> QED BY <1>1, <1>2, <1>3, <1>4 DEF IInv

LEMMA NextIInv ==
  ASSUME IInv, NumbersBounded, [Next]_vars
  PROVE  IInv' /\ NumbersBounded'
<1>1. TypeOK'
  BY TypeStep DEF IInv
<1>2. NumbersBounded' /\ NumbersAreReferences'
  BY NumbersStep DEF IInv
<1>3. AbsentAtZero' /\ LinksKnown' /\ NoCycle'
  BY AbsentAtZeroStep, LinksKnownStep, NoCycleStep DEF IInv
<1>4. HeldBehind' /\ CurrentVersionMeansCurrentGoal'
  BY <1>1, HeldStep DEF IInv
<1> QED BY <1>1, <1>2, <1>3, <1>4 DEF IInv

\* IInv with bounded numbers is inductive and so holds in every state.
THEOREM Invariance == Spec => [](IInv /\ NumbersBounded)
<1>1. IInv /\ NumbersBounded /\ [Next]_vars => (IInv /\ NumbersBounded)'
  BY NextIInv
<1> QED BY <1>1, InitIInv, PTL DEF Spec

\* Every state of the Goal stores is well-typed.
THEOREM TypeCorrect == Spec => []TypeOK
<1>1. IInv => TypeOK
  BY DEF IInv
<1> QED BY <1>1, Invariance, PTL

\* AddGoalParent with the goal_parents triggers: no edge ever closes a cycle,
\* through retained deleted Goals either.
THEOREM HierarchyIsAcyclic == Spec => []NoCycle
<1>1. IInv => NoCycle
  BY DEF IInv
<1> QED BY <1>1, Invariance, PTL

\* activateGoalSubject: every link has a number, and a Subject's numbers differ.
THEOREM NumbersIdentifyGoals == Spec => []NumbersAreReferences
<1>1. IInv => NumbersAreReferences
  BY DEF IInv
<1> QED BY <1>1, Invariance, PTL

\* The Goals picker (GetGoal, then ListLiveSubjectsForGoal) and
\* goal.Service.Update (GetGoal again): a write accepted at the version of the
\* first read is based on what the later read found, still true.
THEOREM AcceptedEditsAreCurrent == Spec => []CurrentVersionMeansCurrentGoal
<1>1. IInv => CurrentVersionMeansCurrentGoal
  BY DEF IInv
<1> QED BY <1>1, Invariance, PTL

\* activateGoalSubject: numbers are never changed nor given out again.
THEOREM NumbersAreForGood == Spec => NumbersAreStable
<1>1. IInv /\ NumbersBounded /\ [Next]_vars =>
        [\A p \in Pair : \/ number'[p] = number[p]
                         \/ /\ number[p] = 0
                            /\ \A g \in Goal : number[<<p[1], g>>] < number'[p]]_vars
  BY NumbersStep DEF IInv
<1> QED BY <1>1, Invariance, PTL DEF Spec, NumbersAreStable

\* What advancing one Goal does to the activations the catalog shows.
LEMMA AdvancingShows ==
  ASSUME TypeOK, NEW g \in Goal, NEW state,
         goal' = [goal EXCEPT ![g] = Advanced(g, state)]
  PROVE  [h \in Goal |-> goal'[h].state]
           = [[h \in Goal |-> goal[h].state] EXCEPT ![g] = state]
<1>1. \A h \in Goal : goal'[h].state = IF h = g THEN state ELSE goal[h].state
  BY DEF TypeOK, Advanced
<1> QED BY <1>1

\* Advancing the version alone shows nothing.
LEMMA AdvancingVersionShowsNothing ==
  ASSUME TypeOK, NEW g \in Goal,
         goal' = [goal EXCEPT ![g] = Advanced(g, goal[g].state)]
  PROVE  [h \in Goal |-> goal'[h].state] = [h \in Goal |-> goal[h].state]
<1>1. \A h \in Goal : goal'[h].state = goal[h].state
  BY DEF TypeOK, Advanced
<1> QED BY <1>1

\* Every step of the Goal stores is a step of the catalog or leaves it alone.
LEMMA CatalogStepOf ==
  ASSUME TypeOK, [Next]_vars
  PROVE  [Catalog!CatalogNext]_(Catalog!catalogVars)
<1> DEFINE abstract == [g \in Goal |-> goal[g].state]
<1>1. ASSUME NEW s \in Subject, CreateSubject(s)
      PROVE  Catalog!InsertSubject(s)
  BY <1>1 DEF CreateSubject, Catalog!InsertSubject,
           LiveSubjects, VisibleGoals, Catalog!LiveSubjects, Catalog!VisibleGoals
<1>2. ASSUME NEW s \in Subject, DeleteSubject(s)
      PROVE  Catalog!RetireSubject(s)
  BY <1>2 DEF DeleteSubject, Catalog!RetireSubject,
           LiveSubjects, VisibleGoals, Catalog!LiveSubjects, Catalog!VisibleGoals
<1>3. ASSUME NEW g \in Goal, NEW state \in {"active", "inactive"},
             NEW ss \in SUBSET Subject, CreateGoalWithSubjects(g, state, ss)
      PROVE  Catalog!InsertGoal(g, state, ss)
  <2>1. abstract' = [abstract EXCEPT ![g] = state]
    BY <1>3 DEF CreateGoalWithSubjects, TypeOK
  <2> QED BY <1>3, <2>1 DEF CreateGoalWithSubjects, Catalog!InsertGoal,
           LiveSubjects, VisibleGoals, Catalog!LiveSubjects, Catalog!VisibleGoals
<1>4. ASSUME NEW g \in Goal, NEW state \in {"active", "inactive"}, CreateGoal(g, state)
      PROVE  Catalog!InsertGoal(g, state, {})
  BY <1>3, <1>4 DEF CreateGoal
<1>5. ASSUME NEW s \in Subject, NEW g \in Goal, AddSubjectGoal(s, g)
      PROVE  Catalog!Link(s, g)
  <2>1. abstract' = abstract
    BY <1>5, AdvancingVersionShowsNothing DEF AddSubjectGoal
  <2> QED BY <1>5, <2>1 DEF AddSubjectGoal, Catalog!Link,
           LiveSubjects, VisibleGoals, Catalog!LiveSubjects, Catalog!VisibleGoals
<1>6. ASSUME NEW s \in Subject, NEW g \in Goal, RemoveSubjectGoal(s, g)
      PROVE  Catalog!Unlink(s, g)
  <2>1. abstract' = abstract
    BY <1>6, AdvancingVersionShowsNothing DEF RemoveSubjectGoal
  <2> QED
    BY <1>6, <2>1 DEF RemoveSubjectGoal, LiveSubjectsOf, Catalog!Unlink,
           LiveSubjects, VisibleGoals, Catalog!LiveSubjects, Catalog!VisibleGoals
<1>7. ASSUME NEW c \in Client, NEW state \in {"active", "inactive"}, UpdateGoal(c, state)
      PROVE  held[c].goal \in Goal /\ Catalog!ConfigureGoal(held[c].goal, state)
  <2>1. held[c].goal \in Goal
    BY <1>7, HeldType DEF UpdateGoal, Writable
  <2>2. abstract' = [abstract EXCEPT ![held[c].goal] = state]
    BY <1>7, <2>1, AdvancingShows DEF UpdateGoal
  <2> QED BY <1>7, <2>1, <2>2 DEF UpdateGoal, Writable, Catalog!ConfigureGoal,
           LiveSubjects, VisibleGoals, Catalog!LiveSubjects, Catalog!VisibleGoals
<1>8. ASSUME NEW c \in Client, UpdateGoalOmittingActivation(c)
      PROVE  \E g \in Goal, state \in {"active", "inactive"} :
                Catalog!ConfigureGoal(g, state)
  <2>1. held[c].activation \in {"active", "inactive"}
    BY <1>8, HeldType DEF UpdateGoalOmittingActivation, Edit
  <2> QED BY <1>7, <1>8, <2>1 DEF UpdateGoalOmittingActivation
<1>9. ASSUME NEW c \in Client, DeleteGoal(c)
      PROVE  held[c].goal \in Goal /\ Catalog!RetireGoal(held[c].goal)
  <2>1. held[c].goal \in Goal
    BY <1>9, HeldType DEF DeleteGoal, Writable
  <2>2. abstract' = [abstract EXCEPT ![held[c].goal] = "deleted"]
    BY <1>9, <2>1, AdvancingShows DEF DeleteGoal
  <2> QED BY <1>9, <2>1, <2>2 DEF DeleteGoal, Writable, Catalog!RetireGoal,
           LiveSubjects, VisibleGoals, Catalog!LiveSubjects, Catalog!VisibleGoals
<1>10. ASSUME NEW c \in Client, NEW ss \in SUBSET Subject, ReplaceGoalSubjects(c, ss)
       PROVE  held[c].goal \in Goal /\ Catalog!Relink(held[c].goal, ss)
  <2>1. held[c].goal \in Goal
    BY <1>10, HeldType DEF ReplaceGoalSubjects, Writable
  <2>2. abstract' = abstract
    <3>1. CASE goal' = goal
      BY <3>1
    <3>2. CASE goal' # goal
      BY <1>10, <2>1, <3>2, AdvancingVersionShowsNothing DEF ReplaceGoalSubjects
    <3> QED BY <3>1, <3>2
  <2> QED
    BY <1>10, <2>1, <2>2 DEF ReplaceGoalSubjects, Writable, Catalog!Relink,
           LiveSubjects, VisibleGoals, Catalog!LiveSubjects, Catalog!VisibleGoals
<1>11. CASE UNCHANGED <<subjectState, goal, linked>>
  BY <1>11 DEF Catalog!catalogVars
<1>12. ASSUME NEW s \in Subject, CreateSubject(s) PROVE Catalog!GoalStep
  BY <1>1, <1>12 DEF Catalog!GoalStep
<1>13. ASSUME NEW g \in Goal, NEW state \in {"active", "inactive"},
              CreateGoal(g, state) \/ \E ss \in SUBSET Subject :
                                         CreateGoalWithSubjects(g, state, ss)
       PROVE  Catalog!GoalStep
  <2>1. \E ss \in SUBSET Subject : Catalog!InsertGoal(g, state, ss)
    BY <1>3, <1>4, <1>13
  <2> QED BY <2>1 DEF Catalog!GoalStep
<1>14. ASSUME NEW s \in Subject, NEW g \in Goal,
              AddSubjectGoal(s, g) \/ RemoveSubjectGoal(s, g)
       PROVE  Catalog!GoalStep
  BY <1>5, <1>6, <1>14 DEF Catalog!GoalStep
<1>15. ASSUME NEW c \in Client,
              \/ UpdateGoalOmittingActivation(c)
              \/ DeleteGoal(c)
              \/ \E state \in {"active", "inactive"} : UpdateGoal(c, state)
              \/ \E ss \in SUBSET Subject : ReplaceGoalSubjects(c, ss)
       PROVE  Catalog!GoalStep
  <2>1. ASSUME NEW state \in {"active", "inactive"}, UpdateGoal(c, state)
        PROVE  Catalog!GoalStep
    BY <1>7, <2>1 DEF Catalog!GoalStep
  <2>2. ASSUME NEW ss \in SUBSET Subject, ReplaceGoalSubjects(c, ss)
        PROVE  Catalog!GoalStep
    BY <1>10, <2>2 DEF Catalog!GoalStep
  <2>3. CASE DeleteGoal(c)
    <3>1. held[c].goal \in Goal /\ Catalog!RetireGoal(held[c].goal)
      BY <1>9, <2>3
    <3>2. \E g \in Goal : Catalog!RetireGoal(g)
      BY <3>1 DEF Catalog!RetireGoal
    <3> QED BY <3>2 DEF Catalog!GoalStep
  <2>4. CASE UpdateGoalOmittingActivation(c)
    BY <1>8, <2>4 DEF Catalog!GoalStep
  <2> QED BY <1>15, <2>1, <2>2, <2>3, <2>4
<1> QED
  BY <1>2, <1>11, <1>12, <1>13, <1>14, <1>15
     DEF Next, vars, AddGoalParent, RemoveGoalParent, GetGoal,
         ListLiveSubjectsForGoal, ReadOmittedSettings, Catalog!CatalogNext

\* The Goal stores implement the catalog that the Event store reads: every
\* transaction is a catalog step or leaves the catalog as it is.
THEOREM GoalStoreImplementsCatalog == Spec => ImplementsCatalog
<1>1. Init => Catalog!CatalogInit
  BY DEF Init, Catalog!CatalogInit
<1>2. TypeOK /\ [Next]_vars => [Catalog!CatalogNext]_(Catalog!catalogVars)
  BY CatalogStepOf
<1> QED
  BY <1>1, <1>2, TypeCorrect, PTL DEF Spec, ImplementsCatalog, Catalog!CatalogSpec
=============================================================================
