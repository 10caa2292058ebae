----------------------------- MODULE SubjectNames -----------------------------
(***************************************************************************)
(* The names of one user's Subjects.  Canonical names and aliases are rows *)
(* of two tables and share one namespace: a unique index guards each table *)
(* and triggers guard one against the other.  Deleted rows keep their name *)
(* but no longer hold it.  Each action is one store transaction; one that  *)
(* is refused changes nothing and is not enabled.                          *)
(*                                                                         *)
(* A client whose new name is refused because an alias has it reviews that *)
(* alias and may have it replaced by a Subject later.                      *)
(***************************************************************************)
EXTENDS Integers

CONSTANTS
  Subject,   \* subject_id of every Subject the user will ever create
  Alias,     \* alias_id of every alias the user will ever create
  Name,      \* exact names
  Client,    \* callers that hold something they read
  Nothing    \* "no name", "no Subject", "this client holds nothing"

ASSUME NamesAssumption ==
  /\ Nothing \notin Name \cup Subject
  /\ Nothing \notin [alias : Alias, subject : Subject, name : Name]

VARIABLES
  subject,   \* rows of subjects
  alias,     \* rows of subject_aliases
  reviewed   \* the alias each client was shown for confirmation

nameVars == <<subject, alias, reviewed>>

States == {"absent", "live", "deleted"}
SubjectRow == [state : States, name : Name \cup {Nothing}]
AliasRow == [state : States, subject : Subject \cup {Nothing}, name : Name \cup {Nothing}]
Review == [alias : Alias, subject : Subject, name : Name]

NamesTypeOK ==
  /\ subject \in [Subject -> SubjectRow]
  /\ alias \in [Alias -> AliasRow]
  /\ reviewed \in [Client -> Review \cup {Nothing}]

NamesInit ==
  /\ subject = [s \in Subject |-> [state |-> "absent", name |-> Nothing]]
  /\ alias = [a \in Alias |-> [state |-> "absent", subject |-> Nothing, name |-> Nothing]]
  /\ reviewed = [c \in Client |-> Nothing]
-----------------------------------------------------------------------------
LiveSubjects == {s \in Subject : subject[s].state = "live"}
LiveAliases == {a \in Alias : alias[a].state = "live"}
NamedSubjects(n) == {s \in LiveSubjects : subject[s].name = n}
NamedAliases(n) == {a \in LiveAliases : alias[a].name = n}

\* The index and the trigger that a write of name n to the Subject s must pass.
SubjectMayBe(s, n) == NamedSubjects(n) \subseteq {s} /\ NamedAliases(n) = {}

\* Mutant of AliasMayBe: the trigger on subject_aliases is missing.
AliasMayBeUnguarded(a, n) == NamedAliases(n) \subseteq {a}

\* The same for the alias a.
AliasMayBe(a, n) == NamedAliases(n) \subseteq {a} /\ NamedSubjects(n) = {}
-----------------------------------------------------------------------------
CreateSubject(s, n) ==
  /\ subject[s].state = "absent"
  /\ SubjectMayBe(s, n)
  /\ subject' = [subject EXCEPT ![s] = [state |-> "live", name |-> n]]
  /\ UNCHANGED <<alias, reviewed>>

\* The alias that has the name is read after the refusal, in another statement.
ReviewConflict(c, a) ==
  /\ a \in LiveAliases
  /\ alias[a].subject \in LiveSubjects
  /\ reviewed' = [reviewed EXCEPT ![c] =
       [alias |-> a, subject |-> alias[a].subject, name |-> alias[a].name]]
  /\ UNCHANGED <<subject, alias>>

Dismiss(c) ==
  /\ reviewed[c] # Nothing
  /\ reviewed' = [reviewed EXCEPT ![c] = Nothing]
  /\ UNCHANGED <<subject, alias>>

UpdateSubject(s, n) ==
  /\ s \in LiveSubjects
  /\ SubjectMayBe(s, n)
  /\ subject' = [subject EXCEPT ![s].name = n]
  /\ UNCHANGED <<alias, reviewed>>

CreateSubjectAlias(a, s, n) ==
  /\ alias[a].state = "absent"
  /\ s \in LiveSubjects
  /\ AliasMayBe(a, n)
  /\ alias' = [alias EXCEPT ![a] = [state |-> "live", subject |-> s, name |-> n]]
  /\ UNCHANGED <<subject, reviewed>>

UpdateSubjectAlias(a, n) ==
  /\ a \in LiveAliases
  /\ alias[a].subject \in LiveSubjects
  /\ AliasMayBe(a, n)
  /\ alias' = [alias EXCEPT ![a].name = n]
  /\ UNCHANGED <<subject, reviewed>>

RemoveSubjectAlias(a) ==
  /\ a \in LiveAliases
  /\ alias[a].subject \in LiveSubjects
  /\ alias' = [alias EXCEPT ![a].state = "deleted"]
  /\ UNCHANGED <<subject, reviewed>>

\* Mutant of IsReviewed: the alias is recognized by its identity alone.
IsReviewedIdentity(c, a) ==
  /\ reviewed[c] # Nothing
  /\ a = reviewed[c].alias
  /\ a \in LiveAliases

\* a is still what client c was shown: the same alias with the same spelling.
IsReviewed(c, a) ==
  /\ reviewed[c] # Nothing
  /\ a \in LiveAliases
  /\ alias[a].subject \in LiveSubjects
  /\ reviewed[c] = [alias |-> a, subject |-> alias[a].subject, name |-> alias[a].name]

\* The alias is retired first, so its name is free when the Subject is inserted.
CreateSubjectFromAlias(c, a, s) ==
  LET n == reviewed[c].name
  IN /\ IsReviewed(c, a)
     /\ subject[s].state = "absent"
     /\ NamedSubjects(n) = {}
     /\ NamedAliases(n) \subseteq {a}
     /\ subject' = [subject EXCEPT ![s] = [state |-> "live", name |-> n]]
     /\ alias' = [alias EXCEPT ![a].state = "deleted"]
     /\ reviewed' = [reviewed EXCEPT ![c] = Nothing]

\* Mutant of RetireSubject: the aliases of the Subject stay.
RetireSubjectAlone(s) ==
  /\ s \in LiveSubjects
  /\ subject' = [subject EXCEPT ![s].state = "deleted"]
  /\ UNCHANGED <<alias, reviewed>>

\* DeleteSubject, as far as names are concerned.
RetireSubject(s) ==
  /\ s \in LiveSubjects
  /\ subject' = [subject EXCEPT ![s].state = "deleted"]
  /\ alias' = [a \in Alias |-> IF a \in LiveAliases /\ alias[a].subject = s
                               THEN [alias[a] EXCEPT !.state = "deleted"]
                               ELSE alias[a]]
  /\ UNCHANGED reviewed

\* Every change of names but the deletion of a Subject.
NameStep ==
  \/ \E s \in Subject, n \in Name : CreateSubject(s, n) \/ UpdateSubject(s, n)
  \/ \E a \in Alias, s \in Subject, n \in Name : CreateSubjectAlias(a, s, n)
  \/ \E a \in Alias, n \in Name : UpdateSubjectAlias(a, n)
  \/ \E a \in Alias : RemoveSubjectAlias(a)
  \/ \E c \in Client : Dismiss(c) \/ \E a \in Alias : ReviewConflict(c, a)
  \/ \E c \in Client, a \in Alias, s \in Subject : CreateSubjectFromAlias(c, a, s)

NamesNext == NameStep \/ \E s \in Subject : RetireSubject(s)

NamesSpec == NamesInit /\ [][NamesNext]_nameVars
-----------------------------------------------------------------------------
(* Properties *)

\* A name has one owner: ResolveSubjectName, which reads both tables, never
\* finds two rows, whatever creations, renamings, promotions and deletions of
\* Subjects and aliases came before.
OneOwnerPerName ==
  \A n \in Name :
     /\ \A s, t \in NamedSubjects(n) : s = t
     /\ \A a, b \in NamedAliases(n) : a = b
     /\ NamedSubjects(n) = {} \/ NamedAliases(n) = {}

\* A name that is refused to a new Subject resolves: it is the name of a live
\* Subject or the alias of one.  No alias outlives its Subject and blocks a
\* name that nobody can find.
RefusedNameResolves ==
  \A n \in Name :
     NamedAliases(n) # {} => \E a \in NamedAliases(n) : alias[a].subject \in LiveSubjects

\* An alias becomes a Subject only as a client confirmed it: in the step in
\* which its name passes to a new Subject, a client holds the review of that
\* very alias, Subject and spelling, even if the alias was renamed or removed
\* and created again since.
PromotionTakesReviewed ==
  [][\A a \in LiveAliases : \A s \in Subject \ LiveSubjects :
        alias'[a].state = "deleted" /\ subject'[s].state = "live" =>
          /\ subject'[s].name = alias[a].name
          /\ \E c \in Client : reviewed[c] =
               [alias |-> a, subject |-> alias[a].subject, name |-> alias[a].name]]_nameVars
=============================================================================
