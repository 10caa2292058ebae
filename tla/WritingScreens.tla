---------------------------- MODULE WritingScreens ---------------------------
(***************************************************************************)
(* The screens in which the user writes Thoughts, Events and Subjects.     *)
(***************************************************************************)
EXTENDS ScreenSlots

CONSTANTS
  \* The Subjects screen, which creates Subjects for the others.
  MaxChanges, MaxAliases,
  \* The Thought browser, and what is dictated for a Thought.
  MaxThought, Present, Marked, Batch, MaxText, MaxRecordings

Subjects == INSTANCE SubjectsScreen WITH
  store <- x1, screen <- x2, list <- x3, conflict <- x4, selected <- x5, alias <- x6,
  waits <- x7, return <- x8, back <- x9, wire <- x10

Thoughts == INSTANCE ThoughtBrowser WITH
  store <- x1, screen <- x2, rows <- x3, stale <- x4, busy <- x5, picked <- x6,
  wire <- x7, base <- x8, own <- x9, changed <- x10, overtaken <- x11

Spoken == INSTANCE SpokenSubject WITH
  draft <- x1, read <- x2, saving <- x3, recordings <- x4, spoken <- x5, before <- x6,
  evidence <- x7

Form == INSTANCE EventForm WITH
  store <- x1, form <- x2, picker <- x3, root <- x4, wire <- x5, created <- x6, kept <- x7

ASSUME ThoughtsAssumption ==
  /\ MaxThought \in Nat /\ Batch \in Nat \ {0}
  /\ Present \in SUBSET Thoughts!Thought /\ Marked \in Present
=============================================================================
