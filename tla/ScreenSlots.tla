------------------------------ MODULE ScreenSlots -----------------------------
(***************************************************************************)
(* The variables that the screens share, see Screens, and the constants    *)
(* that several of them have.                                              *)
(***************************************************************************)
EXTENDS Naturals, FiniteSets, Sequences

CONSTANTS
  \* Subjects 1..MaxSubject, which some screens create and the others offer.
  MaxSubject,
  \* Bound of every screen but the background's: commands under way when the user asks again.
  MaxWire

VARIABLES x1, x2, x3, x4, x5, x6, x7, x8, x9, x10, x11
slots == <<x1, x2, x3, x4, x5, x6, x7, x8, x9, x10, x11>>

ASSUME SubjectsAssumption == MaxSubject \in Nat \ {0}
=============================================================================
