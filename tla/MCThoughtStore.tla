---------------------------- MODULE MCThoughtStore ----------------------------
(***************************************************************************)
(* Small instances of ThoughtStore.                                        *)
(***************************************************************************)
EXTENDS ThoughtStore, TLC

Symmetry ==
  Permutations(Subject) \cup Permutations(Alias) \cup Permutations(Name)
    \cup Permutations(Client) \cup Permutations(Thought) \cup Permutations(Body)
=============================================================================
