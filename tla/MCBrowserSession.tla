-------------------------- MODULE MCBrowserSession --------------------------
(* Sessions and requests are interchangeable.                               *)
EXTENDS BrowserSession, TLC

Symmetry == Permutations(Session) \cup Permutations(Request)
=============================================================================
