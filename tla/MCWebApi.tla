------------------------------- MODULE MCWebApi -------------------------------
(***************************************************************************)
(* The instance of WebApi for TLC.                                         *)
(***************************************************************************)
EXTENDS WebApi, TLC

CONSTANTS r1, r2, a1, a2, plain, altered, broken

\* Handlers are interchangeable, and so are adapters.
Alike == Permutations(Requests) \cup Permutations(Adapters)
=============================================================================
