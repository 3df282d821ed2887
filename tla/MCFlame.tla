------------------------------ MODULE MCFlame ------------------------------
(* Instances of Flame for TLC.                                             *)
EXTENDS Flame, TLC

\* Executors are interchangeable, and so are clients.
Symmetry == Permutations(Executors) \cup Permutations(Clients)
============================================================================
