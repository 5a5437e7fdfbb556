-------------------------- MODULE MCTerminalRegistry --------------------------
(* Nothing tells one project, or one thread, from another.                 *)
EXTENDS TerminalRegistry, TLC

Symmetry == Permutations(Projects) \cup Permutations(Threads)
=============================================================================
