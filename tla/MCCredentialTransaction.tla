---------------------- MODULE MCCredentialTransaction ----------------------
(***************************************************************************)
(* Instances of CredentialTransaction for TLC.                             *)
(***************************************************************************)
EXTENDS CredentialTransaction, TLC

(* Where the runner may be killed: anywhere, ...                           *)
Anywhere == Labels \ {"absent", "gone"}

(* ... except between the spawn of codex and the journalling of `running'. *)
OutsideSpawn == Anywhere \ SpawnWindow

(* Nothing compares credential contents except for equality, and nothing   *)
(* tells one scan, or one resolution, from another.                        *)
Symmetry ==
  Permutations(Creds) \cup Permutations(Scanners) \cup Permutations(Operators)
=============================================================================
