-------------------------- MODULE MCLaunchAdmission --------------------------
(***************************************************************************)
(* Instances of LaunchAdmission for TLC.                                   *)
(***************************************************************************)
EXTENDS LaunchAdmission, TLC

(* The threads of the daemon with work to do: those that repair, or those  *)
(* that compete with a launch for its locks.                               *)
Repairing == {"scan", "operator"}
Competing == {"scan", "archiver", "usage"}

(* Launches, accounts and projects are interchangeable.                    *)
Symmetry == Permutations(Txs) \cup Permutations(Accounts) \cup Permutations(Projects)
=============================================================================
