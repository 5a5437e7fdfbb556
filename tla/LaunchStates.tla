---------------------------- MODULE LaunchStates ----------------------------
(***************************************************************************)
(* The states of a launch transaction and the moves its journal permits:   *)
(* `TransactionState` of muxlane-core/src/model.rs.                        *)
(***************************************************************************)

States == {"preparing", "checked_out", "running", "codex_exited",
           "committing_auth", "auth_committed", "cleaned",
           "finished", "recovered", "credential_conflict", "failed"}

(* TransactionState::terminal *)
Terminal == {"finished", "recovered", "credential_conflict", "failed"}

(* The pairs TransactionState::permits lists. *)
Successors ==
  [ preparing           |-> {"checked_out", "recovered", "failed"},
    checked_out         |-> {"running", "committing_auth", "failed",
                             "credential_conflict"},
    running             |-> {"codex_exited", "failed"},
    codex_exited        |-> {"committing_auth", "failed"},
    committing_auth     |-> {"auth_committed", "credential_conflict", "failed"},
    auth_committed      |-> {"cleaned", "failed"},
    cleaned             |-> {"finished", "recovered"},
    finished            |-> {},
    recovered           |-> {},
    credential_conflict |-> {},
    failed              |-> {} ]

(* TransactionState::permits: a repeated state is an idempotent re-entry. *)
Permits(from, to) == from = to \/ to \in Successors[from]
=============================================================================
