# muxlane: models and proofs

muxlane lets several Codex CLI processes run on one Windows/WSL machine, each
with one account's credential in one project's Runtime directory. The program's
first promise is about these credentials: each is where it belongs, none is
lost, none is mixed with another, whoever crashes. Its means are a journal in
SQLite, two `flock`s, atomic file replacement, and a recovery that reads the
journal. Around this core are a control daemon that executes each operation at
most once, usage queries under a limit, and a terminal whose output reaches the
desktop without a gap.

This directory holds TLA+ modules of these parts, TLC runs that check them on
small instances, and TLAPS proofs for every instance. `PROJECT.json` maps each
definition to its source lines and lists runs, hazards, findings and theorems.

## The system

| Part (source) | State | Operations | Hard because |
|---|---|---|---|
| Journal (`storage.rs`, `model.rs`) | `launch_transactions.state` and evidence columns, `launches.outcome`, `recovery_incidents`, `operations` | `create_launch`, `transition`, `fail`, `record_*`, `finish_launch`, `create_incident`, `resolve_incident`, `claim_operation` | each is one or more separate statements on separate connections; crashes fall between them |
| Credential manager (`credential.rs`) | Vault (`accounts/*/auth.json`), Runtime (`projects/*/codex-home/auth.json`), `recovery/` | `checkout`, `commit_and_clean`, `recover_preparing`, `import_account`, query homes | the file and the row change one after the other; codex rewrites the file meanwhile |
| Launch service (`service.rs`) | none of its own | `prepare_launch`, `run_managed_launch`, `archive_project`, `stop_launch` | locks are dropped between admission (daemon) and the runner (its own process) |
| Recovery (`recovery.rs`) | a snapshot of unfinished rows | `recover_all`, `recover_transaction` | the snapshot is stale when it is used; scans run concurrently with everything |
| Incidents (`incident.rs`) | the incident row, Vault and evidence files | `resolve` with `keep_vault` or `use_evidence` | reads before it locks, several files, repeated after a crash |
| Locks (`lock.rs`) | two `flock`s per launch, Account before Project | try, drop | never waits; the kernel drops them with the process |
| Process identity (`process.rs`) | `/proc` | `matches_recorded` | only recorded processes can be recognised |
| Terminals (`terminal.rs`), stream engine and gateway (`phase3.rs`, `terminal_data.rs`) | tmux windows, one attachment, a bounded queue, a route | start the runner; attach, start, input, detach, close | three threads per attachment: watchdog against start, overflow, requests of an earlier attachment |
| Usage (`usage.rs`) | permit counter, query home, cached snapshots | `refresh_usage`, `refresh_batch` | bounded permits, Account lock, cleanup after errors, answers out of order |
| Daemon (`muxlaned/main.rs`) | instance lock, socket, connection slots, operation journal | dispatch, `idempotent`, recovery at startup | retries of an operation that never completed; one daemon going while the next comes; one failing transaction stops startup |
| Desktop (`apps/desktop`) | gateway process, pending requests, stream cursor, window lifecycle | request/response bridge, the viewport | timeouts against late answers, a gateway that dies, stale events, gaps |
| Workbench, workspace, sessions, diagnostics, CLI, wire protocol | rows, or nothing | CRUD, read-only listings | little: single statements |

A launch crosses three processes. The daemon thread of `launch.start` checks,
inserts the row `preparing`, drops its locks and asks tmux to start the managed
runner. The runner takes the locks again, copies the credential to the Runtime,
journals `checked_out`, spawns codex, journals `running`, waits, and commits:
`committing_auth`, hash matrix, perhaps a new Vault, `auth_committed`, Runtime
removed, `cleaned`, `finished`. Meanwhile any daemon thread may scan
(`recovery.scan`, or startup), resolve an incident, archive a project or query
usage. What makes each part correct:

* journal: states move along `permits`, or are failed by somebody who saw them
  unfinished; nothing else leaves a terminal state; an outcome exists only for
  an ended launch; a failure has its incident;
* credentials: the last refresh codex wrote survives; a newer Vault is never
  overwritten; a conflict keeps both sides; an ended launch leaves no Runtime;
* recovery: it ends every transaction it can, and touches nothing a live codex
  still uses;
* locks: one supervised codex per account and per project;
* admission: a launch finds its own credential in the Runtime, and a credential
  in a Runtime has somebody to deal with it;
* usage: at most four queries, each made with the Vault's credential as it is,
  every permit given back, every request answered that no probe holds up;
* streams: what is on the screen is the terminal's output without a gap, or the
  viewer is told; no pane stays frozen; nothing typed reaches another terminal;
* bridge: one gateway at a time, each call its own answer, no call hangs;
* daemon: the one that serves can be reached, an operation is executed at most
  once, a connection's slot is given back, every request is answered.

The hazards list in `PROJECT.json` names the line where each of these can break.

## Modules

| Module | What it models |
|---|---|
| `LaunchStates` | `TransactionState`: the states, `terminal()`, `permits()` |
| `LaunchLifecycle` | abstract: a state that moves along `permits`, or is failed by a caller of `fail` that saw it unfinished |
| `CredentialTransaction` | one transaction, one step per SQL statement or file operation: the launcher, the runner, any number of scanners and operators, crashes |
| `CredentialTransactionProofs` | the theorems about its locks, its journal and what a write relies on |
| `CredentialRecoveryProofs` | the theorems about what becomes of the credential, which need to know where every process is |
| `LaunchAdmission` | several launches over shared accounts and projects: admission, the unique indexes, the two locks, late failures, recovery, resolution, archiving, usage queries, crashes, codex processes that outlive their runner |
| `LaunchAdmissionProofs` | the theorems about it |
| `UsageLimiter` | usage queries of several requests: permits, Account lock, query home, the exchange with codex, snapshots, launches, crashes |
| `UsageLimiterProofs` | the theorems about it |
| `TerminalView` | abstract: the viewport shows a terminal's output from its first recovered line on, without a gap, or loses it |
| `TerminalStream` | the stream of one project from tmux to the viewport |
| `TerminalStreamProofs` | the theorems about it, the refinement of `TerminalView` included |
| `DesktopBridge` | the desktop's calls, the gateway processes and the registry of pending requests |
| `DesktopBridgeProofs` | the theorems about it |
| `OperationJournal` | abstract: an identifier has one meaning, at most one execution, one result |
| `ControlServer` | the daemon's process, connections, and `idempotent` |
| `ControlServerProofs` | the theorems about it, the refinement of `OperationJournal` included |
| `TerminalRegistry` | the rows of terminals and the tmux windows they name, over restarts of tmux |
| `TerminalRegistryProofs` | the theorems about it |
| `MC...` | constants, symmetry and crash points for TLC |

The parts meet in shared state, and each module has as much of its neighbours as
reaches it: a launch and a usage query meet at the Account lock (`Usage` in
`LaunchAdmission`, `LaunchStep` in `UsageLimiter`); the daemon calls recovery at
startup (`CrashDaemon` and `Scan` there, `Scan` and `Crash` in
`ControlServer`); the gateway of `DesktopBridge` is that of `TerminalStream`
seen from its pipes; a terminal of `TerminalStream` is one `TerminalRegistry` made.

### CredentialTransaction

`journal` variables are columns, `files` are contents (a hash in the code is a
content here: equal hashes are equal contents), `lock` is the owner of the lock
pair. Each process has `pc`, what it `read`, a state it has `seen`, and where
the function it is in returns to (`then`). A crash stops the runner, or all the
daemon's threads, between any two steps and drops their locks. The functions of
`storage.rs` that several callers share are shared actions: `TransitionRead` and
`TransitionWrite` are the SELECT and the guarded UPDATE of
`Storage::transition`, whose success does not depend on the number of rows it
changed; `FailRead`, `FailWrite`, `FailFinish`, `FailIncident` are the parts of
`Storage::fail`. `Verdict` is the hash matrix. `ForeignVault` is what comes to the
Vault from outside: an older incident of the account is resolved with its evidence,
a hand restores it, or, once this transaction ended, another launch commits.
`LaunchLifecycle` keeps of all this the state and, in `failing`, who is between
the SELECT and the UPDATE of `fail`.

### LaunchAdmission

Here a stretch of one transaction that its locks protect is one step, because
`CredentialTransaction` takes it apart, and so is `Storage::fail`; what one
transaction can do to another stays apart: the two try-locks, admission and
runner, the snapshot of a scan, the reads before a lock, checkout and record,
commit and removal, the application of a resolution and the end of its incident. A
credential carries the account it was issued to. That `transition` reports success
when its UPDATE matched no row is left to `CredentialTransaction`.

`Create` inserts the row only if the unique indexes admit it (`Taken`): no other
launch of the account or of the project is unfinished. So two launches of one
account or one project meet only when the first was ended under its runner, and
two steps do that. `Start` may run the runner and report an error afterwards
(`late`), which `LateFail` turns into `failed` at any later moment; and
`ScanOrphan` fails a transaction whose recorded codex lives without the locks. In
both cases codex may go on when its runner is gone: `RecordRunning` is refused and
the runner returns without its child, or the runner was killed (`CrashRunner`).
`orphans` remembers these codex processes. They keep no lock, and write to
whatever Runtime their project has.

A resolution has both choices: `ResolveKeeping` clears the Runtime,
`ResolveEvidence` replaces the Vault by the evidence of the incident, after a
copy of it unless this incident has one (`saved`), and refuses without evidence.
`RestoreVault` is a hand that replaces a Vault, as `tests/recovery_matrix.rs` does.
`CodexRefresh`, `CodexExit`, `CrashDaemon` and `Reboot` are the rest of the
environment.

### UsageLimiter

A `Query` is a thread of a batch, or of a single refresh. `status` is a request's,
`pc` a thread's; `active` is the count behind `QUERY_LIMIT`, and a thread in
`Condvar::wait` is at `waiting`. Credentials are versions: a launch that takes the
Account lock may make the next one, `home` is the copy in the query home, `seen`
what codex was given, `cached` what the newest snapshot describes. codex answers
the ids it was sent in any order; `response_for` drops an answer that comes before
its turn, and the query then ends at the timeout. Every step may fail. `Cleanup`
that fails leaves the copy behind, and so may `CheckoutFails`, as
`atomic_write_private` can return an error after its rename; `left` remembers both.
`Probe` is `probe_capabilities`: it runs codex with a permit, before the Account
lock is taken, and has no time limit, so nothing says that it ends.

### TerminalStream and TerminalView

A terminal stands for its window and its one pane, in the tmux session of one
project. `att` has what belongs to an attachment: the flags its three threads
share, the queue with its count of bytes, the line the forwarder holds. The
steps of `attach` and `start_stream` between which another thread can act are
separate (`stage`); the gateway handles one request at a time (`job`) and requests
wait in `calls` in any order. `output` counts the lines of a terminal that tmux
has read, `screen` has the numbers of the lines shown, `next` is the cursor of
`classifyRuntimeEvent`. The user may select a terminal while an earlier selection is
still under way: nothing in `AppShell.tsx` prevents it, and each answer settles the
view when it comes. Left out is only the same request a second time while the
first is pending, as requests in `calls` are a set. `TerminalView` has only `output`, the terminal viewed and
the screen: a step of all this machinery shows the next line, opens a terminal,
recovers history once, or loses the view.

Simplifications: the watchdog's two loads are one, as both flags only ever go
up, and so are its store and its thaw; the lines in the pipe from tmux are lines not
written yet; a history is complete (the limit of 300 lines is left out); error
codes are one, `error` is the banner. A failed switch leaves the
viewport on a stream that is gone, with the banner, as in the code. Not
modelled: a second tmux client that attaches later, `close_terminal` failing
after the kill, the death of the gateway process (`DesktopBridge` has it).

### DesktopBridge

A call holds the mutex of `RuntimeState` from `Lock` to `Return`; the threads
that read a gateway's output run beside it, for every bridge ever started. A
gateway may die at any time, before or after it answered; what a killed one
wrote is still read. A timeout is possible at any moment of waiting, and the
answer may come later. The write to the gateway's stdin (`runtime.rs:83`), which has
no time limit and blocks when the pipe is full, is taken to end.

### ControlServer and OperationJournal

`Daemons` are processes: each may start when the instance lock is free, and
crash anywhere. An error of `run_server`, a failed startup scan included, is a
crash: the lock goes, the socket stays. A connection's thread is at the steps of
`idempotent`: look for the row, insert it, execute, complete, answer. What is
executed is one step that succeeds or fails, before or after its effect; a
failure keeps the row, and the operation answers `RECOVERY_REQUIRED` from then
on. A client waits for its answer before it sends again. The executed operation and
the write of an answer are taken to end, and a thread that panics, which would keep
its slot, is left out. Invalid frames and
read-only requests are left out. `OperationJournal` has the row, the count of
executions and what clients were told.

### TerminalRegistry

A window is identified by its server's lifetime and its number; the row has only
the number. tmux ends with its last session and its next server counts from zero,
so old rows meet new windows. A call (`Start`, `CreateAuxiliary`, `Close`) is the
sequence of its tmux commands and SQL statements, and other calls run in between;
each step may return an error instead (`GiveUp`, the errors of tmux among them). A `has-session` that cannot be asked
counts as no session (`terminal.rs:26`): `Start` then closes the rows of a session
that exists.
`server` in a row, and `late`, are history: no column holds them. A row is `late`
when it is inserted after its server was replaced, or while another start has
closed the project's rows and not made its session yet. The code does not
exclude either, and such a row may name another terminal's window; the
properties are about the others. Left out: the capture of history, which changes
nothing, sessions of the same name that muxlane did not make (`Managed` is false
of a session between its creation and its tag), archived projects and the
ordinals of rows.

## Runs

`expect: pass`:

| Run | Instance | Question |
|---|---|---|
| `Tx_commit` | 3 contents, 1 scanner, 1 operator, 2 refreshes, 1 foreign change, 1 damage, 2 crashes outside the spawn window | do commit and resolution lose nothing? |
| `Tx_races` | 2 contents, 2 scanners, failing start, 1 foreign change, 1 crash anywhere | which moves can racing processes make, in which order do they write, and does the journal implement `LaunchLifecycle`? |
| `Tx_settles` | 2 contents, 1 scanner, fairness, 1 foreign change, 1 damage, 1 crash | does recovery end every transaction it is not stuck on, for good? |
| `Adm_shared` | 2 launches, 2 accounts, 1 project, late failures, scan and operator, 1 refresh, 1 Vault restored | do launches keep their Runtime, and do refreshes survive? |
| `Adm_orphans` | 2 launches, 1 account, 2 projects, late failures, scan, archiver, usage, 1 crash anywhere | do the locks exclude, and who deals with a Runtime, orphaned codex processes included? |
| `Usage_batch` | a batch of 2 accounts and a single refresh of one of them, 2 permits, 3 ids, 1 new version, 1 crash, 1 probe that hangs | are permits kept, credentials and snapshots current, requests answered? |
| `Bridge_calls` | 4 calls, 2 gateways, 2 pending requests | own answers, one gateway, a registry that does not fill, calls that return? |
| `Stream_view` | 1 attachment, 3 lines over 2 terminals, a queue of 1 line or 2 bytes, one fault | is the screen without a gap, is a loss told, does the pane thaw? |
| `Stream_switch` | 2 attachments of 2 terminals, 3 deeds of the user, overlapping selections, a late request | does anything cross from one terminal to the other? |
| `Ctl_journal` | 2 daemons, 3 connections for 2 slots, 1 operation with 2 meanings, 3 requests | at most once, across retries, shutdowns and crashes? reachable, answered, slots kept? |
| `Term_rows` | 2 projects, 3 threads, 4 calls, 3 tmux servers of 2 windows, 1 fault | do rows name their own windows, and do windows get their rows? |

`expect: violation` (it contradicts a line of the repository's docs, quoted under
`findings`): `Adm_accounts`, two launches of two accounts in one project. A codex
outlives its runner, because its start was reported as failed after the runner was
started. Its incident is resolved, which clears the Runtime, and the next launch
of the project, of the other account, finds nothing in its way. The first codex
refreshes its credential in what is now the other's Runtime, and the commit puts it
into the other account's Vault.

Bounds. Three contents are enough for every outcome of the hash matrix, which
compares three of them; two processes are enough for every race, since each race
is between one step and another process's two; two launches are enough for two
to meet in an account (`Adm_orphans`) or in a project (`Adm_shared`, `Adm_accounts`);
one crash is one interruption, two cover a crash while recovering from a crash.
`Adm_shared` has none: what a crash leaves there is in `Adm_orphans`, and the
theorems have any number of them. Three queries for two permits
make one wait, for a permit or for a lock another thread of the daemon has. Four
calls and two pending places fill the registry with timed out requests and use a
second gateway. A queue of one line and two bytes, and lines of one and two,
overflow it each way; `MaxLine` equals `MaxBytes`, as a single line over either
bound ends the reader alike and only the error code differs. Two daemons are one that goes and one that comes; three
connections are one more than there are slots, and two retries of one operation
at a time. Three tmux servers are one to make a row, one to reuse its number,
and one more; three threads are two calls that race and one behind both. `MaxRefresh`, `MaxRestore`, `MaxForeign`, `MaxDamage`, `MaxCrash`, `MaxVersion`,
`MaxBridges`, `MaxAttach`, `MaxUser`, `MaxFaults`, `MaxAsk`, `MaxStart`, `MaxServer`,
`MaxWindow`, `MaxCall`, `MaxFault` and `Text` bound counters. `CHECK_DEADLOCK FALSE` everywhere: a transaction ends, and a
system with nothing more to do stops.

Conditions. `LiveRuntimeUntouched`, `CleanIsClean`, `RefreshSurvives`,
`ConflictKeepsBoth` are checked with crashes anywhere but between the spawn and
the journalling of `running` (`OutsideSpawn`): a runner killed in between leaves
a codex that recovery cannot see, and these properties fail. `RuntimeIsOwn`,
`RuntimeAccounted` and `RefreshesKept` allow for a codex that outlived its
runner in their statement, and hold with crashes anywhere.
`FailureOpensIncident` is about behaviours without a crash, as `Storage::fail` is
three statements. `PriorVaultPreserved` is about at most one crash in one
operator's resolution: when a resolution that was cut short is repeated, its copy
of the Vault is an old one. `RefreshSurvives` and `LiveRuntimeUntouched` except
the steps of a resolution, whose operator chose which side to give up;
`RefreshesKept` excuses what an operator, a hand, or a repeated resolution drops.
`SettlesOrSticks` says that a transaction ends and stays ended, or stays in one of the
situations recovery cannot leave. `Stuck` names them with their causes, so that an
ordinary commit, which passes through a similar state, is none of them: the Runtime
file a commit needs is gone although a codex or a crash was there to remove it,
it differs from the Vault after a commit that a crash interrupted, or the Vault of an
interrupted checkout is unreadable. Nothing excludes that a project is archived
with an admitted launch, which the code allows.

Fairness. A process or thread that can step does: the operating system
schedules it. `Tx_settles`: codex ends, as a user leaves it or `launch.stop`
interrupts it; scans come again, as `run_server` scans at each start and any
client may ask. `Usage_batch`: the threads of the daemon, but for the probe, which
waits for codex without a time limit (`usage.rs:63-77`): `EveryRequestEnds` lets all
permits but one be lost to probes that hang, and says that every request
which has none of them ends. A query that codex does not answer ends at
`QUERY_TIMEOUT`. With unboundedly many new requests a waiter could starve, which
finitely many exclude, as could a codex that never stops writing lines nobody
asked for (each starts the timeout anew), which the model leaves out.
`Bridge_calls`: the steps of
the calls (a timeout among them), not the gateway's. `Stream_*`: the threads, the
gateway and the event loop; tmux, programs and the user may do nothing.
`Ctl_journal`: the threads and the accept loop of a daemon that runs; nobody
has to start one. Weak fairness suffices, as no process waits for a lock that is
given and taken again for ever.

Each property has a mutant in `PROJECT.json`: a definition with a plausible bug
(named `Mutant` in the module) under which the same run finds it violated.

## Proofs

All proofs hold for every value of the constants under the named assumptions of
each module, which TLC evaluates in its runs. They are invariance proofs: a
conjunction that is inductive, one lemma or step per action, under it a step per
conjunct the action can disturb, and temporal steps by PTL.

`CredentialTransactionProofs`, from `ContentAssumption` (the markers differ from
contents), `ProcAssumption` (processes are distinct) and `BoundAssumption`
(types):

| Theorem | Property |
|---|---|
| `Invariance` | `IInv`, the conjunction all others follow from |
| `TypeCorrect` | `TypeOK` |
| `Exclusion` | `LocksHeld`: whoever is at a step that relies on the locks has them |
| `WriteAhead` | `JournalAhead`: the baseline and the process identities are recorded before the states that use them |
| `VaultValidity` | `VaultStaysValid`: only damage from outside makes a Vault unreadable |
| `OutcomeLast` | `OutcomeAfterEnd` |
| `ConflictEvidence` | `ConflictKeepsEvidence` |
| `GuardedMoves` | `OnlyFailOverrides`: no step but `fail`'s leaves the permitted graph |
| `NewerVault` | `NewerVaultKept`: no commit overwrites a Vault that changed after the checkout |

The argument. None of these is inductive alone. A guarded UPDATE is right only
if what was read is still true, up to `fail` (`ReadIsFresh`); that holds because
every process between SELECT and UPDATE is under the lock (`LocksHeld`), which
needs to know where a function returns to (`ReturnsHome`). A write of a file is
right only if the bytes in memory are valid or already kept (`BytesReady`), and,
for the Vault, only if the Vault is still what was compared (`VaultSaved`). What
a state promises follows from what the process about to write it relies on
(`JournalReady`). `IInv` is the conjunction. The module has one lemma per action
and one step per conjunct the action can disturb; shared lemmas say what a lock
owner knows about the others.

`CredentialRecoveryProofs` builds on `IInv`:

| Theorem | Property | Assumes |
|---|---|---|
| `StagesHold` | `SInv`: where each process may be, and what that says of the state | |
| `FailureReported` | `FailureOpensIncident` | |
| `CustodyHolds` | `RInv`: what of the files is a copy of what | `SpawnNotKilled` |
| `CleanMeansClean` | `CleanIsClean` | `SpawnNotKilled` |
| `ConflictsKeepBoth` | `ConflictKeepsBoth` | `SpawnNotKilled` |
| `NothingLost` | `RefreshSurvives` | `SpawnNotKilled` |
| `LiveUntouched` | `LiveRuntimeUntouched` | `SpawnNotKilled` |
| `ImplementsLifecycle` | `LifecycleSpec` | |
| `TerminalForGood` | a transaction that ended never moves again, unless somebody who saw it unfinished fails it (`EndsForGood` of `LaunchLifecycle`) | |

The assumption is a choice of the constants, and the run that checks these
properties, `Tx_commit`, makes the same. `SpawnNotKilled`: no runner is killed between the
spawn of codex and the journalling of `running`. It may crash anywhere else, any
number of times, and so may the daemon's threads. A runner killed in that window
leaves a codex that no scan recognises, and the scan commits under it. The
refinement of `LaunchLifecycle` holds with any number of scans and a launcher
that fails a transaction whose runner started: `failing` is who is at
`FailWrite`, and whoever is there read a state that was not terminal.

The argument. `IInv` says what a process relies on at a step; here we also need
where it cannot be. `Roles` gives every process its own steps, `RunnerStates` the
states the runner's position allows, `BeforeSpawn` and `ScansAreLater` what
cannot have happened before codex was started. A commit, whoever makes it, starts
only once codex is gone (`CodexWatched`): the runner waited for it, or the scan
found the recorded processes dead, which needs them recorded, hence
`SpawnNotKilled`. So nothing rewrites the Runtime file between the read of it and
the step that uses what was read (`RuntimeAsRead`), and what `Remove` and
`EarlyRemove` take away is in the Vault or under `recovery/` (`RuntimeKept`).
With this, `RefreshSurvives` and `LiveRuntimeUntouched` are a step per action.
That a failure is followed by its incident until a crash (`FollowedUp`) needs that
no conflict arises before one: the runner keeps all others from the Vault, and
finds it as it was checked out (`CheckoutInOrder`, `NoConflictYet`).

`LaunchAdmissionProofs`, from `NameAssumption`, `LimitAssumption` and
`ContentAssumption` (names, bounds and contents are what they should be), for any
number of launches, accounts and projects, any of the daemon's threads, and
crashes anywhere:

| Theorem | Property |
|---|---|
| `AdmissionInvariance` | `AdmissionInv`: `TypeOK`, `WorkKnown`, `LocksHeld`, `CodexKnown` |
| `Exclusion` | `CodexExclusive` |
| `RuntimeOwned` | `RuntimeIsOwn` |
| `RuntimeAccountedFor` | `RuntimeAccounted` |
| `NoRefreshLost` | `RefreshesKept` |

Exclusion follows from the locks, not from the indexes, since a launch can be
ended under its runner: whoever is at a step that relies on a lock has it
(`LocksHeld`), which needs to know that what a process works on is a requested
launch's place (`WorkKnown`). Nearly every step is
`Steady` (it returns, or goes on with the locks it has), and `SteadyKeeps` serves
all of those. For the rest, a step `Acts` for one process: it changes a Runtime,
or another's transaction, only under the project's lock, so that nobody else's
`Own` is disturbed (`OthersOwn`). Only a codex whose runner is gone writes without
the lock, and it is one of `orphans` (`CodexKnown`). A refresh is kept because no
content of a Vault is overwritten without a copy, unless it is given up
(`Preserved`), so that a baseline is always `Safe`, and a Runtime holds something
safe or what its own codex wrote last (`RuntimeSafe`), which no other codex wrote
(`LatestFresh`).

`UsageLimiterProofs`, from the five assumptions of `UsageLimiter`:
`UsageInvariance`, `PermitsBounded` (`PermitsCounted`), `CurrentVault`
(`QueryUsesCurrentVault`), `HomesClean` (`QueryHomeClean`), `CurrentSnapshot`
(`SnapshotIsCurrent`). That a query's credential stays current follows from
`LockHeld`: who is past its try-lock owns the Account lock, and only its owner, or
a launch that owns it, changes what the lock protects. The count of permits is a
cardinality, so that each step that takes or returns one adds or removes one
element of `Holders`.

`DesktopBridgeProofs`, from `CallsAssumption`: `BridgeInvariance`,
`AtMostOneGateway` (`OneGateway`), `AnswersMatch` (`OwnAnswer`), `RegistryKept`
(`RegistryAccounted`), `HandshakeBeforeUse` (`HandshakeFirst`). The invariant
says whose everything is: the mutex's owner is the only call under way
(`MutexOwner`), a process that runs is that of the stored bridge or the one
being tried (`ProcessOwned`), an id in a pipe is older than the next one and a
call's own (`IdsOwned`), and a request is only ever written to a gateway that
accepted a handshake (`Accepted`).

`ControlServerProofs`, from `ServerAssumption`: `ServerInvariance`, `Reachable`
(`ServingIsReachable`), `SlotsKept` (`SlotsAccounted`), and
`ServerImplementsJournal` (`JournalSpec`): every step of the daemon is one of
`OperationJournal` or a stutter. `Execute` is `Run` only because the row was not
executed before, and `Complete` records only because no other thread owns the
operation: `RowsKept` and `OwnersKnown`. `Alone` says that the process with the lock
is the only one that is up, so that nobody else touches the socket. `SameAnswers`
is what follows for clients: `OneAnswer` of `OperationJournal`.

`TerminalRegistryProofs`, from `RegistryAssumption`: `RegistryInvariance`,
`OwnWindows` (`RowsNameOwnWindows`), `WindowsRecorded` (`WindowsGetRows`). No two
rows, inserted or about to be, are of one window (`WindowsDiffer`). While a
start is about to make a session the project has no timely row
(`RowsForgotten`), so that all timely rows of a session that exists are of its
server (`RowsPresent`); that stays true for who made a window, even when the
session is gone again (`RowsPresentForMaker`). All actions but `Forget`,
`NewSession`, `NewWindow` and `Insert` are `Quiet`, and one lemma serves them.

`TerminalStreamProofs`, from `StreamAssumption` and `NoneAssumption`, for any
terminals, texts, limits of the queue, attachments and faults: `StreamInvariance`
(`Inv`), `InputReachesHome` (`InputStaysHome`), `RouteKept`
(`RouteFollowsAttachment`) and `StreamImplementsView` (`ViewSpec`). Where an
attachment's stream begins is forgotten once its history went out, so the
invariant says that there is a number of lines for each attachment such that all
the rest fits (`Flow`): the own lines of a queue are the consecutive ones after those
forwarded (`Chain`), up to the terminal's last as long as the reader reads
(`Reaches`); an event on its way carries the line its sequence number stands for
(`EventOK`); the screen is as long as the cursor says (`ScreenOK`). The number is
chosen at `AttachCaptures`, where it fits because the queue was drained and the
pane is off (`Drained`). Each operation on an attachment has a lemma of its own
(`ReadBorn`, `TakenBorn`, `HandledBorn`, `DroppedBorn`, `EndedBorn`), and each action
one that applies it. The order of the events is needed nowhere: the cursor drops
what does not fit. `ScreenGapless` is what the refinement means for the reader of
the screen: `Gapless` of `TerminalView`. `QueueCounted` (`QueueAccounted`) is about
a sum over a queue of any length. `Bytes` is a recursive function over
`0 .. Len(q)`; that it exists, and what it is of a queue with a line more or
less (`BytesAppend`, `BytesTail`), follows from the least number at which it
would not (`LeastNumber`, a fact about sets that takes no operator as a
parameter). The rest is a lemma per operation on an attachment.

Only model-checked: liveness (`SettlesOrSticks`, `EveryRequestEnds`,
`EveryCallReturns`, `DeliveredOrTold`, `Thaws`, `EveryRequestAnswered`), which is
out of the prover's reach, as is ENABLED; and `PriorVaultPreserved`, which is about one
crash and one operator. `VaultsKeepTheirAccount` of `Adm_accounts` is
false. All the other properties of the runs are proved, four of them for the constants
named above only; those of `TerminalView`, `OperationJournal` and `LaunchLifecycle`
as refinements. The type invariants of the modules with
proofs are part of what is proved there; that of `TerminalStream` is stated for
the reader and in no run, and all of it that the proofs need is in `Types`.

## What the models show of the code

Besides the finding of `Adm_accounts`, modelling met behaviours a maintainer
should know. They are in the models, and the properties are stated around them:
a property below excludes such a case in its statement or in the constants of its
run, and no run of the project exhibits it as a counterexample.

* A crash between removing the Runtime credential and journalling `cleaned`
  (`credential.rs:197`) is never recovered: every later scan fails at the missing
  Runtime. Nor is a `committing_auth` whose Runtime file is gone (`credential.rs:139`)
  or a `preparing` whose Vault is unreadable (`credential.rs:253`), and the unique
  indexes refuse the account and the project as long as the row is unfinished.
* A resolution does not ask whether the codex of its incident still lives
  (`incident.rs:52`): the finding of `Adm_accounts` is what can come of it.
* A resolution that was cut short after its copy of the Vault, and is repeated when
  the Vault has changed, replaces it without a copy (`incident.rs:69`); so may a
  second operator who read the incident before the first one closed it.
* An error of `start_managed_runner` after the window was made fails the launch
  under its runner (`main.rs:346`), which then works on, or leaves codex behind when
  `record_processes` is refused (`service.rs:206`).
* A capability probe whose codex hangs keeps its permit for ever (`usage.rs:63-77`);
  four of them end all usage queries.
* A runner killed between the spawn of codex and `record_processes`
  (`service.rs:206`) leaves a codex whose credential recovery commits and
  removes while it may still be rewritten.
* A crash inside `Storage::fail` (`storage.rs:605`) leaves a failure without
  an incident, and `fail` overwrites a state that became terminal meanwhile.
* A project can be archived while an admitted launch has not taken its locks yet
  (`service.rs:234`).
* An operation whose execution failed, or was cut off, answers
  `RECOVERY_REQUIRED` for ever (`main.rs:702`), where the protocol has the same
  key return the same result (`docs/PROTOCOL.md`, `launch.start`).
* Usage answers are read in the order of the requests; one that comes early is
  dropped and the query then times out (`usage.rs:248`).
* `close` verifies the session but kills by a number it read before
  (`terminal.rs:197`): when tmux starts anew in between, it may kill a window of
  the next server, or one whose row came late.
* Two starts of one project at a time: the second one's `close_project_terminals`
  closes the first one's row, and a row may be inserted after tmux started anew
  (`terminal.rs:119`); its number may then be another terminal's.
* When the gateway process ends, pending calls are told but the viewport is not
  (`runtime.rs:166`): it stays on a stream that no longer moves.

## Abstractions

* The lock pair is one lock in `CredentialTransaction`: one account, one
  project. `LaunchAdmission` takes it apart.
* The audit tables (`recovery_runs`, `recovery_attempts`), the counter
  `recovery_attempts`, the error columns and `record_recovery_hashes` are left
  out: the code never reads them back to decide anything.
* `exited` and `exited_error` are one outcome, as are the variants of
  `recovered`.
* `atomic_write_private` is atomic and durable; unreadable, unparsable and
  badly permitted files are one content, `Invalid`.
* `matches_recorded` is what it decides. PIDs are not reused.
* `start_managed_runner` is one step that may report an error before or after
  the runner exists.
* `create_incident` reads and inserts in one step in `CredentialTransaction`; two
  callers who both find none would insert two incidents of one transaction.
* In `LaunchAdmission` every file is readable; damage is in `CredentialTransaction`.
* Auxiliary terminals, which also make a tmux session exist, are left out of
  `Session` of `LaunchAdmission`: archiving is possible whenever no runner is alive.
* `UsageLimiter`, `DesktopBridge`, `TerminalStream`, `ControlServer` and
  `TerminalRegistry`: see their sections.

## Not modelled

Sessions index, workspace browser and diagnostics are listings and exports: pure
I/O, with the one hazard that concurrent events may be lost from the log.
Workbench is single SQL statements behind `idempotent`; its partial
`apply_template` concerns settings a user can set again. Of the wire protocol,
the CLI and the desktop's user interface only what takes part in the exchanges
above is modelled; rendering, arguments and data types are left out, as are the
desktop's window life cycle (`lifecycle.rs`, decisions without memory) and
account import and project registration (single operations behind
`idempotent`). `PROJECT.json` has a note for each component.

## Plan

Done: `LaunchStates`, `LaunchLifecycle`, `CredentialTransaction`,
`LaunchAdmission`, `UsageLimiter`, `TerminalView`, `TerminalStream`,
`DesktopBridge`, `OperationJournal`, `ControlServer`, `TerminalRegistry`, and the
proofs above.

Left: Workbench, if its operations come to depend on each other.
