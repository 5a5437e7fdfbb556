---------------------------- MODULE UsageLimiter ----------------------------
(***************************************************************************)
(* Usage queries: `usage.refresh` and `usage.refresh_batch`.  A batch runs *)
(* one thread per account; a permit bounds how many query at once, the     *)
(* Account lock keeps launches away from the Vault meanwhile, and the      *)
(* query home holds a copy of the credential only while codex reads it.    *)
(***************************************************************************)
EXTENDS Naturals, FiniteSets

CONSTANTS
  Requests,    \* usage.refresh (one account) and usage.refresh_batch requests
  Accounts,
  Asked,       \* the distinct accounts each request names
  None,
  Launch,      \* the owner of a lock that a launch holds
  LastId,      \* the requests of one app-server exchange are 0 .. LastId
  MaxQueries,  \* MAX_CONCURRENT_USAGE_QUERIES
  MaxVersion,  \* bound: how often launches rewrite a Vault
  MaxCrash     \* bound: how often the daemon stops

ASSUME QueriesAssumption == MaxQueries \in Nat \ {0}
ASSUME IdsAssumption == LastId \in Nat
ASSUME AskedAssumption == Asked \in [Requests -> SUBSET Accounts]
ASSUME FiniteAssumption == IsFiniteSet(Requests) /\ IsFiniteSet(Accounts)

(* A query is the thread that works on one account of one request.         *)
Query == {q \in Requests \X Accounts : q[2] \in Asked[q[1]]}
Ids == 0 .. LastId

ASSUME NameAssumption == None \notin Nat \cup Query \cup {Launch} /\ Launch \notin Query

VARIABLES
  status,   \* each request: idle, run, answered, or lost with the daemon
  pc,       \* the step of each query
  failed,   \* the queries that met an error
  next,     \* the id whose response the query waits for
  open,     \* the ids codex has not answered yet
  seen,     \* the version of the credential codex was given
  active,   \* the count behind QUERY_LIMIT
  lock,     \* the owner of each Account lock
  vault,    \* the version of each Vault's credential
  home,     \* the version in each query home, None without auth.json
  cached,   \* the version the newest usage snapshot was taken from
  left,     \* history: query homes a crash or a failed write left behind
  crashes

exchange == <<next, open, seen>>
vars == <<status, pc, failed, exchange, active, lock, vault, home, cached, left, crashes>>

Labels == {"none", "acquire", "waiting", "probe", "lock", "checkout", "query",
           "cleanup", "cache", "unlock", "release", "done"}
(* Where a query holds a permit, and where it holds its Account lock.      *)
Permitted == {"probe", "lock", "checkout", "query", "cleanup", "cache", "unlock", "release"}
Locked    == {"checkout", "query", "cleanup", "cache", "unlock"}

Acct(q) == q[2]
Holders == {q \in Query : pc[q] \in Permitted}

Init ==
  /\ status = [r \in Requests |-> "idle"]
  /\ pc = [q \in Query |-> "none"]
  /\ failed = {}
  /\ next = [q \in Query |-> 0]
  /\ open = [q \in Query |-> {}]
  /\ seen = [q \in Query |-> None]
  /\ active = 0
  /\ lock = [a \in Accounts |-> None]
  /\ vault = [a \in Accounts |-> 0]
  /\ home = [a \in Accounts |-> None]
  /\ cached = [a \in Accounts |-> None]
  /\ left = {}
  /\ crashes = 0

(* A step of query q from one label to another that may fail.              *)
Move(q, from, to) == pc[q] = from /\ pc' = [pc EXCEPT ![q] = to]
Mark(q, ok) == failed' = IF ok THEN failed ELSE failed \cup {q}

(* refresh_batch: distinct known accounts, a thread each; refresh_usage of *)
(* one account is the batch of that account.                               *)
Submit(r) ==
  /\ status[r] = "idle"
  /\ status' = [status EXCEPT ![r] = "run"]
  /\ pc' = [q \in Query |-> IF q[1] = r THEN "acquire" ELSE pc[q]]
  /\ UNCHANGED <<failed, exchange, active, lock, vault, home, cached, left, crashes>>

(* Mutant: the limit is off by one.                                        *)
AcquireOneMore(q) ==
  /\ IF active > MaxQueries
     THEN Move(q, "acquire", "waiting") /\ UNCHANGED active
     ELSE Move(q, "acquire", "probe") /\ active' = active + 1
  /\ UNCHANGED <<status, failed, exchange, lock, vault, home, cached, left, crashes>>

(* QueryPermit::acquire.  A waiter that was notified tests the count again *)
(* and may find that a newcomer took the permit.                           *)
Acquire(q) ==
  /\ IF active >= MaxQueries
     THEN Move(q, "acquire", "waiting") /\ UNCHANGED active
     ELSE Move(q, "acquire", "probe") /\ active' = active + 1
  /\ UNCHANGED <<status, failed, exchange, lock, vault, home, cached, left, crashes>>

(* A condition variable may also wake a thread nobody notified.            *)
SpuriousWake(q) ==
  /\ Move(q, "waiting", "acquire")
  /\ UNCHANGED <<status, failed, exchange, active, lock, vault, home, cached, left, crashes>>

(* probe_capabilities: codex is missing, or its schema lacks the methods.  *)
(* Nothing limits how long it takes.                                       *)
Probe(q) == \E ok \in BOOLEAN :
  /\ Move(q, "probe", IF ok THEN "lock" ELSE "release")
  /\ Mark(q, ok)
  /\ UNCHANGED <<status, exchange, active, lock, vault, home, cached, left, crashes>>

TakeLock(q) == LET free == lock[Acct(q)] = None IN
  /\ Move(q, "lock", IF free THEN "checkout" ELSE "release")
  /\ lock' = IF free THEN [lock EXCEPT ![Acct(q)] = q] ELSE lock
  /\ Mark(q, free)
  /\ UNCHANGED <<status, exchange, active, vault, home, cached, left, crashes>>

(* Mutant: a copy that is there already is used.                           *)
CheckoutIfAbsent(q) ==
  /\ Move(q, "checkout", "query")
  /\ home' = [home EXCEPT ![Acct(q)] = IF @ = None THEN vault[Acct(q)] ELSE @]
  /\ seen' = [seen EXCEPT ![q] = home'[Acct(q)]]
  /\ open' = [open EXCEPT ![q] = Ids]
  /\ UNCHANGED <<status, failed, next, active, lock, vault, cached, left, crashes>>

(* checkout_query_home: read the Vault, remove what is left, write a copy; *)
(* then the requests of the exchange are sent.                             *)
Checkout(q) ==
  /\ Move(q, "checkout", "query")
  /\ home' = [home EXCEPT ![Acct(q)] = vault[Acct(q)]]
  /\ seen' = [seen EXCEPT ![q] = home'[Acct(q)]]
  /\ open' = [open EXCEPT ![q] = Ids]
  /\ left' = left \ {Acct(q)}
  /\ UNCHANGED <<status, failed, next, active, lock, vault, cached, crashes>>

(* The Vault does not parse, or the copy cannot be written: the home stays *)
(* as it is, is emptied, or, when only the sync after the rename fails,    *)
(* keeps the copy, which no cleanup follows.                               *)
CheckoutFails(q) == \E copy \in {home[Acct(q)], None, vault[Acct(q)]} :
  /\ Move(q, "checkout", "unlock")
  /\ home' = [home EXCEPT ![Acct(q)] = copy]
  /\ left' = IF copy = None THEN left \ {Acct(q)} ELSE left \cup {Acct(q)}
  /\ Mark(q, FALSE)
  /\ UNCHANGED <<status, exchange, active, lock, vault, cached, crashes>>

(* response_for: after the first response the other requests are sent, and *)
(* codex answers in any order; the response of another id than the one     *)
(* awaited is read and dropped.                                            *)
Respond(q) == \E i \in open[q], ok \in BOOLEAN :
  LET over == i = next[q] /\ (~ok \/ i + 1 \notin Ids) IN
  /\ next[q] = 0 => i = 0
  /\ Move(q, "query", IF over THEN "cleanup" ELSE "query")
  /\ open' = [open EXCEPT ![q] = IF over THEN {} ELSE @ \ {i}]
  /\ next' = [next EXCEPT ![q] = IF over THEN 0 ELSE IF i = @ THEN @ + 1 ELSE @]
  /\ Mark(q, ok \/ ~over)
  /\ UNCHANGED <<status, seen, active, lock, vault, home, cached, left, crashes>>

(* codex cannot start, dies, writes no JSON, or is silent for QUERY_TIMEOUT. *)
GiveUp(q) ==
  /\ Move(q, "query", "cleanup")
  /\ open' = [open EXCEPT ![q] = {}]
  /\ next' = [next EXCEPT ![q] = 0]
  /\ Mark(q, FALSE)
  /\ UNCHANGED <<status, seen, active, lock, vault, home, cached, left, crashes>>

(* Mutant: an error of the query returns before the cleanup.               *)
CleanupOnSuccess(q) ==
  /\ Move(q, "cleanup", IF q \in failed THEN "unlock" ELSE "cache")
  /\ home' = IF q \in failed THEN home ELSE [home EXCEPT ![Acct(q)] = None]
  /\ UNCHANGED <<status, failed, exchange, active, lock, vault, cached, left, crashes>>

(* Mutant: the Account lock is dropped with the credential.                *)
CleanupUnlocking(q) ==
  /\ Move(q, "cleanup", IF q \in failed THEN "unlock" ELSE "cache")
  /\ home' = [home EXCEPT ![Acct(q)] = None]
  /\ lock' = [lock EXCEPT ![Acct(q)] = None]
  /\ UNCHANGED <<status, failed, exchange, active, vault, cached, left, crashes>>

(* cleanup_query_home runs whatever became of the query, and may fail.     *)
Cleanup(q) == \E removed \in BOOLEAN :
  /\ Move(q, "cleanup", IF q \in failed \/ ~removed THEN "unlock" ELSE "cache")
  /\ home' = IF removed THEN [home EXCEPT ![Acct(q)] = None] ELSE home
  /\ left' = IF removed THEN left ELSE left \cup {Acct(q)}
  /\ Mark(q, removed)
  /\ UNCHANGED <<status, exchange, active, lock, vault, cached, crashes>>

(* cache_usage, then update_account_metadata: either may fail.             *)
Cache(q) == \E stored, ok \in BOOLEAN :
  /\ ok => stored
  /\ Move(q, "cache", "unlock")
  /\ cached' = IF stored THEN [cached EXCEPT ![Acct(q)] = seen[q]] ELSE cached
  /\ Mark(q, ok)
  /\ UNCHANGED <<status, exchange, active, lock, vault, home, left, crashes>>

(* The locals of refresh_usage are dropped in reverse order: the lock, ... *)
Unlock(q) ==
  /\ Move(q, "unlock", "release")
  /\ lock' = [lock EXCEPT ![Acct(q)] = None]
  /\ seen' = [seen EXCEPT ![q] = None]
  /\ UNCHANGED <<status, failed, next, open, active, vault, home, cached, left, crashes>>

Waiting == {q \in Query : pc[q] = "waiting"}
GiveBack == active' = IF active = 0 THEN 0 ELSE active - 1

(* Mutant: nobody is notified.                                             *)
ReleaseSilently(q) ==
  /\ Move(q, "release", "done")
  /\ GiveBack
  /\ UNCHANGED <<status, failed, exchange, lock, vault, home, cached, left, crashes>>

(* ... and the permit, whose drop notifies one waiter.                     *)
Release(q) ==
  /\ pc[q] = "release"
  /\ \/ Waiting = {} /\ pc' = [pc EXCEPT ![q] = "done"]
     \/ \E w \in Waiting : pc' = [pc EXCEPT ![q] = "done", ![w] = "acquire"]
  /\ GiveBack
  /\ UNCHANGED <<status, failed, exchange, lock, vault, home, cached, left, crashes>>

(* The receiver of the batch ends when every thread has sent its result.   *)
Answer(r) ==
  /\ status[r] = "run"
  /\ \A a \in Asked[r] : pc[<<r, a>>] = "done"
  /\ status' = [status EXCEPT ![r] = "answered"]
  /\ UNCHANGED <<pc, failed, exchange, active, lock, vault, home, cached, left, crashes>>

(* A launch of another process holds the Account lock and commits a        *)
(* refreshed credential into the Vault.                                    *)
LaunchTakes(a) ==
  /\ lock[a] = None
  /\ lock' = [lock EXCEPT ![a] = Launch]
  /\ UNCHANGED <<status, pc, failed, exchange, active, vault, home, cached, left, crashes>>

LaunchCommits(a) ==
  /\ lock[a] = Launch /\ vault[a] < MaxVersion
  /\ vault' = [vault EXCEPT ![a] = @ + 1]
  /\ UNCHANGED <<status, pc, failed, exchange, active, lock, home, cached, left, crashes>>

LaunchLeaves(a) ==
  /\ lock[a] = Launch
  /\ lock' = [lock EXCEPT ![a] = None]
  /\ UNCHANGED <<status, pc, failed, exchange, active, vault, home, cached, left, crashes>>

(* The daemon dies with its threads, its static counter and its flocks.    *)
Crash ==
  /\ crashes < MaxCrash
  /\ crashes' = crashes + 1
  /\ status' = [r \in Requests |-> IF status[r] = "run" THEN "lost" ELSE status[r]]
  /\ pc' = [q \in Query |-> "none"]
  /\ failed' = {}
  /\ next' = [q \in Query |-> 0]
  /\ open' = [q \in Query |-> {}]
  /\ seen' = [q \in Query |-> None]
  /\ active' = 0
  /\ lock' = [a \in Accounts |-> IF lock[a] = Launch THEN Launch ELSE None]
  /\ left' = {a \in Accounts : home[a] # None}
  /\ UNCHANGED <<vault, home, cached>>

(* refresh_usage but for its probe, and the launches its lock keeps away.  *)
Refresh(q) ==
  \/ Acquire(q) \/ TakeLock(q) \/ Checkout(q) \/ CheckoutFails(q) \/ Respond(q)
  \/ GiveUp(q) \/ Cleanup(q) \/ Cache(q) \/ Unlock(q) \/ Release(q)
LaunchStep(a) == LaunchTakes(a) \/ LaunchCommits(a) \/ LaunchLeaves(a)

Next ==
  \/ \E r \in Requests : Submit(r) \/ Answer(r)
  \/ \E q \in Query : Refresh(q) \/ Probe(q) \/ SpuriousWake(q)
  \/ \E a \in Accounts : LaunchStep(a)
  \/ Crash

(* A thread that can go on does: waiting for a permit is not a step of the *)
(* waiter's own, and a probe ends only when codex does.  QUERY_TIMEOUT ends*)
(* an exchange codex lets hang.                                            *)
Fairness ==
  /\ \A q \in Query : WF_vars(Refresh(q))
  /\ \A r \in Requests : WF_vars(Answer(r))

Spec == Init /\ [][Next]_vars /\ Fairness

TypeOK ==
  /\ status \in [Requests -> {"idle", "run", "answered", "lost"}]
  /\ pc \in [Query -> Labels]
  /\ failed \subseteq Query
  /\ next \in [Query -> Ids]
  /\ open \in [Query -> SUBSET Ids]
  /\ seen \in [Query -> Nat \cup {None}]
  /\ active \in Nat
  /\ lock \in [Accounts -> Query \cup {None, Launch}]
  /\ vault \in [Accounts -> Nat]
  /\ home \in [Accounts -> Nat \cup {None}]
  /\ cached \in [Accounts -> Nat \cup {None}]
  /\ left \subseteq Accounts
  /\ crashes \in Nat

(* A query that is past its try-lock owns its Account lock.                *)
LockHeld == \A q \in Query : pc[q] \in Locked => lock[Acct(q)] = q

(* The counter is the number of threads with a permit, on every error path *)
(* and whoever is woken, and never above the limit: QueryPermit.           *)
PermitsCounted == active = Cardinality(Holders) /\ active <= MaxQueries

(* codex is given the credential that is in the Vault, and it stays in the *)
(* Vault until the answer is stored: refresh_usage holds the Account lock  *)
(* from the checkout to the end.                                           *)
QueryUsesCurrentVault ==
  \A q \in Query : pc[q] \in {"query", "cleanup", "cache"} => seen[q] = vault[Acct(q)]

(* A snapshot that is stored describes the account as of its Vault at that *)
(* moment, not as of a credential a launch has replaced since.             *)
SnapshotIsCurrent ==
  [][\A a \in Accounts : cached'[a] # cached[a] => cached'[a] = vault[a]]_vars

(* A credential lies in a query home only while a query works on it, or    *)
(* because the daemon stopped or a write or removal in it failed (and then *)
(* until the next query of the account).                                   *)
QueryHomeClean ==
  \A a \in Accounts : home[a] # None =>
    a \in left \/ \E q \in Query : Acct(q) = a /\ pc[q] \in {"query", "cleanup"}

(* Probes that hang hold up the requests they are part of and nobody else, *)
(* even when all permits but one are lost to them: no wakeup is lost, and  *)
(* every other request is answered unless the daemon stops, however many   *)
(* wait for a permit and however the queries fail.                         *)
Hanging(r) == {H \in SUBSET Query : Cardinality(H) = MaxQueries - 1 /\ \A q \in H : q[1] # r}

EveryRequestEnds ==
  \A r \in Requests : \A H \in Hanging(r) :
    (\A q \in Query \ H : []<>(pc[q] # "probe"))
      => (status[r] = "run" ~> status[r] # "run")
=============================================================================
