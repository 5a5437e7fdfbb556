------------------------- MODULE UsageLimiterProofs -------------------------
(***************************************************************************)
(* Proofs about UsageLimiter, for any requests, accounts and limit.        *)
(***************************************************************************)
EXTENDS UsageLimiter, FiniteSetTheorems, TLAPS

(* A request that was not submitted has no threads.                        *)
IdleIsQuiet == \A q \in Query : status[q[1]] = "idle" => pc[q] = "none"

(* What an inductive argument needs: types, the lock behind each section   *)
(* that uses it, the counter, and what codex was given.                    *)
IInv == TypeOK /\ IdleIsQuiet /\ LockHeld /\ PermitsCounted /\ QueryUsesCurrentVault /\ QueryHomeClean

LEMMA QueryFinite == IsFiniteSet(Query)
<1>1. IsFiniteSet(Requests \X Accounts)  BY FiniteAssumption, FS_Product
<1> QED  BY <1>1, FS_Subset DEF Query

LEMMA HoldersFinite == IsFiniteSet(Holders) /\ Cardinality(Holders) \in Nat
<1>1. Holders \subseteq Query  BY DEF Holders
<1> QED  BY <1>1, QueryFinite, FS_Subset, FS_CardinalityType

(* A thread that enters or leaves the permitted section changes the number *)
(* of holders by one; one that stays on its side does not change it.       *)
LEMMA HolderEnters ==
  ASSUME NEW q \in Query, pc[q] \notin Permitted, Holders' = Holders \cup {q}
  PROVE  Cardinality(Holders') = Cardinality(Holders) + 1
<1>1. q \notin Holders  BY DEF Holders
<1> QED  BY <1>1, HoldersFinite, FS_AddElement

LEMMA HolderLeaves ==
  ASSUME NEW q \in Query, pc[q] \in Permitted, Holders' = Holders \ {q}
  PROVE  Cardinality(Holders') = Cardinality(Holders) - 1
<1>1. q \in Holders  BY DEF Holders
<1> QED  BY <1>1, HoldersFinite, FS_RemoveElement

LEMMA InitInv == Init => IInv
<1> SUFFICES ASSUME Init PROVE IInv  OBVIOUS
<1>1. TypeOK  BY IdsAssumption DEF Init, TypeOK, Labels, Ids, Query
<1>2. Holders = {}  BY DEF Init, Holders, Permitted
<1>3. PermitsCounted  BY <1>2, FS_EmptySet, QueriesAssumption DEF Init, PermitsCounted
<1> QED  BY <1>1, <1>3 DEF Init, IInv, IdleIsQuiet, Query, LockHeld, Locked, QueryUsesCurrentVault, QueryHomeClean

LEMMA StepType ==
  ASSUME TypeOK, Next PROVE TypeOK'
<1> USE IdsAssumption DEF TypeOK, Labels, exchange, Move, Mark, Acct, Ids
<1>1. ASSUME NEW r \in Requests, Submit(r) PROVE TypeOK'  BY <1>1 DEF Submit
<1>2. ASSUME NEW r \in Requests, Answer(r) PROVE TypeOK'  BY <1>2 DEF Answer
<1>3. ASSUME NEW q \in Query, Refresh(q) \/ Probe(q) PROVE TypeOK'
  <2> q[2] \in Accounts  BY DEF Query
  <2>1. CASE Acquire(q)  BY <2>1 DEF Acquire
  <2>2. CASE Probe(q)  BY <2>2 DEF Probe
  <2>3. CASE TakeLock(q)  BY <2>3 DEF TakeLock
  <2>4. CASE Checkout(q)  BY <2>4 DEF Checkout
  <2>5. CASE CheckoutFails(q)  BY <2>5 DEF CheckoutFails
  <2>6. CASE Respond(q)  BY <2>6 DEF Respond
  <2>7. CASE GiveUp(q)  BY <2>7 DEF GiveUp
  <2>8. CASE Cleanup(q)  BY <2>8 DEF Cleanup
  <2>9. CASE Cache(q)  BY <2>9 DEF Cache
  <2>10. CASE Unlock(q)  BY <2>10 DEF Unlock
  <2>11. CASE Release(q)  BY <2>11 DEF Release, GiveBack, Waiting
  <2> QED  BY <1>3, <2>1, <2>2, <2>3, <2>4, <2>5, <2>6, <2>7, <2>8, <2>9, <2>10, <2>11 DEF Refresh
<1>4. ASSUME NEW q \in Query, SpuriousWake(q) PROVE TypeOK'  BY <1>4 DEF SpuriousWake
<1>5. ASSUME NEW a \in Accounts, LaunchStep(a) PROVE TypeOK'
  BY <1>5 DEF LaunchStep, LaunchTakes, LaunchCommits, LaunchLeaves
<1>6. ASSUME Crash PROVE TypeOK'  BY <1>6 DEF Crash
<1> QED  BY <1>1, <1>2, <1>3, <1>4, <1>5, <1>6 DEF Next

(* The drop of a permit moves the thread that ends and at most one waiter.  *)
LEMMA ReleaseMoves ==
  ASSUME TypeOK, NEW q \in Query, Release(q), NEW p \in Query
  PROVE  pc'[p] \in {pc[p], "done", "acquire"} /\ (pc'[p] # pc[p] => pc[p] \in {"release", "waiting"})
<1>1. pc \in [Query -> Labels]  BY DEF TypeOK
<1>2. pc[q] = "release"  BY DEF Release
<1>3. CASE pc' = [pc EXCEPT ![q] = "done"]  BY <1>1, <1>2, <1>3
<1>4. CASE \E w \in Waiting : pc' = [pc EXCEPT ![q] = "done", ![w] = "acquire"]
  <2>1. PICK w \in Waiting : pc' = [pc EXCEPT ![q] = "done", ![w] = "acquire"]  BY <1>4
  <2>2. w \in Query /\ pc[w] = "waiting"  BY DEF Waiting
  <2> QED  BY <1>1, <1>2, <2>1, <2>2
<1> QED  BY <1>3, <1>4 DEF Release

(* Only Submit starts threads, and only for its own request.               *)
LEMMA StepIdle ==
  ASSUME TypeOK, IdleIsQuiet, Next PROVE IdleIsQuiet'
<1> USE DEF TypeOK, IdleIsQuiet, exchange, Move, Query
<1>1. ASSUME NEW r \in Requests, Submit(r) PROVE IdleIsQuiet'  BY <1>1 DEF Submit
<1>2. ASSUME NEW r \in Requests, Answer(r) PROVE IdleIsQuiet'  BY <1>2 DEF Answer
<1>3. ASSUME NEW q \in Query, Refresh(q) \/ Probe(q) PROVE IdleIsQuiet'
  <2>1. CASE Acquire(q)  BY <2>1 DEF Acquire
  <2>2. CASE Probe(q)  BY <2>2 DEF Probe
  <2>3. CASE TakeLock(q)  BY <2>3 DEF TakeLock
  <2>4. CASE Checkout(q)  BY <2>4 DEF Checkout
  <2>5. CASE CheckoutFails(q)  BY <2>5 DEF CheckoutFails
  <2>6. CASE Respond(q)  BY <2>6 DEF Respond
  <2>7. CASE GiveUp(q)  BY <2>7 DEF GiveUp
  <2>8. CASE Cleanup(q)  BY <2>8 DEF Cleanup
  <2>9. CASE Cache(q)  BY <2>9 DEF Cache
  <2>10. CASE Unlock(q)  BY <2>10 DEF Unlock
  <2>11. CASE Release(q)
    <3>1. \A p \in Query : pc[p] = "none" => pc'[p] = "none"  BY <2>11, ReleaseMoves
    <3>2. status' = status  BY <2>11 DEF Release
    <3> QED  BY <3>1, <3>2
  <2> QED  BY <1>3, <2>1, <2>2, <2>3, <2>4, <2>5, <2>6, <2>7, <2>8, <2>9, <2>10, <2>11 DEF Refresh
<1>4. ASSUME NEW q \in Query, SpuriousWake(q) PROVE IdleIsQuiet'  BY <1>4 DEF SpuriousWake
<1>5. ASSUME NEW a \in Accounts, LaunchStep(a) PROVE IdleIsQuiet'
  BY <1>5 DEF LaunchStep, LaunchTakes, LaunchCommits, LaunchLeaves
<1>6. ASSUME Crash PROVE IdleIsQuiet'  BY <1>6 DEF Crash
<1> QED  BY <1>1, <1>2, <1>3, <1>4, <1>5, <1>6 DEF Next

(* Only the owner of a lock drops it, and a launch takes a free one.       *)
LEMMA StepLock ==
  ASSUME TypeOK, LockHeld, Next PROVE LockHeld'
<1> USE NameAssumption DEF TypeOK, LockHeld, Locked, exchange, Move, Acct, Query
<1>1. ASSUME NEW r \in Requests, Submit(r) PROVE LockHeld'  BY <1>1 DEF Submit
<1>2. ASSUME NEW r \in Requests, Answer(r) PROVE LockHeld'  BY <1>2 DEF Answer
<1>3. ASSUME NEW q \in Query, Refresh(q) \/ Probe(q) PROVE LockHeld'
  <2>1. CASE Acquire(q)  BY <2>1 DEF Acquire
  <2>2. CASE Probe(q)  BY <2>2 DEF Probe
  <2>3. CASE TakeLock(q)  BY <2>3 DEF TakeLock
  <2>4. CASE Checkout(q)  BY <2>4 DEF Checkout
  <2>5. CASE CheckoutFails(q)  BY <2>5 DEF CheckoutFails
  <2>6. CASE Respond(q)  BY <2>6 DEF Respond
  <2>7. CASE GiveUp(q)  BY <2>7 DEF GiveUp
  <2>8. CASE Cleanup(q)  BY <2>8 DEF Cleanup
  <2>9. CASE Cache(q)  BY <2>9 DEF Cache
  <2>10. CASE Unlock(q)  BY <2>10 DEF Unlock
  <2>11. CASE Release(q)
    <3>1. \A x \in Query : pc'[x] \in {pc[x], "done", "acquire"}
      BY <2>11 DEF Release, Waiting
    <3>2. UNCHANGED <<exchange, lock, vault>>  BY <2>11 DEF Release
    <3> HIDE DEF TypeOK
    <3> QED  BY <3>1, <3>2
  <2> QED  BY <1>3, <2>1, <2>2, <2>3, <2>4, <2>5, <2>6, <2>7, <2>8, <2>9, <2>10, <2>11 DEF Refresh
<1>4. ASSUME NEW q \in Query, SpuriousWake(q) PROVE LockHeld'  BY <1>4 DEF SpuriousWake
<1>5. ASSUME NEW a \in Accounts, LaunchStep(a) PROVE LockHeld'
  BY <1>5 DEF LaunchStep, LaunchTakes, LaunchCommits, LaunchLeaves
<1>6. ASSUME Crash PROVE LockHeld'  BY <1>6 DEF Crash
<1> QED  BY <1>1, <1>2, <1>3, <1>4, <1>5, <1>6 DEF Next

(* The Vault changes only under a launch's lock, so under no query's.      *)
LEMMA StepVault ==
  ASSUME TypeOK, LockHeld, QueryUsesCurrentVault, Next PROVE QueryUsesCurrentVault'
<1> USE NameAssumption DEF TypeOK, LockHeld, Locked, QueryUsesCurrentVault, exchange, Move, Acct, Query
<1>1. ASSUME NEW r \in Requests, Submit(r) PROVE QueryUsesCurrentVault'  BY <1>1 DEF Submit
<1>2. ASSUME NEW r \in Requests, Answer(r) PROVE QueryUsesCurrentVault'  BY <1>2 DEF Answer
<1>3. ASSUME NEW q \in Query, Refresh(q) \/ Probe(q) PROVE QueryUsesCurrentVault'
  <2>1. CASE Acquire(q)  BY <2>1 DEF Acquire
  <2>2. CASE Probe(q)  BY <2>2 DEF Probe
  <2>3. CASE TakeLock(q)  BY <2>3 DEF TakeLock
  <2>4. CASE Checkout(q)  BY <2>4 DEF Checkout
  <2>5. CASE CheckoutFails(q)  BY <2>5 DEF CheckoutFails
  <2>6. CASE Respond(q)  BY <2>6 DEF Respond
  <2>7. CASE GiveUp(q)  BY <2>7 DEF GiveUp
  <2>8. CASE Cleanup(q)  BY <2>8 DEF Cleanup
  <2>9. CASE Cache(q)  BY <2>9 DEF Cache
  <2>10. CASE Unlock(q)  BY <2>10 DEF Unlock
  <2>11. CASE Release(q)
    <3>1. \A x \in Query : pc'[x] \in {pc[x], "done", "acquire"}
      BY <2>11 DEF Release, Waiting
    <3>2. UNCHANGED <<exchange, lock, vault>>  BY <2>11 DEF Release
    <3> HIDE DEF TypeOK
    <3> QED  BY <3>1, <3>2
  <2> QED  BY <1>3, <2>1, <2>2, <2>3, <2>4, <2>5, <2>6, <2>7, <2>8, <2>9, <2>10, <2>11 DEF Refresh
<1>4. ASSUME NEW q \in Query, SpuriousWake(q) PROVE QueryUsesCurrentVault'  BY <1>4 DEF SpuriousWake
<1>5. ASSUME NEW a \in Accounts, LaunchStep(a) PROVE QueryUsesCurrentVault'
  BY <1>5 DEF LaunchStep, LaunchTakes, LaunchCommits, LaunchLeaves
<1>6. ASSUME Crash PROVE QueryUsesCurrentVault'  BY <1>6 DEF Crash
<1> QED  BY <1>1, <1>2, <1>3, <1>4, <1>5, <1>6 DEF Next

(* The query that owns the lock is the one whose copy lies in the home.    *)
LEMMA StepHome ==
  ASSUME TypeOK, IdleIsQuiet, LockHeld, QueryHomeClean, Next PROVE QueryHomeClean'
<1> USE NameAssumption DEF TypeOK, LockHeld, Locked, QueryHomeClean, exchange, Move, Acct, Query
<1>1. ASSUME NEW r \in Requests, Submit(r) PROVE QueryHomeClean'
  <2>1. \A q \in Query : pc[q] # "none" => pc'[q] = pc[q]  BY <1>1 DEF Submit, IdleIsQuiet
  <2>2. home' = home /\ left' = left  BY <1>1 DEF Submit
  <2> QED  BY <2>1, <2>2
<1>2. ASSUME NEW r \in Requests, Answer(r) PROVE QueryHomeClean'  BY <1>2 DEF Answer
<1>3. ASSUME NEW q \in Query, Refresh(q) \/ Probe(q) PROVE QueryHomeClean'
  <2>1. CASE Acquire(q)  BY <2>1 DEF Acquire
  <2>2. CASE Probe(q)  BY <2>2 DEF Probe
  <2>3. CASE TakeLock(q)  BY <2>3 DEF TakeLock
  <2>4. CASE Checkout(q)  BY <2>4 DEF Checkout
  <2>5. CASE CheckoutFails(q)  BY <2>5 DEF CheckoutFails
  <2>6. CASE Respond(q)  BY <2>6 DEF Respond
  <2>7. CASE GiveUp(q)  BY <2>7 DEF GiveUp
  <2>8. CASE Cleanup(q)  BY <2>8 DEF Cleanup
  <2>9. CASE Cache(q)  BY <2>9 DEF Cache
  <2>10. CASE Unlock(q)  BY <2>10 DEF Unlock
  <2>11. CASE Release(q)
    <3>1. \A p \in Query : pc[p] \in {"query", "cleanup"} => pc'[p] = pc[p]
      BY <2>11, ReleaseMoves
    <3>2. home' = home /\ left' = left  BY <2>11 DEF Release
    <3> QED  BY <3>1, <3>2
  <2> QED  BY <1>3, <2>1, <2>2, <2>3, <2>4, <2>5, <2>6, <2>7, <2>8, <2>9, <2>10, <2>11 DEF Refresh
<1>4. ASSUME NEW q \in Query, SpuriousWake(q) PROVE QueryHomeClean'  BY <1>4 DEF SpuriousWake
<1>5. ASSUME NEW a \in Accounts, LaunchStep(a) PROVE QueryHomeClean'
  BY <1>5 DEF LaunchStep, LaunchTakes, LaunchCommits, LaunchLeaves
<1>6. ASSUME Crash PROVE QueryHomeClean'  BY <1>6 DEF Crash
<1> QED  BY <1>1, <1>2, <1>3, <1>4, <1>5, <1>6 DEF Next

(* Who holds a permit afterwards, for each kind of step.                   *)
LEMMA StepPermits ==
  ASSUME TypeOK, IdleIsQuiet, PermitsCounted, Next PROVE PermitsCounted'
<1> DEFINE Same == Holders' = Holders /\ active' = active
<1> USE DEF TypeOK, Permitted, Holders, exchange, Move
<1>0. Same => PermitsCounted'
  <2> SUFFICES ASSUME Same PROVE PermitsCounted'  OBVIOUS
  <2> QED  BY DEF PermitsCounted
<1>1. ASSUME NEW r \in Requests, Submit(r) PROVE PermitsCounted'
  <2>1. \A q \in Query : (pc'[q] \in Permitted) <=> (pc[q] \in Permitted)
    BY <1>1 DEF Submit, IdleIsQuiet
  <2> QED  BY <1>0, <1>1, <2>1 DEF Submit
<1>2. ASSUME NEW r \in Requests, Answer(r) PROVE PermitsCounted'  BY <1>0, <1>2 DEF Answer
<1>3. ASSUME NEW q \in Query, Refresh(q) \/ Probe(q) PROVE PermitsCounted'
  <2>1. CASE Acquire(q) /\ active < MaxQueries
    <3>1. pc[q] \notin Permitted /\ active' = active + 1  BY <2>1, QueriesAssumption DEF Acquire
    <3>2. Holders' = Holders \cup {q}  BY <2>1, QueriesAssumption DEF Acquire
    <3>3. Cardinality(Holders') = Cardinality(Holders) + 1  BY <3>1, <3>2, HolderEnters
    <3> QED  BY <2>1, <3>1, <3>3, QueriesAssumption DEF PermitsCounted
  <2>2. CASE Acquire(q) /\ ~(active < MaxQueries)  BY <1>0, <2>2, QueriesAssumption DEF Acquire
  <2>3. CASE Release(q)
    <3>1. pc[q] \in Permitted  BY <2>3 DEF Release
    <3>2. Holders' = Holders \ {q}  BY <2>3 DEF Release, Waiting
    <3>3. Cardinality(Holders') = Cardinality(Holders) - 1  BY <3>1, <3>2, HolderLeaves
    <3>4. active' = IF active = 0 THEN 0 ELSE active - 1  BY <2>3 DEF Release, GiveBack
    <3>5. Cardinality(Holders') \in Nat  BY <3>2, HoldersFinite, FS_RemoveElement, FS_CardinalityType
    <3> HIDE DEF Holders
    <3> QED  BY <3>3, <3>4, <3>5, QueriesAssumption DEF PermitsCounted
  <2>4. CASE Probe(q)  BY <1>0, <2>4 DEF Probe
  <2>5. CASE TakeLock(q)  BY <1>0, <2>5 DEF TakeLock
  <2>6. CASE Checkout(q)  BY <1>0, <2>6 DEF Checkout
  <2>7. CASE CheckoutFails(q)  BY <1>0, <2>7 DEF CheckoutFails
  <2>8. CASE Respond(q)  BY <1>0, <2>8 DEF Respond
  <2>9. CASE GiveUp(q)  BY <1>0, <2>9 DEF GiveUp
  <2>10. CASE Cleanup(q)  BY <1>0, <2>10 DEF Cleanup
  <2>11. CASE Cache(q)  BY <1>0, <2>11 DEF Cache
  <2>12. CASE Unlock(q)  BY <1>0, <2>12 DEF Unlock
  <2> QED  BY <1>3, <2>1, <2>2, <2>3, <2>4, <2>5, <2>6, <2>7, <2>8, <2>9, <2>10, <2>11, <2>12 DEF Refresh
<1>4. ASSUME NEW q \in Query, SpuriousWake(q) PROVE PermitsCounted'  BY <1>0, <1>4 DEF SpuriousWake
<1>5. ASSUME NEW a \in Accounts, LaunchStep(a) PROVE PermitsCounted'
  BY <1>0, <1>5 DEF LaunchStep, LaunchTakes, LaunchCommits, LaunchLeaves
<1>6. ASSUME Crash PROVE PermitsCounted'
  <2>1. Holders' = {} /\ active' = 0  BY <1>6 DEF Crash
  <2> HIDE DEF Holders
  <2> QED  BY <2>1, FS_EmptySet, QueriesAssumption DEF PermitsCounted
<1> QED  BY <1>1, <1>2, <1>3, <1>4, <1>5, <1>6 DEF Next

LEMMA StepInv == IInv /\ [Next]_vars => IInv'
<1> SUFFICES ASSUME IInv, [Next]_vars PROVE IInv'  OBVIOUS
<1>1. CASE Next  BY <1>1, StepType, StepIdle, StepLock, StepVault, StepHome, StepPermits DEF IInv
<1>2. CASE UNCHANGED vars
  BY <1>2 DEF vars, exchange, IInv, TypeOK, IdleIsQuiet, LockHeld, PermitsCounted, Holders,
              QueryUsesCurrentVault, QueryHomeClean
<1> QED  BY <1>1, <1>2

(* The inductive invariant holds: the limit, the lock discipline and the   *)
(* query homes agree at every step, for any limit and any set of requests. *)
THEOREM UsageInvariance == Spec => []IInv
<1>1. Init => IInv  BY InitInv
<1>2. IInv /\ [Next]_vars => IInv'  BY StepInv
<1> QED  BY <1>1, <1>2, PTL DEF Spec

(* QueryPermit counts the threads that hold a permit, never above the      *)
(* limit, on every path through refresh_usage and across restarts.         *)
THEOREM PermitsBounded == Spec => []PermitsCounted
<1>1. IInv => PermitsCounted  BY DEF IInv
<1> QED  BY <1>1, UsageInvariance, PTL

(* What codex is asked with is what the Vault holds until the query ends.  *)
THEOREM CurrentVault == Spec => []QueryUsesCurrentVault
<1>1. IInv => QueryUsesCurrentVault  BY DEF IInv
<1> QED  BY <1>1, UsageInvariance, PTL

(* A credential left in a query home has one of the named causes.          *)
THEOREM HomesClean == Spec => []QueryHomeClean
<1>1. IInv => QueryHomeClean  BY DEF IInv
<1> QED  BY <1>1, UsageInvariance, PTL

(* A stored snapshot describes the Vault of the moment it is stored.       *)
THEOREM CurrentSnapshot == Spec => SnapshotIsCurrent
<1> DEFINE Fresh == \A a \in Accounts : cached'[a] # cached[a] => cached'[a] = vault[a]
<1>1. ASSUME IInv, [Next]_vars PROVE [Fresh]_vars
  <2> SUFFICES ASSUME Next PROVE Fresh  BY <1>1
  <2>1. ASSUME NEW q \in Query, Cache(q) PROVE Fresh
    <3>1. seen[q] = vault[Acct(q)]  BY <1>1, <2>1 DEF IInv, QueryUsesCurrentVault, Cache, Move
    <3> QED  BY <1>1, <2>1, <3>1 DEF Cache, IInv, TypeOK
  <2>2. CASE cached' = cached  BY <2>2
  <2>3. cached' = cached \/ \E q \in Query : Cache(q)
    <3>1. ASSUME NEW q \in Query, Refresh(q) \/ Probe(q), ~Cache(q) PROVE cached' = cached
      BY <3>1 DEF Refresh, Acquire, Probe, TakeLock, Checkout, CheckoutFails, Respond, GiveUp,
                  Cleanup, Unlock, Release
    <3>2. ASSUME NEW q \in Query, SpuriousWake(q) PROVE cached' = cached
      BY <3>2 DEF SpuriousWake
    <3>3. ASSUME NEW r \in Requests, Submit(r) \/ Answer(r) PROVE cached' = cached
      BY <3>3 DEF Submit, Answer
    <3>4. ASSUME NEW a \in Accounts, LaunchStep(a) PROVE cached' = cached
      BY <3>4 DEF LaunchStep, LaunchTakes, LaunchCommits, LaunchLeaves
    <3>5. Crash => cached' = cached  BY DEF Crash
    <3> QED  BY <3>1, <3>2, <3>3, <3>4, <3>5 DEF Next
  <2> QED  BY <2>1, <2>2, <2>3
<1> QED  BY <1>1, UsageInvariance, PTL DEF Spec, SnapshotIsCurrent
=============================================================================
