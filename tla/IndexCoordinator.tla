-------------------------- MODULE IndexCoordinator --------------------------
(***************************************************************************)
(* The index-on-write coordinator of one server process                    *)
(* (search/index-coordinator.ts) and how it is wired to the tools, to the  *)
(* vault watcher and to leadership (runtime/indexing-wiring.ts).           *)
(*                                                                         *)
(* Every submission for a key (a vault and a path) replaces the pending    *)
(* one and chains a drain behind the drains already chained for that key.  *)
(* A drain claims what is pending when its turn comes, takes a slot of its *)
(* vault, then a global slot, and runs the handler.  A submission is named *)
(* by its number among those of its key, so that a greater number is a     *)
(* newer desired state; whether it is a write or a delete is data.         *)
(*                                                                         *)
(* A step is a stretch of JavaScript between two awaits.                   *)
(***************************************************************************)
EXTENDS Naturals, Sequences, FiniteSets

CONSTANTS
  Key,                  \* (vault, path) pairs
  Vault,
  VaultOf,              \* the vault of a key
  GlobalConcurrency,    \* options.globalConcurrency
  PerVaultConcurrency,  \* options.perVaultConcurrency
  QueueMax,             \* options.queueMax
  MaxSubmits,           \* bound: submissions of a key,
  Burst,                \* and how many each key has
  MaxDemotions          \* bound: times the process loses leadership

ASSUME CoordinatorAssumption ==
  /\ IsFiniteSet(Key) /\ VaultOf \in [Key -> Vault]
  /\ GlobalConcurrency \in Nat \ {0} /\ PerVaultConcurrency \in Nat \ {0} /\ QueueMax \in Nat \ {0}
  /\ MaxSubmits \in Nat /\ Burst \in [Key -> 0 .. MaxSubmits] /\ MaxDemotions \in Nat

VARIABLES
  submits,       \* per key, the submissions so far
  latest,        \* latest: the pending submission of a key, 0 when there is none
  latestOrigin,  \* latestOrigin: its tag
  chain,         \* chain: the last chained drain of a key, 0 when there is none
  drain,         \* per key and submission, the drain it chained
  vaultSem,      \* per vault, its semaphore
  globalSem,     \* globalSem
  overQueueMax,  \* overQueueMax
  index,         \* the submission the index holds of a key, 0 at first
  leader,        \* leader, of the election
  demotions,     \* times the process lost leadership
  fate           \* history: what became of each submission

work == <<submits, latest, latestOrigin, chain, drain, vaultSem, globalSem, overQueueMax, index, fate>>
vars == <<work, leader, demotions>>

Ticket == 1 .. MaxSubmits
Number == 0 .. MaxSubmits
Origin == {"none", "watcher"}

\* chained: not begun; vaultWait, globalWait: in a semaphore's queue; vaultHeld: has the vault's
\* slot; running: has both, in its handler; settled: its promise is resolved; done: and cleaned up.
Phase == {"none", "chained", "vaultWait", "vaultHeld", "globalWait", "running", "settled", "done"}
Drain == [phase : Phase, after : Number, op : Number]
Fate == {"none", "pending", "superseded", "claimed", "applied", "thrown", "dropped"}
Sem == [permits : Nat, waiters : Seq(Key \X Ticket)]

-----------------------------------------------------------------------------
(* The fair FIFO semaphore.                                                *)

\* Mutant: acquire() without a look at the permits.
AcquireUnchecked(s, d) == [s EXCEPT !.permits = @ - 1]

\* Semaphore.acquire() by drain d.
Acquire(s, d) ==
  IF s.permits > 0 THEN [s EXCEPT !.permits = @ - 1] ELSE [s EXCEPT !.waiters = Append(@, d)]

\* Mutant: release() wakes a waiter and counts the permit as free.
ReleaseTwice(s) == [permits |-> s.permits + 1, waiters |-> IF s.waiters # <<>> THEN Tail(s.waiters) ELSE <<>>]

\* Semaphore.release(): the permit goes to the head waiter, if there is one.
Release(s) ==
  IF s.waiters # <<>> THEN [s EXCEPT !.waiters = Tail(@)] ELSE [s EXCEPT !.permits = @ + 1]

\* Release(s) gives the permit to drain d.
Grants(s, d) == s.waiters # <<>> /\ d = Head(s.waiters)

-----------------------------------------------------------------------------
(* Submissions.                                                            *)

\* More keys have a chain than queueMax allows.
Over(ch) == Cardinality({k \in Key : ch[k] # 0}) > QueueMax

\* enqueue()
Submit(k, origin) ==
  LET n == submits[k] + 1
  IN  /\ n <= Burst[k]
      /\ submits' = [submits EXCEPT ![k] = n]
      /\ latest' = [latest EXCEPT ![k] = n]
      /\ latestOrigin' = [latestOrigin EXCEPT ![k] = origin]
      /\ drain' = [drain EXCEPT ![k][n] = [phase |-> "chained", after |-> chain[k], op |-> 0]]
      /\ chain' = [chain EXCEPT ![k] = n]
      /\ overQueueMax' = Over(chain')
      /\ fate' = [fate EXCEPT ![k] = [m \in Ticket |->
                    CASE m = n -> "pending" [] m = latest[k] -> "superseded" [] OTHER -> @[m]]]
      /\ UNCHANGED <<vaultSem, globalSem, index, leader, demotions>>

\* reindexHook and deindexHook: a tool wrote or deleted a note.
SubmitTool(k) == Submit(k, "none")

\* Mutant: the watcher's hooks without the leader gate.
WatcherUngated(k) == Submit(k, "watcher")

\* The watcher's onUpsert and onDelete: only a leader acts on a change it sees.
SubmitWatcher(k) ==
  /\ leader
  /\ Submit(k, "watcher")

-----------------------------------------------------------------------------
(* Drains.                                                                 *)

\* Mutant: a drain that does not wait for the one before it.
TurnEarly(k, n) == drain[k][n].phase = "chained"

\* The promise that drain n of key k was chained to is settled, and its own cleanup has run: that
\* callback was registered before the drain was.
Turn(k, n) ==
  /\ drain[k][n].phase = "chained"
  /\ LET p == drain[k][n].after IN p # 0 => drain[k][p].phase = "done"

\* drain(): an earlier drain applied the coalesced state, or the submission was cancelled.
DrainNothing(k, n) ==
  /\ Turn(k, n) /\ latest[k] = 0
  /\ drain' = [drain EXCEPT ![k][n].phase = "settled"]
  /\ UNCHANGED <<submits, latest, latestOrigin, chain, vaultSem, globalSem, overQueueMax, index, leader,
                 demotions, fate>>

\* drain() up to the wait for the vault's slot: claim the pending submission.
DrainClaim(k, n) ==
  LET s == vaultSem[VaultOf[k]]
  IN  /\ Turn(k, n) /\ latest[k] # 0
      /\ latest' = [latest EXCEPT ![k] = 0]
      /\ latestOrigin' = [latestOrigin EXCEPT ![k] = "none"]
      /\ vaultSem' = [vaultSem EXCEPT ![VaultOf[k]] = Acquire(s, <<k, n>>)]
      /\ drain' = [drain EXCEPT ![k][n].op = latest[k],
                                ![k][n].phase = IF s.permits > 0 THEN "vaultHeld" ELSE "vaultWait"]
      /\ fate' = [fate EXCEPT ![k][latest[k]] = "claimed"]
      /\ UNCHANGED <<submits, chain, globalSem, overQueueMax, index, leader, demotions>>

\* drain(): the vault's slot is held; take a global one.
DrainGlobal(k, n) ==
  /\ drain[k][n].phase = "vaultHeld"
  /\ globalSem' = Acquire(globalSem, <<k, n>>)
  /\ drain' = [drain EXCEPT ![k][n].phase = IF globalSem.permits > 0 THEN "running" ELSE "globalWait"]
  /\ UNCHANGED <<submits, latest, latestOrigin, chain, vaultSem, overQueueMax, index, leader, demotions,
                 fate>>

\* Mutant: the vault's slot is kept.
LeaveHolding(k, n) ==
  /\ globalSem' = Release(globalSem)
  /\ drain' = [j \in Key |-> [m \in Ticket |->
                [drain[j][m] EXCEPT !.phase =
                   CASE j = k /\ m = n -> "settled" [] Grants(globalSem, <<j, m>>) -> "running" [] OTHER -> @]]]
  /\ UNCHANGED vaultSem

\* drain() after the handler: both slots are released, each to its head waiter.
Leave(k, n) ==
  /\ globalSem' = Release(globalSem)
  /\ vaultSem' = [vaultSem EXCEPT ![VaultOf[k]] = Release(@)]
  /\ drain' = [j \in Key |-> [m \in Ticket |->
                [drain[j][m] EXCEPT !.phase =
                   CASE j = k /\ m = n -> "settled"
                     [] Grants(globalSem, <<j, m>>) -> "running"
                     [] Grants(vaultSem[VaultOf[k]], <<j, m>>) -> "vaultHeld"
                     [] OTHER -> @]]]

\* The handler committed to the index (onApplied), or threw (onError), before its commit or in a
\* hook that follows it.
Handled(k, n) ==
  /\ drain[k][n].phase = "running"
  /\ \E end \in {"applied", "thrown"}, committed \in BOOLEAN :
       /\ end = "applied" => committed
       /\ index' = IF committed THEN [index EXCEPT ![k] = drain[k][n].op] ELSE index
       /\ fate' = [fate EXCEPT ![k][drain[k][n].op] = end]
  /\ Leave(k, n)
  /\ UNCHANGED <<submits, latest, latestOrigin, chain, overQueueMax, leader, demotions>>

\* Mutant: the finally of enqueue forgets the chain whoever is its last drain.
CleanupAlways(k, n) ==
  /\ drain[k][n].phase = "settled"
  /\ drain' = [drain EXCEPT ![k][n].phase = "done"]
  /\ chain' = [chain EXCEPT ![k] = 0]
  /\ UNCHANGED <<submits, latest, latestOrigin, vaultSem, globalSem, overQueueMax, index, leader, demotions,
                 fate>>

\* The finally of enqueue: forget the chain unless a newer submission replaced it.
Cleanup(k, n) ==
  /\ drain[k][n].phase = "settled"
  /\ drain' = [drain EXCEPT ![k][n].phase = "done"]
  /\ chain' = [chain EXCEPT ![k] = IF @ = n THEN 0 ELSE @]
  /\ UNCHANGED <<submits, latest, latestOrigin, vaultSem, globalSem, overQueueMax, index, leader, demotions,
                 fate>>

-----------------------------------------------------------------------------
(* Leadership.                                                             *)

\* demote(), with its first callback, cancelOrigin("watcher"): the process no longer leads, and what
\* the watcher submitted and no drain has claimed is dropped.
Demote ==
  LET dropped == {k \in Key : latestOrigin[k] = "watcher"}
  IN  /\ leader /\ demotions < MaxDemotions
      /\ leader' = FALSE
      /\ demotions' = demotions + 1
      /\ latest' = [k \in Key |-> IF k \in dropped THEN 0 ELSE latest[k]]
      /\ latestOrigin' = [k \in Key |-> IF k \in dropped THEN "none" ELSE latestOrigin[k]]
      /\ fate' = [k \in Key |-> [m \in Ticket |->
                    IF k \in dropped /\ m = latest[k] THEN "dropped" ELSE fate[k][m]]]
      /\ UNCHANGED <<submits, chain, drain, vaultSem, globalSem, overQueueMax, index>>

\* promote(): the lock was acquired again.
Promote ==
  /\ ~leader
  /\ leader' = TRUE
  /\ UNCHANGED <<work, demotions>>

-----------------------------------------------------------------------------
Init ==
  /\ submits = [k \in Key |-> 0]
  /\ latest = [k \in Key |-> 0]
  /\ latestOrigin = [k \in Key |-> "none"]
  /\ chain = [k \in Key |-> 0]
  /\ drain = [k \in Key |-> [n \in Ticket |-> [phase |-> "none", after |-> 0, op |-> 0]]]
  /\ vaultSem = [v \in Vault |-> [permits |-> PerVaultConcurrency, waiters |-> <<>>]]
  /\ globalSem = [permits |-> GlobalConcurrency, waiters |-> <<>>]
  /\ overQueueMax = FALSE
  /\ index = [k \in Key |-> 0]
  /\ leader \in BOOLEAN
  /\ demotions = 0
  /\ fate = [k \in Key |-> [n \in Ticket |-> "none"]]

Step(k, n) == DrainNothing(k, n) \/ DrainClaim(k, n) \/ DrainGlobal(k, n) \/ Handled(k, n) \/ Cleanup(k, n)

Next ==
  \/ \E k \in Key : SubmitTool(k) \/ SubmitWatcher(k)
  \/ \E k \in Key, n \in Ticket : Step(k, n)
  \/ Demote
  \/ Promote

Spec == Init /\ [][Next]_vars

\* A drain that can go on does: its continuations are microtasks, and a handler ends, with a commit
\* or an error (embedding requests have timeouts).
FairSpec == Spec /\ \A k \in Key, n \in Ticket : WF_vars(Step(k, n))

-----------------------------------------------------------------------------
TypeOK ==
  /\ submits \in [Key -> Number]
  /\ latest \in [Key -> Number]
  /\ latestOrigin \in [Key -> Origin]
  /\ chain \in [Key -> Number]
  /\ drain \in [Key -> [Ticket -> Drain]]
  /\ vaultSem \in [Vault -> Sem]
  /\ globalSem \in Sem
  /\ overQueueMax \in BOOLEAN
  /\ index \in [Key -> Number]
  /\ leader \in BOOLEAN
  /\ demotions \in 0 .. MaxDemotions
  /\ fate \in [Key -> [Ticket -> Fate]]

\* A key with no chain has nothing pending and no drain at work: what idle() waits for at
\* shutdown, and what lets a submission start a chain of its own.
IdleIsIdle ==
  \A k \in Key : chain[k] = 0 =>
    latest[k] = 0 /\ \A n \in Ticket : drain[k][n].phase \in {"none", "done"}

\* The index of a path never goes back to an older submission: a slow older write does not land
\* after a newer one, and does not resurrect a deleted note.
NewestWins == [][\A k \in Key : index'[k] >= index[k]]_vars

\* Whatever was coalesced, a key at rest has seen its last submission through: applied, failed and
\* reported, or cancelled by a demotion. No submission waits for a drain that never comes.
NothingForgotten ==
  \A k \in Key : chain[k] = 0 /\ submits[k] > 0 => fate[k][submits[k]] \in {"applied", "thrown", "dropped"}

\* The drains in one of these phases.
Within(phases) == {d \in Key \X Ticket : drain[d[1]][d[2]].phase \in phases}

\* However many paths change at once, the handlers that run stay within the global limit, and the
\* drains that hold a slot of a vault, in their handler or on the way to it, within the vault's.
WithinLimits ==
  /\ Cardinality(Within({"running"})) <= GlobalConcurrency
  /\ \A v \in Vault :
       Cardinality({d \in Within({"vaultHeld", "globalWait", "running"}) : VaultOf[d[1]] = v})
         <= PerVaultConcurrency

\* No change that the watcher saw as a leader waits in a follower, to be indexed beside the new leader.
FollowerQuiet == ~leader => \A k \in Key : latestOrigin[k] = "none"

\* Every submission is seen through: no drain waits for ever for its turn or for a slot.
Drains == \A k \in Key : chain[k] # 0 ~> chain[k] = 0
=============================================================================
