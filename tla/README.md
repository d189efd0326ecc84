# A verification project for obsidian-tc

obsidian-tc is an MCP server over Obsidian vaults. A client's tool call passes a
chain of gates, reaches a handler that reads or writes notes, and leaves records in
SQLite (`cache.db`). Beside the calls, background work runs: a durable job queue, a
scheduler, indexing, a vault watcher, retention sweeps. Several server processes can
share one vault and one `cache.db`.

The modules here model the parts of the server whose correctness depends on the
order of steps: they are read from the TypeScript under `src/packages/server/src`
(abbreviated `…/` below), and every definition that stands for code is listed with its
lines in `PROJECT.json` ("map").

## 1. Inventory

| Part | State | Operations and interactions | What is hard, and what makes it correct |
|---|---|---|---|
| Transport (`mcp/server.ts`, `transports/`) | sessions, request signals | stdio and HTTP requests become `dispatch` calls | cancellation at any await; a response only for its request |
| Tool router and policy (`mcp/registry/`) | `idempotency_keys`, `elicit_tokens`, the locals of each dispatch | gates, claim, throttle, confirmation, handler, settlement | crash, retry, duplicate, stale holder: at most one effect per key and per confirmation, no stranded claim |
| Rate limiting (`throttle.ts`, `ratelimit/`) | token buckets per (caller, class, vault), in memory, SQLite or Redis | take, refill, evict, fail open or closed | no more than burst + rate·t; eviction must not refill a bucket; outage policy |
| Job queue (`scheduler/job-queue.ts`, `job-runner.ts`) | `jobs`, `job_outcomes` | enqueue, claim, heartbeat, checkpoint, complete, fail, cancel; several workers | lease expiry, crash between effect and completion, cancel against completion, retries: one owner at a time, a terminal job stays terminal, every claimable job ends |
| MCP Tasks (`mcp/tasks.ts`, `mcp/task-budget.ts`, `scheduler/task-call-runner.ts`) | projection of a job, the wait for it | start, poll, cancel, fall back to a task when the budget is spent | a terminal status never changes; a result that was stored is the one that is shown |
| Scheduler (`scheduler/scheduler.ts`) | per job: next run, run in flight, failures; one timer, a clock that it moves; the rows of `job_schedule` | start, tick, run, success, failure, stop | no overlap of one job with itself, backoff, no lost wake-up, stop during a run |
| Vault lock and leadership (`runtime/vault-lock.ts`, `search/indexing/leader-epoch.ts`) | a lock file with an open exclusive transaction, `index_leader_epoch`, the pass in flight | elect, keepalive, promote, demote with a bounded join, close | two processes that both believe they lead; a deposed leader's late write |
| Vault files (`vault/cas.ts`, `notes-io.ts`, `write-batch.ts`, `persist-note.ts`) | files, temporary files beside them | compare-and-swap writes, multi-file batches with rollback | lost update, half a batch after a failure |
| Watcher (`vault/`) | pending paths, debounce timers | file events become reindex requests | events during a flush, overflow, self-writes |
| Indexing (`search/index-coordinator.ts`, `search/indexing/`) | chunk and notes rows, `note_write_fence`, epoch, the submissions of each path | index on write, passes of the leader, passes a tool asks for | plans wait for embeddings: no fresher write undone and no deleted note back, but for one case that section 6 names; an interrupted pass repaired |
| Query cache (`search/query_cache.ts`, `generation.ts`) | cached results keyed by generation | get, put, bump | a result computed before a write served after it |
| Auth and OAuth server (`auth/`) | grants, codes, refresh families, keys | code exchange, rotation, revocation, key retirement | refresh reuse, a rotation interrupted, revocation against issue |
| ACL (`acl.ts`, `vault/acl-*`) | configuration | path and scope decisions | pure; a filter that mirrors the handler's use |
| Workspace sessions (`workspace/`) | sessions, records, rerun | record, rerun in a sandbox | rerun of a replayed call |
| Git sync (`git-sync/`) | repository state, lock | pull, commit, push | interleaving with writes, failed push |
| Experiential tier, memory, provenance (`experiential/`, `memory/`, `provenance/`) | episodes, entities, hash chains | append, judge, forget, retain | the chain stays verifiable across deletion |
| Embeddings (`embeddings/`, `providers/`), gateway, native module, bridge, capture, conventions, morgiana, otel, metrics, audit, config, CLI, companion plugin, local embedder and reranker, services | various | provider calls, formatting, observation | mostly I/O |

The parts meet in three places: the SQLite database (each statement atomic, and a
transaction where the code opens one), the vault's files, and the JavaScript event
loop of each process (code between two awaits runs alone *in its process*).

## 2. Plan

Done, in the order of what a failure would cost:

1. **Dispatch**: the claim/gate/handler/settle pipeline; its proofs (section 3).
2. **JobQueue** and **TaskLife**: the durable queue, its workers and cancellation, and the
   abstract task life that it implements; its proofs (section 4).
3. **IndexCoordinator**: index-on-write, its semaphores and its demotion; its proofs
   (section 5).
4. **NoteIndex**: passes and jobs that commit plans made before an await, with the query
   cache that follows their commits; its proofs (section 6).
5. **VaultLeader**: the lock, its keepalive, the demotion, the epoch; its proofs (section 7).
6. **Refresh**: a family of refresh tokens; its proofs (section 8).
7. **WriteBatch**: a batch of file writes and its rollback; its proofs (section 9).
8. **Scheduler**: one timer, many jobs, backoff over restarts; its proofs (section 10).

The parts meet by what they promise each other. The coordinator's flag `leader` and the
note index's `leader`, `epoch` and `mine` are VaultLeader's; the note index takes several
leaders at once as possible, which VaultLeader shows they are, and relies on the epoch only.
The coordinator's handler is the job of NoteIndex; its order per path is `NewestWins`. The
runner tick of JobQueue is a job of the scheduler.

Next, in this order:

1. **RateLimit**: buckets with eviction and the outage policy. Wanted: no more than burst plus
   refill, whatever is evicted.
2. **Watcher**: events, debounce and flush, in front of the coordinator.
3. Abstract specifications: an at-most-once call that Dispatch implements under the
   assumptions of `DispatchOnce`; a lock that VaultLeader implements.

## 3. Dispatch

`Dispatch.tla` models `runDispatch` (`…/mcp/registry/dispatch.ts`) and what it calls to
change state: `idempotency.ts`, `elicit.ts`, `elicit-release.ts`, `effect-marker.ts`,
`vault/hitl.ts`.

*State.* `row` is the key's row of `idempotency_keys`; `token` is one row of
`elicit_tokens`; `call[c]` holds the locals of the dispatch of call `c` (`idemClaimed`,
`handlerInvoked`, `handlerReturned`, `effectCommitted`, the spent token) and a program
counter; `tool` fixes how the tool behind an argument hash behaves. `claimant` and
`landed` are history: who inserted the present row, whose effect has landed.

*Actions.* One per SQL statement of `claimOrReplay` (a process is interrupted there only
by other processes: `LoopFree`), one per stretch between two awaits elsewhere. A handler
marks ahead of its effect (files), after it, in one transaction with it, or never
(`Styles`), and asks for confirmation at dispatch, inside, or not at all (`Gatings`).
Retries are further calls of `Call`; `Crash` ends every call of a process; `Sweep` is the
retention sweep; a failing statement is `SqlFault`.

*Runs.*

| Run | Shows |
|---|---|
| `DispatchOnce` | With one process and calls that end inside the reclaim window (`Prompt`), a key admits one call at a time (`OneHolder`), at most one effect per lifetime (`AtMostOncePerTtl`), replays only its own request's answer (`ReplayFaithful`), and never gives up the claim of an effect that landed (`CommittedClaimKept`), with a crash and one failing statement. |
| `DispatchPolicy` | With two processes that race for a key and for its reclaim, every style and gating, throttling and slow calls, a confirmation lets one effect through (`OneEffectPerConfirmation`) and no refusal strands a claim (`NoStrandedClaim`). |
| `DispatchStaleHolder` | Counterexample to what the comments say of the reclaim, from one relaxation of `DispatchOnce`, slow calls: a call that outlasts the window records its answer in the row of the request that took its place, and a third call replays it. |

*Observed, and left to the code.* `DispatchOnce` assumes calls that end inside the window
(the run above), no throttling and one process; the last two for a reason each.

- With throttling on, `OneHolder` fails in `DispatchOnce`. A gate that refuses deletes the
  claim (`dispatch.ts:361`, `:400`) and leaves `idemClaimed` set; the catch settles the
  provenance first, an await (`:585`), and deletes the key again (`:618`). A duplicate that
  claimed the key in between loses its claim while it runs, and a third call gets in beside
  it, where ARCHITECTURE.md:206 says "still in-flight → `idempotency_in_flight`".
- With a second process, `OneHolder` fails. The comment of `idempotency.ts:62` is "Try to
  atomically claim…"; the reclaim of a stale row is a read and a DELETE by key, two statements:
  two processes that read the same stale row delete it one after the other, the second
  deleting the fresh claim of the first.

*Bounds.* Three calls: the holder, a duplicate that takes its place, and a third that
meets either. Two argument hashes tell a match from a mismatch; one is enough where no
property mentions arguments. The clock runs to the key's lifetime (3) past a
reclaim window of 2, so that both limits are reached and crossed; one failing statement.

*Proofs* (`DispatchProofs.tla`). Three hold for every value of the constants that
`DispatchAssumption` allows, so with neither `Prompt` nor one process:

- `TypeCorrect`: the type invariant.
- `ConfirmedOnce`: `OneEffectPerConfirmation`. The property is not inductive: it
  follows from `ConfirmInv`, which says that a gated effect has the token on its
  account (`spent`), that a spent token is not redeemable and has one holder, and that
  a call whose effect has landed is past the point where the release rule applies.
- `NoClaimStranded`: `NoStrandedClaim`, from `ClaimInv`: the claimant of an unsettled
  row knows that it holds it (`idemClaimed`), or has crashed.

Four hold under `Alone`, for any calls, arguments, styles, faults and crashes. `Alone` says what
the run `DispatchOnce` says: one process, calls that end inside the reclaim window, and neither
of the two gates that delete the claim ahead of the catch (throttling, confirmation at dispatch).
It adds `0 < Reclaim <= Ttl`: the schema makes both positive
(`packages/shared/src/config/server.schema.ts:211-226`), and a reclaim window longer than the
lifetime would let the sweep take the row of a call at work.

- `HolderAlone` (`OneHolder`) and `ReplayOwn` (`ReplayFaithful`), from `AInv`: a call past its
  claim holds it until it ends, and the row is its own, with its arguments and its times
  (`Claims`); what a call in `claimOrReplay` has read of the row is still so, since it is alone
  between two statements (`Stretch`); a completed row and a replay name a call that returned,
  with those arguments (`Results`). Hence no UPDATE or DELETE by key meets another call's row.
- `ClaimOfEffectKept` (`CommittedClaimKept`): a step of the claimant whose effect has landed
  finds its mark in the row, and so settles the row as indeterminate at worst (`HolderKeeps`).
- `OncePerKey` (`AtMostOncePerTtl`), if every tool marks ahead of its effect or with it
  (`MarksEffects`). `OnceInv` adds to `AInv` that for each effect that landed the row is there,
  not `in_flight`, and expires with the key's lifetime (`Guarded`), whoever crashed since, and
  that whoever holds a claim took it a lifetime later (`Apart`). A tool that marks after its
  effect may crash in between, and the reclaim then runs it again: the hypothesis is needed.

*Left out.* The deletion of a completed row whose blob does not parse (damage from
outside), the signed `elicitState` (it spends no row), a fault of the token's release, and
everything that only observes.

## 4. Job queue and tasks

`JobQueue.tla` models the jobs table (`…/scheduler/job-queue.ts`) and those who use it: the
runner tick of each process (`job-runner.ts`), the run a tool call starts at once
(`task-call-runner.ts`), the request that waits for its task within a budget
(`mcp/task-budget.ts`), the cancel path (`mcp/tasks.ts`), the enqueuer of period-keyed work
(`runtime/plane-wiring.ts`) and the retention sweep (`db/maintenance.ts`).

*State.* `row[j]` is the row of job `j` with its outcome; `run[w]` holds the locals of
`runJob` in worker `w` (a runner or a start slot); `wait[t]` says who waits for task `t`;
`busy[p]` is what process `p` does between two statements with no await between them;
`stopped` are the processes that shut down. Time appears as what it does: a lease lapses
(`Lapse`), a backoff comes due (`ComeDue`). A lease token is named by its process and the
attempt the claim counts, since `newLeaseToken` makes a fresh one per claim.

*Actions.* `EnqueueRead`, `EnqueueDelete`, `EnqueueInsert` (three statements);
`Offload`, `StartTask`, `BudgetSpent`, `CallAborted` (a request and its task);
`Claim` (one transaction, the finalization of cancelled rows included); `Begin`, `Beat`,
`Answer`, `ToolError`, `Throw`, `Complete`, `Catch` (`runJob` and the task handler);
`CancelRead`, `CancelWrite`; `Stop`, `Restart` (shutdown and crash); `Sweep`.

*Runs.*

| Run | Shows |
|---|---|
| `JobQueueTasks` | Two processes, their runners and an immediate start, with crashes and leases that lapse under a live run: a superseded attempt writes nothing (`SupersededSilent`), a completed task has the result of the attempt that completed it (`CompletedHasResult`), and without a lapse a job is in one worker (`NoOverlap`). |
| `JobQueuePeriods` | Two enqueuers, retries, failures and sweeps: a period's work succeeds once (`OncePerPeriod`), in a class within its limit (`ClassCap`). |
| `JobQueueServed` | Under fairness, every active job completes or fails (`Served`); what clients poll implements `TaskLife` (`TaskLifeImplemented`): a task ends once, with the answer that belongs to its end. |

*Observed, and left to the code.* `mcp/tasks.ts:69` says that "a terminal status never
changes afterwards". With two processes it may: `cancelOwnedTask` reads the status and sets
the flag in two statements, and a task that another process failed in between turns
cancelled (`TaskLifeImplemented` fails in `JobQueueServed` with two processes). So
`JobQueueServed` has one process. `JobQueuePeriods` allows no lapse
under a live run, because `ClassCap` does not survive one: `heartbeat` renews a lapsed lease
of its owner without a second look at the class, which another process may have filled by
then.

*Bounds.* One task and three workers give the immediate start, a runner that takes the
job over and one that meets the result; two lapses and two faults (`MaxLapses`,
`MaxFaults`) let the second attempt be lost too. Three keyed rows make two generations of
one key beside another key; two attempts are one retry. A row that was swept is `gone`:
its id is not used again. `Starter` bounds the calls that start their task at once.

*Fairness.* Weak, of what the code drives by itself: the event loop finishes what it began
(`Proceed`), the runner's tick comes (`Claim`), handlers end (`Settling`), a lease that is
not renewed lapses, a backoff comes due, and a process that was told to stop is started
again, as the supervisor of a server does. Nothing is assumed of clients, crashes and
sweeps. The runs end when every id is used, so deadlock is not checked.

*Proofs* (`JobQueueProofs.tla`), for any sets of processes, workers and jobs:

- `TypeCorrect`; `ResultFirst` (`CompletedHasResult`) and `SupersededKept`
  (`SupersededSilent`). Neither is inductive. `IInv` adds: the owner of a row is the token of
  its attempt (`OwnerCounts`), a run was begun by a claim that counted (`Begun`), two runs
  have different attempts or jobs (`Distinct`), and a run past `recordOutcome` that still
  owns the row has its outcome there (`Recorded`).
- `OneRunPerJob` (`NoOverlap`) and `ClassKept` (`ClassCap` while no lease lapsed), from `SInv`,
  which adds that a run of a job that has not ended owns it, with a live lease unless it is
  cancelled (`Holding`), that keyed rows are never
  cancelled (`KeyedKept`), and what `busy` may refer to (`Waits`).
- `PeriodOnce` (`OncePerPeriod`), with lapses and any number of processes. `PInv` says that a key
  has one row at most (`Unique`: the index of the table), that the row which an enqueuer read and
  is about to delete may still be replaced, whatever others did since (`Enqueues`), and that a row
  whose work succeeded stays `complete` (`Stays`).
- `TaskEndsOnce` (`TaskLifeImplemented`): the rows of the tasks implement `TaskLife`, for one
  process, as its run has it. `Quiet` says that while the process is between two statements its
  runs are idle or in a handler, and `Polite` that a request that waits, and a cancel that was
  read, have a task that goes on; both fail with a second process (above). Each step is then a
  step of `TaskLife` or a stutter (`LifeStep`).

*Left out.* Checkpoints and progress, the order of the claim's scan and its limit, types
without a handler, ownership filters, routing and subscriptions.

## 5. Index coordinator

`IndexCoordinator.tla` models `…/search/index-coordinator.ts` in one process and its wiring
(`…/runtime/indexing-wiring.ts`).

*State.* The maps `latest`, `latestOrigin` and `chain`, by key (a vault and a path); the
semaphores; `overQueueMax`; for each submission the drain it chained, with the drain it
waits for; `index`, the submission the index holds; `leader`. A submission is named by its
number, so a greater number is a newer desired state. `fate` is history.

*Actions.* `SubmitTool` and `SubmitWatcher` (`enqueue` with its two origins; the watcher's
hooks ask for leadership); `DrainNothing`, `DrainClaim`, `DrainGlobal`, `Handled` (`drain`
cut at its awaits; the handler commits or throws, before or after its commit, and both slots
go to their head waiters); `Cleanup` (the `finally` of `enqueue`); `Demote` (the flag and
`cancelOrigin`, the first callback, in one stretch); `Promote`. A drain's turn comes when its
predecessor's promise is settled *and* that one's cleanup has run: the callbacks of a
promise run in the order of their registration.

*Runs.*

| Run | Shows |
|---|---|
| `Coordinator` | The index never goes back (`NewestWins`); at rest, a key has seen its last submission through (`NothingForgotten`); a follower has none of the watcher's work pending (`FollowerQuiet`); handlers stay within the global limit and the holders of a vault's slots within the vault's (`WithinLimits`); under fairness every chain ends (`Drains`). |

*Observed, and left to the code.* The comment on `latestOrigin` says that a demotion drops
only the watcher's work, "without touching an explicit tool write that happens to share the
same (vault, path) key". The tag is that of the last submission: a watcher event that
coalesces with a tool's pending write takes it along when the process is demoted. The next
leader's reconcile indexes the note, so `NothingForgotten` counts a dropped submission as
seen through, whoever made it.

*Bounds.* Three keys of one vault with two slots, under one global slot: a drain waits for the
vault while another holds a slot of it and waits for the global one. Two submissions of one
key (`Burst`, at most `MaxSubmits`): one in its handler, one that comes meanwhile, or two that
coalesce. A second vault would add drains that meet these at the global semaphore only. One
demotion (`MaxDemotions`), after which the process may lead again. Submissions are bounded, so
the run ends and deadlock is not checked; `Drains` says that what was submitted does not
stay behind.

*Fairness.* Weak, of each drain's next step: continuations are microtasks, and handlers end
(embedding requests have timeouts).

*Proofs* (`IndexCoordinatorProofs.tla`), for all keys, vaults, limits and bounds:
`TypeCorrect`, `NewestKept` (`NewestWins`), `IdleCorrect` (`IdleIsIdle`: a key without a chain
has nothing pending and no drain at work, which is what `idle()` waits for), `NothingLost`
(`NothingForgotten`), `FollowerKeepsQuiet` (`FollowerQuiet`), `LimitsKept` (`WithinLimits`). But
for `FollowerQuiet`, they need one inductive invariant, `IInv`: a semaphore's queue holds drains that wait for it, each once
(`Queues`), and for every key, drains begin in order (`Ordered`), what is pending is the last
submission and its drain has not begun (`Pending`), the index is older than the claimed
submission and that is older than the pending one (`Newer`), and the last submission is
pending, claimed by a drain at work, or at its end (`Followed`). A release moves drains of
other keys, so the proof splits each step into the key it is about (one lemma per action)
and the others (`LifeKept`). `WithinLimits` follows from `Limits`, inductive beside `IInv`: of each
semaphore, the permits and the drains that hold one add up to its limit, since a drain that leaves
hands its slot to the head waiter, which held none.

*Left out.* Writes told from deletes, the counters of `stats()`, the idle callback, and an
error callback that itself throws (it only reports).

## 6. Note index and query cache

`NoteIndex.tla` models who writes the index of one vault: the passes (`…/search/indexing/`
`index-vault.ts`, `notes-flush.ts`, `sweep-notes.ts`), the jobs of the coordinator
(`index-note.ts`), what both compare before they write (`write-fence.ts`,
`leader-epoch.ts`), and the query cache that must not outlive what they commit
(`query_cache.ts`, `generation.ts`).

*State.* The content of a note is the number of the event that wrote it; `Hash` says which
contents are equal, so a note may get an earlier content back. `disk` is the vault; `chunks`,
`notes` and `fence` are its rows by path; `pass[q]` holds the locals of `indexVault` in a
process (the walk, the preloads, the content in hand, the pending records and plans, the epoch
it began under);
`op[q][p]` the coordinator's state of a path with the locals of its job; `cache` a stored
result, `asked` the query in flight. `high`, `owed`, `calm` and a plan's `overtaken` are history.

*Actions.* `Change` (an editor or a tool writes or deletes; some processes hear of it);
`PlanNote`, `indexNote`, `Deindex` (a job, cut at its embedding); `Begin`, `Load`, `ReadNote`,
`ReadRows`, `ReadFence`, `QueueNote`, `ReadGone`, `FlushNotes`, `Full`, `CommitBatch`, `Sweep`,
`Bump` (a pass, cut at its awaits and transactions, and for each note between the reads of its
file, of its chunk rows, of its fence and of its notes row); `EmbedFails`, `Promote`, `Demote`,
`Crash`; `Search`, `Keep`, `Evict`. From the read of a file to the queues `processNote` has no
await, so nothing else of that process runs (`Free`), while the other processes commit as they
like.

| Run | Shows |
|---|---|
| `NoteIndex` | No batch of a pass undoes a fresher write or a deletion that committed since the pass read the note, whether before or after the plan, but for a note without a fence that another process overtook between two reads (`PassNeverRegresses`, and below); a pass that nothing disturbed leaves every note with its content and no row of a deleted one, whatever was interrupted before it (`PassHeals`); between passes the cache serves what the index holds (`CacheFresh`). |

*Observed, and left to the code.*

- For a note that had no fence when the pass loaded (`preloadedFenceGenerations` has nothing
  for it), the file is read first (`index-vault.ts:413`) and the chunk rows and the fence after
  it has been parsed, cut up and scanned (`note-plan.ts:241-243`). When another process indexes
  a newer content of the note, or removes it, in that stretch, the old content is paired with
  the new rows and the new fence, both comparisons in the batch's transaction hold, and the
  batch puts the old content, or a deleted note, back. `write-fence.ts:23-26` has the fence read
  at the same moment as the rows; the content is older than both. TLC finds this in eleven steps
  when `PassNeverRegresses` is stated without its exception (`overtaken`); with a fence that was
  loaded, or a single process, it cannot happen (both are proved), and the next pass that nothing
  disturbs repairs it (`PassHeals`). Reading the fence before the file would close it.
- The generation moves in a transaction of its own at the end of the pass
  (`index-vault.ts:650-666`). The comment there says that "the idempotent reconcile re-bumps
  if a crash lands between the last flush and here"; it does not: the next pass finds the
  content unchanged, commits nothing and does not bump. A pass that rejects or crashes after a
  committed batch leaves cached results of before it, until their time to live.
  `generation.ts:4-7` says "The bump lives INSIDE each index write transaction". `CacheFresh`
  excludes the case (`owed`).
- The sweep drops the rows of a note that was created and indexed after the walk
  (`sweep-notes.ts:51-56`), until the next pass; it looks at no epoch.
- The notes row of a note with a plan is written without a look at the fence
  (`notes-flush.ts:37`); a job of one process may have read the file before another's fence.
- A file that disappears in the middle of a pass rejects the whole pass.

*Bounds.* One note, two processes, of which one has tools and a watcher. Five scenarios
(`Bounds`), since each hazard needs its own actors: `Overlap` (two events, two promotions: an
old leader's pass beside its successor's), `Asked` (a pass that a tool asked for, which has no
epoch, beside a leader's), `Queried` and `QueriedBeside` (a query and its cache, with a leader's
passes and the jobs of a writer, and with two passes at once), `Back` (three events and one
fault, the first content returning). Notes meet only in a batch's fate, which is by note; two notes
under one leader's pass and the writer's jobs were checked once, with one event and a fault
(4.0M distinct states) and with two events (3.2M). Two notes under two passes at once are beyond
TLC's reach here and left to the proofs, which are for any number of notes.

*Proofs* (`NoteIndexProofs.tla`), for any notes, processes, epochs and bounds: `TypeCorrect`,
`NeverRegresses` (`PassNeverRegresses`), `CacheCorrect` (`CacheFresh`), `QuietPassHeals`
(`PassHeals`), from one inductive invariant, `IInv`. Nothing that was read, queued or committed
is newer than the file (`Behind`). A pass has one content in hand, on its way to the queues
(`InHand`). A plan whose baseline still equals the fence is as new as all that is indexed, or was
overtaken; and so is a content in hand of a note whose fence was loaded (`PlansFenced`): this is
what the comparison in the transaction of a batch relies on, and `NeverRegresses` is a
consequence of it in each step. `AloneNeverRegresses` drops the exception for a single process:
there nothing is indexed or removed while a content is in hand, so no plan is overtaken
(`NotOvertaken`, kept beside `IInv`). A pass that is over owes no
bump, and while none is owed a cached result *and* the answer that a query under the present
generation has in hand agree with the index (`Fresh`; the cached result alone is not inductive).
For `PassHeals`, `CalmInv` follows a pass that nothing disturbed from its walk to its bump: for
each note, either the rows are right, or it is still to be queued, with what was loaded for it
unmoved (`Ready`), or the record and the plan in hand will land, with a baseline that no fence
has left behind. The assumptions are the types of
the constants.

*Left out.* Excluded, empty and quarantined notes, ACL identities, edges and densification,
duplicates, the streaming walk. A note's chunk rows are one value, so rows of two contents at
once are not represented. The two bulk loads are one step: the files are read after both, and
rows that moved in between differ from the first. A job reads its rows and its fence in one step,
the content before it; `PassNeverRegresses` says nothing of jobs.

## 7. Vault leadership

`VaultLeader.tla` models `…/runtime/vault-lock.ts`: the process that holds an exclusive
transaction on the vault's lock file indexes in the background; the epoch
(`leader-epoch.ts`) fences what an earlier one still commits; with the close of the process
(`shutdown-phase.ts`, `server-runtime.ts`).

*State.* `file` counts the inodes the lock file's name has had; `conn`, `txn`, `held` and
`streak` are a process's connection, its transaction, `heldIdentity` and the mismatches in a
row; `phase` is where its election stands; `run` the pass in flight with its epoch; `stage`
how far its close has come. `superseded` and `caught` are history.

*Actions.* `Open`, `BeginExclusive`, `Promote`, `BumpWrite`, `BumpRead` (an election, cut at
its awaits and statements); `Tick` (the keepalive, with its demotion), `DemoteDone` (the join
with its deadline); `BootPass`, `TimerPass`, `CommitBatch`, `EndPass`; `Shutdown`, `Close`,
`Exit`, `Boot`; and the faults `Crash`, `LoseTxn`, `Replace`, and a failing stat (`Promote`
and `Tick` with 0).

| Run | Shows |
|---|---|
| `VaultLeader` | No pass of a deposed leader commits, however late it notices (`NoLateBatch`); who gave the lock back has told its pass to stop, and who closed keeps nothing, not even a lock that a pending retry got behind `close()` (`StopsBeforeRelease`); when the faults are over the roles are sound and somebody leads (`Settles`); the newest leader completes a pass of its own (`CatchesUp`). |

*Observed, and left to the code.*

- Without the periodic reconcile (`Scheduled = FALSE`) `CatchesUp` fails: a leader loses its
  transaction, is demoted, its join times out, and it is promoted again while the aborted pass
  still runs; the catch-up joins that pass (`vault-lock.ts:487`) and nothing runs after it,
  where the comment at 101-103 says that the callback "Fires on EVERY promotion … so a
  promote→demote→re-promote cycle still runs the catch-up reconcile".
- `bumpLeaderEpoch` is two statements: two processes promoted at once, after a replaced file,
  may read the same epoch back. `superseded` counts a leader once it has read its epoch.
- A file that is replaced between the open and the stat of the promotion gives `heldIdentity`
  of a file the process did not open: the mismatch is never noticed, and two processes lead
  for good. The epoch fences the older.

*Bounds.* Two processes; two faults of any kind, so that one hits the recovery from another.
*Fairness.* Weak, for each process, of its election and keepalive, of its passes (they begin
when their timer fires, and end: requests have deadlines), and of its close. Nothing is
assumed of faults and boots; a closed process need not come back.

*Proofs* (`VaultLeaderProofs.tla`, for any set of processes and any number of faults).
`TypeCorrect`; `NoDeposedBatch` (`NoLateBatch`), `LockGivenBack` (`StopsBeforeRelease`).
The inductive invariant `IInv` adds two parts to the types. `Fenced`: a run's epoch is one the
table has reached, and that of a deposed run, and of what a deposed leader could still start,
is older than the table's; `NoLateBatch` alone is not inductive, since a deposed leader
starts passes until its keepalive tells it. `RoleInv`: only a leader has a run that was not
told to stop, and from the open to the end of the role there is a connection, so whoever has
no connection has an aborted run or none. The assumptions are the types of the constants and that
`Nobody` is no process.

*Left out.* The status file, the bootstrap barrier, the health report.

## 8. Refresh tokens

`Refresh.tla` models one grant, its code and one family of refresh tokens
(`…/auth/as-token-endpoint.ts`, `as-refresh-grant.ts`, `as-refresh.ts`, `as-grants.ts`,
`as-revoke.ts`). The successor of a token is derived from it, so that a retry can be given
the answer that was lost: tokens are numbered, the code is 0.

*State.* `row[k]` is the row of token `k`; `issued` and `outbox` are tables of `oauth.db`,
`revoked` the set in `auth.db`, another file: no transaction covers both. `req[r]` holds a
request's locals; `out[k]`, history, the access tokens that went out in answer to `k`.

*Actions.* `Begin` (what the look at the token decides), `Record`, `Commit` and `CommitFails`
(around the signature, an await), `Answer`, `Undo`, `Repeat`, `Retire`, `Abandon` (the client
goes away); `RevokeByClient`, `revokeGrant`, `Drain` (the outbox into the registry); `Tick`,
`ReplaceSecret`, `Sweep`.

| Run | Shows |
|---|---|
| `Refresh` | Every answer to a token carries the same access token, however many requests present it (`OneBearer`); once a revocation has committed, every good access token that left is in the outbox at least (`RevokedCovered`); while a token may be presented again its response is stored (`WindowHasResponse`). |

*Observed, and left to the code.* A slow first request that is overtaken by its own retry and
the next rotation is judged a reuse at its commit, and kills the family (the documented
policy). A retry after its access token expired is refused, not given a new one.

*Bounds.* Two requests, a code and three tokens, three access tokens; two events among ticks
and replaced secrets, which cross the access token's life (1), the grace (1) and the family's
life (2). Requests are symmetric. All numbers are used up, so deadlock is not checked.

*Proofs* (`RefreshProofs.tla`), for families, requests, lifetimes and a grace of any size:
`TypeCorrect`, `OneAccessToken` (`OneBearer`), `RevocationCovers` (`RevokedCovered`),
`RetryAnswered` (`WindowHasResponse`). `OneBearer` compares the access tokens that left; the
inductive `Bearers` counts those that a request has in hand and those stored for a retry too,
and says that a token with any of them is not rotated again (`Done`: its successor exists, or
the family is past its end). It rests on `Family` (rows are made in order, end together and are
revoked together), `Windows` (a response is cleared by the step that closes its window only),
`Requests` and `Minted` (who holds a jti holds a minted one, and `issued` knows all that are good).
`Covered` is `RevokedCovered` for the tokens still on their way. `RefreshAssumption` asks that
both lifetimes are positive, as the configuration's schema does
(`packages/shared/src/config/auth-as.schema.ts:161-178`): with a family that ends at once, its
sweep would forget that a token was answered.

*Left out.* The narrowing of scope and vault, clients without refresh tokens, the code's
expiry, `/oauth/revoke` of an access token, and the rest of `auth/`.

## 9. Write batch

`WriteBatch.tla` models `applyWriteBatch` (`…/vault/write-batch.ts`) and the moves of
`notes-io.ts` it is made of: moves and bulk edits land as a unit while an editor uses the
same files.

*State.* What a name holds is a number: nothing, what the batch was planned from, what it
writes, or one of the editor's saves. `aside` is what the batch holds beside a name; `n` and
`j` count the writes in place and the removals; `bad` and `kept` become the error. `native`
says whether a move is one rename, or a link and an unlink. `latest` and `touched` are history.

*Actions.* `Stage`, `Check`, `Rename`, `WritesDone`; `Remove`, `RemoveUnlink`, `Verify`,
`DropSources`; on a failure `PutBack`, `PutBackDone`, `Undo`, `UndoUnlink`, `Settle`,
`UndoDone`; the editor's `Save` and `Delete`. Any file operation may fail.

| Run | Shows |
|---|---|
| `WriteBatch` | The editor's last save is under its name or beside it (`NothingLost`); a batch that succeeds has landed whole, and one that fails leaves every file as planned but those its error names or the editor changed, and nothing of its own under a note's name (`LandsOrTells`). |

*Observed, and left to the code.*

- Without the native primitive a move is a link and an unlink (`notes-io.ts:497-526`), and a
  save by rename between the two is lost, where `write-batch.ts:142-150` speaks of a rename
  ("moved aside by a rename (atomic…"). `NothingLost` is about the native case; the run's other
  property covers both.
- When a source could not be put back *and* a write diverged, the error names the write only,
  where `write-batch.ts:217-218` says that the kept bytes are "named in the error".
  `LandsOrTells` excludes it (`bad # {}`).
- The gap between the last comparison of a note and its rename is the documented one: what
  was saved in it is replaced, and `latest` forgets it.

*Bounds.* Two batches: a move with a create, a rewrite and one source; two rewrites with two
sources. Four edits and two faults. The batch ends, so deadlock is not checked.

*Proofs* (`WriteBatchProofs.tla`), for batches of any length, edits and failures in any number:
`TypeCorrect`, `EditsKept` (`NothingLost`), `WholeOrNamed` (`LandsOrTells`). The inductive `Inv`
ties the counters to the phase (`Turn`) and then says of each file what its place in the batch
allows: a write in place holds the batch's bytes, or the editor's, until the rollback comes to it
(`Placed`); one that has not happened, or was undone, holds what it was planned from, or the
editor's, or is named (`Unplaced`); a source is under its name or aside before, during and after
its removal, and aside for good only when named (`Sources`); other names are left alone
(`Elsewhere`). `NothingLost` is part of it. The assumption on the batches is that a file is named
once, as a write or as a source; the callers see to it (`WriteBatch.tla` says where), and a batch
that writes a file twice would not be rolled back to what it was planned from.

*Left out.* A crash in the middle (the callers keep snapshots), directories made and removed,
temporary files that will not go, single-note writes.

## 10. Scheduler

`Scheduler.tla` models `…/scheduler/scheduler.ts`: one timer for all periodic jobs.

*State.* `job[j]` is the code's `JobState`, with `nextRunAt` counted from `virtualNow`, a
clock that only the timer moves, by the delay it was set with; `timers` are the armed timers
(at most one, which is a thing to check); `row[j]` the row of `job_schedule`; `running[j]` the
run bodies at work, apart from the flag that tells the code so. `since`, `streak` and `began`
are history.

*Actions.* `Start` (with `seedNextRun`), `Pass` (a unit of real time; a timer may fire late),
`Tick` (`tick` and the runs it begins, which end at once or go on), `Defer` (`tick` under load),
`Settle` (`onSuccess`, `onFailure`), `Stop`, `Exit` (the end of `stop`, or a crash).

| Run | Shows |
|---|---|
| `Scheduler` | A run begins only when no run of its job is at work and the pause that its failures call for has passed in real time since the last began or ended, over settlements that re-arm the timer, skips, deferrals, stops and crashes (`NeverEarly`); no wake-up is lost: a job whose run has ended runs again while the process serves, though another's run hangs (`Recurs`). |

*Observed, and left to the code.* `arm()` on a settlement starts the whole delay again, since
`virtualNow` has not moved since the last tick: beside long runs the schedule is slower than
real time, by at most one delay per settlement. Several processes write the same rows, by
job name: a restart is seeded by the last writer, so `NeverEarly` is about one process.

*Bounds.* A job that backs off twice before its cap, and one slower than the cap, in units of
the shorter interval. The count of failures stops where it no longer changes the interval
(`MaxFailures`), history and delays at the longest interval (`Longest`, not below any interval,
the cap or the recheck).
*Fairness.* Weak of time; strong of a tick that is not deferred, as a deferral that never
ends starves the jobs by design. None of runs: they may hang.

*Proofs* (`SchedulerProofs.tla`), for any jobs and intervals: `TypeCorrect` (one timer, one run of
a job) and `PauseKept` (`NeverEarly`). What has to be inductive is where the pause is kept while
nothing runs: in the job's due time and in what the timer has left to the time it will find the
job due (`Due`), and, for the next process, in the row (`RowDue`); with it, that the timer is set
for no later than the first job (`Armed`), that the failures the process and the row count are
the true ones (`Counts`), and that `inFlight` tells the truth (`Flights`).

*Left out.* Priorities and jitter, writes of the row that fail (best effort, reported).

## 11. Not modelled

- **Rate limiting, the watcher**: within reach, and next in the plan. Dispatch takes the
  limiter's verdict as a choice, the coordinator the watcher's calls.
- **Git sync, workspace sessions, memory and provenance, capture, bridge**: they have state of
  their own, and less of it depends on the order of steps; later candidates (see the notes in
  `PROJECT.json`).
- **Search, ranking, embeddings, clustering, ACL decisions, tools' inputs and outputs,
  configuration, CLI, evaluation harnesses, plugin, metrics**: most of the lines of the
  repository. They compute or render from data; what a model could say of them is what their
  unit tests say.
- **Transport**: framing; its cancellations arrive in Dispatch as aborts.
- **SQLite, the file system, timers**: taken as the code relies on them (a statement, and a
  transaction, atomic; a rename atomic; a timer never early).

## 12. What stays with the model checker

Liveness (`Served`, `Drains`, `Settles`, `CatchesUp`, `Recurs`) and ENABLED are out of the
prover's reach, as is induction over data. Every other property of the passing runs is stated by
a theorem. Where a run makes an assumption, its theorem has it as a hypothesis, or is about a
property that names it: `Alone` (`DispatchOnce`), `OneProcess` (`JobQueueServed`), no lease that
lapsed under a live run (`ClassCap`, `NoOverlap`), the native move (`NothingLost`). Outside these
the sections above say what is known to fail.
