------------------------------ MODULE JobQueue ------------------------------
(***************************************************************************)
(* The durable job queue (scheduler/job-queue.ts) and those who use it:    *)
(* the runner tick of each process (job-runner.ts), the runs a tool call   *)
(* starts at once (task-call-runner.ts), the request that waits for its    *)
(* task (mcp/task-budget.ts), the cancel path (mcp/tasks.ts), and the      *)
(* enqueuer of period-keyed work (runtime/plane-wiring.ts).                *)
(*                                                                         *)
(* The jobs table is shared by the processes.  Each statement is atomic,   *)
(* and so is a claim, which runs in BEGIN IMMEDIATE.  Time appears as what *)
(* it does: a lease lapses, a backoff comes due.  A lease token is fresh   *)
(* for each claim; the attempt the claim counts names it.                  *)
(***************************************************************************)
EXTENDS Integers, FiniteSets

CONSTANTS
  Proc,         \* server processes
  Runner,       \* the serial runner of a process
  Starter,      \* slots (a bound) for runs started outside the runner's tick
  Home,         \* Home[w]: the process of runner or starter w
  Task,         \* ids of task-augmented calls
  Keyed,        \* ids of period-keyed rows
  Key,          \* Key[k]: the idempotency key of keyed row k
  MaxAttempts,  \* max_attempts of keyed rows; a task has 1
  ClassLimit,   \* classLimits of the keyed rows' class
  Replace,      \* the enqueue option: "never", "failed" or "terminal"
  MaxFaults,    \* bound on crashes and shutdowns
  MaxLapses     \* bound on leases that lapse under a live run

Job == Task \cup Keyed
Worker == Runner \cup Starter

ASSUME JobQueueAssumption ==
  /\ Task \cup Keyed # {} /\ Task \cap Keyed = {} /\ Runner \cap Starter = {}
  /\ Home \in [Worker -> Proc] /\ Proc \cap {"none", "handle", "answered"} = {}
  /\ MaxAttempts \in Nat \ {0} /\ ClassLimit \in Nat
  /\ Replace \in {"never", "failed", "terminal"}
  /\ MaxFaults \in Nat /\ MaxLapses \in Nat
  /\ IsFiniteSet(Keyed)

VARIABLES
  row,      \* row[j]: the row of job j in the jobs table
  run,      \* run[w]: the run in worker w (runJob's locals)
  wait,     \* wait[t]: who waits for task t
  busy,     \* busy[p]: what process p does between two statements, no await between
  stopped,  \* the processes that are shutting down
  faults,   \* crashes and shutdowns so far
  lapses,   \* leases that lapsed under a live run
  finished  \* history: keyed rows that completed

vars == <<row, run, wait, busy, stopped, faults, lapses, finished>>

-----------------------------------------------------------------------------
(* Data.                                                                   *)

NoLease == <<>>
NoOutcome == [tag |-> "none", by |-> 0]

\* newLeaseToken: one token per claim.  TokenOfProcess is the shared serve:<pid>.
TokenOfProcess(w, n) == <<Home[w], 0>>

Token(w, n) == <<Home[w], n>>

State == {"absent", "queued", "running", "retrying", "complete", "failed", "gone"}
Active == {"queued", "running", "retrying"}
Terminal == {"complete", "failed"}

Row == [state: State, attempt: Nat, due: BOOLEAN, owner: (Proc \X Nat) \cup {NoLease},
        alive: BOOLEAN, cancel: BOOLEAN,
        outcome: [tag: {"none", "ok", "error"}, by: Nat]]

Phase == {"idle", "claimed", "handler", "recorded", "threw"}

Run == [phase: Phase, job: Job, attempt: Nat, aborted: BOOLEAN, lost: BOOLEAN]

Idle(r) == [r EXCEPT !.phase = "idle", !.attempt = 0, !.aborted = FALSE, !.lost = FALSE]

AtRest == [at |-> "free", job |-> CHOOSE j \in Job : TRUE]

Queued == [state |-> "queued", attempt |-> 0, due |-> FALSE, owner |-> NoLease,
           alive |-> FALSE, cancel |-> FALSE, outcome |-> NoOutcome]

Max(j) == IF j \in Task THEN 1 ELSE MaxAttempts

\* No stretch of p is under way that other callbacks of p cannot enter: no
\* synchronous code, and no chain of promises from a handler's end to runJob's.
Free(p) ==
  /\ busy[p].at = "free"
  /\ \A w \in Worker : Home[w] = p => run[w].phase \in {"idle", "handler"}

Owns(w) ==
  LET r == row[run[w].job] IN
  r.state = "running" /\ r.owner = Token(w, run[w].attempt)

\* announce: the listeners of this process hear of the terminal rows in S.
Announce(p, S) == wait' = [t \in Task |-> IF t \in S /\ wait[t] = p THEN "answered" ELSE wait[t]]

-----------------------------------------------------------------------------
(* enqueue, for the plane's period keys: read, delete, insert.             *)

Holder(key) == {k \in Keyed : Key[k] = key /\ row[k].state \notin {"absent", "gone"}}

\* THE-723: replaceIfTerminal in the place of replaceIfFailed.
ReplaceFinished(r) == Replace # "never" /\ r.state \in Terminal

Replaceable(r) ==
  \/ Replace = "terminal" /\ r.state \in Terminal
  \/ Replace = "failed" /\ r.state = "failed"

EnqueueRead(p) ==
  /\ Free(p) /\ p \notin stopped
  /\ \E k \in Keyed :
       /\ row[k].state = "absent"
       /\ LET old == Holder(Key[k]) IN
          IF old = {} THEN busy' = [busy EXCEPT ![p] = [at |-> "insert", job |-> k]]
          ELSE \E o \in old : /\ Replaceable(row[o])
                              /\ busy' = [busy EXCEPT ![p] = [at |-> "delete", job |-> o]]
  /\ UNCHANGED <<row, run, wait, stopped, faults, lapses, finished>>

EnqueueDelete(p) ==
  /\ busy[p].at = "delete"
  /\ row' = [row EXCEPT ![busy[p].job] =
               IF @.state \in {"absent", "gone"} THEN @ ELSE [Queued EXCEPT !.state = "gone"]]
  /\ IF \E k \in Keyed : row[k].state = "absent" /\ Key[k] = Key[busy[p].job]
     THEN \E k \in Keyed : /\ row[k].state = "absent" /\ Key[k] = Key[busy[p].job]
                           /\ busy' = [busy EXCEPT ![p] = [at |-> "insert", job |-> k]]
     ELSE busy' = [busy EXCEPT ![p] = AtRest]
  /\ UNCHANGED <<run, wait, stopped, faults, lapses, finished>>

\* The unique index refuses the loser of a race.
EnqueueInsert(p) ==
  /\ busy[p].at = "insert"
  /\ LET k == busy[p].job IN
     row' = [row EXCEPT ![k] = IF @.state = "absent" /\ Holder(Key[k]) = {} THEN Queued ELSE @]
  /\ busy' = [busy EXCEPT ![p] = AtRest]
  /\ UNCHANGED <<run, wait, stopped, faults, lapses, finished>>

-----------------------------------------------------------------------------
(* A task-augmented call: enqueue, start, wait, and cancel.                *)

\* A client that polls has its handle at once; any other waits. The slots of Starter bound the
\* calls that start their task at once.
Offload(t, p) ==
  /\ Free(p) /\ row[t].state = "absent"
  /\ row' = [row EXCEPT ![t] = Queued]
  /\ \/ /\ wait' = [wait EXCEPT ![t] = "handle"]
        /\ UNCHANGED busy
     \/ /\ \E w \in Starter : Home[w] = p /\ run[w].phase = "idle"
        /\ wait' = [wait EXCEPT ![t] = p]
        /\ busy' = [busy EXCEPT ![p] = [at |-> "start", job |-> t]]
  /\ UNCHANGED <<run, stopped, faults, lapses, finished>>

\* The budget runs out, or the client gives the call up, which cancels the task.
BudgetSpent(t) ==
  /\ wait[t] \in Proc /\ Free(wait[t])
  /\ wait' = [wait EXCEPT ![t] = "handle"]
  /\ UNCHANGED <<row, run, busy, stopped, faults, lapses, finished>>

requestCancel(t) ==
  row' = [row EXCEPT ![t] = IF @.state \in {"absent", "gone"} THEN @ ELSE [@ EXCEPT !.cancel = TRUE]]

CallAborted(t) ==
  /\ wait[t] \in Proc /\ Free(wait[t])
  /\ requestCancel(t)
  /\ wait' = [wait EXCEPT ![t] = "handle"]
  /\ UNCHANGED <<run, busy, stopped, faults, lapses, finished>>

CancelOver(t, p) ==
  /\ Free(p) /\ wait[t] # "none"
  /\ ~row[t].cancel
  /\ busy' = [busy EXCEPT ![p] = [at |-> "cancel", job |-> t]]
  /\ UNCHANGED <<row, run, wait, stopped, faults, lapses, finished>>

\* cancelOwnedTask: a task that is over is left alone.  To ask again changes
\* nothing.
CancelRead(t, p) ==
  /\ Free(p) /\ wait[t] # "none"
  /\ row[t].state \in Active /\ ~row[t].cancel
  /\ busy' = [busy EXCEPT ![p] = [at |-> "cancel", job |-> t]]
  /\ UNCHANGED <<row, run, wait, stopped, faults, lapses, finished>>

CancelWrite(p) ==
  /\ busy[p].at = "cancel"
  /\ requestCancel(busy[p].job)
  /\ busy' = [busy EXCEPT ![p] = AtRest]
  /\ UNCHANGED <<run, wait, stopped, faults, lapses, finished>>

-----------------------------------------------------------------------------
(* claim and claimById.                                                    *)

Unstarted(r) == r.state \in {"queued", "retrying"} \/ (r.state = "running" /\ ~r.alive)

DeadAsCancelled(r) ==
  [r EXCEPT !.state = "cancelled", !.owner = NoLease, !.alive = FALSE, !.due = FALSE]

Dead(r) == [r EXCEPT !.state = "failed", !.owner = NoLease, !.alive = FALSE, !.due = FALSE]

\* finalizeCancelled, over the jobs of S.
Cancelled(S) == {j \in S : row[j].cancel /\ Unstarted(row[j])}

Finalize(S) == [j \in Job |-> IF j \in Cancelled(S) THEN Dead(row[j]) ELSE row[j]]

ClaimUndue(r) == r.state \in Active

ClaimUnleased(r) == r.state = "queued" \/ (r.state = "retrying" /\ r.due)

Claimable(r) ==
  \/ r.state = "queued"
  \/ r.state = "retrying" /\ r.due
  \/ r.state = "running" /\ ~r.alive

Crowd == {k \in Keyed : row[k].state = "running" /\ row[k].alive}

NoLimit(j) == TRUE

UnderLimit(j) == j \in Keyed => Cardinality(Crowd) < ClassLimit

Leased(r, w) ==
  [r EXCEPT !.state = "running", !.attempt = @ + 1, !.owner = Token(w, r.attempt + 1), !.alive = TRUE]

Take(w, j, S) ==
  /\ row' = [Finalize(S) EXCEPT ![j] = Leased(@, w)]
  /\ run' = [run EXCEPT ![w] = [phase |-> "claimed", job |-> j, attempt |-> row[j].attempt + 1,
                                aborted |-> FALSE, lost |-> FALSE]]

Claim(w) ==
  /\ w \in Runner /\ run[w].phase = "idle"
  /\ Free(Home[w]) /\ Home[w] \notin stopped
  /\ LET due == {j \in Job \ Cancelled(Job) : Claimable(row[j]) /\ UnderLimit(j)} IN
     \/ \E j \in due : Take(w, j, Job)
     \/ /\ due = {} /\ Cancelled(Job) # {}
        /\ row' = Finalize(Job)
        /\ UNCHANGED run
  /\ Announce(Home[w], Cancelled(Job))
  /\ UNCHANGED <<busy, stopped, faults, lapses, finished>>

\* startTask, and the waiter's first look at the row.
StartTask(p) ==
  /\ busy[p].at = "start"
  /\ LET t == busy[p].job IN
     IF p \in stopped
     THEN UNCHANGED <<row, run, wait>>
     ELSE \/ /\ row[t].state = "queued" /\ t \notin Cancelled({t})
             /\ \E w \in Starter : Home[w] = p /\ run[w].phase = "idle" /\ Take(w, t, {t})
             /\ UNCHANGED wait
          \/ /\ row[t].state # "queued" \/ t \in Cancelled({t})
             /\ row' = Finalize({t})
             /\ wait' = [wait EXCEPT ![t] = IF row'[t].state \in Terminal THEN "answered" ELSE @]
             /\ UNCHANGED run
  /\ busy' = [busy EXCEPT ![p] = AtRest]
  /\ UNCHANGED <<stopped, faults, lapses, finished>>

-----------------------------------------------------------------------------
(* runJob.                                                                 *)

Settle(w, r) == row' = [row EXCEPT ![run[w].job] = r]

EndRun(w) == run' = [run EXCEPT ![w] = Idle(@)]

AnnounceRun(w) ==
  Announce(Home[w], IF row'[run[w].job].state \in Terminal THEN {run[w].job} ELSE {})

fail(w, terminal) ==
  LET j == run[w].job
      r == row[j] IN
  /\ Settle(w, IF ~Owns(w) THEN r
               ELSE IF terminal \/ r.attempt >= Max(j) THEN Dead(r)
               ELSE [Dead(r) EXCEPT !.state = "retrying"])
  /\ IF Owns(w) THEN AnnounceRun(w) ELSE UNCHANGED wait

\* Cancelled before it started, or the handler is invoked.
Begin(w) ==
  /\ run[w].phase = "claimed"
  /\ IF row[run[w].job].cancel
     THEN fail(w, TRUE) /\ EndRun(w)
     ELSE /\ run' = [run EXCEPT ![w].phase = "handler"]
          /\ UNCHANGED <<row, wait>>
  /\ UNCHANGED <<busy, stopped, faults, lapses, finished>>

InHandler(w) == run[w].phase = "handler" /\ Free(Home[w])

\* The heartbeat: poll the cancel, then renew the lease.
Beat(w) ==
  /\ InHandler(w)
  /\ IF row[run[w].job].cancel
     THEN run' = [run EXCEPT ![w].aborted = TRUE] /\ UNCHANGED row
     ELSE IF Owns(w)
     THEN Settle(w, [row[run[w].job] EXCEPT !.alive = TRUE]) /\ UNCHANGED run
     ELSE run' = [run EXCEPT ![w].aborted = TRUE, ![w].lost = TRUE] /\ UNCHANGED row
  /\ UNCHANGED <<wait, busy, stopped, faults, lapses, finished>>

\* The handler answers: a task records its outcome first, and a write that
\* did not land throws.
recordUnguarded(w, tag) ==
  Settle(w, [row[run[w].job] EXCEPT !.outcome = [tag |-> tag, by |-> run[w].attempt]])

recordOutcome(w, tag) ==
  Settle(w, IF Owns(w)
            THEN [row[run[w].job] EXCEPT !.outcome = [tag |-> tag, by |-> run[w].attempt]]
            ELSE row[run[w].job])

Answer(w) ==
  /\ InHandler(w)
  /\ IF run[w].job \in Task THEN recordOutcome(w, "ok") ELSE UNCHANGED row
  /\ run' = [run EXCEPT ![w].phase = IF run[w].job \in Task /\ ~Owns(w) THEN "threw" ELSE "recorded"]
  /\ UNCHANGED <<wait, busy, stopped, faults, lapses, finished>>

ToolError(w) ==
  /\ InHandler(w) /\ run[w].job \in Task
  /\ recordOutcome(w, "error")
  /\ run' = [run EXCEPT ![w].phase = "threw"]
  /\ UNCHANGED <<wait, busy, stopped, faults, lapses, finished>>

Throw(w) ==
  /\ InHandler(w)
  /\ run' = [run EXCEPT ![w].phase = "threw"]
  /\ UNCHANGED <<row, wait, busy, stopped, faults, lapses, finished>>

Complete(w) ==
  /\ run[w].phase = "recorded"
  /\ LET j == run[w].job IN
     /\ Settle(w, IF Owns(w)
                  THEN [row[j] EXCEPT !.state = "complete", !.owner = NoLease, !.alive = FALSE]
                  ELSE row[j])
     /\ finished' = IF Owns(w) /\ j \in Keyed THEN finished \cup {j} ELSE finished
     /\ IF Owns(w) THEN AnnounceRun(w) ELSE UNCHANGED wait
  /\ EndRun(w)
  /\ UNCHANGED <<busy, stopped, faults, lapses>>

\* The catch: a lost lease and a shutdown leave the row as it is.
Catch(w) ==
  /\ run[w].phase = "threw"
  /\ IF \/ run[w].lost
        \/ w \in Starter /\ Home[w] \in stopped /\ ~row[run[w].job].cancel
     THEN UNCHANGED <<row, wait>>
     ELSE fail(w, run[w].aborted \/ (w \in Starter /\ Home[w] \in stopped))
  /\ EndRun(w)
  /\ UNCHANGED <<busy, stopped, faults, lapses, finished>>

-----------------------------------------------------------------------------
(* The environment.                                                        *)

Held(j) == \E w \in Worker : run[w].phase # "idle" /\ run[w].job = j /\ Owns(w)

\* lease_expires_at passes.  A run that sees the cancel no longer renews.
Lapse(j) ==
  /\ row[j].state = "running" /\ row[j].alive
  /\ IF Held(j) /\ ~row[j].cancel
     THEN lapses < MaxLapses /\ lapses' = lapses + 1
     ELSE UNCHANGED lapses
  /\ row' = [row EXCEPT ![j].alive = FALSE]
  /\ UNCHANGED <<run, wait, busy, stopped, faults, finished>>

\* next_attempt_at passes.
ComeDue(j) ==
  /\ row[j].state = "retrying" /\ ~row[j].due
  /\ row' = [row EXCEPT ![j].due = TRUE]
  /\ UNCHANGED <<run, wait, busy, stopped, faults, lapses, finished>>

\* sweepJobs: a row's retention ends.  That of complete rows outlives the
\* period their key names.
Sweep(j) ==
  /\ row[j].state \in Terminal
  /\ j \in Keyed => row[j].state = "failed"
  /\ row' = [row EXCEPT ![j] = [Queued EXCEPT !.state = "gone"]]
  /\ UNCHANGED <<run, wait, busy, stopped, faults, lapses, finished>>

\* drain: the runs of the starters are aborted.
Stop(p) ==
  /\ p \notin stopped /\ faults < MaxFaults
  /\ stopped' = stopped \cup {p}
  /\ faults' = faults + 1
  /\ UNCHANGED <<row, run, wait, busy, lapses, finished>>

\* The process dies, or ends its shutdown, and is started again.
Restart(p) ==
  /\ IF p \in stopped THEN UNCHANGED faults ELSE faults < MaxFaults /\ faults' = faults + 1
  /\ stopped' = stopped \ {p}
  /\ run' = [w \in Worker |-> IF Home[w] = p THEN Idle(run[w]) ELSE run[w]]
  /\ wait' = [t \in Task |-> IF wait[t] = p THEN "handle" ELSE wait[t]]
  /\ busy' = [busy EXCEPT ![p] = AtRest]
  /\ UNCHANGED <<row, lapses, finished>>

-----------------------------------------------------------------------------
Init ==
  /\ row = [j \in Job |-> [Queued EXCEPT !.state = "absent"]]
  /\ run = [w \in Worker |-> [phase |-> "idle", job |-> CHOOSE j \in Job : TRUE, attempt |-> 0,
                              aborted |-> FALSE, lost |-> FALSE]]
  /\ wait = [t \in Task |-> "none"]
  /\ busy = [p \in Proc |-> AtRest]
  /\ stopped = {}
  /\ faults = 0 /\ lapses = 0
  /\ finished = {}

\* The statements that end a stretch.
Proceed(p) == EnqueueDelete(p) \/ EnqueueInsert(p) \/ CancelWrite(p) \/ StartTask(p)

Settling(w) == Begin(w) \/ Answer(w) \/ ToolError(w) \/ Throw(w) \/ Complete(w) \/ Catch(w)

Next ==
  \/ \E p \in Proc : EnqueueRead(p) \/ Proceed(p) \/ Stop(p) \/ Restart(p)
  \/ \E t \in Task, p \in Proc : Offload(t, p) \/ CancelRead(t, p)
  \/ \E t \in Task : BudgetSpent(t) \/ CallAborted(t)
  \/ \E w \in Worker : Claim(w) \/ Beat(w) \/ Settling(w)
  \/ \E j \in Job : Lapse(j) \/ ComeDue(j) \/ Sweep(j)

Spec == Init /\ [][Next]_vars

(* The loop of each process turns, handlers end, time passes, and a        *)
(* process that was told to stop stops.                                    *)
Fairness ==
  /\ \A p \in Proc : WF_vars(Proceed(p)) /\ WF_vars(p \in stopped /\ Restart(p))
  /\ \A w \in Worker : WF_vars(Claim(w)) /\ WF_vars(Settling(w))
  /\ \A j \in Job : WF_vars(Lapse(j)) /\ WF_vars(ComeDue(j))

FairSpec == Spec /\ Fairness

-----------------------------------------------------------------------------
(* Properties.                                                             *)

TypeOK ==
  /\ row \in [Job -> Row]
  /\ run \in [Worker -> Run]
  /\ wait \in [Task -> Proc \cup {"none", "handle", "answered"}]
  /\ busy \in [Proc -> [at: {"free", "insert", "delete", "start", "cancel"}, job: Job]]
  /\ stopped \subseteq Proc
  /\ faults \in Nat /\ lapses \in Nat
  /\ finished \subseteq Keyed

(* recordOutcome, complete: a task that reads completed has its result,    *)
(* and it is the result of the attempt that completed it.                  *)
CompletedHasResult ==
  \A t \in Task : row[t].state = "complete"
    => row[t].outcome = [tag |-> "ok", by |-> row[t].attempt]

(* runJob: a run whose job has been claimed again leaves the row alone,    *)
(* whatever it still does.                                                 *)
Silent ==
  \A w \in Worker :
    run[w].phase # "idle" /\ run'[w] # run[w] /\ run[w].attempt < row[run[w].job].attempt
      => row'[run[w].job] = row[run[w].job]

SupersededSilent == [][Silent]_vars

(* claim, heartbeat: while runs renew in time, a job is in one worker only,*)
(* cancelled or shut down or not.                                          *)
NoOverlap ==
  lapses = 0 => \A v, w \in Worker :
    v # w /\ run[v].phase # "idle" /\ run[w].phase # "idle" => run[v].job # run[w].job

(* ClaimOptions.classLimits: at most so many jobs of the class hold a live *)
(* lease.                                                                  *)
ClassCap == Cardinality(Crowd) <= ClassLimit

(* plane-wiring.ts: a period key's work succeeds once, whatever fails, is  *)
(* enqueued again, or races.                                               *)
OncePerPeriod ==
  Replace # "terminal" => \A j, k \in finished : Key[j] = Key[k] => j = k

(* claim, runJob: a job that waits, retries or was left by a dead process  *)
(* is carried on until it completes or fails.                              *)
Served == \A j \in Job : row[j].state \in Active ~> row[j].state \notin Active

-----------------------------------------------------------------------------
(* toMcpTask: what a client sees of the row.                               *)

StatusOf(r) ==
  CASE r.state \in {"absent", "gone"} -> "unknown"
    [] r.state \in Active             -> "working"
    [] r.state = "complete"           -> "completed"
    [] r.state = "failed"             -> IF r.cancel THEN "cancelled" ELSE "failed"

ShownOf(r) ==
  CASE StatusOf(r) = "completed" /\ r.outcome.tag = "ok" -> "result"
    [] StatusOf(r) = "failed" /\ r.outcome.tag = "error" -> "error"
    [] OTHER                                             -> "nothing"

Life == INSTANCE TaskLife WITH status <- [t \in Task |-> StatusOf(row[t])],
                               shown <- [t \in Task |-> ShownOf(row[t])]

(* mcp/tasks.ts: a task ends once and keeps its status and its answer.     *)
TaskLifeImplemented == Life!Spec

=============================================================================
