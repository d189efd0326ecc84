------------------------------ MODULE Scheduler ------------------------------
(***************************************************************************)
(* The background scheduler: one timer for all periodic jobs, a clock that *)
(* only the timer moves, backoff after failures, deferral under load, and  *)
(* a row per job that outlives the process.                                *)
(*                                                                         *)
(* Source: scheduler/scheduler.ts, wired in runtime/scheduler-wiring.ts.   *)
(*                                                                         *)
(* Times are relative.  A job's due counts from virtualNow, which moves    *)
(* when a timer fires and by the delay it was set with; a timer's left and *)
(* the row's next count from the real present, which Pass moves.           *)
(***************************************************************************)
EXTENDS Integers

CONSTANTS
  Job,          \* the registered jobs
  Interval,     \* Interval[j]: intervalMs, in units of time
  MaxBackoff,   \* maxBackoffMs
  Recheck,      \* deferralRecheckMs
  Deferring,    \* eventLoopDeferMs is set
  MaxFailures,  \* bound: a longer streak backs off no further
  Longest       \* bound: a span as long as any pause; no time beyond it is told apart

Positive == Nat \ {0}

ASSUME SchedulerAssumption ==
  /\ Interval \in [Job -> Positive] /\ MaxBackoff \in Positive /\ Recheck \in Positive
  /\ Deferring \in BOOLEAN /\ MaxFailures \in Nat
  /\ \A j \in Job : Interval[j] * 2 ^ MaxFailures >= MaxBackoff
  /\ Longest \in Nat /\ MaxBackoff <= Longest /\ Recheck <= Longest
  /\ \A j \in Job : Interval[j] <= Longest

VARIABLES
  status,   \* "up", "stopping" (stop() was called) or "down"
  job,      \* job[j]: nextRunAt, consecutiveFailures, and whether inFlight is set
  timers,   \* the armed timers
  row,      \* row[j]: the row of job_schedule, or NoRow
  running,  \* running[j]: the run bodies of j at work
  since,    \* history: the time since j last began or ended a run, up to Longest
  streak,   \* history: the failures of j since its last success
  began     \* history: the jobs that the last step began to run

hist == <<since, streak, began>>
vars == <<status, job, timers, row, running, hist>>

Smaller(a, b) == IF a <= b THEN a ELSE b
Larger(a, b) == IF a >= b THEN a ELSE b

NoRow == [next |-> 0, failures |-> -1]

TypeOK ==
  /\ status \in {"up", "stopping", "down"}
  /\ job \in [Job -> [due : 0 .. Longest, failures : 0 .. MaxFailures, inFlight : BOOLEAN]]
  /\ timers \subseteq [delay : 0 .. Longest, left : 0 .. Longest]
  /\ \A s, t \in timers : s = t /\ t.left <= t.delay
  /\ row \in [Job -> [next : 0 .. Longest, failures : 0 .. MaxFailures] \cup {NoRow}]
  /\ running \in [Job -> 0 .. 1]
  /\ since \in [Job -> 0 .. Longest] /\ streak \in [Job -> 0 .. MaxFailures]
  /\ began \subseteq Job

------------------------------------------------------------------------------
(* The schedule.                                                           *)

\* Mutant: a backoff without its cap.
Uncapped(j, f) == Interval[j] * 2 ^ f

\* The interval before the next run of j after f failures: the cap bounds the
\* backoff, never the interval itself.
effInterval(j, f) == Larger(Smaller(Interval[j] * 2 ^ f, MaxBackoff), Interval[j])

More(f) == Smaller(f + 1, MaxFailures)

\* One timer, for the job that is due first, with the whole distance from virtualNow.
Earliest(js) ==
  {[delay |-> js[j].due, left |-> js[j].due] : j \in {k \in Job : \A l \in Job : js[k].due <= js[l].due}}

\* Mutant: the pending timer is not cleared before another is armed.
ArmBesides(js) == IF status = "up" THEN timers \cup Earliest(js) ELSE {}

\* Mutant: a tick leaves the arming to the settlement of the run it began.
ArmWhenIdle(js) ==
  IF status = "up" /\ \A j \in Job : ~ js[j].inFlight THEN Earliest(js) ELSE {}

\* arm(): whatever was armed is cleared; nothing is armed once stop() was called.
arm(js) == IF status = "up" THEN Earliest(js) ELSE {}

\* seedNextRun of start(): the row's next run and failures, if there is a row.
Seed(j) ==
  [due |-> IF row[j] = NoRow THEN effInterval(j, 0) ELSE row[j].next,
   failures |-> IF row[j] = NoRow THEN 0 ELSE row[j].failures,
   inFlight |-> FALSE]

\* How many failures a run leaves that ends this way.
Failures(f, end) == CASE end = "ok" -> 0 [] end = "throws" -> More(f) [] OTHER -> f

\* The job after a run that began, or ended, in this step; end is "async" when
\* the run goes on.
Run(j, end) ==
  LET f == Failures(job[j].failures, end)
  IN [due |-> effInterval(j, f), failures |-> f, inFlight |-> end = "async"]

\* persistRunStart leaves the failures alone (a fresh row has none); persist of
\* onSuccess and onFailure writes both.
Persisted(j, end) ==
  LET f == Failures(job[j].failures, end)
  IN [next |-> effInterval(j, f),
      failures |-> IF end # "async" THEN f ELSE Larger(row[j].failures, 0)]

------------------------------------------------------------------------------
Init ==
  /\ status = "down"
  /\ job = [j \in Job |-> [due |-> 0, failures |-> 0, inFlight |-> FALSE]]
  /\ timers = {} /\ row = [j \in Job |-> NoRow] /\ running = [j \in Job |-> 0]
  /\ since = [j \in Job |-> Longest] /\ streak = [j \in Job |-> 0] /\ began = {}

\* start(), in a new process on the same cache.db.
Start ==
  /\ status = "down"
  /\ status' = "up" /\ job' = [j \in Job |-> Seed(j)] /\ began' = {}
  /\ timers' = Earliest([j \in Job |-> Seed(j)])
  /\ UNCHANGED <<row, running, since, streak>>

\* A unit of real time.  A timer that is due may fire late.
Pass ==
  /\ timers' = {[t EXCEPT !.left = Larger(@ - 1, 0)] : t \in timers}
  /\ row' = [j \in Job |-> [row[j] EXCEPT !.next = Larger(@ - 1, 0)]]
  /\ since' = [j \in Job |-> Smaller(since[j] + 1, Longest)]
  /\ began' = {}
  /\ UNCHANGED <<status, job, running, streak>>

\* The jobs once t has moved virtualNow, and those that are due then.
Moved(t) == [j \in Job |-> [job[j] EXCEPT !.due = @ - t.delay]]
selectDue(t) == {j \in Job : Moved(t)[j].due <= 0}

Fires(t) == status = "up" /\ t.left = 0

\* tick(): a due job in flight is skipped, any other due job is run.
Tick ==
  \E t \in timers : \E end \in [Job -> {"async", "ok", "throws"}] :
    LET due == selectDue(t)
        idle == {j \in due : ~ job[j].inFlight}
        js == [j \in Job |->
                 IF j \in idle THEN Run(j, end[j])
                 ELSE IF j \in due THEN [job[j] EXCEPT !.due = effInterval(j, job[j].failures)]
                 ELSE Moved(t)[j]]
    IN /\ Fires(t)
       /\ \A j \in Job \ idle : end[j] = "ok"
       /\ job' = js /\ timers' = arm(js)
       /\ row' = [j \in Job |-> IF j \in idle THEN Persisted(j, end[j]) ELSE row[j]]
       /\ running' = [j \in Job |-> IF j \in idle /\ end[j] = "async" THEN running[j] + 1
                                                                      ELSE running[j]]
       /\ since' = [j \in Job |-> IF j \in idle THEN 0 ELSE since[j]]
       /\ streak' = [j \in Job |-> IF j \in idle THEN Failures(streak[j], end[j]) ELSE streak[j]]
       /\ began' = idle
       /\ UNCHANGED status

\* tick() while the event loop is slow: what is due is put off, in flight or not.
Defer ==
  \E t \in timers :
    LET js == [j \in Job |-> IF j \in selectDue(t) THEN [job[j] EXCEPT !.due = Recheck]
                                                  ELSE Moved(t)[j]]
    IN /\ Deferring /\ Fires(t) /\ selectDue(t) # {}
       /\ job' = js /\ timers' = arm(js) /\ began' = {}
       /\ UNCHANGED <<status, row, running, since, streak>>

\* onSuccess or onFailure of a run that went on: a new due from virtualNow, and
\* the timer armed anew.
Settle(j) ==
  \E end \in {"ok", "throws"} :
    /\ running[j] > 0
    /\ running' = [running EXCEPT ![j] = @ - 1]
    /\ job' = [job EXCEPT ![j] = Run(j, end)]
    /\ timers' = arm(job')
    /\ row' = [row EXCEPT ![j] = Persisted(j, end)]
    /\ since' = [since EXCEPT ![j] = 0]
    /\ streak' = [streak EXCEPT ![j] = Failures(@, end)]
    /\ began' = {}
    /\ UNCHANGED status

\* stop(): the timer is cleared, runs are told to abort.  They may settle, until
\* Exit ends the process: they have settled, the deadline has passed, or it crashed.
Stop ==
  /\ status = "up" /\ status' = "stopping" /\ timers' = {} /\ began' = {}
  /\ UNCHANGED <<job, row, running, since, streak>>

Exit ==
  /\ status # "down" /\ status' = "down" /\ timers' = {} /\ began' = {}
  /\ running' = [j \in Job |-> 0]
  /\ job' = [j \in Job |-> [due |-> 0, failures |-> 0, inFlight |-> FALSE]]
  /\ UNCHANGED <<row, since, streak>>

Next ==
  \/ Start \/ Pass \/ Tick \/ Defer \/ Stop \/ Exit
  \/ \E j \in Job : Settle(j)

\* Time passes and timers fire; the event loop is not slow at every recheck for
\* ever.  Nothing is assumed of runs, which may hang, nor of stops and starts.
Fairness == WF_vars(Pass) /\ SF_vars(Tick)

Spec == Init /\ [][Next]_vars /\ Fairness

------------------------------------------------------------------------------
(* Properties.                                                             *)

\* The pause a job is promised after f failures in a row.
Pause(j, f) == IF Interval[j] >= MaxBackoff THEN Interval[j]
               ELSE Smaller(Interval[j] * 2 ^ f, MaxBackoff)

(* The header of scheduler.ts (single flight, durable backoff): a run of a *)
(* job begins only when none is at work, and when the pause that its       *)
(* failures call for has gone by since its last run began or ended, across *)
(* settlements that re-arm the timer, skips, deferrals, stops and crashes. *)
NeverEarly ==
  [][\A j \in began' : running[j] = 0 /\ since[j] >= Pause(j, streak[j])]_vars

(* scheduler.ts, arm: no wake-up is lost.  A job whose last run has ended  *)
(* runs again or the process goes, even while a run of another job hangs   *)
(* and whatever settlements replace the timer.                             *)
Recurs ==
  \A j \in Job :
    (status = "up" /\ running[j] = 0 /\ since[j] > 0) ~> (since[j] = 0 \/ status # "up")
=============================================================================
