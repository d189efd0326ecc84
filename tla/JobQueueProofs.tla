-------------------------- MODULE JobQueueProofs ---------------------------
(* Theorems about JobQueue, for all processes, workers, jobs and bounds.    *)
EXTENDS JobQueue, FiniteSetTheorems, TLAPS

-----------------------------------------------------------------------------
(* Types.                                                                  *)

\* announce and the writes to one row keep the types.
LEMMA AnnounceTyped ==
  ASSUME TypeOK, NEW p, NEW S, Announce(p, S)
  PROVE  wait' \in [Task -> Proc \cup {"none", "handle", "answered"}]
BY DEF TypeOK, Announce

LEMMA RestTyped ==
  /\ AtRest.job \in Job /\ AtRest.at = "free"
  /\ AtRest \in [at: {"free", "insert", "delete", "start", "cancel"}, job: Job]
<1>1. Job # {}
  BY JobQueueAssumption DEF Job
<1>. QED
  BY <1>1 DEF AtRest

LEMMA DeadTyped ==
  ASSUME NEW r \in Row
  PROVE  /\ Dead(r) \in Row
         /\ [Dead(r) EXCEPT !.state = "retrying"] \in Row
         /\ [r EXCEPT !.state = "complete", !.owner = NoLease, !.alive = FALSE] \in Row
BY DEF Row, Dead, State, NoLease

LEMMA FinalizeTyped ==
  ASSUME TypeOK, NEW S
  PROVE  Finalize(S) \in [Job -> Row]
BY DeadTyped DEF TypeOK, Finalize

LEMMA LeasedTyped ==
  ASSUME TypeOK, NEW r \in Row, NEW w \in Worker
  PROVE  Leased(r, w) \in Row
<1>1. Token(w, r.attempt + 1) \in Proc \X Nat
  BY JobQueueAssumption DEF Token, Row
<1>2. r.attempt + 1 \in Nat
  BY DEF Row
<1>3. ASSUME NEW o \in Proc \X Nat, NEW n \in Nat
      PROVE  [r EXCEPT !.state = "running", !.attempt = n, !.owner = o, !.alive = TRUE] \in Row
  BY DEF Row, State
<1>. QED
  BY <1>1, <1>2, <1>3 DEF Leased

LEMMA TakeTyped ==
  ASSUME TypeOK, NEW w \in Worker, NEW j \in Job, NEW S, Take(w, j, S)
  PROVE  /\ row' \in [Job -> Row]
         /\ run' \in [Worker -> Run]
<1>1. row' \in [Job -> Row]
  BY FinalizeTyped, LeasedTyped DEF Take
<1>2. row[j].attempt + 1 \in Nat
  BY DEF TypeOK, Row
<1>3. run' \in [Worker -> Run]
  BY <1>2 DEF Take, TypeOK, Run, Phase
<1>. QED
  BY <1>1, <1>3

LEMMA IdleTyped ==
  ASSUME NEW r \in Run
  PROVE  Idle(r) \in Run
BY DEF Run, Idle, Phase

LEMMA FailTyped ==
  ASSUME TypeOK, NEW w \in Worker, NEW b \in BOOLEAN, fail(w, b)
  PROVE  /\ row' \in [Job -> Row]
         /\ wait' \in [Task -> Proc \cup {"none", "handle", "answered"}]
<1>1. run[w].job \in Job
  BY DEF TypeOK, Run
<1>2. row' \in [Job -> Row]
  BY <1>1, DeadTyped DEF TypeOK, fail, Settle
<1>3. wait' \in [Task -> Proc \cup {"none", "handle", "answered"}]
  BY AnnounceTyped DEF TypeOK, fail, AnnounceRun
<1>. QED
  BY <1>2, <1>3

LEMMA InitTyped == Init => TypeOK
<1>. SUFFICES ASSUME Init PROVE TypeOK
  OBVIOUS
<1>1. (CHOOSE j \in Job : TRUE) \in Job
  BY JobQueueAssumption DEF Job
<1>2. [Queued EXCEPT !.state = "absent"] \in Row
  BY DEF Queued, Row, State, NoLease, NoOutcome
<1>3. row \in [Job -> Row]
  BY <1>2 DEF Init
<1>4. run \in [Worker -> Run]
  BY <1>1 DEF Init, Run, Phase
<1>5. busy \in [Proc -> [at: {"free", "insert", "delete", "start", "cancel"}, job: Job]]
  BY RestTyped DEF Init
<1>. QED
  BY <1>3, <1>4, <1>5 DEF Init, TypeOK

\* Writes that a step makes to one row, one run, or what a process is at.
LEMMA WritesTyped ==
  ASSUME TypeOK
  PROVE  /\ Queued \in Row /\ [Queued EXCEPT !.state = "gone"] \in Row
         /\ \A j \in Job : \A b \in BOOLEAN : /\ [row[j] EXCEPT !.alive = b] \in Row
                                              /\ [row[j] EXCEPT !.due = b] \in Row
         /\ \A j \in Job, tag \in {"ok", "error"}, n \in Nat :
              [row[j] EXCEPT !.outcome = [tag |-> tag, by |-> n]] \in Row
         /\ \A w \in Worker, p \in Phase : [run EXCEPT ![w].phase = p] \in [Worker -> Run]
         /\ \A p \in Proc, j \in Job, at \in {"insert", "delete", "start", "cancel"} :
              [busy EXCEPT ![p] = [at |-> at, job |-> j]]
                \in [Proc -> [at: {"free", "insert", "delete", "start", "cancel"}, job: Job]]
         /\ \A p \in Proc :
              [busy EXCEPT ![p] = AtRest]
                \in [Proc -> [at: {"free", "insert", "delete", "start", "cancel"}, job: Job]]
<1>1. Queued \in Row /\ [Queued EXCEPT !.state = "gone"] \in Row
  BY DEF Queued, Row, State, NoLease, NoOutcome
<1>2. \A j \in Job : \A b \in BOOLEAN : /\ [row[j] EXCEPT !.alive = b] \in Row
                                        /\ [row[j] EXCEPT !.due = b] \in Row
  BY SMTT(30) DEF TypeOK, Row
<1>3. \A j \in Job, tag \in {"ok", "error"}, n \in Nat :
        [row[j] EXCEPT !.outcome = [tag |-> tag, by |-> n]] \in Row
  BY DEF TypeOK, Row
<1>4. \A w \in Worker, p \in Phase : [run EXCEPT ![w].phase = p] \in [Worker -> Run]
  BY DEF TypeOK, Run
<1>5. \A p \in Proc, j \in Job, at \in {"insert", "delete", "start", "cancel"} :
        [busy EXCEPT ![p] = [at |-> at, job |-> j]]
          \in [Proc -> [at: {"free", "insert", "delete", "start", "cancel"}, job: Job]]
  BY DEF TypeOK
<1>6. \A p \in Proc :
        [busy EXCEPT ![p] = AtRest]
          \in [Proc -> [at: {"free", "insert", "delete", "start", "cancel"}, job: Job]]
  BY RestTyped DEF TypeOK
<1>. QED
  BY <1>1, <1>2, <1>3, <1>4, <1>5, <1>6

LEMMA CancelTyped ==
  ASSUME TypeOK, NEW t \in Job, requestCancel(t)
  PROVE  row' \in [Job -> Row]
<1>1. \A b \in BOOLEAN : [row[t] EXCEPT !.cancel = b] \in Row
  BY DEF TypeOK, Row
<1>. QED
  BY <1>1 DEF TypeOK, requestCancel

\* The steps that enqueue, wait and cancel.
LEMMA ClientTyped ==
  ASSUME TypeOK,
         \/ \E p \in Proc : EnqueueRead(p) \/ EnqueueDelete(p) \/ EnqueueInsert(p) \/ CancelWrite(p)
         \/ \E t \in Task, p \in Proc : Offload(t, p) \/ CancelRead(t, p)
         \/ \E t \in Task : BudgetSpent(t) \/ CallAborted(t)
  PROVE  TypeOK'
<1>. USE WritesTyped
<1>0. Keyed \subseteq Job /\ Task \subseteq Job /\ \A p \in Proc : busy[p].job \in Job
  BY DEF Job, TypeOK
<1>1. ASSUME NEW p \in Proc, EnqueueRead(p) PROVE TypeOK'
  BY <1>0, <1>1 DEF EnqueueRead, Holder, TypeOK
<1>2. ASSUME NEW p \in Proc, EnqueueDelete(p) PROVE TypeOK'
  BY <1>0, <1>2 DEF EnqueueDelete, TypeOK
<1>3. ASSUME NEW p \in Proc, EnqueueInsert(p) PROVE TypeOK'
  BY <1>0, <1>3 DEF EnqueueInsert, TypeOK
<1>4. ASSUME NEW p \in Proc, NEW t \in Task, Offload(t, p) PROVE TypeOK'
  <2>1. UNCHANGED <<run, stopped, faults, lapses, finished>> /\ row' = [row EXCEPT ![t] = Queued]
    BY <1>4 DEF Offload
  <2>2. CASE wait' = [wait EXCEPT ![t] = "handle"] /\ UNCHANGED busy
    BY <1>0, <2>1, <2>2 DEF TypeOK
  <2>3. CASE /\ wait' = [wait EXCEPT ![t] = p]
             /\ busy' = [busy EXCEPT ![p] = [at |-> "start", job |-> t]]
    BY <1>0, <2>1, <2>3 DEF TypeOK
  <2>. QED
    BY <1>4, <2>2, <2>3 DEF Offload
<1>5. ASSUME NEW t \in Task, BudgetSpent(t) PROVE TypeOK'
  BY <1>5 DEF BudgetSpent, TypeOK
<1>6. ASSUME NEW t \in Task, CallAborted(t) PROVE TypeOK'
  BY <1>0, <1>6, CancelTyped DEF CallAborted, TypeOK
<1>7. ASSUME NEW p \in Proc, NEW t \in Task, CancelRead(t, p) PROVE TypeOK'
  BY <1>0, <1>7 DEF CancelRead, TypeOK
<1>8. ASSUME NEW p \in Proc, CancelWrite(p) PROVE TypeOK'
  BY <1>0, <1>8, CancelTyped DEF CancelWrite, TypeOK
<1>. QED
  BY <1>1, <1>2, <1>3, <1>4, <1>5, <1>6, <1>7, <1>8

\* The steps that claim.
LEMMA ClaimTyped ==
  ASSUME TypeOK, (\E w \in Worker : Claim(w)) \/ (\E p \in Proc : StartTask(p))
  PROVE  TypeOK'
<1>1. ASSUME NEW w \in Worker, Claim(w) PROVE TypeOK'
  <2>1. row' \in [Job -> Row] /\ run' \in [Worker -> Run]
    BY <1>1, TakeTyped, FinalizeTyped DEF Claim, TypeOK
  <2>2. wait' \in [Task -> Proc \cup {"none", "handle", "answered"}]
    BY <1>1, AnnounceTyped DEF Claim
  <2>. QED
    BY <1>1, <2>1, <2>2 DEF Claim, TypeOK
<1>2. ASSUME NEW p \in Proc, StartTask(p) PROVE TypeOK'
  <2>0. busy[p].job \in Job
    BY DEF TypeOK
  <2>1. row' \in [Job -> Row] /\ run' \in [Worker -> Run]
    BY <1>2, <2>0, TakeTyped, FinalizeTyped DEF StartTask, TypeOK, Worker
  <2>2. wait' \in [Task -> Proc \cup {"none", "handle", "answered"}]
    BY <1>2 DEF StartTask, TypeOK
  <2>. QED
    BY <1>2, <2>1, <2>2, WritesTyped DEF StartTask, TypeOK
<1>. QED
  BY <1>1, <1>2

\* The steps of a run.
LEMMA RunTyped ==
  ASSUME TypeOK, NEW w \in Worker, Beat(w) \/ Settling(w)
  PROVE  TypeOK'
<1>. USE WritesTyped
<1>0. /\ run[w] \in Run /\ run[w].job \in Job /\ run[w].attempt \in Nat
      /\ row[run[w].job] \in Row
      /\ EndRun(w) => run' \in [Worker -> Run]
  BY IdleTyped DEF TypeOK, Run, EndRun
<1>1. CASE Begin(w)
  <2>1. CASE row[run[w].job].cancel
    BY <1>0, <1>1, <2>1, FailTyped DEF Begin, TypeOK
  <2>2. CASE ~row[run[w].job].cancel
    <3>1. run' \in [Worker -> Run] /\ UNCHANGED <<row, wait>>
      BY <1>1, <2>2, ZenonT(60) DEF Begin, Phase
    <3>. QED
      BY <1>1, <3>1 DEF Begin, TypeOK
  <2>. QED
    BY <2>1, <2>2
<1>2. CASE Beat(w)
  <2>1. [run EXCEPT ![w].aborted = TRUE] \in [Worker -> Run]
    BY <1>0 DEF TypeOK, Run
  <2>2. [[run EXCEPT ![w].aborted = TRUE] EXCEPT ![w].lost = TRUE] \in [Worker -> Run]
    <3>1. ASSUME NEW s \in [Worker -> Run]
          PROVE  [s EXCEPT ![w].lost = TRUE] \in [Worker -> Run]
      <4>1. ASSUME NEW r \in Run PROVE [r EXCEPT !.lost = TRUE] \in Run
        BY DEF Run
      <4>2. s[w] \in Run
        OBVIOUS
      <4>. QED
        BY <4>1, <4>2
    <3>. QED
      BY <2>1, <3>1
  <2>3. [row EXCEPT ![run[w].job] = [row[run[w].job] EXCEPT !.alive = TRUE]] \in [Job -> Row]
    BY <1>0 DEF TypeOK
  <2>4. run' \in [Worker -> Run] /\ row' \in [Job -> Row]
    <3>1. CASE row[run[w].job].cancel
      BY <1>2, <2>1, <3>1 DEF Beat, TypeOK
    <3>2. CASE ~row[run[w].job].cancel /\ Owns(w)
      BY <1>2, <2>3, <3>2 DEF Beat, Settle, TypeOK
    <3>3. CASE ~row[run[w].job].cancel /\ ~Owns(w)
      BY <1>2, <2>2, <3>3 DEF Beat, TypeOK
    <3>. QED
      BY <3>1, <3>2, <3>3
  <2>. QED
    BY <1>2, <2>4 DEF Beat, TypeOK
<1>3. CASE Answer(w)
  <2>1. row' \in [Job -> Row]
    BY <1>0, <1>3 DEF Answer, recordOutcome, Settle, TypeOK
  <2>2. run' \in [Worker -> Run]
    BY <1>3 DEF Answer, Phase
  <2>. QED
    BY <1>3, <2>1, <2>2 DEF Answer, TypeOK
<1>4. CASE ToolError(w)
  <2>1. row' \in [Job -> Row]
    BY <1>0, <1>4 DEF ToolError, recordOutcome, Settle, TypeOK
  <2>. QED
    BY <1>4, <2>1 DEF ToolError, TypeOK, Phase
<1>5. CASE Throw(w)
  BY <1>5 DEF Throw, TypeOK, Phase
<1>6. CASE Complete(w)
  <2>1. row' \in [Job -> Row]
    BY <1>0, <1>6, DeadTyped DEF Complete, Settle, TypeOK
  <2>2. wait' \in [Task -> Proc \cup {"none", "handle", "answered"}]
    BY <1>6, AnnounceTyped DEF Complete, AnnounceRun, TypeOK
  <2>. QED
    BY <1>0, <1>6, <2>1, <2>2 DEF Complete, TypeOK
<1>7. CASE Catch(w)
  BY <1>0, <1>7, FailTyped DEF Catch, TypeOK
<1>. QED
  BY <1>1, <1>2, <1>3, <1>4, <1>5, <1>6, <1>7 DEF Settling

\* The environment's steps.
LEMMA EnvironmentTyped ==
  ASSUME TypeOK,
         \/ \E j \in Job : Lapse(j) \/ ComeDue(j) \/ Sweep(j)
         \/ \E p \in Proc : Stop(p) \/ Restart(p)
  PROVE  TypeOK'
<1>. USE WritesTyped
<1>1. ASSUME NEW j \in Job, Lapse(j) PROVE TypeOK'
  <2>1. lapses' = lapses \/ lapses' = lapses + 1
    BY <1>1 DEF Lapse
  <2>2. row' = [row EXCEPT ![j].alive = FALSE]
    BY <1>1 DEF Lapse
  <2>3. row' \in [Job -> Row]
    BY <2>2 DEF TypeOK
  <2>4. lapses' \in Nat
    BY <2>1 DEF TypeOK
  <2>. QED
    BY <1>1, <2>3, <2>4 DEF Lapse, TypeOK
<1>2. ASSUME NEW j \in Job, ComeDue(j) PROVE TypeOK'
  BY <1>2 DEF ComeDue, TypeOK
<1>3. ASSUME NEW j \in Job, Sweep(j) PROVE TypeOK'
  BY <1>3 DEF Sweep, TypeOK
<1>4. ASSUME NEW p \in Proc, Stop(p) PROVE TypeOK'
  BY <1>4 DEF Stop, TypeOK
<1>5. ASSUME NEW p \in Proc, Restart(p) PROVE TypeOK'
  <2>1. run' \in [Worker -> Run]
    BY <1>5, IdleTyped DEF Restart, TypeOK
  <2>2. wait' \in [Task -> Proc \cup {"none", "handle", "answered"}]
    BY <1>5 DEF Restart, TypeOK
  <2>3. stopped' \subseteq Proc /\ faults' \in Nat
    BY <1>5 DEF Restart, TypeOK
  <2>. QED
    BY <1>5, <2>1, <2>2, <2>3 DEF Restart, TypeOK
<1>. QED
  BY <1>1, <1>2, <1>3, <1>4, <1>5

LEMMA NextTyped == TypeOK /\ [Next]_vars => TypeOK'
<1>. SUFFICES ASSUME TypeOK, [Next]_vars PROVE TypeOK'
  OBVIOUS
<1>1. CASE UNCHANGED vars
  BY <1>1 DEF vars, TypeOK
<1>2. CASE Next
  BY <1>2, ClientTyped, ClaimTyped, RunTyped, EnvironmentTyped DEF Next, Proceed, Settling
<1>. QED
  BY <1>1, <1>2

(* Every reachable state is well typed, whatever the numbers of processes, *)
(* workers and jobs (the rows of the jobs table, the locals of runJob).    *)
THEOREM TypeCorrect == Spec => []TypeOK
BY InitTyped, NextTyped, PTL DEF Spec

-----------------------------------------------------------------------------
(* Attempts.  The lease of a running row names the attempt the row counts, *)
(* a run's attempt is never ahead of its row's, and no two runs of a job   *)
(* share one.  So the token tells the live attempt from every other, and   *)
(* what the live attempt has recorded is still there when it completes.    *)

OwnerCounts ==
  \A j \in Job : row[j].state = "running" =>
    row[j].owner \in Proc \X Nat /\ row[j].owner[2] = row[j].attempt

Begun ==
  \A w \in Worker : run[w].phase # "idle" =>
    /\ row[run[w].job].state # "absent"
    /\ row[run[w].job].state = "gone" \/ run[w].attempt <= row[run[w].job].attempt

Distinct ==
  \A v, w \in Worker :
    v # w /\ run[v].phase # "idle" /\ run[w].phase # "idle" /\ run[v].job = run[w].job
      => run[v].attempt # run[w].attempt

Recorded ==
  \A w \in Worker : run[w].phase = "recorded" /\ run[w].job \in Task /\ Owns(w) =>
    row[run[w].job].outcome = [tag |-> "ok", by |-> run[w].attempt]

IInv == TypeOK /\ OwnerCounts /\ Begun /\ Distinct /\ Recorded /\ CompletedHasResult

LEMMA OwnsCurrent ==
  ASSUME IInv, NEW w \in Worker, Owns(w)
  PROVE  row[run[w].job].attempt = run[w].attempt
<1>1. run[w].job \in Job
  BY DEF IInv, TypeOK, Run
<1>. QED
  BY <1>1 DEF IInv, OwnerCounts, Owns, Token

LEMMA OwnsAlone ==
  ASSUME IInv, NEW v \in Worker, NEW w \in Worker, v # w, Owns(w),
         run[v].phase # "idle", run[w].phase # "idle", run[v].job = run[w].job
  PROVE  ~Owns(v)
<1>1. run[v].attempt # run[w].attempt
  BY DEF IInv, Distinct
<1>. QED
  BY <1>1, OwnsCurrent

LEMMA InitAttempts == Init => IInv
<1>. SUFFICES ASSUME Init PROVE IInv
  OBVIOUS
<1>1. TypeOK
  BY InitTyped
<1>2. \A j \in Job : row[j].state = "absent"
  BY DEF Init, Queued
<1>3. \A w \in Worker : run[w].phase = "idle"
  BY DEF Init
<1>4. Task \subseteq Job
  BY DEF Job
<1>. QED
  BY <1>1, <1>2, <1>3, <1>4 DEF IInv, OwnerCounts, Begun, Distinct, Recorded, CompletedHasResult

\* What most steps do to a row: nothing, a fresh one, its end, or a change
\* that leaves its attempt and outcome, takes no lease and completes nothing.
Calm(r, s) ==
  \/ s = r
  \/ s.state = "gone"
  \/ r.state = "absent" /\ s.state = "queued"
  \/ /\ r.state \notin {"absent", "gone"} /\ s.state # "absent"
     /\ s.attempt = r.attempt /\ s.outcome = r.outcome
     /\ s.state \in {"running", "complete"} => s.state = r.state /\ s.owner = r.owner

\* What most steps do to a run: it stays the run of its attempt, or ends.
Onward(r, s) ==
  s.phase # "idle" =>
    /\ r.phase # "idle" /\ s.job = r.job /\ s.attempt = r.attempt
    /\ s.phase = "recorded" => r.phase = "recorded" \/ r.job \notin Task

LEMMA CalmStep ==
  ASSUME IInv, TypeOK',
         \A j \in Job : Calm(row[j], row'[j]),
         \A w \in Worker : Onward(run[w], run'[w])
  PROVE  IInv'
<1>0. /\ \A w \in Worker : run[w].job \in Job /\ run'[w].job \in Job
      /\ Task \subseteq Job
  BY DEF IInv, TypeOK, Run, Job
<1>1. OwnerCounts'
  BY DEF IInv, OwnerCounts, Calm
<1>2. Begun'
  BY <1>0 DEF IInv, Begun, Calm, Onward
<1>3. Distinct'
  BY DEF IInv, Distinct, Onward
<1>4. Recorded'
  <2>. SUFFICES ASSUME NEW w \in Worker, run'[w].phase = "recorded", run'[w].job \in Task, Owns(w)'
                PROVE  row'[run'[w].job].outcome = [tag |-> "ok", by |-> run'[w].attempt]
    BY DEF Recorded
  <2>1. run[w].phase = "recorded" /\ run[w].job = run'[w].job /\ run[w].attempt = run'[w].attempt
    BY DEF Onward
  <2>2. row'[run[w].job].state = "running"
    BY <2>1 DEF Owns
  <2>3. /\ row[run[w].job].state = "running"
        /\ row[run[w].job].owner = row'[run[w].job].owner
        /\ row[run[w].job].outcome = row'[run[w].job].outcome
    BY <1>0, <2>2 DEF Calm
  <2>4. Owns(w)
    BY <2>1, <2>3 DEF Owns, Token
  <2>. QED
    BY <2>1, <2>3, <2>4 DEF IInv, Recorded
<1>5. CompletedHasResult'
  BY <1>0 DEF IInv, CompletedHasResult, Calm
<1>. QED
  BY <1>1, <1>2, <1>3, <1>4, <1>5 DEF IInv

LEMMA FinalizeCalm ==
  ASSUME TypeOK, NEW S
  PROVE  \A j \in Job : Calm(row[j], Finalize(S)[j])
<1>. SUFFICES ASSUME NEW j \in Job PROVE Calm(row[j], Finalize(S)[j])
  OBVIOUS
<1>1. row[j] \in Row
  BY DEF TypeOK
<1>2. CASE j \in Cancelled(S)
  <2>1. Finalize(S)[j] = Dead(row[j])
    BY <1>2 DEF Finalize
  <2>2. row[j].state \notin {"absent", "gone"}
    BY <1>2 DEF Cancelled, Unstarted
  <2>. QED
    BY <1>1, <2>1, <2>2 DEF Calm, Dead, Row
<1>3. CASE j \notin Cancelled(S)
  BY <1>3 DEF Finalize, Calm
<1>. QED
  BY <1>2, <1>3

\* A claim: the row counts the attempt, and only the new run has it.
LEMMA TakeStep ==
  ASSUME IInv, TypeOK', NEW w \in Worker, NEW j \in Job, NEW S,
         run[w].phase = "idle", row[j].state \notin {"absent", "gone"},
         j \notin Cancelled(S), Take(w, j, S)
  PROVE  IInv'
<1>. DEFINE n == row[j].attempt + 1
<1>0. /\ TypeOK /\ row[j] \in Row /\ row[j].attempt \in Nat
      /\ \A v \in Worker : run[v] \in Run /\ run[v].job \in Job /\ run[v].attempt \in Nat
      /\ Task \subseteq Job
  BY DEF IInv, TypeOK, Row, Run, Job
<1>1. /\ row'[j] = Leased(row[j], w)
      /\ \A k \in Job : k # j => row'[k] = Finalize(S)[k]
  BY DEF Take, Finalize
<1>2. /\ row'[j].state = "running" /\ row'[j].attempt = n
      /\ row'[j].owner = Token(w, n) /\ row'[j].outcome = row[j].outcome
  BY <1>0, <1>1 DEF Leased, Row
<1>3. /\ run'[w].job = j /\ run'[w].attempt = n /\ run'[w].phase = "claimed"
      /\ \A v \in Worker : v # w => run'[v] = run[v]
  BY <1>0 DEF Take, TypeOK
<1>4. \A k \in Job : k # j => Calm(row[k], row'[k])
  BY <1>0, <1>1, FinalizeCalm
<1>5. \A v \in Worker : v # w /\ run[v].phase # "idle" /\ run[v].job = j => run[v].attempt < n
  BY <1>0 DEF IInv, Begun
<1>6. Token(w, n) \in Proc \X Nat /\ Token(w, n)[2] = n
  BY <1>0, JobQueueAssumption DEF Token
<1>7. OwnerCounts'
  BY <1>2, <1>4, <1>6 DEF IInv, OwnerCounts, Calm
<1>8. Begun'
  <2>. SUFFICES ASSUME NEW v \in Worker, run'[v].phase # "idle"
                PROVE  /\ row'[run'[v].job].state # "absent"
                       /\ \/ row'[run'[v].job].state = "gone"
                          \/ run'[v].attempt <= row'[run'[v].job].attempt
    BY DEF Begun
  <2>1. CASE run'[v].job = j
    BY <1>0, <1>2, <1>3, <1>5, <2>1
  <2>2. CASE run'[v].job # j
    BY <1>0, <1>3, <1>4, <2>2 DEF IInv, Begun, Calm
  <2>. QED
    BY <2>1, <2>2
<1>9. Distinct'
  BY <1>0, <1>3, <1>5 DEF IInv, Distinct
<1>10. Recorded'
  <2>. SUFFICES ASSUME NEW v \in Worker, run'[v].phase = "recorded", run'[v].job \in Task, Owns(v)'
                PROVE  row'[run'[v].job].outcome = [tag |-> "ok", by |-> run'[v].attempt]
    BY DEF Recorded
  <2>1. v # w /\ run'[v] = run[v]
    BY <1>3
  <2>2. CASE run[v].job = j
    <3>1. run[v].attempt # n
      BY <1>0, <1>5, <2>1, <2>2
    <3>. QED
      BY <1>2, <2>1, <2>2, <3>1 DEF Owns, Token
  <2>3. CASE run[v].job # j
    <3>1. row'[run[v].job].state = "running" /\ Calm(row[run[v].job], row'[run[v].job])
      BY <1>0, <1>4, <2>1, <2>3 DEF Owns
    <3>2. /\ row[run[v].job].state = "running"
          /\ row[run[v].job].owner = row'[run[v].job].owner
          /\ row[run[v].job].outcome = row'[run[v].job].outcome
      BY <3>1 DEF Calm
    <3>3. Owns(v)
      BY <2>1, <3>2 DEF Owns, Token
    <3>. QED
      BY <2>1, <3>2, <3>3 DEF IInv, Recorded
  <2>. QED
    BY <2>2, <2>3
<1>11. CompletedHasResult'
  BY <1>0, <1>2, <1>4 DEF IInv, CompletedHasResult, Calm
<1>. QED
  BY <1>7, <1>8, <1>9, <1>10, <1>11 DEF IInv

\* The live attempt records its outcome.
LEMMA RecordStep ==
  ASSUME IInv, TypeOK', NEW w \in Worker, NEW tag \in {"ok", "error"}, Owns(w),
         run[w].phase # "idle",
         recordOutcome(w, tag),
         \/ tag = "ok" /\ run' = [run EXCEPT ![w].phase = "recorded"]
         \/ run' = [run EXCEPT ![w].phase = "threw"]
  PROVE  IInv'
<1>. DEFINE j == run[w].job
<1>0. /\ TypeOK /\ j \in Job /\ row[j] \in Row
      /\ \A v \in Worker : run[v] \in Run /\ run[v].job \in Job
      /\ Task \subseteq Job
  BY DEF IInv, TypeOK, Run, Job
<1>1. /\ \A k \in Job : k # j => row'[k] = row[k]
      /\ row'[j] = [row[j] EXCEPT !.outcome = [tag |-> tag, by |-> run[w].attempt]]
  BY <1>0 DEF recordOutcome, Settle, TypeOK
<1>2. /\ row'[j].state = "running" /\ row[j].state = "running" /\ row'[j].owner = row[j].owner
      /\ row'[j].attempt = row[j].attempt
      /\ row'[j].outcome = [tag |-> tag, by |-> run[w].attempt]
  BY <1>0, <1>1 DEF Owns, Row
<1>3. /\ \A v \in Worker : v # w => run'[v] = run[v]
      /\ run'[w].job = j /\ run'[w].attempt = run[w].attempt /\ run'[w].phase # "idle"
      /\ run'[w].phase = "recorded" => tag = "ok"
  BY <1>0 DEF TypeOK, Run
<1>4. \A v \in Worker : run'[v].job = run[v].job /\ run'[v].attempt = run[v].attempt
  BY <1>3
<1>5. \A v \in Worker : run'[v].phase # "idle" => run[v].phase # "idle"
  BY <1>3
<1>6. \A k \in Job : row'[k].state = row[k].state /\ row'[k].owner = row[k].owner
                     /\ row'[k].attempt = row[k].attempt
  BY <1>1, <1>2
<1>7. OwnerCounts'
  BY <1>6 DEF IInv, OwnerCounts
<1>8. Begun'
  BY <1>0, <1>4, <1>5, <1>6 DEF IInv, Begun
<1>9. Distinct'
  BY <1>4, <1>5 DEF IInv, Distinct
<1>10. Recorded'
  <2>. SUFFICES ASSUME NEW v \in Worker, run'[v].phase = "recorded", run'[v].job \in Task, Owns(v)'
                PROVE  row'[run'[v].job].outcome = [tag |-> "ok", by |-> run'[v].attempt]
    BY DEF Recorded
  <2>1. Owns(v)
    BY <1>0, <1>4, <1>6 DEF Owns, Token
  <2>2. CASE v = w
    BY <1>2, <1>3, <2>2
  <2>3. CASE v # w
    <3>1. run[v].job # j
      BY <1>3, <2>1, <2>3, OwnsAlone
    <3>. QED
      BY <1>0, <1>1, <1>3, <2>1, <2>3, <3>1 DEF IInv, Recorded
  <2>. QED
    BY <2>2, <2>3
<1>11. CompletedHasResult'
  BY <1>0, <1>1, <1>2 DEF IInv, CompletedHasResult
<1>. QED
  BY <1>7, <1>8, <1>9, <1>10, <1>11 DEF IInv

\* A settled run: what fail and EndRun leave.
LEMMA EndRunOnward ==
  ASSUME TypeOK, NEW w \in Worker, EndRun(w)
  PROVE  \A v \in Worker : Onward(run[v], run'[v])
BY DEF TypeOK, EndRun, Onward, Idle, Run

LEMMA FailCalm ==
  ASSUME TypeOK, NEW w \in Worker, NEW b \in BOOLEAN, fail(w, b)
  PROVE  \A j \in Job : Calm(row[j], row'[j])
<1>. DEFINE i == run[w].job
<1>0. i \in Job /\ row[i] \in Row
  BY DEF TypeOK, Run
<1>1. /\ \A j \in Job : j # i => row'[j] = row[j]
      /\ \/ row'[i] = row[i]
         \/ Owns(w) /\ row'[i] = Dead(row[i])
         \/ Owns(w) /\ row'[i] = [Dead(row[i]) EXCEPT !.state = "retrying"]
  BY <1>0 DEF fail, Settle, TypeOK
<1>2. Owns(w) => row[i].state = "running"
  BY DEF Owns
<1>. QED
  <2>1. ASSUME row'[i] = row[i] PROVE Calm(row[i], row'[i])
    BY <2>1 DEF Calm
  <2>2. ASSUME NEW st \in {"failed", "retrying"}, Owns(w),
               row'[i] = [Dead(row[i]) EXCEPT !.state = st]
        PROVE  Calm(row[i], row'[i])
    <3>1. /\ row'[i].state = st /\ row'[i].attempt = row[i].attempt
          /\ row'[i].outcome = row[i].outcome
      BY <1>0, <2>2 DEF Dead, Row
    <3>. QED
      BY <1>2, <2>2, <3>1 DEF Calm
  <2>3. ASSUME Owns(w), row'[i] = Dead(row[i]) PROVE Calm(row[i], row'[i])
    <3>1. Dead(row[i]) = [Dead(row[i]) EXCEPT !.state = "failed"]
      BY <1>0 DEF Dead, Row
    <3>2. "failed" \in {"failed", "retrying"}
      OBVIOUS
    <3>. QED
      BY <2>2, <2>3, <3>1, <3>2
  <2>4. ASSUME Owns(w), row'[i] = [Dead(row[i]) EXCEPT !.state = "retrying"]
        PROVE  Calm(row[i], row'[i])
    <3>1. "retrying" \in {"failed", "retrying"}
      OBVIOUS
    <3>. QED
      BY <2>2, <2>4, <3>1
  <2>5. Calm(row[i], row'[i])
    BY <1>1, <2>1, <2>3, <2>4
  <2>. QED
    BY <1>1, <2>5 DEF Calm

\* The live attempt completes with what it has recorded.
LEMMA CompleteStep ==
  ASSUME IInv, TypeOK', NEW w \in Worker, Complete(w)
  PROVE  IInv'
<1>. DEFINE j == run[w].job
<1>0. /\ TypeOK /\ j \in Job /\ row[j] \in Row
      /\ \A v \in Worker : run[v] \in Run /\ run[v].job \in Job
      /\ \A v \in Worker : Onward(run[v], run'[v])
      /\ Task \subseteq Job
  BY EndRunOnward DEF IInv, TypeOK, Run, Job, Complete
<1>1. CASE ~Owns(w)
  <2>1. \A k \in Job : Calm(row[k], row'[k])
    BY <1>0, <1>1 DEF Complete, Settle, Calm, TypeOK
  <2>. QED
    BY <1>0, <2>1, CalmStep
<1>2. CASE Owns(w)
  <2>1. /\ \A k \in Job : k # j => row'[k] = row[k]
        /\ row'[j] = [row[j] EXCEPT !.state = "complete", !.owner = NoLease, !.alive = FALSE]
    BY <1>0, <1>2 DEF Complete, Settle, TypeOK
  <2>2. /\ row'[j].state = "complete" /\ row'[j].attempt = row[j].attempt
        /\ row'[j].outcome = row[j].outcome
    BY <1>0, <2>1 DEF Row
  <2>3. \A v \in Worker : run'[v].phase # "idle" => run'[v].job = run[v].job /\ run'[v].attempt = run[v].attempt /\ run[v].phase # "idle"
    BY <1>0 DEF Onward
  <2>4. OwnerCounts'
    BY <2>1, <2>2 DEF IInv, OwnerCounts
  <2>5. Begun'
    <3>. SUFFICES ASSUME NEW v \in Worker, run'[v].phase # "idle"
                  PROVE  /\ row'[run[v].job].state # "absent"
                         /\ \/ row'[run[v].job].state = "gone"
                            \/ run[v].attempt <= row'[run[v].job].attempt
      BY <2>3 DEF Begun
    <3>1. CASE run[v].job = j
      BY <1>2, <2>2, <2>3, <3>1 DEF IInv, Begun, Owns
    <3>2. CASE run[v].job # j
      BY <1>0, <2>1, <2>3, <3>2 DEF IInv, Begun
    <3>. QED
      BY <3>1, <3>2
  <2>6. Distinct'
    BY <2>3 DEF IInv, Distinct
  <2>7. Recorded'
    <3>. SUFFICES ASSUME NEW v \in Worker, run'[v].phase = "recorded", run'[v].job \in Task, Owns(v)'
                  PROVE  row'[run'[v].job].outcome = [tag |-> "ok", by |-> run'[v].attempt]
      BY DEF Recorded
    <3>1. run[v].phase = "recorded" /\ run'[v].job = run[v].job /\ run'[v].attempt = run[v].attempt
      BY <1>0 DEF Onward
    <3>2. run[v].job # j
      BY <2>2, <3>1 DEF Owns
    <3>3. row'[run[v].job] = row[run[v].job]
      BY <1>0, <2>1, <3>2
    <3>. QED
      BY <3>1, <3>3 DEF IInv, Recorded, Owns, Token
  <2>8. CompletedHasResult'
    <3>. SUFFICES ASSUME NEW t \in Task, row'[t].state = "complete"
                  PROVE  row'[t].outcome = [tag |-> "ok", by |-> row'[t].attempt]
      BY DEF CompletedHasResult
    <3>1. CASE t = j
      <4>1. row[j].outcome = [tag |-> "ok", by |-> run[w].attempt]
        BY <1>2, <3>1 DEF IInv, Recorded, Complete
      <4>2. row[j].attempt = run[w].attempt
        BY <1>2, OwnsCurrent
      <4>. QED
        BY <2>2, <3>1, <4>1, <4>2
    <3>2. CASE t # j
      BY <1>0, <2>1, <3>2 DEF IInv, CompletedHasResult
    <3>. QED
      BY <3>1, <3>2
  <2>. QED
    BY <2>4, <2>5, <2>6, <2>7, <2>8 DEF IInv
<1>. QED
  BY <1>1, <1>2

\* Steps that leave the runs alone.
LEMMA RestOnward ==
  ASSUME UNCHANGED run
  PROVE  \A w \in Worker : Onward(run[w], run'[w])
BY DEF Onward

LEMMA CancelCalm ==
  ASSUME TypeOK, NEW t \in Job, requestCancel(t)
  PROVE  \A j \in Job : Calm(row[j], row'[j])
<1>1. /\ row[t] \in Row
      /\ \A j \in Job : j # t => row'[j] = row[j]
      /\ \/ row'[t] = row[t]
         \/ /\ row[t].state \notin {"absent", "gone"}
            /\ row'[t] = [row[t] EXCEPT !.cancel = TRUE]
  BY DEF TypeOK, requestCancel
<1>. QED
  BY <1>1 DEF Calm, Row

LEMMA ClientCalm ==
  ASSUME TypeOK,
         \/ \E p \in Proc : EnqueueRead(p) \/ EnqueueDelete(p) \/ EnqueueInsert(p) \/ CancelWrite(p)
         \/ \E t \in Task, p \in Proc : Offload(t, p) \/ CancelRead(t, p)
         \/ \E t \in Task : BudgetSpent(t) \/ CallAborted(t)
  PROVE  /\ UNCHANGED run
         /\ \A j \in Job : Calm(row[j], row'[j])
<1>. DEFINE Goal == UNCHANGED run /\ \A j \in Job : Calm(row[j], row'[j])
<1>0. /\ Task \subseteq Job /\ \A p \in Proc : busy[p].job \in Job
      /\ UNCHANGED row => \A j \in Job : Calm(row[j], row'[j])
      /\ Queued.state = "queued" /\ [Queued EXCEPT !.state = "gone"].state = "gone"
  BY DEF TypeOK, Job, Calm, Queued
<1>1. ASSUME NEW p \in Proc, EnqueueRead(p) PROVE Goal
  BY <1>0, <1>1 DEF EnqueueRead
<1>2. ASSUME NEW p \in Proc, EnqueueDelete(p) PROVE Goal
  BY <1>0, <1>2 DEF EnqueueDelete, Calm, TypeOK
<1>3. ASSUME NEW p \in Proc, EnqueueInsert(p) PROVE Goal
  BY <1>0, <1>3 DEF EnqueueInsert, Calm, TypeOK
<1>4. ASSUME NEW p \in Proc, NEW t \in Task, Offload(t, p) PROVE Goal
  BY <1>0, <1>4 DEF Offload, Calm, TypeOK
<1>5. ASSUME NEW t \in Task, BudgetSpent(t) PROVE Goal
  BY <1>0, <1>5 DEF BudgetSpent
<1>6. ASSUME NEW t \in Task, CallAborted(t) PROVE Goal
  BY <1>0, <1>6, CancelCalm DEF CallAborted
<1>7. ASSUME NEW p \in Proc, NEW t \in Task, CancelRead(t, p) PROVE Goal
  BY <1>0, <1>7 DEF CancelRead
<1>8. ASSUME NEW p \in Proc, CancelWrite(p) PROVE Goal
  BY <1>0, <1>8, CancelCalm DEF CancelWrite
<1>. QED
  BY <1>1, <1>2, <1>3, <1>4, <1>5, <1>6, <1>7, <1>8

LEMMA EnvironmentCalm ==
  ASSUME TypeOK,
         \/ \E j \in Job : Lapse(j) \/ ComeDue(j) \/ Sweep(j)
         \/ \E p \in Proc : Stop(p) \/ Restart(p)
  PROVE  /\ \A w \in Worker : Onward(run[w], run'[w])
         /\ \A j \in Job : Calm(row[j], row'[j])
<1>. DEFINE Goal == /\ \A w \in Worker : Onward(run[w], run'[w])
                    /\ \A j \in Job : Calm(row[j], row'[j])
<1>0. /\ \A j \in Job : row[j] \in Row
      /\ UNCHANGED row => \A j \in Job : Calm(row[j], row'[j])
      /\ [Queued EXCEPT !.state = "gone"].state = "gone"
  BY DEF TypeOK, Calm, Queued
<1>1. ASSUME NEW j \in Job, Lapse(j) PROVE Goal
  BY <1>0, <1>1, RestOnward DEF Lapse, Calm, TypeOK, Row
<1>2. ASSUME NEW j \in Job, ComeDue(j) PROVE Goal
  BY <1>0, <1>2, RestOnward DEF ComeDue, Calm, TypeOK, Row
<1>3. ASSUME NEW j \in Job, Sweep(j) PROVE Goal
  BY <1>0, <1>3, RestOnward DEF Sweep, Calm, TypeOK
<1>4. ASSUME NEW p \in Proc, Stop(p) PROVE Goal
  BY <1>0, <1>4, RestOnward DEF Stop
<1>5. ASSUME NEW p \in Proc, Restart(p) PROVE Goal
  <2>1. \A w \in Worker : Onward(run[w], run'[w])
    <3>1. \A r \in Run : Idle(r).phase = "idle"
      BY DEF Idle, Run
    <3>2. \A w \in Worker : run[w] \in Run
      BY DEF TypeOK
    <3>3. \A w \in Worker : run'[w] = Idle(run[w]) \/ run'[w] = run[w]
      BY <1>5 DEF Restart
    <3>. QED
      BY <3>1, <3>2, <3>3 DEF Onward
  <2>. QED
    BY <1>0, <1>5, <2>1 DEF Restart
<1>. QED
  BY <1>1, <1>2, <1>3, <1>4, <1>5

LEMMA ClaimAttempts ==
  ASSUME IInv, TypeOK', (\E w \in Worker : Claim(w)) \/ (\E p \in Proc : StartTask(p))
  PROVE  IInv'
<1>0. TypeOK /\ \A S : \A j \in Job : Calm(row[j], Finalize(S)[j])
  BY FinalizeCalm DEF IInv
<1>1. ASSUME NEW w \in Worker, Claim(w) PROVE IInv'
  <2>1. CASE \E j \in Job \ Cancelled(Job) : Claimable(row[j]) /\ Take(w, j, Job)
    BY <1>1, <2>1, TakeStep DEF Claim, Claimable
  <2>2. CASE row' = Finalize(Job) /\ UNCHANGED run
    BY <1>0, <2>2, RestOnward, CalmStep
  <2>. QED
    BY <1>1, <2>1, <2>2 DEF Claim
<1>2. ASSUME NEW p \in Proc, StartTask(p) PROVE IInv'
  <2>0. busy[p].job \in Job
    BY <1>0 DEF TypeOK
  <2>1. CASE UNCHANGED <<row, run>>
    BY <1>0, <2>1, RestOnward, CalmStep DEF Calm
  <2>2. CASE row' = Finalize({busy[p].job}) /\ UNCHANGED run
    BY <1>0, <2>2, RestOnward, CalmStep
  <2>3. CASE /\ row[busy[p].job].state = "queued" /\ busy[p].job \notin Cancelled({busy[p].job})
             /\ \E w \in Starter : run[w].phase = "idle" /\ Take(w, busy[p].job, {busy[p].job})
    BY <2>0, <2>3, TakeStep DEF Worker
  <2>. QED
    BY <1>2, <2>1, <2>2, <2>3 DEF StartTask
<1>. QED
  BY <1>1, <1>2

LEMMA RunAttempts ==
  ASSUME IInv, TypeOK', NEW w \in Worker, Beat(w) \/ Settling(w)
  PROVE  IInv'
<1>0. /\ TypeOK /\ run[w] \in Run /\ run[w].job \in Job /\ row[run[w].job] \in Row
      /\ UNCHANGED row => \A j \in Job : Calm(row[j], row'[j])
      /\ EndRun(w) => \A v \in Worker : Onward(run[v], run'[v])
  BY EndRunOnward DEF IInv, TypeOK, Run, Calm
<1>1. CASE Begin(w)
  <2>1. CASE row[run[w].job].cancel
    BY <1>0, <1>1, <2>1, FailCalm, CalmStep DEF Begin
  <2>2. CASE ~row[run[w].job].cancel
    <3>1. \A v \in Worker : Onward(run[v], run'[v])
      BY <1>0, <1>1, <2>2 DEF Begin, Onward, TypeOK, Run
    <3>. QED
      BY <1>0, <1>1, <2>2, <3>1, CalmStep DEF Begin
  <2>. QED
    BY <2>1, <2>2
<1>2. CASE Beat(w)
  <2>1. \A v \in Worker : Onward(run[v], run'[v])
    BY <1>0, <1>2 DEF Beat, Onward, TypeOK, Run, InHandler
  <2>2. \A j \in Job : Calm(row[j], row'[j])
    BY <1>0, <1>2 DEF Beat, Settle, Calm, TypeOK, Row, Owns
  <2>. QED
    BY <2>1, <2>2, CalmStep
<1>3. CASE Answer(w)
  <2>1. CASE run[w].job \in Task /\ Owns(w)
    BY <1>3, <2>1, RecordStep DEF Answer, InHandler
  <2>2. CASE run[w].job \in Task /\ ~Owns(w)
    <3>1. \A v \in Worker : Onward(run[v], run'[v])
      BY <1>0, <1>3, <2>2 DEF Answer, Onward, TypeOK, Run, InHandler
    <3>2. \A j \in Job : Calm(row[j], row'[j])
      BY <1>0, <1>3, <2>2 DEF Answer, recordOutcome, Settle, TypeOK, Calm
    <3>. QED
      BY <3>1, <3>2, CalmStep
  <2>3. CASE run[w].job \notin Task
    <3>1. \A v \in Worker : Onward(run[v], run'[v])
      BY <1>0, <1>3, <2>3 DEF Answer, Onward, TypeOK, Run, InHandler
    <3>. QED
      BY <1>0, <1>3, <2>3, <3>1, CalmStep DEF Answer
  <2>. QED
    BY <2>1, <2>2, <2>3
<1>4. CASE ToolError(w)
  <2>1. CASE Owns(w)
    BY <1>4, <2>1, RecordStep DEF ToolError, InHandler
  <2>2. CASE ~Owns(w)
    <3>1. \A v \in Worker : Onward(run[v], run'[v])
      BY <1>0, <1>4, <2>2 DEF ToolError, Onward, TypeOK, Run, InHandler
    <3>2. \A j \in Job : Calm(row[j], row'[j])
      BY <1>0, <1>4, <2>2 DEF ToolError, recordOutcome, Settle, TypeOK, Calm
    <3>. QED
      BY <3>1, <3>2, CalmStep
  <2>. QED
    BY <2>1, <2>2
<1>5. CASE Throw(w)
  <2>1. \A v \in Worker : Onward(run[v], run'[v])
    BY <1>0, <1>5 DEF Throw, Onward, TypeOK, Run, InHandler
  <2>. QED
    BY <1>0, <1>5, <2>1, CalmStep DEF Throw
<1>6. CASE Complete(w)
  BY <1>6, CompleteStep
<1>7. CASE Catch(w)
  BY <1>0, <1>7, FailCalm, CalmStep DEF Catch
<1>. QED
  BY <1>1, <1>2, <1>3, <1>4, <1>5, <1>6, <1>7 DEF Settling

LEMMA NextAttempts == IInv /\ [Next]_vars => IInv'
<1>. SUFFICES ASSUME IInv, [Next]_vars PROVE IInv'
  OBVIOUS
<1>0. TypeOK /\ TypeOK'
  BY NextTyped DEF IInv
<1>1. CASE UNCHANGED vars
  BY <1>0, <1>1, CalmStep, RestOnward DEF vars, Calm
<1>2. CASE Next
  <2>1. CASE \/ \E p \in Proc : EnqueueRead(p) \/ EnqueueDelete(p) \/ EnqueueInsert(p) \/ CancelWrite(p)
             \/ \E t \in Task, p \in Proc : Offload(t, p) \/ CancelRead(t, p)
             \/ \E t \in Task : BudgetSpent(t) \/ CallAborted(t)
    BY <1>0, <2>1, ClientCalm, RestOnward, CalmStep
  <2>2. CASE (\E w \in Worker : Claim(w)) \/ (\E p \in Proc : StartTask(p))
    BY <1>0, <2>2, ClaimAttempts
  <2>3. CASE \E w \in Worker : Beat(w) \/ Settling(w)
    BY <1>0, <2>3, RunAttempts
  <2>4. CASE \/ \E j \in Job : Lapse(j) \/ ComeDue(j) \/ Sweep(j)
             \/ \E p \in Proc : Stop(p) \/ Restart(p)
    BY <1>0, <2>4, EnvironmentCalm, CalmStep
  <2>. QED
    BY <1>2, <2>1, <2>2, <2>3, <2>4 DEF Next, Proceed
<1>. QED
  BY <1>1, <1>2

(* A task that reads completed carries the result of the attempt that      *)
(* completed it (recordOutcome before complete, both under the lease).     *)
THEOREM ResultFirst == Spec => []CompletedHasResult
<1>1. IInv => CompletedHasResult
  BY DEF IInv
<1>. QED
  BY InitAttempts, NextAttempts, <1>1, PTL DEF Spec

-----------------------------------------------------------------------------
(* A run that no longer holds its lease writes nothing.                    *)

LEMMA NotOwner ==
  ASSUME IInv, NEW w \in Worker, run[w].attempt < row[run[w].job].attempt
  PROVE  ~Owns(w)
<1>1. run[w].attempt \in Nat /\ row[run[w].job].attempt \in Nat
  BY DEF IInv, TypeOK, Run, Row
<1>. QED
  BY <1>1, OwnsCurrent

LEMMA SilentStep == IInv /\ [Next]_vars => [Silent]_vars
<1>. SUFFICES ASSUME IInv, Next,
                     NEW w \in Worker, run[w].phase # "idle", run'[w] # run[w],
                     run[w].attempt < row[run[w].job].attempt
              PROVE  row'[run[w].job] = row[run[w].job]
  BY DEF Silent
<1>0. TypeOK /\ run[w].job \in Job /\ ~Owns(w)
  BY NotOwner DEF IInv, TypeOK, Run
<1>1. CASE \/ \E p \in Proc : EnqueueRead(p) \/ EnqueueDelete(p) \/ EnqueueInsert(p) \/ CancelWrite(p)
           \/ \E t \in Task, p \in Proc : Offload(t, p) \/ CancelRead(t, p)
           \/ \E t \in Task : BudgetSpent(t) \/ CallAborted(t)
  BY <1>0, <1>1, ClientCalm
<1>2. CASE (\E v \in Worker : Claim(v)) \/ (\E p \in Proc : StartTask(p))
  <2>1. UNCHANGED run \/ \E v \in Worker, j \in Job, S \in {Job} \cup {{busy[p].job} : p \in Proc} :
                           run[v].phase = "idle" /\ Take(v, j, S)
    <3>1. \A p \in Proc : busy[p].job \in Job
      BY <1>0 DEF TypeOK
    <3>2. ASSUME NEW v \in Worker, Claim(v)
          PROVE  UNCHANGED run \/ \E j \in Job : run[v].phase = "idle" /\ Take(v, j, Job)
      BY <3>2 DEF Claim
    <3>3. ASSUME NEW p \in Proc, StartTask(p)
          PROVE  UNCHANGED run \/ \E v \in Worker : run[v].phase = "idle" /\ Take(v, busy[p].job, {busy[p].job})
      BY <3>3 DEF StartTask, Worker
    <3>. QED
      BY <1>2, <3>1, <3>2, <3>3
  <2>. QED
    BY <1>0, <2>1 DEF Take, TypeOK
<1>3. CASE \E v \in Worker : Beat(v) \/ Settling(v)
  <2>1. PICK v \in Worker : Beat(v) \/ Settling(v)
    BY <1>3
  <2>2. v = w
    BY <1>0, <2>1 DEF Settling, Beat, Begin, Answer, ToolError, Throw, Complete, Catch, EndRun, TypeOK
  <2>3. \A b : fail(w, b) => row'[run[w].job] = row[run[w].job]
    BY <1>0 DEF fail, Settle, TypeOK
  <2>. QED
    BY <1>0, <2>1, <2>2, <2>3
       DEF Settling, Beat, Begin, Answer, ToolError, Throw, Complete, Catch, recordOutcome, Settle, TypeOK
<1>4. CASE \/ \E j \in Job : Lapse(j) \/ ComeDue(j) \/ Sweep(j)
           \/ \E p \in Proc : Stop(p) \/ Restart(p)
  BY <1>0, <1>4 DEF Lapse, ComeDue, Sweep, Stop, Restart
<1>. QED
  BY <1>1, <1>2, <1>3, <1>4 DEF Next, Proceed

(* A run whose job has been claimed again leaves the row alone, whatever   *)
(* it still does (newLeaseToken, and the guard on lease_owner).            *)
THEOREM SupersededKept == Spec => SupersededSilent
BY InitAttempts, NextAttempts, SilentStep, PTL DEF Spec, SupersededSilent

-----------------------------------------------------------------------------
(* While no lease lapses under a live run, a run that has not been settled *)
(* holds a lease that is alive, or is cancelled and so not claimed again.  *)
(* Hence no two runs of a job, and no more live leases than a class allows.*)

Waits == \A p \in Proc : busy[p].at = "start" \/ busy[p].at = "cancel" => busy[p].job \in Task

KeyedKept == \A k \in Keyed : ~row[k].cancel

Settled(r) == r.state \in Terminal \cup {"gone"}

Holding ==
  lapses = 0 => \A w \in Worker : run[w].phase # "idle" =>
    \/ Settled(row[run[w].job])
    \/ Owns(w) /\ (row[run[w].job].alive \/ row[run[w].job].cancel)

CapHeld == lapses = 0 => ClassCap

SInv == IInv /\ Waits /\ KeyedKept /\ Holding /\ NoOverlap /\ CapHeld

LEMMA CrowdCounted ==
  /\ IsFiniteSet(Crowd) /\ Cardinality(Crowd) \in Nat
  /\ \A S : S \subseteq Crowd => Cardinality(S) <= Cardinality(Crowd)
  /\ \A S, j : S \subseteq Crowd \cup {j} => Cardinality(S) <= Cardinality(Crowd) + 1
<1>1. IsFiniteSet(Keyed)
  BY JobQueueAssumption
<1>2. IsFiniteSet(Crowd)
  BY <1>1, FS_Subset DEF Crowd
<1>3. ASSUME NEW S, NEW j, S \subseteq Crowd \cup {j}
      PROVE  Cardinality(S) <= Cardinality(Crowd) + 1
  <2>1. IsFiniteSet(Crowd \cup {j})
        /\ (Cardinality(Crowd \cup {j}) = Cardinality(Crowd) + 1
            \/ Cardinality(Crowd \cup {j}) = Cardinality(Crowd))
    BY <1>2, FS_AddElement
  <2>2. IsFiniteSet(S) /\ Cardinality(S) <= Cardinality(Crowd \cup {j})
    BY <1>3, <2>1, FS_Subset
  <2>. QED
    BY <1>2, <2>1, <2>2, FS_CardinalityType
<1>. QED
  BY <1>2, <1>3, FS_Subset, FS_CardinalityType

LEMMA InitHolding == Init => SInv
<1>. SUFFICES ASSUME Init PROVE SInv
  OBVIOUS
<1>1. IInv
  BY InitAttempts
<1>2. /\ \A j \in Job : row[j].state = "absent" /\ ~row[j].cancel
      /\ \A w \in Worker : run[w].phase = "idle"
      /\ \A p \in Proc : busy[p].at = "free"
      /\ Keyed \subseteq Job
  BY DEF Init, Queued, AtRest, Job
<1>3. Crowd = {}
  BY <1>2 DEF Crowd
<1>4. ClassCap
  BY <1>3, FS_EmptySet, JobQueueAssumption DEF ClassCap
<1>. QED
  BY <1>1, <1>2, <1>4 DEF SInv, Waits, KeyedKept, Holding, NoOverlap, CapHeld

\* Rows that end, begin, or keep their lease; runs that go on or end.
Kept(r, s) ==
  \/ s = r
  \/ Settled(s)
  \/ r.state = "absent" /\ s.state = "queued"
  \/ /\ s.state = r.state /\ s.owner = r.owner
     /\ r.alive => s.alive
     /\ r.cancel => s.cancel

\* A run that has not ended is the run it was.
Same(r, s) == s.phase # "idle" => r.phase # "idle" /\ s.job = r.job /\ s.attempt = r.attempt

LEMMA KeptRuns ==
  ASSUME SInv, lapses' = lapses, Crowd' \subseteq Crowd,
         \A j \in Job : Kept(row[j], row'[j]),
         \A w \in Worker : Same(run[w], run'[w])
  PROVE  Holding' /\ NoOverlap' /\ CapHeld'
<1>0. \A w \in Worker : run[w].job \in Job
  BY DEF SInv, IInv, TypeOK, Run
<1>1. Holding'
  <2>. SUFFICES ASSUME lapses = 0, NEW w \in Worker, run'[w].phase # "idle"
                PROVE  \/ Settled(row'[run'[w].job])
                       \/ /\ Owns(w)'
                          /\ row'[run'[w].job].alive \/ row'[run'[w].job].cancel
    BY DEF Holding, Settled
  <2>1. run[w].phase # "idle" /\ run'[w].job = run[w].job /\ run'[w].attempt = run[w].attempt
    BY DEF Same
  <2>2. row[run[w].job].state # "absent" /\ Kept(row[run[w].job], row'[run[w].job])
    BY <1>0, <2>1 DEF SInv, IInv, Begun
  <2>3. CASE Settled(row[run[w].job])
    BY <2>1, <2>2, <2>3 DEF Kept, Settled
  <2>4. CASE Owns(w) /\ (row[run[w].job].alive \/ row[run[w].job].cancel)
    BY <2>1, <2>2, <2>4 DEF Kept, Owns, Token
  <2>. QED
    BY <2>1, <2>3, <2>4 DEF SInv, Holding
<1>2. NoOverlap'
  BY DEF SInv, NoOverlap, Same
<1>3. CapHeld'
  <2>1. Cardinality(Crowd') <= Cardinality(Crowd) /\ Cardinality(Crowd) \in Nat /\ IsFiniteSet(Crowd')
    BY CrowdCounted, FS_Subset
  <2>2. Cardinality(Crowd') \in Nat
    BY <2>1, FS_CardinalityType
  <2>. QED
    BY <2>1, <2>2, JobQueueAssumption DEF SInv, CapHeld, ClassCap
<1>. QED
  BY <1>1, <1>2, <1>3

LEMMA KeptStep ==
  ASSUME SInv, lapses' = lapses, Crowd' \subseteq Crowd,
         \A j \in Job : Kept(row[j], row'[j]),
         \A w \in Worker : Onward(run[w], run'[w])
  PROVE  Holding' /\ NoOverlap' /\ CapHeld'
<1>1. \A w \in Worker : Same(run[w], run'[w])
  BY DEF Onward, Same
<1>. QED
  BY <1>1, KeptRuns

\* A run ends, and its row becomes what it may.
LEMMA EndStep ==
  ASSUME SInv, NEW w \in Worker, run[w].phase # "idle", lapses' = lapses, Crowd' \subseteq Crowd, EndRun(w),
         \A j \in Job : j # run[w].job => row'[j] = row[j]
  PROVE  Holding' /\ NoOverlap' /\ CapHeld'
<1>0. /\ \A v \in Worker : run[v].job \in Job
      /\ \A v \in Worker : v # w => run'[v] = run[v]
      /\ run'[w].phase = "idle"
  BY DEF SInv, IInv, TypeOK, Run, EndRun, Idle
<1>1. Holding'
  <2>. SUFFICES ASSUME lapses = 0, NEW v \in Worker, run'[v].phase # "idle"
                PROVE  \/ Settled(row'[run'[v].job])
                       \/ /\ Owns(v)'
                          /\ row'[run'[v].job].alive \/ row'[run'[v].job].cancel
    BY DEF Holding, Settled
  <2>1. v # w /\ run'[v] = run[v] /\ run[v].job # run[w].job
    BY <1>0 DEF SInv, NoOverlap
  <2>2. row'[run[v].job] = row[run[v].job]
    BY <1>0, <2>1
  <2>. QED
    BY <2>1, <2>2 DEF SInv, Holding, Settled, Owns, Token
<1>2. NoOverlap'
  BY <1>0 DEF SInv, NoOverlap
<1>3. CapHeld'
  <2>1. Cardinality(Crowd') <= Cardinality(Crowd) /\ Cardinality(Crowd) \in Nat /\ IsFiniteSet(Crowd')
    BY CrowdCounted, FS_Subset
  <2>2. Cardinality(Crowd') \in Nat
    BY <2>1, FS_CardinalityType
  <2>. QED
    BY <2>1, <2>2, JobQueueAssumption DEF SInv, CapHeld, ClassCap
<1>. QED
  BY <1>1, <1>2, <1>3

\* What the rows of a class keep in a step: alive only what was alive.
LEMMA CrowdKept ==
  ASSUME \A k \in Keyed : row'[k].state = "running" /\ row'[k].alive
                            => row[k].state = "running" /\ row[k].alive
  PROVE  Crowd' \subseteq Crowd
BY DEF Crowd

LEMMA FinalizeKept ==
  ASSUME TypeOK, NEW S
  PROVE  /\ \A j \in Job : Kept(row[j], Finalize(S)[j])
         /\ \A j \in Job : Finalize(S)[j].state = "running" => Finalize(S)[j] = row[j]
         /\ \A j \in Keyed : ~row[j].cancel => Finalize(S)[j] = row[j]
<1>0. Keyed \subseteq Job /\ \A j \in Job : row[j] \in Row
  BY DEF TypeOK, Job
<1>1. \A j \in Job : Finalize(S)[j] = row[j] \/ Finalize(S)[j] = Dead(row[j])
  BY DEF Finalize
<1>2. \A j \in Job : Dead(row[j]).state = "failed"
  BY <1>0 DEF Dead, Row
<1>3. \A j \in Keyed : ~row[j].cancel => Finalize(S)[j] = row[j]
  BY <1>0 DEF Finalize, Cancelled
<1>. QED
  BY <1>1, <1>2, <1>3 DEF Kept, Settled, Terminal

\* A claim, of a job no unsettled run has.
LEMMA TakeHolding ==
  ASSUME SInv, NEW w \in Worker, NEW j \in Job, NEW S, S = Job \/ S = {j},
         run[w].phase = "idle", j \notin Cancelled(S),
         row[j].state \in {"queued", "retrying"} \/ (row[j].state = "running" /\ ~row[j].alive),
         UnderLimit(j), Take(w, j, S), lapses' = lapses
  PROVE  Holding' /\ NoOverlap' /\ CapHeld'
<1>. DEFINE n == row[j].attempt + 1
<1>0. /\ TypeOK /\ row[j] \in Row /\ row[j].attempt \in Nat /\ Keyed \subseteq Job
      /\ \A v \in Worker : run[v] \in Run /\ run[v].job \in Job
  BY DEF SInv, IInv, TypeOK, Row, Run, Job
<1>1. /\ row'[j] = Leased(row[j], w)
      /\ \A k \in Job : k # j => row'[k] = Finalize(S)[k]
  BY DEF Take, Finalize
<1>2. row'[j].state = "running" /\ row'[j].owner = Token(w, n) /\ row'[j].alive
  BY <1>0, <1>1 DEF Leased, Row
<1>3. /\ run'[w].job = j /\ run'[w].attempt = n /\ run'[w].phase = "claimed"
      /\ \A v \in Worker : v # w => run'[v] = run[v]
  BY <1>0 DEF Take, TypeOK
<1>4. \A k \in Job : k # j => Kept(row[k], row'[k])
  BY <1>0, <1>1, FinalizeKept
<1>5. ASSUME lapses = 0, NEW v \in Worker, v # w, run[v].phase # "idle"
      PROVE  run[v].job # j
  <2>. SUFFICES ASSUME run[v].job = j PROVE FALSE
    OBVIOUS
  <2>1. Owns(v) /\ (row[j].alive \/ row[j].cancel)
    BY <1>5 DEF SInv, Holding, Settled, Terminal
  <2>2. row[j].cancel /\ Unstarted(row[j])
    BY <2>1 DEF Owns, Unstarted
  <2>. QED
    BY <2>2 DEF Cancelled
<1>6. Holding'
  <2>. SUFFICES ASSUME lapses = 0, NEW v \in Worker, run'[v].phase # "idle"
                PROVE  \/ Settled(row'[run'[v].job])
                       \/ /\ Owns(v)'
                          /\ row'[run'[v].job].alive \/ row'[run'[v].job].cancel
    BY DEF Holding, Settled
  <2>1. CASE v = w
    BY <1>2, <1>3, <2>1 DEF Owns, Token
  <2>2. CASE v # w
    <3>1. run'[v] = run[v] /\ run[v].job # j /\ run[v].job \in Job
      BY <1>0, <1>3, <1>5, <2>2
    <3>2. Kept(row[run[v].job], row'[run[v].job]) /\ row[run[v].job].state # "absent"
      BY <1>4, <3>1 DEF SInv, IInv, Begun
    <3>. QED
      BY <3>1, <3>2 DEF SInv, Holding, Kept, Settled, Owns, Token
  <2>. QED
    BY <2>1, <2>2
<1>7. NoOverlap'
  BY <1>3, <1>5 DEF SInv, NoOverlap
<1>8. CapHeld'
  <2>. SUFFICES ASSUME lapses = 0 PROVE ClassCap'
    BY DEF CapHeld
  <2>1. \A k \in Keyed : k # j /\ row'[k].state = "running" /\ row'[k].alive
                         => row[k].state = "running" /\ row[k].alive
    BY <1>0, <1>1, FinalizeKept
  <2>2. Crowd' \subseteq Crowd \cup {j}
    BY <2>1 DEF Crowd
  <2>3. IsFiniteSet(Crowd')
    BY <2>2, CrowdCounted, FS_AddElement, FS_Subset
  <2>4. Cardinality(Crowd') \in Nat
    BY <2>3, FS_CardinalityType
  <2>5. CASE j \in Keyed
    <3>1. Cardinality(Crowd) < ClassLimit
      BY <2>5 DEF UnderLimit
    <3>2. Cardinality(Crowd') <= Cardinality(Crowd) + 1
      BY <2>2, CrowdCounted
    <3>3. Cardinality(Crowd) \in Nat /\ ClassLimit \in Nat
      BY CrowdCounted, JobQueueAssumption
    <3>4. Cardinality(Crowd') <= ClassLimit
      BY <2>4, <3>1, <3>2, <3>3
    <3>. QED
      BY <3>4 DEF ClassCap
  <2>6. CASE j \notin Keyed
    <3>1. Crowd' \subseteq Crowd
      BY <2>2, <2>6 DEF Crowd
    <3>. QED
      BY <2>4, <3>1, CrowdCounted, JobQueueAssumption DEF SInv, CapHeld, ClassCap
  <2>. QED
    BY <2>5, <2>6
<1>. QED
  BY <1>6, <1>7, <1>8

\* Only tasks are started or cancelled by id, and keyed rows never are.
LEMMA TaskOnly == SInv /\ [Next]_vars => Waits' /\ KeyedKept'
<1>. SUFFICES ASSUME SInv, [Next]_vars PROVE Waits' /\ KeyedKept'
  OBVIOUS
<1>0. /\ TypeOK /\ Keyed \subseteq Job /\ Task \subseteq Job
      /\ \A k \in Keyed : k \notin Task
      /\ \A j \in Job : row[j] \in Row
      /\ ~Queued.cancel /\ ~[Queued EXCEPT !.state = "gone"].cancel
  BY JobQueueAssumption DEF SInv, IInv, TypeOK, Job, Queued
<1>1. Waits'
  <2>1. ASSUME NEW p \in Proc, EnqueueRead(p) \/ EnqueueDelete(p) \/ EnqueueInsert(p) \/ CancelWrite(p) \/ StartTask(p) PROVE Waits'
    BY <1>0, <2>1 DEF SInv, Waits, TypeOK, AtRest, EnqueueRead, EnqueueDelete, EnqueueInsert, CancelWrite, StartTask
  <2>2. ASSUME NEW t \in Task, NEW p \in Proc, Offload(t, p) \/ CancelRead(t, p) PROVE Waits'
    BY <1>0, <2>2 DEF SInv, Waits, TypeOK, Offload, CancelRead
  <2>3. ASSUME NEW p \in Proc, Restart(p) PROVE Waits'
    BY <1>0, <2>3 DEF SInv, Waits, TypeOK, AtRest, Restart
  <2>4. CASE UNCHANGED busy
    BY <2>4 DEF SInv, Waits
  <2>5. CASE \E p \in Proc : Stop(p)
    BY <2>4, <2>5 DEF Stop
  <2>6. CASE \E t \in Task : BudgetSpent(t) \/ CallAborted(t)
    BY <2>4, <2>6 DEF BudgetSpent, CallAborted
  <2>7. CASE \E w \in Worker : Claim(w) \/ Beat(w) \/ Settling(w)
    BY <2>4, <2>7 DEF Claim, Beat, Settling, Begin, Answer, ToolError, Throw, Complete, Catch
  <2>8. CASE \E j \in Job : Lapse(j) \/ ComeDue(j) \/ Sweep(j)
    BY <2>4, <2>8 DEF Lapse, ComeDue, Sweep
  <2>. QED
    BY <2>1, <2>2, <2>3, <2>4, <2>5, <2>6, <2>7, <2>8 DEF Next, Proceed, vars
<1>2. KeyedKept'
  <2>0. ASSUME UNCHANGED row PROVE KeyedKept'
    BY <2>0 DEF SInv, KeyedKept
  <2>1. ASSUME NEW p \in Proc, EnqueueRead(p) \/ EnqueueDelete(p) \/ EnqueueInsert(p) PROVE KeyedKept'
    BY <1>0, <2>0, <2>1 DEF SInv, KeyedKept, TypeOK, EnqueueRead, EnqueueDelete, EnqueueInsert
  <2>2. ASSUME NEW t \in Task, requestCancel(t) PROVE KeyedKept'
    BY <1>0, <2>2 DEF SInv, KeyedKept, TypeOK, requestCancel
  <2>3. ASSUME NEW p \in Proc, CancelWrite(p) PROVE KeyedKept'
    BY <2>2, <2>3 DEF SInv, Waits, CancelWrite
  <2>4. ASSUME NEW t \in Task, CallAborted(t) \/ BudgetSpent(t) PROVE KeyedKept'
    BY <2>0, <2>2, <2>4 DEF CallAborted, BudgetSpent
  <2>5. ASSUME NEW t \in Task, NEW p \in Proc, Offload(t, p) \/ CancelRead(t, p) PROVE KeyedKept'
    BY <1>0, <2>0, <2>5 DEF SInv, KeyedKept, TypeOK, Offload, CancelRead
  <2>6. ASSUME NEW S, row' = Finalize(S) PROVE KeyedKept'
    BY <1>0, <2>6, FinalizeKept DEF SInv, KeyedKept
  <2>7. ASSUME NEW w \in Worker, NEW j \in Job, NEW S, Take(w, j, S) PROVE KeyedKept'
    <3>0. Finalize(S) \in [Job -> Row]
      BY <1>0, FinalizeTyped
    <3>1. /\ row'[j] = Leased(Finalize(S)[j], w)
          /\ \A k \in Job : k # j => row'[k] = Finalize(S)[k]
      BY <2>7, <3>0 DEF Take
    <3>2. \A q \in Row : Leased(q, w).cancel = q.cancel
      BY DEF Leased, Row
    <3>. QED
      BY <1>0, <3>0, <3>1, <3>2, FinalizeKept DEF SInv, KeyedKept
  <2>8. CASE (\E w \in Worker : Claim(w)) \/ (\E p \in Proc : StartTask(p))
    <3>1. \A p \in Proc : busy[p].job \in Job
      BY <1>0 DEF TypeOK
    <3>. QED
      BY <2>0, <2>6, <2>7, <2>8, <3>1 DEF Claim, StartTask, Worker
  <2>9. ASSUME NEW w \in Worker, Beat(w) \/ Settling(w) PROVE KeyedKept'
    <3>1. run[w].job \in Job /\ row[run[w].job] \in Row
      BY <1>0 DEF TypeOK, Run
    <3>2. ASSUME NEW q \in Row, q.cancel = row[run[w].job].cancel, Settle(w, q) PROVE KeyedKept'
      BY <1>0, <3>1, <3>2 DEF SInv, KeyedKept, Settle, TypeOK
    <3>3. /\ Dead(row[run[w].job]).cancel = row[run[w].job].cancel
          /\ [Dead(row[run[w].job]) EXCEPT !.state = "retrying"].cancel = row[run[w].job].cancel
          /\ [row[run[w].job] EXCEPT !.state = "complete", !.owner = NoLease, !.alive = FALSE].cancel
               = row[run[w].job].cancel
          /\ [row[run[w].job] EXCEPT !.alive = TRUE].cancel = row[run[w].job].cancel
          /\ \A tag, n : [row[run[w].job] EXCEPT !.outcome = [tag |-> tag, by |-> n]].cancel
                            = row[run[w].job].cancel
      BY <3>1 DEF Dead, Row
    <3>4. /\ Dead(row[run[w].job]) \in Row /\ [Dead(row[run[w].job]) EXCEPT !.state = "retrying"] \in Row
          /\ [row[run[w].job] EXCEPT !.state = "complete", !.owner = NoLease, !.alive = FALSE] \in Row
          /\ [row[run[w].job] EXCEPT !.alive = TRUE] \in Row
          /\ \A tag \in {"ok", "error"} :
               [row[run[w].job] EXCEPT !.outcome = [tag |-> tag, by |-> run[w].attempt]] \in Row
      <4>1. run[w].attempt \in Nat
        BY <1>0 DEF TypeOK, Run
      <4>. QED
        BY <1>0, <3>1, <4>1, DeadTyped, WritesTyped
    <3>5. ASSUME NEW b, fail(w, b) PROVE KeyedKept'
      BY <3>1, <3>2, <3>3, <3>4, <3>5 DEF fail
    <3>6. ASSUME NEW tag \in {"ok", "error"}, recordOutcome(w, tag) PROVE KeyedKept'
      BY <3>1, <3>2, <3>3, <3>4, <3>6 DEF recordOutcome
    <3>7. CASE Beat(w)
      BY <2>0, <3>1, <3>2, <3>3, <3>4, <3>7 DEF Beat
    <3>8. CASE Begin(w) \/ Catch(w)
      BY <2>0, <3>5, <3>8 DEF Begin, Catch
    <3>9. CASE Answer(w) \/ ToolError(w) \/ Throw(w)
      BY <2>0, <3>6, <3>9 DEF Answer, ToolError, Throw
    <3>10. CASE Complete(w)
      BY <3>1, <3>2, <3>3, <3>4, <3>10 DEF Complete
    <3>. QED
      BY <2>9, <3>7, <3>8, <3>9, <3>10 DEF Settling
  <2>10. ASSUME NEW j \in Job, Lapse(j) \/ ComeDue(j) \/ Sweep(j) PROVE KeyedKept'
    <3>1. /\ \A k \in Job : k # j => row'[k] = row[k]
          /\ \/ row'[j] = [row[j] EXCEPT !.alive = FALSE]
             \/ row'[j] = [row[j] EXCEPT !.due = TRUE]
             \/ row'[j] = [Queued EXCEPT !.state = "gone"]
      BY <1>0, <2>10 DEF Lapse, ComeDue, Sweep, TypeOK
    <3>2. /\ [row[j] EXCEPT !.alive = FALSE].cancel = row[j].cancel
          /\ [row[j] EXCEPT !.due = TRUE].cancel = row[j].cancel
      BY <1>0 DEF Row
    <3>3. row'[j].cancel => row[j].cancel
      BY <1>0, <3>1, <3>2
    <3>. QED
      BY <1>0, <3>1, <3>3 DEF SInv, KeyedKept
  <2>11. ASSUME NEW p \in Proc, Stop(p) \/ Restart(p) PROVE KeyedKept'
    BY <2>0, <2>11 DEF Stop, Restart
  <2>. QED
    BY <2>0, <2>1, <2>3, <2>4, <2>5, <2>8, <2>9, <2>10, <2>11 DEF Next, Proceed, vars
<1>. QED
  BY <1>1, <1>2

LEMMA ClientHolding ==
  ASSUME SInv,
         \/ \E p \in Proc : EnqueueRead(p) \/ EnqueueDelete(p) \/ EnqueueInsert(p) \/ CancelWrite(p)
         \/ \E t \in Task, p \in Proc : Offload(t, p) \/ CancelRead(t, p)
         \/ \E t \in Task : BudgetSpent(t) \/ CallAborted(t)
  PROVE  Holding' /\ NoOverlap' /\ CapHeld'
<1>. DEFINE Goal == /\ \A j \in Job : Kept(row[j], row'[j])
                    /\ \A j \in Job : row'[j].state = "running" /\ row'[j].alive
                                        => row[j].state = "running" /\ row[j].alive
                    /\ UNCHANGED <<run, lapses>>
<1>0. /\ TypeOK /\ Task \subseteq Job /\ Keyed \subseteq Job /\ \A p \in Proc : busy[p].job \in Job
      /\ \A j \in Job : row[j] \in Row
      /\ UNCHANGED row => \A j \in Job : Kept(row[j], row'[j])
      /\ Queued.state = "queued" /\ [Queued EXCEPT !.state = "gone"].state = "gone"
  BY DEF SInv, IInv, TypeOK, Job, Kept, Queued
<1>1. ASSUME NEW p \in Proc, EnqueueRead(p) PROVE Goal
  BY <1>0, <1>1 DEF EnqueueRead
<1>2. ASSUME NEW p \in Proc, EnqueueDelete(p) PROVE Goal
  BY <1>0, <1>2 DEF EnqueueDelete, Kept, Settled, TypeOK
<1>3. ASSUME NEW p \in Proc, EnqueueInsert(p) PROVE Goal
  BY <1>0, <1>3 DEF EnqueueInsert, Kept, TypeOK
<1>4. ASSUME NEW p \in Proc, NEW t \in Task, Offload(t, p) PROVE Goal
  BY <1>0, <1>4 DEF Offload, Kept, TypeOK
<1>5. ASSUME NEW t \in Job, requestCancel(t), UNCHANGED <<run, lapses>> PROVE Goal
  <2>1. /\ \A j \in Job : j # t => row'[j] = row[j]
        /\ row'[t] = row[t] \/ row'[t] = [row[t] EXCEPT !.cancel = TRUE]
    BY <1>0, <1>5 DEF requestCancel, TypeOK
  <2>. QED
    BY <1>0, <1>5, <2>1 DEF Kept, Row
<1>6. ASSUME NEW t \in Task, BudgetSpent(t) \/ CallAborted(t) PROVE Goal
  BY <1>0, <1>5, <1>6 DEF BudgetSpent, CallAborted
<1>7. ASSUME NEW p \in Proc, NEW t \in Task, CancelRead(t, p) PROVE Goal
  BY <1>0, <1>7 DEF CancelRead
<1>8. ASSUME NEW p \in Proc, CancelWrite(p) PROVE Goal
  BY <1>0, <1>5, <1>8 DEF CancelWrite
<1>9. Goal
  BY <1>1, <1>2, <1>3, <1>4, <1>6, <1>7, <1>8
<1>. QED
  BY <1>0, <1>9, RestOnward, CrowdKept, KeptStep

LEMMA ClaimHolding ==
  ASSUME SInv, (\E w \in Worker : Claim(w)) \/ (\E p \in Proc : StartTask(p))
  PROVE  Holding' /\ NoOverlap' /\ CapHeld'
<1>0. /\ TypeOK /\ Keyed \subseteq Job /\ \A j \in Keyed : j \notin Task
      /\ UNCHANGED row => \A j \in Job : Kept(row[j], row'[j])
  BY JobQueueAssumption DEF SInv, IInv, Job, Kept
<1>1. ASSUME NEW S, row' = Finalize(S), UNCHANGED <<run, lapses>>
      PROVE  Holding' /\ NoOverlap' /\ CapHeld'
  BY <1>0, <1>1, FinalizeKept, RestOnward, CrowdKept, KeptStep
<1>2. ASSUME NEW w \in Worker, Claim(w) PROVE Holding' /\ NoOverlap' /\ CapHeld'
  <2>1. CASE \E j \in Job \ Cancelled(Job) : Claimable(row[j]) /\ UnderLimit(j) /\ Take(w, j, Job)
    BY <1>2, <2>1, TakeHolding DEF Claim, Claimable
  <2>. QED
    BY <1>1, <1>2, <2>1 DEF Claim
<1>3. ASSUME NEW p \in Proc, StartTask(p) PROVE Holding' /\ NoOverlap' /\ CapHeld'
  <2>0. busy[p].job \in Task /\ busy[p].job \in Job /\ UnderLimit(busy[p].job)
    BY <1>0, <1>3 DEF SInv, Waits, StartTask, UnderLimit, Job
  <2>1. CASE UNCHANGED <<row, run>>
    BY <1>0, <1>3, <2>1, RestOnward, CrowdKept, KeptStep DEF StartTask
  <2>2. CASE row' = Finalize({busy[p].job}) /\ UNCHANGED run
    BY <1>1, <1>3, <2>2 DEF StartTask
  <2>3. CASE /\ row[busy[p].job].state = "queued" /\ busy[p].job \notin Cancelled({busy[p].job})
             /\ \E w \in Starter : run[w].phase = "idle" /\ Take(w, busy[p].job, {busy[p].job})
    BY <1>3, <2>0, <2>3, TakeHolding DEF Worker, StartTask
  <2>. QED
    BY <1>3, <2>1, <2>2, <2>3 DEF StartTask
<1>. QED
  BY <1>2, <1>3

\* Once a live lease has lapsed, nothing is claimed of the rest.
LEMMA Lapsed ==
  ASSUME lapses' # 0
  PROVE  Holding' /\ NoOverlap' /\ CapHeld'
BY DEF Holding, NoOverlap, CapHeld

LEMMA RunHolding ==
  ASSUME SInv, NEW w \in Worker, Beat(w) \/ Settling(w)
  PROVE  Holding' /\ NoOverlap' /\ CapHeld'
<1>. DEFINE i == run[w].job
<1>0. /\ TypeOK /\ i \in Job /\ row[i] \in Row /\ Keyed \subseteq Job
      /\ UNCHANGED row => \A j \in Job : Kept(row[j], row'[j])
      /\ lapses' = lapses
  BY DEF SInv, IInv, TypeOK, Run, Job, Kept, Beat, Settling, Begin, Answer, ToolError, Throw, Complete, Catch
<1>1. ASSUME NEW b, fail(w, b)
      PROVE  (\A j \in Job : j # i => row'[j] = row[j]) /\ Crowd' \subseteq Crowd
  <2>1. /\ \A j \in Job : j # i => row'[j] = row[j]
        /\ row'[i] = row[i] \/ row'[i] = Dead(row[i]) \/ row'[i] = [Dead(row[i]) EXCEPT !.state = "retrying"]
    BY <1>0, <1>1 DEF fail, Settle, TypeOK
  <2>2. Dead(row[i]).state = "failed" /\ [Dead(row[i]) EXCEPT !.state = "retrying"].state = "retrying"
    BY <1>0 DEF Dead, Row
  <2>. QED
    BY <1>0, <2>1, <2>2, CrowdKept
<1>2. ASSUME NEW tag \in {"ok", "error"}, recordOutcome(w, tag)
      PROVE  (\A j \in Job : Kept(row[j], row'[j])) /\ Crowd' \subseteq Crowd
  <2>0. run[w].attempt \in Nat
    BY <1>0 DEF TypeOK, Run
  <2>1. /\ \A j \in Job : j # i => row'[j] = row[j]
        /\ row'[i] = row[i] \/ row'[i] = [row[i] EXCEPT !.outcome = [tag |-> tag, by |-> run[w].attempt]]
    BY <1>0, <1>2 DEF recordOutcome, Settle, TypeOK
  <2>2. row'[i].state = row[i].state /\ row'[i].owner = row[i].owner
        /\ row'[i].alive = row[i].alive /\ row'[i].cancel = row[i].cancel
    BY <1>0, <2>1 DEF Row
  <2>3. \A j \in Job : row'[j].state = row[j].state /\ row'[j].owner = row[j].owner
                       /\ row'[j].alive = row[j].alive /\ row'[j].cancel = row[j].cancel
    BY <2>1, <2>2
  <2>. QED
    BY <1>0, <2>3, CrowdKept DEF Kept
<1>3. CASE Begin(w)
  <2>1. CASE row[i].cancel
    BY <1>0, <1>1, <1>3, <2>1, EndStep DEF Begin
  <2>2. CASE ~row[i].cancel
    <3>1. \A v \in Worker : Onward(run[v], run'[v])
      BY <1>0, <1>3, <2>2 DEF Begin, Onward, TypeOK, Run
    <3>2. UNCHANGED row
      BY <1>3, <2>2 DEF Begin
    <3>. QED
      BY <1>0, <3>1, <3>2, CrowdKept, KeptStep
  <2>. QED
    BY <2>1, <2>2
<1>4. CASE Beat(w)
  <2>1. \A v \in Worker : Onward(run[v], run'[v])
    BY <1>0, <1>4 DEF Beat, Onward, TypeOK, Run, InHandler
  <2>2. CASE UNCHANGED row
    BY <1>0, <2>1, <2>2, CrowdKept, KeptStep
  <2>3. CASE lapses = 0 /\ Owns(w) /\ ~row[i].cancel /\ Settle(w, [row[i] EXCEPT !.alive = TRUE])
    <3>1. row[i].alive
      BY <1>4, <2>3 DEF SInv, Holding, Settled, Terminal, Beat, InHandler, Owns
    <3>2. [row[i] EXCEPT !.alive = TRUE] = row[i]
      BY <1>0, <3>1 DEF Row
    <3>3. \A j \in Job : row'[j] = row[j]
      BY <1>0, <2>3, <3>2 DEF Settle, TypeOK
    <3>. QED
      BY <1>0, <2>1, <3>3, CrowdKept, KeptStep DEF Kept
  <2>. QED
    BY <1>0, <1>4, <2>2, <2>3, Lapsed DEF Beat
<1>5. CASE Answer(w) \/ ToolError(w) \/ Throw(w)
  <2>1. CASE Answer(w)
    <3>1. \A v \in Worker : Same(run[v], run'[v])
      BY <1>0, <2>1 DEF Answer, Same, TypeOK, Run, InHandler
    <3>2. (\A j \in Job : Kept(row[j], row'[j])) /\ Crowd' \subseteq Crowd
      BY <1>0, <1>2, <2>1, CrowdKept DEF Answer
    <3>. QED
      BY <1>0, <3>1, <3>2, KeptRuns
  <2>2. CASE ToolError(w)
    <3>1. \A v \in Worker : Onward(run[v], run'[v])
      BY <1>0, <2>2 DEF ToolError, Onward, TypeOK, Run, InHandler
    <3>2. (\A j \in Job : Kept(row[j], row'[j])) /\ Crowd' \subseteq Crowd
      BY <1>2, <2>2 DEF ToolError
    <3>. QED
      BY <1>0, <3>1, <3>2, KeptStep
  <2>3. CASE Throw(w)
    <3>1. \A v \in Worker : Onward(run[v], run'[v])
      BY <1>0, <2>3 DEF Throw, Onward, TypeOK, Run, InHandler
    <3>. QED
      BY <1>0, <2>3, <3>1, CrowdKept, KeptStep DEF Throw
  <2>. QED
    BY <1>5, <2>1, <2>2, <2>3
<1>6. CASE Complete(w)
  <2>1. /\ \A j \in Job : j # i => row'[j] = row[j]
        /\ \/ row'[i] = row[i]
           \/ row'[i] = [row[i] EXCEPT !.state = "complete", !.owner = NoLease, !.alive = FALSE]
    BY <1>0, <1>6 DEF Complete, Settle, TypeOK
  <2>2. [row[i] EXCEPT !.state = "complete", !.owner = NoLease, !.alive = FALSE].state = "complete"
    BY <1>0 DEF Row
  <2>3. Crowd' \subseteq Crowd
    BY <1>0, <2>1, <2>2, CrowdKept
  <2>. QED
    BY <1>0, <1>6, <2>1, <2>3, EndStep DEF Complete
<1>7. CASE Catch(w)
  BY <1>0, <1>1, <1>7, CrowdKept, EndStep DEF Catch
<1>. QED
  BY <1>3, <1>4, <1>5, <1>6, <1>7 DEF Settling

LEMMA EnvironmentHolding ==
  ASSUME SInv,
         \/ \E j \in Job : Lapse(j) \/ ComeDue(j) \/ Sweep(j)
         \/ \E p \in Proc : Stop(p) \/ Restart(p)
  PROVE  Holding' /\ NoOverlap' /\ CapHeld'
<1>. DEFINE Goal == Holding' /\ NoOverlap' /\ CapHeld'
<1>0. /\ TypeOK /\ Keyed \subseteq Job /\ \A j \in Job : row[j] \in Row
      /\ UNCHANGED row => \A j \in Job : Kept(row[j], row'[j])
      /\ \A w \in Worker : Onward(run[w], run'[w])
  BY EnvironmentCalm DEF SInv, IInv, Job, Kept, TypeOK
<1>1. ASSUME NEW j \in Job, Lapse(j) PROVE Goal
  <2>0. row' = [row EXCEPT ![j].alive = FALSE] /\ UNCHANGED run
    BY <1>1 DEF Lapse
  <2>1. /\ row'[j].state = row[j].state /\ row'[j].owner = row[j].owner
        /\ row'[j].cancel = row[j].cancel /\ ~row'[j].alive /\ row'[j].attempt = row[j].attempt
        /\ \A k \in Job : k # j => row'[k] = row[k]
    BY <1>0, <2>0 DEF Row, TypeOK
  <2>2. Crowd' \subseteq Crowd
    BY <1>0, <2>1, CrowdKept
  <2>3. CASE Held(j) /\ ~row[j].cancel
    <3>1. lapses' = lapses + 1 /\ lapses \in Nat
      BY <1>0, <1>1, <2>3 DEF Lapse, TypeOK
    <3>. QED
      BY <3>1, Lapsed
  <2>4. CASE lapses' = lapses /\ (Held(j) => row[j].cancel)
    <3>0. \A w \in Worker : run[w].job \in Job
      BY <1>0 DEF TypeOK, Run
    <3>1. Holding'
      <4>. SUFFICES ASSUME lapses = 0, NEW w \in Worker, run[w].phase # "idle"
                    PROVE  \/ Settled(row'[run[w].job])
                           \/ /\ row'[run[w].job].state = "running"
                              /\ row'[run[w].job].owner = Token(w, run[w].attempt)
                              /\ row'[run[w].job].alive \/ row'[run[w].job].cancel
        BY <2>0, <2>4 DEF Holding, Settled, Owns, Token
      <4>1. CASE run[w].job # j
        BY <2>1, <3>0, <4>1 DEF SInv, Holding, Settled, Owns
      <4>2. CASE run[w].job = j /\ Owns(w)
        <5>1. Held(j)
          BY <4>2 DEF Held
        <5>. QED
          BY <2>1, <2>4, <4>2, <5>1 DEF Owns
      <4>3. CASE run[w].job = j /\ Settled(row[j])
        BY <2>1, <4>3 DEF Settled
      <4>. QED
        BY <4>1, <4>2, <4>3 DEF SInv, Holding
    <3>2. NoOverlap'
      BY <2>0, <2>4 DEF SInv, NoOverlap
    <3>3. CapHeld'
      <4>1. Cardinality(Crowd') <= Cardinality(Crowd) /\ Cardinality(Crowd) \in Nat /\ IsFiniteSet(Crowd')
        BY <2>2, CrowdCounted, FS_Subset
      <4>2. Cardinality(Crowd') \in Nat
        BY <4>1, FS_CardinalityType
      <4>. QED
        BY <2>4, <4>1, <4>2, JobQueueAssumption DEF SInv, CapHeld, ClassCap
    <3>. QED
      BY <3>1, <3>2, <3>3
  <2>. QED
    BY <1>1, <2>3, <2>4 DEF Lapse
<1>2. ASSUME NEW j \in Job, ComeDue(j) PROVE Goal
  <2>1. /\ row'[j].state = row[j].state /\ row'[j].owner = row[j].owner
        /\ row'[j].cancel = row[j].cancel /\ row'[j].alive = row[j].alive
        /\ \A k \in Job : k # j => row'[k] = row[k]
    BY <1>0, <1>2 DEF ComeDue, Row, TypeOK
  <2>2. \A k \in Job : Kept(row[k], row'[k])
    BY <2>1 DEF Kept
  <2>. QED
    BY <1>0, <1>2, <2>1, <2>2, CrowdKept, KeptStep DEF ComeDue
<1>3. ASSUME NEW j \in Job, Sweep(j) PROVE Goal
  <2>1. row'[j].state = "gone" /\ \A k \in Job : k # j => row'[k] = row[k]
    BY <1>0, <1>3 DEF Sweep, TypeOK, Queued
  <2>2. \A k \in Job : Kept(row[k], row'[k])
    BY <2>1 DEF Kept, Settled
  <2>. QED
    BY <1>0, <1>3, <2>1, <2>2, CrowdKept, KeptStep DEF Sweep
<1>4. ASSUME NEW p \in Proc, Stop(p) \/ Restart(p) PROVE Goal
  BY <1>0, <1>4, CrowdKept, KeptStep DEF Stop, Restart
<1>. QED
  BY <1>1, <1>2, <1>3, <1>4

LEMMA NextHolding == SInv /\ [Next]_vars => SInv'
<1>. SUFFICES ASSUME SInv, [Next]_vars PROVE SInv'
  OBVIOUS
<1>1. IInv' /\ Waits' /\ KeyedKept'
  BY NextAttempts, TaskOnly DEF SInv
<1>2. Holding' /\ NoOverlap' /\ CapHeld'
  <2>1. CASE UNCHANGED vars
    BY <2>1 DEF vars, SInv, Holding, NoOverlap, CapHeld, ClassCap, Crowd, Settled, Owns, Token
  <2>2. CASE Next
    BY <2>2, ClientHolding, ClaimHolding, RunHolding, EnvironmentHolding DEF Next, Proceed
  <2>. QED
    BY <2>1, <2>2
<1>. QED
  BY <1>1, <1>2 DEF SInv

(* While runs renew their leases in time, a job is in one worker only,     *)
(* crashes, shutdowns and cancels included (claim, heartbeat).             *)
THEOREM OneRunPerJob == Spec => []NoOverlap
<1>1. SInv => NoOverlap
  BY DEF SInv
<1>. QED
  BY InitHolding, NextHolding, <1>1, PTL DEF Spec

(* Under the same proviso, the live leases of a class never exceed its     *)
(* limit (ClaimOptions.classLimits).                                       *)
THEOREM ClassKept == Spec => [](lapses = 0 => ClassCap)
<1>1. SInv => (lapses = 0 => ClassCap)
  BY DEF SInv, CapHeld
<1>. QED
  BY InitHolding, NextHolding, <1>1, PTL DEF Spec

-----------------------------------------------------------------------------
(* What a step does to the rows.                                           *)

Gone == [Queued EXCEPT !.state = "gone"]
Completes(r) == [r EXCEPT !.state = "complete", !.owner = NoLease, !.alive = FALSE]

\* What becomes of a row that a step changes alone.
Turns(r, s) ==
  \/ s = r
  \/ r.state = "absent" /\ s = Queued
  \/ r.state \notin {"absent", "gone"} /\ s = [r EXCEPT !.cancel = TRUE]
  \/ r.state \in Active /\ s.state \in Active
  \/ r.state \in Active /\ (s = Dead(r) \/ s = Completes(r))
  \/ r.state \notin {"absent", "gone"} /\ s = Gone

OneRow(i) == (\A j \in Job : j # i => row'[j] = row[j]) /\ Turns(row[i], row'[i])

\* A claim ends the cancelled rows that nobody works on, and may take one.
Claims ==
  \E S : \A j \in Job : \/ row'[j] = Finalize(S)[j]
                        \/ row[j].state \in Active /\ row'[j].state \in Active

LEMMA RunTurns ==
  ASSUME TypeOK, NEW w \in Worker, Beat(w) \/ Settling(w)
  PROVE  UNCHANGED row \/ \E i \in Job : OneRow(i)
<1>. DEFINE i == run[w].job
<1>0. i \in Job /\ row[i] \in Row /\ row \in [Job -> Row]
  BY DEF TypeOK, Run
<1>1. ASSUME NEW s, Turns(row[i], s), Settle(w, s) PROVE \E j \in Job : OneRow(j)
  BY <1>0, <1>1 DEF OneRow, Settle
<1>2. Turns(row[i], row[i])
  BY DEF Turns
<1>3. ASSUME Owns(w)
      PROVE  /\ Turns(row[i], Dead(row[i])) /\ Turns(row[i], Completes(row[i]))
             /\ Turns(row[i], [Dead(row[i]) EXCEPT !.state = "retrying"])
             /\ Turns(row[i], [row[i] EXCEPT !.alive = TRUE])
             /\ \A o : Turns(row[i], [row[i] EXCEPT !.outcome = o])
  <2>1. row[i].state = "running" /\ row[i].state \in Active
    BY <1>3 DEF Owns, Active
  <2>2. Turns(row[i], Dead(row[i])) /\ Turns(row[i], Completes(row[i]))
    BY <2>1 DEF Turns
  <2>3. /\ [Dead(row[i]) EXCEPT !.state = "retrying"].state \in Active
        /\ [row[i] EXCEPT !.alive = TRUE].state \in Active
        /\ \A o : [row[i] EXCEPT !.outcome = o].state \in Active
    BY <1>0, <2>1 DEF Dead, Row, Active
  <2>4. \A s : s.state \in Active => Turns(row[i], s)
    BY <2>1 DEF Turns
  <2>. QED
    BY <2>2, <2>3, <2>4
<1>4. ASSUME NEW b, fail(w, b) PROVE \E j \in Job : OneRow(j)
  BY <1>1, <1>2, <1>3, <1>4 DEF fail
<1>5. ASSUME NEW tag, recordOutcome(w, tag) PROVE \E j \in Job : OneRow(j)
  BY <1>1, <1>2, <1>3, <1>5 DEF recordOutcome
<1>6. CASE Beat(w)
  BY <1>1, <1>3, <1>6 DEF Beat
<1>7. CASE Begin(w) \/ Catch(w)
  BY <1>4, <1>7 DEF Begin, Catch
<1>8. CASE Answer(w) \/ ToolError(w) \/ Throw(w)
  BY <1>5, <1>8 DEF Answer, ToolError, Throw
<1>9. CASE Complete(w)
  BY <1>1, <1>2, <1>3, <1>9 DEF Complete, Completes
<1>. QED
  BY <1>6, <1>7, <1>8, <1>9 DEF Settling

LEMMA ClaimTurns ==
  ASSUME TypeOK, (\E w \in Worker : Claim(w)) \/ (\E p \in Proc : StartTask(p))
  PROVE  UNCHANGED row \/ Claims
<1>1. ASSUME NEW S, row' = Finalize(S) PROVE Claims
  BY <1>1 DEF Claims
<1>2. ASSUME NEW w \in Worker, NEW j \in Job, NEW S, Take(w, j, S), row[j].state \in Active,
             j \notin Cancelled(S)
      PROVE  Claims
  <2>0. Finalize(S) \in [Job -> Row] /\ Finalize(S)[j] = row[j] /\ row[j] \in Row
    BY <1>2, FinalizeTyped DEF Finalize, TypeOK
  <2>1. /\ row'[j] = Leased(row[j], w)
        /\ \A k \in Job : k # j => row'[k] = Finalize(S)[k]
    BY <1>2, <2>0 DEF Take
  <2>2. row'[j].state \in Active
    BY <2>0, <2>1 DEF Leased, Row, Active
  <2>3. \A k \in Job : \/ row'[k] = Finalize(S)[k]
                       \/ row[k].state \in Active /\ row'[k].state \in Active
    BY <1>2, <2>1, <2>2
  <2>. QED
    BY <2>3 DEF Claims
<1>3. ASSUME NEW w \in Worker, Claim(w) PROVE Claims
  <2>1. CASE \E j \in Job \ Cancelled(Job) : Claimable(row[j]) /\ Take(w, j, Job)
    BY <1>2, <2>1 DEF Claimable, Active
  <2>2. CASE row' = Finalize(Job)
    BY <1>1, <2>2
  <2>. QED
    BY <1>3, <2>1, <2>2 DEF Claim
<1>4. ASSUME NEW p \in Proc, StartTask(p) PROVE UNCHANGED row \/ Claims
  <2>0. busy[p].job \in Job
    BY DEF TypeOK
  <2>1. CASE /\ row[busy[p].job].state = "queued" /\ busy[p].job \notin Cancelled({busy[p].job})
             /\ \E w \in Starter : Take(w, busy[p].job, {busy[p].job})
    BY <1>2, <2>0, <2>1 DEF Worker, Active
  <2>2. CASE row' = Finalize({busy[p].job}) \/ UNCHANGED row
    BY <1>1, <2>2
  <2>. QED
    BY <1>4, <2>1, <2>2 DEF StartTask
<1>. QED
  BY <1>3, <1>4

LEMMA OtherTurns ==
  ASSUME TypeOK,
         \/ \E p \in Proc : \/ EnqueueRead(p) \/ EnqueueDelete(p) \/ EnqueueInsert(p) \/ CancelWrite(p)
                            \/ Stop(p) \/ Restart(p)
         \/ \E t \in Task, p \in Proc : Offload(t, p) \/ CancelRead(t, p)
         \/ \E t \in Task : BudgetSpent(t) \/ CallAborted(t)
         \/ \E j \in Job : Lapse(j) \/ ComeDue(j) \/ Sweep(j)
  PROVE  UNCHANGED row \/ \E i \in Job : OneRow(i)
<1>0. /\ row \in [Job -> Row] /\ Task \subseteq Job /\ \A p \in Proc : busy[p].job \in Job
      /\ \A j \in Job : row[j] \in Row
  BY DEF TypeOK, Job
<1>1. ASSUME NEW i \in Job, NEW s, Turns(row[i], s), row' = [row EXCEPT ![i] = s]
      PROVE  \E j \in Job : OneRow(j)
  BY <1>0, <1>1 DEF OneRow
<1>2. \A r : Turns(r, r)
  BY DEF Turns
<1>3. ASSUME NEW p \in Proc, EnqueueDelete(p) PROVE \E j \in Job : OneRow(j)
  <2>1. PICK i \in Job : row' = [row EXCEPT ![i] = IF @.state \in {"absent", "gone"} THEN @ ELSE Gone]
    BY <1>0, <1>3 DEF EnqueueDelete, Gone
  <2>2. Turns(row[i], IF row[i].state \in {"absent", "gone"} THEN row[i] ELSE Gone)
    BY DEF Turns
  <2>. QED
    BY <1>1, <2>1, <2>2
<1>4. ASSUME NEW p \in Proc, EnqueueInsert(p) PROVE \E j \in Job : OneRow(j)
  <2>1. PICK i \in Job : row' = [row EXCEPT ![i] = IF @.state = "absent" /\ Holder(Key[i]) = {} THEN Queued ELSE @]
    BY <1>0, <1>4 DEF EnqueueInsert
  <2>2. Turns(row[i], IF row[i].state = "absent" /\ Holder(Key[i]) = {} THEN Queued ELSE row[i])
    BY DEF Turns
  <2>. QED
    BY <1>1, <2>1, <2>2
<1>5. ASSUME NEW t \in Job, requestCancel(t) PROVE \E j \in Job : OneRow(j)
  <2>1. row' = [row EXCEPT ![t] = IF row[t].state \in {"absent", "gone"} THEN row[t]
                                  ELSE [row[t] EXCEPT !.cancel = TRUE]]
    BY <1>5 DEF requestCancel
  <2>2. Turns(row[t], IF row[t].state \in {"absent", "gone"} THEN row[t] ELSE [row[t] EXCEPT !.cancel = TRUE])
    BY DEF Turns
  <2>. QED
    BY <1>1, <2>1, <2>2
<1>6. ASSUME NEW p \in Proc, EnqueueRead(p) \/ CancelWrite(p) \/ Stop(p) \/ Restart(p)
      PROVE  UNCHANGED row \/ \E j \in Job : OneRow(j)
  BY <1>0, <1>5, <1>6 DEF EnqueueRead, CancelWrite, Stop, Restart
<1>7. ASSUME NEW t \in Task, NEW p \in Proc, Offload(t, p) \/ CancelRead(t, p)
      PROVE  UNCHANGED row \/ \E j \in Job : OneRow(j)
  <2>1. CASE Offload(t, p)
    <3>1. t \in Job /\ row[t].state = "absent" /\ row' = [row EXCEPT ![t] = Queued]
      BY <1>0, <2>1 DEF Offload
    <3>2. Turns(row[t], Queued)
      BY <3>1 DEF Turns
    <3>. QED
      BY <1>1, <3>1, <3>2
  <2>. QED
    BY <1>7, <2>1 DEF CancelRead
<1>8. ASSUME NEW t \in Task, BudgetSpent(t) \/ CallAborted(t)
      PROVE  UNCHANGED row \/ \E j \in Job : OneRow(j)
  BY <1>0, <1>5, <1>8 DEF BudgetSpent, CallAborted
<1>9. ASSUME NEW j \in Job, Lapse(j) \/ ComeDue(j) \/ Sweep(j) PROVE \E i \in Job : OneRow(i)
  <2>1. \/ row[j].state \in Active /\ row' = [row EXCEPT ![j] = [row[j] EXCEPT !.alive = FALSE]]
        \/ row[j].state \in Active /\ row' = [row EXCEPT ![j] = [row[j] EXCEPT !.due = TRUE]]
        \/ row[j].state \notin {"absent", "gone"} /\ row' = [row EXCEPT ![j] = Gone]
    BY <1>9 DEF Lapse, ComeDue, Sweep, Active, Terminal, Gone
  <2>2. /\ [row[j] EXCEPT !.alive = FALSE].state = row[j].state
        /\ [row[j] EXCEPT !.due = TRUE].state = row[j].state
    BY <1>0 DEF Row
  <2>3. /\ row[j].state \in Active => Turns(row[j], [row[j] EXCEPT !.alive = FALSE])
        /\ row[j].state \in Active => Turns(row[j], [row[j] EXCEPT !.due = TRUE])
        /\ row[j].state \notin {"absent", "gone"} => Turns(row[j], Gone)
    BY <2>2 DEF Turns
  <2>. QED
    BY <1>1, <2>1, <2>3
<1>. QED
  BY <1>3, <1>4, <1>6, <1>7, <1>8, <1>9

LEMMA NextTurns ==
  ASSUME TypeOK, [Next]_vars
  PROVE  UNCHANGED row \/ (\E i \in Job : OneRow(i)) \/ Claims
<1>1. CASE UNCHANGED vars
  BY <1>1 DEF vars
<1>2. CASE Next
  BY <1>2, RunTurns, ClaimTurns, OtherTurns DEF Next, Proceed
<1>. QED
  BY <1>1, <1>2

-----------------------------------------------------------------------------
(* A period's work succeeds once.                                          *)

\* What an enqueuer has read still holds: the row it is about to delete may be replaced.
Enqueues ==
  \A p \in Proc :
    /\ busy[p].at \in {"insert", "delete"} => busy[p].job \in Keyed
    /\ busy[p].at = "delete" => row[busy[p].job].state = "gone" \/ Replaceable(row[busy[p].job])

\* The unique index: one row to a key.
There(k) == row[k].state \notin {"absent", "gone"}
Unique == \A j, k \in Keyed : Key[j] = Key[k] /\ There(j) /\ There(k) => j = k

\* A row that completed stays.
Stays == Replace # "terminal" => \A k \in finished : row[k].state = "complete"

PInv == TypeOK /\ Enqueues /\ Unique /\ Stays

LEMMA InitPeriods == Init => PInv
<1>. SUFFICES ASSUME Init PROVE PInv
  OBVIOUS
<1>1. TypeOK
  BY InitTyped
<1>2. /\ \A j \in Keyed : row[j].state = "absent"
      /\ \A p \in Proc : busy[p].at = "free"
      /\ finished = {}
  BY DEF Init, Queued, AtRest, Job
<1>. QED
  BY <1>1, <1>2 DEF PInv, Enqueues, Unique, There, Stays

\* The states of a row only move on.
LEMMA StateTurns ==
  ASSUME TypeOK, [Next]_vars, NEW j \in Job
  PROVE  /\ row[j].state = "gone" => row'[j].state = "gone"
         /\ row[j].state \in Terminal => row'[j].state \in {row[j].state, "gone"}
         /\ row[j].state = "absent" => row'[j].state \in {"absent", "queued"}
<1>0. /\ row[j] \in Row
      /\ Queued.state = "queued" /\ Gone.state = "gone"
      /\ [row[j] EXCEPT !.cancel = TRUE].state = row[j].state
  BY DEF TypeOK, Row, Queued, Gone
<1>1. ASSUME NEW i \in Job, OneRow(i)
      PROVE  row'[j] = row[j] \/ Turns(row[j], row'[j])
  BY <1>1 DEF OneRow
<1>2. ASSUME Turns(row[j], row'[j])
      PROVE  /\ row[j].state = "gone" => row'[j].state = "gone"
             /\ row[j].state \in Terminal => row'[j].state \in {row[j].state, "gone"}
             /\ row[j].state = "absent" => row'[j].state \in {"absent", "queued"}
  BY <1>0, <1>2 DEF Turns, Active, Terminal
<1>3. ASSUME Claims
      PROVE  row'[j] = row[j] \/ row[j].state \in Active
  <2>1. ASSUME NEW S PROVE Finalize(S)[j] = row[j] \/ row[j].state \in Active
    BY DEF Finalize, Cancelled, Unstarted, Active
  <2>. QED
    BY <1>3, <2>1 DEF Claims
<1>. QED
  BY <1>1, <1>2, <1>3, NextTurns DEF Active, Terminal

\* A row of a key comes to be there by the insert that found none.
LEMMA Inserted ==
  ASSUME PInv, [Next]_vars, NEW k \in Keyed, row[k].state = "absent", row'[k].state # "absent"
  PROVE  /\ \A j \in Keyed : Key[j] = Key[k] => ~There(j)
         /\ \A j \in Job : j # k => row'[j] = row[j]
<1>0. /\ TypeOK /\ k \in Job /\ k \notin Task /\ row[k] \in Row /\ Keyed \subseteq Job
      /\ \A p \in Proc : busy[p].job \in Job
  BY JobQueueAssumption DEF PInv, TypeOK, Job
<1>1. ASSUME NEW p \in Proc, EnqueueInsert(p)
      PROVE  /\ \A j \in Keyed : Key[j] = Key[k] => ~There(j)
             /\ \A j \in Job : j # k => row'[j] = row[j]
  <2>1. busy[p].job = k /\ Holder(Key[k]) = {}
    BY <1>0, <1>1 DEF EnqueueInsert, TypeOK
  <2>2. \A j \in Job : j # k => row'[j] = row[j]
    BY <1>0, <1>1, <2>1 DEF EnqueueInsert, TypeOK
  <2>. QED
    BY <2>1, <2>2 DEF Holder, There
<1>2. ~Claims
  <2>1. \A S : Finalize(S)[k] = row[k]
    BY <1>0 DEF Finalize, Cancelled, Unstarted
  <2>. QED
    BY <1>0, <2>1 DEF Claims, Active
<1>3. ASSUME NEW w \in Worker, Beat(w) \/ Settling(w) PROVE FALSE
  <2>0. run[w].job \in Job
    BY <1>0 DEF TypeOK, Run
  <2>1. CASE run[w].job # k
    BY <1>0, <1>3, <2>0, <2>1
       DEF Settling, Beat, Begin, Answer, ToolError, Throw, Complete, Catch, fail, recordOutcome, Settle, TypeOK
  <2>2. CASE run[w].job = k
    <3>1. ~Owns(w)
      BY <2>2 DEF Owns
    <3>. QED
      BY <1>0, <1>3, <2>2, <3>1
         DEF Settling, Beat, Begin, Answer, ToolError, Throw, Complete, Catch, fail, recordOutcome, Settle, TypeOK
  <2>. QED
    BY <2>1, <2>2
<1>4. ASSUME NEW t \in Job, requestCancel(t) PROVE row'[k] = row[k]
  BY <1>0, <1>4 DEF requestCancel, TypeOK
<1>5. ASSUME NEW p \in Proc, EnqueueRead(p) \/ EnqueueDelete(p) \/ CancelWrite(p) \/ Stop(p) \/ Restart(p)
      PROVE  FALSE
  BY <1>0, <1>4, <1>5 DEF EnqueueRead, EnqueueDelete, CancelWrite, Stop, Restart, TypeOK
<1>6. ASSUME NEW t \in Task, \/ \E p \in Proc : Offload(t, p) \/ CancelRead(t, p)
                             \/ BudgetSpent(t) \/ CallAborted(t)
      PROVE  FALSE
  <2>1. t \in Job
    BY DEF Job
  <2>. QED
    BY <1>0, <1>4, <1>6, <2>1 DEF Offload, CancelRead, BudgetSpent, CallAborted, TypeOK
<1>7. ASSUME NEW j \in Job, Lapse(j) \/ ComeDue(j) \/ Sweep(j) PROVE FALSE
  BY <1>0, <1>7 DEF Lapse, ComeDue, Sweep, Terminal, TypeOK
<1>8. CASE UNCHANGED vars
  BY <1>8 DEF vars
<1>9. CASE (\E w \in Worker : Claim(w)) \/ (\E p \in Proc : StartTask(p))
  BY <1>0, <1>2, <1>9, ClaimTurns
<1>. QED
  BY <1>1, <1>3, <1>5, <1>6, <1>7, <1>8, <1>9 DEF Next, Proceed

LEMMA NextUnique == PInv /\ [Next]_vars => Unique'
<1>. SUFFICES ASSUME PInv, [Next]_vars, NEW j \in Keyed, NEW k \in Keyed,
                     Key[j] = Key[k], There(j)', There(k)'
              PROVE  j = k
  BY DEF Unique
<1>0. TypeOK /\ j \in Job /\ k \in Job /\ row'[j].state \notin {"absent", "gone"} /\ row'[k].state \notin {"absent", "gone"}
  BY DEF PInv, Job, There
<1>1. CASE There(j) /\ There(k)
  BY <1>1 DEF PInv, Unique
<1>2. ASSUME NEW a \in Keyed, NEW b \in Keyed, Key[a] = Key[b], ~There(a), a # b,
             row'[a].state \notin {"absent", "gone"}, row'[b].state \notin {"absent", "gone"}
      PROVE  FALSE
  <2>0. a \in Job /\ b \in Job
    BY DEF Job
  <2>1. row[a].state = "absent"
    BY <1>0, <1>2, <2>0, StateTurns DEF There
  <2>2. ~There(b) /\ row'[b] = row[b]
    BY <1>2, <2>0, <2>1, Inserted
  <2>. QED
    BY <1>2, <2>2 DEF There
<1>. QED
  BY <1>0, <1>1, <1>2

LEMMA NextEnqueues == PInv /\ [Next]_vars => Enqueues'
<1>. SUFFICES ASSUME PInv, [Next]_vars, NEW p \in Proc
              PROVE  /\ busy'[p].at \in {"insert", "delete"} => busy'[p].job \in Keyed
                     /\ busy'[p].at = "delete" => \/ row'[busy'[p].job].state = "gone"
                                                  \/ Replaceable(row'[busy'[p].job])
  BY DEF Enqueues, Replaceable
<1>0. TypeOK /\ busy[p].job \in Job /\ Keyed \subseteq Job
  BY DEF PInv, TypeOK, Job
<1>1. ASSUME busy'[p] = busy[p]
      PROVE  /\ busy'[p].at \in {"insert", "delete"} => busy'[p].job \in Keyed
             /\ busy'[p].at = "delete" => \/ row'[busy'[p].job].state = "gone"
                                          \/ Replaceable(row'[busy'[p].job])
  <2>1. /\ row[busy[p].job].state = "gone" => row'[busy[p].job].state = "gone"
        /\ row[busy[p].job].state \in Terminal => row'[busy[p].job].state \in {row[busy[p].job].state, "gone"}
    BY <1>0, StateTurns
  <2>2. Replaceable(row[busy[p].job]) => \/ Replaceable(row'[busy[p].job])
                                         \/ row'[busy[p].job].state = "gone"
    BY <2>1 DEF Replaceable, Terminal
  <2>. QED
    BY <1>1, <2>1, <2>2 DEF PInv, Enqueues
<1>2. \/ busy'[p] = busy[p]
      \/ busy'[p].at \notin {"insert", "delete"}
      \/ EnqueueRead(p)
      \/ EnqueueDelete(p)
  <2>1. ASSUME NEW q \in Proc, EnqueueRead(q) \/ Proceed(q) \/ Stop(q) \/ Restart(q)
        PROVE  busy'[p] = busy[p] \/ busy'[p].at \notin {"insert", "delete"} \/ EnqueueRead(p) \/ EnqueueDelete(p)
    <3>1. CASE q = p
      BY <1>0, <2>1, <3>1 DEF Proceed, EnqueueInsert, CancelWrite, StartTask, Stop, Restart, TypeOK, AtRest
    <3>2. CASE q # p
      BY <1>0, <2>1, <3>2
         DEF EnqueueRead, EnqueueDelete, Proceed, EnqueueInsert, CancelWrite, StartTask, Stop, Restart, TypeOK
    <3>. QED
      BY <3>1, <3>2
  <2>2. ASSUME NEW t \in Task, \/ \E q \in Proc : Offload(t, q) \/ CancelRead(t, q)
                               \/ BudgetSpent(t) \/ CallAborted(t)
        PROVE  busy'[p] = busy[p] \/ busy'[p].at \notin {"insert", "delete"}
    BY <1>0, <2>2 DEF Offload, CancelRead, BudgetSpent, CallAborted, TypeOK
  <2>3. CASE \/ \E w \in Worker : Claim(w) \/ Beat(w) \/ Settling(w)
             \/ \E j \in Job : Lapse(j) \/ ComeDue(j) \/ Sweep(j)
             \/ UNCHANGED vars
    BY <2>3 DEF Claim, Beat, Settling, Begin, Answer, ToolError, Throw, Complete, Catch, Lapse, ComeDue, Sweep, vars
  <2>. QED
    BY <2>1, <2>2, <2>3 DEF Next
<1>3. CASE EnqueueRead(p)
  <2>1. row' = row
    BY <1>3 DEF EnqueueRead
  <2>2. \/ \E k \in Keyed : busy'[p] = [at |-> "insert", job |-> k]
        \/ \E o \in Keyed : busy'[p] = [at |-> "delete", job |-> o] /\ Replaceable(row[o])
    BY <1>0, <1>3 DEF EnqueueRead, Holder, TypeOK
  <2>3. ASSUME NEW k \in Keyed, busy'[p] = [at |-> "insert", job |-> k]
        PROVE  busy'[p].at = "insert" /\ busy'[p].job \in Keyed
    BY <2>3
  <2>4. ASSUME NEW o \in Keyed, busy'[p] = [at |-> "delete", job |-> o], Replaceable(row[o])
        PROVE  busy'[p].job \in Keyed /\ Replaceable(row'[busy'[p].job])
    <3>1. busy'[p].job = o
      BY <2>4
    <3>. QED
      BY <2>1, <2>4, <3>1
  <2>. QED
    BY <2>2, <2>3, <2>4
<1>4. CASE EnqueueDelete(p)
  <2>1. (\E k \in Keyed : busy'[p] = [at |-> "insert", job |-> k]) \/ busy'[p] = AtRest
    BY <1>0, <1>4 DEF EnqueueDelete, TypeOK
  <2>2. busy'[p].at \in {"insert", "free"} /\ (busy'[p].at = "insert" => busy'[p].job \in Keyed)
    <3>1. AtRest.at = "free"
      BY RestTyped
    <3>2. CASE busy'[p] = AtRest
      BY <3>1, <3>2
    <3>3. ASSUME NEW k \in Keyed, busy'[p] = [at |-> "insert", job |-> k]
          PROVE  busy'[p].at = "insert" /\ busy'[p].job \in Keyed
      BY <3>3
    <3>. QED
      BY <2>1, <3>2, <3>3
  <2>. QED
    BY <2>2
<1>. QED
  BY <1>1, <1>2, <1>3, <1>4

LEMMA NextStays == PInv /\ [Next]_vars => Stays'
<1>. SUFFICES ASSUME PInv, [Next]_vars, Replace # "terminal", NEW k \in finished'
              PROVE  row'[k].state = "complete"
  BY DEF Stays
<1>0. TypeOK /\ TypeOK' /\ k \in Keyed /\ k \in Job /\ k \notin Task /\ row[k] \in Row
  BY NextTyped, JobQueueAssumption DEF PInv, TypeOK, Job
<1>1. CASE k \notin finished
  <2>1. PICK w \in Worker : Complete(w)
    BY <1>1 DEF Next, Proceed, Settling, EnqueueRead, EnqueueDelete, EnqueueInsert, CancelWrite, StartTask, Stop, Restart,
                Offload, CancelRead, BudgetSpent, CallAborted, Claim, Beat, Begin, Answer, ToolError, Throw,
                Catch, Lapse, ComeDue, Sweep, vars
  <2>2. Owns(w) /\ run[w].job = k
    BY <1>1, <2>1 DEF Complete
  <2>3. row' = [row EXCEPT ![k] = [row[k] EXCEPT !.state = "complete", !.owner = NoLease, !.alive = FALSE]]
    BY <2>1, <2>2 DEF Complete, Settle
  <2>. QED
    BY <1>0, <2>3 DEF TypeOK, Row
<1>2. CASE k \in finished
  <2>0. row[k].state = "complete"
    BY <1>2 DEF PInv, Stays
  <2>1. row'[k].state \in {"complete", "gone"}
    BY <1>0, <2>0, StateTurns DEF Terminal
  <2>2. ASSUME NEW p \in Proc, EnqueueDelete(p) PROVE row'[k].state # "gone"
    <3>1. CASE busy[p].job = k
      BY <2>0, <2>2, <3>1 DEF PInv, Enqueues, EnqueueDelete, Replaceable
    <3>2. CASE busy[p].job # k
      BY <1>0, <2>0, <2>2, <3>2 DEF EnqueueDelete, TypeOK
    <3>. QED
      BY <3>1, <3>2
  <2>3. ASSUME NEW j \in Job, Sweep(j) PROVE row'[k].state # "gone"
    BY <1>0, <2>0, <2>3 DEF Sweep, TypeOK
  <2>4. ASSUME NEW w \in Worker, Beat(w) \/ Settling(w) PROVE row'[k].state # "gone"
    <3>0. run[w].job \in Job
      BY <1>0 DEF TypeOK, Run
    <3>1. CASE run[w].job # k
      BY <1>0, <2>0, <2>4, <3>0, <3>1
         DEF Settling, Beat, Begin, Answer, ToolError, Throw, Complete, Catch, fail, recordOutcome, Settle, TypeOK
    <3>2. CASE run[w].job = k
      <4>1. ~Owns(w)
        BY <2>0, <3>2 DEF Owns
      <4>. QED
        BY <1>0, <2>0, <2>4, <3>2, <4>1
           DEF Settling, Beat, Begin, Answer, ToolError, Throw, Complete, Catch, fail, recordOutcome, Settle, TypeOK
    <3>. QED
      BY <3>1, <3>2
  <2>5. CASE (\E w \in Worker : Claim(w)) \/ (\E p \in Proc : StartTask(p))
    <3>1. \A S : Finalize(S)[k] = row[k]
      BY <1>0, <2>0 DEF Finalize, Cancelled, Unstarted
    <3>2. row'[k] = row[k]
      BY <1>0, <2>0, <2>5, <3>1, ClaimTurns DEF Claims, Active
    <3>. QED
      BY <2>0, <3>2
  <2>6. ASSUME NEW t \in Job, requestCancel(t) PROVE row'[k].state # "gone"
    BY <1>0, <2>0, <2>6 DEF requestCancel, TypeOK, Row
  <2>7. ASSUME NEW p \in Proc, EnqueueRead(p) \/ EnqueueInsert(p) \/ CancelWrite(p) \/ Stop(p) \/ Restart(p)
        PROVE  row'[k].state # "gone"
    <3>1. busy[p].job \in Job
      BY <1>0 DEF TypeOK
    <3>. QED
      BY <1>0, <2>0, <2>6, <2>7, <3>1 DEF EnqueueRead, EnqueueInsert, CancelWrite, Stop, Restart, TypeOK
  <2>8. ASSUME NEW t \in Task, \/ \E p \in Proc : Offload(t, p) \/ CancelRead(t, p)
                               \/ BudgetSpent(t) \/ CallAborted(t)
        PROVE  row'[k].state # "gone"
    <3>1. t \in Job
      BY DEF Job
    <3>. QED
      BY <1>0, <2>0, <2>6, <2>8, <3>1 DEF Offload, CancelRead, BudgetSpent, CallAborted, TypeOK
  <2>9. ASSUME NEW j \in Job, Lapse(j) \/ ComeDue(j) PROVE row'[k].state # "gone"
    BY <1>0, <2>0, <2>9 DEF Lapse, ComeDue, TypeOK
  <2>10. CASE UNCHANGED vars
    BY <2>0, <2>10 DEF vars
  <2>11. row'[k].state # "gone"
    BY <2>2, <2>3, <2>4, <2>5, <2>7, <2>8, <2>9, <2>10 DEF Next, Proceed
  <2>. QED
    BY <2>1, <2>11
<1>. QED
  BY <1>1, <1>2

LEMMA NextPeriods == PInv /\ [Next]_vars => PInv'
  BY NextTyped, NextEnqueues, NextUnique, NextStays DEF PInv

(* A period key's work succeeds once, whatever fails, is enqueued again or *)
(* races (enqueue with replaceIfFailed, the unique index of idempotency    *)
(* keys, complete under the lease).                                        *)
THEOREM PeriodOnce == Spec => []OncePerPeriod
<1>2. PInv => OncePerPeriod
  <2>1. finished \subseteq Keyed \/ ~PInv
    BY DEF PInv, TypeOK
  <2>. QED
    BY <2>1 DEF PInv, Stays, Unique, There, OncePerPeriod
<1>. QED
  BY <1>2, InitPeriods, NextPeriods, PTL DEF Spec

-----------------------------------------------------------------------------
(* A task ends once.                                                       *)

\* No callback of a process enters its stretch.
Quiet ==
  \A p \in Proc : busy[p].at # "free"
    => \A w \in Worker : Home[w] = p => run[w].phase \in {"idle", "handler"}

\* With one process, a request that waits and a cancel that was read have a task that goes on.
Polite ==
  /\ \A p \in Proc : busy[p].at = "cancel" => row[busy[p].job].state \in Active
  /\ \A t \in Task : wait[t] \in Proc => row[t].state \in Active

OneProcess == \A p, q \in Proc : p = q

LInv == IInv /\ PInv /\ Quiet /\ Polite

LEMMA NextQuiet == TypeOK /\ Quiet /\ [Next]_vars => Quiet'
<1>. SUFFICES ASSUME TypeOK, Quiet, [Next]_vars, NEW p \in Proc, NEW w \in Worker,
                     busy'[p].at # "free", Home[w] = p
              PROVE  run'[w].phase \in {"idle", "handler"}
  BY DEF Quiet
<1>0. AtRest.at = "free" /\ Home \in [Worker -> Proc]
  BY RestTyped, JobQueueAssumption
<1>1. ASSUME busy'[p] = busy[p] \/ Free(p), run'[w] = run[w] PROVE run'[w].phase \in {"idle", "handler"}
  BY <1>1 DEF Quiet, Free
<1>2. ASSUME NEW q \in Proc, EnqueueRead(q) \/ EnqueueDelete(q) \/ EnqueueInsert(q) \/ CancelWrite(q) \/ Stop(q)
      PROVE  run'[w].phase \in {"idle", "handler"}
  <2>1. run' = run
    BY <1>2 DEF EnqueueRead, EnqueueDelete, EnqueueInsert, CancelWrite, Stop
  <2>2. CASE q # p
    BY <1>1, <1>2, <2>1, <2>2 DEF EnqueueRead, EnqueueDelete, EnqueueInsert, CancelWrite, Stop, TypeOK
  <2>3. CASE busy[p].at # "free"
    BY <2>1, <2>3 DEF Quiet
  <2>4. CASE q = p /\ busy[p].at = "free"
    BY <1>1, <1>2, <2>1, <2>4 DEF EnqueueRead, EnqueueDelete, EnqueueInsert, CancelWrite, Stop
  <2>. QED
    BY <2>2, <2>3, <2>4
<1>3. ASSUME NEW q \in Proc, StartTask(q) \/ Restart(q) PROVE run'[w].phase \in {"idle", "handler"}
  <2>1. q # p
    BY <1>0, <1>3 DEF StartTask, Restart, TypeOK
  <2>2. busy'[p] = busy[p]
    BY <1>3, <2>1 DEF StartTask, Restart, TypeOK
  <2>3. run'[w] = run[w]
    BY <1>3, <2>1 DEF StartTask, Restart, Take, TypeOK
  <2>. QED
    BY <1>1, <2>2, <2>3
<1>4. ASSUME NEW t \in Task, \/ \E q \in Proc : Offload(t, q) \/ CancelRead(t, q)
                             \/ BudgetSpent(t) \/ CallAborted(t)
      PROVE  run'[w].phase \in {"idle", "handler"}
  <2>1. run' = run
    BY <1>4 DEF Offload, CancelRead, BudgetSpent, CallAborted
  <2>2. busy'[p] = busy[p] \/ Free(p)
    BY <1>4 DEF Offload, CancelRead, BudgetSpent, CallAborted, TypeOK
  <2>. QED
    BY <1>1, <2>1, <2>2
<1>5. ASSUME NEW v \in Worker, Claim(v) \/ Beat(v) \/ Settling(v) PROVE run'[w].phase \in {"idle", "handler"}
  <2>1. busy' = busy
    BY <1>5 DEF Claim, Beat, Settling, Begin, Answer, ToolError, Throw, Complete, Catch
  <2>2. CASE v # w
    <3>1. run'[w] = run[w]
      BY <1>5, <2>2 DEF Claim, Take, Beat, Settling, Begin, Answer, ToolError, Throw, Complete, Catch, EndRun, TypeOK
    <3>. QED
      BY <1>1, <2>1, <3>1
  <2>3. CASE v = w
    <3>1. ~Free(Home[w]) /\ run[w].phase \in {"idle", "handler"}
      BY <2>1 DEF Free, Quiet
    <3>2. ~(Claim(w) \/ Beat(w) \/ Settling(w))
      BY <3>1 DEF Claim, Beat, Settling, Begin, Answer, ToolError, Throw, Complete, Catch, InHandler
    <3>. QED
      BY <1>5, <2>3, <3>2
  <2>. QED
    BY <2>2, <2>3
<1>6. ASSUME NEW j \in Job, Lapse(j) \/ ComeDue(j) \/ Sweep(j) PROVE run'[w].phase \in {"idle", "handler"}
  BY <1>1, <1>6 DEF Lapse, ComeDue, Sweep
<1>7. CASE UNCHANGED vars
  BY <1>1, <1>7 DEF vars
<1>. QED
  BY <1>2, <1>3, <1>4, <1>5, <1>6, <1>7 DEF Next, Proceed

LEMMA TakeLeaves ==
  ASSUME TypeOK, NEW w \in Worker, NEW i \in Job, NEW S, Take(w, i, S), i \notin Cancelled(S),
         NEW j \in Job, row[j].state \in Active, row'[j].state \notin Active
  PROVE  j \in Cancelled(S) /\ row'[j] = Dead(row[j])
<1>0. Finalize(S) \in [Job -> Row]
  BY FinalizeTyped
<1>1. CASE j = i
  <2>1. row'[j] = Leased(row[i], w) /\ row[i] \in Row
    BY <1>0, <1>1 DEF Take, Finalize, TypeOK
  <2>. QED
    BY <2>1 DEF Leased, Row, Active
<1>2. CASE j # i
  BY <1>0, <1>2 DEF Take, Finalize
<1>. QED
  BY <1>1, <1>2

\* What a stretch of an enqueuer goes on with.
LEMMA ReadThen ==
  ASSUME TypeOK, NEW p \in Proc, EnqueueRead(p)
  PROVE  \/ \E k \in Keyed : busy'[p] = [at |-> "insert", job |-> k]
         \/ \E k \in Keyed : busy'[p] = [at |-> "delete", job |-> k] /\ Replaceable(row[k])
<1>1. \A b : busy' = [busy EXCEPT ![p] = b] => busy'[p] = b
  BY DEF TypeOK
<1>2. PICK k \in Keyed :
        \/ busy' = [busy EXCEPT ![p] = [at |-> "insert", job |-> k]]
        \/ \E o \in Holder(Key[k]) : Replaceable(row[o]) /\ busy' = [busy EXCEPT ![p] = [at |-> "delete", job |-> o]]
  BY DEF EnqueueRead
<1>3. Holder(Key[k]) \subseteq Keyed
  BY DEF Holder
<1>. QED
  BY <1>1, <1>2, <1>3

LEMMA DeleteThen ==
  ASSUME TypeOK, NEW p \in Proc, EnqueueDelete(p)
  PROVE  busy'[p] = AtRest \/ \E k \in Keyed : busy'[p] = [at |-> "insert", job |-> k]
<1>1. \A b : busy' = [busy EXCEPT ![p] = b] => busy'[p] = b
  BY DEF TypeOK
<1>2. \/ busy' = [busy EXCEPT ![p] = AtRest]
      \/ \E k \in Keyed : busy' = [busy EXCEPT ![p] = [at |-> "insert", job |-> k]]
  BY DEF EnqueueDelete
<1>. QED
  BY <1>1, <1>2

\* A job leaves the active states when no cancel is between its two steps, and the request that
\* waits for it has its answer.
LEMMA Leaves ==
  ASSUME LInv, OneProcess, [Next]_vars, NEW j \in Job,
         row[j].state \in Active, row'[j].state \notin Active
  PROVE  /\ \A p \in Proc : busy'[p].at # "cancel"
         /\ j \in Task => wait'[j] \notin Proc /\ row'[j].state # "gone"
<1>0. /\ TypeOK /\ row[j] \in Row /\ AtRest.at = "free"
      /\ Home \in [Worker -> Proc] /\ Task \cap Keyed = {}
      /\ "answered" \notin Proc /\ Task \subseteq Job
  BY RestTyped, JobQueueAssumption DEF LInv, IInv, TypeOK, Job
<1>1. ASSUME NEW w \in Worker, Announce(Home[w], {j}) \/ (\E S : j \in S /\ Announce(Home[w], S))
      PROVE  j \in Task => wait'[j] \notin Proc
  BY <1>0, <1>1 DEF Announce, OneProcess
<1>2. ASSUME NEW p \in Proc, EnqueueDelete(p)
      PROVE  (\A q \in Proc : busy'[q].at # "cancel") /\ j \notin Task
  <2>1. busy[p].job = j
    BY <1>0, <1>2 DEF EnqueueDelete, TypeOK
  <2>2. j \notin Task
    BY <1>0, <1>2, <2>1 DEF EnqueueDelete, LInv, PInv, Enqueues
  <2>3. \A q \in Proc : q = p
    BY DEF OneProcess
  <2>4. busy'[p] = AtRest \/ \E k : busy'[p] = [at |-> "insert", job |-> k]
    BY <1>0, <1>2, DeleteThen
  <2>5. \A k : [at |-> "insert", job |-> k].at # "cancel"
    OBVIOUS
  <2>. QED
    BY <1>0, <2>2, <2>3, <2>4, <2>5
<1>3. ASSUME NEW p \in Proc, StartTask(p)
      PROVE  /\ \A q \in Proc : busy'[q].at # "cancel"
             /\ j \in Task => wait'[j] \notin Proc /\ row'[j].state # "gone"
  <2>0. busy[p].job \in Job
    BY <1>0 DEF TypeOK
  <2>1. \A q \in Proc : busy'[q].at # "cancel"
    BY <1>0, <1>3 DEF OneProcess, StartTask, TypeOK
  <2>2. CASE /\ row[busy[p].job].state = "queued" /\ busy[p].job \notin Cancelled({busy[p].job})
             /\ \E w \in Starter : Take(w, busy[p].job, {busy[p].job})
    <3>1. j \in Cancelled({busy[p].job})
      BY <1>0, <2>0, <2>2, TakeLeaves DEF Worker
    <3>. QED
      BY <2>2, <3>1 DEF Cancelled
  <2>3. CASE /\ row' = Finalize({busy[p].job})
             /\ wait' = [wait EXCEPT ![busy[p].job] =
                           IF row'[busy[p].job].state \in Terminal THEN "answered" ELSE @]
    <3>1. j = busy[p].job /\ row'[j] = Dead(row[j])
      BY <1>0, <2>0, <2>3 DEF Finalize, Cancelled
    <3>2. Dead(row[j]).state = "failed"
      BY <1>0 DEF Dead, Row
    <3>3. j \in Task => wait'[j] = "answered"
      BY <1>0, <2>3, <3>1, <3>2 DEF Terminal, TypeOK
    <3>. QED
      BY <1>0, <2>1, <3>1, <3>2, <3>3
  <2>4. CASE UNCHANGED row
    BY <2>4
  <2>. QED
    BY <1>3, <2>2, <2>3, <2>4 DEF StartTask
<1>4. ASSUME NEW w \in Worker, Claim(w)
      PROVE  /\ \A q \in Proc : busy'[q].at # "cancel"
             /\ j \in Task => wait'[j] \notin Proc /\ row'[j].state # "gone"
  <2>1. \A q \in Proc : busy'[q].at # "cancel"
    BY <1>0, <1>4 DEF OneProcess, Claim, Free
  <2>2. j \in Cancelled(Job) /\ row'[j] = Dead(row[j])
    <3>1. CASE \E i \in Job \ Cancelled(Job) : Take(w, i, Job)
      BY <1>0, <3>1, TakeLeaves
    <3>2. CASE row' = Finalize(Job)
      BY <3>2 DEF Finalize
    <3>. QED
      BY <1>4, <3>1, <3>2 DEF Claim
  <2>3. row'[j].state = "failed"
    BY <1>0, <2>2 DEF Dead, Row
  <2>. QED
    BY <1>1, <1>4, <2>1, <2>2, <2>3 DEF Claim
<1>5. ASSUME NEW w \in Worker, Begin(w) \/ Catch(w) \/ Complete(w)
      PROVE  /\ \A q \in Proc : busy'[q].at # "cancel"
             /\ j \in Task => wait'[j] \notin Proc /\ row'[j].state # "gone"
  <2>0. run[w].job \in Job /\ Home[w] \in Proc
    BY <1>0 DEF TypeOK, Run
  <2>1. \A q \in Proc : busy'[q].at # "cancel"
    <3>1. busy[Home[w]].at = "free" /\ busy' = busy
      BY <1>5, <2>0 DEF LInv, Quiet, Begin, Catch, Complete
    <3>. QED
      BY <2>0, <3>1 DEF OneProcess
  <2>2. /\ run[w].job = j /\ Owns(w)
        /\ row'[j] = Dead(row[j]) \/ row'[j] = [Dead(row[j]) EXCEPT !.state = "retrying"]
           \/ row'[j] = Completes(row[j])
        /\ AnnounceRun(w)
    <3>1. \A s : Settle(w, s) => row' = [row EXCEPT ![run[w].job] = s]
      BY DEF Settle
    <3>2. \A s : Settle(w, s) => row'[run[w].job] = s /\ (run[w].job # j => row'[j] = row[j])
      BY <1>0, <2>0, <3>1 DEF TypeOK
    <3>3. CASE Complete(w)
      BY <3>2, <3>3 DEF Complete, Completes
    <3>4. ASSUME NEW b, fail(w, b)
          PROVE  /\ run[w].job = j /\ Owns(w)
                 /\ row'[j] = Dead(row[j]) \/ row'[j] = [Dead(row[j]) EXCEPT !.state = "retrying"]
                 /\ AnnounceRun(w)
      BY <3>2, <3>4 DEF fail
    <3>5. row' # row
      OBVIOUS
    <3>6. Complete(w) \/ \E b : fail(w, b)
      BY <1>5, <3>5 DEF Begin, Catch
    <3>. QED
      BY <3>3, <3>4, <3>6
  <2>3. row'[j].state \in {"failed", "complete"}
    BY <1>0, <2>2 DEF Dead, Completes, Row, Active
  <2>4. Announce(Home[w], {j})
    BY <2>2, <2>3 DEF AnnounceRun, Terminal
  <2>. QED
    BY <1>1, <2>1, <2>3, <2>4
<1>6. ASSUME NEW w \in Worker, Beat(w) \/ Answer(w) \/ ToolError(w) \/ Throw(w) PROVE FALSE
  <2>1. run[w].job \in Job
    BY <1>0 DEF TypeOK, Run
  <2>2. /\ [row[j] EXCEPT !.alive = TRUE].state = row[j].state
        /\ \A o : [row[j] EXCEPT !.outcome = o].state = row[j].state
    BY <1>0 DEF Row
  <2>3. ASSUME NEW tag, recordOutcome(w, tag) PROVE FALSE
    <3>1. row'[j] = row[j] \/ row'[j] = [row[j] EXCEPT !.outcome = [tag |-> tag, by |-> run[w].attempt]]
      BY <1>0, <2>1, <2>3 DEF recordOutcome, Settle, TypeOK
    <3>. QED
      BY <2>2, <3>1
  <2>4. ASSUME Beat(w) PROVE FALSE
    BY <1>0, <2>1, <2>2, <2>4 DEF Beat, Settle, TypeOK
  <2>. QED
    BY <1>6, <2>3, <2>4 DEF Answer, ToolError, Throw
<1>7. ASSUME NEW t \in Job, requestCancel(t) PROVE FALSE
  <2>1. [row[j] EXCEPT !.cancel = TRUE].state = row[j].state
    BY <1>0 DEF Row
  <2>. QED
    BY <1>0, <1>7, <2>1 DEF requestCancel, TypeOK
<1>8. ASSUME NEW p \in Proc, EnqueueRead(p) \/ EnqueueInsert(p) \/ CancelWrite(p) \/ Stop(p) \/ Restart(p)
      PROVE  FALSE
  <2>1. busy[p].job \in Job
    BY <1>0 DEF TypeOK
  <2>2. ~EnqueueInsert(p)
    BY <1>0, <2>1 DEF EnqueueInsert, TypeOK, Active
  <2>. QED
    BY <1>7, <1>8, <2>1, <2>2 DEF EnqueueRead, CancelWrite, Stop, Restart
<1>9. ASSUME NEW t \in Task, \/ \E p \in Proc : Offload(t, p) \/ CancelRead(t, p)
                             \/ BudgetSpent(t) \/ CallAborted(t)
      PROVE  FALSE
  <2>1. ASSUME NEW p \in Proc, Offload(t, p) PROVE FALSE
    BY <1>0, <2>1 DEF Offload, TypeOK, Active
  <2>. QED
    BY <1>0, <1>7, <1>9, <2>1 DEF CancelRead, BudgetSpent, CallAborted
<1>10. ASSUME NEW i \in Job, Lapse(i) \/ ComeDue(i) \/ Sweep(i) PROVE FALSE
  <2>1. ~Sweep(i)
    BY <1>0 DEF Sweep, Terminal, Active, TypeOK
  <2>2. /\ [row[j] EXCEPT !.alive = FALSE].state = row[j].state
        /\ [row[j] EXCEPT !.due = TRUE].state = row[j].state
    BY <1>0 DEF Row
  <2>. QED
    <3>1. ASSUME NEW r, row' = [row EXCEPT ![i] = r], i = j => r.state = row[j].state PROVE FALSE
      BY <1>0, <3>1 DEF TypeOK
    <3>2. ~Lapse(i)
      BY <2>2, <3>1 DEF Lapse
    <3>3. ~ComeDue(i)
      BY <2>2, <3>1 DEF ComeDue
    <3>. QED
      BY <1>10, <2>1, <3>2, <3>3
<1>11. CASE UNCHANGED vars
  BY <1>11 DEF vars
<1>. QED
  BY <1>2, <1>3, <1>4, <1>5, <1>6, <1>8, <1>9, <1>10, <1>11 DEF Next, Proceed, Settling

LEMMA NextPolite == LInv /\ OneProcess /\ [Next]_vars => Polite'
<1>. SUFFICES ASSUME LInv, OneProcess, [Next]_vars
              PROVE  /\ \A p \in Proc : busy'[p].at = "cancel" => row'[busy'[p].job].state \in Active
                     /\ \A t \in Task : wait'[t] \in Proc => row'[t].state \in Active
  BY DEF Polite
<1>0. /\ TypeOK /\ AtRest.at = "free" /\ Task \subseteq Job
      /\ Proc \cap {"none", "handle", "answered"} = {} /\ \A p \in Proc : busy[p].job \in Job
  BY RestTyped, JobQueueAssumption DEF LInv, IInv, TypeOK, Job
<1>1. ASSUME NEW p \in Proc, busy'[p].at = "cancel" PROVE row'[busy'[p].job].state \in Active
  <2>1. CASE busy'[p] = busy[p]
    BY <1>0, <1>1, <2>1, Leaves DEF LInv, Polite
  <2>2. busy'[p] = busy[p] \/ \E t \in Task : CancelRead(t, p)
    <3>1. ASSUME NEW q \in Proc, EnqueueRead(q) \/ Proceed(q) \/ Restart(q) PROVE busy'[p] = busy[p]
      <4>1. CASE q # p
        BY <1>0, <3>1, <4>1 DEF EnqueueRead, Proceed, EnqueueDelete, EnqueueInsert, CancelWrite, StartTask, Restart, TypeOK
      <4>2. CASE q = p
        <5>1. CASE EnqueueRead(p) \/ EnqueueDelete(p)
          <6>1. \/ busy'[p] = AtRest \/ \E k : busy'[p] = [at |-> "insert", job |-> k]
                \/ \E k : busy'[p] = [at |-> "delete", job |-> k]
            BY <1>0, <5>1, ReadThen, DeleteThen
          <6>2. \A k : /\ [at |-> "insert", job |-> k].at # "cancel"
                       /\ [at |-> "delete", job |-> k].at # "cancel"
            OBVIOUS
          <6>. QED
            BY <1>0, <1>1, <6>1, <6>2
        <5>2. CASE EnqueueInsert(p) \/ CancelWrite(p) \/ StartTask(p) \/ Restart(p)
          BY <1>0, <1>1, <5>2 DEF EnqueueInsert, CancelWrite, StartTask, Restart, TypeOK
        <5>. QED
          BY <3>1, <4>2, <5>1, <5>2 DEF Proceed
      <4>. QED
        BY <4>1, <4>2
    <3>2. ASSUME NEW t \in Task, NEW q \in Proc, Offload(t, q) PROVE busy'[p] = busy[p]
      BY <1>0, <1>1, <3>2 DEF Offload, TypeOK
    <3>3. ASSUME NEW t \in Task, NEW q \in Proc, CancelRead(t, q) PROVE CancelRead(t, p)
      BY <3>3 DEF OneProcess
    <3>4. CASE \/ \E q \in Proc : Stop(q)
               \/ \E t \in Task : BudgetSpent(t) \/ CallAborted(t)
               \/ \E w \in Worker : Claim(w) \/ Beat(w) \/ Settling(w)
               \/ \E j \in Job : Lapse(j) \/ ComeDue(j) \/ Sweep(j)
               \/ UNCHANGED vars
      BY <3>4 DEF Stop, BudgetSpent, CallAborted, Claim, Beat, Settling, Begin, Answer, ToolError, Throw, Complete, Catch, Lapse, ComeDue, Sweep, vars
    <3>. QED
      BY <3>1, <3>2, <3>3, <3>4 DEF Next
  <2>3. ASSUME NEW t \in Task, CancelRead(t, p) PROVE row'[busy'[p].job].state \in Active
    BY <1>0, <2>3 DEF CancelRead, TypeOK
  <2>. QED
    BY <2>1, <2>2, <2>3
<1>2. ASSUME NEW t \in Task, wait'[t] \in Proc PROVE row'[t].state \in Active
  <2>1. CASE wait[t] \in Proc
    BY <1>0, <1>2, <2>1, Leaves DEF LInv, Polite
  <2>2. CASE \E p \in Proc : Offload(t, p)
    BY <1>0, <2>2 DEF Offload, TypeOK, Queued, Active
  <2>3. wait[t] \in Proc \/ \E p \in Proc : Offload(t, p)
    <3>1. \A p, S : Announce(p, S) => wait'[t] = wait[t] \/ wait'[t] = "answered"
      BY DEF Announce
    <3>2. ASSUME NEW s \in Task, NEW p \in Proc, s # t, Offload(s, p) PROVE wait'[t] = wait[t]
      BY <1>0, <3>2 DEF Offload, TypeOK
    <3>3. ASSUME NEW s \in Task, BudgetSpent(s) \/ CallAborted(s) PROVE wait'[t] = wait[t] \/ wait'[t] = "handle"
      BY <1>0, <3>3 DEF BudgetSpent, CallAborted, TypeOK
    <3>4. ASSUME NEW p \in Proc, StartTask(p) \/ Restart(p)
          PROVE  wait'[t] = wait[t] \/ wait'[t] \in {"handle", "answered"}
      BY <1>0, <3>4 DEF StartTask, Restart, TypeOK
    <3>5. ASSUME NEW w \in Worker, Claim(w) \/ Settling(w) PROVE wait'[t] = wait[t] \/ wait'[t] = "answered"
      BY <3>1, <3>5 DEF Claim, Settling, Begin, Answer, ToolError, Throw, Complete, Catch, fail, AnnounceRun
    <3>6. CASE \/ \E p \in Proc : EnqueueRead(p) \/ EnqueueDelete(p) \/ EnqueueInsert(p) \/ CancelWrite(p) \/ Stop(p)
               \/ \E s \in Task, p \in Proc : CancelRead(s, p)
               \/ \E w \in Worker : Beat(w)
               \/ \E j \in Job : Lapse(j) \/ ComeDue(j) \/ Sweep(j)
               \/ UNCHANGED vars
      BY <1>2, <3>6 DEF EnqueueRead, EnqueueDelete, EnqueueInsert, CancelWrite, Stop, CancelRead, Beat, Lapse, ComeDue, Sweep, vars
    <3>. QED
      BY <1>0, <1>2, <3>2, <3>3, <3>4, <3>5, <3>6 DEF Next, Proceed
  <2>. QED
    BY <2>1, <2>2, <2>3
<1>. QED
  BY <1>1, <1>2

\* A row that is over is left as it is until it is swept.
LEMMA OverKept ==
  ASSUME LInv, [Next]_vars, NEW t \in Job, row[t].state \in Terminal
  PROVE  row'[t] = row[t] \/ row'[t] = Gone
<1>0. /\ TypeOK /\ row[t] \in Row /\ row[t].state \notin Active /\ Task \subseteq Job
      /\ \A p \in Proc : busy[p].job \in Job
  BY DEF LInv, IInv, TypeOK, Terminal, Active, Job
<1>1. ASSUME NEW j \in Job, row[j].state \in Active, requestCancel(j) PROVE row'[t] = row[t]
  BY <1>0, <1>1 DEF requestCancel, TypeOK
<1>2. ASSUME NEW p \in Proc, EnqueueRead(p) \/ Proceed(p) \/ Stop(p) \/ Restart(p), ~StartTask(p)
      PROVE  row'[t] = row[t] \/ row'[t] = Gone
  <2>1. CASE CancelWrite(p)
    BY <1>0, <1>1, <2>1 DEF CancelWrite, LInv, Polite
  <2>2. CASE EnqueueDelete(p)
    BY <1>0, <2>2 DEF EnqueueDelete, Gone, TypeOK
  <2>3. CASE EnqueueInsert(p)
    BY <1>0, <2>3 DEF EnqueueInsert, Terminal, TypeOK
  <2>. QED
    BY <1>2, <2>1, <2>2, <2>3 DEF Proceed, EnqueueRead, Stop, Restart
<1>3. ASSUME NEW s \in Task, \/ \E p \in Proc : Offload(s, p) \/ CancelRead(s, p)
                             \/ BudgetSpent(s) \/ CallAborted(s)
      PROVE  row'[t] = row[t]
  <2>1. CASE CallAborted(s)
    BY <1>0, <1>1, <2>1 DEF CallAborted, LInv, Polite
  <2>2. ASSUME NEW p \in Proc, Offload(s, p) PROVE row'[t] = row[t]
    BY <1>0, <2>2 DEF Offload, Terminal, TypeOK
  <2>. QED
    BY <1>3, <2>1, <2>2 DEF CancelRead, BudgetSpent
<1>4. ASSUME NEW w \in Worker, Beat(w) \/ Settling(w) PROVE row'[t] = row[t]
  <2>0. run[w].job \in Job
    BY <1>0 DEF TypeOK, Run
  <2>1. CASE run[w].job # t
    BY <1>0, <1>4, <2>0, <2>1
       DEF Settling, Beat, Begin, Answer, ToolError, Throw, Complete, Catch, fail, recordOutcome, Settle, TypeOK
  <2>2. CASE run[w].job = t
    <3>1. ~Owns(w)
      BY <2>2 DEF Owns, Terminal
    <3>. QED
      BY <1>0, <1>4, <2>2, <3>1
         DEF Settling, Beat, Begin, Answer, ToolError, Throw, Complete, Catch, fail, recordOutcome, Settle, TypeOK
  <2>. QED
    BY <2>1, <2>2
<1>5. CASE (\E w \in Worker : Claim(w)) \/ (\E p \in Proc : StartTask(p))
  <2>1. \A S : Finalize(S)[t] = row[t]
    BY <1>0 DEF Finalize, Cancelled, Unstarted, Terminal
  <2>. QED
    BY <1>0, <1>5, <2>1, ClaimTurns DEF Claims
<1>6. ASSUME NEW j \in Job, Lapse(j) \/ ComeDue(j) \/ Sweep(j) PROVE row'[t] = row[t] \/ row'[t] = Gone
  BY <1>0, <1>6 DEF Lapse, ComeDue, Sweep, Terminal, Gone, TypeOK
<1>7. CASE UNCHANGED vars
  BY <1>7 DEF vars
<1>. QED
  BY <1>2, <1>3, <1>4, <1>5, <1>6, <1>7 DEF Next

\* What a client sees of a row.
LEMMA RowLooks ==
  ASSUME NEW r \in Row
  PROVE  /\ r.state \in {"absent", "gone"} => StatusOf(r) = "unknown" /\ ShownOf(r) = "nothing"
         /\ r.state \in Active => StatusOf(r) = "working" /\ ShownOf(r) = "nothing"
         /\ r.state = "complete" => /\ StatusOf(r) = "completed"
                                    /\ r.outcome.tag = "ok" => ShownOf(r) = "result"
         /\ r.state = "failed" /\ r.cancel => StatusOf(r) = "cancelled" /\ ShownOf(r) = "nothing"
         /\ r.state = "failed" /\ ~r.cancel => StatusOf(r) = "failed" /\ ShownOf(r) \in {"error", "nothing"}
<1>1. r.state \in {"absent", "gone"} => StatusOf(r) = "unknown"
  BY DEF StatusOf, Active
<1>2. r.state \in Active => StatusOf(r) = "working"
  BY DEF StatusOf, Active
<1>3. r.state = "complete" => StatusOf(r) = "completed"
  BY DEF StatusOf, Active
<1>4. r.state = "failed" => StatusOf(r) = IF r.cancel THEN "cancelled" ELSE "failed"
  BY DEF StatusOf, Active
<1>5. StatusOf(r) \notin {"completed", "failed"} => ShownOf(r) = "nothing"
  BY DEF ShownOf
<1>6. StatusOf(r) = "completed" /\ r.outcome.tag = "ok" => ShownOf(r) = "result"
  BY DEF ShownOf
<1>7. StatusOf(r) = "failed" => ShownOf(r) \in {"error", "nothing"}
  BY DEF ShownOf
<1>. QED
  BY <1>1, <1>2, <1>3, <1>4, <1>5, <1>6, <1>7

Looks(r, status, shown) == StatusOf(r) = status /\ ShownOf(r) = shown

\* A task goes on as it was, is submitted, ends, or is forgotten.
Ends(r, s) ==
  /\ Looks(r, "working", "nothing")
  /\ \E a \in {"result", "error", "nothing"}, e \in {"completed", "failed", "cancelled"} :
       /\ Looks(s, e, a)
       /\ e = "completed" <=> a = "result"
       /\ e = "cancelled" => a = "nothing"

TurnsOver(r, s) ==
  \/ Looks(s, StatusOf(r), ShownOf(r))
  \/ Looks(r, "unknown", "nothing") /\ Looks(s, "working", "nothing")
  \/ Ends(r, s)
  \/ StatusOf(r) \in {"completed", "failed", "cancelled"} /\ Looks(s, "unknown", "nothing")

OneTask(i) == (\A t \in Task : t # i => row'[t] = row[t]) /\ TurnsOver(row[i], row'[i])

CancelsOnly(r, s) ==
  \/ Looks(s, StatusOf(r), ShownOf(r))
  \/ Looks(r, "working", "nothing") /\ Looks(s, "cancelled", "nothing")

CancelsAll == \A t \in Task : CancelsOnly(row[t], row'[t])

LEMMA TaskTurns ==
  ASSUME LInv, OneProcess, [Next]_vars
  PROVE  (\E i \in Task : OneTask(i)) \/ CancelsAll
<1>. IInv'
  BY NextAttempts DEF LInv
<1>0. /\ TypeOK /\ Task \subseteq Job /\ Task \cap Keyed = {}
      /\ \A t \in Job : row[t] \in Row /\ row'[t] \in Row
  BY JobQueueAssumption DEF LInv, IInv, TypeOK, Job
<1>1. CASE \/ UNCHANGED row
           \/ \E i \in Job \ Task : OneRow(i)
  <2>1. \A t \in Task : row'[t] = row[t]
    BY <1>0, <1>1 DEF OneRow
  <2>. QED
    BY <2>1 DEF CancelsAll, CancelsOnly, Looks
<1>2. ASSUME NEW i \in Task, OneRow(i)
      PROVE  OneTask(i)
  <2>0. /\ i \in Job /\ row[i] \in Row /\ row'[i] \in Row /\ row[i].state \in State
        /\ \A t \in Task : t # i => row'[t] = row[t]
    BY <1>0, <1>2 DEF OneRow, Row
  <2>1. CASE row[i].state \in Terminal
    <3>1. StatusOf(row[i]) \in {"completed", "failed", "cancelled"}
      BY <2>0, <2>1, RowLooks DEF Terminal
    <3>2. row'[i] = Gone => Looks(row'[i], "unknown", "nothing")
      BY <2>0, RowLooks DEF Gone, Queued, Looks
    <3>. QED
      BY <2>0, <2>1, <3>1, <3>2, OverKept DEF OneTask, TurnsOver, Looks
  <2>2. CASE row[i].state \in Active /\ row'[i].state \in Active
    BY <2>0, <2>2, RowLooks DEF OneTask, TurnsOver, Looks
  <2>3. CASE row[i].state \in Active /\ row'[i].state \notin Active
    <3>1. row'[i].state # "gone"
      BY <1>0, <2>0, <2>3, Leaves
    <3>2. /\ Gone.state = "gone" /\ Queued.state = "queued"
          /\ [row[i] EXCEPT !.cancel = TRUE].state = row[i].state
      BY <2>0 DEF Gone, Queued, Row
    <3>3. row'[i] = Dead(row[i]) \/ row'[i] = Completes(row[i])
      BY <1>2, <2>3, <3>1, <3>2 DEF OneRow, Turns, Active
    <3>4. row'[i].state = "failed" \/ row'[i].state = "complete"
      BY <2>0, <3>3 DEF Dead, Completes, Row
    <3>5. row'[i].state = "complete" => row'[i].outcome.tag = "ok"
      <4>1. CompletedHasResult'
        BY DEF IInv
      <4>2. row'[i].state = "complete" => row'[i].outcome = [tag |-> "ok", by |-> row'[i].attempt]
        BY <4>1 DEF CompletedHasResult
      <4>. QED
        BY <4>2
    <3>6. Looks(row[i], "working", "nothing")
      BY <2>0, <2>3, RowLooks DEF Looks
    <3>7. \/ Looks(row'[i], "completed", "result")
          \/ Looks(row'[i], "cancelled", "nothing")
          \/ Looks(row'[i], "failed", "error") \/ Looks(row'[i], "failed", "nothing")
      BY <2>0, <3>4, <3>5, RowLooks DEF Looks
    <3>8. Ends(row[i], row'[i])
      BY <3>6, <3>7 DEF Ends
    <3>. QED
      BY <2>0, <3>8 DEF OneTask, TurnsOver
  <2>4. CASE row[i].state \in {"absent", "gone"}
    <3>1. row'[i] = row[i] \/ row'[i] = Queued
      BY <1>2, <2>4 DEF OneRow, Turns, Active
    <3>2. row'[i] = Queued => Looks(row'[i], "working", "nothing")
      BY <2>0, RowLooks DEF Queued, Active, Looks
    <3>3. Looks(row[i], "unknown", "nothing")
      BY <2>0, <2>4, RowLooks DEF Looks
    <3>. QED
      BY <2>0, <3>1, <3>2, <3>3 DEF OneTask, TurnsOver, Looks
  <2>. QED
    BY <2>0, <2>1, <2>2, <2>3, <2>4 DEF State, Active, Terminal, OneTask
<1>3. CASE Claims
  <2>1. ASSUME NEW S, NEW t \in Task, row'[t] = Finalize(S)[t] PROVE CancelsOnly(row[t], row'[t])
    <3>1. CASE t \in Cancelled(S)
      <4>1. row'[t] = Dead(row[t]) /\ row[t].cancel /\ row[t].state \in Active
        BY <1>0, <2>1, <3>1 DEF Finalize, Cancelled, Unstarted, Active
      <4>2. row'[t].state = "failed" /\ row'[t].cancel
        BY <1>0, <4>1 DEF Dead, Row
      <4>. QED
        BY <1>0, <4>1, <4>2, RowLooks DEF CancelsOnly, Looks
    <3>2. CASE t \notin Cancelled(S)
      BY <1>0, <2>1, <3>2 DEF Finalize, CancelsOnly, Looks
    <3>. QED
      BY <3>1, <3>2
  <2>2. ASSUME NEW t \in Task, row[t].state \in Active, row'[t].state \in Active
        PROVE  CancelsOnly(row[t], row'[t])
    BY <1>0, <2>2, RowLooks DEF CancelsOnly, Looks
  <2>. QED
    BY <1>0, <1>3, <2>1, <2>2 DEF Claims, CancelsAll
<1>. QED
  BY <1>0, <1>1, <1>2, <1>3, NextTurns

LEMMA LifeStep ==
  ASSUME LInv, OneProcess, [Next]_vars
  PROVE  [Life!Next]_<<[t \in Task |-> StatusOf(row[t])], [t \in Task |-> ShownOf(row[t])]>>
<1>. DEFINE status == [t \in Task |-> StatusOf(row[t])]
            shown == [t \in Task |-> ShownOf(row[t])]
            status2 == [t \in Task |-> StatusOf(row'[t])]
            shown2 == [t \in Task |-> ShownOf(row'[t])]
<1>0. status' = status2 /\ shown' = shown2
  BY DEF StatusOf, ShownOf
<1>. HIDE DEF status2, shown2
<1>1. /\ \A t \in Task : status2[t] = StatusOf(row'[t]) /\ shown2[t] = ShownOf(row'[t])
      /\ status2 = [t \in Task |-> status2[t]] /\ shown2 = [t \in Task |-> shown2[t]]
  BY DEF status2, shown2
<1>2. \A t \in Task : row'[t] = row[t] => status2[t] = status[t] /\ shown2[t] = shown[t]
  BY <1>1
<1>3. ASSUME NEW i \in Task, OneTask(i)
      PROVE  \/ status2 = status /\ shown2 = shown
             \/ Life!Submit(i) \/ Life!End(i) \/ Life!Forget(i)
  <2>1. /\ status2 = [status EXCEPT ![i] = StatusOf(row'[i])]
        /\ shown2 = [shown EXCEPT ![i] = ShownOf(row'[i])]
    BY <1>1, <1>2, <1>3 DEF OneTask
  <2>2. status[i] = StatusOf(row[i]) /\ shown[i] = ShownOf(row[i])
    OBVIOUS
  <2>3. CASE Looks(row'[i], StatusOf(row[i]), ShownOf(row[i]))
    BY <1>1, <2>1, <2>3 DEF Looks
  <2>4. CASE Looks(row[i], "unknown", "nothing") /\ Looks(row'[i], "working", "nothing")
    <3>1. shown2 = shown
      BY <2>1, <2>4 DEF Looks
    <3>. QED
      BY <1>0, <2>1, <2>4, <3>1 DEF Looks, Life!Submit
  <2>5. CASE Ends(row[i], row'[i])
    BY <1>0, <2>1, <2>5 DEF Ends, Looks, Life!End, Life!Terminal
  <2>6. CASE StatusOf(row[i]) \in {"completed", "failed", "cancelled"} /\ Looks(row'[i], "unknown", "nothing")
    BY <1>0, <2>1, <2>6 DEF Looks, Life!Forget, Life!Terminal
  <2>. QED
    BY <1>3, <2>3, <2>4, <2>5, <2>6 DEF OneTask, TurnsOver
<1>4. ASSUME CancelsAll
      PROVE  \E S \in SUBSET {t \in Task : status[t] = "working"} :
                 status2 = [t \in Task |-> IF t \in S THEN "cancelled" ELSE status[t]] /\ shown2 = shown
  <2>. DEFINE S == {t \in Task : status[t] = "working" /\ status2[t] = "cancelled"}
  <2>1. \A t \in Task : /\ status2[t] = IF t \in S THEN "cancelled" ELSE status[t]
                        /\ shown2[t] = shown[t]
    BY <1>1, <1>4 DEF CancelsAll, CancelsOnly, Looks
  <2>2. shown2 = shown /\ status2 = [t \in Task |-> IF t \in S THEN "cancelled" ELSE status[t]]
    BY <1>1, <2>1
  <2>. QED
    BY <2>2
<1>5. CASE \E i \in Task : OneTask(i)
  BY <1>0, <1>3, <1>5 DEF Life!Next
<1>6. CASE CancelsAll
  BY <1>0, <1>4, <1>6 DEF Life!Next
<1>. QED
  BY <1>5, <1>6, TaskTurns

LEMMA InitLife == Init => Life!Init /\ Quiet /\ Polite
<1>. SUFFICES ASSUME Init PROVE Life!Init /\ Quiet /\ Polite
  OBVIOUS
<1>1. TypeOK /\ AtRest.at = "free" /\ "none" \notin Proc /\ Task \subseteq Job
  BY InitTyped, RestTyped, JobQueueAssumption DEF Job
<1>2. \A t \in Task : row[t] \in Row /\ row[t].state = "absent"
  BY <1>1 DEF Init, Queued, TypeOK
<1>3. \A t \in Task : StatusOf(row[t]) = "unknown" /\ ShownOf(row[t]) = "nothing"
  BY <1>2, RowLooks
<1>. QED
  BY <1>1, <1>3 DEF Init, Life!Init, Quiet, Polite

(* A task works, ends once, and keeps its end and its answer until it is   *)
(* forgotten (toMcpTask over the rows).  In one process: between the read  *)
(* and the write of cancelOwnedTask another process could end the task.    *)
THEOREM TaskEndsOnce == OneProcess => (Spec => TaskLifeImplemented)
<1>. SUFFICES ASSUME OneProcess PROVE Spec => TaskLifeImplemented
  OBVIOUS
<1>1. Init => LInv /\ Life!Init
  BY InitAttempts, InitPeriods, InitLife DEF LInv
<1>2. LInv /\ [Next]_vars => LInv'
  BY NextAttempts, NextPeriods, NextQuiet, NextPolite DEF LInv, IInv
<1>3. LInv /\ [Next]_vars
        => [Life!Next]_<<[t \in Task |-> StatusOf(row[t])], [t \in Task |-> ShownOf(row[t])]>>
  BY LifeStep
<1>. QED
  BY <1>1, <1>2, <1>3, PTL DEF Spec, TaskLifeImplemented, Life!Spec

=============================================================================
