---------------------------- MODULE SchedulerProofs ----------------------------
(***************************************************************************)
(* Proofs about Scheduler: the type invariant, and that no run of a job    *)
(* begins before its pause is over or beside another.                      *)
(***************************************************************************)
EXTENDS Scheduler, TLAPS

------------------------------------------------------------------------------
(* The inductive invariant.                                                *)

\* A job is marked in flight as long as its one run is at work.
Flights ==
  \A j \in Job : /\ status # "down" => (job[j].inFlight <=> running[j] = 1)
                 /\ status = "down" => running[j] = 0

\* The failures that the process counts, and those of the row, are the true ones.
Counts ==
  \A j \in Job : /\ status # "down" => job[j].failures = streak[j]
                 /\ row[j] = NoRow => streak[j] = 0
                 /\ row[j] # NoRow => row[j].failures = streak[j]

\* The timer is never set beyond what is due first, and none is left by a stop.
Armed == \A t \in timers : status = "up" /\ \A j \in Job : t.delay <= job[j].due

\* By the time a job is due, whether by its own count, by the timer that will fire
\* until then, or by its row, its pause is over.
Due ==
  status = "up" =>
    \A j \in Job : /\ since[j] + job[j].due >= Pause(j, streak[j])
                   /\ \A t \in timers :
                        since[j] + t.left + (job[j].due - t.delay) >= Pause(j, streak[j])

RowDue == \A j \in Job : row[j] # NoRow => since[j] + row[j].next >= Pause(j, streak[j])

IInv == TypeOK /\ Flights /\ Counts /\ Armed /\ Due /\ RowDue

------------------------------------------------------------------------------
(* Times, backoffs and timers.                                             *)

JobState == [due : 0 .. Longest, failures : 0 .. MaxFailures, inFlight : BOOLEAN]
RowState == [next : 0 .. Longest, failures : 0 .. MaxFailures]
Timer == [delay : 0 .. Longest, left : 0 .. Longest]

\* The interval before the next run covers the pause, and both are within the bound.
LEMMA EffTyped ==
  ASSUME NEW j \in Job, NEW f \in 0 .. MaxFailures
  PROVE  /\ effInterval(j, f) \in 0 .. Longest /\ Pause(j, f) \in Int
         /\ Pause(j, f) <= effInterval(j, f) /\ Pause(j, f) <= Longest
<1>1. Interval[j] \in Nat /\ Interval[j] <= Longest /\ f \in Nat
  BY SchedulerAssumption DEF Positive
<1>2. Interval[j] * 2 ^ f \in Int
  BY <1>1, SMT
<1>3. MaxBackoff \in Nat /\ MaxBackoff <= Longest /\ Longest \in Nat
  BY SchedulerAssumption DEF Positive
<1> HIDE DEF Positive
<1> DEFINE x == Interval[j] * 2 ^ f
<1>4. x \in Int
  BY <1>2
<1>5. effInterval(j, f) = Larger(Smaller(x, MaxBackoff), Interval[j])
  BY DEF effInterval
<1>6. Pause(j, f) = IF Interval[j] >= MaxBackoff THEN Interval[j] ELSE Smaller(x, MaxBackoff)
  BY DEF Pause
<1> HIDE DEF x
<1> QED
  BY <1>1, <1>3, <1>4, <1>5, <1>6 DEF Larger, Smaller

\* The failures after a run stay within the bound.
LEMMA FailuresTyped ==
  ASSUME NEW f \in 0 .. MaxFailures, NEW end \in {"async", "ok", "throws"}
  PROVE  Failures(f, end) \in 0 .. MaxFailures
  BY SchedulerAssumption DEF Failures, More, Smaller

\* Arming sets one timer, not beyond any job.
LEMMA Rearmed ==
  ASSUME job' \in [Job -> JobState], timers' \subseteq Earliest(job')
  PROVE  /\ timers' \subseteq Timer
         /\ \A t \in timers' : t.left = t.delay /\ \A j \in Job : t.delay <= job'[j].due
         /\ \A s, t \in timers' : s = t
<1>1. \A j \in Job : job'[j].due \in 0 .. Longest
  BY DEF JobState
<1>2. ASSUME NEW t \in timers'
      PROVE  \E j \in Job : /\ t = [delay |-> job'[j].due, left |-> job'[j].due]
                            /\ \A l \in Job : job'[j].due <= job'[l].due
  BY <1>2 DEF Earliest
<1>3. /\ timers' \subseteq Timer
      /\ \A t \in timers' : t.left = t.delay /\ \A j \in Job : t.delay <= job'[j].due
  BY <1>1, <1>2 DEF Timer
<1>4. ASSUME NEW s \in timers', NEW t \in timers'
      PROVE  s = t
  <2>1. PICK j \in Job : /\ s = [delay |-> job'[j].due, left |-> job'[j].due]
                         /\ \A l \in Job : job'[j].due <= job'[l].due
    BY <1>2
  <2>2. PICK k \in Job : /\ t = [delay |-> job'[k].due, left |-> job'[k].due]
                         /\ \A l \in Job : job'[k].due <= job'[l].due
    BY <1>2
  <2>3. job'[j].due = job'[k].due
    BY <1>1, <2>1, <2>2
  <2> QED
    BY <2>1, <2>2, <2>3
<1> QED
  BY <1>3, <1>4

\* The fields of a well-typed state.
LEMMA Parts ==
  ASSUME TypeOK
  PROVE  /\ Longest \in Nat /\ MaxFailures \in Nat
         /\ \A j \in Job :
              /\ job[j] \in JobState /\ job[j].due \in 0 .. Longest
              /\ job[j].failures \in 0 .. MaxFailures /\ job[j].inFlight \in BOOLEAN
              /\ since[j] \in 0 .. Longest /\ streak[j] \in 0 .. MaxFailures
              /\ running[j] \in 0 .. 1
              /\ row[j] = NoRow \/ row[j] \in RowState
              /\ row[j] # NoRow => row[j].next \in 0 .. Longest
         /\ \A t \in timers : t \in Timer /\ t.delay \in 0 .. Longest /\ t.left \in 0 .. t.delay
<1>1. \A j \in Job : job[j] \in JobState /\ (row[j] = NoRow \/ row[j] \in RowState)
  BY DEF TypeOK, JobState, RowState
<1>2. \A j \in Job : /\ job[j].due \in 0 .. Longest /\ job[j].failures \in 0 .. MaxFailures
                     /\ job[j].inFlight \in BOOLEAN
                     /\ row[j] # NoRow => row[j].next \in 0 .. Longest
  BY <1>1 DEF JobState, RowState
<1>3. Longest \in Nat /\ MaxFailures \in Nat
  BY SchedulerAssumption
<1>4. \A t \in timers : t \in Timer /\ t.delay \in 0 .. Longest /\ t.left \in 0 .. t.delay
  BY <1>3 DEF TypeOK, Timer
<1> QED
  BY <1>1, <1>2, <1>3, <1>4 DEF TypeOK

------------------------------------------------------------------------------
(* What a run leaves.                                                      *)

\* The job after the beginning or the end of a run is due when its pause is over.
LEMMA RunLeaves ==
  ASSUME TypeOK, Counts, status # "down", NEW j \in Job, NEW end \in {"async", "ok", "throws"}
  PROVE  LET f == Failures(streak[j], end) IN
         /\ f \in 0 .. MaxFailures
         /\ Run(j, end) \in JobState
         /\ Run(j, end).due = effInterval(j, f) /\ Run(j, end).failures = f
         /\ Run(j, end).inFlight <=> end = "async"
         /\ Persisted(j, end) \in RowState /\ Persisted(j, end) # NoRow
         /\ Persisted(j, end).next = effInterval(j, f) /\ Persisted(j, end).failures = f
<1> DEFINE f == Failures(streak[j], end)
<1>1. job[j].failures = streak[j] /\ streak[j] \in 0 .. MaxFailures
  BY Parts DEF Counts
<1>2. f \in 0 .. MaxFailures
  BY <1>1, FailuresTyped
<1>3. effInterval(j, f) \in 0 .. Longest
  BY <1>2, EffTyped
<1>4. end = "async" => Larger(row[j].failures, 0) = f
  <2>1. end = "async" => f = streak[j]
    BY DEF Failures
  <2>2. CASE row[j] = NoRow
    BY <1>1, <2>1, <2>2 DEF Counts, NoRow, Larger
  <2>3. CASE row[j] # NoRow
    BY <1>1, <2>1, <2>3 DEF Counts, Larger
  <2> QED
    BY <2>2, <2>3
<1>5. Run(j, end) = [due |-> effInterval(j, f), failures |-> f, inFlight |-> end = "async"]
  BY <1>1 DEF Run
<1>6. Persisted(j, end) = [next |-> effInterval(j, f), failures |-> f]
  BY <1>1, <1>4 DEF Persisted
<1> HIDE DEF f
<1>7. Persisted(j, end).failures # -1
  BY <1>2, <1>6
<1>8. /\ Run(j, end) \in JobState /\ Run(j, end).due = effInterval(j, f)
      /\ Run(j, end).failures = f /\ Run(j, end).inFlight = (end = "async")
  BY <1>2, <1>3, <1>5 DEF JobState
<1>9. /\ Persisted(j, end) \in RowState /\ Persisted(j, end) # NoRow
      /\ Persisted(j, end).next = effInterval(j, f) /\ Persisted(j, end).failures = f
  BY <1>2, <1>3, <1>6, <1>7 DEF RowState, NoRow
<1> QED
  BY <1>2, <1>8, <1>9 DEF f

------------------------------------------------------------------------------
(* The steps.                                                              *)

\* Once every job is due when its pause is over, so it is by the timer then set.
LEMMA DueRearmed ==
  ASSUME SchedulerAssumption, job' \in [Job -> JobState], timers' \subseteq Earliest(job'),
         timers' # {} => status' = "up",
         \A j \in Job : since'[j] \in 0 .. Longest /\ streak'[j] \in 0 .. MaxFailures,
         status' = "up" => \A j \in Job : since'[j] + job'[j].due >= Pause(j, streak'[j])
  PROVE  /\ Armed' /\ Due'
         /\ timers' \subseteq Timer /\ \A s, t \in timers' : s = t /\ t.left <= t.delay
<1>1. /\ timers' \subseteq Timer
      /\ \A t \in timers' : /\ t.delay \in 0 .. Longest /\ t.left = t.delay
                            /\ \A j \in Job : t.delay <= job'[j].due
      /\ \A s, t \in timers' : s = t
  BY Rearmed DEF Timer
<1>2. \A j \in Job : Pause(j, streak'[j]) \in Int /\ job'[j].due \in 0 .. Longest
  BY EffTyped DEF JobState
<1>3. Longest \in Nat
  BY SchedulerAssumption
<1>4. Armed'
  BY <1>1 DEF Armed
<1>5. Due'
  BY <1>1, <1>2, <1>3 DEF Due
<1> QED
  BY <1>1, <1>3, <1>4, <1>5

LEMMA StartStep ==
  ASSUME IInv, Start
  PROVE  IInv'
<1> USE SchedulerAssumption DEF IInv
<1>1. /\ status = "down" /\ status' = "up" /\ job' = [j \in Job |-> Seed(j)] /\ began' = {}
      /\ timers' = Earliest(job') /\ UNCHANGED <<row, running, since, streak>>
  BY DEF Start
<1>2. ASSUME NEW j \in Job
      PROVE  /\ job'[j] \in JobState /\ job'[j].failures = streak[j] /\ ~job'[j].inFlight
             /\ since[j] + job'[j].due >= Pause(j, streak[j])
  <2>1. /\ job'[j].due = IF row[j] = NoRow THEN effInterval(j, 0) ELSE row[j].next
        /\ job'[j].failures = IF row[j] = NoRow THEN 0 ELSE row[j].failures
        /\ job'[j].inFlight = FALSE
        /\ job'[j] = [due |-> job'[j].due, failures |-> job'[j].failures, inFlight |-> FALSE]
    BY <1>1 DEF Seed
  <2>2. /\ since[j] \in 0 .. Longest /\ streak[j] \in 0 .. MaxFailures /\ Longest \in Nat
        /\ Pause(j, streak[j]) \in Int
    BY Parts, EffTyped
  <2>3. job'[j].failures = streak[j]
    BY <2>1 DEF Counts
  <2>4. job'[j].due \in 0 .. Longest /\ since[j] + job'[j].due >= Pause(j, streak[j])
    <3>1. CASE row[j] = NoRow
      <4>1. streak[j] = 0 /\ job'[j].due = effInterval(j, 0)
        BY <2>1, <3>1 DEF Counts
      <4>2. job'[j].due \in 0 .. Longest /\ Pause(j, streak[j]) <= job'[j].due
        BY <2>2, <4>1, EffTyped
      <4> QED
        BY <2>2, <4>2
    <3>2. CASE row[j] # NoRow
      <4>1. job'[j].due = row[j].next /\ row[j].next \in 0 .. Longest
        BY <2>1, <3>2, Parts
      <4>2. since[j] + row[j].next >= Pause(j, streak[j])
        BY <3>2 DEF RowDue
      <4> QED
        BY <4>1, <4>2
    <3> QED
      BY <3>1, <3>2
  <2>5. job'[j] \in JobState
    BY <2>1, <2>2, <2>3, <2>4 DEF JobState
  <2> QED
    BY <2>1, <2>3, <2>4, <2>5
<1>3. job' \in [Job -> JobState]
  BY <1>1, <1>2
<1>4. /\ Armed' /\ Due'
      /\ timers' \subseteq Timer /\ \A s, t \in timers' : s = t /\ t.left <= t.delay
  BY <1>1, <1>2, <1>3, Parts, DueRearmed
<1>5. TypeOK'
  BY <1>1, <1>3, <1>4 DEF TypeOK, JobState, Timer
<1>6. Flights' /\ Counts'
  BY <1>1, <1>2, Parts DEF Flights, Counts
<1>7. RowDue'
  BY <1>1 DEF RowDue
<1> QED
  BY <1>4, <1>5, <1>6, <1>7

LEMMA PassStep ==
  ASSUME IInv, Pass
  PROVE  IInv'
<1> USE SchedulerAssumption DEF IInv
<1>1. /\ timers' = {[t EXCEPT !.left = Larger(@ - 1, 0)] : t \in timers}
      /\ row' = [j \in Job |-> [row[j] EXCEPT !.next = Larger(@ - 1, 0)]]
      /\ since' = [j \in Job |-> Smaller(since[j] + 1, Longest)]
      /\ began' = {} /\ UNCHANGED <<status, job, running, streak>>
  BY DEF Pass
<1>2. ASSUME NEW t \in timers'
      PROVE  \E s \in timers : /\ t = [delay |-> s.delay, left |-> Larger(s.left - 1, 0)]
                               /\ t.delay = s.delay /\ t.left \in 0 .. t.delay
                               /\ t.left >= s.left - 1
  <2>1. PICK s \in timers : t = [s EXCEPT !.left = Larger(s.left - 1, 0)]
    BY <1>1, <1>2
  <2>2. s \in Timer /\ s.delay \in Nat /\ s.left \in 0 .. s.delay
    BY Parts
  <2>3. t = [delay |-> s.delay, left |-> Larger(s.left - 1, 0)]
    BY <2>1, <2>2 DEF Timer
  <2>4. t.delay = s.delay /\ t.left = Larger(s.left - 1, 0)
    BY <2>3
  <2> QED
    BY <2>2, <2>3, <2>4 DEF Larger
<1>3. timers' \subseteq Timer /\ \A s, t \in timers' : s = t /\ t.left <= t.delay
  <2>1. ASSUME NEW t \in timers'
        PROVE  t \in Timer /\ t.left <= t.delay
    <3>1. PICK s \in timers : /\ t = [delay |-> s.delay, left |-> Larger(s.left - 1, 0)]
                              /\ t.delay = s.delay /\ t.left \in 0 .. t.delay
      BY <1>2, <2>1
    <3>2. s.delay \in 0 .. Longest /\ Longest \in Nat
      BY Parts
    <3> QED
      BY <3>1, <3>2 DEF Timer
  <2>2. \A s, t \in timers' : s = t
    BY <1>1 DEF TypeOK
  <2> QED
    BY <2>1, <2>2
<1>4. ASSUME NEW j \in Job
      PROVE  /\ since'[j] \in 0 .. Longest /\ (since'[j] = since[j] + 1 \/ since'[j] = Longest)
             /\ row[j] = NoRow => row'[j] = NoRow
             /\ row[j] # NoRow =>
                  /\ row'[j] \in RowState /\ row'[j] # NoRow
                  /\ row'[j].failures = row[j].failures /\ row'[j].next >= row[j].next - 1
  <2>1. since'[j] \in 0 .. Longest /\ (since'[j] = since[j] + 1 \/ since'[j] = Longest)
    BY <1>1, Parts DEF Smaller
  <2>2. row'[j] = [row[j] EXCEPT !.next = Larger(row[j].next - 1, 0)]
    BY <1>1
  <2>3. row[j] = NoRow => row'[j] = NoRow
    BY <2>2 DEF NoRow, Larger
  <2>4. CASE row[j] # NoRow
    <3>1. row[j] \in RowState /\ row[j].next \in 0 .. Longest
      BY <2>4, Parts
    <3>2. row'[j] = [next |-> Larger(row[j].next - 1, 0), failures |-> row[j].failures]
      BY <2>2, <3>1 DEF RowState
    <3>3. Larger(row[j].next - 1, 0) \in 0 .. Longest
      BY <3>1 DEF Larger
    <3>4. row[j].failures \in 0 .. MaxFailures /\ row[j].failures # -1
      BY <3>1 DEF RowState
    <3>5. row'[j] \in RowState
      BY <3>2, <3>3, <3>4 DEF RowState
    <3>6. row'[j].failures # -1
      BY <3>2, <3>4
    <3> QED
      BY <2>1, <2>4, <3>1, <3>2, <3>5, <3>6 DEF NoRow, Larger
  <2> QED
    BY <2>1, <2>3, <2>4
<1>5. TypeOK'
  <2>1. since' \in [Job -> 0 .. Longest] /\ row' \in [Job -> RowState \cup {NoRow}]
    BY <1>1, <1>4, Parts
  <2> QED
    BY <1>1, <1>3, <2>1 DEF TypeOK, RowState, Timer
<1>6. Flights' /\ Counts'
  BY <1>1, <1>4 DEF Flights, Counts
<1>7. Armed'
  BY <1>1, <1>2 DEF Armed
<1>8. \A j \in Job : Pause(j, streak[j]) \in Int /\ Pause(j, streak[j]) <= Longest
  BY Parts, EffTyped
<1>9. Due'
  <2> SUFFICES ASSUME status = "up", NEW j \in Job
               PROVE  /\ since'[j] + job[j].due >= Pause(j, streak[j])
                      /\ \A t \in timers' :
                           since'[j] + t.left + (job[j].due - t.delay) >= Pause(j, streak[j])
    BY <1>1 DEF Due
  <2>1. job[j].due \in 0 .. Longest /\ since[j] \in 0 .. Longest /\ Longest \in Nat
    BY Parts
  <2>2. since'[j] + job[j].due >= Pause(j, streak[j])
    <3>1. since[j] + job[j].due >= Pause(j, streak[j])
      BY DEF Due
    <3> QED
      BY <1>4, <1>8, <2>1, <3>1
  <2>3. ASSUME NEW t \in timers'
        PROVE  since'[j] + t.left + (job[j].due - t.delay) >= Pause(j, streak[j])
    <3>1. PICK s \in timers : /\ t.delay = s.delay /\ t.left \in 0 .. t.delay
                              /\ t.left >= s.left - 1
      BY <1>2, <2>3
    <3>2. s.delay \in Nat /\ s.left \in Nat /\ s.delay <= job[j].due
      BY Parts DEF Armed
    <3>3. since[j] + s.left + (job[j].due - s.delay) >= Pause(j, streak[j])
      BY DEF Due
    <3>4. CASE since'[j] = Longest
      BY <1>8, <2>1, <3>1, <3>2, <3>4
    <3>5. CASE since'[j] = since[j] + 1
      BY <1>8, <2>1, <3>1, <3>2, <3>3, <3>5
    <3> QED
      BY <1>4, <3>4, <3>5
  <2> QED
    BY <2>2, <2>3
<1>10. RowDue'
  <2> SUFFICES ASSUME NEW j \in Job, row'[j] # NoRow
               PROVE  since'[j] + row'[j].next >= Pause(j, streak[j])
    BY <1>1 DEF RowDue
  <2>1. /\ since[j] + row[j].next >= Pause(j, streak[j]) /\ row[j].next \in 0 .. Longest
        /\ row'[j].next >= row[j].next - 1 /\ row'[j].next \in 0 .. Longest
        /\ since[j] \in 0 .. Longest /\ Longest \in Nat
    BY <1>4, Parts DEF RowDue, RowState
  <2> QED
    BY <1>4, <1>8, <2>1
<1> QED
  BY <1>5, <1>6, <1>7, <1>9, <1>10

\* What a fired timer makes of the jobs.
LEMMA FireMoves ==
  ASSUME IInv, NEW t \in timers, Fires(t), NEW j \in Job
  PROVE  /\ status = "up" /\ Moved(t)[j] \in JobState
         /\ Moved(t)[j].due = job[j].due - t.delay
         /\ Moved(t)[j].failures = job[j].failures /\ Moved(t)[j].inFlight = job[j].inFlight
         /\ since[j] + Moved(t)[j].due >= Pause(j, streak[j])
         /\ j \in selectDue(t) => since[j] >= Pause(j, streak[j])
<1> USE SchedulerAssumption DEF IInv
<1>1. /\ job[j] \in JobState /\ job[j].due \in 0 .. Longest /\ t.delay \in 0 .. Longest
      /\ Longest \in Nat /\ since[j] \in 0 .. Longest /\ streak[j] \in 0 .. MaxFailures
  BY Parts
<1>2. status = "up" /\ t.left = 0 /\ t.delay <= job[j].due
  BY DEF Fires, Armed
<1>3. Moved(t)[j] = [job[j] EXCEPT !.due = job[j].due - t.delay]
  BY DEF Moved
<1>4. job[j].due - t.delay \in 0 .. Longest
  BY <1>1, <1>2
<1>5. /\ Moved(t)[j] \in JobState /\ Moved(t)[j].due = job[j].due - t.delay
      /\ Moved(t)[j].failures = job[j].failures /\ Moved(t)[j].inFlight = job[j].inFlight
  BY <1>1, <1>3, <1>4 DEF JobState
<1>6. Pause(j, streak[j]) \in Int /\ since[j] + (job[j].due - t.delay) >= Pause(j, streak[j])
  <2>1. Pause(j, streak[j]) \in Int
    BY <1>1, EffTyped
  <2>2. since[j] + t.left + (job[j].due - t.delay) >= Pause(j, streak[j])
    BY <1>2 DEF Due
  <2> QED
    BY <1>1, <1>2, <2>1, <2>2
<1>7. j \in selectDue(t) => job[j].due - t.delay <= 0
  BY <1>5 DEF selectDue
<1> QED
  BY <1>1, <1>2, <1>5, <1>6, <1>7

LEMMA TickStep ==
  ASSUME IInv, Tick
  PROVE  IInv'
<1> USE SchedulerAssumption DEF IInv
<1>1. PICK t \in timers, end \in [Job -> {"async", "ok", "throws"}] :
        LET due == selectDue(t)
            idle == {j \in due : ~ job[j].inFlight}
            js == [j \in Job |->
                     IF j \in idle THEN Run(j, end[j])
                     ELSE IF j \in due THEN [job[j] EXCEPT !.due = effInterval(j, job[j].failures)]
                     ELSE Moved(t)[j]]
        IN /\ Fires(t)
           /\ job' = js /\ timers' = arm(js)
           /\ row' = [j \in Job |-> IF j \in idle THEN Persisted(j, end[j]) ELSE row[j]]
           /\ running' = [j \in Job |-> IF j \in idle /\ end[j] = "async" THEN running[j] + 1
                                                                          ELSE running[j]]
           /\ since' = [j \in Job |-> IF j \in idle THEN 0 ELSE since[j]]
           /\ streak' = [j \in Job |-> IF j \in idle THEN Failures(streak[j], end[j])
                                                     ELSE streak[j]]
           /\ began' = idle
           /\ UNCHANGED status
  BY Zenon DEF Tick
<1> DEFINE due == selectDue(t)
           idle == {j \in due : ~ job[j].inFlight}
<1>2. Fires(t) /\ status = "up" /\ status' = status /\ began' = idle /\ began' \subseteq Job
  BY <1>1 DEF Fires, selectDue
<1>3. timers' = Earliest(job')
  BY <1>1, <1>2 DEF arm
<1>4. ASSUME NEW j \in idle
      PROVE  /\ job'[j] = Run(j, end[j]) /\ row'[j] = Persisted(j, end[j])
             /\ since'[j] = 0 /\ streak'[j] = Failures(streak[j], end[j])
             /\ running'[j] = IF end[j] = "async" THEN running[j] + 1 ELSE running[j]
             /\ end[j] \in {"async", "ok", "throws"} /\ j \in Job /\ running[j] = 0
  <2>1. j \in Job /\ ~job[j].inFlight
    BY DEF selectDue
  <2>2. running[j] = 0
    BY <1>2, <2>1, Parts DEF Flights
  <2> QED
    BY <1>1, <2>1, <2>2
<1>5. ASSUME NEW j \in Job \ idle
      PROVE  /\ row'[j] = row[j] /\ since'[j] = since[j] /\ streak'[j] = streak[j]
             /\ running'[j] = running[j]
             /\ j \notin due => job'[j] = Moved(t)[j]
             /\ j \in due => job'[j] = [job[j] EXCEPT !.due = effInterval(j, job[j].failures)]
  BY <1>1
<1>6. /\ job' = [j \in Job |-> job'[j]] /\ row' = [j \in Job |-> row'[j]]
      /\ running' = [j \in Job |-> running'[j]] /\ since' = [j \in Job |-> since'[j]]
      /\ streak' = [j \in Job |-> streak'[j]]
  BY <1>1
<1> HIDE DEF due, idle
<1>7. ASSUME NEW j \in Job
      PROVE  /\ job'[j] \in JobState /\ row'[j] \in RowState \cup {NoRow}
             /\ running'[j] \in 0 .. 1 /\ (job'[j].inFlight <=> running'[j] = 1)
             /\ since'[j] \in 0 .. Longest /\ streak'[j] \in 0 .. MaxFailures
             /\ job'[j].failures = streak'[j]
             /\ row'[j] = NoRow => streak'[j] = 0
             /\ row'[j] # NoRow => /\ row'[j].failures = streak'[j]
                                   /\ since'[j] + row'[j].next >= Pause(j, streak'[j])
             /\ since'[j] + job'[j].due >= Pause(j, streak'[j])
  <2>1. CASE j \in idle
    <3> DEFINE f == Failures(streak[j], end[j])
    <3>1. /\ f \in 0 .. MaxFailures
          /\ job'[j] \in JobState /\ job'[j].due = effInterval(j, f) /\ job'[j].failures = f
          /\ job'[j].inFlight <=> end[j] = "async"
          /\ row'[j] \in RowState /\ row'[j] # NoRow
          /\ row'[j].next = effInterval(j, f) /\ row'[j].failures = f
      BY <1>2, <1>4, <2>1, RunLeaves
    <3>2. /\ since'[j] = 0 /\ streak'[j] = f /\ running[j] = 0
          /\ running'[j] = IF end[j] = "async" THEN running[j] + 1 ELSE running[j]
      BY <1>4, <2>1
    <3> HIDE DEF f
    <3>3. /\ effInterval(j, f) \in 0 .. Longest /\ Pause(j, f) \in Int
          /\ Pause(j, f) <= effInterval(j, f) /\ Longest \in Nat
      BY <3>1, EffTyped, Parts
    <3> QED
      BY <3>1, <3>2, <3>3
  <2>2. CASE j \notin idle
    <3>1. /\ row'[j] = row[j] /\ since'[j] = since[j] /\ streak'[j] = streak[j]
          /\ running'[j] = running[j]
      BY <1>5, <2>2
    <3>2. /\ row'[j] \in RowState \cup {NoRow} /\ running'[j] \in 0 .. 1
          /\ since'[j] \in 0 .. Longest /\ streak'[j] \in 0 .. MaxFailures
          /\ row'[j] = NoRow => streak'[j] = 0
          /\ row'[j] # NoRow => row'[j].failures = streak'[j]
          /\ row'[j] # NoRow => since'[j] + row'[j].next >= Pause(j, streak'[j])
      BY <3>1, Parts DEF Counts, RowDue
    <3>3. /\ job[j].failures = streak[j] /\ (job[j].inFlight <=> running[j] = 1)
      BY <1>2 DEF Counts, Flights
    <3>4. CASE j \notin due
      <4>1. job'[j] = Moved(t)[j]
        BY <1>5, <2>2, <3>4
      <4>2. /\ job'[j] \in JobState /\ job'[j].failures = job[j].failures
            /\ job'[j].inFlight = job[j].inFlight
            /\ since[j] + job'[j].due >= Pause(j, streak[j])
        BY <1>2, <4>1, FireMoves
      <4> QED
        BY <3>1, <3>2, <3>3, <4>2
    <3>5. CASE j \in due
      <4>1. /\ effInterval(j, streak[j]) \in 0 .. Longest /\ Pause(j, streak[j]) \in Int
            /\ Pause(j, streak[j]) <= effInterval(j, streak[j])
        BY <3>1, <3>2, EffTyped
      <4>2. job[j] \in JobState /\ job'[j] = [job[j] EXCEPT !.due = effInterval(j, streak[j])]
        BY <1>5, <2>2, <3>3, <3>5, Parts
      <4>3. /\ job'[j] \in JobState /\ job'[j].due = effInterval(j, streak[j])
            /\ job'[j].failures = job[j].failures /\ job'[j].inFlight = job[j].inFlight
        BY <4>1, <4>2 DEF JobState
      <4>4. since'[j] + job'[j].due >= Pause(j, streak'[j])
        BY <3>1, <3>2, <4>1, <4>3, Parts
      <4> QED
        BY <3>1, <3>2, <3>3, <4>3, <4>4
    <3> QED
      BY <3>4, <3>5
  <2> QED
    BY <2>1, <2>2
<1>8. job' \in [Job -> JobState]
  BY <1>6, <1>7
<1>9. /\ Armed' /\ Due'
      /\ timers' \subseteq Timer /\ \A s, u \in timers' : s = u /\ u.left <= u.delay
  BY <1>2, <1>3, <1>7, <1>8, DueRearmed
<1>10. TypeOK'
  <2>1. /\ row' \in [Job -> RowState \cup {NoRow}] /\ running' \in [Job -> 0 .. 1]
        /\ since' \in [Job -> 0 .. Longest] /\ streak' \in [Job -> 0 .. MaxFailures]
    BY <1>6, <1>7
  <2> QED
    BY <1>2, <1>8, <1>9, <2>1 DEF TypeOK, JobState, RowState, Timer
<1>11. Flights' /\ Counts' /\ RowDue'
  BY <1>2, <1>7 DEF Flights, Counts, RowDue
<1> QED
  BY <1>9, <1>10, <1>11

LEMMA DeferStep ==
  ASSUME IInv, Defer
  PROVE  IInv'
<1> USE SchedulerAssumption DEF IInv
<1>1. PICK t \in timers :
        /\ Fires(t)
        /\ job' = [j \in Job |-> IF j \in selectDue(t) THEN [job[j] EXCEPT !.due = Recheck]
                                                      ELSE Moved(t)[j]]
        /\ timers' = arm(job') /\ began' = {}
        /\ UNCHANGED <<status, row, running, since, streak>>
  BY DEF Defer
<1>2. status = "up" /\ timers' = Earliest(job')
  BY <1>1 DEF Fires, arm
<1>3. ASSUME NEW j \in Job
      PROVE  /\ job'[j] \in JobState /\ job'[j].failures = job[j].failures
             /\ job'[j].inFlight = job[j].inFlight
             /\ since[j] + job'[j].due >= Pause(j, streak[j])
  <2>1. CASE j \in selectDue(t)
    <3>1. job'[j] = [job[j] EXCEPT !.due = Recheck] /\ job[j] \in JobState
      BY <1>1, <2>1, Parts
    <3>2. Recheck \in Nat /\ Recheck \in 0 .. Longest
      BY DEF Positive
    <3>3. /\ job'[j] \in JobState /\ job'[j].due = Recheck
          /\ job'[j].failures = job[j].failures /\ job'[j].inFlight = job[j].inFlight
      BY <3>1, <3>2 DEF JobState
    <3>4. since[j] >= Pause(j, streak[j]) /\ since[j] \in Nat /\ Pause(j, streak[j]) \in Int
      BY <1>1, <2>1, FireMoves, Parts, EffTyped
    <3> QED
      BY <3>2, <3>3, <3>4
  <2>2. CASE j \notin selectDue(t)
    BY <1>1, <2>2, FireMoves
  <2> QED
    BY <2>1, <2>2
<1>4. job' \in [Job -> JobState]
  BY <1>1, <1>3
<1>5. /\ Armed' /\ Due'
      /\ timers' \subseteq Timer /\ \A s, u \in timers' : s = u /\ u.left <= u.delay
  BY <1>1, <1>2, <1>3, <1>4, Parts, DueRearmed
<1>6. TypeOK'
  BY <1>1, <1>4, <1>5 DEF TypeOK, JobState, Timer
<1>7. Flights' /\ Counts' /\ RowDue'
  BY <1>1, <1>2, <1>3 DEF Flights, Counts, RowDue
<1> QED
  BY <1>5, <1>6, <1>7

LEMMA SettleStep ==
  ASSUME IInv, NEW j \in Job, Settle(j)
  PROVE  IInv'
<1> USE SchedulerAssumption DEF IInv
<1>1. PICK end \in {"ok", "throws"} :
        /\ running[j] > 0
        /\ running' = [running EXCEPT ![j] = @ - 1]
        /\ job' = [job EXCEPT ![j] = Run(j, end)]
        /\ timers' = arm(job')
        /\ row' = [row EXCEPT ![j] = Persisted(j, end)]
        /\ since' = [since EXCEPT ![j] = 0]
        /\ streak' = [streak EXCEPT ![j] = Failures(@, end)]
        /\ began' = {}
        /\ UNCHANGED status
  BY DEF Settle
<1>2. status # "down" /\ running[j] = 1
  BY <1>1, Parts DEF Flights
<1> DEFINE f == Failures(streak[j], end)
<1>3. /\ f \in 0 .. MaxFailures
      /\ Run(j, end) \in JobState /\ Run(j, end).due = effInterval(j, f)
      /\ Run(j, end).failures = f /\ ~Run(j, end).inFlight
      /\ Persisted(j, end) \in RowState /\ Persisted(j, end) # NoRow
      /\ Persisted(j, end).next = effInterval(j, f) /\ Persisted(j, end).failures = f
  BY <1>2, RunLeaves
<1>4. /\ job'[j] = Run(j, end) /\ row'[j] = Persisted(j, end) /\ running'[j] = 0
      /\ since'[j] = 0 /\ streak'[j] = f
  BY <1>1, <1>2 DEF TypeOK
<1>5. \A k \in Job \ {j} : /\ job'[k] = job[k] /\ row'[k] = row[k] /\ running'[k] = running[k]
                           /\ since'[k] = since[k] /\ streak'[k] = streak[k]
  BY <1>1 DEF TypeOK
<1> HIDE DEF f
<1>6. /\ effInterval(j, f) \in 0 .. Longest /\ Pause(j, f) \in Int
      /\ Pause(j, f) <= effInterval(j, f) /\ Longest \in Nat
  BY <1>3, EffTyped, Parts
<1>7. /\ job' \in [Job -> JobState] /\ row' \in [Job -> RowState \cup {NoRow}]
      /\ running' \in [Job -> 0 .. 1] /\ since' \in [Job -> 0 .. Longest]
      /\ streak' \in [Job -> 0 .. MaxFailures]
  <2>1. /\ job \in [Job -> JobState] /\ row \in [Job -> RowState \cup {NoRow}]
        /\ running \in [Job -> 0 .. 1] /\ since \in [Job -> 0 .. Longest]
        /\ streak \in [Job -> 0 .. MaxFailures]
    BY DEF TypeOK, JobState, RowState
  <2>2. 0 \in 0 .. 1 /\ 0 \in 0 .. Longest
    BY <1>6
  <2>3. streak' = [streak EXCEPT ![j] = f] /\ running' = [running EXCEPT ![j] = 0]
    BY <1>1, <1>2 DEF f
  <2> QED
    BY <1>1, <1>3, <2>1, <2>2, <2>3
<1>8. status' = "up" => \A k \in Job : since'[k] + job'[k].due >= Pause(k, streak'[k])
  <2> SUFFICES ASSUME status = "up", NEW k \in Job
               PROVE  since'[k] + job'[k].due >= Pause(k, streak'[k])
    BY <1>1
  <2>1. CASE k = j
    BY <2>1, <1>3, <1>4, <1>6
  <2>2. CASE k # j
    BY <2>2, <1>5 DEF Due
  <2> QED
    BY <2>1, <2>2
<1>9. /\ Armed' /\ Due'
      /\ timers' \subseteq Timer /\ \A s, u \in timers' : s = u /\ u.left <= u.delay
  <2>1. timers' \subseteq Earliest(job') /\ (timers' # {} => status' = "up")
    BY <1>1 DEF arm
  <2>2. \A k \in Job : since'[k] \in 0 .. Longest /\ streak'[k] \in 0 .. MaxFailures
    BY <1>7
  <2> QED
    BY <1>7, <1>8, <2>1, <2>2, DueRearmed
<1>10. TypeOK'
  BY <1>1, <1>7, <1>9 DEF TypeOK, JobState, RowState, Timer
<1>11. Flights' /\ Counts'
  BY <1>1, <1>2, <1>3, <1>4, <1>5 DEF Flights, Counts
<1>12. RowDue'
  <2> SUFFICES ASSUME NEW k \in Job, row'[k] # NoRow
               PROVE  since'[k] + row'[k].next >= Pause(k, streak'[k])
    BY DEF RowDue
  <2>1. CASE k = j
    BY <2>1, <1>3, <1>4, <1>6
  <2>2. CASE k # j
    BY <2>2, <1>5 DEF RowDue
  <2> QED
    BY <2>1, <2>2
<1> QED
  BY <1>9, <1>10, <1>11, <1>12

LEMMA StopStep ==
  ASSUME IInv, Stop
  PROVE  IInv'
<1> USE SchedulerAssumption DEF IInv
<1>1. TypeOK'
  BY DEF Stop, TypeOK
<1>2. Flights' /\ Counts' /\ Armed' /\ Due' /\ RowDue'
  BY DEF Stop, Flights, Counts, Armed, Due, RowDue
<1> QED
  BY <1>1, <1>2

LEMMA ExitStep ==
  ASSUME IInv, Exit
  PROVE  IInv'
<1> USE SchedulerAssumption DEF IInv
<1>1. [due |-> 0, failures |-> 0, inFlight |-> FALSE] \in JobState
  BY Parts DEF JobState
<1>2. TypeOK'
  BY <1>1 DEF Exit, TypeOK, JobState
<1>3. Flights' /\ Counts' /\ Armed' /\ Due' /\ RowDue'
  BY DEF Exit, Flights, Counts, Armed, Due, RowDue
<1> QED
  BY <1>2, <1>3

------------------------------------------------------------------------------
(* The theorems.                                                           *)

LEMMA Initially == Init => IInv
<1> SUFFICES ASSUME Init
             PROVE  IInv
  OBVIOUS
<1> USE SchedulerAssumption DEF Init
<1>1. [due |-> 0, failures |-> 0, inFlight |-> FALSE] \in JobState
  BY DEF JobState
<1>2. TypeOK
  BY <1>1 DEF TypeOK, JobState
<1>3. Flights /\ Counts /\ Armed /\ Due /\ RowDue
  BY DEF Flights, Counts, Armed, Due, RowDue
<1> QED
  BY <1>2, <1>3 DEF IInv

LEMMA Inductive == IInv /\ [Next]_vars => IInv'
<1> SUFFICES ASSUME IInv, [Next]_vars
             PROVE  IInv'
  OBVIOUS
<1>1. CASE Next
  BY <1>1, StartStep, PassStep, TickStep, DeferStep, SettleStep, StopStep, ExitStep DEF Next
<1>2. CASE UNCHANGED vars
  BY <1>2 DEF vars, hist, IInv, TypeOK, Flights, Counts, Armed, Due, RowDue
<1> QED
  BY <1>1, <1>2

\* Every reachable state of the scheduler is well typed, for any set of jobs: among others,
\* there is at most one timer (arm clears the last), and a job has at most one run.
THEOREM TypeCorrect == Spec => []TypeOK
<1>1. IInv => TypeOK
  BY DEF IInv
<1> QED
  BY <1>1, Initially, Inductive, PTL DEF Spec

\* A run of a job never begins beside another, nor before the pause that its failures call
\* for, for any jobs and intervals, over settlements, deferrals, stops and crashes
\* (scheduler.ts: runJob, effInterval, seedNextRun).
THEOREM PauseKept == Spec => NeverEarly
<1>1. IInv /\ [Next]_vars
        => [\A j \in began' : running[j] = 0 /\ since[j] >= Pause(j, streak[j])]_vars
  <2> SUFFICES ASSUME IInv, [Next]_vars, ~(UNCHANGED vars), NEW j \in began'
               PROVE  running[j] = 0 /\ since[j] >= Pause(j, streak[j])
    OBVIOUS
  <2>1. Tick
    BY DEF Next, Start, Pass, Defer, Stop, Exit, Settle
  <2>2. PICK t \in timers : Fires(t) /\ j \in selectDue(t) /\ ~job[j].inFlight
    BY <2>1 DEF Tick
  <2>3. j \in Job /\ status = "up"
    BY <2>2 DEF selectDue, Fires
  <2>4. since[j] >= Pause(j, streak[j])
    BY <2>2, <2>3, FireMoves
  <2>5. running[j] = 0
    BY <2>2, <2>3, Parts DEF IInv, Flights
  <2> QED
    BY <2>4, <2>5
<1> QED
  BY <1>1, Initially, Inductive, PTL DEF Spec, NeverEarly
=============================================================================
