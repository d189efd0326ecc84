-------------------------- MODULE VaultLeaderProofs --------------------------
(* Theorems about VaultLeader, for any set of processes and any number of  *)
(* faults.                                                                 *)
EXTENDS VaultLeader, TLAPS

\* Every run is fenced to an epoch the table has reached, and what a deposed leader
\* has, or may start, to an earlier one than the present.
Fenced ==
  /\ \A q \in Proc : run[q].e <= epoch
  /\ \A q \in superseded :
       /\ phase[q] # "read"
       /\ phase[q] = "leader" => mine[q] < epoch
       /\ run[q] # NoRun => run[q].e < epoch

\* Only a leader has a run that was not told to stop.
RunsAsLeader == \A q \in Proc : run[q] # NoRun /\ ~run[q].aborted => phase[q] = "leader"

\* From the open to the end of the role there is a connection.
Connected ==
  \A q \in Proc : phase[q] \in {"open", "got", "write", "read", "leader"} => conn[q] # 0

Closed(q) ==
  stage[q] = "closed" =>
    run[q] = NoRun /\ ~Leads(q) /\ (phase[q] \notin {"open", "got"} => conn[q] = 0)

RoleInv == RunsAsLeader /\ Connected /\ \A q \in Proc : Closed(q)

IInv == TypeOK /\ Fenced /\ RoleInv
-----------------------------------------------------------------------------
(* What a step may do to a run, and to a lock.                             *)

LEMMA AbortedRun ==
  ASSUME TypeOK, NEW q \in Proc, Aborted(q)
  PROVE  /\ run' \in [Proc -> Run]
         /\ \A r \in Proc : run'[r].e = run[r].e /\ (run'[r] = NoRun <=> run[r] = NoRun)
         /\ \A r \in Proc \ {q} : run'[r] = run[r]
         /\ run'[q] = NoRun \/ run'[q].aborted
<1>1. run \in [Proc -> Run]
  BY DEF TypeOK
<1>2. CASE run[q] = NoRun
  BY <1>1, <1>2 DEF Aborted
<1>3. CASE run[q] # NoRun
  <2>1. run' = [run EXCEPT ![q].aborted = TRUE]
    BY <1>3 DEF Aborted
  <2>2. run'[q] = [kind |-> run[q].kind, e |-> run[q].e, aborted |-> TRUE]
    BY <1>1, <2>1 DEF Run
  <2>3. \A r \in Proc \ {q} : run'[r] = run[r]
    BY <1>1, <2>1
  <2>4. run'[q] \in Run /\ run'[q] # NoRun
    BY <1>1, <2>2 DEF Run, NoRun
  <2>5. run' \in [Proc -> Run]
    BY <1>1, <2>1, <2>4
  <2> QED
    BY <1>3, <2>2, <2>3, <2>4, <2>5
<1> QED
  BY <1>2, <1>3

LEMMA StartedRun ==
  ASSUME TypeOK, NEW q \in Proc, NEW kind \in {"own", "timer"}, NEW e \in Nat, Started(q, kind, e)
  PROVE  /\ run' \in [Proc -> Run]
         /\ \A r \in Proc \ {q} : run'[r] = run[r]
         /\ \/ run'[q] = run[q]
            \/ run[q] = NoRun /\ run'[q] = [kind |-> kind, e |-> e, aborted |-> FALSE]
<1>1. [kind |-> kind, e |-> e, aborted |-> FALSE] \in Run
  BY DEF Run
<1> QED
  BY <1>1 DEF TypeOK, Started, RunEpoch

LEMMA ReleasedLock ==
  ASSUME TypeOK, NEW q \in Proc, ReleasedBy(q)
  PROVE  /\ conn' \in [Proc -> 0 .. file] /\ txn' \in [Proc -> BOOLEAN]
         /\ held' \in [Proc -> 0 .. file] /\ streak' \in [Proc -> 0 .. 1]
         /\ conn'[q] = 0 /\ \A r \in Proc \ {q} : conn'[r] = conn[r]
BY DEF TypeOK, ReleasedBy

-----------------------------------------------------------------------------
(* The types.                                                              *)

LEMMA TypeStep == TypeOK /\ [Next]_vars => TypeOK'
<1> SUFFICES ASSUME TypeOK, [Next]_vars PROVE TypeOK'
  OBVIOUS
<1> USE VaultLeaderAssumption DEF lock, life, hist, NoRun, TypeOK, Run, Phase, Leads
<1>1. ASSUME NEW q \in Proc, Open(q) PROVE TypeOK'
  BY <1>1 DEF Open
<1>2. ASSUME NEW q \in Proc, BeginExclusive(q) PROVE TypeOK'
  <2>1. phase' \in [Proc -> Phase] /\ wired' \in [Proc -> BOOLEAN]
    BY <1>2 DEF BeginExclusive
  <2>2. CASE ReleasedBy(q)
    BY <1>2, <2>1, <2>2, ReleasedLock DEF BeginExclusive
  <2>3. CASE ~ ReleasedBy(q)
    BY <1>2, <2>1, <2>3 DEF BeginExclusive
  <2> QED
    BY <2>2, <2>3
<1>3. ASSUME NEW q \in Proc, Promote(q, file) PROVE TypeOK'
  <2>1. phase' \in [Proc -> Phase] /\ wired' \in [Proc -> BOOLEAN]
    BY <1>3 DEF Promote
  <2>2. CASE ReleasedBy(q)
    BY <1>3, <2>1, <2>2, ReleasedLock DEF Promote, Fault
  <2>3. CASE UNCHANGED <<conn, txn>> /\ held' = [held EXCEPT ![q] = file] /\ streak' = [streak EXCEPT ![q] = 0]
    BY <1>3, <2>1, <2>3 DEF Promote, Fault
  <2> QED
    BY <1>3, <2>2, <2>3 DEF Promote
<1>4. ASSUME NEW q \in Proc, BumpWrite(q) PROVE TypeOK'
  BY <1>4 DEF BumpWrite
<1>5. ASSUME NEW q \in Proc, BumpRead(q) PROVE TypeOK'
  <2>1. CASE UNCHANGED run
    BY <1>5, <2>1 DEF BumpRead
  <2>2. CASE Started(q, "own", epoch)
    <3>1. epoch \in Nat
      OBVIOUS
    <3>2. run' \in [Proc -> Run]
      BY <2>2, <3>1, StartedRun
    <3>3. mine' \in [Proc -> 0 .. epoch] /\ phase' \in [Proc -> Phase] /\ wired' \in [Proc -> BOOLEAN]
      BY <1>5 DEF BumpRead
    <3> QED
      BY <1>5, <3>2, <3>3 DEF BumpRead
  <2> QED
    BY <1>5, <2>1, <2>2 DEF BumpRead
<1>6. ASSUME NEW q \in Proc, Tick(q, file) PROVE TypeOK'
  <2>1. CASE Demoted(q)
    <3>1. Aborted(q) /\ phase' = [phase EXCEPT ![q] = "demote"] /\ streak' = [streak EXCEPT ![q] = 0]
      BY <2>1 DEF Demoted
    <3> QED
      BY <1>6, <3>1, AbortedRun DEF Tick, Fault
  <2>2. CASE UNCHANGED <<phase, run>>
    BY <1>6, <2>2 DEF Tick, Fault, Demoted
  <2> QED
    BY <1>6, <2>1, <2>2 DEF Tick
<1>7. ASSUME NEW q \in Proc, DemoteDone(q) PROVE TypeOK'
  BY <1>7 DEF DemoteDone, ReleasedBy
<1>8. ASSUME NEW q \in Proc, Promote(q, 0) PROVE TypeOK'
  <2>1. phase' \in [Proc -> Phase] /\ wired' \in [Proc -> BOOLEAN]
    BY <1>8 DEF Promote
  <2>2. CASE ReleasedBy(q)
    BY <1>8, <2>1, <2>2, ReleasedLock DEF Promote, Fault
  <2>3. CASE UNCHANGED <<conn, txn>> /\ held' = [held EXCEPT ![q] = 0] /\ streak' = [streak EXCEPT ![q] = 0]
    BY <1>8, <2>1, <2>3 DEF Promote, Fault
  <2> QED
    BY <1>8, <2>2, <2>3 DEF Promote
<1>9. ASSUME NEW q \in Proc, Tick(q, 0) PROVE TypeOK'
  <2>1. CASE Demoted(q)
    <3>1. Aborted(q) /\ phase' = [phase EXCEPT ![q] = "demote"] /\ streak' = [streak EXCEPT ![q] = 0]
      BY <2>1 DEF Demoted
    <3> QED
      BY <1>9, <3>1, AbortedRun DEF Tick, Fault
  <2>2. CASE UNCHANGED <<phase, run>>
    BY <1>9, <2>2 DEF Tick, Fault, Demoted
  <2> QED
    BY <1>9, <2>1, <2>2 DEF Tick
<1>10. ASSUME NEW q \in Proc, BootPass(q) PROVE TypeOK'
  <2>1. CASE UNCHANGED run
    BY <1>10, <2>1 DEF BootPass
  <2>2. CASE Started(q, "own", mine[q])
    <3>1. mine[q] \in Nat
      OBVIOUS
    <3>2. run' \in [Proc -> Run]
      BY <2>2, <3>1, StartedRun
    <3> QED
      BY <1>10, <3>2 DEF BootPass
  <2> QED
    BY <1>10, <2>1, <2>2 DEF BootPass
<1>11. ASSUME NEW q \in Proc, TimerPass(q) PROVE TypeOK'
  BY <1>11 DEF TimerPass, Started, RunEpoch
<1>12. ASSUME NEW q \in Proc, EndPass(q) PROVE TypeOK'
  BY <1>12 DEF EndPass
<1>13. ASSUME NEW q \in Proc, CommitBatch(q) PROVE TypeOK'
  BY <1>13 DEF CommitBatch
<1>14. ASSUME NEW q \in Proc, Shutdown(q) PROVE TypeOK'
  <2>1. CASE UNCHANGED run
    BY <1>14, <2>1 DEF Shutdown, Fault
  <2>2. CASE Aborted(q)
    BY <1>14, <2>2, AbortedRun DEF Shutdown, Fault
  <2> QED
    BY <1>14, <2>1, <2>2 DEF Shutdown, Fault
<1>15. ASSUME NEW q \in Proc, Close(q) PROVE TypeOK'
  <2>1. phase' \in [Proc -> Phase] /\ stage' \in [Proc -> {"up", "closing", "closed"}]
    BY <1>15 DEF Close
  <2>2. CASE ReleasedBy(q)
    BY <1>15, <2>1, <2>2, ReleasedLock DEF Close
  <2>3. CASE UNCHANGED lock
    BY <1>15, <2>1, <2>3 DEF Close
  <2> QED
    BY <1>15, <2>2, <2>3 DEF Close
<1>16. ASSUME NEW q \in Proc, Exit(q) PROVE TypeOK'
  BY <1>16 DEF Exit, Gone, ReleasedBy
<1>17. ASSUME NEW q \in Proc, Crash(q) PROVE TypeOK'
  BY <1>17 DEF Crash, Gone, ReleasedBy, Fault
<1>18. ASSUME NEW q \in Proc, Boot(q) PROVE TypeOK'
  BY <1>18 DEF Boot
<1>19. ASSUME NEW q \in Proc, LoseTxn(q) PROVE TypeOK'
  BY <1>19 DEF LoseTxn, Fault
<1>20. CASE Replace
  BY <1>20 DEF Replace, Fault
<1>21. CASE UNCHANGED vars
  BY <1>21 DEF vars
<1> QED
  BY <1>1, <1>2, <1>3, <1>4, <1>5, <1>6, <1>7, <1>8, <1>9, <1>10, <1>11, <1>12, <1>13, <1>14, <1>15, <1>16, <1>17, <1>18, <1>19, <1>20, <1>21 DEF Next, Elect, Keep, Passes, Leave

(* vault-lock.ts: the election of a process, its lock, its pass and its    *)
(* epoch keep their types in every behaviour.                              *)
THEOREM TypeCorrect == Spec => []TypeOK
<1>1. Init => TypeOK
  BY VaultLeaderAssumption DEF Init, TypeOK, Run, NoRun, Phase
<1> QED
  BY <1>1, TypeStep, PTL DEF Spec

-----------------------------------------------------------------------------
(* The fence.                                                              *)

LEMMA FencedStep == TypeOK /\ Fenced /\ [Next]_vars => Fenced'
<1> SUFFICES ASSUME TypeOK /\ Fenced, [Next]_vars PROVE Fenced'
  OBVIOUS
<1> USE VaultLeaderAssumption DEF lock, life, hist, NoRun, TypeOK, Run, Phase, Leads, Fenced
<1>1. ASSUME NEW q \in Proc, Open(q) PROVE Fenced'
  BY <1>1 DEF Open
<1>2. ASSUME NEW q \in Proc, BeginExclusive(q) PROVE Fenced'
  BY <1>2 DEF BeginExclusive, Busy, ReleasedBy
<1>3. ASSUME NEW q \in Proc, Promote(q, file) PROVE Fenced'
  BY <1>3 DEF Promote, Drops, ReleasedBy, Fault
<1>4. ASSUME NEW q \in Proc, BumpWrite(q) PROVE Fenced'
  BY <1>4 DEF BumpWrite
<1>5. ASSUME NEW q \in Proc, BumpRead(q) PROVE Fenced'
  BY <1>5 DEF BumpRead, Started, RunEpoch
<1>6. ASSUME NEW q \in Proc, Tick(q, file) PROVE Fenced'
  <2>1. CASE Demoted(q)
    <3>1. Aborted(q) /\ phase' = [phase EXCEPT ![q] = "demote"] /\ streak' = [streak EXCEPT ![q] = 0]
      BY <2>1 DEF Demoted
    <3> QED
      BY <1>6, <3>1, AbortedRun DEF Tick, Fault
  <2>2. CASE UNCHANGED <<phase, run>>
    BY <1>6, <2>2 DEF Tick, Fault, Demoted
  <2> QED
    BY <1>6, <2>1, <2>2 DEF Tick
<1>7. ASSUME NEW q \in Proc, DemoteDone(q) PROVE Fenced'
  BY <1>7 DEF DemoteDone, ReleasedBy
<1>8. ASSUME NEW q \in Proc, Promote(q, 0) PROVE Fenced'
  BY <1>8 DEF Promote, Drops, ReleasedBy, Fault
<1>9. ASSUME NEW q \in Proc, Tick(q, 0) PROVE Fenced'
  <2>1. CASE Demoted(q)
    <3>1. Aborted(q) /\ phase' = [phase EXCEPT ![q] = "demote"] /\ streak' = [streak EXCEPT ![q] = 0]
      BY <2>1 DEF Demoted
    <3> QED
      BY <1>9, <3>1, AbortedRun DEF Tick, Fault
  <2>2. CASE UNCHANGED <<phase, run>>
    BY <1>9, <2>2 DEF Tick, Fault, Demoted
  <2> QED
    BY <1>9, <2>1, <2>2 DEF Tick
<1>10. ASSUME NEW q \in Proc, BootPass(q) PROVE Fenced'
  <2>1. CASE UNCHANGED run
    BY <1>10, <2>1 DEF BootPass
  <2>2. CASE Leads(q)
    <3>1. mine[q] \in Nat
      OBVIOUS
    <3>2. Started(q, "own", mine[q])
      BY <1>10, <2>2 DEF BootPass
    <3>3. /\ \A r \in Proc \ {q} : run'[r] = run[r]
          /\ \/ run'[q] = run[q]
             \/ run'[q] = [kind |-> "own", e |-> mine[q], aborted |-> FALSE]
      <4> HIDE DEF TypeOK, Fenced, Run, NoRun
      <4> QED
        BY <3>1, <3>2, StartedRun
    <3>4. UNCHANGED <<epoch, mine, phase, superseded>> /\ phase[q] = "leader"
      BY <1>10, <2>2 DEF BootPass
    <3>5. run'[q] = run[q] \/ run'[q].e = mine[q]
      BY <3>3
    <3>6. ASSUME NEW r \in Proc PROVE run'[r].e <= epoch
      <4>1. run[r].e <= epoch /\ mine[q] <= epoch
        OBVIOUS
      <4> QED
        BY <3>3, <3>5, <4>1
    <3>7. q \in superseded => mine[q] < epoch
      BY <3>4
    <3> QED
      BY <3>3, <3>4, <3>5, <3>6, <3>7
  <2> QED
    BY <1>10, <2>1, <2>2 DEF BootPass
<1>11. ASSUME NEW q \in Proc, TimerPass(q) PROVE Fenced'
  BY <1>11 DEF TimerPass, Started, RunEpoch
<1>12. ASSUME NEW q \in Proc, EndPass(q) PROVE Fenced'
  BY <1>12 DEF EndPass
<1>13. ASSUME NEW q \in Proc, CommitBatch(q) PROVE Fenced'
  BY <1>13 DEF CommitBatch
<1>14. ASSUME NEW q \in Proc, Shutdown(q) PROVE Fenced'
  <2>1. CASE UNCHANGED run
    BY <1>14, <2>1 DEF Shutdown, Fault
  <2>2. CASE Aborted(q)
    BY <1>14, <2>2, AbortedRun DEF Shutdown, Fault
  <2> QED
    BY <1>14, <2>1, <2>2 DEF Shutdown, Fault
<1>15. ASSUME NEW q \in Proc, Close(q) PROVE Fenced'
  BY <1>15 DEF Close, MayClose, ReleasedBy
<1>16. ASSUME NEW q \in Proc, Exit(q) PROVE Fenced'
  BY <1>16 DEF Exit, Gone, ReleasedBy
<1>17. ASSUME NEW q \in Proc, Crash(q) PROVE Fenced'
  BY <1>17 DEF Crash, Gone, ReleasedBy, Fault
<1>18. ASSUME NEW q \in Proc, Boot(q) PROVE Fenced'
  BY <1>18 DEF Boot
<1>19. ASSUME NEW q \in Proc, LoseTxn(q) PROVE Fenced'
  BY <1>19 DEF LoseTxn, Fault
<1>20. CASE Replace
  BY <1>20 DEF Replace, Fault
<1>21. CASE UNCHANGED vars
  BY <1>21 DEF vars
<1> QED
  BY <1>1, <1>2, <1>3, <1>4, <1>5, <1>6, <1>7, <1>8, <1>9, <1>10, <1>11, <1>12, <1>13, <1>14, <1>15, <1>16, <1>17, <1>18, <1>19, <1>20, <1>21 DEF Next, Elect, Keep, Passes, Leave

-----------------------------------------------------------------------------
(* The roles.                                                              *)

LEMMA RoleStep == TypeOK /\ RoleInv /\ [Next]_vars => RoleInv'
<1> SUFFICES ASSUME TypeOK /\ RoleInv, [Next]_vars PROVE RoleInv'
  OBVIOUS
<1> USE VaultLeaderAssumption DEF lock, life, hist, NoRun, TypeOK, Run, Phase, Leads, RoleInv, RunsAsLeader, Connected, Closed
<1>1. ASSUME NEW q \in Proc, Open(q) PROVE RoleInv'
  BY <1>1 DEF Open
<1>2. ASSUME NEW q \in Proc, BeginExclusive(q) PROVE RoleInv'
  <2>1. phase[q] = "open" /\ UNCHANGED <<run, stage>>
    BY <1>2 DEF BeginExclusive
  <2>2. CASE phase' = [phase EXCEPT ![q] = "idle"] /\ conn' = [conn EXCEPT ![q] = 0]
    BY <2>1, <2>2
  <2>3. CASE phase' = [phase EXCEPT ![q] = "got"] /\ UNCHANGED conn
    BY <2>1, <2>3
  <2> QED
    BY <1>2, <2>2, <2>3 DEF BeginExclusive, ReleasedBy
<1>3. ASSUME NEW q \in Proc, Promote(q, file) PROVE RoleInv'
  <2>1. phase[q] = "got" /\ UNCHANGED <<run, stage>>
    BY <1>3 DEF Promote
  <2>2. CASE phase' = [phase EXCEPT ![q] = "idle"] /\ conn' = [conn EXCEPT ![q] = 0]
    BY <2>1, <2>2
  <2>3. CASE stage[q] # "closed" /\ phase' = [phase EXCEPT ![q] = "write"] /\ UNCHANGED conn
    BY <2>1, <2>3
  <2> QED
    BY <1>3, <2>2, <2>3 DEF Promote, Drops, ReleasedBy
<1>4. ASSUME NEW q \in Proc, BumpWrite(q) PROVE RoleInv'
  BY <1>4 DEF BumpWrite
<1>5. ASSUME NEW q \in Proc, BumpRead(q) PROVE RoleInv'
  <2>1. /\ phase[q] = "read" /\ phase' = [phase EXCEPT ![q] = "leader"]
        /\ UNCHANGED <<conn, stage>>
    BY <1>5 DEF BumpRead
  <2>2. CASE UNCHANGED run
    BY <2>1, <2>2
  <2>3. CASE Started(q, "own", epoch)
    <3>1. epoch \in Nat
      OBVIOUS
    <3>2. /\ \A r \in Proc \ {q} : run'[r] = run[r]
          /\ \/ run'[q] = run[q]
             \/ run'[q] = [kind |-> "own", e |-> epoch, aborted |-> FALSE]
      <4> HIDE DEF TypeOK, RoleInv, Run, NoRun
      <4> QED
        BY <2>3, <3>1, StartedRun
    <3>3. RunsAsLeader'
      <4> SUFFICES ASSUME NEW r \in Proc, run'[r] # NoRun, ~run'[r].aborted
                   PROVE  phase'[r] = "leader"
        OBVIOUS
      <4>1. CASE r = q
        BY <2>1, <4>1
      <4>2. CASE r # q
        BY <2>1, <3>2, <4>2
      <4> QED
        BY <4>1, <4>2
    <3>4. Connected'
      BY <2>1
    <3>5. ASSUME NEW r \in Proc PROVE Closed(r)'
      BY <2>1, <3>2
    <3> QED
      BY <3>3, <3>4, <3>5
  <2> QED
    BY <1>5, <2>2, <2>3 DEF BumpRead
<1>6. ASSUME NEW q \in Proc, Tick(q, file) PROVE RoleInv'
  <2>1. CASE Demoted(q)
    <3>1. Aborted(q) /\ phase' = [phase EXCEPT ![q] = "demote"] /\ streak' = [streak EXCEPT ![q] = 0]
      BY <2>1 DEF Demoted
    <3> QED
      BY <1>6, <3>1, AbortedRun DEF Tick, Fault
  <2>2. CASE UNCHANGED <<phase, run>>
    BY <1>6, <2>2 DEF Tick, Fault, Demoted
  <2> QED
    BY <1>6, <2>1, <2>2 DEF Tick
<1>7. ASSUME NEW q \in Proc, DemoteDone(q) PROVE RoleInv'
  BY <1>7 DEF DemoteDone, ReleasedBy
<1>8. ASSUME NEW q \in Proc, Promote(q, 0) PROVE RoleInv'
  <2>1. phase[q] = "got" /\ UNCHANGED <<run, stage>>
    BY <1>8 DEF Promote
  <2>2. CASE phase' = [phase EXCEPT ![q] = "idle"] /\ conn' = [conn EXCEPT ![q] = 0]
    BY <2>1, <2>2
  <2>3. CASE stage[q] # "closed" /\ phase' = [phase EXCEPT ![q] = "write"] /\ UNCHANGED conn
    BY <2>1, <2>3
  <2> QED
    BY <1>8, <2>2, <2>3 DEF Promote, Drops, ReleasedBy
<1>9. ASSUME NEW q \in Proc, Tick(q, 0) PROVE RoleInv'
  <2>1. CASE Demoted(q)
    <3>1. Aborted(q) /\ phase' = [phase EXCEPT ![q] = "demote"] /\ streak' = [streak EXCEPT ![q] = 0]
      BY <2>1 DEF Demoted
    <3> QED
      BY <1>9, <3>1, AbortedRun DEF Tick, Fault
  <2>2. CASE UNCHANGED <<phase, run>>
    BY <1>9, <2>2 DEF Tick, Fault, Demoted
  <2> QED
    BY <1>9, <2>1, <2>2 DEF Tick
<1>10. ASSUME NEW q \in Proc, BootPass(q) PROVE RoleInv'
  <2>1. CASE UNCHANGED run
    BY <1>10, <2>1 DEF BootPass
  <2>2. CASE Leads(q) /\ Started(q, "own", mine[q]) /\ run' # run
    <3>1. stage[q] = "up" /\ phase[q] = "leader" /\ UNCHANGED <<phase, conn, stage>>
      BY <1>10, <2>2 DEF BootPass, Started
    <3>2. run' = [run EXCEPT ![q] = [kind |-> "own", e |-> mine[q], aborted |-> FALSE]]
      BY <2>2 DEF Started, RunEpoch
    <3>3. \A r \in Proc \ {q} : run'[r] = run[r]
      BY <3>2
    <3>4. RunsAsLeader'
      BY <3>1, <3>3
    <3>5. Connected'
      BY <3>1
    <3>6. ASSUME NEW r \in Proc PROVE Closed(r)'
      BY <3>1, <3>3
    <3> QED
      BY <3>4, <3>5, <3>6
  <2> QED
    BY <1>10, <2>1, <2>2 DEF BootPass
<1>11. ASSUME NEW q \in Proc, TimerPass(q) PROVE RoleInv'
  BY <1>11 DEF TimerPass, Started, RunEpoch
<1>12. ASSUME NEW q \in Proc, EndPass(q) PROVE RoleInv'
  BY <1>12 DEF EndPass
<1>13. ASSUME NEW q \in Proc, CommitBatch(q) PROVE RoleInv'
  BY <1>13 DEF CommitBatch
<1>14. ASSUME NEW q \in Proc, Shutdown(q) PROVE RoleInv'
  <2>1. CASE UNCHANGED run
    BY <1>14, <2>1 DEF Shutdown, Fault
  <2>2. CASE Aborted(q)
    BY <1>14, <2>2, AbortedRun DEF Shutdown, Fault
  <2> QED
    BY <1>14, <2>1, <2>2 DEF Shutdown, Fault
<1>15. ASSUME NEW q \in Proc, Close(q) PROVE RoleInv'
  BY <1>15 DEF Close, MayClose, ReleasedBy
<1>16. ASSUME NEW q \in Proc, Exit(q) PROVE RoleInv'
  BY <1>16 DEF Exit, Gone, ReleasedBy
<1>17. ASSUME NEW q \in Proc, Crash(q) PROVE RoleInv'
  BY <1>17 DEF Crash, Gone, ReleasedBy, Fault
<1>18. ASSUME NEW q \in Proc, Boot(q) PROVE RoleInv'
  BY <1>18 DEF Boot
<1>19. ASSUME NEW q \in Proc, LoseTxn(q) PROVE RoleInv'
  BY <1>19 DEF LoseTxn, Fault
<1>20. CASE Replace
  BY <1>20 DEF Replace, Fault
<1>21. CASE UNCHANGED vars
  BY <1>21 DEF vars
<1> QED
  BY <1>1, <1>2, <1>3, <1>4, <1>5, <1>6, <1>7, <1>8, <1>9, <1>10, <1>11, <1>12, <1>13, <1>14, <1>15, <1>16, <1>17, <1>18, <1>19, <1>20, <1>21 DEF Next, Elect, Keep, Passes, Leave

-----------------------------------------------------------------------------
(* The theorems.                                                           *)

LEMMA Inductive == Spec => []IInv
<1>1. Init => IInv
  BY VaultLeaderAssumption
  DEF Init, IInv, TypeOK, Fenced, RoleInv, RunsAsLeader, Connected, Closed, Run, NoRun, Phase, Leads
<1>2. IInv /\ [Next]_vars => IInv'
  BY TypeStep, FencedStep, RoleStep DEF IInv
<1> QED
  BY <1>1, <1>2, PTL DEF Spec

(* vault-lock.ts, note-index-store.ts: a pass is fenced to the epoch its   *)
(* leader read back, so no batch of a deposed leader is committed, however *)
(* late it learns that it lost the lock.                                   *)
THEOREM NoDeposedBatch == Spec => NoLateBatch
<1>1. ASSUME IInv, [Next]_vars, NEW q \in Proc, index # q, index' = q
      PROVE  q \notin superseded
  <2>1. q # Nobody
    BY VaultLeaderAssumption
  <2>2. CommitBatch(q)
    BY <1>1, <2>1
    DEF Next, Elect, Keep, Passes, Leave, Open, BeginExclusive, Promote, BumpWrite, BumpRead,
        Tick, DemoteDone, BootPass, TimerPass, EndPass, CommitBatch, Shutdown, Close, Exit,
        Crash, Gone, Boot, LoseTxn, Replace, hist, vars
  <2>3. run[q] # NoRun /\ run[q].e = epoch
    BY <2>2 DEF CommitBatch
  <2>4. epoch \in Nat
    BY <1>1 DEF IInv, TypeOK
  <2>5. q \in superseded => run[q].e < epoch
    BY <1>1, <2>3 DEF IInv, Fenced
  <2> QED
    BY <2>3, <2>4, <2>5
<1>2. IInv /\ [Next]_vars => [\A q \in Proc : index # q /\ index' = q => q \notin superseded]_vars
  BY <1>1
<1> QED
  BY <1>2, Inductive, PTL DEF Spec, NoLateBatch

(* vault-lock.ts, start.ts: who gave its lock back has told its pass to    *)
(* stop, and who closed has no pass, no role and, but for an attempt in    *)
(* flight, no connection.                                                  *)
THEOREM LockGivenBack == Spec => []StopsBeforeRelease
<1>1. IInv => StopsBeforeRelease
  BY DEF IInv, TypeOK, RoleInv, RunsAsLeader, Connected, Closed, StopsBeforeRelease, Leads
<1> QED
  BY <1>1, Inductive, PTL
=============================================================================
