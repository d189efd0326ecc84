----------------------------- MODULE VaultLeader -----------------------------
(***************************************************************************)
(* The election of the one process that indexes a vault in the background: *)
(* an open BEGIN EXCLUSIVE on a lock file, a keepalive that looks whether  *)
(* it is still held, a demotion that waits a bounded time for the pass in  *)
(* flight, and the epoch that fences what such a pass still commits.       *)
(*                                                                         *)
(* Sources: runtime/{vault-lock,shutdown-phase,server-runtime}.ts,         *)
(* search/indexing/leader-epoch.ts.                                        *)
(*                                                                         *)
(* A connection holds the file it opened, not the name: replacing the lock *)
(* file gives the name another inode (file), counted from 1.               *)
(***************************************************************************)
EXTENDS Naturals, FiniteSets

CONSTANTS
  Proc,        \* processes that serve the vault
  Scheduled,   \* maintenance.reconcileIntervalMinutes is set
  MaxFaults    \* bound: crashes, shutdowns, lost transactions, replaced files,
               \* failing stats

VARIABLES
  file,        \* the inode of the lock file
  phase,       \* phase[q]: where the election of q stands
  stage,       \* stage[q]: "up", "closing" (close() has begun) or "closed"
  wired,       \* wired[q]: the first attempt has settled, the callbacks are in place
  boot,        \* boot[q]: the pass of the boot is still to come
  conn,        \* conn[q]: the inode of q's lock connection, 0 for none
  txn,         \* txn[q]: its transaction is open
  held,        \* held[q]: heldIdentity
  streak,      \* streak[q]: identityMismatchStreak
  run,         \* run[q]: the pass in flight
  epoch,       \* index_leader_epoch
  mine,        \* mine[q]: the epoch q's last promotion read back
  faults,      \* faults so far
  index,       \* history: whose batch was committed last since the last promotion
  superseded,  \* history: leaders, or processes with a pass, deposed by a promotion
  caught       \* history: those that completed a pass under the present epoch

lock == <<phase, conn, txn, held, streak>>
life == <<stage, wired, boot>>
hist == <<index, superseded, caught>>
vars == <<file, lock, life, run, epoch, mine, faults, hist>>

\* idle: the retry timer is set.  open: connected, before BEGIN EXCLUSIVE.  got:
\* the transaction is open, its caller has not gone on yet.  write, read: the two
\* statements of bumpLeaderEpoch.  demote: the callbacks of a demotion run.
Phase == {"down", "idle", "open", "got", "write", "read", "leader", "demote"}
Nobody == "nobody"

ASSUME VaultLeaderAssumption ==
  Scheduled \in BOOLEAN /\ MaxFaults \in Nat /\ Nobody \notin Proc

NoRun == [kind |-> "none", e |-> 0, aborted |-> FALSE]
Run == [kind : {"none", "own", "timer"}, e : Nat, aborted : BOOLEAN]

TypeOK ==
  /\ file \in Nat \ {0} /\ faults \in 0 .. MaxFaults /\ epoch \in Nat
  /\ phase \in [Proc -> Phase] /\ stage \in [Proc -> {"up", "closing", "closed"}]
  /\ wired \in [Proc -> BOOLEAN] /\ boot \in [Proc -> BOOLEAN]
  /\ conn \in [Proc -> 0 .. file] /\ txn \in [Proc -> BOOLEAN]
  /\ held \in [Proc -> 0 .. file] /\ streak \in [Proc -> 0 .. 1]
  /\ run \in [Proc -> Run] /\ mine \in [Proc -> 0 .. epoch]
  /\ index \in Proc \cup {Nobody} /\ superseded \subseteq Proc
  /\ caught \subseteq Proc

Init ==
  /\ file = 1 /\ phase = [q \in Proc |-> "idle"] /\ stage = [q \in Proc |-> "up"]
  /\ wired = [q \in Proc |-> FALSE] /\ boot = [q \in Proc |-> TRUE]
  /\ conn = [q \in Proc |-> 0] /\ txn = [q \in Proc |-> FALSE]
  /\ held = [q \in Proc |-> 0] /\ streak = [q \in Proc |-> 0]
  /\ run = [q \in Proc |-> NoRun] /\ epoch = 0 /\ mine = [q \in Proc |-> 0]
  /\ faults = 0 /\ index = Nobody /\ superseded = {} /\ caught = {}

\* isLeader()
Leads(q) == phase[q] \in {"write", "read", "leader"}

Fault == faults < MaxFaults /\ faults' = faults + 1

------------------------------------------------------------------------------
(* Acquiring.                                                              *)

\* tryAcquire opens the file that has the name now.  The first attempt is made at
\* once, the others when the retry timer fires.
Open(q) ==
  /\ phase[q] = "idle" /\ stage[q] # "closed"
  /\ phase' = [phase EXCEPT ![q] = "open"] /\ conn' = [conn EXCEPT ![q] = file]
  /\ UNCHANGED <<file, txn, held, streak, life, run, epoch, mine, faults, hist>>

\* releaseLockDb, or the same of a connection that was not promoted.
ReleasedBy(q) ==
  /\ conn' = [conn EXCEPT ![q] = 0] /\ txn' = [txn EXCEPT ![q] = FALSE]
  /\ held' = [held EXCEPT ![q] = 0] /\ streak' = [streak EXCEPT ![q] = 0]

\* BEGIN EXCLUSIVE: busy while another connection has the inode.
Busy(q) == \E r \in Proc \ {q} : txn[r] /\ conn[r] = conn[q]

BeginExclusive(q) ==
  /\ phase[q] = "open"
  /\ IF Busy(q)
     THEN /\ phase' = [phase EXCEPT ![q] = "idle"] /\ ReleasedBy(q)
          /\ wired' = [wired EXCEPT ![q] = TRUE]
     ELSE /\ phase' = [phase EXCEPT ![q] = "got"] /\ txn' = [txn EXCEPT ![q] = TRUE]
          /\ UNCHANGED <<conn, held, streak, wired>>
  /\ UNCHANGED <<file, stage, boot, run, epoch, mine, faults, hist>>

DropsNever(q) == FALSE

\* The recheck after the await: a closed follower gives the lock back.
Drops(q) == stage[q] = "closed"

\* The caller goes on: promote() takes the identity of the file of that name, and
\* retries when stat fails.
Promote(q, seen) ==
  /\ phase[q] = "got" /\ seen \in {0, file}
  /\ IF Drops(q) \/ seen = 0
     THEN /\ phase' = [phase EXCEPT ![q] = "idle"] /\ ReleasedBy(q)
          /\ wired' = [wired EXCEPT ![q] = TRUE]
     ELSE /\ phase' = [phase EXCEPT ![q] = "write"]
          /\ held' = [held EXCEPT ![q] = seen] /\ streak' = [streak EXCEPT ![q] = 0]
          /\ UNCHANGED <<conn, txn, wired>>
  /\ IF seen = 0 /\ ~Drops(q) THEN Fault ELSE faults' = faults
  /\ UNCHANGED <<file, stage, boot, run, epoch, mine, hist>>

------------------------------------------------------------------------------
(* The pass of the leader.                                                 *)

RunEpochOfTable(e) == epoch

\* The epoch a run is fenced to: what the promotion read, not what the table holds.
RunEpoch(e) == e

\* gated(): only on the leader, joining a run in flight.  A run under a signal that
\* is aborted already returns at once.
Started(q, kind, e) ==
  run' = IF run[q] = NoRun /\ (kind = "own" => stage[q] = "up")
         THEN [run EXCEPT ![q] = [kind |-> kind, e |-> RunEpoch(e), aborted |-> FALSE]]
         ELSE run

\* bumpLeaderEpoch, the first callback of a promotion: one statement writes ...
BumpWrite(q) ==
  /\ phase[q] = "write"
  /\ epoch' = epoch + 1
  /\ phase' = [phase EXCEPT ![q] = "read"]
  /\ index' = Nobody /\ caught' = {}
  /\ superseded' = {r \in Proc \ {q} : r \in superseded \/ run[r] # NoRun \/ Leads(r)}
                      \ {r \in Proc : phase[r] = "read"}
  /\ UNCHANGED <<file, conn, txn, held, streak, life, run, mine, faults>>

\* ... and one reads back.  Then the second callback starts a pass, but for the
\* promotion at boot, which comes before the callbacks are registered.
BumpRead(q) ==
  /\ phase[q] = "read"
  /\ mine' = [mine EXCEPT ![q] = epoch]
  /\ phase' = [phase EXCEPT ![q] = "leader"] /\ wired' = [wired EXCEPT ![q] = TRUE]
  /\ IF wired[q] THEN Started(q, "own", epoch) ELSE run' = run
  /\ UNCHANGED <<file, conn, txn, held, streak, stage, boot, epoch, faults, hist>>

\* The pass of the boot, on whatever role the process has by then.
BootPass(q) ==
  /\ boot[q] /\ wired[q] /\ phase[q] \notin {"write", "read"}
  /\ boot' = [boot EXCEPT ![q] = FALSE]
  /\ IF Leads(q) THEN Started(q, "own", mine[q]) ELSE run' = run
  /\ UNCHANGED <<file, lock, stage, wired, epoch, mine, faults, hist>>

\* The scheduler's job.
TimerPass(q) ==
  /\ Scheduled /\ phase[q] = "leader" /\ stage[q] # "closed" /\ run[q] = NoRun
  /\ Started(q, "timer", mine[q])
  /\ UNCHANGED <<file, lock, life, epoch, mine, faults, hist>>

\* A batch of the pass: dropped if the run was aborted or its epoch is stale.
CommitBatch(q) ==
  /\ run[q] # NoRun /\ ~run[q].aborted /\ run[q].e = epoch
  /\ index' = q
  /\ UNCHANGED <<file, lock, life, run, epoch, mine, faults, superseded, caught>>

EndPassUnlessAborted(q) ==
  /\ run[q] # NoRun /\ ~run[q].aborted
  /\ run' = [run EXCEPT ![q] = NoRun]
  /\ caught' = IF run[q].e = epoch THEN caught \cup {q} ELSE caught
  /\ UNCHANGED <<file, lock, life, epoch, mine, faults, index, superseded>>

EndPass(q) ==
  /\ run[q] # NoRun
  /\ run' = [run EXCEPT ![q] = NoRun]
  /\ caught' = IF ~run[q].aborted /\ run[q].e = epoch THEN caught \cup {q} ELSE caught
  /\ UNCHANGED <<file, lock, life, epoch, mine, faults, index, superseded>>

------------------------------------------------------------------------------
(* Losing the lock.                                                        *)

Aborted(q) == run' = IF run[q] = NoRun THEN run ELSE [run EXCEPT ![q].aborted = TRUE]

\* The role falls at once; the lock is kept while the callbacks run.
Demoted(q) ==
  /\ phase' = [phase EXCEPT ![q] = "demote"] /\ streak' = [streak EXCEPT ![q] = 0]
  /\ Aborted(q)

TickUnprobed(q, seen) ==
  LET mismatch == seen # held[q] IN
  /\ phase[q] = "leader" /\ seen \in {0, file}
  /\ IF seen = 0 THEN Fault ELSE faults' = faults
  /\ IF mismatch /\ streak[q] = 1
     THEN Demoted(q)
     ELSE /\ streak' = [streak EXCEPT ![q] = IF mismatch THEN 1 ELSE 0]
          /\ UNCHANGED <<phase, run>>
  /\ UNCHANGED <<file, conn, txn, held, life, epoch, mine, hist>>

TickThrice(q, seen) ==
  LET mismatch == seen # held[q] IN
  /\ phase[q] = "leader" /\ seen \in {0, file}
  /\ IF seen = 0 THEN Fault ELSE faults' = faults
  /\ IF ~txn[q] \/ (mismatch /\ streak[q] = 2)
     THEN Demoted(q)
     ELSE /\ streak' = [streak EXCEPT ![q] = IF mismatch THEN @ + 1 ELSE 0]
          /\ UNCHANGED <<phase, run>>
  /\ UNCHANGED <<file, conn, txn, held, life, epoch, mine, hist>>

\* The keepalive tick: the transaction, then the identity, which must differ on two
\* ticks in a row (a stat that fails differs).
Tick(q, seen) ==
  LET mismatch == seen # held[q] IN
  /\ phase[q] = "leader" /\ seen \in {0, file}
  /\ IF seen = 0 THEN Fault ELSE faults' = faults
  /\ IF ~txn[q] \/ (mismatch /\ streak[q] = 1)
     THEN Demoted(q)
     ELSE /\ streak' = [streak EXCEPT ![q] = IF mismatch THEN 1 ELSE 0]
          /\ UNCHANGED <<phase, run>>
  /\ UNCHANGED <<file, conn, txn, held, life, epoch, mine, hist>>

\* The callbacks are done: the pass ended, or the deadline of the join passed.
DemoteDone(q) ==
  /\ phase[q] = "demote"
  /\ phase' = [phase EXCEPT ![q] = "idle"]
  /\ ReleasedBy(q)
  /\ UNCHANGED <<file, life, run, epoch, mine, faults, hist>>

------------------------------------------------------------------------------
(* Shutdown, crash and boot, and what happens to the lock.                 *)

\* close() of the server: the boot pass is cancelled and the run that a promotion
\* or the boot started is told to stop; one of the scheduler has its own signal.
Shutdown(q) ==
  /\ phase[q] # "down" /\ stage[q] = "up" /\ wired[q] /\ phase[q] \notin {"write", "read"}
  /\ Fault
  /\ stage' = [stage EXCEPT ![q] = "closing"] /\ boot' = [boot EXCEPT ![q] = FALSE]
  /\ IF run[q].kind = "own" THEN Aborted(q) ELSE run' = run
  /\ UNCHANGED <<file, lock, wired, epoch, mine, hist>>

\* The lock is released last, when the pass in flight has been joined.
MayClose(q) == stage[q] = "closing" /\ run[q] = NoRun

\* close() of the election.  An attempt in flight goes on behind it.
Close(q) ==
  /\ MayClose(q) /\ phase[q] \notin {"write", "read"}
  /\ stage' = [stage EXCEPT ![q] = "closed"]
  /\ IF phase[q] \in {"open", "got"} THEN UNCHANGED lock
     ELSE /\ ReleasedBy(q)
          /\ phase' = [phase EXCEPT ![q] = IF @ = "demote" THEN @ ELSE "idle"]
  /\ UNCHANGED <<file, wired, boot, run, epoch, mine, faults, hist>>

\* The process is gone and the system has freed its lock.
Gone(q) ==
  /\ phase' = [phase EXCEPT ![q] = "down"] /\ ReleasedBy(q)
  /\ run' = [run EXCEPT ![q] = NoRun]
  /\ stage' = [stage EXCEPT ![q] = "up"] /\ wired' = [wired EXCEPT ![q] = FALSE]
  /\ boot' = [boot EXCEPT ![q] = FALSE] /\ mine' = [mine EXCEPT ![q] = 0]
  /\ index' = IF index = q THEN Nobody ELSE index
  /\ superseded' = superseded \ {q} /\ caught' = caught \ {q}
  /\ UNCHANGED <<file, epoch>>

\* After close(), or when the join of the pass missed its deadline.
Exit(q) ==
  /\ phase[q] # "down" /\ phase[q] \notin {"write", "read"}
  /\ stage[q] = "closed" \/ (stage[q] = "closing" /\ run[q] # NoRun)
  /\ Gone(q) /\ faults' = faults

Crash(q) == phase[q] # "down" /\ Fault /\ Gone(q)

Boot(q) ==
  /\ phase[q] = "down"
  /\ phase' = [phase EXCEPT ![q] = "idle"] /\ boot' = [boot EXCEPT ![q] = TRUE]
  /\ UNCHANGED <<file, conn, txn, held, streak, stage, wired, run, epoch, mine, faults, hist>>

\* SQLite rolls the transaction back by itself (an I/O error, a full disk).
LoseTxn(q) ==
  /\ txn[q] /\ Fault
  /\ txn' = [txn EXCEPT ![q] = FALSE]
  /\ UNCHANGED <<file, phase, conn, held, streak, life, run, epoch, mine, hist>>

\* Somebody replaces the lock file.
Replace ==
  /\ Fault /\ file' = file + 1
  /\ UNCHANGED <<lock, life, run, epoch, mine, hist>>

------------------------------------------------------------------------------
Elect(q) == Open(q) \/ BeginExclusive(q) \/ Promote(q, file) \/ BumpWrite(q) \/ BumpRead(q)
Keep(q) == Tick(q, file) \/ DemoteDone(q)

Passes(q) == BootPass(q) \/ TimerPass(q) \/ EndPass(q)
Leave(q) == Close(q) \/ Exit(q)

Next ==
  \/ \E q \in Proc : \/ Elect(q) \/ Keep(q) \/ Promote(q, 0) \/ Tick(q, 0)
                     \/ Passes(q) \/ CommitBatch(q) \/ Shutdown(q) \/ Leave(q)
                     \/ Crash(q) \/ Boot(q) \/ LoseTxn(q)
  \/ Replace

Spec == Init /\ [][Next]_vars

\* Timers fire, continuations run, passes begin and end (their requests have
\* deadlines), and a shutdown comes to its end.  Nothing is assumed of faults or boots.
Fairness ==
  \A q \in Proc : WF_vars(Elect(q) \/ Keep(q)) /\ WF_vars(Passes(q)) /\ WF_vars(Leave(q))

FairSpec == Spec /\ Fairness

------------------------------------------------------------------------------
(* Properties.                                                             *)

\* No batch of a deposed leader: once another process has been promoted after q took
\* its epoch, no pass of q commits, however late it notices, however often q starts
\* a pass in the meantime, and though its demotion did not wait for the last one.
NoLateBatch == [][\A q \in Proc : index # q /\ index' = q => q \notin superseded]_vars

\* Who gave its lock back has told its pass to stop, and who closed for good has no
\* pass and keeps no lock, not even one that an attempt in flight got behind close().
StopsBeforeRelease ==
  \A q \in Proc :
    /\ conn[q] = 0 /\ run[q] # NoRun => run[q].aborted
    /\ stage[q] = "closed" =>
         run[q] = NoRun /\ ~Leads(q) /\ (phase[q] \notin {"open", "got"} => conn[q] = 0)

Sound(q) == txn[q] /\ held[q] = file

\* When the faults are over, a leader that lost its transaction or its file has
\* stepped down for good, and as long as some process serves, there is a leader.
Settles ==
  <>[](/\ \A q \in Proc : Leads(q) => Sound(q)
       /\ (\E q \in Proc : Leads(q)) \/ (\A q \in Proc : phase[q] = "down"))

\* The leader of the newest epoch has not completed a pass under it.
Owes(q) == phase[q] = "leader" /\ mine[q] = epoch /\ q \notin caught

\* With the periodic reconcile on, the leader of the newest epoch completes a pass of
\* its own, though a pass that its last demotion cut short is still in flight when it
\* is promoted again.
CatchesUp == \A q \in Proc : []<>~Owes(q)
=============================================================================
