------------------------------ MODULE NoteIndex ------------------------------
(***************************************************************************)
(* The search index of one vault and everyone who writes it: the reconcile *)
(* passes of the leader, passes a tool asks for, and the index-on-write    *)
(* jobs of every process.  A plan is made from what was read, waits for    *)
(* its embeddings, and is committed by a transaction that looks again.     *)
(* Beside them, a query cache keyed by the vault's generation.             *)
(*                                                                         *)
(* Sources: search/indexing/{index-vault,index-note,note-plan,notes-flush, *)
(* persist-note-plan,sweep-notes,write-fence,leader-epoch}.ts,             *)
(* search/{generation,query_cache}.ts, runtime/{indexing-wiring,           *)
(* plane-wiring}.ts.                                                       *)
(*                                                                         *)
(* The content of a note is named by the number of the event that wrote    *)
(* it; Hash says which contents are equal, and the code compares nothing   *)
(* else.  A deletion is an event too.                                      *)
(***************************************************************************)
EXTENDS Naturals, FiniteSets

CONSTANTS
  Path,          \* notes
  Proc,          \* server processes, each with one pass at a time
  Writers,       \* the ones whose tools and watcher hand notes to the coordinator
  Hash,          \* Hash[v]: the content of event v; Hash[0] is that of no rows
  MaxVer,        \* bound: events per note, in any behaviour
  Bounds         \* bounds of a behaviour: events per note, promotions beside a
                 \* leader, faults, processes where a tool may ask for a pass,
                 \* queries or none

Ver == 0 .. MaxVer

ASSUME NoteIndexAssumption ==
  /\ Writers \subseteq Proc /\ MaxVer \in Nat
  /\ Hash \in [Ver -> Nat] /\ \A v \in Ver \ {0} : Hash[v] # Hash[0]
  /\ \A b \in Bounds : /\ b.events \in Ver /\ b.promotions \in Nat /\ b.faults \in Nat
                       /\ b.askers \subseteq Proc /\ b.queries \in BOOLEAN

VARIABLES
  bound,    \* the bounds of this behaviour
  disk,     \* disk[p]: the last event of the file, and whether it exists
  chunks,   \* chunks[p]: the content the chunk rows hold, 0 for none
  notes,    \* notes[p]: the content of the notes row, 0 for none
  fence,    \* note_write_fence
  epoch,    \* index_leader_epoch
  mine,     \* mine[q]: the epoch q's promotion got
  leader,   \* leader[q]: q believes that it leads
  pass,     \* pass[q]: the locals of indexVault in q
  op,       \* op[q][p]: the coordinator's state of the path and its job
  cache,    \* results cached under the present generation, or None
  asked,    \* the query in flight
  faults,   \* faults so far
  high,     \* history: the newest event whose indexing or removal committed
  owed,     \* history: a pass that committed chunks ended without its bump
  calm      \* history: the passes nothing has disturbed since they began

db == <<chunks, notes, fence>>
vars == <<bound, disk, chunks, notes, fence, epoch, mine, leader, pass, op,
          cache, asked, faults, high, owed, calm>>

None == [ver |-> 0, live |-> FALSE]
File == [ver : Ver, live : BOOLEAN]
Live == {p \in Path : disk[p].live}
Same(v, w) == Hash[v] = Hash[w]

\* What indexVault keeps: the paths it walked (and, as history, the events the
\* walk saw), the preloads, the pending records and plans.  Each holds the
\* content read, 0 where there is none, and the baseline it must meet.
\* Of a plan, history: the note had no fence when the pass loaded, and something
\* newer was indexed or removed between the read of its file and that of its fence.
Plan == [ver : Ver, ex : Ver, base : Nat, overtaken : BOOLEAN]
Rec == [ver : Ver, base : Nat, check : BOOLEAN]
NoPlan == [ver |-> 0, ex |-> 0, base |-> 0, overtaken |-> FALSE]
NoRec == [ver |-> 0, base |-> 0, check |-> FALSE]
Of(x) == [p \in Path |-> x]

\* From the read of a file to the queues nothing else of the process runs.
Reading == {"rows", "fence", "queue"}
Pc == {"idle", "load", "read", "embed", "last", "bump"} \cup Reading
Pass ==
  [pc : Pc, e : Nat, aborted : BOOLEAN, dirty : BOOLEAN, walked : SUBSET Path,
   todo : SUBSET Path, got : [Path -> Ver], asOf : [Path -> Ver], ex : [Path -> Ver], base : [Path -> Nat],
   recs : [Path -> Rec], plans : [Path -> Plan]]
NoPass ==
  [pc |-> "idle", e |-> 0, aborted |-> FALSE, dirty |-> FALSE, walked |-> {},
   todo |-> {}, got |-> Of(0), asOf |-> Of(0), ex |-> Of(0), base |-> Of(0),
   recs |-> Of(NoRec), plans |-> Of(NoPlan)]
Unfenced == 0

\* A job of the coordinator: the content it was given, whether the chunk rows
\* held it already, and the fence it must meet.
Job == [ver : Ver, rows : BOOLEAN, base : Nat]
NoJob == [ver |-> 0, rows |-> FALSE, base |-> 0]
Op == [want : File, job : Job]
NoOp == [want |-> None, job |-> NoJob]

NoRows == [p \in {} |-> 0]
Unasked == [key |-> "old", rows |-> NoRows]

TypeOK ==
  /\ bound \in Bounds /\ disk \in [Path -> File]
  /\ chunks \in [Path -> Ver] /\ notes \in [Path -> Ver]
  /\ fence \in [Path -> Nat] /\ epoch \in Nat
  /\ mine \in [Proc -> 0 .. epoch] /\ leader \in [Proc -> BOOLEAN]
  /\ pass \in [Proc -> Pass] /\ op \in [Writers -> [Path -> Op]]
  /\ cache \in [Path -> Ver] \cup {NoRows}
  /\ asked \in [key : {"now", "old"}, rows : [Path -> Ver] \cup {NoRows}]
  /\ faults \in 0 .. bound.faults /\ high \in [Path -> Ver] /\ owed \in BOOLEAN
  /\ calm \subseteq Proc

Init ==
  /\ bound \in Bounds /\ disk = Of(None)
  /\ chunks = Of(0) /\ notes = Of(0) /\ fence = Of(0)
  /\ epoch = 0 /\ mine = [q \in Proc |-> 0]
  /\ leader = [q \in Proc |-> FALSE] /\ pass = [q \in Proc |-> NoPass]
  /\ op = [q \in Writers |-> Of(NoOp)]
  /\ cache = NoRows /\ asked = Unasked
  /\ faults = 0 /\ high = Of(0) /\ owed = FALSE /\ calm = {}

------------------------------------------------------------------------------
(* The vault's files, and who hears of a change.                           *)

\* Whether q's event loop may take up something else than its pass.
Free(q) == pass[q].pc \notin Reading

\* A write or a deletion of the file of p, by a tool, the editor or a sync client.
\* The processes in H hand the new state to their coordinators: the one whose tool
\* made it, and the leader's watcher, whose report may as well wait in the
\* coordinator.  A follower's watcher does nothing, and an event may be lost.
Change(p, live, H) ==
  LET file == [ver |-> disk[p].ver + 1, live |-> live] IN
  /\ disk[p].ver < bound.events /\ (live \/ disk[p].live)
  /\ disk' = [disk EXCEPT ![p] = file]
  /\ op' = [q \in Writers |-> IF q \in H THEN [op[q] EXCEPT ![p].want = file] ELSE op[q]]
  /\ calm' = {}
  /\ UNCHANGED <<bound, db, epoch, mine, leader, pass, cache, asked, faults, high, owed>>

------------------------------------------------------------------------------
(* The tables.                                                             *)

\* The generation is only compared, never counted: a bump makes every key held
\* so far an old one, under which nothing is looked up again.
bumpGeneration(yes) ==
  /\ cache' = IF yes THEN NoRows ELSE cache
  /\ asked' = IF yes THEN [asked EXCEPT !.key = "old"] ELSE asked

Newer(p, ver) == IF high[p] < ver THEN ver ELSE high[p]

\* deindexNote of every path in S, each as of an event.  The fence moves even
\* where there was nothing to remove.
deindexNote(S, ver) ==
  /\ chunks' = [p \in Path |-> IF p \in S THEN 0 ELSE chunks[p]]
  /\ notes' = [p \in Path |-> IF p \in S THEN 0 ELSE notes[p]]
  /\ fence' = [p \in Path |-> IF p \in S THEN fence[p] + 1 ELSE fence[p]]
  /\ high' = [p \in Path |-> IF p \in S THEN Newer(p, ver[p]) ELSE high[p]]
  /\ bumpGeneration(\E p \in S : chunks[p] # 0)

------------------------------------------------------------------------------
(* Index on write: the coordinator runs one job of a path at a time.       *)

\* The handler of a write plans with what the tables hold now ...
PlanNote(q, p) ==
  LET o == op[q][p] IN
  /\ o.want.live /\ o.job = NoJob
  /\ op' = [op EXCEPT ![q][p] =
       [want |-> None,
        job |-> [ver |-> o.want.ver, rows |-> Same(chunks[p], o.want.ver), base |-> fence[p]]]]
  /\ UNCHANGED <<bound, disk, db, epoch, mine, leader, pass, cache, asked, faults, high, owed, calm>>

\* commitFence: whether the baseline still holds; a commit moves it.
FenceHolds(p, base) == fence[p] = base

\* ... and after the embedding commits if the fence has not moved.  With the
\* chunk rows in place already, only a notes row that differs is written.
\* A job whose embedding fails is one that nobody asked for.
indexNote(q, p) ==
  LET j == op[q][p].job
      lands == FenceHolds(p, j.base) /\ ~(j.rows /\ Same(notes[p], j.ver)) IN
  /\ j # NoJob
  /\ op' = [op EXCEPT ![q][p].job = NoJob]
  /\ IF lands
     THEN /\ fence' = [fence EXCEPT ![p] = @ + 1]
          /\ notes' = [notes EXCEPT ![p] = j.ver]
          /\ chunks' = IF j.rows THEN chunks ELSE [chunks EXCEPT ![p] = j.ver]
          /\ bumpGeneration(~j.rows)
          /\ high' = [high EXCEPT ![p] = Newer(p, j.ver)]
          /\ calm' = {}
     ELSE UNCHANGED <<db, cache, asked, high, calm>>
  /\ UNCHANGED <<bound, disk, epoch, mine, leader, pass, faults, owed>>

\* The handler of a delete has no await.
Deindex(q, p) ==
  LET o == op[q][p] IN
  /\ o.want # None /\ ~o.want.live /\ o.job = NoJob
  /\ deindexNote({p}, Of(o.want.ver))
  /\ op' = [op EXCEPT ![q][p] = NoOp]
  /\ calm' = {}
  /\ UNCHANGED <<bound, disk, epoch, mine, leader, pass, faults, owed>>

------------------------------------------------------------------------------
(* A pass over the vault.                                                  *)

\* A pass of the leader is fenced by its promotion's epoch; one that a tool
\* asks for is not.  The walk lists the files once.
Begin(q, e) ==
  /\ pass[q].pc = "idle"
  /\ (q \in bound.askers /\ e = Unfenced) \/ (leader[q] /\ e = mine[q])
  /\ pass' = [pass EXCEPT ![q] =
       [NoPass EXCEPT !.pc = "load", !.e = e, !.walked = Live, !.todo = Live,
                      !.asOf = [p \in Path |-> IF p \in Live THEN 0 ELSE disk[p].ver]]]
  /\ calm' = IF e \in {Unfenced, epoch} THEN calm \cup {q} ELSE calm
  /\ UNCHANGED <<bound, disk, db, epoch, mine, leader, op, cache, asked, faults, high, owed>>

\* The two bulk loads.  What commits between them would leave rows that differ
\* from the first, so they are one step.
Load(q) ==
  /\ pass[q].pc = "load"
  /\ pass' = [pass EXCEPT ![q].pc = "read",
       ![q].ex = [p \in Path |-> IF p \in pass[q].todo THEN chunks[p] ELSE 0],
       ![q].base = [p \in Path |-> IF p \in pass[q].todo THEN fence[p] ELSE 0]]
  /\ UNCHANGED <<bound, disk, db, epoch, mine, leader, op, cache, asked, faults, high, owed, calm>>

\* A preload that has nothing for the path is replaced by a read.
Loaded(v, now) == IF v # 0 THEN v ELSE now

\* Whether the chunk rows must be replaced by those of the content read.
NeedsPlanByRow(p, ex, v) == ~Same(notes[p], v)
NeedsPlan(p, ex, v) == ~Same(ex, v)

\* processNote, without an await, but other processes commit between its reads.
\* First the file ...
ReadNote(q, p) ==
  /\ pass[q].pc = "read" /\ p \in pass[q].todo /\ disk[p].live
  /\ pass' = [pass EXCEPT ![q].pc = "rows", ![q].got[p] = disk[p].ver]
  /\ UNCHANGED <<bound, disk, db, epoch, mine, leader, op, cache, asked, faults, high, owed, calm>>

\* ... then, once it has been parsed, cut up and scanned, the chunk rows ...
ReadRows(q, p) ==
  /\ pass[q].pc = "rows" /\ pass[q].got[p] # 0
  /\ pass' = [pass EXCEPT ![q].pc = "fence", ![q].ex[p] = Loaded(@, chunks[p])]
  /\ UNCHANGED <<bound, disk, db, epoch, mine, leader, op, cache, asked, faults, high, owed, calm>>

\* ... the fence, and with both of them the plan, if one is needed ...
ReadFence(q, p) ==
  LET s == pass[q]
      plan == [ver |-> s.got[p], ex |-> s.ex[p], base |-> Loaded(s.base[p], fence[p]),
               overtaken |-> s.base[p] = 0 /\ high[p] > s.got[p]] IN
  /\ s.pc = "fence" /\ s.got[p] # 0
  /\ pass' = [pass EXCEPT ![q].pc = "queue",
       ![q].plans[p] = IF NeedsPlan(p, s.ex[p], s.got[p]) THEN plan ELSE @]
  /\ UNCHANGED <<bound, disk, db, epoch, mine, leader, op, cache, asked, faults, high, owed, calm>>

\* ... and the notes row.  The record of a note with a plan is not fenced: its
\* chunks are.  (What was kept for a note that is queued is forgotten.)
QueueNote(q, p) ==
  LET s == pass[q]
      rec == [ver |-> s.got[p], base |-> s.base[p], check |-> s.plans[p] = NoPlan] IN
  /\ s.pc = "queue" /\ s.got[p] # 0
  /\ pass' = [pass EXCEPT ![q] =
       [s EXCEPT !.pc = "read", !.todo = @ \ {p}, !.got[p] = 0, !.ex[p] = 0, !.base[p] = 0,
                 !.recs[p] = IF Same(notes[p], s.got[p]) THEN @ ELSE rec]]
  /\ UNCHANGED <<bound, disk, db, epoch, mine, leader, op, cache, asked, faults, high, owed, calm>>

\* The pass rejects: what it queued is lost, and so is the bump it owed.
Reject(q) ==
  /\ pass' = [pass EXCEPT ![q] = NoPass]
  /\ owed' = (owed \/ pass[q].dirty)
  /\ calm' = calm \ {q}

\* A note that was deleted since the walk rejects the pass.
ReadGone(q, p) ==
  /\ pass[q].pc = "read" /\ p \in pass[q].todo /\ ~disk[p].live
  /\ Reject(q)
  /\ UNCHANGED <<bound, disk, db, epoch, mine, leader, op, cache, asked, faults, high>>

\* leaderEpochStale, read inside the transaction of the batch.
EpochHolds(q) == pass[q].e = Unfenced \/ pass[q].e = epoch

\* flushNoteRows: one transaction for the queued records.
FlushNotes(q) ==
  LET s == pass[q]
      lands == {p \in Path : /\ s.recs[p] # NoRec /\ EpochHolds(q)
                             /\ s.recs[p].check => FenceHolds(p, s.recs[p].base)} IN
  /\ s.pc = "read" /\ s.recs # Of(NoRec)
  /\ notes' = [p \in Path |-> IF p \in lands THEN s.recs[p].ver ELSE notes[p]]
  /\ fence' = [p \in Path |-> IF p \in lands /\ s.recs[p].check THEN fence[p] + 1 ELSE fence[p]]
  /\ pass' = [pass EXCEPT ![q].recs = Of(NoRec)]
  /\ calm' = calm \cap {q}
  /\ UNCHANGED <<bound, disk, chunks, epoch, mine, leader, op, cache, asked, faults, high, owed>>

\* sweepUnindexedNotes: every notes row whose path the walk did not see.
Stale(q) == {p \in Path : notes[p] # 0 /\ p \notin pass[q].walked}

Sweep(q) ==
  LET s == pass[q] IN
  /\ s.pc = "read" /\ s.todo = {} /\ s.recs = Of(NoRec)
  /\ deindexNote(Stale(q), s.asOf)
  /\ pass' = [pass EXCEPT ![q] =
       [s EXCEPT !.pc = IF s.plans = Of(NoPlan) THEN "bump" ELSE "last",
                 !.walked = {}, !.asOf = Of(0)]]
  /\ calm' = calm \cap {q}
  /\ UNCHANGED <<bound, disk, epoch, mine, leader, op, faults, owed>>

Planned(q) == {p \in Path : pass[q].plans[p] # NoPlan}

ApplicableUnfenced(q, p) == ~pass[q].aborted /\ EpochHolds(q) /\ Same(chunks[p], pass[q].plans[p].ex)

\* The batch is full by count or by bytes, which is a choice here.
Full(q) ==
  /\ pass[q].pc = "read" /\ Planned(q) # {}
  /\ pass' = [pass EXCEPT ![q].pc = "embed"]
  /\ UNCHANGED <<bound, disk, db, epoch, mine, leader, op, cache, asked, faults, high, owed, calm>>

\* Which plans of the batch the transaction applies: existingRowsMatch, and the
\* fence in applyNoteWrites.
Applicable(q, p) ==
  LET plan == pass[q].plans[p] IN
  /\ ~pass[q].aborted /\ EpochHolds(q)
  /\ Same(chunks[p], plan.ex) /\ FenceHolds(p, plan.base)

\* flush, after its embeddings have come: bad are the notes the provider refused.
CommitBatch(q, bad) ==
  LET s == pass[q]
      lands == {p \in Planned(q) \ bad : Applicable(q, p)} IN
  /\ s.pc \in {"embed", "last"}
  /\ bad = {} \/ faults < bound.faults
  /\ faults' = IF bad = {} THEN faults ELSE faults + 1
  /\ chunks' = [p \in Path |-> IF p \in lands THEN s.plans[p].ver ELSE chunks[p]]
  /\ fence' = [p \in Path |-> IF p \in lands THEN fence[p] + 1 ELSE fence[p]]
  /\ high' = [p \in Path |-> IF p \in lands THEN Newer(p, s.plans[p].ver) ELSE high[p]]
  /\ pass' = [pass EXCEPT ![q] =
       [s EXCEPT !.plans = Of(NoPlan), !.dirty = @ \/ lands # {},
                 !.pc = IF s.pc = "embed" THEN "read" ELSE "bump"]]
  /\ calm' = IF bad = {} THEN calm \cap {q} ELSE {}
  /\ UNCHANGED <<bound, disk, notes, epoch, mine, leader, op, cache, asked, owed>>

\* The embedding provider fails for good: the pass rejects.
EmbedFails(q) ==
  /\ pass[q].pc \in {"embed", "last"} /\ ~pass[q].aborted /\ faults < bound.faults
  /\ faults' = faults + 1
  /\ Reject(q)
  /\ UNCHANGED <<bound, disk, db, epoch, mine, leader, op, cache, asked, high>>

\* The generation moves once for all batches of the pass, at its end.
Bump(q) ==
  /\ pass[q].pc = "bump"
  /\ bumpGeneration(pass[q].dirty)
  /\ pass' = [pass EXCEPT ![q] = NoPass]
  /\ calm' = calm \ {q}
  /\ UNCHANGED <<bound, disk, db, epoch, mine, leader, op, faults, high, owed>>

------------------------------------------------------------------------------
(* Roles.  When a process may be promoted is VaultLeader's matter: here it  *)
(* may at any time, beside a leader that does not know it yet.             *)

PromoteUnsaved(q) ==
  /\ ~leader[q] /\ Free(q) /\ (epoch < bound.promotions \/ \A r \in Proc : ~leader[r])
  /\ leader' = [leader EXCEPT ![q] = TRUE]
  /\ mine' = [mine EXCEPT ![q] = epoch + 1] /\ calm' = {}
  /\ UNCHANGED <<bound, disk, db, epoch, pass, op, cache, asked, faults, high, owed>>

Promote(q) ==
  /\ ~leader[q] /\ Free(q) /\ (epoch < bound.promotions \/ \A r \in Proc : ~leader[r])
  /\ leader' = [leader EXCEPT ![q] = TRUE]
  /\ epoch' = epoch + 1 /\ mine' = [mine EXCEPT ![q] = epoch + 1]
  /\ calm' = {}
  /\ UNCHANGED <<bound, disk, db, pass, op, cache, asked, faults, high, owed>>

\* The pass in flight is told to stop, and the watcher's pending work (S) goes.
Demote(q, S) ==
  /\ leader[q] /\ Free(q) /\ (mine[q] # epoch \/ faults < bound.faults)
  /\ faults' = IF mine[q] # epoch THEN faults ELSE faults + 1
  /\ leader' = [leader EXCEPT ![q] = FALSE]
  /\ pass' = [pass EXCEPT ![q].aborted = @ \/ pass[q].e # Unfenced]
  /\ op' = [r \in Writers |-> [p \in Path |->
              IF r = q /\ p \in S THEN [op[r][p] EXCEPT !.want = None] ELSE op[r][p]]]
  /\ calm' = calm \ {q}
  /\ UNCHANGED <<bound, disk, db, epoch, mine, cache, asked, high, owed>>

Crash(q) ==
  /\ faults < bound.faults /\ faults' = faults + 1
  /\ Reject(q)
  /\ op' = [r \in Writers |-> IF r = q THEN Of(NoOp) ELSE op[r]]
  /\ leader' = [leader EXCEPT ![q] = FALSE]
  /\ UNCHANGED <<bound, disk, db, epoch, mine, cache, asked, high>>

------------------------------------------------------------------------------
(* A query and its cache, in some process.                                 *)

\* A miss: the key holds the generation as it is before the embedding, the rows
\* are those of the search after it.  What commits between them only makes the
\* key older than the rows, so they are one step.
Search ==
  /\ bound.queries /\ asked = Unasked /\ cache = NoRows
  /\ asked' = [key |-> "now", rows |-> chunks]
  /\ UNCHANGED <<bound, disk, db, epoch, mine, leader, pass, op, cache, faults, high, owed, calm>>

\* The result is stored under the key of the lookup.
CurrentAtStore(key) == key \in {"now", "old"}
Current(key) == key = "now"

Keep ==
  /\ asked # Unasked
  /\ asked' = Unasked
  /\ cache' = IF Current(asked.key) THEN asked.rows ELSE cache
  /\ UNCHANGED <<bound, disk, db, epoch, mine, leader, pass, op, faults, high, owed, calm>>

\* The time to live, or the limit of the cache.
Evict ==
  /\ cache # NoRows /\ cache' = NoRows
  /\ UNCHANGED <<bound, disk, db, epoch, mine, leader, pass, op, asked, faults, high, owed, calm>>

------------------------------------------------------------------------------
Step(q) ==
  \/ Load(q) \/ Full(q) \/ FlushNotes(q) \/ Sweep(q) \/ Bump(q)
  \/ \E p \in Path : ReadNote(q, p) \/ ReadGone(q, p)
  \/ \E p \in Path : ReadRows(q, p) \/ ReadFence(q, p) \/ QueueNote(q, p)
  \/ CommitBatch(q, {})

JobStep(q, p) == Free(q) /\ (PlanNote(q, p) \/ indexNote(q, p) \/ Deindex(q, p))

Next ==
  \/ \E p \in Path, live \in BOOLEAN, H \in SUBSET Writers : Change(p, live, H)
  \/ \E q \in Writers, p \in Path : JobStep(q, p)
  \/ \E q \in Proc, e \in 0 .. epoch : Begin(q, e)
  \/ \E q \in Proc : Step(q) \/ EmbedFails(q) \/ Promote(q) \/ Crash(q)
  \/ \E q \in Proc, S \in SUBSET Path : CommitBatch(q, S) \/ Demote(q, S)
  \/ Search \/ Keep \/ Evict

Spec == Init /\ [][Next]_vars

------------------------------------------------------------------------------
(* Properties.                                                             *)

\* A batch of a pass puts back content older than what has been indexed or
\* removed for one note only: one that had no fence when the pass loaded, and
\* that another process indexed or removed between the pass's read of the file
\* and of the fence.  A plan that waits for its embeddings undoes nothing else.
PassNeverRegresses ==
  [][\A q \in Proc, p \in Path :
       pass[q].pc \in {"embed", "last"} /\ pass'[q].pc \notin {pass[q].pc, "idle"}
       /\ chunks'[p] # chunks[p]
       => chunks'[p] >= high[p] \/ pass[q].plans[p].overtaken]_vars

Dirty == \E q \in Proc : pass[q].dirty

\* What the cache serves is what the index holds, but while a pass has
\* committed batches and has yet to bump the generation, or owes the bump.
CacheFresh == cache # NoRows /\ ~Dirty /\ ~owed => \A p \in Path : Same(cache[p], chunks[p])

Matches(p) ==
  /\ Same(notes[p], IF disk[p].live THEN disk[p].ver ELSE 0)
  /\ disk[p].live => Same(chunks[p], disk[p].ver)

\* The index heals: a pass that nothing disturbed leaves every note with its
\* content and no row of a deleted one, whatever was interrupted before it.
PassHeals == \A q \in calm : pass[q].pc = "bump" => \A p \in Path : Matches(p)
=============================================================================
