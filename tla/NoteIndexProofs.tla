--------------------------- MODULE NoteIndexProofs ---------------------------
(* Theorems about NoteIndex, for any vault, any set of processes and any   *)
(* bounds.                                                                 *)
EXTENDS NoteIndex, TLAPS

LEMMA NoPassTyped == NoPass \in Pass /\ NoOp \in Op /\ NoJob \in Job /\ None \in File
BY NoteIndexAssumption
DEF NoPass, Pass, Pc, Ver, Of, Rec, NoRec, Plan, NoPlan, NoOp, Op, NoJob, Job, None, File

LEMMA OpParts ==
  ASSUME NEW o \in Op
  PROVE  /\ o.want \in File /\ o.job \in Job
         /\ \A f \in File : [o EXCEPT !.want = f] \in Op
         /\ \A j \in Job : [o EXCEPT !.job = j] \in Op
BY DEF Op

LEMMA NewerTyped ==
  ASSUME TypeOK, NEW p \in Path, NEW v \in Ver
  PROVE  Newer(p, v) \in Ver /\ Newer(p, v) >= v /\ Newer(p, v) >= high[p]
         /\ Newer(p, v) \in {high[p], v}
BY NoteIndexAssumption DEF TypeOK, Newer, Ver

LEMMA PassParts ==
  ASSUME NEW s \in Pass
  PROVE  /\ s.pc \in Pc /\ s.e \in Nat /\ s.aborted \in BOOLEAN /\ s.dirty \in BOOLEAN
         /\ s.walked \in SUBSET Path /\ s.todo \in SUBSET Path
         /\ s.asOf \in [Path -> Ver] /\ s.ex \in [Path -> Ver] /\ s.base \in [Path -> Nat]
         /\ s.recs \in [Path -> Rec] /\ s.plans \in [Path -> Plan] /\ s.got \in [Path -> Ver]
BY DEF Pass

\* What the steps from the read of a file to the queues change of the pass.
Reads(q, p) == ReadNote(q, p) \/ ReadRows(q, p) \/ ReadFence(q, p) \/ QueueNote(q, p)

\* The step is one of the pass of r, which keeps what it walked.
Moved(r) ==
  /\ pass' = [pass EXCEPT ![r] = pass'[r]] /\ pass'[r] \in Pass
  /\ \A q \in Proc \ {r} : pass'[q] = pass[q]
Keeps(s, t) ==
  /\ t.e = s.e /\ t.aborted = s.aborted /\ t.dirty = s.dirty
  /\ t.walked = s.walked /\ t.asOf = s.asOf

LEMMA NoteSets ==
  ASSUME TypeOK, NEW r \in Proc, NEW k \in Path, ReadNote(r, k)
  PROVE  /\ Moved(r) /\ Keeps(pass[r], pass'[r])
         /\ pass'[r].pc = "rows"
         /\ pass'[r].got = [pass[r].got EXCEPT ![k] = disk[k].ver]
         /\ pass'[r].todo = pass[r].todo /\ pass'[r].ex = pass[r].ex /\ pass'[r].base = pass[r].base /\ pass'[r].recs = pass[r].recs /\ pass'[r].plans = pass[r].plans
<1>1. pass[r] \in Pass /\ disk[k].ver \in Ver
  BY DEF TypeOK, File
<1>4. [pass[r].got EXCEPT ![k] = disk[k].ver] \in [Path -> Ver] /\ "rows" \in Pc
  BY <1>1, PassParts DEF Pc, Reading
<1> DEFINE t == [pass[r] EXCEPT !.pc = "rows", !.got = [pass[r].got EXCEPT ![k] = disk[k].ver]]
<1>5. t \in Pass
  BY <1>1, <1>4 DEF Pass
<1>6. /\ t.pc = "rows"
      /\ t.got = [pass[r].got EXCEPT ![k] = disk[k].ver]
  BY <1>1 DEF Pass
<1>7. Keeps(pass[r], t) /\ t.todo = pass[r].todo /\ t.ex = pass[r].ex /\ t.base = pass[r].base /\ t.recs = pass[r].recs /\ t.plans = pass[r].plans
  BY <1>1 DEF Pass, Keeps
<1>8. pass' = [pass EXCEPT ![r] = t]
  BY DEF ReadNote
<1> HIDE DEF t
<1>9. pass'[r] = t
  BY <1>8 DEF TypeOK
<1> QED
  BY <1>5, <1>6, <1>7, <1>8, <1>9 DEF Moved, TypeOK

LEMMA RowsSets ==
  ASSUME TypeOK, NEW r \in Proc, NEW k \in Path, ReadRows(r, k)
  PROVE  /\ Moved(r) /\ Keeps(pass[r], pass'[r])
         /\ pass'[r].pc = "fence"
         /\ pass'[r].ex = [pass[r].ex EXCEPT ![k] = Loaded(pass[r].ex[k], chunks[k])]
         /\ pass'[r].todo = pass[r].todo /\ pass'[r].got = pass[r].got /\ pass'[r].base = pass[r].base /\ pass'[r].recs = pass[r].recs /\ pass'[r].plans = pass[r].plans
<1>1. pass[r] \in Pass /\ chunks[k] \in Ver
  BY DEF TypeOK
<1>2. Loaded(pass[r].ex[k], chunks[k]) \in Ver
  BY <1>1, PassParts DEF Loaded
<1>4. [pass[r].ex EXCEPT ![k] = Loaded(pass[r].ex[k], chunks[k])] \in [Path -> Ver] /\ "fence" \in Pc
  BY <1>1, <1>2, PassParts DEF Pc, Reading
<1> DEFINE t == [pass[r] EXCEPT !.pc = "fence", !.ex = [pass[r].ex EXCEPT ![k] = Loaded(pass[r].ex[k], chunks[k])]]
<1>5. t \in Pass
  BY <1>1, <1>4 DEF Pass
<1>6. /\ t.pc = "fence"
      /\ t.ex = [pass[r].ex EXCEPT ![k] = Loaded(pass[r].ex[k], chunks[k])]
  BY <1>1 DEF Pass
<1>7. Keeps(pass[r], t) /\ t.todo = pass[r].todo /\ t.got = pass[r].got /\ t.base = pass[r].base /\ t.recs = pass[r].recs /\ t.plans = pass[r].plans
  BY <1>1 DEF Pass, Keeps
<1>8. pass' = [pass EXCEPT ![r] = t]
  BY DEF ReadRows
<1> HIDE DEF t
<1>9. pass'[r] = t
  BY <1>8 DEF TypeOK
<1> QED
  BY <1>5, <1>6, <1>7, <1>8, <1>9 DEF Moved, TypeOK

\* The plan that q would make of the note p.
PlanOf(q, p) ==
  [ver |-> pass[q].got[p], ex |-> pass[q].ex[p], base |-> Loaded(pass[q].base[p], fence[p]),
   overtaken |-> pass[q].base[p] = 0 /\ high[p] > pass[q].got[p]]
PlanMade(q, p) ==
  IF NeedsPlan(p, pass[q].ex[p], pass[q].got[p]) THEN PlanOf(q, p) ELSE pass[q].plans[p]

LEMMA FenceSets ==
  ASSUME TypeOK, NEW r \in Proc, NEW k \in Path, ReadFence(r, k)
  PROVE  /\ Moved(r) /\ Keeps(pass[r], pass'[r])
         /\ pass'[r].pc = "queue"
         /\ pass'[r].plans = [pass[r].plans EXCEPT ![k] = PlanMade(r, k)]
         /\ pass'[r].todo = pass[r].todo /\ pass'[r].got = pass[r].got /\ pass'[r].ex = pass[r].ex /\ pass'[r].base = pass[r].base /\ pass'[r].recs = pass[r].recs
<1>1. pass[r] \in Pass /\ fence[k] \in Nat
  BY DEF TypeOK
<1>2. /\ pass[r].got[k] \in Ver /\ pass[r].ex[k] \in Ver /\ pass[r].base[k] \in Nat
      /\ pass[r].plans[k] \in Plan /\ Loaded(pass[r].base[k], fence[k]) \in Nat
  BY <1>1, PassParts DEF Loaded
<1>3. PlanMade(r, k) \in Plan
  <2>1. PlanOf(r, k) \in Plan
    BY <1>2 DEF PlanOf, Plan
  <2> QED
    BY <1>2, <2>1 DEF PlanMade
<1>4. [pass[r].plans EXCEPT ![k] = PlanMade(r, k)] \in [Path -> Plan] /\ "queue" \in Pc
  BY <1>1, <1>3, PassParts DEF Pc, Reading
<1> DEFINE t == [pass[r] EXCEPT !.pc = "queue", !.plans = [pass[r].plans EXCEPT ![k] = PlanMade(r, k)]]
<1>5. t \in Pass
  BY <1>1, <1>4 DEF Pass
<1>6. /\ t.pc = "queue"
      /\ t.plans = [pass[r].plans EXCEPT ![k] = PlanMade(r, k)]
  BY <1>1 DEF Pass
<1>7. Keeps(pass[r], t) /\ t.todo = pass[r].todo /\ t.got = pass[r].got /\ t.ex = pass[r].ex /\ t.base = pass[r].base /\ t.recs = pass[r].recs
  BY <1>1 DEF Pass, Keeps
<1>8. pass' = [pass EXCEPT ![r] = t]
  BY DEF ReadFence, PlanMade, PlanOf
<1> HIDE DEF t
<1>9. pass'[r] = t
  BY <1>8 DEF TypeOK
<1> QED
  BY <1>5, <1>6, <1>7, <1>8, <1>9 DEF Moved, TypeOK

\* The record that q would make of the note p.
RecOf(q, p) ==
  [ver |-> pass[q].got[p], base |-> pass[q].base[p], check |-> pass[q].plans[p] = NoPlan]
RecMade(q, p) == IF Same(notes[p], pass[q].got[p]) THEN pass[q].recs[p] ELSE RecOf(q, p)

LEMMA QueueSets ==
  ASSUME TypeOK, NEW r \in Proc, NEW k \in Path, QueueNote(r, k)
  PROVE  /\ Moved(r) /\ Keeps(pass[r], pass'[r])
         /\ pass'[r].pc = "read"
         /\ pass'[r].todo = pass[r].todo \ {k}
         /\ pass'[r].got = [pass[r].got EXCEPT ![k] = 0]
         /\ pass'[r].ex = [pass[r].ex EXCEPT ![k] = 0]
         /\ pass'[r].base = [pass[r].base EXCEPT ![k] = 0]
         /\ pass'[r].recs = [pass[r].recs EXCEPT ![k] = RecMade(r, k)]
         /\ pass'[r].plans = pass[r].plans
<1>1. pass[r] \in Pass /\ 0 \in Ver
  BY NoteIndexAssumption DEF TypeOK, Ver
<1>2. pass[r].got[k] \in Ver /\ pass[r].base[k] \in Nat /\ pass[r].recs[k] \in Rec
  BY <1>1, PassParts
<1>3. RecMade(r, k) \in Rec
  BY <1>2 DEF RecMade, RecOf, Rec
<1>4. /\ [pass[r].recs EXCEPT ![k] = RecMade(r, k)] \in [Path -> Rec]
      /\ [pass[r].got EXCEPT ![k] = 0] \in [Path -> Ver]
      /\ [pass[r].ex EXCEPT ![k] = 0] \in [Path -> Ver]
      /\ [pass[r].base EXCEPT ![k] = 0] \in [Path -> Nat]
      /\ pass[r].todo \ {k} \in SUBSET Path /\ "read" \in Pc
  BY <1>1, <1>3, PassParts DEF Pc
<1> DEFINE t == [pass[r] EXCEPT !.pc = "read", !.todo = pass[r].todo \ {k}, !.got = [pass[r].got EXCEPT ![k] = 0], !.ex = [pass[r].ex EXCEPT ![k] = 0], !.base = [pass[r].base EXCEPT ![k] = 0], !.recs = [pass[r].recs EXCEPT ![k] = RecMade(r, k)]]
<1>5. t \in Pass
  BY <1>1, <1>4 DEF Pass
<1>6. /\ t.pc = "read"
      /\ t.todo = pass[r].todo \ {k}
      /\ t.got = [pass[r].got EXCEPT ![k] = 0]
      /\ t.ex = [pass[r].ex EXCEPT ![k] = 0]
      /\ t.base = [pass[r].base EXCEPT ![k] = 0]
      /\ t.recs = [pass[r].recs EXCEPT ![k] = RecMade(r, k)]
  BY <1>1 DEF Pass
<1>7. Keeps(pass[r], t) /\ t.plans = pass[r].plans
  BY <1>1 DEF Pass, Keeps
<1>8. pass' = [pass EXCEPT ![r] = t]
  BY DEF QueueNote, RecMade, RecOf
<1> HIDE DEF t
<1>9. pass'[r] = t
  BY <1>8 DEF TypeOK
<1> QED
  BY <1>5, <1>6, <1>7, <1>8, <1>9 DEF Moved, TypeOK

LEMMA ReadsSet ==
  ASSUME TypeOK, NEW r \in Proc, NEW k \in Path, Reads(r, k)
  PROVE  /\ Moved(r) /\ Keeps(pass[r], pass'[r])
         /\ UNCHANGED <<bound, disk, db, epoch, mine, leader, op, cache, asked, faults, high, owed, calm>>
         /\ pass[r].pc \in {"read"} \cup Reading /\ pass'[r].pc \in {"read"} \cup Reading
<1>1. UNCHANGED <<bound, disk, db, epoch, mine, leader, op, cache, asked, faults, high, owed, calm>>
      /\ pass[r].pc \in {"read"} \cup Reading
  BY DEF Reads, ReadNote, ReadRows, ReadFence, QueueNote, Reading
<1>2. Moved(r) /\ Keeps(pass[r], pass'[r]) /\ pass'[r].pc \in {"rows", "fence", "queue", "read"}
  BY NoteSets, RowsSets, FenceSets, QueueSets DEF Reads
<1> QED
  BY <1>1, <1>2 DEF Reading

\* Removing the notes of S writes well-typed tables.
LEMMA DeindexTyped ==
  ASSUME TypeOK, NEW S \in SUBSET Path, NEW ver \in [Path -> Ver], deindexNote(S, ver)
  PROVE  /\ chunks' \in [Path -> Ver] /\ notes' \in [Path -> Ver]
         /\ fence' \in [Path -> Nat] /\ high' \in [Path -> Ver]
         /\ cache' \in [Path -> Ver] \cup {NoRows}
         /\ asked' \in [key : {"now", "old"}, rows : [Path -> Ver] \cup {NoRows}]
<1>1. 0 \in Ver
  BY NoteIndexAssumption DEF Ver
<1>2. high' \in [Path -> Ver]
  BY NewerTyped DEF deindexNote, TypeOK
<1> QED
  BY <1>1, <1>2 DEF deindexNote, TypeOK, bumpGeneration

\* The state of the search index of a vault is well typed at every step.
LEMMA TypeStep == TypeOK /\ [Next]_vars => TypeOK'
<1> SUFFICES ASSUME TypeOK, [Next]_vars PROVE TypeOK'
  OBVIOUS
<1>0. bound.events \in Ver /\ bound.faults \in Nat /\ MaxVer \in Nat /\ Ver \subseteq Nat /\ 0 \in Ver
  BY NoteIndexAssumption DEF TypeOK, Ver
<1>1. ASSUME NEW p \in Path, NEW live \in BOOLEAN, NEW H \in SUBSET Writers, Change(p, live, H)
      PROVE  TypeOK'
  <2>1. [ver |-> disk[p].ver + 1, live |-> live] \in File
    BY <1>0, <1>1 DEF Change, TypeOK, File, Ver
  <2>2. disk' \in [Path -> File]
    BY <1>1, <2>1 DEF Change, TypeOK
  <2>3. op' \in [Writers -> [Path -> Op]]
    BY <1>1, <2>1, OpParts DEF Change, TypeOK
  <2> QED
    BY <1>1, <2>2, <2>3 DEF Change, TypeOK, db
<1>2. ASSUME NEW q \in Writers, NEW p \in Path, PlanNote(q, p) PROVE TypeOK'
  <2>1. op' \in [Writers -> [Path -> Op]]
    BY <1>0, <1>2, NoPassTyped DEF PlanNote, TypeOK, Op, Job, File, Same
  <2> QED
    BY <1>2, <2>1 DEF PlanNote, TypeOK, db
<1>3. ASSUME NEW q \in Writers, NEW p \in Path, indexNote(q, p) PROVE TypeOK'
  <2>1. op' \in [Writers -> [Path -> Op]]
    BY <1>3, NoPassTyped, OpParts DEF indexNote, TypeOK
  <2>2. op[q][p].job.ver \in Ver
    BY <1>3 DEF TypeOK, Op, Job
  <2>3. chunks' \in [Path -> Ver] /\ notes' \in [Path -> Ver] /\ fence' \in [Path -> Nat] /\ high' \in [Path -> Ver]
    <3>1. CASE UNCHANGED <<db, high>>
      BY <3>1 DEF TypeOK, db
    <3>2. CASE /\ fence' = [fence EXCEPT ![p] = @ + 1]
               /\ notes' = [notes EXCEPT ![p] = op[q][p].job.ver]
               /\ chunks' \in {chunks, [chunks EXCEPT ![p] = op[q][p].job.ver]}
               /\ high' = [high EXCEPT ![p] = Newer(p, op[q][p].job.ver)]
      BY <2>2, <3>2, NewerTyped DEF TypeOK
    <3> QED
      BY <1>3, <3>1, <3>2 DEF indexNote
  <2>4. cache' \in [Path -> Ver] \cup {NoRows} /\ asked' \in [key : {"now", "old"}, rows : [Path -> Ver] \cup {NoRows}]
    BY <1>3 DEF indexNote, TypeOK, bumpGeneration
  <2> QED
    BY <1>3, <2>1, <2>3, <2>4 DEF indexNote, TypeOK
<1>4. ASSUME NEW q \in Writers, NEW p \in Path, Deindex(q, p) PROVE TypeOK'
  <2>1. op' \in [Writers -> [Path -> Op]]
    BY <1>4, NoPassTyped DEF Deindex, TypeOK
  <2>2. op[q][p].want.ver \in Ver /\ {p} \in SUBSET Path
    BY OpParts DEF TypeOK, File
  <2>3. Of(op[q][p].want.ver) \in [Path -> Ver]
    BY <2>2 DEF Of
  <2> QED
    BY <1>4, <2>1, <2>2, <2>3, DeindexTyped DEF Deindex, TypeOK
<1>5. ASSUME NEW q \in Proc, NEW e \in 0 .. epoch, Begin(q, e) PROVE TypeOK'
  <2>1. PICK s : /\ pass' = [pass EXCEPT ![q] = s]
                 /\ s = [NoPass EXCEPT !.pc = "load", !.e = e, !.walked = Live, !.todo = Live,
                      !.asOf = [p \in Path |-> IF p \in Live THEN 0 ELSE disk[p].ver]]
    BY <1>5 DEF Begin
  <2>2. [p \in Path |-> IF p \in Live THEN 0 ELSE disk[p].ver] \in [Path -> Ver]
    BY <1>0 DEF TypeOK, File
  <2>3. Live \in SUBSET Path /\ e \in Nat
    BY DEF Live, TypeOK
  <2>4. s \in Pass
    BY <2>1, <2>2, <2>3, NoPassTyped DEF Pass, Pc
  <2> QED
    BY <1>5, <2>1, <2>4 DEF Begin, TypeOK, db
<1>6. ASSUME NEW q \in Proc, Load(q) PROVE TypeOK'
  <2>1. [p \in Path |-> IF p \in pass[q].todo THEN chunks[p] ELSE 0] \in [Path -> Ver]
    BY <1>0 DEF TypeOK
  <2>2. [p \in Path |-> IF p \in pass[q].todo THEN fence[p] ELSE 0] \in [Path -> Nat]
    BY DEF TypeOK
  <2>3. pass[q] \in Pass
    BY DEF TypeOK
  <2>4. [pass[q] EXCEPT !.pc = "read",
       !.ex = [p \in Path |-> IF p \in pass[q].todo THEN chunks[p] ELSE 0],
       !.base = [p \in Path |-> IF p \in pass[q].todo THEN fence[p] ELSE 0]] \in Pass
    BY <2>1, <2>2, <2>3 DEF Pass, Pc
  <2> QED
    BY <1>6, <2>4 DEF Load, TypeOK, db
<1>7. ASSUME NEW q \in Proc, NEW p \in Path, Reads(q, p) PROVE TypeOK'
  <2>1. pass' \in [Proc -> Pass]
    <3>1. pass' = [pass EXCEPT ![q] = pass'[q]] /\ pass'[q] \in Pass
      BY <1>7, ReadsSet DEF Moved
    <3> QED
      BY <3>1 DEF TypeOK
  <2>2. UNCHANGED <<bound, disk, db, epoch, mine, leader, op, cache, asked, faults, high, owed, calm>>
    BY <1>7, ReadsSet
  <2> QED
    BY <2>1, <2>2 DEF TypeOK, db
<1>8. ASSUME NEW q \in Proc, NEW p \in Path, ReadGone(q, p) PROVE TypeOK'
  BY <1>8, NoPassTyped, PassParts DEF ReadGone, Reject, TypeOK, db
<1>9. ASSUME NEW q \in Proc, FlushNotes(q) PROVE TypeOK'
  <2>1. pass[q] \in Pass /\ Of(NoRec) \in [Path -> Rec]
    BY NoPassTyped DEF TypeOK, NoPass, Pass
  <2>2. [pass[q] EXCEPT !.recs = Of(NoRec)] \in Pass
    BY <2>1 DEF Pass
  <2>3. pass' \in [Proc -> Pass]
    BY <1>9, <2>2 DEF FlushNotes, TypeOK
  <2>4. \A p \in Path : pass[q].recs[p].ver \in Ver
    BY <2>1, PassParts DEF Rec
  <2>5. notes' \in [Path -> Ver] /\ fence' \in [Path -> Nat]
    BY <1>9, <2>4 DEF FlushNotes, TypeOK
  <2> QED
    BY <1>9, <2>3, <2>5 DEF FlushNotes, TypeOK
<1>10. ASSUME NEW q \in Proc, Sweep(q) PROVE TypeOK'
  <2>1. pass[q] \in Pass /\ Of(0) \in [Path -> Ver]
    BY <1>0 DEF TypeOK, Of
  <2>2. \A c \in Pc : [pass[q] EXCEPT !.pc = c, !.walked = {}, !.asOf = Of(0)] \in Pass
    BY <2>1 DEF Pass
  <2>3. pass' \in [Proc -> Pass]
    BY <1>10, <2>2 DEF Sweep, TypeOK, Pc
  <2>4. Stale(q) \in SUBSET Path /\ pass[q].asOf \in [Path -> Ver]
    BY <2>1, PassParts DEF Stale
  <2> QED
    BY <1>10, <2>3, <2>4, DeindexTyped DEF Sweep, TypeOK
<1>11. ASSUME NEW q \in Proc, Full(q) PROVE TypeOK'
  <2>1. pass[q] \in Pass
    BY DEF TypeOK
  <2>2. [pass[q] EXCEPT !.pc = "embed"] \in Pass
    BY <2>1 DEF Pass, Pc
  <2> QED
    BY <1>11, <2>2 DEF Full, TypeOK, db
<1>12. ASSUME NEW q \in Proc, NEW bad \in SUBSET Path, CommitBatch(q, bad) PROVE TypeOK'
  <2>1. pass[q] \in Pass /\ Of(NoPlan) \in [Path -> Plan]
    BY NoPassTyped DEF TypeOK, NoPass, Pass
  <2>2. \A c \in Pc, d \in BOOLEAN : [pass[q] EXCEPT !.plans = Of(NoPlan), !.dirty = d, !.pc = c] \in Pass
    BY <2>1 DEF Pass
  <2>3. PICK d \in BOOLEAN, c \in Pc :
          pass' = [pass EXCEPT ![q] = [pass[q] EXCEPT !.plans = Of(NoPlan), !.dirty = d, !.pc = c]]
    <3>1. PICK lands : pass' = [pass EXCEPT ![q] =
             [pass[q] EXCEPT !.plans = Of(NoPlan), !.dirty = pass[q].dirty \/ lands # {},
                             !.pc = IF pass[q].pc = "embed" THEN "read" ELSE "bump"]]
      BY <1>12 DEF CommitBatch
    <3>2. (pass[q].dirty \/ lands # {}) \in BOOLEAN
      OBVIOUS
    <3>3. (IF pass[q].pc = "embed" THEN "read" ELSE "bump") \in Pc
      BY DEF Pc
    <3> QED
      BY <3>1, <3>2, <3>3
  <2>4. pass' \in [Proc -> Pass]
    BY <2>2, <2>3 DEF TypeOK
  <2>5. \A p \in Path : pass[q].plans[p].ver \in Ver
    BY <2>1, PassParts DEF Plan
  <2>6. chunks' \in [Path -> Ver] /\ fence' \in [Path -> Nat]
    BY <1>12, <2>5 DEF CommitBatch, TypeOK
  <2>7. high' \in [Path -> Ver]
    BY <1>12, <2>5, NewerTyped DEF CommitBatch, TypeOK
  <2>8. faults' \in 0 .. bound'.faults
    BY <1>0, <1>12 DEF CommitBatch, TypeOK
  <2> QED
    BY <1>12, <2>4, <2>6, <2>7, <2>8 DEF CommitBatch, TypeOK
<1>13. ASSUME NEW q \in Proc, EmbedFails(q) PROVE TypeOK'
  BY <1>0, <1>13, NoPassTyped, PassParts DEF EmbedFails, Reject, TypeOK, db
<1>14. ASSUME NEW q \in Proc, Bump(q) PROVE TypeOK'
  BY <1>14, NoPassTyped DEF Bump, bumpGeneration, TypeOK, db
<1>15. ASSUME NEW q \in Proc, Promote(q) PROVE TypeOK'
  BY <1>15 DEF Promote, TypeOK, db
<1>16. ASSUME NEW q \in Proc, NEW S \in SUBSET Path, Demote(q, S) PROVE TypeOK'
  <2>1. pass[q] \in Pass
    BY DEF TypeOK
  <2>2. \A b \in BOOLEAN : [pass[q] EXCEPT !.aborted = b] \in Pass
    BY <2>1 DEF Pass
  <2>3. pass' \in [Proc -> Pass]
    BY <1>16, <2>2 DEF Demote, TypeOK
  <2>4. op' \in [Writers -> [Path -> Op]]
    BY <1>16, NoPassTyped, OpParts DEF Demote, TypeOK
  <2> QED
    BY <1>0, <1>16, <2>3, <2>4 DEF Demote, TypeOK, db
<1>17. ASSUME NEW q \in Proc, Crash(q) PROVE TypeOK'
  <2>1. pass' \in [Proc -> Pass] /\ owed' \in BOOLEAN /\ calm' \subseteq Proc
    BY <1>17, NoPassTyped, PassParts DEF Crash, Reject, TypeOK
  <2>2. op' \in [Writers -> [Path -> Op]]
    BY <1>17, NoPassTyped DEF Crash, TypeOK, Of
  <2> QED
    <3>1. faults' \in 0 .. bound'.faults
      BY <1>0, <1>17 DEF Crash, TypeOK
    <3> QED
      BY <1>17, <2>1, <2>2, <3>1 DEF Crash, TypeOK, db
<1>18. CASE Search \/ Keep \/ Evict
  <2>1. [key |-> "now", rows |-> chunks] \in [key : {"now", "old"}, rows : [Path -> Ver] \cup {NoRows}]
    BY DEF TypeOK
  <2>2. Unasked \in [key : {"now", "old"}, rows : [Path -> Ver] \cup {NoRows}]
    BY DEF Unasked
  <2>3. asked.rows \in [Path -> Ver] \cup {NoRows}
    BY DEF TypeOK
  <2> QED
    BY <1>18, <2>1, <2>2, <2>3 DEF Search, Keep, Evict, TypeOK, db
<1>19. CASE UNCHANGED vars
  BY <1>19 DEF vars, db, TypeOK
<1> QED
  BY <1>1, <1>2, <1>3, <1>4, <1>5, <1>6, <1>7, <1>8, <1>9, <1>10, <1>11, <1>12, <1>13, <1>14,
     <1>15, <1>16, <1>17, <1>18, <1>19 DEF Next, JobStep, Step, Reads

LEMMA InitTyped == Init => TypeOK
<1> SUFFICES ASSUME Init PROVE TypeOK
  OBVIOUS
<1>1. 0 \in Ver /\ bound.faults \in Nat
  BY NoteIndexAssumption DEF Init, Ver
<1>2. disk \in [Path -> File] /\ op \in [Writers -> [Path -> Op]] /\ pass \in [Proc -> Pass]
  BY NoPassTyped DEF Init, Of
<1>3. asked \in [key : {"now", "old"}, rows : [Path -> Ver] \cup {NoRows}]
  BY DEF Init, Unasked
<1>4. /\ chunks \in [Path -> Ver] /\ notes \in [Path -> Ver] /\ fence \in [Path -> Nat]
      /\ high \in [Path -> Ver]
  BY <1>1 DEF Init, Of
<1>5. mine \in [Proc -> 0 .. epoch] /\ leader \in [Proc -> BOOLEAN] /\ epoch \in Nat
  BY DEF Init
<1>6. faults \in 0 .. bound.faults
  BY <1>1 DEF Init
<1>7. /\ bound \in Bounds /\ cache \in [Path -> Ver] \cup {NoRows}
      /\ owed \in BOOLEAN /\ calm \subseteq Proc
  BY DEF Init
<1> QED
  BY <1>2, <1>3, <1>4, <1>5, <1>6, <1>7 DEF TypeOK

(* index-vault.ts, index-note.ts, generation.ts: passes, jobs, tables and  *)
(* the query cache keep their types in every behaviour.                    *)
THEOREM TypeCorrect == Spec => []TypeOK
BY InitTyped, TypeStep, PTL DEF Spec

-----------------------------------------------------------------------------
(* The inductive invariant.                                                *)

\* What the coordinators hold is never newer than the file.
OpsBehind ==
  \A q \in Writers, p \in Path : op[q][p].want.ver <= disk[p].ver /\ op[q][p].job.ver <= disk[p].ver

\* Nothing that was read, queued or committed is newer than the file.
Behind ==
  /\ OpsBehind
  /\ \A p \in Path : high[p] <= disk[p].ver /\ (disk[p].live => disk[p].ver # 0)
  /\ \A q \in Proc, p \in Path :
       /\ pass[q].asOf[p] <= disk[p].ver /\ pass[q].plans[p].ver <= disk[p].ver
       /\ pass[q].got[p] <= disk[p].ver

\* A pass has the content of one note in hand, on its way to the queues.
InHand ==
  \A q \in Proc, p \in Path :
    pass[q].got[p] # 0 => pass[q].pc \in Reading /\ p \in pass[q].todo
                          /\ \A k \in Path : pass[q].got[k] # 0 => k = p

\* A plan whose baseline still stands was read after everything that is indexed, but
\* for one that was overtaken; a content in hand of a note that was loaded, too.
PlansFenced ==
  \A q \in Proc, p \in Path :
    /\ pass[q].base[p] <= fence[p] /\ pass[q].plans[p].base <= fence[p]
    /\ pass[q].plans[p] # NoPlan /\ pass[q].plans[p].base = fence[p]
         => high[p] <= pass[q].plans[p].ver \/ pass[q].plans[p].overtaken
    /\ pass[q].got[p] # 0 /\ pass[q].base[p] # 0 /\ pass[q].base[p] = fence[p]
         => high[p] <= pass[q].got[p]

\* A pass that is over owes nothing, and what a query has in hand under the present
\* generation is what the index holds.
Fresh ==
  /\ \A q \in Proc : pass[q].pc = "idle" => ~pass[q].dirty
  /\ ~Dirty /\ ~owed =>
       /\ cache # NoRows => \A p \in Path : Same(cache[p], chunks[p])
       /\ asked.key = "now" /\ asked.rows # NoRows => \A p \in Path : Same(asked.rows[p], chunks[p])

\* What a pass that nothing disturbs still has in hand for the note p: the rows of
\* the note, or a record and a plan that will land.
RecHeals(q, p) ==
  LET r == pass[q].recs[p] IN
  r # NoRec /\ Same(r.ver, disk[p].ver)
    /\ (r.check => r.base = fence[p] /\ pass[q].plans[p] = NoPlan)
PlanHeals(q, p) ==
  LET plan == pass[q].plans[p] IN
  plan # NoPlan /\ Same(plan.ver, disk[p].ver) /\ Same(chunks[p], plan.ex) /\ plan.base = fence[p]

\* The note p as a calm pass has left it.
NotesDone(q, p) ==
  \/ pass[q].recs[p] = NoRec /\ Same(notes[p], disk[p].ver)
  \/ RecHeals(q, p)
ChunksDone(q, p) ==
  \/ pass[q].plans[p] = NoPlan /\ Same(chunks[p], disk[p].ver)
  \/ PlanHeals(q, p)

Untouched(q, p) == pass[q].recs[p] = NoRec /\ pass[q].plans[p] = NoPlan

\* A note still to be queued: nothing moved since it was loaded, and its plan is
\* there once it is made.
Ready(q, p) ==
  /\ pass[q].ex[p] = chunks[p] /\ pass[q].base[p] = fence[p] /\ pass[q].recs[p] = NoRec
  /\ pass[q].got[p] \in {0, disk[p].ver}
  /\ IF pass[q].pc = "queue" /\ pass[q].got[p] # 0 THEN ChunksDone(q, p) ELSE pass[q].plans[p] = NoPlan

CalmReading(q) ==
  /\ pass[q].walked = Live /\ pass[q].todo \subseteq Live
  /\ \A p \in Path :
       /\ p \in pass[q].todo => Ready(q, p)
       /\ p \in Live \ pass[q].todo => NotesDone(q, p) /\ ChunksDone(q, p)
       /\ p \notin Live => Untouched(q, p)

CalmLast(q) ==
  \A p \in Path : /\ pass[q].recs[p] = NoRec
                  /\ Same(notes[p], IF disk[p].live THEN disk[p].ver ELSE 0)
                  /\ disk[p].live => ChunksDone(q, p)
                  /\ ~disk[p].live => pass[q].plans[p] = NoPlan

CalmInv(q) ==
  q \in calm =>
    /\ pass[q].pc # "idle" /\ ~pass[q].aborted /\ pass[q].e \in {Unfenced, epoch}
    /\ pass[q].pc = "load" => /\ pass[q].walked = Live /\ pass[q].todo = Live
                              /\ \A p \in Path : Untouched(q, p)
    /\ pass[q].pc \in {"read", "embed"} \cup Reading => CalmReading(q)
    /\ pass[q].pc = "last" => CalmLast(q)
    /\ pass[q].pc = "bump" => \A p \in Path : Matches(p)

IInv == TypeOK /\ InHand /\ Behind /\ PlansFenced /\ Fresh /\ \A q \in Proc : CalmInv(q)

-----------------------------------------------------------------------------
(* Nothing is newer than the file.                                         *)

LEMMA Numbers ==
  ASSUME TypeOK
  PROVE  /\ Ver \subseteq Nat /\ 0 \in Ver
         /\ \A p \in Path : disk[p].ver \in Nat /\ high[p] \in Nat /\ fence[p] \in Nat
         /\ \A p \in Path, q \in Writers : /\ op[q][p].want.ver \in Nat /\ op[q][p].job.ver \in Nat
                                           /\ op[q][p].want \in File /\ op[q][p].job \in Job
         /\ \A p \in Path, q \in Proc : /\ pass[q].asOf[p] \in Nat /\ pass[q].plans[p].ver \in Nat
                                        /\ pass[q].base[p] \in Nat /\ pass[q].plans[p].base \in Nat
                                        /\ pass[q].got[p] \in Nat
<1>1. Ver \subseteq Nat /\ 0 \in Ver
  BY NoteIndexAssumption DEF Ver
<1>2. \A p \in Path : disk[p].ver \in Nat /\ high[p] \in Nat /\ fence[p] \in Nat
  BY <1>1 DEF TypeOK, File
<1>3. \A p \in Path, q \in Writers : op[q][p].want \in File /\ op[q][p].job \in Job
  BY OpParts DEF TypeOK
<1>4. \A p \in Path, q \in Writers : op[q][p].want.ver \in Nat /\ op[q][p].job.ver \in Nat
  BY <1>1, <1>3 DEF File, Job
<1>5. ASSUME NEW p \in Path, NEW q \in Proc
      PROVE  /\ pass[q].asOf[p] \in Nat /\ pass[q].plans[p].ver \in Nat
             /\ pass[q].base[p] \in Nat /\ pass[q].plans[p].base \in Nat /\ pass[q].got[p] \in Nat
  <2>1. pass[q] \in Pass
    BY DEF TypeOK
  <2> QED
    BY <1>1, <2>1, PassParts DEF Plan
<1> QED
  BY <1>1, <1>2, <1>3, <1>4, <1>5

\* The passes after a step: what a pass has in hand was there, or is dropped, or
\* was read in this step.
PassMoves(q, p) ==
  LET s == pass[q]
      t == pass'[q] IN
  /\ t.asOf[p] \in {s.asOf[p], 0} \/ (t.asOf[p] = disk[p].ver /\ disk' = disk)
  /\ t.base[p] \in {s.base[p], 0} \/ (t.base[p] = fence[p] /\ fence' = fence)
  /\ \/ t.got[p] = 0 \/ (t.got[p] = s.got[p] /\ t.base[p] = s.base[p])
     \/ (t.got[p] = disk[p].ver /\ UNCHANGED <<disk, fence, high>>)
  /\ \/ t.plans[p] \in {s.plans[p], NoPlan}
     \/ UNCHANGED <<disk, fence, high>> /\ s.got[p] # 0 /\ t.plans[p] = PlanOf(q, p)

\* What the steps inside a pass change of its locals.
LEMMA LoadSets ==
  ASSUME TypeOK, NEW r \in Proc, Load(r)
  PROVE  /\ \A q \in Proc \ {r} : pass'[q] = pass[q]
         /\ pass'[r] = [pass[r] EXCEPT !.pc = "read",
              !.ex = [p \in Path |-> IF p \in pass[r].todo THEN chunks[p] ELSE 0],
              !.base = [p \in Path |-> IF p \in pass[r].todo THEN fence[p] ELSE 0]]
         /\ pass' = [pass EXCEPT ![r] = pass'[r]]
         /\ pass'[r].pc = "read" /\ pass'[r].asOf = pass[r].asOf
         /\ pass'[r].plans = pass[r].plans /\ pass'[r].dirty = pass[r].dirty
         /\ pass'[r].got = pass[r].got /\ pass'[r].todo = pass[r].todo
         /\ pass'[r].base = [p \in Path |-> IF p \in pass[r].todo THEN fence[p] ELSE 0]
<1>1. pass[r] \in Pass
  BY DEF TypeOK
<1>2. pass'[r] = [pass[r] EXCEPT !.pc = "read",
              !.ex = [p \in Path |-> IF p \in pass[r].todo THEN chunks[p] ELSE 0],
              !.base = [p \in Path |-> IF p \in pass[r].todo THEN fence[p] ELSE 0]]
      /\ pass' = [pass EXCEPT ![r] = pass'[r]] /\ \A q \in Proc \ {r} : pass'[q] = pass[q]
  BY DEF Load, TypeOK
<1> QED
  BY <1>1, <1>2 DEF Pass

LEMMA FlushSets ==
  ASSUME TypeOK, NEW r \in Proc, FlushNotes(r) \/ Full(r)
  PROVE  /\ \A q \in Proc \ {r} : pass'[q] = pass[q]
         /\ pass' = [pass EXCEPT ![r] = pass'[r]] /\ pass'[r].asOf = pass[r].asOf
         /\ pass'[r].base = pass[r].base /\ pass'[r].plans = pass[r].plans /\ pass'[r].got = pass[r].got
<1>1. pass[r] \in Pass /\ pass \in [Proc -> Pass]
  BY DEF TypeOK
<1>2. CASE FlushNotes(r)
  <2>1. pass' = [pass EXCEPT ![r] = [pass[r] EXCEPT !.recs = Of(NoRec)]]
    BY <1>2 DEF FlushNotes
  <2> QED
    BY <1>1, <2>1 DEF Pass
<1>3. CASE Full(r)
  <2>1. pass' = [pass EXCEPT ![r] = [pass[r] EXCEPT !.pc = "embed"]]
    BY <1>3 DEF Full
  <2> QED
    BY <1>1, <2>1 DEF Pass
<1> QED
  BY <1>2, <1>3

LEMMA SweepSets ==
  ASSUME TypeOK, NEW r \in Proc, Sweep(r)
  PROVE  /\ \A q \in Proc \ {r} : pass'[q] = pass[q]
         /\ pass' = [pass EXCEPT ![r] = pass'[r]] /\ pass'[r].asOf = Of(0)
         /\ pass'[r].base = pass[r].base /\ pass'[r].plans = pass[r].plans /\ pass'[r].got = pass[r].got
<1>1. pass[r] \in Pass /\ pass \in [Proc -> Pass]
  BY DEF TypeOK
<1>2. PICK c : pass' = [pass EXCEPT ![r] = [pass[r] EXCEPT !.pc = c, !.walked = {}, !.asOf = Of(0)]]
  BY DEF Sweep
<1> QED
  BY <1>1, <1>2 DEF Pass

LEMMA CommitSets ==
  ASSUME TypeOK, NEW r \in Proc, NEW S \in SUBSET Path, CommitBatch(r, S)
  PROVE  /\ \A q \in Proc \ {r} : pass'[q] = pass[q]
         /\ pass' = [pass EXCEPT ![r] = pass'[r]] /\ pass'[r].asOf = pass[r].asOf
         /\ pass'[r].base = pass[r].base /\ pass'[r].plans = Of(NoPlan) /\ pass'[r].got = pass[r].got
<1>1. pass[r] \in Pass /\ pass \in [Proc -> Pass]
  BY DEF TypeOK
<1>2. PICK d, c : pass' = [pass EXCEPT ![r] = [pass[r] EXCEPT !.plans = Of(NoPlan), !.dirty = d, !.pc = c]]
  BY DEF CommitBatch
<1> QED
  BY <1>1, <1>2 DEF Pass

\* Only the steps that read a note have its content in hand.
LEMMA InHandStep ==
  ASSUME TypeOK, InHand, [Next]_vars
  PROVE  InHand'
<1>0. /\ pass \in [Proc -> Pass] /\ \A q \in Proc : pass[q] \in Pass /\ pass[q].got \in [Path -> Ver]
      /\ \A p \in Path : NoPass.got[p] = 0
  BY PassParts DEF TypeOK, NoPass, Of
<1>1. CASE pass' = pass
  BY <1>1 DEF InHand
<1>2. ASSUME NEW r \in Proc, \A q \in Proc \ {r} : pass'[q] = pass[q], \A p \in Path : pass'[r].got[p] = 0
      PROVE  InHand'
  BY <1>2 DEF InHand
<1>3. ASSUME NEW r \in Proc, pass[r].pc \notin Reading, \A q \in Proc \ {r} : pass'[q] = pass[q],
             pass'[r].got = pass[r].got
      PROVE  InHand'
  BY <1>2, <1>3 DEF InHand
<1>4. ASSUME NEW r \in Proc, pass' = [pass EXCEPT ![r] = NoPass] PROVE InHand'
  BY <1>0, <1>2, <1>4
<1>5. ASSUME NEW r \in Proc, NEW e \in 0 .. epoch, Begin(r, e) PROVE InHand'
  <2>1. (\A q \in Proc \ {r} : pass'[q] = pass[q]) /\ pass'[r].got = NoPass.got
    BY <1>0, <1>5 DEF Begin, NoPass
  <2> QED
    BY <1>0, <1>2, <2>1
<1>6. ASSUME NEW r \in Proc, Load(r) \/ FlushNotes(r) \/ Full(r) \/ Sweep(r) \/ (\E S \in SUBSET Path : CommitBatch(r, S))
      PROVE  InHand'
  <2>1. pass[r].pc \notin Reading
    BY <1>6 DEF Load, FlushNotes, Full, Sweep, CommitBatch, Reading
  <2>2. (\A q \in Proc \ {r} : pass'[q] = pass[q]) /\ pass'[r].got = pass[r].got
    BY <1>6, LoadSets, FlushSets, SweepSets, CommitSets
  <2> QED
    BY <1>3, <2>1, <2>2
<1>7. ASSUME NEW r \in Proc, NEW S \in SUBSET Path, Demote(r, S) PROVE InHand'
  <2>1. pass[r].pc \notin Reading
    BY <1>7 DEF Demote, Free
  <2>2. (\A q \in Proc \ {r} : pass'[q] = pass[q]) /\ pass'[r].got = pass[r].got
    BY <1>0, <1>7 DEF Demote, Pass
  <2> QED
    BY <1>3, <2>1, <2>2
<1>8. ASSUME NEW r \in Proc, NEW k \in Path, ReadNote(r, k) PROVE InHand'
  <2>1. /\ Moved(r) /\ pass'[r].pc = "rows" /\ pass'[r].got = [pass[r].got EXCEPT ![k] = disk[k].ver]
        /\ pass'[r].todo = pass[r].todo
    BY <1>8, NoteSets
  <2>2. k \in pass[r].todo /\ \A p \in Path : pass[r].got[p] = 0
    BY <1>8 DEF ReadNote, InHand, Reading
  <2>3. \A p \in Path : p # k => pass'[r].got[p] = 0
    BY <1>0, <2>1, <2>2
  <2>4. pass'[r].pc \in Reading /\ k \in pass'[r].todo /\ \A q \in Proc \ {r} : pass'[q] = pass[q]
    BY <2>1, <2>2 DEF Moved, Reading
  <2>5. ASSUME NEW q \in Proc, NEW p \in Path, pass'[q].got[p] # 0
        PROVE  /\ pass'[q].pc \in Reading /\ p \in pass'[q].todo
               /\ \A j \in Path : pass'[q].got[j] # 0 => j = p
    <3>1. CASE q = r
      BY <2>3, <2>4, <2>5, <3>1
    <3>2. CASE q # r
      BY <2>4, <2>5, <3>2 DEF InHand
    <3> QED
      BY <3>1, <3>2
  <2> QED
    BY <2>5 DEF InHand
<1>9. ASSUME NEW r \in Proc, NEW k \in Path, ReadRows(r, k) \/ ReadFence(r, k) PROVE InHand'
  <2>1. Moved(r) /\ pass'[r].pc \in Reading /\ pass'[r].got = pass[r].got /\ pass'[r].todo = pass[r].todo
    BY <1>9, RowsSets, FenceSets DEF Reading
  <2> QED
    BY <2>1 DEF InHand, Moved
<1>10. ASSUME NEW r \in Proc, NEW k \in Path, QueueNote(r, k) PROVE InHand'
  <2>1. Moved(r) /\ pass'[r].got = [pass[r].got EXCEPT ![k] = 0]
    BY <1>10, QueueSets
  <2>2. \A p \in Path : p # k => pass[r].got[p] = 0
    BY <1>10 DEF QueueNote, InHand
  <2>3. \A p \in Path : pass'[r].got[p] = 0
    BY <1>0, <2>1, <2>2
  <2> QED
    BY <1>2, <2>1, <2>3 DEF Moved
<1>11. ASSUME NEW r \in Proc, EmbedFails(r) \/ Bump(r) \/ Crash(r) \/ (\E p \in Path : ReadGone(r, p))
       PROVE  InHand'
  BY <1>4, <1>11 DEF EmbedFails, Bump, Crash, ReadGone, Reject
<1>12. ASSUME NEW r \in Writers, NEW p \in Path, JobStep(r, p) PROVE pass' = pass
  BY <1>12 DEF JobStep, PlanNote, indexNote, Deindex
<1>13. CASE \/ \E p \in Path, live \in BOOLEAN, H \in SUBSET Writers : Change(p, live, H)
            \/ Search \/ Keep \/ Evict \/ UNCHANGED vars \/ \E r \in Proc : Promote(r)
  BY <1>1, <1>13 DEF Change, Search, Keep, Evict, Promote, vars
<1> QED
  BY <1>1, <1>5, <1>6, <1>7, <1>8, <1>9, <1>10, <1>11, <1>12, <1>13 DEF Next, Step

LEMMA PassesMove ==
  ASSUME TypeOK, InHand, [Next]_vars
  PROVE  \A q \in Proc, p \in Path : PassMoves(q, p)
<1>0. /\ \A q \in Proc : pass[q] \in Pass
      /\ \A p \in Path : NoPass.asOf[p] = 0 /\ NoPass.base[p] = 0 /\ NoPass.plans[p] = NoPlan
                         /\ NoPass.got[p] = 0
      /\ \A p \in Path : Of(0)[p] = 0 /\ Of(NoPlan)[p] = NoPlan
  BY DEF TypeOK, NoPass, Of
<1>1. CASE pass' = pass
  BY <1>1 DEF PassMoves
<1>2. ASSUME NEW r \in Proc, pass' = [pass EXCEPT ![r] = NoPass] PROVE \A q \in Proc, p \in Path : PassMoves(q, p)
  BY <1>0, <1>2 DEF PassMoves, TypeOK
<1>3. ASSUME NEW r \in Proc, NEW e \in 0 .. epoch, Begin(r, e) PROVE \A q \in Proc, p \in Path : PassMoves(q, p)
  <2>1. /\ \A q \in Proc \ {r} : pass'[q] = pass[q]
        /\ \A p \in Path : /\ pass'[r].asOf[p] \in {0, disk[p].ver}
                           /\ pass'[r].base[p] = 0 /\ pass'[r].plans[p] = NoPlan
                           /\ pass'[r].got[p] = 0
    BY <1>0, <1>3 DEF Begin, TypeOK, NoPass
  <2> QED
    BY <1>3, <2>1 DEF PassMoves, Begin
<1>4. ASSUME NEW r \in Proc, Load(r) PROVE \A q \in Proc, p \in Path : PassMoves(q, p)
  <2>1. /\ \A q \in Proc \ {r} : pass'[q] = pass[q]
        /\ pass'[r].asOf = pass[r].asOf /\ pass'[r].plans = pass[r].plans
        /\ \A p \in Path : pass'[r].base[p] \in {0, fence[p]} /\ pass'[r].got[p] = 0
    <3>1. pass'[r].base = [p \in Path |-> IF p \in pass[r].todo THEN fence[p] ELSE 0]
      BY <1>4, LoadSets
    <3>2. \A p \in Path : pass'[r].base[p] \in {0, fence[p]}
      BY <3>1
    <3>3. \A q \in Proc \ {r} : pass'[q] = pass[q]
      BY <1>4, LoadSets
    <3>4. pass'[r].asOf = pass[r].asOf /\ pass'[r].plans = pass[r].plans
      BY <1>4, LoadSets
    <3>5. \A p \in Path : pass'[r].got[p] = 0
      <4>1. pass'[r].got = pass[r].got /\ pass[r].pc \notin Reading
        BY <1>4, LoadSets DEF Load, Reading
      <4> QED
        BY <4>1 DEF InHand
    <3> QED
      BY <3>2, <3>3, <3>4, <3>5
  <2>2. UNCHANGED <<disk, fence, high>>
    BY <1>4 DEF Load, db
  <2>3. ASSUME NEW q \in Proc, NEW p \in Path, q # r PROVE PassMoves(q, p)
    BY <2>1, <2>3 DEF PassMoves
  <2>4. ASSUME NEW p \in Path PROVE PassMoves(r, p)
    BY <2>1, <2>2 DEF PassMoves
  <2> QED
    BY <2>3, <2>4
<1>5. ASSUME NEW r \in Proc, NEW k \in Path, Reads(r, k) PROVE \A q \in Proc, p \in Path : PassMoves(q, p)
  <2>0. /\ UNCHANGED <<disk, fence, high>> /\ \A q \in Proc \ {r} : pass'[q] = pass[q]
        /\ pass'[r].asOf = pass[r].asOf
    BY <1>5, ReadsSet DEF Moved, Keeps, db
  <2>1. /\ pass[r].got \in [Path -> Ver] /\ pass[r].base \in [Path -> Nat] /\ pass[r].plans \in [Path -> Plan]
    BY <1>0, PassParts
  <2>2. ASSUME NEW p \in Path PROVE PassMoves(r, p)
    <3>1. CASE ReadNote(r, k)
      <4>1. /\ pass'[r].got = [pass[r].got EXCEPT ![k] = disk[k].ver]
            /\ pass'[r].base = pass[r].base /\ pass'[r].plans = pass[r].plans
        BY <3>1, NoteSets
      <4> QED
        BY <2>0, <2>1, <4>1 DEF PassMoves
    <3>2. CASE ReadRows(r, k)
      <4>1. /\ pass'[r].got = pass[r].got
            /\ pass'[r].base = pass[r].base /\ pass'[r].plans = pass[r].plans
        BY <3>2, RowsSets
      <4> QED
        BY <2>0, <2>1, <4>1 DEF PassMoves
    <3>3. CASE ReadFence(r, k)
      <4>1. /\ pass'[r].got = pass[r].got
            /\ pass'[r].base = pass[r].base /\ pass'[r].plans = [pass[r].plans EXCEPT ![k] = PlanMade(r, k)]
        BY <3>3, FenceSets
      <4>2. pass[r].got[k] # 0
        BY <3>3 DEF ReadFence
      <4>3. PlanMade(r, k) \in {PlanOf(r, k), pass[r].plans[k]}
        BY DEF PlanMade
      <4> QED
        BY <2>0, <2>1, <4>1, <4>2, <4>3 DEF PassMoves
    <3>4. CASE QueueNote(r, k)
      <4>1. /\ pass'[r].got = [pass[r].got EXCEPT ![k] = 0]
            /\ pass'[r].base = [pass[r].base EXCEPT ![k] = 0] /\ pass'[r].plans = pass[r].plans
        BY <3>4, QueueSets
      <4> QED
        BY <2>0, <2>1, <4>1 DEF PassMoves
    <3> QED
      BY <1>5, <3>1, <3>2, <3>3, <3>4 DEF Reads
  <2> QED
    BY <2>0, <2>2 DEF PassMoves
<1>6. ASSUME NEW r \in Proc, NEW t \in Pass, pass' = [pass EXCEPT ![r] = t],
             t.base = pass[r].base, t.got = pass[r].got, t.asOf \in {pass[r].asOf, Of(0)}, t.plans \in {pass[r].plans, Of(NoPlan)}
      PROVE  \A q \in Proc, p \in Path : PassMoves(q, p)
  BY <1>0, <1>6 DEF PassMoves, TypeOK
<1>7. ASSUME NEW r \in Proc, FlushNotes(r) \/ Full(r) \/ Sweep(r) PROVE \A q \in Proc, p \in Path : PassMoves(q, p)
  <2>1. pass' = [pass EXCEPT ![r] = pass'[r]]
    BY <1>7 DEF FlushNotes, Full, Sweep, TypeOK
  <2>2. pass'[r] \in Pass
    BY TypeStep DEF TypeOK
  <2>3. CASE FlushNotes(r) \/ Full(r)
    BY <1>6, <2>2, <2>3, FlushSets
  <2>4. CASE Sweep(r)
    BY <1>6, <2>2, <2>4, SweepSets
  <2> QED
    BY <1>7, <2>3, <2>4
<1>8. ASSUME NEW r \in Proc, NEW S \in SUBSET Path, CommitBatch(r, S) \/ Demote(r, S)
      PROVE \A q \in Proc, p \in Path : PassMoves(q, p)
  <2>1. pass' = [pass EXCEPT ![r] = pass'[r]]
    BY <1>8 DEF CommitBatch, Demote, TypeOK
  <2>2. pass'[r] \in Pass
    BY TypeStep DEF TypeOK
  <2>3. CASE CommitBatch(r, S)
    BY <1>6, <2>2, <2>3, CommitSets
  <2>4. CASE Demote(r, S)
    <3>1. pass' = [pass EXCEPT ![r] = [pass[r] EXCEPT !.aborted = @ \/ pass[r].e # Unfenced]]
      BY <2>4 DEF Demote
    <3>2. /\ pass'[r].base = pass[r].base /\ pass'[r].got = pass[r].got
          /\ pass'[r].asOf = pass[r].asOf /\ pass'[r].plans = pass[r].plans
      BY <1>0, <3>1 DEF TypeOK, Pass
    <3> QED
      BY <1>6, <2>1, <2>2, <3>2
  <2> QED
    BY <1>8, <2>3, <2>4
<1>9. ASSUME NEW r \in Proc, EmbedFails(r) \/ Bump(r) \/ Crash(r) \/ (\E p \in Path : ReadGone(r, p))
      PROVE  \A q \in Proc, p \in Path : PassMoves(q, p)
  BY <1>2, <1>9 DEF EmbedFails, Bump, Crash, ReadGone, Reject
<1>10. ASSUME NEW r \in Proc, Promote(r) PROVE \A q \in Proc, p \in Path : PassMoves(q, p)
  BY <1>1, <1>10 DEF Promote
<1>11. ASSUME NEW r \in Writers, NEW p \in Path, JobStep(r, p) PROVE pass' = pass
  BY <1>11 DEF JobStep, PlanNote, indexNote, Deindex
<1>12. CASE \/ \E p \in Path, live \in BOOLEAN, H \in SUBSET Writers : Change(p, live, H)
            \/ Search \/ Keep \/ Evict \/ UNCHANGED vars
  BY <1>1, <1>12 DEF Change, Search, Keep, Evict, vars
<1> QED
  BY <1>1, <1>3, <1>4, <1>5, <1>7, <1>8, <1>9, <1>10, <1>11, <1>12 DEF Next, Step, Reads

\* The fence of a note only moves forward, and whatever is indexed or removed moves it.
LEMMA FenceMoves ==
  ASSUME TypeOK, [Next]_vars
  PROVE  \A p \in Path : fence'[p] >= fence[p] /\ (fence'[p] = fence[p] => high'[p] = high[p])
<1>0. \A p \in Path : fence[p] \in Nat
  BY Numbers
<1>1. CASE UNCHANGED <<fence, high>>
  BY <1>0, <1>1
<1>2. ASSUME NEW r \in Writers, NEW k \in Path, indexNote(r, k)
      PROVE  \A p \in Path : fence'[p] >= fence[p] /\ (fence'[p] = fence[p] => high'[p] = high[p])
  <2>1. CASE UNCHANGED <<db, high>>
    BY <1>1, <2>1 DEF db
  <2>2. CASE /\ fence' = [fence EXCEPT ![k] = @ + 1]
             /\ high' = [high EXCEPT ![k] = Newer(k, op[r][k].job.ver)]
    BY <1>0, <2>2 DEF TypeOK
  <2> QED
    BY <1>2, <2>1, <2>2 DEF indexNote
<1>3. ASSUME NEW S, NEW ver, deindexNote(S, ver)
      PROVE  \A p \in Path : fence'[p] >= fence[p] /\ (fence'[p] = fence[p] => high'[p] = high[p])
  BY <1>0, <1>3 DEF deindexNote
<1>4. ASSUME NEW r \in Proc, NEW S \in SUBSET Path, CommitBatch(r, S)
      PROVE  \A p \in Path : fence'[p] >= fence[p] /\ (fence'[p] = fence[p] => high'[p] = high[p])
  BY <1>0, <1>4 DEF CommitBatch
<1>5. ASSUME NEW r \in Proc, FlushNotes(r)
      PROVE  \A p \in Path : fence'[p] >= fence[p] /\ (fence'[p] = fence[p] => high'[p] = high[p])
  BY <1>0, <1>5 DEF FlushNotes
<1>6. ASSUME NEW r \in Proc, \/ Load(r) \/ Full(r) \/ Bump(r) \/ EmbedFails(r) \/ Promote(r) \/ Crash(r)
                             \/ (\E p \in Path : Reads(r, p) \/ ReadGone(r, p))
                             \/ (\E e \in 0 .. epoch : Begin(r, e)) \/ (\E S \in SUBSET Path : Demote(r, S))
      PROVE  UNCHANGED <<fence, high>>
  BY <1>6, ReadsSet DEF Load, Full, Bump, EmbedFails, Promote, Crash, ReadGone, Begin, Demote, db
<1>7. CASE \/ \E p \in Path, live \in BOOLEAN, H \in SUBSET Writers : Change(p, live, H)
           \/ \E q \in Writers, p \in Path : PlanNote(q, p)
           \/ Search \/ Keep \/ Evict \/ UNCHANGED vars
  BY <1>1, <1>7 DEF Change, PlanNote, Search, Keep, Evict, vars, db
<1>8. ASSUME NEW r \in Writers, NEW p \in Path, Deindex(r, p) PROVE \E S, ver : deindexNote(S, ver)
  BY <1>8 DEF Deindex
<1>9. ASSUME NEW r \in Proc, Sweep(r) PROVE \E S, ver : deindexNote(S, ver)
  BY <1>9 DEF Sweep
<1> QED
  BY <1>1, <1>2, <1>3, <1>4, <1>5, <1>6, <1>7, <1>8, <1>9 DEF Next, Step, JobStep, Reads

\* Events are numbered upwards.
LEMMA DiskMoves ==
  ASSUME TypeOK, [Next]_vars
  PROVE  \A p \in Path : /\ disk'[p].ver >= disk[p].ver
                         /\ disk'[p] # disk[p] => disk'[p].ver # 0
<1>1. CASE UNCHANGED disk
  BY <1>1, Numbers
<1>2. ASSUME NEW k \in Path, NEW live \in BOOLEAN, NEW H \in SUBSET Writers, Change(k, live, H)
      PROVE  \A p \in Path : disk'[p].ver >= disk[p].ver /\ (disk'[p] # disk[p] => disk'[p].ver # 0)
  BY <1>2, Numbers DEF Change, TypeOK
<1>3. CASE Search \/ Keep \/ Evict \/ UNCHANGED vars
  BY <1>1, <1>3 DEF Search, Keep, Evict, vars
<1>4. ASSUME NEW r \in Writers, NEW p \in Path, JobStep(r, p) PROVE UNCHANGED disk
  BY <1>4 DEF JobStep, PlanNote, indexNote, Deindex
<1>5. ASSUME NEW r \in Proc, Step(r) PROVE UNCHANGED disk
  BY <1>5, ReadsSet DEF Step, Load, Full, FlushNotes, Sweep, Bump, Reads, ReadGone, CommitBatch
<1>6. ASSUME NEW r \in Proc, \/ EmbedFails(r) \/ Promote(r) \/ Crash(r)
                             \/ (\E e \in 0 .. epoch : Begin(r, e))
                             \/ (\E S \in SUBSET Path : Demote(r, S) \/ CommitBatch(r, S))
      PROVE  UNCHANGED disk
  BY <1>6 DEF EmbedFails, Promote, Crash, Begin, Demote, CommitBatch
<1> QED
  BY <1>1, <1>2, <1>3, <1>4, <1>5, <1>6 DEF Next

LEMMA OpsStep ==
  ASSUME TypeOK, OpsBehind, [Next]_vars
  PROVE  OpsBehind'
<1>0. /\ \A p \in Path : disk[p].ver \in Nat /\ disk'[p].ver \in Nat /\ disk'[p].ver >= disk[p].ver
      /\ None.ver = 0 /\ NoJob.ver = 0 /\ \A p \in Path : Of(NoOp)[p] = NoOp
      /\ NoOp.want.ver = 0 /\ NoOp.job.ver = 0
      /\ \A q \in Writers, p \in Path : op[q][p].want.ver \in Nat /\ op[q][p].job.ver \in Nat
  <2>1. TypeOK'
    BY TypeStep
  <2>2. \A p \in Path : disk'[p].ver \in Nat
    BY <2>1, NoteIndexAssumption DEF TypeOK, File, Ver
  <2> QED
    BY <2>2, Numbers, DiskMoves DEF None, NoJob, NoOp, Of
<1>1. CASE UNCHANGED op
  BY <1>0, <1>1 DEF OpsBehind
<1>2. ASSUME NEW k \in Path, NEW live \in BOOLEAN, NEW H \in SUBSET Writers, Change(k, live, H) PROVE OpsBehind'
  <2>1. disk'[k].ver = disk[k].ver + 1
    BY <1>2 DEF Change, TypeOK
  <2>2. ASSUME NEW q \in Writers, NEW p \in Path
        PROVE  op'[q][p].job = op[q][p].job /\ (op'[q][p].want = op[q][p].want \/ op'[q][p].want = disk'[p])
    <3>1. op[q][p] \in Op /\ op[q] \in [Path -> Op]
      BY DEF TypeOK
    <3> QED
      BY <1>2, <3>1 DEF Change, TypeOK, Op
  <2> QED
    BY <1>0, <2>2 DEF OpsBehind
<1>3. ASSUME NEW r \in Writers, NEW k \in Path, JobStep(r, k) PROVE OpsBehind'
  <2>0. op[r][k] \in Op /\ op[r] \in [Path -> Op] /\ op \in [Writers -> [Path -> Op]] /\ UNCHANGED disk
    BY <1>3 DEF TypeOK, JobStep, PlanNote, indexNote, Deindex
  <2>1. op' = [op EXCEPT ![r][k] = op'[r][k]]
    BY <1>3, <2>0 DEF JobStep, PlanNote, indexNote, Deindex
  <2>2. /\ op'[r][k].want.ver \in {op[r][k].want.ver, 0}
        /\ op'[r][k].job.ver \in {op[r][k].want.ver, op[r][k].job.ver, 0}
    <3>1. CASE PlanNote(r, k)
      BY <1>0, <2>0, <3>1 DEF PlanNote
    <3>2. CASE indexNote(r, k)
      BY <1>0, <2>0, <3>2 DEF indexNote, Op
    <3>3. CASE Deindex(r, k)
      BY <1>0, <2>0, <3>3 DEF Deindex
    <3> QED
      BY <1>3, <3>1, <3>2, <3>3 DEF JobStep
  <2> QED
    BY <1>0, <2>0, <2>1, <2>2 DEF OpsBehind
<1>4. ASSUME NEW r \in Proc, (\E S \in SUBSET Path : Demote(r, S)) \/ Crash(r) PROVE OpsBehind'
  <2>1. ASSUME NEW q \in Writers, NEW p \in Path
        PROVE  op'[q][p].want \in {op[q][p].want, None} /\ op'[q][p].job \in {op[q][p].job, NoJob}
    <3>1. op[q][p] \in Op
      BY DEF TypeOK
    <3> QED
      <4>1. CASE Crash(r)
        BY <4>1 DEF Crash, NoOp, Of
      <4>2. ASSUME NEW S \in SUBSET Path, Demote(r, S)
            PROVE  op'[q][p] \in {op[q][p], [op[q][p] EXCEPT !.want = None]}
        BY <4>2 DEF Demote
      <4>3. [op[q][p] EXCEPT !.want = None].job = op[q][p].job /\ [op[q][p] EXCEPT !.want = None].want = None
        BY <3>1 DEF Op
      <4> QED
        BY <1>4, <4>1, <4>2, <4>3
  <2> QED
    BY <1>0, <2>1 DEF OpsBehind
<1>5. CASE Search \/ Keep \/ Evict \/ UNCHANGED vars
  BY <1>1, <1>5 DEF Search, Keep, Evict, vars
<1>6. ASSUME NEW r \in Proc, Step(r) PROVE UNCHANGED op
  BY <1>6, ReadsSet DEF Step, Load, Full, FlushNotes, Sweep, Bump, Reads, ReadGone, CommitBatch
<1>7. ASSUME NEW r \in Proc, \/ EmbedFails(r) \/ Promote(r)
                             \/ (\E e \in 0 .. epoch : Begin(r, e))
                             \/ (\E S \in SUBSET Path : CommitBatch(r, S))
      PROVE  UNCHANGED op
  BY <1>7 DEF EmbedFails, Promote, Begin, CommitBatch
<1> QED
  BY <1>1, <1>2, <1>3, <1>4, <1>5, <1>6, <1>7 DEF Next

LEMMA BehindStep ==
  ASSUME TypeOK, InHand, Behind, [Next]_vars
  PROVE  Behind'
<1>t. TypeOK'
  BY TypeStep
<1>0. /\ \A p \in Path : /\ disk[p].ver \in Nat /\ disk'[p].ver \in Nat /\ disk'[p].ver >= disk[p].ver
                         /\ high[p] \in Nat /\ fence[p] \in Nat
      /\ NoPlan.ver = 0
      /\ \A q \in Proc, p \in Path : pass[q].asOf[p] \in Nat /\ pass[q].plans[p].ver \in Nat
                                       /\ pass[q].got[p] \in Nat
  <2>1. TypeOK'
    BY TypeStep
  <2>2. \A p \in Path : disk'[p].ver \in Nat
    BY <2>1, NoteIndexAssumption DEF TypeOK, File, Ver
  <2> QED
    BY <2>2, Numbers, DiskMoves DEF NoPlan
<1>1. OpsBehind'
  BY OpsStep DEF Behind
<1>2. ASSUME NEW p \in Path PROVE disk'[p].live => disk'[p].ver # 0
  BY DiskMoves DEF Behind
<1>3. ASSUME NEW q \in Proc, NEW p \in Path
      PROVE  /\ pass'[q].asOf[p] <= disk'[p].ver /\ pass'[q].plans[p].ver <= disk'[p].ver
             /\ pass'[q].got[p] <= disk'[p].ver
  <2>1. PassMoves(q, p)
    BY PassesMove
  <2>2. /\ pass[q].asOf[p] <= disk[p].ver /\ pass[q].plans[p].ver <= disk[p].ver
        /\ pass[q].got[p] <= disk[p].ver /\ PlanOf(q, p).ver = pass[q].got[p]
    BY DEF Behind, PlanOf
  <2>3. pass'[q].asOf[p] <= disk'[p].ver
    BY <1>0, <2>1, <2>2 DEF PassMoves
  <2>4. pass'[q].plans[p].ver <= disk'[p].ver
    BY <1>0, <2>1, <2>2 DEF PassMoves
  <2>5. pass'[q].got[p] <= disk'[p].ver
    BY <1>0, <2>1, <2>2 DEF PassMoves
  <2> QED
    BY <2>3, <2>4, <2>5
<1>4. ASSUME NEW p \in Path PROVE high'[p] <= disk'[p].ver
  <2>1. CASE UNCHANGED high
    BY <1>0, <2>1 DEF Behind
  <2>2. \A S, ver : deindexNote(S, ver) /\ (p \in S => ver[p] \in Nat /\ ver[p] <= disk[p].ver)
                      => high'[p] <= disk[p].ver
    BY <1>0 DEF deindexNote, Newer, Behind
  <2>3. ASSUME NEW r \in Writers, NEW k \in Path, indexNote(r, k) PROVE high'[p] <= disk[p].ver
    <3>1. CASE UNCHANGED high
      BY <3>1 DEF Behind
    <3>2. CASE high' = [high EXCEPT ![k] = Newer(k, op[r][k].job.ver)]
      <4>1. op[r][k].job.ver <= disk[k].ver
        BY DEF Behind, OpsBehind
      <4> QED
        BY <3>2, <4>1 DEF Newer, Behind, TypeOK
    <3> QED
      BY <2>3, <3>1, <3>2 DEF indexNote
  <2>4. ASSUME NEW r \in Writers, NEW k \in Path, Deindex(r, k) PROVE high'[p] <= disk[p].ver
    <3>1. deindexNote({k}, Of(op[r][k].want.ver)) /\ (p = k => Of(op[r][k].want.ver)[p] = op[r][p].want.ver)
      BY <2>4 DEF Deindex, Of
    <3>2. op[r][k].want.ver \in Nat /\ op[r][k].want.ver <= disk[k].ver
      BY Numbers DEF Behind, OpsBehind
    <3> QED
      BY <2>2, <3>1, <3>2
  <2>5. ASSUME NEW r \in Proc, Sweep(r) PROVE high'[p] <= disk[p].ver
    BY <1>0, <2>2, <2>5 DEF Sweep, Behind
  <2>6. ASSUME NEW r \in Proc, NEW S \in SUBSET Path, CommitBatch(r, S) PROVE high'[p] <= disk[p].ver
    BY <1>0, <2>6 DEF CommitBatch, Behind, Newer
  <2>7. ASSUME NEW r \in Proc, \/ Load(r) \/ Full(r) \/ Bump(r) \/ EmbedFails(r) \/ Promote(r) \/ Crash(r) \/ FlushNotes(r)
                               \/ (\E k \in Path : Reads(r, k) \/ ReadGone(r, k))
                               \/ (\E e \in 0 .. epoch : Begin(r, e)) \/ (\E S \in SUBSET Path : Demote(r, S))
        PROVE  UNCHANGED high
    BY <2>7, ReadsSet DEF Load, Full, FlushNotes, Bump, EmbedFails, Promote, Crash, ReadGone, Begin, Demote
  <2>8. CASE \/ \E k \in Path, live \in BOOLEAN, H \in SUBSET Writers : Change(k, live, H)
             \/ \E q \in Writers, k \in Path : PlanNote(q, k)
             \/ Search \/ Keep \/ Evict \/ UNCHANGED vars
    BY <2>1, <2>8 DEF Change, PlanNote, Search, Keep, Evict, vars
  <2>9. high'[p] <= disk[p].ver \/ high'[p] <= disk'[p].ver
    BY <2>1, <2>3, <2>4, <2>5, <2>6, <2>7, <2>8 DEF Next, Step, JobStep, Reads
  <2> QED
    <3>1. high'[p] \in Nat
      BY <1>t, NoteIndexAssumption DEF TypeOK, Ver
    <3> QED
      BY <1>0, <2>9, <3>1
<1> QED
  BY <1>1, <1>2, <1>3, <1>4 DEF Behind

-----------------------------------------------------------------------------
(* Plans behind the fence.                                                 *)

LEMMA PlansStep ==
  ASSUME TypeOK, InHand, Behind, PlansFenced, [Next]_vars
  PROVE  PlansFenced'
<1> SUFFICES ASSUME NEW q \in Proc, NEW p \in Path
             PROVE  /\ pass'[q].base[p] <= fence'[p] /\ pass'[q].plans[p].base <= fence'[p]
                    /\ pass'[q].plans[p] # NoPlan /\ pass'[q].plans[p].base = fence'[p]
                         => high'[p] <= pass'[q].plans[p].ver \/ pass'[q].plans[p].overtaken
                    /\ pass'[q].got[p] # 0 /\ pass'[q].base[p] # 0 /\ pass'[q].base[p] = fence'[p]
                         => high'[p] <= pass'[q].got[p]
  BY DEF PlansFenced
<1>1. /\ fence[p] \in Nat /\ fence'[p] \in Nat /\ NoPlan.base = 0 /\ high[p] <= disk[p].ver
      /\ pass[q].base[p] \in Nat /\ pass[q].plans[p].base \in Nat
      /\ high[p] \in Nat /\ pass[q].got[p] \in Nat
  BY TypeStep, Numbers DEF Behind, TypeOK, NoPlan
<1>2. fence'[p] >= fence[p] /\ (fence'[p] = fence[p] => high'[p] = high[p])
  BY FenceMoves
<1>3. /\ pass[q].base[p] <= fence[p] /\ pass[q].plans[p].base <= fence[p]
      /\ pass[q].plans[p] # NoPlan /\ pass[q].plans[p].base = fence[p]
           => high[p] <= pass[q].plans[p].ver \/ pass[q].plans[p].overtaken
      /\ pass[q].got[p] # 0 /\ pass[q].base[p] # 0 /\ pass[q].base[p] = fence[p]
           => high[p] <= pass[q].got[p]
  BY DEF PlansFenced
<1>4. PassMoves(q, p)
  BY PassesMove
<1>5. pass'[q].base[p] <= fence'[p]
  BY <1>1, <1>2, <1>3, <1>4 DEF PassMoves
<1>6. ASSUME pass'[q].got[p] # 0, pass'[q].base[p] # 0, pass'[q].base[p] = fence'[p]
      PROVE  high'[p] <= pass'[q].got[p]
  <2>1. CASE pass'[q].got[p] = pass[q].got[p] /\ pass'[q].base[p] = pass[q].base[p]
    BY <1>1, <1>2, <1>3, <1>6, <2>1
  <2>2. CASE pass'[q].got[p] = disk[p].ver /\ UNCHANGED <<disk, fence, high>>
    BY <1>1, <2>2
  <2> QED
    BY <1>4, <1>6, <2>1, <2>2 DEF PassMoves
<1>7. CASE pass'[q].plans[p] \in {pass[q].plans[p], NoPlan}
  BY <1>1, <1>2, <1>3, <1>5, <1>6, <1>7
<1>8. CASE UNCHANGED <<disk, fence, high>> /\ pass[q].got[p] # 0 /\ pass'[q].plans[p] = PlanOf(q, p)
  <2>1. /\ PlanOf(q, p).ver = pass[q].got[p] /\ PlanOf(q, p).base = Loaded(pass[q].base[p], fence[p])
        /\ PlanOf(q, p).overtaken = (pass[q].base[p] = 0 /\ high[p] > pass[q].got[p])
    BY DEF PlanOf
  <2>2. CASE pass[q].base[p] = 0
    <3>1. pass'[q].plans[p].base = fence[p] /\ fence'[p] = fence[p] /\ high'[p] = high[p]
      BY <1>8, <2>1, <2>2 DEF Loaded
    <3>2. high[p] <= pass'[q].plans[p].ver \/ high[p] > pass'[q].plans[p].ver
      BY <1>1, <1>8, <2>1
    <3>3. high[p] > pass'[q].plans[p].ver => pass'[q].plans[p].overtaken
      BY <1>8, <2>1, <2>2
    <3> QED
      BY <1>1, <1>5, <1>6, <3>1, <3>2, <3>3
  <2>3. CASE pass[q].base[p] # 0
    BY <1>1, <1>3, <1>5, <1>6, <1>8, <2>1, <2>3 DEF Loaded
  <2> QED
    BY <2>2, <2>3
<1> QED
  BY <1>4, <1>7, <1>8 DEF PassMoves

\* Only its batch takes a pass on from waiting for embeddings.
LEMMA OnlyBatches ==
  ASSUME TypeOK, [Next]_vars, NEW q \in Proc,
         pass[q].pc \in {"embed", "last"}, pass'[q].pc \notin {pass[q].pc, "idle"}
  PROVE  \E S \in SUBSET Path : CommitBatch(q, S)
<1>0. pass[q] \in Pass /\ pass'[q].pc # pass[q].pc /\ pass' # pass /\ pass \in [Proc -> Pass] /\ NoPass.pc = "idle"
  BY DEF TypeOK, NoPass
<1>1. ASSUME NEW r \in Proc, r # q, Step(r) \/ EmbedFails(r) \/ Crash(r)
      PROVE  pass'[q] = pass[q]
  <2>1. CASE Load(r) \/ Full(r) \/ FlushNotes(r) \/ Sweep(r)
    BY <1>0, <1>1, <2>1, LoadSets, FlushSets DEF Sweep
  <2>2. CASE Bump(r) \/ EmbedFails(r) \/ Crash(r) \/ (\E k \in Path : ReadGone(r, k))
    BY <1>0, <1>1, <2>2 DEF Bump, EmbedFails, Crash, ReadGone, Reject
  <2>3. ASSUME NEW k \in Path, Reads(r, k) PROVE pass'[q] = pass[q]
    BY <1>1, <2>3, ReadsSet DEF Moved
  <2>4. CASE CommitBatch(r, {})
    BY <1>0, <1>1, <2>4, CommitSets
  <2> QED
    BY <1>1, <2>1, <2>2, <2>3, <2>4 DEF Step, Reads
<1>2. ASSUME NEW r \in Proc, r # q, NEW S \in SUBSET Path, CommitBatch(r, S) \/ Demote(r, S)
      PROVE  pass'[q] = pass[q]
  BY <1>0, <1>2 DEF CommitBatch, Demote
<1>3. ASSUME Step(q) \/ EmbedFails(q) \/ Crash(q) PROVE \E S \in SUBSET Path : CommitBatch(q, S)
  BY <1>0, <1>3 DEF Step, Load, Full, FlushNotes, Sweep, Bump, ReadNote, ReadRows, ReadFence, QueueNote, ReadGone, EmbedFails, Crash, Reject
<1>4. ASSUME NEW S \in SUBSET Path, Demote(q, S) PROVE FALSE
  BY <1>0, <1>4 DEF Demote, Pass
<1>5. ASSUME NEW r \in Proc, NEW e \in 0 .. epoch, Begin(r, e) PROVE FALSE
  BY <1>0, <1>5 DEF Begin
<1>6. ASSUME NEW r \in Proc, Promote(r) PROVE FALSE
  BY <1>0, <1>6 DEF Promote
<1>7. ASSUME NEW r \in Writers, NEW k \in Path, JobStep(r, k) PROVE FALSE
  BY <1>0, <1>7 DEF JobStep, PlanNote, indexNote, Deindex
<1>8. CASE \/ \E k \in Path, live \in BOOLEAN, H \in SUBSET Writers : Change(k, live, H)
           \/ Search \/ Keep \/ Evict \/ UNCHANGED vars
  BY <1>0, <1>8 DEF Change, Search, Keep, Evict, vars
<1> QED
  BY <1>0, <1>1, <1>2, <1>3, <1>4, <1>5, <1>6, <1>7, <1>8 DEF Next

LEMMA BatchIsNewest ==
  ASSUME TypeOK, Behind, PlansFenced, NEW q \in Proc, NEW p \in Path, NEW S \in SUBSET Path,
         CommitBatch(q, S), chunks'[p] # chunks[p]
  PROVE  chunks'[p] >= high[p] \/ pass[q].plans[p].overtaken
<1>1. /\ chunks'[p] = pass[q].plans[p].ver
      /\ pass[q].plans[p] # NoPlan /\ pass[q].plans[p].base = fence[p]
  BY DEF CommitBatch, TypeOK, Planned, Applicable, FenceHolds
<1> QED
  BY <1>1, Numbers DEF PlansFenced

-----------------------------------------------------------------------------
(* The query cache.                                                        *)

LEMMA FreshStep ==
  ASSUME TypeOK, Fresh, [Next]_vars
  PROVE  Fresh'
<1>0. /\ pass \in [Proc -> Pass] /\ NoPass.pc = "idle" /\ NoPass.dirty = FALSE
      /\ \A q \in Proc : pass[q] \in Pass /\ pass[q].dirty \in BOOLEAN
      /\ \A q \in Proc : pass[q].pc = "idle" => ~pass[q].dirty
      /\ cache \in [Path -> Ver] \cup {NoRows} /\ owed \in BOOLEAN
  BY PassParts DEF TypeOK, NoPass, Fresh
<1> DEFINE Rows == ~Dirty /\ ~owed =>
       /\ cache # NoRows => \A p \in Path : Same(cache[p], chunks[p])
       /\ asked.key = "now" /\ asked.rows # NoRows => \A p \in Path : Same(asked.rows[p], chunks[p])
           Idle == \A q \in Proc : pass[q].pc = "idle" => ~pass[q].dirty
<1>a. Rows /\ Idle
  BY DEF Fresh
<1> SUFFICES Rows' /\ Idle'
  BY DEF Fresh
\* A step that leaves the rows, the cache and what is owed alone.
<1>1. ASSUME UNCHANGED <<chunks, cache, asked, owed>>,
             \A q \in Proc : pass'[q].dirty = pass[q].dirty
      PROVE  Rows'
  BY <1>a, <1>1 DEF Dirty
<1>2. bumpGeneration(TRUE) => Rows'
  BY DEF bumpGeneration, TypeOK
<1>3. ASSUME NEW r \in Proc, Reject(r), UNCHANGED <<chunks, cache, asked>>
      PROVE  Rows' /\ Idle'
  <2>1. /\ pass' = [pass EXCEPT ![r] = NoPass] /\ owed' = (owed \/ pass[r].dirty)
    BY <1>3 DEF Reject
  <2>2. Idle'
    BY <1>0, <2>1
  <2>3. ~Dirty' /\ ~owed' => ~Dirty /\ ~owed
    BY <1>0, <2>1 DEF Dirty
  <2> QED
    BY <1>a, <1>3, <2>2, <2>3
<1>4. ASSUME NEW S, NEW ver, deindexNote(S, ver), UNCHANGED <<pass, owed>>
      PROVE  Rows'
  <2>1. CASE \E p \in S : chunks[p] # 0
    BY <1>2, <1>4, <2>1 DEF deindexNote, bumpGeneration
  <2>2. CASE ~ \E p \in S : chunks[p] # 0
    <3>1. UNCHANGED <<cache, asked>>
      BY <1>4, <2>2 DEF deindexNote, bumpGeneration
    <3>2. UNCHANGED chunks
      BY <1>4, <2>2 DEF deindexNote, TypeOK
    <3> QED
      BY <1>1, <1>4, <3>1, <3>2
  <2> QED
    BY <2>1, <2>2
<1>5. ASSUME NEW r \in Writers, NEW k \in Path, JobStep(r, k) PROVE Rows' /\ Idle'
  <2>1. UNCHANGED <<pass, owed>> /\ Idle'
    BY <1>0, <1>5 DEF JobStep, PlanNote, indexNote, Deindex
  <2>2. CASE PlanNote(r, k)
    BY <1>1, <2>1, <2>2 DEF PlanNote, db
  <2>3. CASE indexNote(r, k)
    <3>1. CASE UNCHANGED <<chunks, cache, asked>>
      BY <1>1, <2>1, <3>1
    <3>2. CASE bumpGeneration(TRUE)
      BY <1>2, <2>1, <3>2
    <3>3. CASE UNCHANGED chunks /\ bumpGeneration(FALSE)
      BY <1>1, <2>1, <3>3 DEF bumpGeneration
    <3> QED
      BY <2>3, <3>1, <3>2, <3>3 DEF indexNote, db, bumpGeneration
  <2>4. CASE Deindex(r, k)
    BY <1>4, <2>1, <2>4 DEF Deindex
  <2> QED
    BY <1>5, <2>1, <2>2, <2>3, <2>4 DEF JobStep
<1>6. ASSUME NEW r \in Proc, NEW e \in 0 .. epoch, Begin(r, e) PROVE Rows' /\ Idle'
  <2>1. PICK s : pass' = [pass EXCEPT ![r] = s] /\ s.pc = "load" /\ s.dirty = FALSE
    <3>1. [NoPass EXCEPT !.pc = "load", !.e = e, !.walked = Live, !.todo = Live,
             !.asOf = [p \in Path |-> IF p \in Live THEN 0 ELSE disk[p].ver]].pc = "load"
      BY DEF NoPass
    <3>2. [NoPass EXCEPT !.pc = "load", !.e = e, !.walked = Live, !.todo = Live,
             !.asOf = [p \in Path |-> IF p \in Live THEN 0 ELSE disk[p].ver]].dirty = FALSE
      BY DEF NoPass
    <3> QED
      BY <1>6, <3>1, <3>2 DEF Begin
  <2>2. \A q \in Proc : pass'[q].dirty = pass[q].dirty
    BY <1>0, <1>6, <2>1 DEF Begin
  <2>3. Idle'
    BY <1>0, <2>1
  <2> QED
    BY <1>1, <1>6, <2>2, <2>3 DEF Begin, db
<1>7. ASSUME NEW r \in Proc, NEW t, pass' = [pass EXCEPT ![r] = t], t.dirty = pass[r].dirty, t.pc = "idle" => pass[r].pc = "idle"
      PROVE  Idle' /\ \A q \in Proc : pass'[q].dirty = pass[q].dirty
  BY <1>0, <1>7
<1>8. ASSUME NEW r \in Proc, Load(r) \/ Full(r) \/ (\E k \in Path : Reads(r, k)) PROVE Rows' /\ Idle'
  <2>1. CASE Load(r)
    <3>1. pass' = [pass EXCEPT ![r] = pass'[r]] /\ pass'[r].dirty = pass[r].dirty /\ pass'[r].pc # "idle"
      BY <2>1, LoadSets
    <3>2. UNCHANGED <<chunks, cache, asked, owed>>
      BY <2>1 DEF Load, db
    <3> QED
      BY <1>1, <1>7, <3>1, <3>2
  <2>2. CASE Full(r)
    BY <1>0, <1>1, <1>7, <2>2 DEF Full, db, Pass
  <2>3. ASSUME NEW k \in Path, Reads(r, k) PROVE Rows' /\ Idle'
    <3>1. /\ pass' = [pass EXCEPT ![r] = pass'[r]] /\ pass'[r].dirty = pass[r].dirty /\ pass'[r].pc # "idle"
          /\ UNCHANGED <<chunks, cache, asked, owed>>
      BY <2>3, ReadsSet DEF Moved, Keeps, Reading, db
    <3> QED
      BY <1>1, <1>7, <3>1
  <2> QED
    BY <1>8, <2>1, <2>2, <2>3
<1>9. ASSUME NEW r \in Proc, FlushNotes(r) PROVE Rows' /\ Idle'
  BY <1>0, <1>1, <1>7, <1>9 DEF FlushNotes, Pass
<1>10. ASSUME NEW r \in Proc, Sweep(r) PROVE Rows' /\ Idle'
  <2>1. Idle' /\ \A q \in Proc : pass'[q].dirty = pass[q].dirty
    BY <1>0, <1>7, <1>10 DEF Sweep, Pass
  <2>2. deindexNote(Stale(r), pass[r].asOf) /\ UNCHANGED owed
    BY <1>10 DEF Sweep
  <2>3. CASE \E p \in Stale(r) : chunks[p] # 0
    BY <1>2, <2>1, <2>2, <2>3 DEF deindexNote, bumpGeneration
  <2>4. CASE ~ \E p \in Stale(r) : chunks[p] # 0
    <3>1. UNCHANGED <<cache, asked>>
      BY <2>2, <2>4 DEF deindexNote, bumpGeneration
    <3>2. UNCHANGED chunks
      BY <2>2, <2>4 DEF deindexNote, TypeOK
    <3> QED
      BY <1>1, <2>1, <2>2, <3>1, <3>2
  <2> QED
    BY <2>1, <2>3, <2>4
<1>11. ASSUME NEW r \in Proc, NEW S \in SUBSET Path, CommitBatch(r, S) PROVE Rows' /\ Idle'
  <2>1. PICK lands \in SUBSET Path :
          /\ pass' = [pass EXCEPT ![r] =
               [pass[r] EXCEPT !.plans = Of(NoPlan), !.dirty = @ \/ lands # {},
                               !.pc = IF pass[r].pc = "embed" THEN "read" ELSE "bump"]]
          /\ chunks' = [p \in Path |-> IF p \in lands THEN pass[r].plans[p].ver ELSE chunks[p]]
    BY <1>11 DEF CommitBatch, Planned
  <2>2. /\ \A q \in Proc \ {r} : pass'[q] = pass[q]
        /\ pass'[r].dirty = (pass[r].dirty \/ lands # {}) /\ pass'[r].pc # "idle"
    BY <1>0, <2>1 DEF Pass
  <2>3. Idle'
    BY <1>0, <2>2
  <2>4. UNCHANGED <<cache, asked, owed>>
    BY <1>11 DEF CommitBatch
  <2>5. CASE lands = {}
    <3>1. UNCHANGED chunks
      BY <2>1, <2>5 DEF TypeOK
    <3>2. \A q \in Proc : pass'[q].dirty = pass[q].dirty
      BY <1>0, <2>2, <2>5
    <3> QED
      BY <1>1, <2>3, <2>4, <3>1, <3>2
  <2>6. CASE lands # {}
    BY <2>2, <2>3, <2>6 DEF Dirty
  <2> QED
    BY <2>5, <2>6
<1>12. ASSUME NEW r \in Proc, Bump(r) PROVE Rows' /\ Idle'
  <2>1. pass' = [pass EXCEPT ![r] = NoPass] /\ Idle'
    BY <1>0, <1>12 DEF Bump
  <2>2. CASE pass[r].dirty
    BY <1>2, <1>12, <2>1, <2>2 DEF Bump, bumpGeneration
  <2>3. CASE ~pass[r].dirty
    <3>1. UNCHANGED <<chunks, cache, asked, owed>>
      BY <1>12, <2>3 DEF Bump, bumpGeneration, db
    <3>2. \A q \in Proc : pass'[q].dirty = pass[q].dirty
      BY <1>0, <2>1, <2>3
    <3> QED
      BY <1>1, <2>1, <3>1, <3>2
  <2> QED
    BY <2>2, <2>3
<1>13. ASSUME NEW r \in Proc, (\E k \in Path : ReadGone(r, k)) \/ EmbedFails(r) \/ Crash(r) PROVE Rows' /\ Idle'
  BY <1>3, <1>13 DEF ReadGone, EmbedFails, Crash, db
<1>14. ASSUME NEW r \in Proc, NEW S \in SUBSET Path, Demote(r, S) PROVE Rows' /\ Idle'
  BY <1>0, <1>1, <1>7, <1>14 DEF Demote, db, Pass
<1>15. ASSUME NEW r \in Proc, Promote(r) PROVE Rows' /\ Idle'
  BY <1>a, <1>15 DEF Promote, db, Dirty
<1>16. ASSUME NEW k \in Path, NEW live \in BOOLEAN, NEW H \in SUBSET Writers, Change(k, live, H) PROVE Rows' /\ Idle'
  BY <1>a, <1>16 DEF Change, db, Dirty
<1>17. CASE UNCHANGED <<pass, chunks, owed>> /\ (Search \/ Keep \/ Evict)
  <2>1. Idle' /\ Dirty' = Dirty
    BY <1>a, <1>17 DEF Dirty
  <2>2. CASE Search
    BY <1>a, <1>17, <2>1, <2>2 DEF Search, Same
  <2>3. CASE Keep
    BY <1>a, <1>17, <2>1, <2>3 DEF Keep, Current, Unasked
  <2>4. CASE Evict
    BY <1>a, <1>17, <2>1, <2>4 DEF Evict
  <2> QED
    BY <1>17, <2>1, <2>2, <2>3, <2>4
<1>18. CASE UNCHANGED vars
  BY <1>a, <1>18 DEF vars, db, Dirty
<1> QED
  BY <1>5, <1>6, <1>8, <1>9, <1>10, <1>11, <1>12, <1>13, <1>14, <1>15, <1>16, <1>17, <1>18
  DEF Next, Step, Reads, Search, Keep, Evict, db

-----------------------------------------------------------------------------
(* A pass that nothing disturbs.                                           *)

\* A step of somebody else that leaves q in calm.
Still(q) == q \in calm /\ UNCHANGED <<disk, chunks, notes, fence, epoch>> /\ pass'[q] = pass[q]

LEMMA CalmMoves ==
  ASSUME TypeOK, [Next]_vars, NEW q \in Proc, CalmInv(q), q \in calm'
  PROVE  \/ Still(q)
         \/ q \in calm /\ \/ Load(q) \/ Full(q) \/ FlushNotes(q) \/ Sweep(q) \/ CommitBatch(q, {})
                          \/ \E p \in Path : Reads(q, p)
         \/ \E e \in 0 .. epoch : Begin(q, e) /\ e \in {Unfenced, epoch}
<1>0. pass \in [Proc -> Pass] /\ calm \subseteq Proc /\ (q \in calm => pass[q].pc # "idle")
  BY DEF TypeOK, CalmInv
<1>1. ASSUME NEW p \in Path, NEW live \in BOOLEAN, NEW H \in SUBSET Writers, Change(p, live, H) PROVE FALSE
  BY <1>1 DEF Change
<1>2. ASSUME NEW r \in Writers, NEW p \in Path, JobStep(r, p) PROVE Still(q)
  <2>1. CASE PlanNote(r, p)
    BY <2>1 DEF PlanNote, Still, db
  <2>2. CASE Deindex(r, p)
    BY <2>2 DEF Deindex
  <2>3. CASE indexNote(r, p)
    BY <2>3 DEF indexNote, Still, db
  <2> QED
    BY <1>2, <2>1, <2>2, <2>3 DEF JobStep
<1>3. ASSUME NEW r \in Proc, NEW e \in 0 .. epoch, Begin(r, e)
      PROVE  Still(q) \/ (r = q /\ e \in {Unfenced, epoch})
  <2>1. CASE r = q
    BY <1>0, <1>3, <2>1 DEF Begin
  <2>2. CASE r # q
    BY <1>0, <1>3, <2>2 DEF Begin, Still, db
  <2> QED
    BY <2>1, <2>2
<1>4. ASSUME NEW r \in Proc, r # q, Load(r) \/ Full(r) \/ (\E p \in Path : Reads(r, p)) PROVE Still(q)
  <2>1. pass'[q] = pass[q]
    <3>1. CASE Load(r) \/ Full(r)
      BY <1>4, <3>1, LoadSets, FlushSets
    <3>2. ASSUME NEW p \in Path, Reads(r, p) PROVE pass'[q] = pass[q]
      BY <1>4, <3>2, ReadsSet DEF Moved
    <3> QED
      BY <1>4, <3>1, <3>2
  <2>2. UNCHANGED <<disk, db, epoch, calm>>
    BY <1>4, ReadsSet DEF Load, Full
  <2> QED
    BY <2>1, <2>2 DEF Still, db
<1>5. ASSUME NEW r \in Proc, FlushNotes(r) \/ Sweep(r) \/ (\E S \in SUBSET Path : CommitBatch(r, S))
      PROVE  r = q /\ q \in calm
  <2>1. calm' \in {calm \cap {r}, {}}
    <3>1. CASE FlushNotes(r)
      BY <3>1 DEF FlushNotes
    <3>2. CASE Sweep(r)
      BY <3>2 DEF Sweep
    <3>3. ASSUME NEW S \in SUBSET Path, CommitBatch(r, S) PROVE calm' \in {calm \cap {r}, {}}
      BY <3>3 DEF CommitBatch
    <3> QED
      BY <1>5, <3>1, <3>2, <3>3
  <2> QED
    BY <2>1
<1>6. ASSUME NEW S \in SUBSET Path, CommitBatch(q, S) PROVE S = {}
  BY <1>6 DEF CommitBatch
<1>7. ASSUME NEW r \in Proc, \/ EmbedFails(r) \/ Crash(r) \/ Bump(r) \/ (\E p \in Path : ReadGone(r, p))
                             \/ (\E S \in SUBSET Path : Demote(r, S))
      PROVE  Still(q)
  BY <1>0, <1>7 DEF EmbedFails, Crash, Bump, ReadGone, Reject, Demote, Still, db
<1>8. ASSUME NEW r \in Proc, Promote(r) PROVE FALSE
  BY <1>8 DEF Promote
<1>9. CASE Search \/ Keep \/ Evict \/ UNCHANGED vars
  BY <1>9 DEF Search, Keep, Evict, vars, Still, db
<1>10. ASSUME Load(q) \/ Full(q) \/ (\E p \in Path : Reads(q, p)) PROVE q \in calm
  BY <1>10, ReadsSet DEF Load, Full
<1> QED
  BY <1>1, <1>2, <1>3, <1>4, <1>5, <1>6, <1>7, <1>8, <1>9, <1>10 DEF Next, Step, Reads

LEMMA StillCalm ==
  ASSUME NEW q \in Proc, CalmInv(q), Still(q)
  PROVE  CalmInv(q)'
BY DEF CalmInv, Still, CalmReading, Ready, CalmLast, NotesDone, ChunksDone, RecHeals, PlanHeals, Untouched,
       Matches, Live

LEMMA BeginCalm ==
  ASSUME TypeOK, NEW q \in Proc, NEW e \in {Unfenced, epoch}, Begin(q, e)
  PROVE  CalmInv(q)'
<1>1. UNCHANGED <<epoch, disk>>
  BY DEF Begin
<1>2. PICK f : pass' = [pass EXCEPT ![q] = [NoPass EXCEPT !.pc = "load", !.e = e, !.walked = Live, !.todo = Live, !.asOf = f]]
  BY DEF Begin
<1>3. /\ pass'[q].pc = "load" /\ pass'[q].e = e /\ pass'[q].aborted = FALSE
      /\ pass'[q].walked = Live /\ pass'[q].todo = Live
      /\ pass'[q].recs = Of(NoRec) /\ pass'[q].plans = Of(NoPlan)
  BY <1>2 DEF NoPass, TypeOK
<1>4. \A p \in Path : Untouched(q, p)'
  BY <1>3 DEF Untouched, Of
<1>5. Live' = Live
  BY <1>1 DEF Live
<1> QED
  BY <1>1, <1>3, <1>4, <1>5 DEF CalmInv, Reading

LEMMA LoadCalm ==
  ASSUME TypeOK, InHand, NEW q \in Proc, CalmInv(q), q \in calm, Load(q)
  PROVE  CalmInv(q)'
<1>1. UNCHANGED <<epoch, disk, chunks, notes, fence>>
  BY DEF Load, db
<1>2. pass[q] \in Pass /\ pass \in [Proc -> Pass]
  BY DEF TypeOK
<1>3. /\ pass'[q].pc = "read" /\ pass'[q].e = pass[q].e /\ pass'[q].aborted = pass[q].aborted
      /\ pass'[q].walked = pass[q].walked /\ pass'[q].todo = pass[q].todo
      /\ pass'[q].recs = pass[q].recs /\ pass'[q].plans = pass[q].plans
      /\ pass'[q].got = pass[q].got
      /\ \A p \in pass[q].todo : pass'[q].ex[p] = chunks[p] /\ pass'[q].base[p] = fence[p]
  BY <1>2 DEF Load, Pass
<1>4. Live' = Live
  BY <1>1 DEF Live
<1>5. pass[q].walked = Live /\ pass[q].todo = Live /\ \A p \in Path : Untouched(q, p)
  BY DEF CalmInv, Load
<1>6. \A p \in Path : Untouched(q, p)'
  BY <1>3, <1>5 DEF Untouched
<1>7. CalmReading(q)'
  <2>1. \A p \in Path : pass[q].got[p] = 0
    BY DEF Load, InHand, Reading
  <2>2. \A p \in pass[q].todo : Ready(q, p)'
    BY <1>2, <1>3, <1>1, <1>6, <2>1, PassParts DEF Ready, Untouched
  <2> QED
    BY <1>1, <1>2, <1>3, <1>4, <1>5, <1>6, <2>2, PassParts DEF CalmReading
<1>8. ~pass[q].aborted /\ pass[q].e \in {Unfenced, epoch}
  BY DEF CalmInv
<1> QED
  BY <1>1, <1>3, <1>7, <1>8 DEF CalmInv, Reading

LEMMA FullCalm ==
  ASSUME TypeOK, NEW q \in Proc, CalmInv(q), q \in calm, Full(q)
  PROVE  CalmInv(q)'
<1>1. UNCHANGED <<epoch, disk, chunks, notes, fence>>
  BY DEF Full, db
<1>2. pass[q] \in Pass /\ pass \in [Proc -> Pass]
  BY DEF TypeOK
<1>3. /\ pass'[q].pc = "embed" /\ pass'[q].e = pass[q].e /\ pass'[q].aborted = pass[q].aborted
      /\ pass'[q].walked = pass[q].walked /\ pass'[q].todo = pass[q].todo
      /\ pass'[q].recs = pass[q].recs /\ pass'[q].plans = pass[q].plans
      /\ pass'[q].ex = pass[q].ex /\ pass'[q].base = pass[q].base /\ pass'[q].got = pass[q].got
  BY <1>2 DEF Full, Pass
<1>4. CalmReading(q) /\ ~pass[q].aborted /\ pass[q].e \in {Unfenced, epoch}
  BY DEF CalmInv, Full
<1>5. Live' = Live
  BY <1>1 DEF Live
<1>6. CalmReading(q)'
  BY <1>1, <1>3, <1>4, <1>5 DEF Full, CalmReading, Ready, Untouched, NotesDone, ChunksDone, RecHeals, PlanHeals
<1> QED
  BY <1>1, <1>3, <1>4, <1>6 DEF CalmInv, Reading

\* The steps that read the note p leave the other notes of the pass as they are.
LEMMA Elsewhere ==
  ASSUME TypeOK, InHand, NEW q \in Proc, CalmReading(q), NEW p \in Path, Reads(q, p), NEW k \in Path, k # p
  PROVE  /\ k \in pass'[q].todo => Ready(q, k)'
         /\ k \in Live \ pass'[q].todo => NotesDone(q, k)' /\ ChunksDone(q, k)'
         /\ k \notin Live => Untouched(q, k)'
<1> DEFINE s == pass[q]
           t == pass'[q]
<1>1. UNCHANGED <<disk, chunks, notes, fence>>
  BY ReadsSet DEF db
<1>2. s \in Pass
  BY DEF TypeOK
<1>3. s.got[k] = 0
  <2>1. CASE ReadNote(q, p)
    BY <2>1 DEF ReadNote, InHand, Reading
  <2>2. CASE ReadRows(q, p) \/ ReadFence(q, p) \/ QueueNote(q, p)
    BY <2>2 DEF ReadRows, ReadFence, QueueNote, InHand
  <2> QED
    BY <2>1, <2>2 DEF Reads
<1>4. /\ t.recs[k] = s.recs[k] /\ t.plans[k] = s.plans[k] /\ t.got[k] = s.got[k]
      /\ t.ex[k] = s.ex[k] /\ t.base[k] = s.base[k] /\ (k \in t.todo <=> k \in s.todo)
  <2>1. /\ s.recs \in [Path -> Rec] /\ s.plans \in [Path -> Plan] /\ s.got \in [Path -> Ver]
        /\ s.ex \in [Path -> Ver] /\ s.base \in [Path -> Nat]
    BY <1>2, PassParts
  <2>2. CASE ReadNote(q, p)
    BY <2>1, <2>2, NoteSets
  <2>3. CASE ReadRows(q, p)
    <3>1. /\ t.todo = s.todo /\ t.got = s.got /\ t.base = s.base /\ t.recs = s.recs /\ t.plans = s.plans
          /\ t.ex = [s.ex EXCEPT ![p] = Loaded(s.ex[p], chunks[p])]
      BY <2>3, RowsSets
    <3> QED
      BY <2>1, <3>1
  <2>4. CASE ReadFence(q, p)
    BY <2>1, <2>4, FenceSets
  <2>5. CASE QueueNote(q, p)
    <3>1. /\ t.todo = s.todo \ {p} /\ t.got = [s.got EXCEPT ![p] = 0] /\ t.ex = [s.ex EXCEPT ![p] = 0]
          /\ t.base = [s.base EXCEPT ![p] = 0] /\ t.recs = [s.recs EXCEPT ![p] = RecMade(q, p)]
          /\ t.plans = s.plans
      BY <2>5, QueueSets
    <3> QED
      BY <2>1, <3>1
  <2> QED
    BY <2>2, <2>3, <2>4, <2>5 DEF Reads
<1> HIDE DEF s, t
<1>5. /\ k \in s.todo => Ready(q, k)
      /\ k \in Live \ s.todo => NotesDone(q, k) /\ ChunksDone(q, k)
      /\ k \notin Live => Untouched(q, k)
  BY DEF CalmReading, s
<1>6. ASSUME k \in s.todo PROVE Ready(q, k)'
  BY <1>1, <1>3, <1>4, <1>5, <1>6 DEF Ready, s, t
<1>7. ASSUME k \in Live \ s.todo PROVE NotesDone(q, k)' /\ ChunksDone(q, k)'
  BY <1>1, <1>4, <1>5, <1>7 DEF NotesDone, ChunksDone, RecHeals, PlanHeals, s, t
<1>8. ASSUME k \notin Live PROVE Untouched(q, k)'
  BY <1>4, <1>5, <1>8 DEF Untouched, s, t
<1> QED
  BY <1>4, <1>6, <1>7, <1>8 DEF t

\* What such a step of a calm pass must show of the note that it reads.
LEMMA ReadsCalm ==
  ASSUME TypeOK, InHand, NEW q \in Proc, CalmInv(q), q \in calm, NEW p \in Path, Reads(q, p),
         p \in Live, pass'[q].todo \subseteq pass[q].todo,
         p \in pass'[q].todo => Ready(q, p)',
         p \notin pass'[q].todo => NotesDone(q, p)' /\ ChunksDone(q, p)'
  PROVE  CalmInv(q)'
<1>1. /\ UNCHANGED <<disk, epoch>> /\ Keeps(pass[q], pass'[q])
      /\ pass[q].pc \in {"read"} \cup Reading /\ pass'[q].pc \in {"read"} \cup Reading
  BY ReadsSet
<1>2. CalmReading(q) /\ ~pass[q].aborted /\ pass[q].e \in {Unfenced, epoch}
  BY <1>1 DEF CalmInv
<1>3. Live' = Live
  BY <1>1 DEF Live
<1>4. pass'[q].walked = Live /\ pass'[q].todo \subseteq Live
  BY <1>1, <1>2 DEF Keeps, CalmReading
<1>5. ASSUME NEW k \in Path
      PROVE  /\ k \in pass'[q].todo => Ready(q, k)'
             /\ k \in Live \ pass'[q].todo => NotesDone(q, k)' /\ ChunksDone(q, k)'
             /\ k \notin Live => Untouched(q, k)'
  <2>1. CASE k = p
    BY <2>1
  <2>2. CASE k # p
    BY <1>2, <2>2, Elsewhere
  <2> QED
    BY <2>1, <2>2
<1>6. CalmReading(q)'
  BY <1>3, <1>4, <1>5 DEF CalmReading
<1> QED
  BY <1>1, <1>2, <1>6 DEF CalmInv, Keeps, Reading

\* What a calm pass has in hand while it reads a note.
LEMMA InHandCalm ==
  ASSUME TypeOK, Behind, InHand, NEW q \in Proc, CalmInv(q), q \in calm, NEW p \in Path, Reads(q, p)
  PROVE  /\ UNCHANGED <<disk, chunks, notes, fence>> /\ pass[q] \in Pass
         /\ p \in Live /\ disk[p].ver # 0 /\ p \in pass[q].todo /\ Ready(q, p)
         /\ ~ReadNote(q, p) => pass[q].got[p] = disk[p].ver
<1>1. pass[q].pc \in {"read"} \cup Reading /\ UNCHANGED <<disk, chunks, notes, fence>> /\ pass[q] \in Pass
  BY ReadsSet DEF TypeOK, db
<1>2. CalmReading(q)
  BY <1>1 DEF CalmInv
<1>3. p \in pass[q].todo /\ (~ReadNote(q, p) => pass[q].got[p] # 0)
  BY DEF Reads, ReadNote, ReadRows, ReadFence, QueueNote, InHand
<1>4. p \in Live /\ Ready(q, p)
  BY <1>2, <1>3 DEF CalmReading
<1> QED
  BY <1>1, <1>3, <1>4 DEF Ready, Live, Behind

LEMMA NoteCalm ==
  ASSUME TypeOK, Behind, InHand, NEW q \in Proc, CalmInv(q), q \in calm, NEW p \in Path, ReadNote(q, p)
  PROVE  CalmInv(q)'
<1>1. /\ UNCHANGED <<disk, chunks, notes, fence>> /\ pass[q] \in Pass /\ p \in Live /\ p \in pass[q].todo
      /\ Ready(q, p)
  BY InHandCalm DEF Reads
<1>2. /\ pass'[q].pc = "rows" /\ pass'[q].got = [pass[q].got EXCEPT ![p] = disk[p].ver]
      /\ pass'[q].todo = pass[q].todo /\ pass'[q].ex = pass[q].ex /\ pass'[q].base = pass[q].base
      /\ pass'[q].recs = pass[q].recs /\ pass'[q].plans = pass[q].plans
  BY NoteSets
<1>3. pass'[q].got[p] = disk[p].ver /\ pass[q].pc = "read"
  BY <1>1, <1>2, PassParts DEF ReadNote
<1>4. Ready(q, p)'
  BY <1>1, <1>2, <1>3 DEF Ready
<1> QED
  BY <1>1, <1>2, <1>4, ReadsCalm DEF Reads

LEMMA RowsCalm ==
  ASSUME TypeOK, Behind, InHand, NEW q \in Proc, CalmInv(q), q \in calm, NEW p \in Path, ReadRows(q, p)
  PROVE  CalmInv(q)'
<1>1. /\ UNCHANGED <<disk, chunks, notes, fence>> /\ pass[q] \in Pass /\ p \in Live /\ p \in pass[q].todo
      /\ Ready(q, p)
  BY InHandCalm DEF Reads
<1>2. /\ pass'[q].pc = "fence" /\ pass'[q].got = pass[q].got
      /\ pass'[q].ex = [pass[q].ex EXCEPT ![p] = Loaded(pass[q].ex[p], chunks[p])]
      /\ pass'[q].todo = pass[q].todo /\ pass'[q].base = pass[q].base
      /\ pass'[q].recs = pass[q].recs /\ pass'[q].plans = pass[q].plans
  BY RowsSets
<1>3. pass'[q].ex[p] = chunks[p] /\ pass[q].pc = "rows"
  BY <1>1, <1>2, PassParts DEF ReadRows, Loaded, Ready
<1>4. Ready(q, p)'
  BY <1>1, <1>2, <1>3 DEF Ready
<1> QED
  BY <1>1, <1>2, <1>4, ReadsCalm DEF Reads

\* The plan of a note that differs from its rows will land.
LEMMA FenceCalm ==
  ASSUME TypeOK, Behind, InHand, NEW q \in Proc, CalmInv(q), q \in calm, NEW p \in Path, ReadFence(q, p)
  PROVE  CalmInv(q)'
<1>0. pass[q].pc = "fence" /\ ~ReadNote(q, p)
  BY DEF ReadFence, ReadNote
<1>1. /\ UNCHANGED <<disk, chunks, notes, fence>> /\ pass[q] \in Pass /\ p \in Live /\ p \in pass[q].todo
      /\ Ready(q, p) /\ disk[p].ver # 0 /\ pass[q].got[p] = disk[p].ver
  BY <1>0, InHandCalm DEF Reads
<1>2. /\ pass'[q].pc = "queue" /\ pass'[q].plans = [pass[q].plans EXCEPT ![p] = PlanMade(q, p)]
      /\ pass'[q].got = pass[q].got /\ pass'[q].ex = pass[q].ex
      /\ pass'[q].todo = pass[q].todo /\ pass'[q].base = pass[q].base /\ pass'[q].recs = pass[q].recs
  BY FenceSets
<1>3. pass'[q].plans[p] = PlanMade(q, p)
  BY <1>1, <1>2, PassParts
<1>4. pass[q].ex[p] = chunks[p] /\ pass[q].base[p] = fence[p] /\ pass[q].plans[p] = NoPlan
  BY <1>0, <1>1 DEF Ready
<1>5. ChunksDone(q, p)'
  <2>1. CASE ~NeedsPlan(p, chunks[p], disk[p].ver)
    BY <1>1, <1>3, <1>4, <2>1 DEF ChunksDone, NeedsPlan, PlanMade
  <2>2. CASE NeedsPlan(p, chunks[p], disk[p].ver)
    <3>1. PlanMade(q, p) = PlanOf(q, p)
      BY <1>1, <1>4, <2>2 DEF PlanMade
    <3>2. PlanOf(q, p).ver = disk[p].ver /\ PlanOf(q, p).ex = chunks[p] /\ PlanOf(q, p).base = fence[p]
      BY <1>1, <1>4 DEF PlanOf, Loaded
    <3>3. PlanOf(q, p) # NoPlan
      BY <1>1, <3>2 DEF NoPlan
    <3> QED
      BY <1>1, <1>3, <3>1, <3>2, <3>3 DEF ChunksDone, PlanHeals, Same
  <2> QED
    BY <2>1, <2>2
<1>6. Ready(q, p)'
  BY <1>1, <1>2, <1>5 DEF Ready
<1> QED
  BY <1>1, <1>2, <1>6, ReadsCalm DEF Reads

\* A note that is queued has its rows, or a record and a plan that will land.
LEMMA QueueCalm ==
  ASSUME TypeOK, Behind, InHand, NEW q \in Proc, CalmInv(q), q \in calm, NEW p \in Path, QueueNote(q, p)
  PROVE  CalmInv(q)'
<1>0. pass[q].pc = "queue" /\ ~ReadNote(q, p)
  BY DEF QueueNote, ReadNote
<1>1. /\ UNCHANGED <<disk, chunks, notes, fence>> /\ pass[q] \in Pass /\ p \in Live /\ p \in pass[q].todo
      /\ Ready(q, p) /\ disk[p].ver # 0 /\ pass[q].got[p] = disk[p].ver
  BY <1>0, InHandCalm DEF Reads
<1>2. /\ pass'[q].recs = [pass[q].recs EXCEPT ![p] = RecMade(q, p)] /\ pass'[q].plans = pass[q].plans
      /\ pass'[q].todo = pass[q].todo \ {p}
  BY QueueSets
<1>3. pass'[q].recs[p] = RecMade(q, p) /\ pass'[q].plans[p] = pass[q].plans[p]
  BY <1>1, <1>2, PassParts
<1>4. pass[q].base[p] = fence[p] /\ pass[q].recs[p] = NoRec /\ ChunksDone(q, p)
  BY <1>0, <1>1 DEF Ready
<1>5. ChunksDone(q, p)'
  BY <1>1, <1>3, <1>4 DEF ChunksDone, PlanHeals
<1>6. NotesDone(q, p)'
  <2>1. CASE Same(notes[p], disk[p].ver)
    BY <1>1, <1>3, <1>4, <2>1 DEF NotesDone, RecMade
  <2>2. CASE ~Same(notes[p], disk[p].ver)
    <3>1. RecMade(q, p) = RecOf(q, p)
      BY <1>1, <2>2 DEF RecMade
    <3>2. /\ RecOf(q, p).ver = disk[p].ver /\ RecOf(q, p).base = fence[p]
          /\ RecOf(q, p).check = (pass[q].plans[p] = NoPlan)
      BY <1>1, <1>4 DEF RecOf
    <3>3. RecOf(q, p) # NoRec
      BY <1>1, <3>2 DEF NoRec
    <3>4. RecOf(q, p).check => pass'[q].plans[p] = NoPlan
      BY <1>3, <3>2
    <3> QED
      BY <1>1, <1>3, <3>1, <3>2, <3>3, <3>4 DEF NotesDone, RecHeals, Same
  <2> QED
    BY <2>1, <2>2
<1> QED
  BY <1>1, <1>2, <1>5, <1>6, ReadsCalm DEF Reads

\* Every record of a calm pass lands.
LEMMA FlushCalm ==
  ASSUME TypeOK, NEW q \in Proc, CalmInv(q), q \in calm, FlushNotes(q)
  PROVE  CalmInv(q)'
<1> DEFINE s == pass[q]
           t == pass'[q]
<1>1. UNCHANGED <<epoch, disk, chunks>> /\ s.pc = "read"
  BY DEF FlushNotes
<1>2. s \in Pass /\ pass \in [Proc -> Pass]
  BY DEF TypeOK
<1>3. CalmReading(q) /\ ~s.aborted /\ s.e \in {Unfenced, epoch} /\ EpochHolds(q)
  BY <1>1 DEF CalmInv, EpochHolds
<1>4. /\ t.pc = "read" /\ t.e = s.e /\ t.aborted = s.aborted /\ t.walked = s.walked /\ t.todo = s.todo
      /\ t.recs = Of(NoRec) /\ t.plans = s.plans /\ t.ex = s.ex /\ t.base = s.base /\ t.got = s.got
  BY <1>1, <1>2 DEF Pass, FlushNotes
<1>5. ASSUME NEW p \in Path
      PROVE  LET lands == s.recs[p] # NoRec /\ (s.recs[p].check => fence[p] = s.recs[p].base) IN
             /\ notes'[p] = IF lands THEN s.recs[p].ver ELSE notes[p]
             /\ fence'[p] = IF lands /\ s.recs[p].check THEN fence[p] + 1 ELSE fence[p]
             /\ t.recs[p] = NoRec
  BY <1>3, <1>4 DEF FlushNotes, FenceHolds, Of
<1>6. Live' = Live
  BY <1>1 DEF Live
<1>7. ASSUME NEW p \in Path, s.recs[p] = NoRec
      PROVE  notes'[p] = notes[p] /\ fence'[p] = fence[p]
  BY <1>5, <1>7
<1>8. ASSUME NEW p \in Path, p \in Live \ s.todo
      PROVE  NotesDone(q, p)' /\ ChunksDone(q, p)'
  <2>1. NotesDone(q, p) /\ ChunksDone(q, p)
    BY <1>3, <1>8 DEF CalmReading
  <2>2. CASE s.recs[p] = NoRec
    BY <1>1, <1>4, <1>5, <1>7, <2>1, <2>2 DEF NotesDone, ChunksDone, PlanHeals, RecHeals
  <2>3. CASE RecHeals(q, p)
    <3>1. notes'[p] = s.recs[p].ver
      BY <1>5, <2>3 DEF RecHeals
    <3>2. NotesDone(q, p)'
      BY <1>1, <1>5, <2>3, <3>1 DEF NotesDone, RecHeals
    <3>3. ChunksDone(q, p)'
      <4>1. CASE s.plans[p] = NoPlan
        BY <1>1, <1>4, <2>1, <4>1 DEF ChunksDone, PlanHeals
      <4>2. CASE s.plans[p] # NoPlan
        <5>1. fence'[p] = fence[p]
          BY <1>5, <2>3, <4>2 DEF RecHeals
        <5> QED
          BY <1>1, <1>4, <2>1, <5>1 DEF ChunksDone, PlanHeals
      <4> QED
        BY <4>1, <4>2
    <3> QED
      BY <3>2, <3>3
  <2> QED
    BY <2>1, <2>2, <2>3 DEF NotesDone
<1>9. ASSUME NEW p \in Path, p \in s.todo
      PROVE  Ready(q, p)'
  <2>1. Ready(q, p)
    BY <1>3, <1>9 DEF CalmReading
  <2> QED
    BY <1>1, <1>4, <1>5, <1>7, <2>1 DEF Ready
<1>10. ASSUME NEW p \in Path, p \notin Live
       PROVE  Untouched(q, p)'
  BY <1>3, <1>4, <1>5, <1>10 DEF CalmReading, Untouched
<1>11. CalmReading(q)'
  <2>1. t.walked = Live' /\ t.todo \subseteq Live'
    BY <1>3, <1>4, <1>6 DEF CalmReading
  <2> QED
    BY <1>4, <1>6, <1>8, <1>9, <1>10, <2>1 DEF CalmReading
<1> QED
  BY <1>1, <1>3, <1>4, <1>11 DEF CalmInv, Reading

\* The sweep of a calm pass finds the rows of deleted notes only.
LEMMA SweepCalm ==
  ASSUME TypeOK, NEW q \in Proc, CalmInv(q), q \in calm, Sweep(q)
  PROVE  CalmInv(q)'
<1> DEFINE s == pass[q]
           t == pass'[q]
<1>1. UNCHANGED <<epoch, disk>> /\ s.pc = "read" /\ s.todo = {} /\ s.recs = Of(NoRec)
  BY DEF Sweep
<1>2. s \in Pass /\ pass \in [Proc -> Pass]
  BY DEF TypeOK
<1>3. CalmReading(q) /\ ~s.aborted /\ s.e \in {Unfenced, epoch}
  BY <1>1 DEF CalmInv
<1>4. /\ t.pc = (IF s.plans = Of(NoPlan) THEN "bump" ELSE "last")
      /\ t.e = s.e /\ t.aborted = s.aborted /\ t.recs = s.recs /\ t.plans = s.plans
  BY <1>1, <1>2 DEF Pass, Sweep
<1>5. ASSUME NEW p \in Path
      PROVE  IF p \in Stale(q) THEN notes'[p] = 0
             ELSE notes'[p] = notes[p] /\ chunks'[p] = chunks[p] /\ fence'[p] = fence[p]
  BY DEF Sweep, deindexNote
<1>6. \A p \in Path : s.recs[p] = NoRec /\ t.recs[p] = NoRec
  BY <1>1, <1>4 DEF Of
<1>7. ASSUME NEW p \in Path, disk[p].live
      PROVE  Same(notes'[p], disk[p].ver) /\ ChunksDone(q, p)'
  <2>1. p \in Live /\ p \notin Stale(q)
    BY <1>3, <1>7 DEF CalmReading, Stale, Live
  <2>2. NotesDone(q, p) /\ ChunksDone(q, p)
    BY <1>1, <1>3, <2>1 DEF CalmReading
  <2>3. notes'[p] = notes[p] /\ chunks'[p] = chunks[p] /\ fence'[p] = fence[p]
    BY <1>5, <2>1
  <2> QED
    BY <1>1, <1>4, <1>6, <2>2, <2>3 DEF NotesDone, RecHeals, ChunksDone, PlanHeals
<1>8. ASSUME NEW p \in Path, ~disk[p].live
      PROVE  Same(notes'[p], 0) /\ t.plans[p] = NoPlan
  <2>1. p \notin Live /\ p \notin s.walked /\ s.plans[p] = NoPlan
    BY <1>3, <1>8 DEF CalmReading, Live, Untouched
  <2>2. notes'[p] = 0
    BY <1>5, <2>1 DEF Stale
  <2> QED
    BY <1>4, <2>1, <2>2 DEF Same
<1>9. t.pc = "last" => CalmLast(q)'
  BY <1>1, <1>6, <1>7, <1>8 DEF CalmLast
<1>10. ASSUME t.pc = "bump", NEW p \in Path PROVE Matches(p)'
  <2>1. t.plans[p] = NoPlan
    BY <1>4, <1>10 DEF Of
  <2> QED
    BY <1>1, <1>7, <1>8, <2>1 DEF Matches, ChunksDone, PlanHeals
<1> QED
  BY <1>1, <1>3, <1>4, <1>9, <1>10 DEF CalmInv, Reading

\* Every plan of a calm pass lands.
LEMMA CommitCalm ==
  ASSUME TypeOK, NEW q \in Proc, CalmInv(q), q \in calm, CommitBatch(q, {})
  PROVE  CalmInv(q)'
<1> DEFINE s == pass[q]
           t == pass'[q]
<1>1. UNCHANGED <<epoch, disk, notes>> /\ s.pc \in {"embed", "last"}
  BY DEF CommitBatch
<1>2. s \in Pass /\ pass \in [Proc -> Pass]
  BY DEF TypeOK
<1>3. /\ ~s.aborted /\ s.e \in {Unfenced, epoch} /\ EpochHolds(q)
      /\ s.pc = "embed" => CalmReading(q)
      /\ s.pc = "last" => CalmLast(q)
  BY DEF CalmInv, EpochHolds
<1>4. /\ t.pc = (IF s.pc = "embed" THEN "read" ELSE "bump")
      /\ t.e = s.e /\ t.aborted = s.aborted /\ t.walked = s.walked /\ t.todo = s.todo
      /\ t.recs = s.recs /\ t.plans = Of(NoPlan) /\ t.ex = s.ex /\ t.base = s.base /\ t.got = s.got
  <2>1. PICK d : pass' = [pass EXCEPT ![q] =
           [s EXCEPT !.plans = Of(NoPlan), !.dirty = d, !.pc = IF s.pc = "embed" THEN "read" ELSE "bump"]]
    BY DEF CommitBatch
  <2> QED
    BY <1>2, <2>1 DEF Pass
<1>5. ASSUME NEW p \in Path
      PROVE  LET lands == s.plans[p] # NoPlan /\ Applicable(q, p) IN
             /\ chunks'[p] = IF lands THEN s.plans[p].ver ELSE chunks[p]
             /\ fence'[p] = IF lands THEN fence[p] + 1 ELSE fence[p]
             /\ t.plans[p] = NoPlan
  BY <1>4 DEF CommitBatch, Planned, Of
<1>6. Live' = Live
  BY <1>1 DEF Live
<1>7. ASSUME NEW p \in Path, s.plans[p] = NoPlan
      PROVE  chunks'[p] = chunks[p] /\ fence'[p] = fence[p]
  BY <1>5, <1>7
<1>8. ASSUME NEW p \in Path, ChunksDone(q, p)
      PROVE  t.plans[p] = NoPlan /\ Same(chunks'[p], disk[p].ver)
  <2>1. CASE s.plans[p] = NoPlan
    BY <1>5, <1>7, <1>8, <2>1 DEF ChunksDone, PlanHeals
  <2>2. CASE PlanHeals(q, p)
    <3>1. Applicable(q, p)
      BY <1>3, <2>2 DEF PlanHeals, Applicable, FenceHolds
    <3>2. chunks'[p] = s.plans[p].ver
      BY <1>5, <2>2, <3>1 DEF PlanHeals
    <3> QED
      BY <1>5, <2>2, <3>2 DEF PlanHeals
  <2> QED
    BY <1>8, <2>1, <2>2 DEF ChunksDone
<1>9. CASE s.pc = "embed"
  <2>1. ASSUME NEW p \in Path, p \in s.todo
        PROVE  Ready(q, p)'
    <3>1. Ready(q, p)
      BY <1>3, <1>9, <2>1 DEF CalmReading
    <3> QED
      BY <1>1, <1>4, <1>5, <1>7, <1>9, <3>1 DEF Ready
  <2>2. ASSUME NEW p \in Path, p \in Live \ s.todo
        PROVE  NotesDone(q, p)' /\ ChunksDone(q, p)'
    <3>1. NotesDone(q, p) /\ ChunksDone(q, p)
      BY <1>3, <1>9, <2>2 DEF CalmReading
    <3>2. ChunksDone(q, p)'
      BY <1>1, <1>8, <3>1 DEF ChunksDone
    <3>3. CASE s.recs[p] = NoRec
      BY <1>1, <1>4, <3>1, <3>2, <3>3 DEF NotesDone, RecHeals
    <3>4. CASE RecHeals(q, p)
      <4>1. s.recs[p].check => fence'[p] = fence[p]
        BY <1>7, <3>4 DEF RecHeals
      <4> QED
        BY <1>1, <1>4, <1>5, <3>2, <3>4, <4>1 DEF NotesDone, RecHeals
    <3> QED
      BY <3>1, <3>3, <3>4 DEF NotesDone
  <2>3. ASSUME NEW p \in Path, p \notin Live PROVE Untouched(q, p)'
    BY <1>3, <1>4, <1>5, <1>9, <2>3 DEF CalmReading, Untouched
  <2>4. t.walked = Live' /\ t.todo \subseteq Live'
    BY <1>3, <1>4, <1>6, <1>9 DEF CalmReading
  <2>5. CalmReading(q)'
    BY <1>4, <1>6, <2>1, <2>2, <2>3, <2>4 DEF CalmReading
  <2> QED
    BY <1>1, <1>3, <1>4, <1>9, <2>5 DEF CalmInv, Reading
<1>10. CASE s.pc = "last"
  <2>1. \A p \in Path : Matches(p)'
    BY <1>1, <1>3, <1>8, <1>10 DEF CalmLast, Matches
  <2> QED
    BY <1>1, <1>3, <1>4, <1>10, <2>1 DEF CalmInv, Reading
<1> QED
  BY <1>1, <1>9, <1>10

LEMMA CalmStep ==
  ASSUME TypeOK, InHand, Behind, [Next]_vars, NEW q \in Proc, CalmInv(q)
  PROVE  CalmInv(q)'
<1>1. CASE q \notin calm'
  BY <1>1 DEF CalmInv
<1>2. CASE q \in calm'
  BY <1>2, CalmMoves, StillCalm, BeginCalm, LoadCalm, FullCalm, NoteCalm, RowsCalm, FenceCalm, QueueCalm,
     FlushCalm, SweepCalm, CommitCalm DEF Reads
<1> QED
  BY <1>1, <1>2

-----------------------------------------------------------------------------
(* The theorems.                                                           *)

LEMMA InvStep == IInv /\ [Next]_vars => IInv'
BY TypeStep, InHandStep, BehindStep, PlansStep, FreshStep, CalmStep DEF IInv

LEMMA Inductive == Spec => []IInv
<1>1. Init => IInv
  <2> SUFFICES ASSUME Init PROVE IInv
    OBVIOUS
  <2>1. TypeOK
    BY InitTyped
  <2>2. /\ pass = [q \in Proc |-> NoPass]
        /\ \A p \in Path : /\ NoPass.asOf[p] = 0 /\ NoPass.base[p] = 0 /\ NoPass.plans[p] = NoPlan
                           /\ NoPass.got[p] = 0
        /\ NoPass.pc = "idle" /\ NoPass.dirty = FALSE /\ NoPlan.ver = 0 /\ NoPlan.base = 0
        /\ NoOp.want.ver = 0 /\ NoOp.job.ver = 0
    BY DEF Init, NoPass, Of, NoPlan, NoOp, None, NoJob
  <2>3. Behind
    BY <2>2 DEF Init, Behind, OpsBehind, Of, None
  <2>4. PlansFenced /\ InHand
    BY <2>2 DEF Init, PlansFenced, InHand, Of
  <2>5. Fresh
    BY <2>2 DEF Init, Fresh, Unasked
  <2>6. \A q \in Proc : CalmInv(q)
    BY DEF Init, CalmInv
  <2> QED
    BY <2>1, <2>3, <2>4, <2>5, <2>6 DEF IInv
<1> QED
  BY <1>1, InvStep, PTL DEF Spec

(* index-vault.ts processNote and flush, write-fence.ts commitFence: a     *)
(* batch that waited for its embeddings replaces the rows of a note by     *)
(* content older than what was indexed, or removed, only if the note had   *)
(* no fence when the pass loaded and that happened between the reads of    *)
(* its file and of its fence.                                              *)
THEOREM NeverRegresses == Spec => PassNeverRegresses
<1>1. ASSUME IInv, [Next]_vars
      PROVE  [\A q \in Proc, p \in Path :
                pass[q].pc \in {"embed", "last"} /\ pass'[q].pc \notin {pass[q].pc, "idle"}
                /\ chunks'[p] # chunks[p]
                => chunks'[p] >= high[p] \/ pass[q].plans[p].overtaken]_vars
  BY <1>1, OnlyBatches, BatchIsNewest DEF IInv
<1> QED
  BY <1>1, Inductive, PTL DEF Spec, PassNeverRegresses

-----------------------------------------------------------------------------
(* One server process: nothing commits between the reads of a pass.        *)

Alone == \A q, r \in Proc : q = r

\* Nothing newer than the content in hand was indexed or removed.
NotOvertaken ==
  \A q \in Proc, p \in Path :
    /\ pass[q].got[p] # 0 => high[p] <= pass[q].got[p]
    /\ ~pass[q].plans[p].overtaken

LEMMA ReadingAlone ==
  ASSUME Alone, TypeOK, [Next]_vars, NEW q \in Proc, pass[q].pc \in Reading
  PROVE  high' = high
<1>1. ASSUME NEW r \in Writers, NEW p \in Path, JobStep(r, p) PROVE FALSE
  BY <1>1, NoteIndexAssumption DEF JobStep, Free, Alone
<1>2. ASSUME NEW r \in Proc, Sweep(r) \/ (\E S \in SUBSET Path : CommitBatch(r, S)) PROVE FALSE
  <2>1. r = q
    BY DEF Alone
  <2> QED
    BY <1>2, <2>1 DEF Sweep, CommitBatch, Reading
<1>3. ASSUME NEW r \in Proc, \/ Load(r) \/ Full(r) \/ Bump(r) \/ EmbedFails(r) \/ Promote(r) \/ Crash(r) \/ FlushNotes(r)
                             \/ (\E k \in Path : Reads(r, k) \/ ReadGone(r, k))
                             \/ (\E e \in 0 .. epoch : Begin(r, e)) \/ (\E S \in SUBSET Path : Demote(r, S))
      PROVE  UNCHANGED high
  BY <1>3, ReadsSet DEF Load, Full, FlushNotes, Bump, EmbedFails, Promote, Crash, ReadGone, Begin, Demote
<1>4. CASE \/ \E k \in Path, live \in BOOLEAN, H \in SUBSET Writers : Change(k, live, H)
           \/ Search \/ Keep \/ Evict \/ UNCHANGED vars
  BY <1>4 DEF Change, Search, Keep, Evict, vars
<1> QED
  BY <1>1, <1>2, <1>3, <1>4 DEF Next, Step, Reads

LEMMA AloneStep ==
  ASSUME Alone, TypeOK, InHand, Behind, NotOvertaken, [Next]_vars
  PROVE  NotOvertaken'
<1> SUFFICES ASSUME NEW q \in Proc, NEW p \in Path
             PROVE  /\ pass'[q].got[p] # 0 => high'[p] <= pass'[q].got[p]
                    /\ ~pass'[q].plans[p].overtaken
  BY DEF NotOvertaken
<1>1. /\ PassMoves(q, p) /\ high[p] <= disk[p].ver /\ high[p] \in Nat /\ pass[q].got[p] \in Nat
      /\ NoPlan.overtaken = FALSE
  BY PassesMove, Numbers DEF Behind, NoPlan
<1>2. /\ pass[q].got[p] # 0 => high[p] <= pass[q].got[p] /\ high'[p] = high[p]
      /\ ~pass[q].plans[p].overtaken
  BY ReadingAlone DEF NotOvertaken, InHand
<1>3. pass'[q].got[p] # 0 => high'[p] <= pass'[q].got[p]
  BY <1>1, <1>2 DEF PassMoves
<1>4. ~pass'[q].plans[p].overtaken
  <2>1. CASE pass'[q].plans[p] \in {pass[q].plans[p], NoPlan}
    BY <1>1, <1>2, <2>1
  <2>2. CASE pass[q].got[p] # 0 /\ pass'[q].plans[p] = PlanOf(q, p)
    <3>1. ~(high[p] > pass[q].got[p])
      BY <1>1, <1>2, <2>2
    <3>2. PlanOf(q, p).overtaken = (pass[q].base[p] = 0 /\ high[p] > pass[q].got[p])
      BY DEF PlanOf
    <3> QED
      BY <2>2, <3>1, <3>2
  <2> QED
    BY <1>1, <2>1, <2>2 DEF PassMoves
<1> QED
  BY <1>3, <1>4

(* index-vault.ts processNote: with one server process, whose event loop   *)
(* takes up nothing else between the reads of a note, no batch ever puts   *)
(* back content older than what was indexed or removed.                    *)
THEOREM AloneNeverRegresses ==
  ASSUME Alone
  PROVE  Spec => [][\A q \in Proc, p \in Path :
                      pass[q].pc \in {"embed", "last"} /\ pass'[q].pc \notin {pass[q].pc, "idle"}
                      /\ chunks'[p] # chunks[p] => chunks'[p] >= high[p]]_vars
<1>1. Init => NotOvertaken
  BY DEF Init, NotOvertaken, NoPass, NoPlan, Of
<1>2. IInv /\ NotOvertaken /\ [Next]_vars => NotOvertaken'
  BY AloneStep DEF IInv
<1>3. ASSUME IInv, NotOvertaken, [Next]_vars
      PROVE  [\A q \in Proc, p \in Path :
                pass[q].pc \in {"embed", "last"} /\ pass'[q].pc \notin {pass[q].pc, "idle"}
                /\ chunks'[p] # chunks[p] => chunks'[p] >= high[p]]_vars
  BY <1>3, OnlyBatches, BatchIsNewest DEF IInv, NotOvertaken
<1> QED
  BY <1>1, <1>2, <1>3, Inductive, PTL DEF Spec

-----------------------------------------------------------------------------
(* generation.ts bumpGeneration, query_cache.ts: a cached result is what   *)
(* the index holds, but for the batches whose bump is still to come.       *)
THEOREM CacheCorrect == Spec => []CacheFresh
<1>1. IInv => CacheFresh
  BY DEF IInv, Fresh, CacheFresh
<1> QED
  BY <1>1, Inductive, PTL

(* index-vault.ts indexVault: whatever was interrupted before it, a pass   *)
(* that nothing disturbs ends with the rows of every note and no others.   *)
THEOREM QuietPassHeals == Spec => []PassHeals
<1>1. IInv => PassHeals
  <2> SUFFICES ASSUME IInv, NEW q \in calm, pass[q].pc = "bump", NEW p \in Path PROVE Matches(p)
    BY DEF PassHeals
  <2>1. q \in Proc /\ CalmInv(q)
    BY DEF IInv, TypeOK
  <2> QED
    BY <2>1 DEF CalmInv
<1> QED
  BY <1>1, Inductive, PTL
=============================================================================
