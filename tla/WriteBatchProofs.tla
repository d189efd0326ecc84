--------------------------- MODULE WriteBatchProofs ---------------------------
(***************************************************************************)
(* Proofs about WriteBatch: the type invariant, that nothing the editor    *)
(* saved is destroyed, and that a batch lands whole or names what it left. *)
(***************************************************************************)
EXTENDS WriteBatch, TLAPS

------------------------------------------------------------------------------
(* The inductive invariant.                                                *)

Writing == {"stage", "check", "rename"}
Removing == {"remove", "removeUnlink", "verify"}

\* The counters go with the phase, and nothing is left over before the rollback.
Turn ==
  /\ pc \in Writing => j = 0
  /\ pc = "stage" => n = 0
  /\ pc = "rename" => n < Len(Writes)
  /\ pc \in Removing \cup {"putBack", "ok"} => n = Len(Writes)
  /\ pc \in {"removeUnlink", "verify"} => j < Len(Removals)
  /\ pc = "ok" => j = Len(Removals)
  /\ pc \in {"undoUnlink", "settle"} => n > 0
  /\ pc \in {"failed", "incomplete"} => n = 0
  /\ native => pc \notin {"removeUnlink", "undoUnlink"}
  /\ pc \in Writing \cup Removing \cup {"putBack", "ok"} => bad = {}
  /\ pc \in Writing \cup Removing \cup {"ok"} => kept = {}

\* A save of the editor is never taken for the old bytes or the batch's own.
Fresh == \A p \in Path : latest[p] = None \/ latest[p] > New

\* A write in place, until the rollback has come to it; the last of them may be the
\* note that the rollback holds aside.
PlacedAt(i) ==
  LET p == Writes[i].path IN
  /\ pc \in Writing \cup Removing \cup {"ok"} => disk[p] = New \/ p \in touched
  /\ pc \notin {"undoUnlink", "settle"} \/ i < n => aside[p] = None
  /\ pc = "settle" /\ i = n => disk[p] # New /\ (disk[p] = None \/ p \in touched)

Placed == \A i \in DOMAIN Writes : i <= n => PlacedAt(i)

\* A write that has not happened yet, or that the rollback has dealt with.
Untouched(p) == (disk[p] = Pre(p) \/ p \in touched) /\ disk[p] # New /\ aside[p] = None

Unplaced ==
  \A i \in DOMAIN Writes : i > n => Writes[i].path \in bad \/ Untouched(Writes[i].path)

\* A source before, during and after its removal.
Gone(p) == disk[p] = None \/ p \in touched

SourceAt(i) ==
  LET p == Removals[i] IN
  /\ pc # "ok" => Old \in {disk[p], aside[p]} \/ p \in touched
  /\ pc \in Writing => aside[p] = None
  /\ pc \in Removing =>
       /\ i <= j => aside[p] \in {None, Old} /\ Gone(p)
       /\ i > j + 1 \/ (i = j + 1 /\ pc = "remove") => aside[p] = None
       /\ i = j + 1 /\ pc = "removeUnlink" => aside[p] = disk[p] \/ p \in touched
       /\ i = j + 1 /\ pc = "verify" => Gone(p)
  /\ pc = "putBack" /\ i <= j => aside[p] = None \/ p \in kept
  /\ pc \in {"undo", "undoUnlink", "settle", "failed", "incomplete"} =>
       aside[p] = None \/ p \in kept
  /\ pc = "ok" => aside[p] = None /\ Gone(p)

Sources == \A i \in DOMAIN Removals : SourceAt(i)

\* The batch leaves every other name alone.
Elsewhere == \A p \in Path \ (Target \cup Source) : aside[p] = None

Inv == Turn /\ Fresh /\ Placed /\ Unplaced /\ Sources /\ Elsewhere /\ NothingLost
IInv == TypeOK /\ Inv

------------------------------------------------------------------------------
(* Batches.                                                                *)

\* What every batch is: its notes and sources are files, each named once, and a write
\* was planned from nothing or from the old bytes.
LEMMA Shape ==
  ASSUME TypeOK
  PROVE  /\ Len(Writes) \in Nat /\ DOMAIN Writes = 1 .. Len(Writes)
         /\ Len(Removals) \in Nat /\ DOMAIN Removals = 1 .. Len(Removals)
         /\ \A i \in DOMAIN Writes :
              /\ Writes[i].path \in Path /\ Writes[i].path \in Target
              /\ Writes[i].prev \in {None, Old} /\ Pre(Writes[i].path) = Writes[i].prev
         /\ \A i \in DOMAIN Removals :
              /\ Removals[i] \in Path /\ Removals[i] \in Source /\ Pre(Removals[i]) = Old
         /\ \A i, k \in DOMAIN Writes : Writes[i].path = Writes[k].path => i = k
         /\ \A i, k \in DOMAIN Removals : Removals[i] = Removals[k] => i = k
         /\ \A i \in DOMAIN Writes, k \in DOMAIN Removals : Writes[i].path # Removals[k]
<1>1. /\ Writes \in Seq([path : Path, prev : {None, Old}]) /\ Removals \in Seq(Path)
      /\ \A i, k \in DOMAIN Writes : Writes[i].path = Writes[k].path => i = k
      /\ \A i, k \in DOMAIN Removals : Removals[i] = Removals[k] => i = k
      /\ \A i \in DOMAIN Writes, k \in DOMAIN Removals : Writes[i].path # Removals[k]
  BY WriteBatchAssumption DEF TypeOK, Writes, Removals
<1>2. /\ Len(Writes) \in Nat /\ DOMAIN Writes = 1 .. Len(Writes)
      /\ \A i \in DOMAIN Writes : Writes[i] \in [path : Path, prev : {None, Old}]
  <2> DEFINE W == [path : Path, prev : {None, Old}]
  <2>1. Writes \in Seq(W)
    BY <1>1
  <2> HIDE DEF W
  <2>2. /\ Len(Writes) \in Nat /\ DOMAIN Writes = 1 .. Len(Writes)
        /\ \A i \in DOMAIN Writes : Writes[i] \in W
    BY <2>1
  <2> QED
    BY <2>2 DEF W
<1>3. /\ Len(Removals) \in Nat /\ DOMAIN Removals = 1 .. Len(Removals)
      /\ \A i \in DOMAIN Removals : Removals[i] \in Path
  BY <1>1
<1>4. \A i \in DOMAIN Writes :
        /\ Writes[i].path \in Path /\ Writes[i].path \in Target
        /\ Writes[i].prev \in {None, Old}
  BY <1>2 DEF Target
<1>5. \A i \in DOMAIN Writes : Pre(Writes[i].path) = Writes[i].prev
  BY <1>1, <1>4 DEF Pre
<1>6. \A i \in DOMAIN Removals : Removals[i] \in Source /\ Pre(Removals[i]) = Old
  BY <1>1 DEF Source, Pre
<1> QED
  BY <1>1, <1>2, <1>3, <1>4, <1>5, <1>6

\* The arguments of the batch never change.
LEMMA Fixed ==
  ASSUME batch' = batch
  PROVE  /\ Writes' = Writes /\ Removals' = Removals
         /\ Target' = Target /\ Source' = Source /\ \A p \in Path : Pre(p)' = Pre(p)
<1>1. Writes' = Writes /\ Removals' = Removals
  BY DEF Writes, Removals
<1> QED
  BY <1>1 DEF Target, Source, Pre

------------------------------------------------------------------------------
(* The steps.                                                              *)


\* An operation that works or fails keeps within the bound of failures.
LEMMA FaultTyped ==
  ASSUME TypeOK, Works \/ Fault
  PROVE  faults' \in 0 .. MaxFaults
  BY WriteBatchAssumption DEF TypeOK, Works, Fault

\* A step that leaves the files alone leaves alone what is said of them only.
LEMMA FilesAlone ==
  ASSUME Inv, UNCHANGED <<batch, native, disk, aside, latest>>
  PROVE  Fresh' /\ Elsewhere' /\ NothingLost'
  BY Fixed DEF Inv, Fresh, Elsewhere, NothingLost

\* The write in hand, and the source in hand.
LEMMA InHand ==
  ASSUME TypeOK
  PROVE  /\ n < Len(Writes) => n + 1 \in DOMAIN Writes /\ NextWrite = Writes[n + 1]
         /\ n > 0 => n \in DOMAIN Writes /\ LastWrite = Writes[n]
         /\ j < Len(Removals) => j + 1 \in DOMAIN Removals /\ NextSource = Removals[j + 1]
  BY Shape DEF TypeOK, NextWrite, LastWrite, NextSource

LEMMA StageStep ==
  ASSUME TypeOK, Inv, Stage
  PROVE  IInv'
<1> USE Shape, Fixed DEF None, Old, New, Inv
<1>1. /\ pc = "stage" /\ pc' \in {"check", "failed"} /\ faults' \in 0 .. MaxFaults
      /\ UNCHANGED <<batch, native, disk, aside, n, j, bad, kept, edits, latest, touched>>
  BY FaultTyped DEF Stage
<1>2. TypeOK' /\ Turn'
  BY <1>1 DEF TypeOK, Pc, Turn, Writing, Removing
<1>3. Placed' /\ Unplaced'
  BY <1>1 DEF TypeOK, Turn, Placed, PlacedAt, Unplaced, Untouched, Writing, Removing
<1>4. Sources'
  BY <1>1 DEF Sources, SourceAt, Gone, Writing, Removing
<1> QED
  BY <1>1, <1>2, <1>3, <1>4, FilesAlone DEF IInv

\* The batch fails before its removals: the rollback begins with what is in place.
LEMMA FailStep ==
  ASSUME TypeOK, Inv, pc \in {"check", "rename"}, Fail, faults' \in 0 .. MaxFaults,
         UNCHANGED <<batch, native, disk, aside, j, bad, kept, edits, latest, touched>>
  PROVE  IInv'
<1> USE Shape, Fixed DEF None, Old, New, Inv
<1>1. pc' = "undo" /\ n' = n
  BY DEF Fail
<1>2. TypeOK' /\ Turn'
  BY <1>1 DEF TypeOK, Pc, Turn, Writing, Removing
<1>3. Placed' /\ Unplaced'
  BY <1>1 DEF TypeOK, Turn, Placed, PlacedAt, Unplaced, Untouched, Writing, Removing
<1>4. Sources'
  BY <1>1 DEF Sources, SourceAt, Gone, Writing, Removing
<1> QED
  BY <1>1, <1>2, <1>3, <1>4, FilesAlone DEF IInv

LEMMA CheckStep ==
  ASSUME TypeOK, Inv, Check
  PROVE  IInv'
<1> USE Shape, Fixed DEF None, Old, New, Inv
<1>1. /\ pc = "check" /\ n < Len(Writes) /\ faults' \in 0 .. MaxFaults
      /\ (pc' = "rename" /\ n' = n) \/ Fail
      /\ UNCHANGED <<batch, native, disk, aside, j, bad, kept, edits, latest, touched>>
  BY FaultTyped DEF Check
<1>2. CASE Fail
  BY <1>1, <1>2, FailStep
<1>3. CASE pc' = "rename" /\ n' = n
  <2>1. TypeOK' /\ Turn'
    BY <1>1, <1>3 DEF TypeOK, Pc, Turn, Writing, Removing
  <2>2. Placed' /\ Unplaced'
    BY <1>1, <1>3 DEF TypeOK, Turn, Placed, PlacedAt, Unplaced, Untouched, Writing, Removing
  <2>3. Sources'
    BY <1>1, <1>3 DEF Sources, SourceAt, Gone, Writing, Removing
  <2> QED
    BY <1>1, <2>1, <2>2, <2>3, FilesAlone DEF IInv
<1> QED
  BY <1>1, <1>2, <1>3

LEMMA RenameStep ==
  ASSUME TypeOK, Inv, Rename
  PROVE  IInv'
<1> USE Shape, Fixed DEF None, Old, New, Inv
<1> DEFINE p == NextWrite.path
<1>1. /\ pc = "rename" /\ faults' \in 0 .. MaxFaults
      /\ UNCHANGED <<batch, native, aside, j, bad, kept, edits, touched>>
      /\ \/ Fail /\ UNCHANGED <<disk, latest>>
         \/ /\ n' = n + 1 /\ pc' = "check"
            /\ disk' = [disk EXCEPT ![p] = New] /\ latest' = [latest EXCEPT ![p] = None]
  BY FaultTyped DEF Rename
<1>2. CASE Fail /\ UNCHANGED <<disk, latest>>
  BY <1>1, <1>2, FailStep
<1>3. CASE /\ n' = n + 1 /\ pc' = "check"
           /\ disk' = [disk EXCEPT ![p] = New] /\ latest' = [latest EXCEPT ![p] = None]
  <2>1. n < Len(Writes) /\ n \in Nat /\ n + 1 \in DOMAIN Writes /\ p = Writes[n + 1].path
    BY <1>1, InHand DEF TypeOK, Turn
  <2>2. p \in Path /\ p \in Target
    BY <2>1
  <2> HIDE DEF p
  <2>3. /\ disk' \in [Path -> Bytes] /\ latest' \in [Path -> Bytes]
        /\ disk'[p] = New /\ latest'[p] = None
        /\ \A q \in Path \ {p} : disk'[q] = disk[q] /\ latest'[q] = latest[q]
    BY <1>3, <2>2, WriteBatchAssumption DEF TypeOK, Bytes
  <2>4. TypeOK' /\ Turn'
    BY <1>1, <1>3, <2>1, <2>3 DEF TypeOK, Pc, Turn, Writing, Removing
  <2>5. Placed'
    <3> SUFFICES ASSUME NEW i \in DOMAIN Writes, i <= n + 1
                 PROVE  PlacedAt(i)'
      BY <1>1, <1>3 DEF Placed, PlacedAt
    <3>1. CASE i = n + 1
      <4>1. bad = {}
        BY <1>1 DEF Turn, Writing
      <4>2. Untouched(p)
        BY <4>1, <2>1 DEF Unplaced, p
      <4> QED
        BY <3>1, <4>2, <1>1, <1>3, <2>1, <2>3 DEF Untouched, PlacedAt, Writing
    <3>2. CASE i # n + 1
      <4>1. i <= n /\ Writes[i].path # p
        BY <3>2, <2>1
      <4> QED
        BY <4>1, <1>1, <1>3, <2>1, <2>3 DEF Placed, PlacedAt, Writing, Removing
    <3> QED
      BY <3>1, <3>2
  <2>6. Unplaced'
    <3> SUFFICES ASSUME NEW i \in DOMAIN Writes, i > n + 1
                 PROVE  Writes[i].path \in bad \/ Untouched(Writes[i].path)'
      BY <1>1, <1>3 DEF Unplaced
    <3>1. i > n /\ Writes[i].path # p
      BY <2>1
    <3> QED
      BY <3>1, <1>1, <2>3 DEF Unplaced, Untouched
  <2>7. Sources'
    BY <1>1, <1>3, <2>1, <2>3 DEF Sources, SourceAt, Gone, Writing, Removing
  <2>8. Fresh' /\ Elsewhere' /\ NothingLost'
    BY <1>1, <2>2, <2>3 DEF Fresh, Elsewhere, NothingLost
  <2> QED
    BY <2>4, <2>5, <2>6, <2>7, <2>8 DEF IInv
<1> QED
  BY <1>1, <1>2, <1>3

LEMMA WritesDoneStep ==
  ASSUME TypeOK, Inv, WritesDone
  PROVE  IInv'
<1> USE Shape, Fixed DEF None, Old, New, Inv, WritesDone
<1>1. TypeOK' /\ Turn'
  BY DEF TypeOK, Pc, Turn, Writing, Removing
<1>2. Placed' /\ Unplaced'
  BY DEF TypeOK, Turn, Placed, PlacedAt, Unplaced, Untouched, Writing, Removing
<1>3. Sources'
  BY DEF TypeOK, Turn, Sources, SourceAt, Gone, Writing, Removing
<1> QED
  BY <1>1, <1>2, <1>3, FilesAlone DEF IInv


------------------------------------------------------------------------------
(* The removals.                                                           *)

\* A step of a removal leaves alone every file but its source.
LEMMA RemovalFrame ==
  ASSUME TypeOK, Inv, pc \in Removing \cup {"putBack"}, pc' \in Removing \cup {"putBack"},
         NextSource \in Source,
         \A q \in Path \ {NextSource} : disk'[q] = disk[q] /\ aside'[q] = aside[q],
         native /\ latest[NextSource] # None
           => latest[NextSource] \in {disk'[NextSource], aside'[NextSource]},
         kept \subseteq kept', j \in Nat, j' \in {0, j, j + 1},
         pc' \in Removing => pc \in Removing /\ (j' = j \/ (j' = j + 1 /\ pc' = "remove")),
         pc' = "putBack" => j' = 0 \/ (pc = "putBack" /\ j' = j + 1),
         UNCHANGED <<batch, native, n, bad, edits, latest, touched>>
  PROVE  /\ Fresh' /\ Placed' /\ Unplaced' /\ Elsewhere' /\ NothingLost'
         /\ \A i \in DOMAIN Removals : Removals[i] # NextSource => SourceAt(i)'
<1> USE Shape, Fixed DEF None, Old, New, Inv
<1> DEFINE s == NextSource
<1>1. s \in Path /\ \A i \in DOMAIN Writes : Writes[i].path # s
  BY DEF Source
<1> HIDE DEF s
<1>2. \A q \in Path \ {s} : disk'[q] = disk[q] /\ aside'[q] = aside[q]
  BY DEF s
<1>3. Fresh' /\ Elsewhere' /\ NothingLost'
  BY <1>1, <1>2 DEF Fresh, Elsewhere, NothingLost, s
<1>4. Placed'
  BY <1>1, <1>2 DEF Placed, PlacedAt, Writing, Removing
<1>5. Unplaced'
  BY <1>1, <1>2 DEF Unplaced, Untouched
<1>6. ASSUME NEW i \in DOMAIN Removals, Removals[i] # s
      PROVE  SourceAt(i)'
  <2>1. SourceAt(i) /\ i # j + 1 /\ i \in Nat
    BY <1>6 DEF Sources, SourceAt, Gone, s, NextSource
  <2>2. disk'[Removals[i]] = disk[Removals[i]] /\ aside'[Removals[i]] = aside[Removals[i]]
    BY <1>2, <1>6
  <2> QED
    BY <2>1, <2>2 DEF SourceAt, Gone, Writing, Removing
<1> QED
  BY <1>3, <1>4, <1>5, <1>6 DEF s

LEMMA RemoveStep ==
  ASSUME TypeOK, Inv, Remove
  PROVE  IInv'
<1> USE Shape, Fixed DEF None, Old, New, Inv
<1> DEFINE s == NextSource
<1>1. /\ pc = "remove" /\ j < Len(Removals) /\ faults' \in 0 .. MaxFaults
      /\ UNCHANGED <<batch, native, n, bad, kept, edits, latest, touched>>
      /\ \/ MoveAside(s, "verify", "removeUnlink") /\ UNCHANGED j
         \/ disk[s] = None /\ j' = j + 1 /\ UNCHANGED <<disk, aside, pc>>
         \/ pc' = "putBack" /\ j' = 0 /\ UNCHANGED <<disk, aside>>
  BY FaultTyped DEF Remove
<1>2. /\ j \in Nat /\ j + 1 \in DOMAIN Removals /\ s = Removals[j + 1]
      /\ s \in Path /\ s \in Source
  BY <1>1, InHand DEF TypeOK
<1> HIDE DEF s
<1>3. disk[s] \in Bytes /\ aside[s] = None /\ (Old = disk[s] \/ s \in touched)
  <2>1. aside[s] = None
    BY <1>1, <1>2 DEF Sources, SourceAt, Gone, Removing
  <2>2. Old \in {disk[s], aside[s]} \/ s \in touched
    BY <1>1, <1>2 DEF Sources, SourceAt, Gone
  <2> QED
    BY <2>1, <2>2, <1>2 DEF TypeOK
<1>4. /\ disk' \in [Path -> Bytes] /\ aside' \in [Path -> Bytes]
      /\ \A q \in Path \ {s} : disk'[q] = disk[q] /\ aside'[q] = aside[q]
      /\ \/ /\ j' = j /\ aside'[s] = disk[s]
            /\ \/ pc' = "verify" /\ disk'[s] = None
               \/ ~native /\ pc' = "removeUnlink" /\ disk'[s] = disk[s]
         \/ j' = j + 1 /\ pc' = "remove" /\ disk'[s] = None /\ aside'[s] = None /\ disk[s] = None
         \/ j' = 0 /\ pc' = "putBack" /\ disk'[s] = disk[s] /\ aside'[s] = aside[s]
  <2>1. CASE MoveAside(s, "verify", "removeUnlink") /\ UNCHANGED j /\ native
    BY <2>1, <1>2, <1>3 DEF TypeOK, MoveAside, Bytes
  <2>2. CASE MoveAside(s, "verify", "removeUnlink") /\ UNCHANGED j /\ ~native
    BY <2>2, <1>2, <1>3 DEF TypeOK, MoveAside
  <2>3. CASE disk[s] = None /\ j' = j + 1 /\ UNCHANGED <<disk, aside, pc>>
    BY <2>3, <1>1, <1>3 DEF TypeOK
  <2>4. CASE pc' = "putBack" /\ j' = 0 /\ UNCHANGED <<disk, aside>>
    BY <2>4 DEF TypeOK
  <2> QED
    BY <1>1, <2>1, <2>2, <2>3, <2>4
<1>5. TypeOK' /\ Turn'
  BY <1>1, <1>2, <1>4 DEF TypeOK, Pc, Turn, Writing, Removing
<1>6. native /\ latest[s] # None => latest[s] \in {disk'[s], aside'[s]}
  BY <1>2, <1>3, <1>4 DEF NothingLost
<1>7. /\ Fresh' /\ Placed' /\ Unplaced' /\ Elsewhere' /\ NothingLost'
      /\ \A i \in DOMAIN Removals : Removals[i] # s => SourceAt(i)'
  BY <1>1, <1>2, <1>4, <1>6, RemovalFrame DEF s, Removing
<1>8. ASSUME NEW i \in DOMAIN Removals, i = j + 1
      PROVE  SourceAt(i)'
  BY <1>8, <1>1, <1>2, <1>3, <1>4 DEF Sources, SourceAt, Gone, Writing, Removing
<1>9. Sources'
  BY <1>1, <1>2, <1>7, <1>8 DEF Sources, SourceAt, Gone, Writing, Removing
<1> QED
  BY <1>5, <1>7, <1>9 DEF IInv

LEMMA RemoveUnlinkStep ==
  ASSUME TypeOK, Inv, RemoveUnlink
  PROVE  IInv'
<1> USE Shape, Fixed DEF None, Old, New, Inv
<1> DEFINE s == NextSource
<1>1. /\ pc = "removeUnlink" /\ faults' \in 0 .. MaxFaults /\ ~native
      /\ UNCHANGED <<batch, native, n, bad, kept, edits, latest, touched>>
      /\ \/ /\ Unlink(s, "verify", "remove")
            /\ j' = IF disk[s] = None THEN j + 1 ELSE j
         \/ Drop(s) /\ pc' = "putBack" /\ j' = 0 /\ UNCHANGED disk
  BY FaultTyped DEF RemoveUnlink, Turn
<1>2. /\ j < Len(Removals) /\ j \in Nat /\ j + 1 \in DOMAIN Removals /\ s = Removals[j + 1]
      /\ s \in Path /\ s \in Source
  BY <1>1, InHand DEF TypeOK, Turn
<1> HIDE DEF s
<1>3. /\ aside[s] = disk[s] \/ s \in touched
      /\ Old \in {disk[s], aside[s]} \/ s \in touched
  BY <1>1, <1>2 DEF Sources, SourceAt, Removing
<1>4. /\ disk' \in [Path -> Bytes] /\ aside' \in [Path -> Bytes]
      /\ \A q \in Path \ {s} : disk'[q] = disk[q] /\ aside'[q] = aside[q]
      /\ \/ j' = j /\ pc' = "verify" /\ disk'[s] = None /\ aside'[s] = aside[s]
         \/ /\ j' = j + 1 /\ pc' = "remove" /\ disk'[s] = None /\ aside'[s] = None
            /\ disk[s] = None
         \/ j' = 0 /\ pc' = "putBack" /\ disk'[s] = disk[s] /\ aside'[s] = None
  <2>1. CASE Unlink(s, "verify", "remove") /\ disk[s] = None /\ j' = j + 1
    BY <2>1, <1>2, WriteBatchAssumption DEF TypeOK, Unlink, Bytes
  <2>2. CASE Unlink(s, "verify", "remove") /\ disk[s] # None /\ j' = j
    BY <2>2, <1>2, WriteBatchAssumption DEF TypeOK, Unlink, Bytes
  <2>3. CASE Drop(s) /\ pc' = "putBack" /\ j' = 0 /\ UNCHANGED disk
    BY <2>3, <1>2, WriteBatchAssumption DEF TypeOK, Drop, Bytes
  <2> QED
    BY <1>1, <2>1, <2>2, <2>3
<1>5. TypeOK' /\ Turn'
  BY <1>1, <1>2, <1>4 DEF TypeOK, Pc, Turn, Writing, Removing
<1>6. /\ Fresh' /\ Placed' /\ Unplaced' /\ Elsewhere' /\ NothingLost'
      /\ \A i \in DOMAIN Removals : Removals[i] # s => SourceAt(i)'
  BY <1>1, <1>2, <1>4, RemovalFrame DEF s, Removing
<1>7. ASSUME NEW i \in DOMAIN Removals, i = j + 1
      PROVE  SourceAt(i)'
  BY <1>7, <1>1, <1>2, <1>3, <1>4 DEF SourceAt, Gone, Writing, Removing
<1>8. Sources'
  BY <1>1, <1>2, <1>6, <1>7 DEF Sources, SourceAt, Gone, Writing, Removing
<1> QED
  BY <1>5, <1>6, <1>8 DEF IInv

LEMMA VerifyStep ==
  ASSUME TypeOK, Inv, Verify
  PROVE  IInv'
<1> USE Shape, Fixed DEF None, Old, New, Inv
<1> DEFINE s == NextSource
<1>1. /\ pc = "verify" /\ faults' \in 0 .. MaxFaults
      /\ UNCHANGED <<batch, native, disk, aside, n, bad, kept, edits, latest, touched>>
      /\ \/ aside[s] = Old /\ pc' = "remove" /\ j' = j + 1
         \/ pc' = "putBack" /\ j' = 0
  BY FaultTyped DEF Verify, Verifies
<1>2. /\ j < Len(Removals) /\ j \in Nat /\ j + 1 \in DOMAIN Removals /\ s = Removals[j + 1]
      /\ s \in Path /\ s \in Source
  BY <1>1, InHand DEF TypeOK, Turn
<1> HIDE DEF s
<1>3. Gone(s) /\ (Old \in {disk[s], aside[s]} \/ s \in touched)
  BY <1>1, <1>2 DEF Sources, SourceAt, Gone, Removing
<1>4. TypeOK' /\ Turn'
  BY <1>1, <1>2 DEF TypeOK, Pc, Turn, Writing, Removing
<1>5. native /\ latest[s] # None => latest[s] \in {disk'[s], aside'[s]}
  BY <1>1, <1>2 DEF NothingLost
<1>6. /\ Fresh' /\ Placed' /\ Unplaced' /\ Elsewhere' /\ NothingLost'
      /\ \A i \in DOMAIN Removals : Removals[i] # s => SourceAt(i)'
  BY <1>1, <1>2, <1>5, RemovalFrame DEF s, Removing
<1>7. ASSUME NEW i \in DOMAIN Removals, i = j + 1
      PROVE  SourceAt(i)'
  BY <1>7, <1>1, <1>2, <1>3 DEF SourceAt, Gone, Writing, Removing
<1>8. Sources'
  BY <1>1, <1>2, <1>6, <1>7 DEF Sources, SourceAt, Gone, Writing, Removing
<1> QED
  BY <1>4, <1>6, <1>8 DEF IInv

LEMMA DropSourcesStep ==
  ASSUME TypeOK, Inv, DropSources
  PROVE  IInv'
<1> USE Shape, Fixed DEF None, Old, New, Inv
<1>1. /\ pc = "remove" /\ j = Len(Removals) /\ pc' = "ok"
      /\ UNCHANGED <<batch, native, disk, n, j, bad, kept, edits, faults, latest, touched>>
      /\ aside' \in [Path -> Bytes]
      /\ \A p \in Path : aside'[p] = IF p \in Source THEN None ELSE aside[p]
  BY WriteBatchAssumption DEF DropSources, TypeOK, Bytes
<1>2. ASSUME NEW i \in DOMAIN Removals
      PROVE  aside[Removals[i]] \in {None, Old} /\ Gone(Removals[i])
  BY <1>1, <1>2 DEF Sources, SourceAt, Gone, Removing
<1>3. TypeOK' /\ Turn'
  BY <1>1 DEF TypeOK, Pc, Turn, Writing, Removing
<1>4. Placed' /\ Unplaced'
  BY <1>1 DEF TypeOK, Turn, Placed, PlacedAt, Unplaced, Untouched, Writing, Removing
<1>5. Sources'
  BY <1>1, <1>2 DEF Sources, SourceAt, Gone, Writing, Removing
<1>6. Fresh' /\ Elsewhere'
  BY <1>1 DEF Fresh, Elsewhere
<1>7. NothingLost'
  <2> SUFFICES ASSUME native, NEW p \in Path, latest[p] # None
               PROVE  latest[p] \in {disk[p], aside'[p]}
    BY <1>1 DEF NothingLost
  <2>1. latest[p] \in {disk[p], aside[p]} /\ latest[p] > New
    BY DEF NothingLost, Fresh
  <2>2. CASE p \in Source
    <3>1. aside[p] \in {None, Old}
      BY <2>2, <1>2 DEF Source
    <3> QED
      BY <2>1, <3>1
  <2>3. CASE p \notin Source
    BY <2>1, <2>3, <1>1
  <2> QED
    BY <2>2, <2>3
<1> QED
  BY <1>3, <1>4, <1>5, <1>6, <1>7 DEF IInv

LEMMA PutBackStep ==
  ASSUME TypeOK, Inv, PutBack
  PROVE  IInv'
<1> USE Shape, Fixed DEF None, Old, New, Inv
<1> DEFINE s == NextSource
<1>1. /\ pc = "putBack" /\ j < Len(Removals) /\ j' = j + 1 /\ faults' \in 0 .. MaxFaults
      /\ UNCHANGED <<batch, native, pc, n, bad, edits, latest, touched>>
      /\ \/ MoveBack(s) /\ kept' = kept
         \/ aside[s] = None /\ UNCHANGED <<disk, aside>> /\ kept' = kept
         \/ UNCHANGED <<disk, aside>> /\ kept' = kept \cup {s}
  BY FaultTyped DEF PutBack, Keep
<1>2. /\ j \in Nat /\ j + 1 \in DOMAIN Removals /\ s = Removals[j + 1]
      /\ s \in Path /\ s \in Source
  BY <1>1, InHand DEF TypeOK
<1> HIDE DEF s
<1>3. Old \in {disk[s], aside[s]} \/ s \in touched
  BY <1>1, <1>2 DEF Sources, SourceAt
<1>4. /\ disk' \in [Path -> Bytes] /\ aside' \in [Path -> Bytes]
      /\ \A q \in Path \ {s} : disk'[q] = disk[q] /\ aside'[q] = aside[q]
      /\ \/ disk[s] = None /\ disk'[s] = aside[s] /\ aside'[s] = None
         \/ disk'[s] = disk[s] /\ aside'[s] = aside[s] /\ (aside[s] = None \/ s \in kept')
  <2>1. CASE MoveBack(s)
    BY <2>1, <1>2, WriteBatchAssumption DEF TypeOK, MoveBack, Bytes
  <2>2. CASE UNCHANGED <<disk, aside>> /\ (aside[s] = None \/ s \in kept')
    BY <2>2 DEF TypeOK
  <2> QED
    BY <1>1, <2>1, <2>2
<1>5. TypeOK' /\ Turn'
  BY <1>1, <1>2, <1>4 DEF TypeOK, Pc, Turn, Writing, Removing
<1>6. native /\ latest[s] # None => latest[s] \in {disk'[s], aside'[s]}
  BY <1>2, <1>4 DEF NothingLost
<1>7. /\ Fresh' /\ Placed' /\ Unplaced' /\ Elsewhere' /\ NothingLost'
      /\ \A i \in DOMAIN Removals : Removals[i] # s => SourceAt(i)'
  BY <1>1, <1>2, <1>4, <1>6, RemovalFrame DEF s, Removing
<1>8. ASSUME NEW i \in DOMAIN Removals, i = j + 1
      PROVE  SourceAt(i)'
  BY <1>8, <1>1, <1>2, <1>3, <1>4 DEF SourceAt, Gone, Writing, Removing
<1>9. Sources'
  BY <1>1, <1>2, <1>7, <1>8 DEF Sources, SourceAt, Gone, Writing, Removing
<1> QED
  BY <1>5, <1>7, <1>9 DEF IInv

LEMMA PutBackDoneStep ==
  ASSUME TypeOK, Inv, PutBackDone
  PROVE  IInv'
<1> USE Shape, Fixed DEF None, Old, New, Inv, PutBackDone
<1>1. pc' = "undo" /\ n' = n
  BY DEF Fail
<1>2. TypeOK' /\ Turn'
  BY <1>1 DEF TypeOK, Pc, Turn, Writing, Removing
<1>3. Placed' /\ Unplaced'
  BY <1>1 DEF TypeOK, Turn, Placed, PlacedAt, Unplaced, Untouched, Writing, Removing
<1>4. Sources'
  BY <1>1 DEF Sources, SourceAt, Gone, Writing, Removing
<1> QED
  BY <1>1, <1>2, <1>3, <1>4, FilesAlone DEF IInv

------------------------------------------------------------------------------
(* The rollback.                                                           *)

\* The rollback holds the last write aside, or its name is empty by now.
LEMMA HeldStep ==
  ASSUME TypeOK, Inv, pc \in {"undo", "undoUnlink"}, n > 0, pc' \in {"undoUnlink", "settle"},
         native => pc' = "settle",
         pc' = "settle" => disk'[LastWrite.path] = None,
         disk' \in [Path -> Bytes], aside' \in [Path -> Bytes], faults' \in 0 .. MaxFaults,
         \A q \in Path \ {LastWrite.path} : disk'[q] = disk[q] /\ aside'[q] = aside[q],
         native /\ latest[LastWrite.path] # None
           => latest[LastWrite.path] \in {disk'[LastWrite.path], aside'[LastWrite.path]},
         UNCHANGED <<batch, native, n, j, bad, kept, edits, latest, touched>>
  PROVE  IInv'
<1> USE Shape, Fixed DEF None, Old, New, Inv
<1> DEFINE p == LastWrite.path
<1>1. n \in DOMAIN Writes /\ n \in Nat /\ p = Writes[n].path /\ p \in Path /\ p \in Target
  BY InHand DEF TypeOK
<1>2. /\ pc' = "settle" => disk'[p] = None
      /\ \A q \in Path \ {p} : disk'[q] = disk[q] /\ aside'[q] = aside[q]
      /\ native /\ latest[p] # None => latest[p] \in {disk'[p], aside'[p]}
  OBVIOUS
<1> HIDE DEF p
<1>3. TypeOK' /\ Turn'
  BY <1>1 DEF TypeOK, Pc, Turn, Writing, Removing
<1>4. Placed'
  <2> SUFFICES ASSUME NEW i \in DOMAIN Writes, i <= n
               PROVE  PlacedAt(i)'
    BY DEF Placed, PlacedAt
  <2>1. CASE i = n
    BY <2>1, <1>1, <1>2 DEF PlacedAt, Writing, Removing
  <2>2. CASE i # n
    <3>1. i < n /\ Writes[i].path \in Path \ {p}
      BY <2>2, <1>1
    <3> QED
      BY <3>1, <1>1, <1>2 DEF Placed, PlacedAt, Writing, Removing
  <2> QED
    BY <2>1, <2>2
<1>5. Unplaced'
  <2> SUFFICES ASSUME NEW i \in DOMAIN Writes, i > n
               PROVE  Writes[i].path \in bad \/ Untouched(Writes[i].path)'
    BY DEF Unplaced
  <2>1. Writes[i].path \in Path \ {p}
    BY <1>1
  <2> QED
    BY <2>1, <1>2 DEF Unplaced, Untouched
<1>6. Sources'
  BY <1>1, <1>2 DEF Sources, SourceAt, Gone, Writing, Removing
<1>7. Fresh' /\ Elsewhere' /\ NothingLost'
  BY <1>1, <1>2 DEF Fresh, Elsewhere, NothingLost
<1> QED
  BY <1>3, <1>4, <1>5, <1>6, <1>7 DEF IInv

\* The rollback is done with the last write: it is undone, or told of.
LEMMA BackStep ==
  ASSUME TypeOK, Inv, pc \in {"undo", "undoUnlink", "settle"}, n > 0, pc' = "undo", n' = n - 1,
         disk' \in [Path -> Bytes], aside' \in [Path -> Bytes], faults' \in 0 .. MaxFaults,
         \A q \in Path \ {LastWrite.path} : disk'[q] = disk[q] /\ aside'[q] = aside[q],
         native /\ latest[LastWrite.path] # None
           => latest[LastWrite.path] \in {disk'[LastWrite.path], aside'[LastWrite.path]},
         bad' \in {bad, bad \cup {LastWrite.path}},
         \/ LastWrite.path \in bad'
         \/ /\ disk'[LastWrite.path] = LastWrite.prev \/ LastWrite.path \in touched
            /\ disk'[LastWrite.path] # New /\ aside'[LastWrite.path] = None,
         UNCHANGED <<batch, native, j, kept, edits, latest, touched>>
  PROVE  IInv'
<1> USE Shape, Fixed DEF None, Old, New, Inv
<1> DEFINE p == LastWrite.path
<1>1. /\ n \in DOMAIN Writes /\ n \in Nat /\ p = Writes[n].path /\ p \in Path /\ p \in Target
      /\ Pre(p) = LastWrite.prev
  BY InHand DEF TypeOK
<1>2. /\ \A q \in Path \ {p} : disk'[q] = disk[q] /\ aside'[q] = aside[q]
      /\ native /\ latest[p] # None => latest[p] \in {disk'[p], aside'[p]}
      /\ bad' \in {bad, bad \cup {p}}
      /\ \/ p \in bad'
         \/ (disk'[p] = Pre(p) \/ p \in touched) /\ disk'[p] # New /\ aside'[p] = None
  BY <1>1
<1> HIDE DEF p
<1>3. TypeOK' /\ Turn'
  BY <1>1, <1>2 DEF TypeOK, Pc, Turn, Writing, Removing
<1>4. Placed'
  <2> SUFFICES ASSUME NEW i \in DOMAIN Writes, i <= n - 1
               PROVE  PlacedAt(i)'
    BY DEF Placed, PlacedAt
  <2>1. i < n /\ Writes[i].path \in Path \ {p}
    BY <1>1
  <2> QED
    BY <2>1, <1>1, <1>2 DEF Placed, PlacedAt, Writing, Removing
<1>5. Unplaced'
  <2> SUFFICES ASSUME NEW i \in DOMAIN Writes, i > n - 1
               PROVE  Writes[i].path \in bad' \/ Untouched(Writes[i].path)'
    BY DEF Unplaced
  <2>1. CASE i = n
    BY <2>1, <1>1, <1>2 DEF Untouched
  <2>2. CASE i # n
    <3>1. i > n /\ Writes[i].path \in Path \ {p}
      BY <2>2, <1>1
    <3> QED
      BY <3>1, <1>2 DEF Unplaced, Untouched
  <2> QED
    BY <2>1, <2>2
<1>6. Sources'
  BY <1>1, <1>2 DEF Sources, SourceAt, Gone, Writing, Removing
<1>7. Fresh' /\ Elsewhere' /\ NothingLost'
  BY <1>1, <1>2 DEF Fresh, Elsewhere, NothingLost
<1> QED
  BY <1>3, <1>4, <1>5, <1>6, <1>7 DEF IInv

LEMMA UndoStep ==
  ASSUME TypeOK, Inv, Undo
  PROVE  IInv'
<1> USE DEF None, Old, New
<1> DEFINE p == LastWrite.path
<1>1. /\ pc = "undo" /\ n > 0 /\ faults' \in 0 .. MaxFaults
      /\ UNCHANGED <<batch, native, j, kept, edits, latest, touched>>
      /\ \/ MoveAside(p, "settle", "undoUnlink") /\ UNCHANGED <<n, bad>>
         \/ /\ disk[p] = None /\ (IF LastWrite.prev = None THEN Undone ELSE Left)
            /\ UNCHANGED <<disk, aside, pc>>
         \/ Left /\ UNCHANGED <<disk, aside, pc>>
  BY FaultTyped DEF Undo
<1>2. /\ n \in DOMAIN Writes /\ n \in Nat /\ p = Writes[n].path /\ p \in Path
      /\ LastWrite.prev \in {None, Old} /\ aside[p] = None
  <2>1. n \in DOMAIN Writes /\ n \in Nat /\ p = Writes[n].path /\ n <= n
    BY <1>1, InHand DEF TypeOK
  <2> QED
    BY <2>1, <1>1, Shape, InHand DEF Inv, Placed, PlacedAt
<1>3. native /\ latest[p] # None => latest[p] = disk[p]
  BY <1>2 DEF Inv, NothingLost
<1>4. CASE MoveAside(p, "settle", "undoUnlink") /\ UNCHANGED <<n, bad>>
  <2>1. /\ disk' \in [Path -> Bytes] /\ aside' \in [Path -> Bytes]
        /\ \A q \in Path \ {p} : disk'[q] = disk[q] /\ aside'[q] = aside[q]
        /\ aside'[p] = disk[p]
        /\ \/ native /\ pc' = "settle" /\ disk'[p] = None
           \/ ~native /\ pc' = "undoUnlink"
    <3>1. CASE native
      BY <3>1, <1>2, <1>4, WriteBatchAssumption DEF TypeOK, MoveAside, Bytes
    <3>2. CASE ~native
      BY <3>2, <1>2, <1>4 DEF TypeOK, MoveAside
    <3> QED
      BY <3>1, <3>2
  <2> QED
    BY <1>1, <1>3, <1>4, <2>1, HeldStep
<1>5. CASE Undone /\ LastWrite.prev = None /\ disk[p] = None /\ UNCHANGED <<disk, aside, pc>>
  BY <1>1, <1>2, <1>3, <1>5, BackStep DEF Undone, TypeOK
<1>6. CASE Left /\ UNCHANGED <<disk, aside, pc>>
  BY <1>1, <1>2, <1>3, <1>6, BackStep DEF Left, TypeOK
<1> QED
  BY <1>1, <1>4, <1>5, <1>6

LEMMA UndoUnlinkStep ==
  ASSUME TypeOK, Inv, UndoUnlink
  PROVE  IInv'
<1> USE DEF None, Old, New
<1> DEFINE p == LastWrite.path
<1>1. /\ pc = "undoUnlink" /\ n > 0 /\ ~native /\ faults' \in 0 .. MaxFaults
      /\ UNCHANGED <<batch, native, j, kept, edits, latest, touched>>
      /\ \/ /\ Unlink(p, "settle", "undo")
            /\ IF disk[p] # None THEN UNCHANGED <<n, bad>>
               ELSE IF LastWrite.prev = None THEN Undone ELSE Left
         \/ Drop(p) /\ Left /\ pc' = "undo" /\ UNCHANGED disk
  BY FaultTyped DEF UndoUnlink, Inv, Turn
<1>2. n \in DOMAIN Writes /\ n \in Nat /\ p \in Path
  BY <1>1, InHand, Shape DEF TypeOK
<1>3. CASE Unlink(p, "settle", "undo") /\ disk[p] # None /\ UNCHANGED <<n, bad>>
  <2>1. /\ disk' \in [Path -> Bytes] /\ aside' \in [Path -> Bytes]
        /\ \A q \in Path \ {p} : disk'[q] = disk[q] /\ aside'[q] = aside[q]
        /\ disk'[p] = None /\ pc' = "settle"
    BY <1>2, <1>3, WriteBatchAssumption DEF TypeOK, Unlink, Bytes
  <2> QED
    BY <1>1, <1>3, <2>1, HeldStep
<1>4. CASE /\ Unlink(p, "settle", "undo") /\ disk[p] = None
           /\ IF LastWrite.prev = None THEN Undone ELSE Left
  <2>1. /\ disk' \in [Path -> Bytes] /\ aside' \in [Path -> Bytes]
        /\ \A q \in Path \ {p} : disk'[q] = disk[q] /\ aside'[q] = aside[q]
        /\ disk'[p] = None /\ aside'[p] = None /\ pc' = "undo"
    BY <1>2, <1>4, WriteBatchAssumption DEF TypeOK, Unlink, Bytes
  <2> QED
    BY <1>1, <1>4, <2>1, BackStep DEF Undone, Left
<1>5. CASE Drop(p) /\ Left /\ pc' = "undo" /\ UNCHANGED disk
  <2>1. /\ disk' \in [Path -> Bytes] /\ aside' \in [Path -> Bytes]
        /\ \A q \in Path \ {p} : disk'[q] = disk[q] /\ aside'[q] = aside[q]
    BY <1>2, <1>5, WriteBatchAssumption DEF TypeOK, Drop, Bytes
  <2> QED
    BY <1>1, <1>5, <2>1, BackStep DEF Left
<1> QED
  BY <1>1, <1>3, <1>4, <1>5

LEMMA SettleStep ==
  ASSUME TypeOK, Inv, Settle
  PROVE  IInv'
<1> USE DEF None, Old, New
<1> DEFINE p == LastWrite.path
<1>1. /\ pc = "settle" /\ n > 0 /\ pc' = "undo"
      /\ UNCHANGED <<batch, native, j, kept, edits, latest, touched>>
  BY DEF Settle, Inv, Turn
<1>2. faults' \in 0 .. MaxFaults
  BY FaultTyped DEF Settle
<1>3. n \in DOMAIN Writes /\ n \in Nat /\ p = Writes[n].path /\ p \in Path
  BY <1>1, InHand, Shape DEF TypeOK
<1>4. /\ disk[p] # New /\ (disk[p] = None \/ p \in touched)
      /\ native /\ latest[p] # None => latest[p] \in {disk[p], aside[p]} /\ latest[p] > New
  <2>1. n <= n
    BY <1>3
  <2> QED
    BY <1>1, <1>3, <2>1 DEF Inv, Placed, PlacedAt, NothingLost, Fresh
<1>5. \/ Left /\ (MoveBack(p) \/ UNCHANGED <<disk, aside>>)
      \/ aside[p] = New /\ LastWrite.prev = None /\ Drop(p) /\ Undone /\ UNCHANGED disk
      \/ /\ aside[p] = New /\ LastWrite.prev # None /\ disk[p] = None
         /\ disk' = [disk EXCEPT ![p] = Old] /\ Drop(p) /\ Undone
      \/ aside[p] = New /\ Drop(p) /\ Left /\ UNCHANGED disk
  BY DEF Settle, Ours
<1> HIDE DEF p
<1>6. CASE Left /\ MoveBack(p)
  <2>1. /\ disk' \in [Path -> Bytes] /\ aside' \in [Path -> Bytes]
        /\ \A q \in Path \ {p} : disk'[q] = disk[q] /\ aside'[q] = aside[q]
        /\ disk[p] = None /\ disk'[p] = aside[p]
    BY <1>3, <1>6, WriteBatchAssumption DEF TypeOK, MoveBack, Bytes
  <2> QED
    BY <1>1, <1>2, <1>4, <1>6, <2>1, BackStep DEF Left, p
<1>7. CASE Left /\ UNCHANGED <<disk, aside>>
  BY <1>1, <1>2, <1>4, <1>7, BackStep DEF Left, p, TypeOK
<1>8. CASE aside[p] = New /\ LastWrite.prev = None /\ Drop(p) /\ Undone /\ UNCHANGED disk
  <2>1. /\ disk' \in [Path -> Bytes] /\ aside' \in [Path -> Bytes]
        /\ \A q \in Path \ {p} : disk'[q] = disk[q] /\ aside'[q] = aside[q]
        /\ disk'[p] = disk[p] /\ aside'[p] = None
    BY <1>3, <1>8, WriteBatchAssumption DEF TypeOK, Drop, Bytes
  <2> QED
    BY <1>1, <1>2, <1>4, <1>8, <2>1, BackStep DEF Undone, p
<1>9. CASE /\ aside[p] = New /\ LastWrite.prev # None /\ disk[p] = None
           /\ disk' = [disk EXCEPT ![p] = Old] /\ Drop(p) /\ Undone
  <2>1. /\ disk' \in [Path -> Bytes] /\ aside' \in [Path -> Bytes]
        /\ \A q \in Path \ {p} : disk'[q] = disk[q] /\ aside'[q] = aside[q]
        /\ disk'[p] = Old /\ aside'[p] = None
    BY <1>3, <1>9, WriteBatchAssumption DEF TypeOK, Drop, Bytes
  <2>2. LastWrite.prev = Old
    BY <1>1, <1>3, <1>9, Shape, InHand
  <2> QED
    BY <1>1, <1>2, <1>4, <1>9, <2>1, <2>2, BackStep DEF Undone, p
<1>10. CASE aside[p] = New /\ Drop(p) /\ Left /\ UNCHANGED disk
  <2>1. /\ disk' \in [Path -> Bytes] /\ aside' \in [Path -> Bytes]
        /\ \A q \in Path \ {p} : disk'[q] = disk[q] /\ aside'[q] = aside[q]
        /\ disk'[p] = disk[p]
    BY <1>3, <1>10, WriteBatchAssumption DEF TypeOK, Drop, Bytes
  <2> QED
    BY <1>1, <1>2, <1>4, <1>10, <2>1, BackStep DEF Left, p
<1> QED
  BY <1>5, <1>6, <1>7, <1>8, <1>9, <1>10

LEMMA UndoDoneStep ==
  ASSUME TypeOK, Inv, UndoDone
  PROVE  IInv'
<1> USE Shape, Fixed DEF None, Old, New, Inv, UndoDone
<1>1. TypeOK' /\ Turn'
  BY DEF TypeOK, Pc, Turn, Writing, Removing
<1>2. Placed' /\ Unplaced'
  BY DEF TypeOK, Placed, PlacedAt, Unplaced, Untouched, Writing, Removing
<1>3. Sources'
  BY DEF Sources, SourceAt, Gone, Writing, Removing
<1> QED
  BY <1>1, <1>2, <1>3, FilesAlone DEF IInv

------------------------------------------------------------------------------
(* The editor.                                                             *)

\* What the editor does to a file changes nothing else.
LEMMA EditStep ==
  ASSUME TypeOK, Inv, NEW q \in Target \cup Source, edits' \in 0 .. MaxEdits,
         disk' \in [Path -> Bytes], latest' \in [Path -> Bytes],
         \A p \in Path \ {q} : disk'[p] = disk[p] /\ latest'[p] = latest[p],
         disk'[q] = latest'[q], latest'[q] = None \/ latest'[q] > New,
         touched' = touched \cup {q},
         UNCHANGED <<batch, native, aside, pc, n, j, bad, kept, faults>>
  PROVE  IInv'
<1> USE Shape, Fixed DEF None, Old, New, Inv
<1>1. q \in Path
  BY DEF Target, Source
<1>2. TypeOK' /\ Turn'
  BY <1>1 DEF TypeOK, Turn
<1>3. Placed'
  BY <1>1 DEF Placed, PlacedAt
<1>4. Unplaced'
  BY <1>1 DEF Unplaced, Untouched
<1>5. Sources'
  BY <1>1 DEF Sources, SourceAt, Gone
<1>6. Fresh' /\ Elsewhere' /\ NothingLost'
  BY <1>1 DEF Fresh, Elsewhere, NothingLost
<1> QED
  BY <1>2, <1>3, <1>4, <1>5, <1>6 DEF IInv

LEMMA SaveStep ==
  ASSUME TypeOK, Inv, NEW q \in Target \cup Source, Save(q)
  PROVE  IInv'
<1> USE DEF None, Old, New
<1>1. q \in Path
  BY Shape DEF Target, Source
<1>2. edits' \in 0 .. MaxEdits /\ 2 + edits' \in Bytes /\ 2 + edits' > 2
  BY WriteBatchAssumption DEF Save, TypeOK, Bytes
<1>3. /\ disk' \in [Path -> Bytes] /\ latest' \in [Path -> Bytes]
      /\ \A p \in Path \ {q} : disk'[p] = disk[p] /\ latest'[p] = latest[p]
      /\ disk'[q] = 2 + edits' /\ latest'[q] = 2 + edits'
  BY <1>1, <1>2 DEF Save, TypeOK
<1> QED
  BY <1>2, <1>3, EditStep DEF Save

LEMMA DeleteStep ==
  ASSUME TypeOK, Inv, NEW q \in Target \cup Source, Delete(q)
  PROVE  IInv'
<1> USE DEF None, Old, New
<1>1. q \in Path
  BY Shape DEF Target, Source
<1>2. edits' \in 0 .. MaxEdits /\ 0 \in Bytes
  BY WriteBatchAssumption DEF Delete, TypeOK, Bytes
<1>3. /\ disk' \in [Path -> Bytes] /\ latest' \in [Path -> Bytes]
      /\ \A p \in Path \ {q} : disk'[p] = disk[p] /\ latest'[p] = latest[p]
      /\ disk'[q] = 0 /\ latest'[q] = 0
  BY <1>1, <1>2 DEF Delete, TypeOK
<1> QED
  BY <1>2, <1>3, EditStep DEF Delete

------------------------------------------------------------------------------
(* The theorems.                                                           *)

LEMMA Initially == Init => IInv
<1> SUFFICES ASSUME Init
             PROVE  IInv
  OBVIOUS
<1> USE WriteBatchAssumption DEF Init, None, Old, New
<1>1. TypeOK
  <2>1. \A p \in Path : Pre(p) \in Bytes /\ 0 \in Bytes
    BY DEF Pre, Bytes
  <2>2. disk \in [Path -> Bytes] /\ aside \in [Path -> Bytes] /\ latest \in [Path -> Bytes]
    BY <2>1
  <2>3. Len(Writes) \in Nat /\ Len(Removals) \in Nat
    BY DEF Writes, Removals
  <2> QED
    BY <2>2, <2>3 DEF TypeOK, Pc
<1>2. /\ \A i \in DOMAIN Writes : Writes[i].path \in Path
      /\ \A i \in DOMAIN Removals : Removals[i] \in Path /\ Pre(Removals[i]) = Old
      /\ \A p \in Path : Pre(p) \in {None, Old}
  BY <1>1, Shape DEF Pre
<1>3. Turn /\ Placed
  BY <1>1, Shape DEF Turn, Placed, Writing, Removing
<1>4. Unplaced
  BY <1>2 DEF Unplaced, Untouched
<1>5. Sources
  BY <1>2 DEF Sources, SourceAt, Gone, Writing, Removing
<1>6. Fresh /\ Elsewhere /\ NothingLost
  BY DEF Fresh, Elsewhere, NothingLost
<1> QED
  BY <1>1, <1>3, <1>4, <1>5, <1>6 DEF IInv, Inv

LEMMA Inductive == IInv /\ [Next]_vars => IInv'
<1> SUFFICES ASSUME TypeOK, Inv, [Next]_vars
             PROVE  IInv'
  BY DEF IInv
<1>1. CASE Stage \/ Check \/ Rename \/ WritesDone
  BY <1>1, StageStep, CheckStep, RenameStep, WritesDoneStep
<1>2. CASE Remove \/ RemoveUnlink \/ Verify \/ DropSources \/ PutBack \/ PutBackDone
  BY <1>2, RemoveStep, RemoveUnlinkStep, VerifyStep, DropSourcesStep, PutBackStep,
     PutBackDoneStep
<1>3. CASE Undo \/ UndoUnlink \/ Settle \/ UndoDone
  BY <1>3, UndoStep, UndoUnlinkStep, SettleStep, UndoDoneStep
<1>4. ASSUME NEW q \in Target \cup Source, Save(q) \/ Delete(q)
      PROVE  IInv'
  BY <1>4, SaveStep, DeleteStep
<1>5. CASE UNCHANGED vars
  <2>1. UNCHANGED <<batch, native, disk, aside, pc, n, j, bad, kept, edits, faults, latest, touched>>
    BY <1>5 DEF vars
  <2>2. TypeOK' /\ Turn'
    BY <2>1, Fixed DEF TypeOK, Inv, Turn
  <2>3. Placed' /\ Unplaced' /\ Sources'
    BY <2>1, Fixed, Shape DEF Inv, Placed, PlacedAt, Unplaced, Untouched, Sources, SourceAt, Gone
  <2> QED
    BY <2>1, <2>2, <2>3, FilesAlone DEF IInv, Inv
<1> QED
  BY <1>1, <1>2, <1>3, <1>4, <1>5 DEF Next

\* Whatever the batch, the failures and the edits, every reachable state of a write batch
\* is well typed: write-batch.ts keeps done an initial part of the batch, and puts in its
\* errors notes of the batch only.
THEOREM TypeCorrect == Spec => []TypeOK
<1>1. IInv => TypeOK
  BY DEF IInv
<1> QED
  BY <1>1, Initially, Inductive, PTL DEF Spec

\* With a rename that moves, applyWriteBatch and its rollback never destroy what the editor
\* saved last, for any batch, any number of edits and any failures (undoWrittenNote,
\* removeUnchanged: only what was moved aside and compared is dropped).
THEOREM EditsKept == Spec => []NothingLost
<1>1. IInv => NothingLost
  BY DEF IInv, Inv
<1> QED
  BY <1>1, Initially, Inductive, PTL DEF Spec

\* A batch that returns has landed whole, and one that throws leaves every file as it was
\* planned, but those its error names and those the editor changed (applyWriteBatch).
THEOREM WholeOrNamed == Spec => []LandsOrTells
<1>1. ASSUME TypeOK, Inv
      PROVE  LandsOrTells
  <2> USE <1>1, Shape DEF None, Old, New, Inv
  <2>1. CASE pc = "ok"
    <3>1. n = Len(Writes) /\ \A i \in DOMAIN Writes : i <= n
      BY <2>1 DEF Turn
    <3>2. ASSUME NEW p \in Target
          PROVE  (disk[p] = New \/ p \in touched) /\ aside[p] = None
      BY <2>1, <3>1, <3>2 DEF Target, Placed, PlacedAt
    <3>3. ASSUME NEW p \in Source
          PROVE  (disk[p] = None \/ p \in touched) /\ aside[p] = None
      BY <2>1, <3>3 DEF Source, Sources, SourceAt, Gone
    <3>4. \A p \in Path : aside[p] = None
      BY <3>2, <3>3 DEF Elsewhere
    <3> QED
      BY <2>1, <3>2, <3>3, <3>4 DEF LandsOrTells
  <2>2. CASE pc \in {"failed", "incomplete"}
    <3>1. n = 0 /\ \A i \in DOMAIN Writes : i > n
      BY <2>2 DEF Turn
    <3>2. ASSUME NEW p \in Target
          PROVE  p \in bad \/ Untouched(p)
      BY <3>1, <3>2 DEF Target, Unplaced, Untouched
    <3>3. ASSUME NEW p \in Source
          PROVE  /\ Old \in {disk[p], aside[p]} \/ p \in touched
                 /\ aside[p] = None \/ p \in kept
      BY <2>2, <3>3 DEF Source, Sources, SourceAt
    <3> QED
      BY <2>2, <3>2, <3>3 DEF LandsOrTells, Told, Untouched
  <2> QED
    BY <2>1, <2>2 DEF LandsOrTells
<1>2. IInv => LandsOrTells
  BY <1>1 DEF IInv
<1> QED
  BY <1>2, Initially, Inductive, PTL DEF Spec
=============================================================================
