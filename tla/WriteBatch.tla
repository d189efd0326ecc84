------------------------------ MODULE WriteBatch ------------------------------
(***************************************************************************)
(* A batch of note writes that lands as a unit: every note is staged, the  *)
(* notes are replaced one by one, each after a last look at its bytes, the *)
(* sources of a move are removed at the end, and a failure anywhere undoes *)
(* what was done, while an editor saves and deletes the same files.        *)
(*                                                                         *)
(* Source: vault/write-batch.ts, with vault/notes-io.ts for the moves.     *)
(*                                                                         *)
(* What a name holds is a number: 0 nothing, 1 what the batch was planned  *)
(* from, 2 what it writes, and from 3 on the saves of the editor, each new.*)
(* The temporary names of the batch are its own; nobody else touches them. *)
(***************************************************************************)
EXTENDS Naturals, Sequences, FiniteSets

CONSTANTS
  Batches,    \* the batches considered: their writes and their removals
  MaxEdits,   \* bound: saves and deletions by the editor
  MaxFaults   \* bound: operations on files that fail

None == 0
Old == 1
New == 2
Bytes == 0 .. 2 + MaxEdits

Path == UNION {{b.writes[i].path : i \in DOMAIN b.writes} : b \in Batches}
        \cup UNION {{b.removals[i] : i \in DOMAIN b.removals} : b \in Batches}

\* A batch names a file once, as every caller sees to: move-copy.ts:98-120 skips the two
\* notes that move, bulk-tools.ts:455-478 refuses a name claimed twice and a chain of
\* moves, commit-wiki-page.ts:273-285 a second entry for one file; the others write one
\* note, or notes found by one walk and a source that is no note.
ASSUME WriteBatchAssumption ==
  /\ MaxEdits \in Nat /\ MaxFaults \in Nat
  /\ \A b \in Batches :
       /\ b.writes \in Seq([path : Path, prev : {None, Old}]) /\ b.removals \in Seq(Path)
       /\ \A i, k \in DOMAIN b.writes : b.writes[i].path = b.writes[k].path => i = k
       /\ \A i, k \in DOMAIN b.removals : b.removals[i] = b.removals[k] => i = k
       /\ \A i \in DOMAIN b.writes, k \in DOMAIN b.removals : b.writes[i].path # b.removals[k]

VARIABLES
  batch,    \* the arguments of applyWriteBatch
  native,   \* TRUE: a move is one rename; FALSE: a link and an unlink
  disk,     \* disk[p]: what the name holds
  aside,    \* aside[p]: what the batch holds beside it under a name of its own
  pc,
  n,        \* done: the writes in place, an initial part of the batch
  j,        \* the removals behind us
  bad,      \* stuck and diverged
  kept,     \* sources that could not be put back
  edits, faults,
  latest,   \* history: the editor's last save of p, None once it was answered for
  touched   \* history: what the editor saved or deleted

vars == <<batch, native, disk, aside, pc, n, j, bad, kept, edits, faults, latest, touched>>

Writes == batch.writes
Removals == batch.removals
Target == {Writes[i].path : i \in DOMAIN Writes}
Source == {Removals[i] : i \in DOMAIN Removals}

\* What p held when the batch was planned.
Pre(p) == IF \E i \in DOMAIN Writes : Writes[i].path = p /\ Writes[i].prev = None THEN None ELSE Old

Pc == {"stage", "check", "rename", "remove", "removeUnlink", "verify", "putBack",
       "undo", "undoUnlink", "settle", "ok", "failed", "incomplete"}

TypeOK ==
  /\ batch \in Batches /\ native \in BOOLEAN
  /\ disk \in [Path -> Bytes] /\ aside \in [Path -> Bytes] /\ latest \in [Path -> Bytes]
  /\ pc \in Pc /\ n \in 0 .. Len(Writes) /\ j \in 0 .. Len(Removals)
  /\ bad \subseteq Target /\ kept \subseteq Source /\ touched \subseteq Path
  /\ edits \in 0 .. MaxEdits /\ faults \in 0 .. MaxFaults

Init ==
  /\ batch \in Batches /\ native \in BOOLEAN
  /\ disk = [p \in Path |-> Pre(p)]
  /\ aside = [p \in Path |-> None] /\ latest = [p \in Path |-> None]
  /\ pc = "stage" /\ n = 0 /\ j = 0 /\ bad = {} /\ kept = {}
  /\ edits = 0 /\ faults = 0 /\ touched = {}

\* An operation on a file succeeds, or fails and leaves the files as they were.
Works == UNCHANGED faults
Fault == faults < MaxFaults /\ faults' = faults + 1

------------------------------------------------------------------------------
(* Writing.                                                                *)

\* All the bytes go to temporary files, then the caller's hook runs; a failure
\* of either leaves nothing behind.
Stage ==
  /\ pc = "stage"
  /\ \/ Works /\ pc' = "check"
     \/ Fault /\ pc' = "failed"
  /\ UNCHANGED <<batch, native, disk, aside, n, j, bad, kept, edits, latest, touched>>

\* A plausible slip: the last write in place is taken for the one that failed.
FailForgetsLast == pc' = "undo" /\ n' = IF n = 0 THEN 0 ELSE n - 1

\* The batch fails after staging: the rest is discarded, what is done is undone.
Fail == pc' = "undo" /\ n' = n

NextWrite == Writes[n + 1]

\* The bytes of an existing note are compared once more.
Check ==
  /\ pc = "check" /\ n < Len(Writes)
  /\ \/ /\ Works /\ NextWrite.prev \in {None, disk[NextWrite.path]}
        /\ pc' = "rename" /\ UNCHANGED n
     \/ /\ Works /\ NextWrite.prev \notin {None, disk[NextWrite.path]} /\ Fail
     \/ /\ Fault /\ NextWrite.prev # None /\ Fail
  /\ UNCHANGED <<batch, native, disk, aside, j, bad, kept, edits, latest, touched>>

\* staged.commit: a created note never replaces one; an existing one is replaced, and
\* with it whatever was saved since the look.
Rename ==
  LET p == NextWrite.path
      free == NextWrite.prev # None \/ disk[p] = None IN
  /\ pc = "rename"
  /\ \/ /\ Works /\ free
        /\ disk' = [disk EXCEPT ![p] = New] /\ latest' = [latest EXCEPT ![p] = None]
        /\ n' = n + 1 /\ pc' = "check"
     \/ /\ (Works /\ ~free) \/ Fault
        /\ Fail /\ UNCHANGED <<disk, latest>>
  /\ UNCHANGED <<batch, native, aside, j, bad, kept, edits, touched>>

WritesDone ==
  /\ pc = "check" /\ n = Len(Writes) /\ pc' = "remove"
  /\ UNCHANGED <<batch, native, disk, aside, n, j, bad, kept, edits, faults, latest, touched>>

------------------------------------------------------------------------------
(* Moving aside, and back.                                                 *)

\* moveNoReplace(p, aside): the rename, or the link that comes before the unlink.
MoveAside(p, then, unlink) ==
  /\ disk[p] # None
  /\ aside' = [aside EXCEPT ![p] = disk[p]]
  /\ disk' = [disk EXCEPT ![p] = IF native THEN None ELSE @]
  /\ pc' = IF native THEN then ELSE unlink

\* The unlink takes what the name holds by now; when that is nothing, the link goes.
Unlink(p, then, gone) ==
  /\ disk' = [disk EXCEPT ![p] = None]
  /\ aside' = [aside EXCEPT ![p] = IF disk[p] = None THEN None ELSE @]
  /\ pc' = IF disk[p] = None THEN gone ELSE then

\* moveNoReplace(aside, p).
MoveBack(p) ==
  /\ disk[p] = None
  /\ disk' = [disk EXCEPT ![p] = aside[p]] /\ aside' = [aside EXCEPT ![p] = None]

Drop(p) == aside' = [aside EXCEPT ![p] = None]

------------------------------------------------------------------------------
(* removeUnchanged.                                                        *)

NextSource == Removals[j + 1]

\* holds: the file moved aside is the one that was planned.
Verifies(p) == aside[p] = Old

\* The next source is moved aside; one that is gone is removed already.
Remove ==
  /\ pc = "remove" /\ j < Len(Removals)
  /\ \/ /\ Works /\ MoveAside(NextSource, "verify", "removeUnlink") /\ UNCHANGED j
     \/ /\ Works /\ disk[NextSource] = None /\ j' = j + 1 /\ UNCHANGED <<disk, aside, pc>>
     \/ /\ Fault /\ pc' = "putBack" /\ j' = 0 /\ UNCHANGED <<disk, aside>>
  /\ UNCHANGED <<batch, native, n, bad, kept, edits, latest, touched>>

RemoveUnlink ==
  /\ pc = "removeUnlink"
  /\ \/ /\ Works /\ Unlink(NextSource, "verify", "remove")
        /\ j' = IF disk[NextSource] = None THEN j + 1 ELSE j
     \/ /\ Fault /\ Drop(NextSource) /\ pc' = "putBack" /\ j' = 0 /\ UNCHANGED disk
  /\ UNCHANGED <<batch, native, n, bad, kept, edits, latest, touched>>

Verify ==
  /\ pc = "verify"
  /\ \/ Works /\ Verifies(NextSource) /\ pc' = "remove" /\ j' = j + 1
     \/ ((Works /\ ~Verifies(NextSource)) \/ Fault) /\ pc' = "putBack" /\ j' = 0
  /\ UNCHANGED <<batch, native, disk, aside, n, bad, kept, edits, latest, touched>>

\* Every source verified: they are dropped, and the batch has landed.
DropSources ==
  /\ pc = "remove" /\ j = Len(Removals)
  /\ aside' = [p \in Path |-> IF p \in Source THEN None ELSE aside[p]]
  /\ pc' = "ok"
  /\ UNCHANGED <<batch, native, disk, n, j, bad, kept, edits, faults, latest, touched>>

\* A plausible slip: the source joins the notes that were not undone.
KeepAsBad(p) == bad' = bad \cup {p} /\ UNCHANGED kept

\* A source that cannot be put back is kept under its temporary name.
Keep(p) == kept' = kept \cup {p} /\ UNCHANGED bad

\* One source is put back, unless its name was taken.
PutBack ==
  /\ pc = "putBack" /\ j < Len(Removals)
  /\ \/ /\ Works /\ aside[NextSource] # None /\ MoveBack(NextSource) /\ UNCHANGED <<bad, kept>>
     \/ /\ Works /\ aside[NextSource] = None /\ UNCHANGED <<disk, aside, bad, kept>>
     \/ /\ (Works /\ disk[NextSource] # None) \/ Fault
        /\ aside[NextSource] # None /\ Keep(NextSource) /\ UNCHANGED <<disk, aside>>
  /\ j' = j + 1
  /\ UNCHANGED <<batch, native, pc, n, edits, latest, touched>>

PutBackDone ==
  /\ pc = "putBack" /\ j = Len(Removals) /\ Fail
  /\ UNCHANGED <<batch, native, disk, aside, j, bad, kept, edits, faults, latest, touched>>

------------------------------------------------------------------------------
(* undoWrittenNote, last write first.                                      *)

LastWrite == Writes[n]

Undone == n' = n - 1 /\ UNCHANGED bad
Left == n' = n - 1 /\ bad' = bad \cup {LastWrite.path}

\* The note is moved aside; one that is gone is undone when it was created.
Undo ==
  LET p == LastWrite.path IN
  /\ pc = "undo" /\ n > 0
  /\ \/ /\ Works /\ MoveAside(p, "settle", "undoUnlink") /\ UNCHANGED <<n, bad>>
     \/ /\ Works /\ disk[p] = None /\ (IF LastWrite.prev = None THEN Undone ELSE Left)
        /\ UNCHANGED <<disk, aside, pc>>
     \/ /\ Fault /\ Left /\ UNCHANGED <<disk, aside, pc>>
  /\ UNCHANGED <<batch, native, j, kept, edits, latest, touched>>

UndoUnlink ==
  LET p == LastWrite.path IN
  /\ pc = "undoUnlink"
  /\ \/ /\ Works /\ Unlink(p, "settle", "undo")
        /\ IF disk[p] # None THEN UNCHANGED <<n, bad>>
           ELSE IF LastWrite.prev = None THEN Undone ELSE Left
     \/ /\ Fault /\ Drop(p) /\ Left /\ pc' = "undo" /\ UNCHANGED disk
  /\ UNCHANGED <<batch, native, j, kept, edits, latest, touched>>

\* A plausible slip: what was moved aside is taken for the batch's own.
OursAnyway(p) == TRUE

\* What was moved aside is exactly what the batch wrote.
Ours(p) == aside[p] = New

\* Ours is dropped and the old bytes created in its place; anything else goes back,
\* and so does what cannot be read, or what the old bytes could not replace.
Settle ==
  LET p == LastWrite.path
      back == Works /\ MoveBack(p)
      stay == ((Works /\ disk[p] # None) \/ Fault) /\ UNCHANGED <<disk, aside>> IN
  /\ pc = "settle"
  /\ \/ ~Ours(p) /\ (back \/ stay) /\ Left
     \/ /\ Ours(p) /\ LastWrite.prev = None /\ Works /\ Drop(p) /\ Undone /\ UNCHANGED disk
     \/ /\ Ours(p) /\ LastWrite.prev # None /\ Works /\ disk[p] = None
        /\ disk' = [disk EXCEPT ![p] = Old] /\ Drop(p) /\ Undone
     \/ /\ Ours(p) /\ LastWrite.prev # None /\ Works /\ disk[p] # None
        /\ Drop(p) /\ Left /\ UNCHANGED disk
     \/ /\ Ours(p) /\ Fault /\ Left
        /\ MoveBack(p) \/ UNCHANGED <<disk, aside>>
  /\ pc' = "undo"
  /\ UNCHANGED <<batch, native, j, kept, edits, latest, touched>>

\* The error says whether everything is back.
UndoDone ==
  /\ pc = "undo" /\ n = 0
  /\ pc' = IF bad = {} /\ kept = {} THEN "failed" ELSE "incomplete"
  /\ UNCHANGED <<batch, native, disk, aside, n, j, bad, kept, edits, faults, latest, touched>>

\* The names the error carries: when a write was not undone, those alone.
Told == IF bad # {} THEN bad ELSE kept

------------------------------------------------------------------------------
(* The editor, another process: it saves by a rename.                      *)

Save(p) ==
  /\ edits < MaxEdits /\ edits' = edits + 1
  /\ disk' = [disk EXCEPT ![p] = New + edits'] /\ latest' = [latest EXCEPT ![p] = New + edits']
  /\ touched' = touched \cup {p}
  /\ UNCHANGED <<batch, native, aside, pc, n, j, bad, kept, faults>>

Delete(p) ==
  /\ edits < MaxEdits /\ edits' = edits + 1 /\ disk[p] # None
  /\ disk' = [disk EXCEPT ![p] = None] /\ latest' = [latest EXCEPT ![p] = None]
  /\ touched' = touched \cup {p}
  /\ UNCHANGED <<batch, native, aside, pc, n, j, bad, kept, faults>>

Next ==
  \/ Stage \/ Check \/ Rename \/ WritesDone
  \/ Remove \/ RemoveUnlink \/ Verify \/ DropSources \/ PutBack \/ PutBackDone
  \/ Undo \/ UndoUnlink \/ Settle \/ UndoDone
  \/ \E p \in Target \cup Source : Save(p) \/ Delete(p)

Spec == Init /\ [][Next]_vars

------------------------------------------------------------------------------
(* Properties.                                                             *)

\* With a rename that moves, what the editor saved last is never destroyed, but in the
\* gap between the last look at a note and its replacement: it is under its name or
\* beside it (undoWrittenNote, "destroying nothing the batch did not write").
NothingLost ==
  native => \A p \in Path : latest[p] # None => latest[p] \in {disk[p], aside[p]}

\* A batch that succeeds has written every note and removed every source.  A batch
\* that fails leaves every file as it was planned; what does not hold its old bytes is
\* named in the error or was changed by the editor, and no byte of the batch stays
\* under a note's name, and nothing stays beside one, without the error naming it.
LandsOrTells ==
  /\ pc = "ok" =>
       /\ \A p \in Target : disk[p] = New \/ p \in touched
       /\ \A p \in Source : disk[p] = None \/ p \in touched
       /\ \A p \in Path : aside[p] = None
  /\ pc \in {"failed", "incomplete"} =>
       /\ \A p \in Target : disk[p] = Pre(p) \/ p \in touched \cup Told
       /\ \A p \in Source : Old \in {disk[p], aside[p]} \/ p \in touched
       /\ \A p \in Target : disk[p] = New \/ aside[p] # None => p \in Told
       /\ \A p \in Source : aside[p] # None => bad # {} \/ p \in Told
=============================================================================
