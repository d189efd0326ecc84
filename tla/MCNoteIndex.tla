---------------------------- MODULE MCNoteIndex -----------------------------
(* Instances of NoteIndex for TLC.                                         *)
EXTENDS NoteIndex

CONSTANTS q1, q2

\* The first and the third content of a note are equal.
Alternating == [v \in Ver |-> IF v = 0 THEN 0 ELSE IF v % 2 = 1 THEN 1 ELSE 2]

\* Two leaders at once.
Overlap == [events |-> 2, promotions |-> 2, faults |-> 0, askers |-> {}, queries |-> FALSE]

\* A leader's pass beside one that a tool asked for.
Asked == [events |-> 2, promotions |-> 1, faults |-> 0, askers |-> {q2}, queries |-> FALSE]

\* A query cache, over the passes of one leader and the jobs of a writer ...
Queried == [events |-> 2, promotions |-> 1, faults |-> 0, askers |-> {}, queries |-> TRUE]

\* ... and over two passes at once.
QueriedBeside == [events |-> 1, promotions |-> 1, faults |-> 0, askers |-> {q2}, queries |-> TRUE]

\* One leader, a crash, a demotion or a failing provider, and a note that gets
\* its first content back.
Back == [events |-> 3, promotions |-> 1, faults |-> 1, askers |-> {}, queries |-> FALSE]

All == {Overlap, Asked, Queried, QueriedBeside, Back}
=============================================================================
