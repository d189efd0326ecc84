---------------------------- MODULE MCWriteBatch ----------------------------
(* The instance of WriteBatch for TLC: the move of a note with a link to it in  *)
(* another, and two notes rewritten while two files are moved away.             *)
EXTENDS WriteBatch

CONSTANTS a, b, c, d

create(p) == [path |-> p, prev |-> None]
rewrite(p) == [path |-> p, prev |-> Old]

MoveOrBulk ==
  {[writes |-> <<create(a), rewrite(b)>>, removals |-> <<c>>],
   [writes |-> <<rewrite(a), rewrite(b)>>, removals |-> <<c, d>>]}
=============================================================================
