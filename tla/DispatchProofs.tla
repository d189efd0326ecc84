--------------------------- MODULE DispatchProofs ---------------------------
(* Theorems about Dispatch: type correctness, one effect per confirmation  *)
(* and no stranded claim, for every value of the constants; and, when one  *)
(* process serves calls that end inside the reclaim window, one holder of  *)
(* a key, replays of the right answer, the claim of a landed effect kept,  *)
(* and one effect in the lifetime of a key.                                *)
EXTENDS Dispatch, TLAPS

-----------------------------------------------------------------------------
(* Type correctness.                                                       *)

LEMMA UnbornType == Unborn \in Local
  BY DispatchAssumption DEF Unborn, Local, Pc, Mid, Answer

LEMMA InitType == Init => TypeOK
  BY DispatchAssumption, UnbornType, SMTT(30) DEF Init, TypeOK, Token, NoRow

\* The locals that Ended, Finish and the field updates of the actions produce.
LEMMA LocalType ==
  ASSUME NEW l \in Local
  PROVE  /\ \A p \in Pc : [l EXCEPT !.pc = p] \in Local
         /\ \A p \in Pc : Ended(l, p) \in Local
         /\ \A p \in Pc, t \in Nat : [l EXCEPT !.pc = p, !.claimed = TRUE, !.claimedAt = t] \in Local
         /\ \A b \in BOOLEAN : /\ [l EXCEPT !.spent = b] \in Local
                               /\ [l EXCEPT !.committed = b] \in Local
                               /\ [l EXCEPT !.blocked = b] \in Local
                               /\ [l EXCEPT !.returned = b] \in Local
  BY DEF Local, Ended

LEMMA SetType ==
  ASSUME TypeOK, NEW c \in Call, NEW l \in Local, Set(c, l)
  PROVE  call' \in [Call -> Local]
  BY DEF TypeOK, Set

LEMMA FinishType ==
  ASSUME TypeOK, NEW c \in Call, NEW l \in Local, NEW a \in Answer,
         NEW of \in Call \cup {NoCall}, Finish(c, l, a, of)
  PROVE  call' \in [Call -> Local]
<1>1. "done" \in Pc
  BY DEF Pc
<1>2. Ended(l, "done") \in Local
  BY <1>1, LocalType
<1>3. [Ended(l, "done") EXCEPT !.answer = a, !.of = of] \in Local
  BY <1>2 DEF Local
<1>. QED
  BY <1>3, SetType DEF Finish

\* What the statements on the row write.
LEMMA RowType ==
  ASSUME TypeOK, NEW c \in Call
  PROVE  /\ FreshRow(c) \in Row
         /\ row # NoRow => /\ row \in Row
                           /\ [row EXCEPT !.state = "effect_committed"] \in Row
                           /\ [row EXCEPT !.state = "indeterminate", !.result = NoCall, !.over = FALSE] \in Row
                           /\ \A over \in BOOLEAN :
                                [row EXCEPT !.state = "completed", !.result = c, !.over = over] \in Row
<1>1. call[c] \in Local
  BY DEF TypeOK
<1>2. call[c].args \in Args
  BY <1>1 DEF Local
<1>3. FreshRow(c) \in Row
  BY <1>2, DispatchAssumption DEF FreshRow, Row, RowState, TypeOK
<1>. QED
  BY <1>3 DEF TypeOK, Row, RowState

\* Every statement leaves a row, or none, and a claimant, or none.
LEMMA StatementType ==
  ASSUME TypeOK, NEW c \in Call,
         \/ UNCHANGED <<row, claimant>>
         \/ row' = FreshRow(c) /\ claimant' = c
         \/ deleteIdempotency \/ markEffectCommitted \/ finalizeIndeterminate
         \/ \E over \in BOOLEAN : finalizeIdempotency(c, over)
  PROVE  row' \in Row \cup {NoRow} /\ claimant' \in Call \cup {NoCall}
  BY RowType DEF deleteIdempotency, markEffectCommitted, finalizeIndeterminate,
                 finalizeIdempotency, TypeOK

LEMMA ResolveType ==
  ASSUME TypeOK, NEW c \in Call, Resolve(c)
  PROVE  call' \in [Call -> Local]
<1>1. call[c] \in Local
  BY DEF TypeOK
<1>2. row # NoRow => row.result \in Call \cup {NoCall}
  BY DEF TypeOK, Row
<1>3. \E a \in Answer, of \in Call \cup {NoCall} : Finish(c, call[c], a, of)
  <2>1. CASE row = NoRow
    BY <2>1 DEF Resolve, Answer
  <2>2. CASE row # NoRow
    <3>1. row.state \in RowState
      BY <2>2 DEF TypeOK, Row
    <3>. QED
      BY <1>2, <2>2, <3>1 DEF Resolve, Answer, RowState
  <2>. QED
    BY <2>1, <2>2
<1>. QED
  BY <1>1, <1>3, FinishType

\* What is left to show of an action that leaves the clock and the tools alone.
LEMMA KeepType ==
  ASSUME TypeOK, UNCHANGED <<now, tool>>,
         row' \in Row \cup {NoRow}, claimant' \in Call \cup {NoCall},
         token' \in Token \cup {NoToken},
         call' \in [Call -> Local], faults' \in Nat, landed' \subseteq Call
  PROVE  TypeOK'
  BY DEF TypeOK

LEMMA ArrivalType ==
  ASSUME TypeOK, NEW c \in Call, Arrive(c) \/ Reject(c)
  PROVE  TypeOK'
<1>1. call[c] \in Local
  BY DEF TypeOK
<1>2. CASE Arrive(c)
  <2>1. PICK a \in Args :
          Set(c, [call[c] EXCEPT !.pc = IF c \in Keyless THEN "gates" ELSE "insert", !.args = a])
    BY <1>2 DEF Arrive
  <2>2. [call[c] EXCEPT !.pc = IF c \in Keyless THEN "gates" ELSE "insert", !.args = a] \in Local
    BY <1>1 DEF Local, Pc
  <2>3. call' \in [Call -> Local]
    BY <2>1, <2>2, SetType
  <2>. QED
    BY <1>2, <2>3, KeepType DEF Arrive, TypeOK
<1>3. CASE Reject(c)
  <2>1. call' \in [Call -> Local]
    BY <1>1, <1>3, FinishType DEF Reject, Answer
  <2>. QED
    BY <1>3, <2>1, KeepType DEF Reject, TypeOK
<1>. QED
  BY <1>2, <1>3

LEMMA ClaimType ==
  ASSUME TypeOK, NEW c \in Call, tryClaimIdempotency(c)
  PROVE  /\ row' \in Row \cup {NoRow} /\ claimant' \in Call \cup {NoCall}
         /\ call' \in [Call -> Local]
<1>1. call[c] \in Local /\ now \in Nat
  BY DEF TypeOK
<1>2. [call[c] EXCEPT !.pc = "gates", !.claimed = TRUE, !.claimedAt = now] \in Local
  BY <1>1 DEF Local, Pc
<1>. QED
  BY <1>2, SetType, StatementType DEF tryClaimIdempotency

LEMMA GateType ==
  ASSUME TypeOK, NEW c \in Call,
         Insert(c) \/ Read(c) \/ Reap(c) \/ Reinsert(c) \/ Reread(c) \/ ClaimFault(c)
  PROVE  TypeOK'
<1>1. call[c] \in Local
  BY DEF TypeOK
<1>2. \A p \in Mid : [call[c] EXCEPT !.pc = p] \in Local
  BY <1>1 DEF Local, Pc
<1>3. CASE Insert(c) \/ Reinsert(c)
  <2>1. CASE tryClaimIdempotency(c)
    BY <1>3, <2>1, ClaimType, KeepType DEF Insert, Reinsert, TypeOK
  <2>2. CASE /\ \E p \in Mid : Set(c, [call[c] EXCEPT !.pc = p])
             /\ UNCHANGED <<row, claimant>>
    <3>1. call' \in [Call -> Local]
      BY <1>2, <2>2, SetType
    <3>. QED
      BY <1>3, <2>2, <3>1, KeepType DEF Insert, Reinsert, TypeOK
  <2>. QED
    BY <1>3, <2>1, <2>2 DEF Insert, Reinsert, Mid
<1>4. CASE Read(c) \/ Reread(c)
  <2>1. Resolve(c) \/ Set(c, [call[c] EXCEPT !.pc = "reap"])
    BY <1>4 DEF Read, Reread
  <2>2. call' \in [Call -> Local]
    BY <1>2, <2>1, ResolveType, SetType DEF Mid
  <2>. QED
    BY <1>4, <2>2, KeepType DEF Read, Reread, TypeOK
<1>5. CASE Reap(c)
  <2>1. call' \in [Call -> Local]
    BY <1>2, <1>5, SetType DEF Reap, Mid
  <2>. QED
    BY <1>5, <2>1, StatementType, KeepType DEF Reap, TypeOK
<1>6. CASE ClaimFault(c)
  <2>1. call' \in [Call -> Local]
    BY <1>1, <1>6, FinishType DEF ClaimFault, Answer
  <2>. QED
    BY <1>6, <2>1, KeepType DEF ClaimFault, SqlFault, TypeOK
<1>. QED
  BY <1>3, <1>4, <1>5, <1>6

LEMMA ThrowType ==
  ASSUME TypeOK, NEW c \in Call, NEW l \in Local, Throw(c, l)
  PROVE  call' \in [Call -> Local]
<1>1. [l EXCEPT !.pc = "catch"] \in Local
  BY LocalType DEF Pc
<1>. QED
  BY <1>1, SetType DEF Throw

LEMMA ReleaseType ==
  ASSUME TypeOK, NEW c \in Call, ReleaseAtGate(c)
  PROVE  /\ row' \in Row \cup {NoRow} /\ claimant' \in Call \cup {NoCall}
         /\ faults' \in Nat
  BY StatementType DEF ReleaseAtGate, SqlFault, TypeOK

LEMMA ConsumeType ==
  ASSUME TypeOK, NEW c \in Call, Redeemable(c), Consume
  PROVE  token' \in Token \cup {NoToken}
  BY DEF Redeemable, Consume, TypeOK, Token, NoToken

LEMMA RefusalType ==
  ASSUME TypeOK, NEW c \in Call,
         Throttled(c) \/ Abort(c) \/ ElicitRequired(c) \/ Drifted(c)
  PROVE  TypeOK'
<1>1. call[c] \in Local
  BY DEF TypeOK
<1>2. call' \in [Call -> Local]
  BY <1>1, ThrowType DEF Throttled, Abort, ElicitRequired, Drifted
<1>3. CASE Throttled(c) \/ ElicitRequired(c)
  BY <1>2, <1>3, ReleaseType, KeepType DEF Throttled, ElicitRequired, TypeOK
<1>4. CASE Abort(c)
  BY <1>2, <1>4, KeepType DEF Abort, TypeOK
<1>5. CASE Drifted(c)
  BY <1>2, <1>5, ConsumeType, KeepType DEF Drifted, TypeOK
<1>. QED
  BY <1>3, <1>4, <1>5

LEMMA EnterType ==
  ASSUME TypeOK, NEW c \in Call, Enter(c)
  PROVE  TypeOK'
<1>. DEFINE l == [call[c] EXCEPT !.spent = (Gating(c) = "dispatch")]
<1>1. l \in Local
  BY ZenonT(60) DEF TypeOK, Local
<1>2. [l EXCEPT !.pc = "handler", !.invoked = TRUE] \in Local
  BY <1>1, ZenonT(60) DEF Local, Pc
<1>3. call' \in [Call -> Local]
  BY <1>1, <1>2, SetType, ThrowType DEF Enter
<1>4. token' \in Token \cup {NoToken}
  BY ConsumeType DEF Enter, TypeOK
<1>. QED
  BY <1>3, <1>4, KeepType DEF Enter, TypeOK

LEMMA MarkType ==
  ASSUME TypeOK, NEW c \in Call, MarkIfClaimed(c)
  PROVE  row' \in Row \cup {NoRow} /\ claimant' \in Call \cup {NoCall}
  BY StatementType DEF MarkIfClaimed

LEMMA HandlerType ==
  ASSUME TypeOK, NEW c \in Call,
         \/ Confirm(c) \/ Signal(c) \/ Effect(c)
         \/ RolledBack(c) \/ HandlerThrow(c) \/ HandlerReturn(c)
  PROVE  TypeOK'
<1>1. call[c] \in Local
  BY DEF TypeOK
<1>2. /\ [call[c] EXCEPT !.spent = TRUE] \in Local
      /\ [call[c] EXCEPT !.committed = TRUE] \in Local
      /\ \A b \in BOOLEAN : [call[c] EXCEPT !.blocked = b] \in Local
      /\ [call[c] EXCEPT !.returned = TRUE] \in Local
      /\ [[call[c] EXCEPT !.returned = TRUE] EXCEPT !.pc = "settle"] \in Local
  BY <1>1 DEF Local, Pc
<1>3. CASE Confirm(c)
  BY <1>2, <1>3, SetType, ConsumeType, KeepType DEF Confirm, TypeOK
<1>4. CASE Signal(c)
  <2>1. call' \in [Call -> Local]
    BY <1>1, <1>2, <1>4, SetType, ThrowType DEF Signal
  <2>2. /\ row' \in Row \cup {NoRow} /\ claimant' \in Call \cup {NoCall}
        /\ faults' \in Nat
    BY <1>4, MarkType DEF Signal, SqlFault, TypeOK
  <2>. QED
    BY <1>4, <2>1, <2>2, KeepType DEF Signal, TypeOK
<1>5. CASE Effect(c)
  <2>1. call' \in [Call -> Local]
    BY <1>2, <1>5, SetType DEF Effect, TypeOK
  <2>2. row' \in Row \cup {NoRow} /\ claimant' \in Call \cup {NoCall}
    BY <1>5, MarkType DEF Effect, TypeOK
  <2>. QED
    BY <1>5, <2>1, <2>2, KeepType DEF Effect, TypeOK
<1>6. CASE RolledBack(c)
  BY <1>2, <1>6, ThrowType, KeepType DEF RolledBack, TypeOK
<1>7. CASE HandlerThrow(c)
  <2>1. call' \in [Call -> Local]
    BY <1>2, <1>7, ThrowType DEF HandlerThrow
  <2>. QED
    BY <1>7, <2>1, KeepType DEF HandlerThrow, TypeOK
<1>8. CASE HandlerReturn(c)
  <2>1. call' \in [Call -> Local]
    BY <1>2, <1>8, SetType, ThrowType DEF HandlerReturn
  <2>2. /\ row' \in Row \cup {NoRow} /\ claimant' \in Call \cup {NoCall}
        /\ faults' \in Nat
    BY <1>8, MarkType DEF HandlerReturn, SqlFault, TypeOK
  <2>. QED
    BY <1>8, <2>1, <2>2, KeepType DEF HandlerReturn, TypeOK
<1>. QED
  BY <1>3, <1>4, <1>5, <1>6, <1>7, <1>8

LEMMA CompleteType ==
  ASSUME TypeOK, NEW c \in Call, Complete(c)
  PROVE  TypeOK'
<1>1. call[c] \in Local
  BY DEF TypeOK
<1>2. PICK over \in BOOLEAN :
        LET ok == Finish(c, call[c], IF over THEN "overflow" ELSE "ok", c) IN
        IF call[c].claimed
        THEN \/ finalizeIdempotency(c, over) /\ ok /\ UNCHANGED faults
             \/ SqlFault /\ IF over THEN ok ELSE Throw(c, call[c])
        ELSE ok /\ UNCHANGED <<row, claimant, faults>>
  BY DEF Complete
<1>3. \/ Throw(c, call[c])
      \/ \E a \in Answer : Finish(c, call[c], a, c)
  BY <1>2 DEF Answer
<1>4. call' \in [Call -> Local]
  BY <1>1, <1>3, FinishType, ThrowType
<1>5. /\ row' \in Row \cup {NoRow} /\ claimant' \in Call \cup {NoCall}
      /\ faults' \in Nat
  BY <1>2, StatementType DEF SqlFault, TypeOK
<1>. QED
  BY <1>4, <1>5, KeepType DEF Complete, TypeOK

LEMMA CatchType ==
  ASSUME TypeOK, NEW c \in Call, Catch(c)
  PROVE  TypeOK'
<1>1. call[c] \in Local
  BY DEF TypeOK
<1>2. [call[c] EXCEPT !.spent = @ /\ ~Refusable(call[c])] \in Local
  BY <1>1 DEF Local
<1>3. call' \in [Call -> Local]
  BY <1>2, FinishType DEF Catch, Answer
<1>4. /\ row' \in Row \cup {NoRow} /\ claimant' \in Call \cup {NoCall}
      /\ faults' \in Nat
  BY StatementType DEF Catch, SqlFault, TypeOK
<1>5. token' \in Token \cup {NoToken}
  BY DEF Catch, releaseSpentElicit, TypeOK, Token, NoToken
<1>. QED
  BY <1>3, <1>4, <1>5, KeepType DEF Catch, TypeOK

LEMMA EnvironmentType ==
  ASSUME TypeOK, \/ Sweep \/ Tick \/ (\E p \in Proc : Crash(p))
  PROVE  TypeOK'
<1>1. CASE Sweep
  BY <1>1, KeepType DEF Sweep, deleteIdempotency, TypeOK
<1>2. CASE Tick
  BY <1>2 DEF Tick, TypeOK
<1>3. CASE \E p \in Proc : Crash(p)
  <2>1. PICK p \in Proc : Crash(p)
    BY <1>3
  <2>2. \A c \in Call : call[c] \in Local /\ Ended(call[c], "crashed") \in Local
    BY LocalType DEF TypeOK, Pc
  <2>3. call' \in [Call -> Local]
    BY <2>1, <2>2 DEF Crash
  <2>. QED
    BY <2>1, <2>3, KeepType DEF Crash, TypeOK
<1>. QED
  BY <1>1, <1>2, <1>3

LEMMA NextType == TypeOK /\ [Next]_vars => TypeOK'
<1>. SUFFICES ASSUME TypeOK, [Next]_vars
              PROVE  TypeOK'
  OBVIOUS
<1>1. CASE \E c \in Call : Dispatch(c)
  <2>1. PICK c \in Call : Dispatch(c)
    BY <1>1
  <2>2. CASE OutputRefused(c)
    <3>1. call[c] \in Local
      BY DEF TypeOK
    <3>2. call' \in [Call -> Local]
      BY <2>2, <3>1, ThrowType DEF OutputRefused
    <3>. QED
      BY <2>2, <3>2, KeepType DEF OutputRefused, TypeOK
  <2>. QED
    BY <2>1, <2>2, ArrivalType, GateType, RefusalType, EnterType, HandlerType,
       CompleteType, CatchType DEF Dispatch
<1>2. CASE UNCHANGED vars
  BY <1>2 DEF vars, TypeOK
<1>. QED
  BY <1>1, <1>2, EnvironmentType DEF Next

(* Every reachable state of the dispatch pipeline is well typed.           *)
THEOREM TypeCorrect == Spec => []TypeOK
<1>. QED
  BY InitType, NextType, PTL DEF Spec

-----------------------------------------------------------------------------
(* One effect per confirmation.  The invariant says where a landed effect  *)
(* leaves its call, that a gated effect has the token on its account, and  *)
(* that the account of a spent token has one holder.                       *)

Accounted(c) ==
  LET l == call[c] IN
  /\ c \in landed => l.pc \in {"handler", "settle", "catch", "done", "crashed"}
  /\ l.pc \in {"handler", "settle"} => l.invoked
  /\ l.pc = "catch" /\ c \in landed => l.invoked /\ ~l.blocked
  /\ l.blocked => l.pc = "catch"
  /\ l.pc = "handler" /\ Gating(c) = "dispatch" => l.spent
  /\ c \in landed /\ Gating(c) # "none" => l.spent

SpentOnce ==
  /\ \A c \in Call : call[c].spent => token.state # "issued"
  /\ \A c, d \in Call : call[c].spent /\ call[d].spent => c = d

ConfirmInv == SpentOnce /\ \A c \in Call : Accounted(c)

LEMMA InitConfirm == Init => ConfirmInv
  BY DEF Init, ConfirmInv, Accounted, SpentOnce, Unborn, Gating

\* One call moves: what it must show for the whole invariant.
LEMMA OneMoves ==
  ASSUME TypeOK, ConfirmInv, NEW c \in Call, NEW l \in Local, Set(c, l),
         UNCHANGED tool, landed \subseteq landed', landed' \subseteq landed \cup {c},
         Accounted(c)',
         \/ token' = token /\ (l.spent => call[c].spent)
         \/ token'.state # "issued" /\ token.state = "issued"
         \/ ~l.spent /\ call[c].spent
  PROVE  ConfirmInv'
<1>1. call'[c] = l /\ \A d \in Call \ {c} : call'[d] = call[d]
  BY DEF Set, TypeOK
<1>2. \A d \in Call \ {c} : Accounted(d)'
  BY <1>1 DEF ConfirmInv, Accounted, Gating
<1>3. SpentOnce'
  BY <1>1 DEF ConfirmInv, SpentOnce
<1>. QED
  BY <1>2, <1>3 DEF ConfirmInv

LEMMA FinishConfirm ==
  ASSUME TypeOK, ConfirmInv, NEW c \in Call, NEW a \in Answer, NEW of \in Call \cup {NoCall},
         Finish(c, call[c], a, of), UNCHANGED <<tool, token, landed>>
  PROVE  ConfirmInv'
<1>. DEFINE l == [Ended(call[c], "done") EXCEPT !.answer = a, !.of = of]
<1>1. call[c] \in Local
  BY DEF TypeOK
<1>2. l \in Local /\ l.pc = "done" /\ ~l.blocked /\ l.spent = call[c].spent /\ l.args = call[c].args
  BY <1>1 DEF Ended, Local, Pc
<1>3. Set(c, l) /\ call'[c] = l
  BY DEF Finish, Set, TypeOK
<1>4. Accounted(c)'
  BY <1>2, <1>3 DEF ConfirmInv, Accounted, Gating
<1>. QED
  BY <1>2, <1>3, <1>4, OneMoves

LEMMA ResolveConfirm ==
  ASSUME TypeOK, ConfirmInv, NEW c \in Call, Resolve(c), UNCHANGED <<tool, token, landed>>
  PROVE  ConfirmInv'
<1>1. row # NoRow => row.result \in Call \cup {NoCall} /\ row.state \in RowState
  BY DEF TypeOK, Row
<1>2. \E a \in Answer, of \in Call \cup {NoCall} : Finish(c, call[c], a, of)
  BY <1>1 DEF Resolve, Answer, RowState
<1>. QED
  BY <1>2, FinishConfirm

\* A throw keeps the account; only a call without an effect is blocked.
LEMMA ThrowConfirm ==
  ASSUME TypeOK, ConfirmInv, NEW c \in Call, NEW l \in Local, Throw(c, l),
         UNCHANGED <<tool, landed>>,
         call[c].pc \in {"gates", "handler", "settle"},
         l.args = call[c].args, l.invoked = call[c].invoked,
         l.blocked => c \notin landed,
         c \in landed => l.spent = call[c].spent,
         \/ token' = token /\ (l.spent => call[c].spent)
         \/ token'.state # "issued" /\ token.state = "issued"
  PROVE  ConfirmInv'
<1>. DEFINE m == [l EXCEPT !.pc = "catch"]
<1>1. m \in Local /\ Set(c, m) /\ call'[c] = m
  BY DEF Throw, Set, Local, Pc, TypeOK
<1>2. m.pc = "catch" /\ m.args = l.args /\ m.spent = l.spent /\ m.invoked = l.invoked /\ m.blocked = l.blocked
  BY DEF Local
<1>3. Accounted(c)'
  BY <1>1, <1>2 DEF ConfirmInv, Accounted, Gating
<1>. QED
  BY <1>1, <1>2, <1>3, OneMoves

LEMMA ArrivalConfirm ==
  ASSUME TypeOK, ConfirmInv, NEW c \in Call, Arrive(c) \/ Reject(c)
  PROVE  ConfirmInv'
<1>1. CASE Arrive(c)
  <2>1. PICK a \in Args :
          Set(c, [call[c] EXCEPT !.pc = IF c \in Keyless THEN "gates" ELSE "insert", !.args = a])
    BY <1>1 DEF Arrive
  <2>. DEFINE l == [call[c] EXCEPT !.pc = IF c \in Keyless THEN "gates" ELSE "insert", !.args = a]
  <2>2. call[c] \in Local /\ call[c].pc = "idle"
    BY <1>1 DEF TypeOK, Arrive
  <2>3. /\ l \in Local /\ l.spent = call[c].spent /\ l.blocked = call[c].blocked
        /\ l.pc \in {"gates", "insert"} /\ call'[c] = l
    BY <2>1, <2>2 DEF Local, Pc, Set, TypeOK
  <2>4. Accounted(c)'
    BY <1>1, <2>2, <2>3 DEF Arrive, ConfirmInv, Accounted
  <2>. QED
    BY <1>1, <2>1, <2>3, <2>4, OneMoves DEF Arrive
<1>2. CASE Reject(c)
  BY <1>2, FinishConfirm DEF Reject, Answer
<1>. QED
  BY <1>1, <1>2

LEMMA GateConfirm ==
  ASSUME TypeOK, ConfirmInv, NEW c \in Call,
         Insert(c) \/ Read(c) \/ Reap(c) \/ Reinsert(c) \/ Reread(c) \/ ClaimFault(c)
  PROVE  ConfirmInv'
<1>1. call[c] \in Local /\ call[c].pc \in {"insert"} \cup Mid /\ UNCHANGED <<tool, token, landed>>
  BY DEF TypeOK, Insert, Read, Reap, Reinsert, Reread, ClaimFault, Mid
<1>2. ASSUME NEW l \in Local, Set(c, l), l.pc \in {"gates"} \cup Mid,
             l.spent = call[c].spent, l.blocked = call[c].blocked
      PROVE  ConfirmInv'
  <2>1. call'[c] = l
    BY <1>2 DEF Set, TypeOK
  <2>2. Accounted(c)'
    BY <1>1, <1>2, <2>1 DEF ConfirmInv, Accounted, Mid
  <2>. QED
    BY <1>1, <1>2, <2>2, OneMoves
<1>3. CASE \E p \in Mid : Set(c, [call[c] EXCEPT !.pc = p])
  BY <1>1, <1>2, <1>3 DEF Local, Pc
<1>4. CASE tryClaimIdempotency(c)
  <2>1. now \in Nat
    BY DEF TypeOK
  <2>2. [call[c] EXCEPT !.pc = "gates", !.claimed = TRUE, !.claimedAt = now] \in Local
    BY <1>1, <2>1 DEF Local, Pc
  <2>3. Set(c, [call[c] EXCEPT !.pc = "gates", !.claimed = TRUE, !.claimedAt = now])
    BY <1>4 DEF tryClaimIdempotency
  <2>. QED
    BY <1>1, <1>2, <2>2, <2>3 DEF Local
<1>5. CASE Resolve(c)
  BY <1>1, <1>5, ResolveConfirm
<1>6. CASE ClaimFault(c)
  BY <1>6, FinishConfirm DEF ClaimFault, Answer
<1>. QED
  BY <1>3, <1>4, <1>5, <1>6 DEF Insert, Read, Reap, Reinsert, Reread, Mid

LEMMA RefusalConfirm ==
  ASSUME TypeOK, ConfirmInv, NEW c \in Call,
         \/ Throttled(c) \/ Abort(c) \/ ElicitRequired(c) \/ Drifted(c)
         \/ RolledBack(c) \/ HandlerThrow(c) \/ OutputRefused(c)
  PROVE  ConfirmInv'
<1>1. call[c] \in Local /\ call[c].pc \in {"gates", "handler", "settle"}
  BY DEF TypeOK, Throttled, Abort, ElicitRequired, Drifted, RolledBack, HandlerThrow,
         OutputRefused, InHandler
<1>2. call[c].blocked => c \notin landed
  BY <1>1 DEF ConfirmInv, Accounted
<1>3. CASE Throttled(c) \/ Abort(c) \/ ElicitRequired(c) \/ OutputRefused(c)
  BY <1>1, <1>2, <1>3, ThrowConfirm DEF Throttled, Abort, ElicitRequired, OutputRefused
<1>4. CASE Drifted(c)
  <2>1. token.state = "issued" /\ token'.state # "issued"
    BY <1>4 DEF Drifted, Redeemable, Consume, TypeOK, Token, NoToken
  <2>. QED
    BY <1>1, <1>2, <1>4, <2>1, ThrowConfirm DEF Drifted
<1>5. CASE RolledBack(c)
  <2>1. [call[c] EXCEPT !.committed = TRUE] \in Local
    BY <1>1, LocalType
  <2>. QED
    BY <1>1, <1>2, <1>5, <2>1, ThrowConfirm DEF RolledBack, Local
<1>6. CASE HandlerThrow(c)
  <2>1. PICK b \in BOOLEAN : (b => c \notin landed) /\ Throw(c, [call[c] EXCEPT !.blocked = b])
    BY <1>6 DEF HandlerThrow
  <2>2. [call[c] EXCEPT !.blocked = b] \in Local
    BY <1>1, LocalType
  <2>. QED
    BY <1>1, <1>6, <2>1, <2>2, ThrowConfirm DEF HandlerThrow, Local
<1>. QED
  BY <1>3, <1>4, <1>5, <1>6

LEMMA EnterConfirm ==
  ASSUME TypeOK, ConfirmInv, NEW c \in Call, Enter(c)
  PROVE  ConfirmInv'
<1>. DEFINE l == [call[c] EXCEPT !.spent = (Gating(c) = "dispatch")]
            h == [l EXCEPT !.pc = "handler", !.invoked = TRUE]
<1>1. call[c] \in Local /\ call[c].pc = "gates" /\ c \notin landed /\ ~call[c].blocked
  BY DEF TypeOK, Enter, ConfirmInv, Accounted
<1>2. l \in Local /\ h \in Local
  BY <1>1 DEF Local, Pc
<1>3. \/ token' = token /\ (l.spent => call[c].spent)
      \/ token'.state # "issued" /\ token.state = "issued"
  BY <1>1 DEF Enter, Redeemable, Consume, TypeOK, Token, NoToken, Local
<1>4. CASE Throw(c, l)
  BY <1>1, <1>2, <1>3, <1>4, ThrowConfirm DEF Enter, Local
<1>5. CASE Set(c, h)
  <2>1. call'[c] = h
    BY <1>5 DEF Set, TypeOK
  <2>2. h.pc = "handler" /\ h.invoked /\ ~h.blocked /\ h.args = call[c].args /\ h.spent = l.spent
        /\ l.spent = (Gating(c) = "dispatch")
    BY <1>1 DEF Local
  <2>3. Accounted(c)'
    BY <1>1, <2>1, <2>2 DEF Enter, Accounted, Gating
  <2>. QED
    BY <1>2, <1>3, <1>5, <2>2, <2>3, OneMoves DEF Enter
<1>. QED
  BY <1>4, <1>5 DEF Enter

LEMMA HandlerConfirm ==
  ASSUME TypeOK, ConfirmInv, NEW c \in Call,
         Confirm(c) \/ Signal(c) \/ Effect(c) \/ HandlerReturn(c)
  PROVE  ConfirmInv'
<1>1. call[c] \in Local /\ call[c].pc = "handler" /\ call[c].invoked /\ ~call[c].blocked
  BY DEF TypeOK, Confirm, Signal, Effect, HandlerReturn, InHandler, ConfirmInv, Accounted
<1>2. ASSUME NEW l \in Local, Set(c, l), l.pc \in {"handler", "settle"},
             UNCHANGED tool, landed \subseteq landed', landed' \subseteq landed \cup {c},
             l.args = call[c].args, l.invoked = call[c].invoked, ~l.blocked,
             Gating(c) = "dispatch" => l.spent,
             c \in landed' /\ Gating(c) # "none" => l.spent,
             \/ token' = token /\ (l.spent => call[c].spent)
             \/ token'.state # "issued" /\ token.state = "issued"
      PROVE  ConfirmInv'
  <2>1. call'[c] = l
    BY <1>2 DEF Set, TypeOK
  <2>2. Accounted(c)'
    BY <1>1, <1>2, <2>1 DEF Accounted, Gating
  <2>. QED
    BY <1>2, <2>2, OneMoves
<1>3. /\ Gating(c) = "dispatch" => call[c].spent
      /\ c \in landed /\ Gating(c) # "none" => call[c].spent
  BY <1>1 DEF ConfirmInv, Accounted
<1>4. CASE Confirm(c)
  <2>1. token.state = "issued" /\ token'.state # "issued"
    BY <1>4 DEF Confirm, Redeemable, Consume, TypeOK, Token, NoToken
  <2>2. [call[c] EXCEPT !.spent = TRUE] \in Local
    BY <1>1, LocalType
  <2>. QED
    BY <1>1, <1>2, <1>4, <2>1, <2>2 DEF Confirm, Local
<1>5. CASE Signal(c)
  <2>1. [call[c] EXCEPT !.committed = TRUE] \in Local
    BY <1>1, LocalType
  <2>2. CASE Throw(c, call[c])
    BY <1>1, <1>5, <2>2, ThrowConfirm DEF Signal
  <2>3. CASE Set(c, [call[c] EXCEPT !.committed = TRUE])
    BY <1>1, <1>2, <1>3, <1>5, <2>1, <2>3 DEF Signal, Local
  <2>. QED
    BY <1>5, <2>2, <2>3 DEF Signal
<1>6. CASE Effect(c)
  <2>1. Gating(c) # "none" => call[c].spent
    <3>1. call[c].args \in Args
      BY <1>1 DEF Local
    <3>2. Gating(c) \in {"none", "dispatch", "handler"}
      BY <3>1, DispatchAssumption DEF Gating, TypeOK
    <3>. QED
      BY <1>3, <1>6, <3>2 DEF Effect, Confirmed
  <2>2. [call[c] EXCEPT !.committed = TRUE] \in Local
    BY <1>1, LocalType
  <2>3. CASE Set(c, [call[c] EXCEPT !.committed = TRUE])
    BY <1>1, <1>2, <1>3, <1>6, <2>1, <2>2, <2>3 DEF Effect, Local
  <2>4. CASE UNCHANGED call
    <3>1. Set(c, call[c])
      BY <2>4 DEF Set, TypeOK
    <3>. QED
      BY <1>1, <1>2, <1>3, <1>6, <2>1, <3>1 DEF Effect
  <2>. QED
    BY <1>6, <2>3, <2>4 DEF Effect
<1>7. CASE HandlerReturn(c)
  <2>. DEFINE r == [call[c] EXCEPT !.returned = TRUE]
  <2>1. r \in Local /\ [r EXCEPT !.pc = "settle"] \in Local
    BY <1>1 DEF Local, Pc
  <2>2. CASE Throw(c, r)
    BY <1>1, <1>7, <2>1, <2>2, ThrowConfirm DEF HandlerReturn, Local
  <2>3. CASE Set(c, [r EXCEPT !.pc = "settle"])
    BY <1>1, <1>2, <1>3, <1>7, <2>1, <2>3 DEF HandlerReturn, Local
  <2>. QED
    BY <1>7, <2>2, <2>3 DEF HandlerReturn
<1>. QED
  BY <1>4, <1>5, <1>6, <1>7

LEMMA CompleteConfirm ==
  ASSUME TypeOK, ConfirmInv, NEW c \in Call, Complete(c)
  PROVE  ConfirmInv'
<1>1. \/ Throw(c, call[c])
      \/ \E a \in Answer : Finish(c, call[c], a, c)
  BY DEF Complete, Answer
<1>2. call[c] \in Local /\ (call[c].blocked => c \notin landed)
  BY DEF TypeOK, Complete, ConfirmInv, Accounted
<1>. QED
  BY <1>1, <1>2, FinishConfirm, ThrowConfirm DEF Complete

\* The release: only the call with the spent token on its account gives it
\* back, and its effect has not landed.
LEMMA CatchConfirm ==
  ASSUME TypeOK, ConfirmInv, NEW c \in Call, Catch(c)
  PROVE  ConfirmInv'
<1>. DEFINE k == [call[c] EXCEPT !.spent = @ /\ ~Refusable(call[c])]
            l == [Ended(k, "done") EXCEPT !.answer = "error", !.of = NoCall]
<1>1. call[c] \in Local /\ call[c].pc = "catch" /\ UNCHANGED <<tool, landed>>
  BY DEF TypeOK, Catch
<1>2. /\ l \in Local /\ l.pc = "done" /\ ~l.blocked /\ l.args = call[c].args
      /\ l.spent = (call[c].spent /\ ~Refusable(call[c]))
  BY <1>1, ZenonT(60) DEF Local, Ended, Pc, Answer
<1>3. Set(c, l) /\ call'[c] = l
  BY DEF Catch, Finish, Set, TypeOK
<1>4. c \in landed => ~Refusable(call[c])
  BY <1>1 DEF ConfirmInv, Accounted, Refusable
<1>5. Accounted(c)'
  <2>1. c \in landed /\ Gating(c) # "none" => l.spent
    BY <1>2, <1>4 DEF ConfirmInv, Accounted
  <2>2. Gating(c)' = Gating(c) /\ call'[c].spent = l.spent /\ call'[c].pc = "done" /\ ~call'[c].blocked
    BY <1>1, <1>2, <1>3 DEF Gating
  <2>. QED
    BY <1>1, <2>1, <2>2 DEF Accounted
<1>6. \/ token' = token /\ (l.spent => call[c].spent)
      \/ ~l.spent /\ call[c].spent
  BY <1>2 DEF Catch, releaseSpentElicit
<1>. QED
  BY <1>1, <1>2, <1>3, <1>5, <1>6, OneMoves

LEMMA EnvironmentConfirm ==
  ASSUME TypeOK, ConfirmInv, \/ Sweep \/ Tick \/ (\E p \in Proc : Crash(p))
  PROVE  ConfirmInv'
<1>1. CASE Sweep
  BY <1>1 DEF Sweep, ConfirmInv, SpentOnce, Accounted, Gating, NoToken
<1>2. CASE Tick
  BY <1>2 DEF Tick, ConfirmInv, SpentOnce, Accounted, Gating
<1>3. CASE \E p \in Proc : Crash(p)
  <2>1. PICK p \in Proc : Crash(p)
    BY <1>3
  <2>2. \A c \in Call : /\ call'[c].spent = call[c].spent
                        /\ call'[c].args = call[c].args
                        /\ call'[c] = call[c] \/ (call'[c].pc = "crashed" /\ ~call'[c].blocked)
    <3>1. \A c \in Call : call[c] \in Local
      BY DEF TypeOK
    <3>. QED
      BY <2>1, <3>1, ZenonT(60) DEF Crash, Ended, Local
  <2>3. \A c \in Call : Accounted(c)'
    BY <2>1, <2>2 DEF Crash, ConfirmInv, Accounted, Gating
  <2>4. SpentOnce'
    BY <2>1, <2>2 DEF Crash, ConfirmInv, SpentOnce
  <2>. QED
    BY <2>3, <2>4 DEF ConfirmInv
<1>. QED
  BY <1>1, <1>2, <1>3

LEMMA NextConfirm == TypeOK /\ ConfirmInv /\ [Next]_vars => ConfirmInv'
<1>. SUFFICES ASSUME TypeOK, ConfirmInv, [Next]_vars
              PROVE  ConfirmInv'
  OBVIOUS
<1>1. CASE \E c \in Call : Dispatch(c)
  BY <1>1, ArrivalConfirm, GateConfirm, RefusalConfirm, EnterConfirm, HandlerConfirm,
     CompleteConfirm, CatchConfirm DEF Dispatch
<1>2. CASE UNCHANGED vars
  BY <1>2 DEF vars, ConfirmInv, SpentOnce, Accounted, Gating
<1>. QED
  BY <1>1, <1>2, EnvironmentConfirm DEF Next

(* Whatever is refused, thrown, released or retried, and in whatever order *)
(* and number of processes, a confirmation lets one gated effect through.  *)
THEOREM ConfirmedOnce == Spec => []OneEffectPerConfirmation
<1>1. TypeOK /\ ConfirmInv => OneEffectPerConfirmation
  BY DEF TypeOK, ConfirmInv, Accounted, SpentOnce, OneEffectPerConfirmation
<1>. QED
  BY <1>1, InitType, InitConfirm, NextType, NextConfirm, PTL DEF Spec

-----------------------------------------------------------------------------
(* No stranded claim.  The invariant adds that the claimant knows it holds *)
(* the claim: only then does its catch let the claim go.                   *)

Holding(c) == (Live(c) /\ call[c].claimed) \/ call[c].pc = "crashed"

ClaimInv ==
  row # NoRow => /\ claimant \in Call
                 /\ faults = 0 /\ ~Done(row) => Holding(claimant)

LEMMA InitClaim == Init => ClaimInv
  BY DEF Init, ClaimInv

\* One call moves, and the row stays, goes, settles, or becomes its own.
LEMMA OneClaims ==
  ASSUME TypeOK, ClaimInv, NEW c \in Call, NEW l \in Local, Set(c, l), faults' >= faults,
         \/ row' = NoRow
         \/ row # NoRow /\ claimant' = claimant /\ (Done(row') \/ faults' > 0)
         \/ row # NoRow /\ claimant' = claimant /\ (~Done(row') => ~Done(row))
              /\ (Holding(c) => Holding(c)')
         \/ claimant' = c /\ Holding(c)'
  PROVE  ClaimInv'
<1>1. \A d \in Call \ {c} : call'[d] = call[d]
  BY DEF Set, TypeOK
<1>2. \A d \in Call \ {c} : Holding(d) => Holding(d)'
  BY <1>1 DEF Holding, Live
<1>3. faults \in Nat /\ (faults' = 0 => faults = 0)
  BY DEF TypeOK
<1>. QED
  BY <1>2, <1>3 DEF ClaimInv, Done

\* The call holds nothing and the row is not touched.
LEMMA NotHolding ==
  ASSUME TypeOK, ClaimInv, NEW c \in Call, NEW l \in Local, Set(c, l),
         call[c].pc \in {"idle", "insert"} \cup Mid,
         UNCHANGED <<row, claimant>>, faults' >= faults
  PROVE  ClaimInv'
<1>1. ~Holding(c)
  BY DEF Holding, Live, Mid
<1>. QED
  BY <1>1, OneClaims

LEMMA FinishClaims ==
  ASSUME TypeOK, ClaimInv, NEW c \in Call, NEW a \in Answer, NEW of \in Call \cup {NoCall},
         Finish(c, call[c], a, of), call[c].pc \in {"idle", "insert"} \cup Mid,
         UNCHANGED <<row, claimant>>, faults' >= faults
  PROVE  ClaimInv'
<1>1. call[c] \in Local
  BY DEF TypeOK
<1>2. [Ended(call[c], "done") EXCEPT !.answer = a, !.of = of] \in Local
  BY <1>1 DEF Ended, Local, Pc
<1>. QED
  BY <1>2, NotHolding DEF Finish

LEMMA ArrivalClaims ==
  ASSUME TypeOK, ClaimInv, NEW c \in Call, Arrive(c) \/ Reject(c)
  PROVE  ClaimInv'
<1>1. call[c] \in Local /\ faults >= faults
  BY DEF TypeOK
<1>2. CASE Arrive(c)
  <2>1. PICK a \in Args :
          Set(c, [call[c] EXCEPT !.pc = IF c \in Keyless THEN "gates" ELSE "insert", !.args = a])
    BY <1>2 DEF Arrive
  <2>2. [call[c] EXCEPT !.pc = IF c \in Keyless THEN "gates" ELSE "insert", !.args = a] \in Local
    BY <1>1 DEF Local, Pc
  <2>. QED
    BY <1>1, <1>2, <2>1, <2>2, NotHolding DEF Arrive
<1>3. CASE Reject(c)
  BY <1>1, <1>3, FinishClaims DEF Reject, Answer
<1>. QED
  BY <1>2, <1>3

LEMMA ClaimClaims ==
  ASSUME TypeOK, ClaimInv, NEW c \in Call, tryClaimIdempotency(c), faults' = faults
  PROVE  ClaimInv'
<1>. DEFINE l == [call[c] EXCEPT !.pc = "gates", !.claimed = TRUE, !.claimedAt = now]
<1>1. call[c] \in Local /\ now \in Nat /\ faults >= faults
  BY DEF TypeOK
<1>2. l \in Local /\ l.pc = "gates" /\ l.claimed
  BY <1>1 DEF Local, Pc
<1>3. Set(c, l) /\ call'[c] = l /\ claimant' = c
  BY DEF tryClaimIdempotency, Set, TypeOK
<1>4. Holding(c)'
  BY <1>2, <1>3 DEF Holding, Live
<1>. QED
  BY <1>1, <1>2, <1>3, <1>4, OneClaims

LEMMA GateClaims ==
  ASSUME TypeOK, ClaimInv, NEW c \in Call,
         Insert(c) \/ Read(c) \/ Reap(c) \/ Reinsert(c) \/ Reread(c) \/ ClaimFault(c)
  PROVE  ClaimInv'
<1>1. /\ call[c] \in Local /\ call[c].pc \in {"idle", "insert"} \cup Mid
      /\ faults \in Nat /\ faults' >= faults
  BY DEF TypeOK, Insert, Read, Reap, Reinsert, Reread, ClaimFault, Mid, SqlFault
<1>2. \A p \in Mid : [call[c] EXCEPT !.pc = p] \in Local
  BY <1>1 DEF Local, Pc
<1>3. CASE Reap(c)
  BY <1>3 DEF Reap, deleteIdempotency, ClaimInv
<1>4. CASE Insert(c) \/ Reinsert(c)
  <2>1. CASE tryClaimIdempotency(c)
    BY <1>4, <2>1, ClaimClaims DEF Insert, Reinsert
  <2>2. CASE UNCHANGED <<row, claimant>> /\ \E p \in Mid : Set(c, [call[c] EXCEPT !.pc = p])
    BY <1>1, <1>2, <2>2, NotHolding
  <2>. QED
    BY <1>4, <2>1, <2>2 DEF Insert, Reinsert, Mid
<1>5. CASE Read(c) \/ Reread(c)
  <2>1. CASE Set(c, [call[c] EXCEPT !.pc = "reap"])
    BY <1>1, <1>2, <1>5, <2>1, NotHolding DEF Read, Reread, Mid
  <2>2. CASE Resolve(c)
    <3>1. row # NoRow => row.result \in Call \cup {NoCall} /\ row.state \in RowState
      BY DEF TypeOK, Row
    <3>2. \E a \in Answer, of \in Call \cup {NoCall} : Finish(c, call[c], a, of)
      BY <2>2, <3>1 DEF Resolve, Answer, RowState
    <3>. QED
      BY <1>1, <1>5, <3>2, FinishClaims DEF Read, Reread
  <2>. QED
    BY <1>5, <2>1, <2>2 DEF Read, Reread
<1>6. CASE ClaimFault(c)
  BY <1>1, <1>6, FinishClaims DEF ClaimFault, SqlFault, Answer
<1>. QED
  BY <1>3, <1>4, <1>5, <1>6

\* A live call that stays live, and goes on knowing what it holds.
LEMMA StaysLive ==
  ASSUME TypeOK, ClaimInv, NEW c \in Call, NEW l \in Local, Set(c, l),
         l.pc \in {"gates", "handler", "settle", "catch"}, l.claimed = call[c].claimed,
         Live(c), faults' >= faults,
         \/ UNCHANGED <<row, claimant>>
         \/ MarkIfClaimed(c)
         \/ row' = NoRow
  PROVE  ClaimInv'
<1>1. call'[c] = l
  BY DEF Set, TypeOK
<1>2. Holding(c) => Holding(c)'
  BY <1>1 DEF Holding, Live
<1>3. \/ row' = NoRow
      \/ row # NoRow /\ claimant' = claimant /\ (~Done(row') => ~Done(row))
  <2>1. CASE UNCHANGED <<row, claimant>>
    BY <2>1 DEF Done
  <2>2. CASE MarkIfClaimed(c)
    BY <2>2 DEF MarkIfClaimed, markEffectCommitted, Done, TypeOK, Row
  <2>3. CASE row' = NoRow
    BY <2>3
  <2>. QED
    BY <2>1, <2>2, <2>3
<1>. QED
  BY <1>2, <1>3, OneClaims

LEMMA ThrowClaims ==
  ASSUME TypeOK, ClaimInv, NEW c \in Call, NEW l \in Local, Throw(c, l), Live(c),
         l.claimed = call[c].claimed, faults' >= faults,
         UNCHANGED <<row, claimant>> \/ MarkIfClaimed(c) \/ row' = NoRow
  PROVE  ClaimInv'
<1>. DEFINE m == [l EXCEPT !.pc = "catch"]
<1>1. m \in Local /\ m.pc = "catch" /\ m.claimed = call[c].claimed /\ Set(c, m)
  BY DEF Local, Pc, Throw
<1>. QED
  BY <1>1, StaysLive

LEMMA LiveClaims ==
  ASSUME TypeOK, ClaimInv, NEW c \in Call,
         \/ Throttled(c) \/ Abort(c) \/ ElicitRequired(c) \/ Drifted(c) \/ Enter(c)
         \/ Confirm(c) \/ Signal(c) \/ Effect(c) \/ RolledBack(c)
         \/ HandlerThrow(c) \/ HandlerReturn(c) \/ OutputRefused(c)
  PROVE  ClaimInv'
<1>1. call[c] \in Local /\ Live(c) /\ faults \in Nat /\ faults' >= faults
  BY DEF TypeOK, Throttled, Abort, ElicitRequired, Drifted, Enter, Confirm, Signal, Effect,
         RolledBack, HandlerThrow, HandlerReturn, OutputRefused, InHandler, Live,
         ReleaseAtGate, SqlFault
<1>2. \A b \in BOOLEAN : /\ [call[c] EXCEPT !.spent = b] \in Local
                         /\ [call[c] EXCEPT !.committed = b] \in Local
                         /\ [call[c] EXCEPT !.blocked = b] \in Local
                         /\ [call[c] EXCEPT !.returned = b] \in Local
  BY <1>1, LocalType
<1>3. CASE Throttled(c) \/ ElicitRequired(c)
  <2>1. UNCHANGED <<row, claimant>> \/ row' = NoRow
    BY <1>3 DEF Throttled, ElicitRequired, ReleaseAtGate, deleteIdempotency, SqlFault
  <2>. QED
    BY <1>1, <1>3, <2>1, ThrowClaims DEF Throttled, ElicitRequired
<1>4. CASE Abort(c) \/ Drifted(c) \/ OutputRefused(c)
  BY <1>1, <1>4, ThrowClaims DEF Abort, Drifted, OutputRefused
<1>5. CASE Enter(c)
  <2>. DEFINE l == [call[c] EXCEPT !.spent = (Gating(c) = "dispatch")]
              h == [l EXCEPT !.pc = "handler", !.invoked = TRUE]
  <2>1. /\ l \in Local /\ l.claimed = call[c].claimed
        /\ h \in Local /\ h.claimed = call[c].claimed /\ h.pc = "handler"
    BY <1>1 DEF Local, Pc
  <2>2. Throw(c, l) \/ Set(c, h)
    BY <1>5 DEF Enter
  <2>. QED
    BY <1>1, <1>5, <2>1, <2>2, ThrowClaims, StaysLive DEF Enter
<1>6. CASE Confirm(c)
  BY <1>1, <1>2, <1>6, StaysLive DEF Confirm, InHandler, Local
<1>7. CASE Signal(c)
  <2>1. CASE Throw(c, call[c]) /\ SqlFault
    BY <1>1, <2>1, ThrowClaims DEF SqlFault
  <2>2. CASE Set(c, [call[c] EXCEPT !.committed = TRUE]) /\ MarkIfClaimed(c)
    BY <1>1, <1>2, <1>7, <2>2, StaysLive DEF Signal, InHandler, Local
  <2>. QED
    BY <1>7, <2>1, <2>2 DEF Signal
<1>8. CASE Effect(c)
  <2>1. CASE Set(c, [call[c] EXCEPT !.committed = TRUE]) /\ MarkIfClaimed(c)
    BY <1>1, <1>2, <1>8, <2>1, StaysLive, ZenonT(60) DEF Effect, InHandler, Local
  <2>2. CASE UNCHANGED <<row, claimant, call>>
    BY <1>8, <2>2 DEF Effect, ClaimInv, Holding, Live, Done
  <2>. QED
    BY <1>8, <2>1, <2>2 DEF Effect
<1>9. CASE RolledBack(c) \/ HandlerThrow(c)
  BY <1>1, <1>2, <1>9, ThrowClaims, ZenonT(60) DEF RolledBack, HandlerThrow, Local
<1>10. CASE HandlerReturn(c)
  <2>. DEFINE r == [call[c] EXCEPT !.returned = TRUE]
              e == [r EXCEPT !.pc = "settle"]
  <2>1. r \in Local /\ r.claimed = call[c].claimed
        /\ e \in Local /\ e.claimed = call[c].claimed /\ e.pc = "settle"
    BY <1>1 DEF Local, Pc
  <2>2. \/ Throw(c, r) /\ SqlFault
        \/ Set(c, e) /\ MarkIfClaimed(c)
    BY <1>10 DEF HandlerReturn
  <2>. QED
    BY <1>1, <2>1, <2>2, ThrowClaims, StaysLive DEF SqlFault
<1>. QED
  BY <1>3, <1>4, <1>5, <1>6, <1>7, <1>8, <1>9, <1>10

\* The two ways a call that holds a claim ends: it settles the row, deletes
\* it, or its statement failed.
LEMMA EndClaims ==
  ASSUME TypeOK, ClaimInv, NEW c \in Call, Complete(c) \/ Catch(c)
  PROVE  ClaimInv'
<1>1. call[c] \in Local /\ Live(c) /\ faults \in Nat /\ faults' >= faults
  BY DEF TypeOK, Complete, Catch, Live, SqlFault
<1>2. ASSUME NEW l \in Local, Set(c, l),
             IF call[c].claimed
             THEN \/ row' = NoRow
                  \/ row # NoRow /\ claimant' = claimant /\ (Done(row') \/ faults' > 0)
             ELSE UNCHANGED <<row, claimant>>
      PROVE  ClaimInv'
  <2>1. CASE call[c].claimed
    BY <1>1, <1>2, <2>1, OneClaims
  <2>2. CASE ~call[c].claimed
    <3>1. ~Holding(c)
      BY <1>1, <2>2 DEF Holding, Live
    <3>. QED
      BY <1>1, <1>2, <2>2, <3>1, OneClaims
  <2>. QED
    BY <2>1, <2>2
<1>3. \A over \in BOOLEAN : finalizeIdempotency(c, over) =>
        row' = NoRow \/ (row # NoRow /\ claimant' = claimant /\ Done(row'))
  BY DEF finalizeIdempotency, Done, TypeOK, Row
<1>4. finalizeIndeterminate =>
        row' = NoRow \/ (row # NoRow /\ claimant' = claimant /\ Done(row'))
  BY DEF finalizeIndeterminate, Done, TypeOK, Row
<1>5. SqlFault => UNCHANGED <<row, claimant>> /\ faults' > 0
  BY <1>1 DEF SqlFault
<1>6. CASE Complete(c)
  <2>1. PICK over \in BOOLEAN :
          LET ok == Finish(c, call[c], IF over THEN "overflow" ELSE "ok", c) IN
          IF call[c].claimed
          THEN \/ finalizeIdempotency(c, over) /\ ok /\ UNCHANGED faults
               \/ SqlFault /\ IF over THEN ok ELSE Throw(c, call[c])
          ELSE ok /\ UNCHANGED <<row, claimant, faults>>
    BY <1>6 DEF Complete
  <2>2. IF call[c].claimed
        THEN \/ row' = NoRow
             \/ row # NoRow /\ claimant' = claimant /\ (Done(row') \/ faults' > 0)
        ELSE UNCHANGED <<row, claimant>>
    BY <1>3, <1>5, <2>1
  <2>3. \A a \in Answer : [Ended(call[c], "done") EXCEPT !.answer = a, !.of = c] \in Local
    BY <1>1 DEF Ended, Local, Pc
  <2>4. \/ Throw(c, call[c])
        \/ \E a \in Answer : Finish(c, call[c], a, c)
    BY <2>1 DEF Answer
  <2>5. [call[c] EXCEPT !.pc = "catch"] \in Local
    BY <1>1 DEF Local, Pc
  <2>. QED
    BY <1>2, <2>2, <2>3, <2>4, <2>5 DEF Throw, Finish
<1>7. CASE Catch(c)
  <2>. DEFINE k == [call[c] EXCEPT !.spent = @ /\ ~Refusable(call[c])]
              l == [Ended(k, "done") EXCEPT !.answer = "error", !.of = NoCall]
  <2>1. l \in Local /\ Set(c, l)
    BY <1>1, <1>7, ZenonT(60) DEF Local, Ended, Pc, Answer, Catch, Finish
  <2>2. IF call[c].claimed
        THEN \/ row' = NoRow
             \/ row # NoRow /\ claimant' = claimant /\ (Done(row') \/ faults' > 0)
        ELSE UNCHANGED <<row, claimant>>
    BY <1>4, <1>5, <1>7 DEF Catch, deleteIdempotency
  <2>. QED
    BY <1>2, <2>1, <2>2
<1>. QED
  BY <1>6, <1>7

LEMMA EnvironmentClaims ==
  ASSUME TypeOK, ClaimInv, \/ Sweep \/ Tick \/ (\E p \in Proc : Crash(p))
  PROVE  ClaimInv'
<1>1. CASE Sweep
  BY <1>1 DEF Sweep, deleteIdempotency, ClaimInv, Holding, Live, Done
<1>2. CASE Tick
  BY <1>2 DEF Tick, ClaimInv, Holding, Live, Done
<1>3. CASE \E p \in Proc : Crash(p)
  <2>1. PICK p \in Proc : Crash(p)
    BY <1>3
  <2>2. \A c \in Call : call'[c] = call[c] \/ call'[c].pc = "crashed"
    <3>1. \A c \in Call : call[c] \in Local
      BY DEF TypeOK
    <3>. QED
      BY <2>1, <3>1 DEF Crash, Ended, Local
  <2>3. \A c \in Call : Holding(c) => Holding(c)'
    BY <2>2 DEF Holding, Live
  <2>. QED
    BY <2>1, <2>3 DEF Crash, ClaimInv, Done
<1>. QED
  BY <1>1, <1>2, <1>3

LEMMA NextClaims == TypeOK /\ ClaimInv /\ [Next]_vars => ClaimInv'
<1>. SUFFICES ASSUME TypeOK, ClaimInv, [Next]_vars
              PROVE  ClaimInv'
  OBVIOUS
<1>1. CASE \E c \in Call : Dispatch(c)
  BY <1>1, ArrivalClaims, GateClaims, LiveClaims, EndClaims DEF Dispatch
<1>2. CASE UNCHANGED vars
  BY <1>2 DEF vars, ClaimInv, Holding, Live, Done
<1>. QED
  BY <1>1, <1>2, EnvironmentClaims DEF Next

(* While no SQL statement has failed, a claim that is not settled belongs  *)
(* to a call that is still at work or died with its process.               *)
THEOREM NoClaimStranded == Spec => []NoStrandedClaim
<1>1. ClaimInv => NoStrandedClaim
  BY DEF ClaimInv, NoStrandedClaim, Holding
<1>. QED
  BY <1>1, InitType, InitClaim, NextType, NextClaims, PTL DEF Spec

-----------------------------------------------------------------------------
(* One holder of a key.  The theorems of this section assume what the run  *)
(* DispatchOnce assumes: one event loop, calls that end inside the reclaim *)
(* window, no gate that lets the claim go before the catch; and a reclaim  *)
(* window that is not empty and does not outlast the key.                  *)

Alone ==
  /\ Prompt
  /\ \A c, d \in Call : Home[c] = Home[d]
  /\ ~ThrottleEnabled /\ "dispatch" \notin Gatings
  /\ 0 < Reclaim /\ Reclaim <= Ttl

Early == {"idle", "insert", "gates"} \cup Mid

\* A call holds the claim as long as it lives, and its row is its own.
Claims(c) ==
  LET l == call[c] IN
  /\ l.claimed => Live(c) /\ c \notin Keyless
  /\ Live(c) => l.claimed \/ c \in Keyless
  /\ l.pc \in {"insert"} \cup Mid => c \notin Keyless
  /\ l.pc = "settle" => l.returned
  /\ l.pc \in Early => ~l.committed /\ c \notin landed
  /\ l.claimed => /\ claimant = c /\ row # NoRow
                  /\ row.state \in {"in_flight", "effect_committed"}
                  /\ row.args = l.args
                  /\ row.started = l.claimedAt /\ row.expires = l.claimedAt + Ttl
                  /\ now < l.claimedAt + Reclaim
                  /\ l.pc = "handler" /\ l.committed => row.state = "effect_committed"
                  /\ c \in landed /\ Style(c) \in {"ahead", "txn"}
                       => l.committed /\ row.state = "effect_committed"

\* Where a call stands between two statements, nothing has changed but the clock's verdict.
Stands(c) ==
  /\ call[c].pc = "reap" => row = NoRow \/ Reclaimable(row)
  /\ call[c].pc = "reinsert" => row = NoRow
  /\ call[c].pc # "reread"

Stretch ==
  /\ \A c, d \in Call : call[c].pc \in Mid /\ call[d].pc \in Mid => c = d
  /\ \A c \in Call : Stands(c)

Owner ==
  /\ row = NoRow <=> claimant = NoCall
  /\ claimant \notin Keyless

\* What a row or a replay holds is the answer of a call that returned.
Answers(d, a) == d \in Call /\ call[d].pc = "done" /\ call[d].args = a /\ call[d].returned

Replays(c) ==
  call[c].answer \in {"replay", "overflow"}
    => call[c].pc = "done" /\ (call[c].of # c => Answers(call[c].of, call[c].args))

Recorded == row # NoRow /\ row.state = "completed" => Answers(row.result, row.args)

Results == Recorded /\ \A c \in Call : Replays(c)

AInv == TypeOK /\ (\A c \in Call : Claims(c)) /\ Stretch /\ Owner /\ Results

LEMMA InitAlone == Init => AInv
<1>. SUFFICES ASSUME Init PROVE AInv
  OBVIOUS
<1>1. TypeOK
  BY InitType
<1>2. \A c \in Call : /\ call[c].pc = "idle" /\ ~call[c].claimed /\ ~call[c].committed
                      /\ call[c].answer = "none"
  BY DEF Init, Unborn
<1>3. NoCall \notin Keyless
  BY DispatchAssumption
<1>. QED
  BY <1>1, <1>2, <1>3 DEF Init, AInv, Claims, Live, Stretch, Stands, Owner, Results, Recorded, Replays, Mid

\* No other call holds the claim.
Mine(c) == \A d \in Call \ {c} : ~call[d].claimed

LEMMA MineIf ==
  ASSUME AInv, Alone, NEW c \in Call, call[c].claimed \/ row = NoRow \/ Reclaimable(row)
  PROVE  Mine(c)
<1>. SUFFICES ASSUME NEW d \in Call, d # c, call[d].claimed PROVE FALSE
  BY DEF Mine
<1>1. /\ claimant = d /\ row # NoRow /\ row.started = call[d].claimedAt
      /\ row.expires = call[d].claimedAt + Ttl /\ now < call[d].claimedAt + Reclaim
  BY DEF AInv, Claims
<1>2. call[d].claimedAt \in Nat /\ now \in Nat /\ Ttl \in Nat /\ Reclaim \in Nat
  BY DispatchAssumption DEF AInv, TypeOK, Local
<1>3. ~Reclaimable(row)
  BY <1>1, <1>2 DEF Reclaimable, Alone
<1>4. ~call[c].claimed
  BY <1>1 DEF AInv, Claims
<1>. QED
  BY <1>1, <1>3, <1>4

LEMMA OthersOut ==
  ASSUME AInv, Alone, NEW c \in Call, Dispatch(c)
  PROVE  /\ \A d \in Call \ {c} : call[d].pc \notin Mid
         /\ call[c].pc \notin {"done", "crashed"}
<1>1. call[c].pc \in Mid \/ LoopFree(c)
  BY DEF Dispatch, Arrive, Reject, Insert, Read, Reap, Reinsert, Reread, ClaimFault, Throttled, Abort,
         ElicitRequired, Drifted, Enter, Confirm, Signal, Effect, RolledBack, HandlerThrow, HandlerReturn,
         Complete, OutputRefused, Catch, InHandler, Mid
<1>2. call[c].pc \in Mid \cup {"idle", "insert", "gates", "handler", "settle", "catch"}
  BY DEF Dispatch, Arrive, Reject, Insert, Read, Reap, Reinsert, Reread, ClaimFault, Throttled, Abort,
         ElicitRequired, Drifted, Enter, Confirm, Signal, Effect, RolledBack, HandlerThrow, HandlerReturn,
         Complete, OutputRefused, Catch, InHandler, Mid
<1>. QED
  BY <1>1, <1>2 DEF LoopFree, Alone, AInv, Stretch, Mid

\* One call moves: what it must show for the whole invariant.
LEMMA MoveAlone ==
  ASSUME AInv, Alone, TypeOK', NEW c \in Call, NEW l \in Local, Set(c, l), UNCHANGED <<now, tool>>,
         \A d \in Call \ {c} : call[d].pc \notin Mid, call[c].pc \notin {"done", "crashed"},
         UNCHANGED <<row, claimant>> \/ Mine(c),
         landed \subseteq landed', landed' \subseteq landed \cup {c},
         Claims(c)', Stands(c)', Owner', Replays(c)',
         row' = row \/ Recorded'
  PROVE  AInv'
<1>1. call'[c] = l /\ \A d \in Call \ {c} : call'[d] = call[d]
  BY DEF Set, AInv, TypeOK
<1>2. \A d \in Call \ {c} : Claims(d)'
  BY <1>1 DEF AInv, Claims, Live, Mine, Style
<1>3. Stretch'
  BY <1>1 DEF Stretch, Stands, Mid
<1>4. \A d, a : Answers(d, a) => Answers(d, a)'
  BY <1>1 DEF Answers
<1>5. \A d \in Call \ {c} : Replays(d)'
  BY <1>1, <1>4 DEF AInv, Results, Replays
<1>6. Recorded'
  BY <1>4 DEF AInv, Results, Recorded
<1>. QED
  BY <1>2, <1>3, <1>5, <1>6 DEF AInv, Results

-----------------------------------------------------------------------------
(* The steps of a call.                                                    *)

\* What an ended call keeps.
LEMMA EndedKeeps ==
  ASSUME NEW l \in Local, NEW p \in Pc, NEW a, NEW of
  PROVE  LET m == [Ended(l, p) EXCEPT !.answer = a, !.of = of] IN
         /\ m.pc = p /\ ~m.claimed /\ ~m.committed /\ m.answer = a /\ m.of = of
         /\ m.args = l.args /\ m.returned = l.returned /\ m.claimedAt = l.claimedAt
  BY DEF Ended, Local

LEMMA FinishLocal ==
  ASSUME TypeOK, NEW c \in Call, NEW k \in Local, NEW a \in Answer, NEW of \in Call \cup {NoCall},
         Finish(c, k, a, of)
  PROVE  \E l \in Local : /\ Set(c, l) /\ l.pc = "done" /\ ~l.claimed /\ ~l.committed
                          /\ l.answer = a /\ l.of = of /\ l.args = k.args /\ l.returned = k.returned
<1>. DEFINE l == [Ended(k, "done") EXCEPT !.answer = a, !.of = of]
<1>0. "done" \in Pc
  BY DEF Pc
<1>1. l \in Local
  <2>1. Ended(k, "done") \in Local
    BY <1>0, LocalType
  <2>. QED
    BY <2>1 DEF Local
<1>2. /\ l.pc = "done" /\ ~l.claimed /\ ~l.committed /\ l.answer = a /\ l.of = of
      /\ l.args = k.args /\ l.returned = k.returned
  BY <1>0, EndedKeeps
<1>3. Set(c, l)
  BY DEF Finish
<1>. QED
  BY <1>1, <1>2, <1>3

\* A call that holds nothing ends with an answer, and the row stays.
LEMMA FinishAlone ==
  ASSUME AInv, Alone, TypeOK', NEW c \in Call, Dispatch(c),
         NEW a \in Answer, NEW of \in Call \cup {NoCall}, Finish(c, call[c], a, of),
         UNCHANGED <<now, row, token, tool, claimant, landed>>,
         a \in {"replay", "overflow"} => of = c \/ Answers(of, call[c].args)
  PROVE  AInv'
<1>1. call[c] \in Local
  BY DEF AInv, TypeOK
<1>2. PICK l \in Local : /\ Set(c, l) /\ l.pc = "done" /\ ~l.claimed /\ ~l.committed
                         /\ l.answer = a /\ l.of = of /\ l.args = call[c].args
  BY <1>1, FinishLocal DEF AInv
<1>3. call'[c] = l
  BY <1>2 DEF AInv, TypeOK, Set
<1>4. /\ \A d \in Call \ {c} : call[d].pc \notin Mid /\ call'[d] = call[d]
      /\ call[c].pc \notin {"done", "crashed"}
  BY <1>2, OthersOut DEF AInv, TypeOK, Set
<1>5. Claims(c)' /\ Stands(c)'
  BY <1>2, <1>3 DEF Claims, Live, Early, Mid, Stands
<1>6. Replays(c)'
  <2>1. of # c /\ a \in {"replay", "overflow"} => /\ of \in Call /\ call'[of].pc = "done"
                                                 /\ call'[of].args = call[c].args /\ call'[of].returned
    BY <1>3, <1>4 DEF Answers
  <2>. QED
    BY <1>2, <1>3, <2>1 DEF Replays, Answers
<1>7. Owner'
  BY DEF AInv, Owner
<1>. QED
  BY <1>2, <1>4, <1>5, <1>6, <1>7, MoveAlone

LEMMA ResolveAlone ==
  ASSUME AInv, Alone, TypeOK', NEW c \in Call, Dispatch(c), Resolve(c),
         UNCHANGED <<now, row, token, tool, claimant, landed>>
  PROVE  AInv'
<1>1. row # NoRow => row.result \in Call \cup {NoCall} /\ row.state \in RowState
  BY DEF AInv, TypeOK, Row
<1>2. PICK a \in Answer, of \in Call \cup {NoCall} :
        /\ Finish(c, call[c], a, of)
        /\ a \in {"replay", "overflow"} => /\ row # NoRow /\ row.state = "completed"
                                          /\ row.args = call[c].args /\ of = row.result
  BY <1>1 DEF Resolve, Answer, RowState
<1>3. a \in {"replay", "overflow"} => Answers(of, call[c].args)
  BY <1>2 DEF AInv, Results, Recorded
<1>. QED
  BY <1>2, <1>3, FinishAlone

\* A call that holds nothing goes on to its next statement.
LEMMA StepAlone ==
  ASSUME AInv, Alone, TypeOK', NEW c \in Call, Dispatch(c), call[c].pc \in {"idle", "insert"} \cup Mid,
         NEW l \in Local, Set(c, l), l.pc \in {"insert", "read", "reap", "reinsert"}, c \notin Keyless,
         l.claimed = call[c].claimed, l.committed = call[c].committed, l.answer = call[c].answer,
         UNCHANGED <<now, tool, landed>>,
         UNCHANGED <<row, claimant>> \/ (Mine(c) /\ row' = NoRow /\ claimant' = NoCall),
         l.pc = "reap" => row' # NoRow /\ Reclaimable(row'),
         l.pc = "reinsert" => row' = NoRow
  PROVE  AInv'
<1>1. call'[c] = l
  BY DEF AInv, TypeOK, Set
<1>2. /\ \A d \in Call \ {c} : call[d].pc \notin Mid
      /\ call[c].pc \notin {"done", "crashed"}
  BY OthersOut
<1>3. /\ ~call[c].claimed /\ ~call[c].committed /\ c \notin landed
      /\ call[c].answer \notin {"replay", "overflow"}
  <2>1. ~Live(c) /\ call[c].pc \in Early
    BY DEF Live, Mid, Early
  <2>. QED
    BY <1>2, <2>1 DEF AInv, Claims, Results, Replays
<1>4. Claims(c)'
  BY <1>1, <1>3 DEF Claims, Live, Early, Mid
<1>5. Stands(c)'
  BY <1>1 DEF Stands, Reclaimable
<1>6. Owner' /\ Replays(c)'
  BY <1>1, <1>3, DispatchAssumption DEF AInv, Owner, Replays
<1>7. row' = row \/ Recorded'
  BY DEF Recorded
<1>. QED
  BY <1>1, <1>2, <1>4, <1>5, <1>6, <1>7, MoveAlone

LEMMA ClaimAlone ==
  ASSUME AInv, Alone, TypeOK', NEW c \in Call, Dispatch(c), call[c].pc \in {"insert", "reinsert"},
         c \notin Keyless, tryClaimIdempotency(c), UNCHANGED <<now, tool, landed>>
  PROVE  AInv'
<1>. DEFINE l == [call[c] EXCEPT !.pc = "gates", !.claimed = TRUE, !.claimedAt = now]
<1>1. call[c] \in Local /\ now \in Nat /\ Ttl \in Nat /\ Reclaim \in Nat
  BY DispatchAssumption DEF AInv, TypeOK
<1>2. l \in Local
  BY <1>1, LocalType DEF Pc
<1>3. /\ l.pc = "gates" /\ l.claimed /\ l.claimedAt = now /\ l.args = call[c].args
      /\ l.committed = call[c].committed /\ l.answer = call[c].answer
  BY <1>1 DEF Local
<1>4. Set(c, l) /\ call'[c] = l
  BY DEF tryClaimIdempotency, AInv, TypeOK, Set
<1>5. /\ \A d \in Call \ {c} : call[d].pc \notin Mid
      /\ call[c].pc \notin {"done", "crashed"}
  BY OthersOut
<1>6. /\ ~call[c].committed /\ c \notin landed /\ call[c].answer \notin {"replay", "overflow"}
  BY <1>5 DEF AInv, Claims, Results, Replays, Early, Mid
<1>7. /\ row' # NoRow /\ row'.state = "in_flight" /\ row'.args = l.args
      /\ row'.started = l.claimedAt /\ row'.expires = l.claimedAt + Ttl /\ claimant' = c
  BY <1>3 DEF tryClaimIdempotency, FreshRow, NoRow
<1>8. now < l.claimedAt + Reclaim
  BY <1>1, <1>3 DEF Alone
<1>9. Claims(c)'
  BY <1>3, <1>4, <1>6, <1>7, <1>8 DEF Claims, Live, Early, Mid
<1>10. Mine(c)
  BY MineIf DEF tryClaimIdempotency
<1>11. Stands(c)' /\ Owner' /\ Replays(c)' /\ Recorded'
  BY <1>3, <1>4, <1>6, <1>7, DispatchAssumption DEF Stands, Owner, Replays, Recorded
<1>. QED
  BY <1>2, <1>4, <1>5, <1>6, <1>9, <1>10, <1>11, MoveAlone

LEMMA ArriveAlone ==
  ASSUME AInv, Alone, TypeOK', NEW c \in Call, Dispatch(c), Arrive(c)
  PROVE  AInv'
<1>1. call[c] \in Local
  BY DEF AInv, TypeOK
<1>2. PICK a \in Args :
        Set(c, [call[c] EXCEPT !.pc = IF c \in Keyless THEN "gates" ELSE "insert", !.args = a])
  BY DEF Arrive
<1>. DEFINE l == [call[c] EXCEPT !.pc = IF c \in Keyless THEN "gates" ELSE "insert", !.args = a]
<1>3. /\ l \in Local /\ l.pc = (IF c \in Keyless THEN "gates" ELSE "insert")
      /\ l.claimed = call[c].claimed /\ l.committed = call[c].committed /\ l.answer = call[c].answer
  BY <1>1 DEF Local, Pc
<1>4. CASE c \notin Keyless
  <2>1. l.pc = "insert" /\ Set(c, l) /\ UNCHANGED <<now, tool, landed, row, claimant>> /\ call[c].pc = "idle"
    BY <1>2, <1>3, <1>4 DEF Arrive
  <2>. HIDE DEF l
  <2>. QED
    BY <1>3, <1>4, <2>1, StepAlone
<1>5. CASE c \in Keyless
  <2>1. call'[c] = l
    BY <1>2 DEF AInv, TypeOK, Set
  <2>2. /\ \A d \in Call \ {c} : call[d].pc \notin Mid
        /\ call[c].pc \notin {"done", "crashed"}
    BY OthersOut
  <2>3. /\ ~call[c].claimed /\ ~call[c].committed /\ c \notin landed
        /\ call[c].answer \notin {"replay", "overflow"}
    <3>1. ~Live(c) /\ call[c].pc \in Early
      BY DEF Live, Mid, Early, Arrive
    <3>. QED
      BY <2>2, <3>1 DEF AInv, Claims, Results, Replays
  <2>4. Claims(c)' /\ Stands(c)' /\ Owner' /\ Replays(c)'
    BY <1>3, <1>5, <2>1, <2>3 DEF Claims, Live, Early, Mid, Stands, AInv, Owner, Replays, Arrive
  <2>. QED
    BY <1>2, <1>3, <2>2, <2>4, MoveAlone DEF Arrive
<1>. QED
  BY <1>4, <1>5

LEMMA GateAlone ==
  ASSUME AInv, Alone, TypeOK', NEW c \in Call, Dispatch(c),
         \/ Reject(c) \/ Insert(c) \/ Read(c) \/ Reap(c) \/ Reinsert(c) \/ Reread(c) \/ ClaimFault(c)
  PROVE  AInv'
<1>1. call[c] \in Local /\ (call[c].pc \in {"insert"} \cup Mid => c \notin Keyless)
  BY DEF AInv, TypeOK, Claims
<1>2. \A p \in Mid : LET l == [call[c] EXCEPT !.pc = p] IN
        /\ l \in Local /\ l.pc = p
        /\ l.claimed = call[c].claimed /\ l.committed = call[c].committed /\ l.answer = call[c].answer
  BY <1>1 DEF Local, Pc
<1>3. CASE Reject(c) \/ ClaimFault(c)
  <2>1. \E a \in {"refused", "error"} : Finish(c, call[c], a, NoCall)
    BY <1>3 DEF Reject, ClaimFault
  <2>2. UNCHANGED <<now, row, token, tool, claimant, landed>>
    BY <1>3 DEF Reject, ClaimFault, SqlFault
  <2>. QED
    BY <2>1, <2>2, FinishAlone DEF Answer
<1>4. CASE Insert(c)
  <2>1. CASE tryClaimIdempotency(c)
    BY <1>1, <1>4, <2>1, ClaimAlone DEF Insert
  <2>2. CASE Set(c, [call[c] EXCEPT !.pc = "read"]) /\ UNCHANGED <<row, claimant>>
    BY <1>1, <1>2, <1>4, <2>2, StepAlone DEF Insert, Mid
  <2>. QED
    BY <1>4, <2>1, <2>2 DEF Insert
<1>5. CASE Read(c)
  <2>1. CASE row # NoRow /\ Reclaimable(row) /\ Set(c, [call[c] EXCEPT !.pc = "reap"])
    <3>1. Reclaimable(row')
      BY <1>5, <2>1 DEF Read
    <3>. QED
      BY <1>1, <1>2, <1>5, <2>1, <3>1, StepAlone DEF Read, Mid
  <2>2. CASE Resolve(c)
    BY <1>5, <2>2, ResolveAlone DEF Read
  <2>. QED
    BY <1>5, <2>1, <2>2 DEF Read
<1>6. CASE Reap(c)
  <2>1. row = NoRow \/ Reclaimable(row)
    BY <1>6 DEF Reap, AInv, Stretch, Stands
  <2>2. Mine(c)
    BY <2>1, MineIf
  <2>. QED
    BY <1>1, <1>2, <1>6, <2>2, StepAlone DEF Reap, deleteIdempotency, Mid
<1>7. CASE Reinsert(c)
  <2>1. row = NoRow
    BY <1>7 DEF Reinsert, AInv, Stretch, Stands
  <2>. QED
    BY <1>1, <1>7, <2>1, ClaimAlone DEF Reinsert, Mid
<1>8. CASE Reread(c)
  BY <1>8 DEF Reread, AInv, Stretch, Stands
<1>. QED
  BY <1>3, <1>4, <1>5, <1>6, <1>7, <1>8

\* What a live call does to the row until it ends: it leaves it, or marks it.
LEMMA MarkAlone ==
  ASSUME AInv, NEW c \in Call, MarkIfClaimed(c)
  PROVE  /\ claimant' = claimant
         /\ row' = row \/ call[c].claimed
         /\ call[c].claimed => /\ row' # NoRow /\ row'.state = "effect_committed"
                               /\ row'.args = row.args /\ row'.started = row.started
                               /\ row'.expires = row.expires
<1>1. call[c].claimed => row # NoRow /\ row.state \in {"in_flight", "effect_committed"}
  BY DEF AInv, Claims
<1>2. row # NoRow => row \in Row
  BY DEF AInv, TypeOK
<1>3. CASE call[c].claimed
  <2>1. row \in Row /\ row' = [row EXCEPT !.state = "effect_committed"] /\ claimant' = claimant
    BY <1>1, <1>2, <1>3 DEF MarkIfClaimed, markEffectCommitted, Done
  <2>2. /\ row'.state = "effect_committed" /\ row'.args = row.args
        /\ row'.started = row.started /\ row'.expires = row.expires
    BY <2>1 DEF Row
  <2>. QED
    BY <2>1, <2>2, <1>3 DEF NoRow
<1>4. CASE ~call[c].claimed
  BY <1>4 DEF MarkIfClaimed
<1>. QED
  BY <1>3, <1>4

LEMMA LiveAlone ==
  ASSUME AInv, Alone, TypeOK', NEW c \in Call, Dispatch(c), Live(c),
         NEW l \in Local, Set(c, l), l.pc \in {"handler", "settle", "catch"},
         l.claimed = call[c].claimed, l.claimedAt = call[c].claimedAt, l.args = call[c].args,
         l.answer = call[c].answer, l.pc = "settle" => l.returned,
         call[c].committed => l.committed,
         UNCHANGED <<now, tool>>, landed \subseteq landed', landed' \subseteq landed \cup {c},
         (UNCHANGED <<row, claimant>>) \/ MarkIfClaimed(c),
         l.claimed /\ l.pc = "handler" /\ l.committed
           => row'.state = "effect_committed" \/ (call[c].pc = "handler" /\ call[c].committed),
         l.claimed /\ Style(c) \in {"ahead", "txn"} /\ c \in landed' =>
           c \in landed \/ (l.committed /\ row'.state = "effect_committed")
  PROVE  AInv'
<1>1. call'[c] = l /\ Live(c)' /\ Style(c)' = Style(c)
  BY DEF AInv, TypeOK, Set, Live, Style
<1>2. /\ \A d \in Call \ {c} : call[d].pc \notin Mid
      /\ call[c].pc \notin {"done", "crashed"}
  BY OthersOut
<1>3. /\ claimant' = claimant
      /\ row' = row \/ call[c].claimed
      /\ call[c].claimed => /\ row' # NoRow /\ row'.state \in {row.state, "effect_committed"}
                            /\ row'.args = row.args /\ row'.started = row.started
                            /\ row'.expires = row.expires
  <2>1. CASE UNCHANGED <<row, claimant>>
    BY <2>1 DEF AInv, Claims
  <2>2. CASE MarkIfClaimed(c)
    BY <2>2, MarkAlone
  <2>. QED
    BY <2>1, <2>2
<1>4. /\ l.claimed => c \notin Keyless
      /\ l.claimed \/ c \in Keyless
      /\ l.pc \notin Early \cup {"insert"} \cup Mid
      /\ l.claimed => /\ claimant = c /\ row.state \in {"in_flight", "effect_committed"}
                      /\ row.args = l.args
                      /\ row.started = l.claimedAt /\ row.expires = l.claimedAt + Ttl
                      /\ now < l.claimedAt + Reclaim
                      /\ call[c].pc = "handler" /\ call[c].committed => row.state = "effect_committed"
                      /\ c \in landed /\ Style(c) \in {"ahead", "txn"}
                           => call[c].committed /\ row.state = "effect_committed"
  BY DEF AInv, Claims, Early, Mid
<1>5. Claims(c)'
  <2>1. CASE l.claimed
    <3>1. /\ claimant' = c /\ row' # NoRow /\ row'.state \in {"in_flight", "effect_committed"}
          /\ row'.args = l.args /\ row'.started = l.claimedAt /\ row'.expires = l.claimedAt + Ttl
          /\ now' < l.claimedAt + Reclaim
      BY <1>3, <1>4, <2>1
    <3>2. l.pc = "handler" /\ l.committed => row'.state = "effect_committed"
      BY <1>3, <1>4, <2>1
    <3>3. c \in landed' /\ Style(c)' \in {"ahead", "txn"} => l.committed /\ row'.state = "effect_committed"
      BY <1>1, <1>3, <1>4, <2>1
    <3>. QED
      BY <1>1, <1>4, <2>1, <3>1, <3>2, <3>3 DEF Claims
  <2>2. CASE ~l.claimed
    BY <1>1, <1>4, <2>2 DEF Claims
  <2>. QED
    BY <2>1, <2>2
<1>6. Mine(c) \/ UNCHANGED <<row, claimant>>
  BY <1>3, MineIf
<1>7. Stands(c)' /\ Owner' /\ Replays(c)'
  <2>1. Stands(c)'
    BY <1>1 DEF Stands
  <2>2. Owner'
    <3>1. CASE l.claimed
      BY <1>3, <1>4, <3>1, DispatchAssumption DEF Owner
    <3>2. CASE ~l.claimed
      BY <1>3, <3>2 DEF AInv, Owner
    <3>. QED
      BY <3>1, <3>2
  <2>3. call[c].answer \notin {"replay", "overflow"}
    BY <1>2 DEF AInv, Results, Replays, Live
  <2>. QED
    BY <1>1, <2>1, <2>2, <2>3 DEF Replays
<1>8. row' = row \/ Recorded'
  BY <1>3, <1>4 DEF Recorded
<1>. QED
  BY <1>1, <1>2, <1>5, <1>6, <1>7, <1>8, MoveAlone

LEMMA ThrowAlone ==
  ASSUME AInv, Alone, TypeOK', NEW c \in Call, Dispatch(c), Live(c),
         NEW l \in Local, Throw(c, l),
         l.claimed = call[c].claimed, l.claimedAt = call[c].claimedAt, l.args = call[c].args,
         l.answer = call[c].answer, call[c].committed => l.committed,
         UNCHANGED <<now, tool, row, claimant, landed>>
  PROVE  AInv'
<1>. DEFINE m == [l EXCEPT !.pc = "catch"]
<1>1. /\ m \in Local /\ m.pc = "catch" /\ m.claimed = l.claimed /\ m.claimedAt = l.claimedAt
      /\ m.args = l.args /\ m.answer = l.answer /\ m.committed = l.committed
  BY DEF Local, Pc
<1>2. Set(c, m)
  BY DEF Throw
<1>. HIDE DEF m
<1>. QED
  BY <1>1, <1>2, LiveAlone

LEMMA HandlerAlone ==
  ASSUME AInv, Alone, TypeOK', NEW c \in Call, Dispatch(c),
         \/ Throttled(c) \/ Abort(c) \/ ElicitRequired(c) \/ Drifted(c) \/ Enter(c)
         \/ Confirm(c) \/ Signal(c) \/ Effect(c) \/ RolledBack(c)
         \/ HandlerThrow(c) \/ HandlerReturn(c) \/ OutputRefused(c)
  PROVE  AInv'
<1>1. /\ call[c] \in Local /\ call[c].args \in Args /\ tool[call[c].args].gating \in Gatings
      /\ Set(c, call[c]) <=> call' = call
  BY DEF AInv, TypeOK, Local, Set
<1>2. Live(c)
  BY DEF Throttled, Abort, ElicitRequired, Drifted, Enter, Confirm, Signal, Effect, RolledBack, HandlerThrow,
         HandlerReturn, OutputRefused, InHandler, Live
<1>3. ASSUME NEW k \in Local, k.pc = "handler", k.claimed = call[c].claimed, k.claimedAt = call[c].claimedAt,
             k.args = call[c].args, k.answer = call[c].answer
      PROVE  LET e == [k EXCEPT !.committed = TRUE]
                 t == [k EXCEPT !.returned = TRUE]
                 s == [t EXCEPT !.pc = "settle"] IN
             /\ e \in Local /\ e.pc = "handler" /\ e.claimed = k.claimed /\ e.claimedAt = k.claimedAt
             /\ e.args = k.args /\ e.answer = k.answer /\ e.committed
             /\ t \in Local /\ t.claimed = k.claimed /\ t.claimedAt = k.claimedAt /\ t.args = k.args
             /\ t.answer = k.answer /\ t.committed = k.committed
             /\ s \in Local /\ s.pc = "settle" /\ s.claimed = k.claimed /\ s.claimedAt = k.claimedAt
             /\ s.args = k.args /\ s.answer = k.answer /\ s.committed = k.committed /\ s.returned
  BY <1>3 DEF Local, Pc
<1>4. CASE Throttled(c) \/ ElicitRequired(c)
  BY <1>1, <1>4 DEF Throttled, ElicitRequired, Alone, Gating
<1>5. CASE Abort(c) \/ Drifted(c) \/ OutputRefused(c)
  BY <1>1, <1>2, <1>5, ThrowAlone DEF Abort, Drifted, OutputRefused
<1>6. CASE Enter(c)
  <2>. DEFINE k == [call[c] EXCEPT !.spent = (Gating(c) = "dispatch")]
              h == [k EXCEPT !.pc = "handler", !.invoked = TRUE]
  <2>1. /\ k \in Local /\ k.claimed = call[c].claimed /\ k.claimedAt = call[c].claimedAt
        /\ k.args = call[c].args /\ k.answer = call[c].answer /\ k.committed = call[c].committed
    BY <1>1 DEF Local
  <2>2. /\ h \in Local /\ h.claimed = call[c].claimed /\ h.claimedAt = call[c].claimedAt
        /\ h.args = call[c].args /\ h.answer = call[c].answer /\ h.committed = call[c].committed
        /\ h.pc = "handler"
    BY <1>1 DEF Local, Pc
  <2>3. Throw(c, k) \/ Set(c, h)
    BY <1>6 DEF Enter
  <2>4. /\ UNCHANGED <<now, tool, row, claimant, landed>>
        /\ ~call[c].committed
    BY <1>6 DEF Enter, AInv, Claims, Early
  <2>. HIDE DEF k, h
  <2>5. CASE Throw(c, k)
    BY <1>2, <2>1, <2>4, <2>5, ThrowAlone
  <2>6. CASE Set(c, h)
    BY <1>2, <2>2, <2>4, <2>6, LiveAlone
  <2>. QED
    BY <2>3, <2>5, <2>6
<1>7. CASE Confirm(c)
  <2>. DEFINE k == [call[c] EXCEPT !.spent = TRUE]
  <2>1. /\ k \in Local /\ k.claimed = call[c].claimed /\ k.claimedAt = call[c].claimedAt
        /\ k.args = call[c].args /\ k.answer = call[c].answer /\ k.committed = call[c].committed
        /\ k.pc = call[c].pc
    BY <1>1 DEF Local
  <2>2. Set(c, k) /\ UNCHANGED <<now, tool, row, claimant, landed>> /\ call[c].pc = "handler"
    BY <1>7 DEF Confirm, InHandler
  <2>. HIDE DEF k
  <2>. QED
    BY <1>2, <2>1, <2>2, LiveAlone
<1>8. ASSUME Set(c, [call[c] EXCEPT !.committed = TRUE]), MarkIfClaimed(c), call[c].pc = "handler",
             UNCHANGED <<now, tool>>, landed \subseteq landed', landed' \subseteq landed \cup {c}
      PROVE  AInv'
  <2>. DEFINE e == [call[c] EXCEPT !.committed = TRUE]
  <2>1. /\ e \in Local /\ e.pc = "handler" /\ e.claimed = call[c].claimed /\ e.claimedAt = call[c].claimedAt
        /\ e.args = call[c].args /\ e.answer = call[c].answer /\ e.committed
    BY <1>1, <1>3, <1>8
  <2>2. Set(c, e)
    BY <1>8
  <2>3. call[c].claimed => row'.state = "effect_committed"
    BY <1>8, MarkAlone
  <2>. HIDE DEF e
  <2>. QED
    BY <1>2, <1>8, <2>1, <2>2, <2>3, LiveAlone
<1>9. CASE Signal(c)
  <2>1. CASE Throw(c, call[c]) /\ SqlFault
    BY <1>1, <1>2, <1>9, <2>1, ThrowAlone DEF Signal, SqlFault
  <2>2. CASE Set(c, [call[c] EXCEPT !.committed = TRUE]) /\ MarkIfClaimed(c)
    BY <1>8, <1>9, <2>2 DEF Signal, InHandler
  <2>. QED
    BY <1>9, <2>1, <2>2 DEF Signal
<1>10. CASE Effect(c)
  <2>1. /\ UNCHANGED <<now, tool>> /\ landed \subseteq landed' /\ landed' \subseteq landed \cup {c}
        /\ call[c].pc = "handler" /\ (Style(c) = "ahead" => call[c].committed)
    BY <1>10 DEF Effect, InHandler
  <2>2. CASE Style(c) = "txn"
    BY <1>8, <1>10, <2>1, <2>2 DEF Effect
  <2>3. CASE Style(c) # "txn"
    <3>1. Set(c, call[c]) /\ UNCHANGED <<row, claimant>>
      BY <1>1, <1>10, <2>3 DEF Effect
    <3>2. call[c].claimed /\ Style(c) \in {"ahead", "txn"} => call[c].committed /\ row'.state = "effect_committed"
      BY <2>1, <2>3, <3>1 DEF AInv, Claims
    <3>. QED
      BY <1>1, <1>2, <2>1, <3>1, <3>2, LiveAlone
  <2>. QED
    BY <2>2, <2>3
<1>11. CASE RolledBack(c) \/ HandlerThrow(c)
  <2>1. ASSUME NEW k \in Local, k.claimed = call[c].claimed, k.claimedAt = call[c].claimedAt,
               k.args = call[c].args, k.answer = call[c].answer, call[c].committed => k.committed, Throw(c, k)
        PROVE  AInv'
    <3>1. UNCHANGED <<now, tool, row, claimant, landed>>
      BY <1>11 DEF RolledBack, HandlerThrow
    <3>. QED
      BY <1>2, <2>1, <3>1, ThrowAlone
  <2>2. CASE RolledBack(c)
    BY <1>1, <1>3, <2>1, <2>2 DEF RolledBack, InHandler
  <2>3. CASE HandlerThrow(c)
    <3>1. PICK b \in BOOLEAN : Throw(c, [call[c] EXCEPT !.blocked = b])
      BY <2>3 DEF HandlerThrow
    <3>. DEFINE k == [call[c] EXCEPT !.blocked = b]
    <3>2. /\ k \in Local /\ k.claimed = call[c].claimed /\ k.claimedAt = call[c].claimedAt
          /\ k.args = call[c].args /\ k.answer = call[c].answer /\ k.committed = call[c].committed
      BY <1>1 DEF Local
    <3>. QED
      BY <2>1, <3>1, <3>2
  <2>. QED
    BY <1>11, <2>2, <2>3
<1>12. CASE HandlerReturn(c)
  <2>. DEFINE t == [call[c] EXCEPT !.returned = TRUE]
              s == [t EXCEPT !.pc = "settle"]
  <2>0. call[c].pc = "handler" /\ UNCHANGED <<now, tool, landed>>
    BY <1>12 DEF HandlerReturn, InHandler
  <2>1. /\ t \in Local /\ t.claimed = call[c].claimed /\ t.claimedAt = call[c].claimedAt
        /\ t.args = call[c].args /\ t.answer = call[c].answer /\ t.committed = call[c].committed
        /\ s \in Local /\ s.pc = "settle" /\ s.claimed = call[c].claimed /\ s.claimedAt = call[c].claimedAt
        /\ s.args = call[c].args /\ s.answer = call[c].answer /\ s.committed = call[c].committed /\ s.returned
    BY <1>1, <1>3, <2>0
  <2>2. (Throw(c, t) /\ SqlFault) \/ (Set(c, s) /\ MarkIfClaimed(c))
    BY <1>12 DEF HandlerReturn
  <2>. HIDE DEF t, s
  <2>3. CASE Throw(c, t) /\ SqlFault
    BY <1>2, <2>0, <2>1, <2>3, ThrowAlone DEF SqlFault
  <2>4. CASE Set(c, s) /\ MarkIfClaimed(c)
    BY <1>2, <2>0, <2>1, <2>4, LiveAlone
  <2>. QED
    BY <2>2, <2>3, <2>4
<1>. QED
  BY <1>4, <1>5, <1>6, <1>7, <1>9, <1>10, <1>11, <1>12

\* A live call ends; what it did to the row, it did to its own.
LEMMA EndAlone ==
  ASSUME AInv, Alone, TypeOK', NEW c \in Call, Dispatch(c), Live(c), UNCHANGED <<now, tool, landed>>,
         NEW k \in Local, k.args = call[c].args, k.returned = call[c].returned,
         NEW a \in Answer, NEW of \in Call \cup {NoCall}, Finish(c, k, a, of),
         a \in {"replay", "overflow"} => of = c,
         \/ UNCHANGED <<row, claimant>>
         \/ call[c].claimed /\ row' = NoRow /\ claimant' = NoCall
         \/ /\ call[c].claimed /\ row' # NoRow /\ claimant' = claimant
            /\ row'.state = "completed"
                 => row'.args = row.args /\ row'.result = c /\ call[c].returned
  PROVE  AInv'
<1>1. PICK l \in Local : /\ Set(c, l) /\ l.pc = "done" /\ ~l.claimed /\ ~l.committed
                         /\ l.answer = a /\ l.of = of /\ l.args = call[c].args /\ l.returned = call[c].returned
  BY FinishLocal DEF AInv
<1>2. call'[c] = l
  BY <1>1 DEF AInv, TypeOK, Set
<1>3. /\ \A d \in Call \ {c} : call[d].pc \notin Mid
      /\ call[c].pc \notin {"done", "crashed"}
  BY OthersOut
<1>4. Claims(c)' /\ Stands(c)' /\ Replays(c)'
  BY <1>1, <1>2 DEF Claims, Live, Early, Mid, Stands, Replays
<1>5. UNCHANGED <<row, claimant>> \/ Mine(c)
  BY MineIf
<1>6. call[c].claimed => claimant = c /\ c \notin Keyless /\ row.args = call[c].args
  BY DEF AInv, Claims
<1>7. Owner'
  BY <1>6, DispatchAssumption DEF AInv, Owner
<1>8. row' = row \/ Recorded'
  <2>1. CASE row'.state = "completed" /\ row' # NoRow /\ row' # row
    <3>1. row'.args = call[c].args /\ row'.result = c /\ call[c].returned
      BY <1>6, <2>1
    <3>. QED
      BY <1>1, <1>2, <3>1 DEF Recorded, Answers
  <2>. QED
    BY <2>1 DEF Recorded
<1>. QED
  BY <1>1, <1>3, <1>4, <1>5, <1>7, <1>8, MoveAlone

LEMMA CompleteAlone ==
  ASSUME AInv, Alone, TypeOK', NEW c \in Call, Dispatch(c), Complete(c)
  PROVE  AInv'
<1>0. /\ call[c] \in Local /\ Live(c) /\ call[c].returned /\ UNCHANGED <<now, tool, landed>>
      /\ call[c].claimed => row # NoRow /\ row \in Row
  BY DEF Complete, AInv, TypeOK, Live, Claims
<1>1. PICK over \in BOOLEAN :
        LET ok == Finish(c, call[c], IF over THEN "overflow" ELSE "ok", c) IN
        IF call[c].claimed
        THEN \/ finalizeIdempotency(c, over) /\ ok /\ UNCHANGED faults
             \/ SqlFault /\ IF over THEN ok ELSE Throw(c, call[c])
        ELSE ok /\ UNCHANGED <<row, claimant, faults>>
  BY DEF Complete
<1>2. call[c].claimed /\ finalizeIdempotency(c, over)
        => /\ row' # NoRow /\ claimant' = claimant /\ row'.args = row.args /\ row'.result = c
  BY <1>0 DEF finalizeIdempotency, NoRow, Row
<1>3. ASSUME NEW a \in {"overflow", "ok"}, Finish(c, call[c], a, c),
             UNCHANGED <<row, claimant>> \/ (call[c].claimed /\ finalizeIdempotency(c, over))
      PROVE  AInv'
  BY <1>0, <1>2, <1>3, EndAlone DEF Answer
<1>4. ASSUME Throw(c, call[c]), UNCHANGED <<row, claimant>> PROVE AInv'
  BY <1>0, <1>4, ThrowAlone
<1>. QED
  BY <1>1, <1>3, <1>4 DEF SqlFault

LEMMA CatchAlone ==
  ASSUME AInv, Alone, TypeOK', NEW c \in Call, Dispatch(c), Catch(c)
  PROVE  AInv'
<1>. DEFINE k == [call[c] EXCEPT !.spent = @ /\ ~Refusable(call[c])]
<1>0. /\ call[c] \in Local /\ Live(c) /\ UNCHANGED <<now, tool, landed>>
      /\ call[c].claimed => row # NoRow /\ row \in Row
  BY DEF Catch, AInv, TypeOK, Live, Claims
<1>1. k \in Local /\ k.args = call[c].args /\ k.returned = call[c].returned
  <2>1. (call[c].spent /\ ~Refusable(call[c])) \in BOOLEAN
    BY <1>0 DEF Local, Refusable
  <2>. QED
    BY <1>0, <2>1, ZenonT(60) DEF Local
<1>2. Finish(c, k, "error", NoCall)
  BY DEF Catch
<1>3. call[c].claimed /\ finalizeIndeterminate
        => row' # NoRow /\ claimant' = claimant /\ row'.state = "indeterminate"
  BY <1>0 DEF finalizeIndeterminate, NoRow, Row
<1>4. \/ UNCHANGED <<row, claimant>>
      \/ call[c].claimed /\ row' = NoRow /\ claimant' = NoCall
      \/ call[c].claimed /\ finalizeIndeterminate
  BY DEF Catch, SqlFault, deleteIdempotency
<1>. HIDE DEF k
<1>. QED
  BY <1>0, <1>1, <1>2, <1>3, <1>4, EndAlone DEF Answer

-----------------------------------------------------------------------------
(* The environment, and the whole step.                                    *)

LEMMA CrashAlone ==
  ASSUME AInv, TypeOK', NEW p \in Proc, Crash(p)
  PROVE  AInv'
<1>1. UNCHANGED <<now, row, tool, claimant, landed>>
  BY DEF Crash
<1>2. ASSUME NEW c \in Call
      PROVE  \/ call'[c] = call[c]
             \/ /\ call[c].pc \notin Over /\ call'[c].pc = "crashed" /\ ~call'[c].claimed /\ ~call'[c].committed
                /\ call'[c].answer = call[c].answer
  <2>1. call[c] \in Local
    BY DEF AInv, TypeOK
  <2>2. LET l == Ended(call[c], "crashed") IN
        l.pc = "crashed" /\ ~l.claimed /\ ~l.committed /\ l.answer = call[c].answer
    BY <2>1 DEF Ended, Local
  <2>3. call'[c] = call[c] \/ (call[c].pc \notin Over /\ call'[c] = Ended(call[c], "crashed"))
    BY DEF Crash
  <2>. QED
    BY <2>2, <2>3
<1>3. \A c \in Call : Claims(c)'
  BY <1>1, <1>2 DEF AInv, Claims, Live, Early, Mid, Style
<1>4. Stretch'
  BY <1>1, <1>2 DEF AInv, Stretch, Stands, Reclaimable, Mid
<1>5. Owner'
  BY <1>1 DEF AInv, Owner
<1>6. \A d, a : Answers(d, a) => Answers(d, a)'
  BY <1>2 DEF Answers, Over
<1>7. Recorded'
  BY <1>1, <1>6 DEF AInv, Results, Recorded
<1>8. \A c \in Call : Replays(c)'
  BY <1>2, <1>6 DEF AInv, Results, Replays, Over
<1>. QED
  BY <1>3, <1>4, <1>5, <1>7, <1>8 DEF AInv, Results

LEMMA SweepAlone == ASSUME AInv, Alone, TypeOK', Sweep PROVE AInv'
<1>0. UNCHANGED <<now, tool, call, landed>>
  BY DEF Sweep
<1>1. UNCHANGED <<row, claimant>> \/ (row # NoRow /\ row.expires <= now /\ row' = NoRow /\ claimant' = NoCall)
  BY DEF Sweep, deleteIdempotency
<1>2. CASE UNCHANGED <<row, claimant>>
  BY <1>0, <1>2 DEF AInv, Claims, Live, Style, Stretch, Stands, Reclaimable, Owner, Results, Recorded, Replays, Answers
<1>3. CASE row # NoRow /\ row.expires <= now /\ row' = NoRow /\ claimant' = NoCall
  <2>1. ASSUME NEW c \in Call PROVE ~call[c].claimed
    <3>1. call[c].claimedAt \in Nat /\ now \in Nat /\ Ttl \in Nat /\ Reclaim \in Nat /\ Reclaim <= Ttl
      BY DispatchAssumption DEF AInv, TypeOK, Local, Alone
    <3>2. call[c].claimed => row.expires = call[c].claimedAt + Ttl /\ now < call[c].claimedAt + Reclaim
      BY DEF AInv, Claims
    <3>. QED
      BY <1>3, <3>1, <3>2
  <2>2. \A c \in Call : Claims(c)'
    BY <1>0, <2>1 DEF AInv, Claims, Live
  <2>. QED
    BY <1>0, <1>3, <2>2, DispatchAssumption
       DEF AInv, Stretch, Stands, Owner, Results, Recorded, Replays, Answers
<1>. QED
  BY <1>1, <1>2, <1>3

LEMMA TickAlone == ASSUME AInv, Alone, TypeOK', Tick PROVE AInv'
<1>0. UNCHANGED <<row, tool, call, claimant, landed>> /\ now' = now + 1 /\ now \in Nat
  BY DEF Tick, AInv, TypeOK
<1>1. \A c \in Call : call[c].claimed => now' < call[c].claimedAt + Reclaim
  BY <1>0 DEF Tick, Alone, AInv, Claims
<1>2. \A c \in Call : Claims(c)'
  BY <1>0, <1>1 DEF AInv, Claims, Live, Style
<1>3. row # NoRow /\ Reclaimable(row) => Reclaimable(row)'
  <2>1. row # NoRow => row.expires \in Nat /\ row.started \in Nat /\ Reclaim \in Nat
    BY DispatchAssumption DEF AInv, TypeOK, Row
  <2>. QED
    BY <1>0, <2>1 DEF Reclaimable
<1>. QED
  BY <1>0, <1>2, <1>3 DEF AInv, Stretch, Stands, Owner, Results, Recorded, Replays, Answers

LEMMA NextAlone == Alone /\ AInv /\ [Next]_vars => AInv'
<1>. SUFFICES ASSUME Alone, AInv, [Next]_vars PROVE AInv'
  OBVIOUS
<1>1. TypeOK'
  BY NextType DEF AInv
<1>2. ASSUME NEW c \in Call, Dispatch(c) PROVE AInv'
  BY <1>1, <1>2, ArriveAlone, GateAlone, HandlerAlone, CompleteAlone, CatchAlone DEF Dispatch
<1>3. CASE UNCHANGED vars
  BY <1>1, <1>3 DEF vars, AInv, Claims, Live, Style, Stretch, Stands, Reclaimable, Owner, Results, Recorded,
                    Replays, Answers
<1>. QED
  BY <1>1, <1>2, <1>3, CrashAlone, SweepAlone, TickAlone DEF Next

(* A duplicate of a call in flight does not get to the handler: two calls  *)
(* of the key are never in it together (claimOrReplay).                    *)
THEOREM HolderAlone == Alone => (Spec => []OneHolder)
<1>. SUFFICES ASSUME Alone PROVE Spec => []OneHolder
  OBVIOUS
<1>1. AInv => OneHolder
  BY DEF AInv, Claims, Live, OneHolder
<1>. QED
  BY <1>1, InitAlone, NextAlone, PTL DEF Spec

(* A replayed answer is the answer of a call with the same tool and        *)
(* arguments, whose handler returned (claimOrReplay).                      *)
THEOREM ReplayOwn == Alone => (Spec => []ReplayFaithful)
<1>. SUFFICES ASSUME Alone PROVE Spec => []ReplayFaithful
  OBVIOUS
<1>1. AInv => ReplayFaithful
  BY DEF AInv, Results, Replays, Answers, ReplayFaithful
<1>. QED
  BY <1>1, InitAlone, NextAlone, PTL DEF Spec

-----------------------------------------------------------------------------
(* The claim of an effect that landed.                                     *)

\* The holder of a claim whose effect has landed goes on without giving it up.
LEMMA HolderKeeps ==
  ASSUME AInv, Alone, NEW c \in Call, Dispatch(c), claimant = c, c \in landed,
         Style(c) \in {"ahead", "txn"}
  PROVE  /\ row' # NoRow /\ row'.state # "in_flight"
         /\ row'.expires = row.expires /\ claimant' = c
<1>1. call[c].pc \in {"handler", "settle", "catch"}
  <2>1. call[c].pc \notin Early \cup {"done", "crashed"} /\ call[c].pc \in Pc
    BY OthersOut DEF AInv, Claims, TypeOK, Local
  <2>. QED
    BY <2>1 DEF Early, Pc
<1>2. /\ call[c].claimed /\ call[c].committed /\ row # NoRow /\ row \in Row /\ row.state = "effect_committed"
  <2>1. c \notin Keyless
    BY DEF AInv, Owner
  <2>. QED
    BY <1>1, <2>1 DEF AInv, Claims, Live, TypeOK
<1>3. CASE UNCHANGED <<row, claimant>>
  BY <1>2, <1>3
<1>4. CASE MarkIfClaimed(c)
  BY <1>2, <1>4, MarkAlone
<1>5. ASSUME NEW over, finalizeIdempotency(c, over)
      PROVE  row' # NoRow /\ row'.state # "in_flight" /\ row'.expires = row.expires /\ claimant' = c
  BY <1>2, <1>5 DEF finalizeIdempotency, Row, NoRow
<1>6. CASE finalizeIndeterminate
  BY <1>2, <1>6 DEF finalizeIndeterminate, Row, NoRow
<1>7. \/ UNCHANGED <<row, claimant>> \/ MarkIfClaimed(c) \/ finalizeIndeterminate
      \/ \E over \in BOOLEAN : finalizeIdempotency(c, over)
  <2>1. CASE Drifted(c) \/ Confirm(c) \/ RolledBack(c) \/ HandlerThrow(c) \/ OutputRefused(c)
    BY <2>1 DEF Drifted, Confirm, RolledBack, HandlerThrow, OutputRefused
  <2>2. CASE Signal(c) \/ Effect(c) \/ HandlerReturn(c)
    BY <2>2 DEF Signal, Effect, HandlerReturn, SqlFault
  <2>3. CASE Complete(c)
    BY <1>2, <2>3 DEF Complete, SqlFault
  <2>4. CASE Catch(c)
    <3>1. Settled(c)
      BY <1>2 DEF Settled
    <3>. QED
      BY <1>2, <2>4, <3>1 DEF Catch, SqlFault
  <2>. QED
    BY <1>1, <2>1, <2>2, <2>3, <2>4
       DEF Dispatch, Arrive, Reject, Insert, Read, Reap, Reinsert, Reread, ClaimFault, Throttled, Abort,
           ElicitRequired, Enter, Mid
<1>. QED
  BY <1>3, <1>4, <1>5, <1>6, <1>7

\* What a step of a call does to the calls.
Unclaiming(c, l) ==
  /\ l \in Local /\ Set(c, l)
  /\ l.claimedAt = call[c].claimedAt /\ (l.claimed => call[c].claimed)
  /\ call[c].pc # "idle" => l.args = call[c].args

LEMMA DispatchMoves ==
  ASSUME TypeOK, NEW c \in Call, Dispatch(c)
  PROVE  \/ \E l : Unclaiming(c, l)
         \/ tryClaimIdempotency(c) /\ call[c].pc \in {"insert", "reinsert"}
<1>1. call' = call => Set(c, call[c])
  BY DEF TypeOK, Set
<1>2. call[c] \in Local
  BY DEF TypeOK
<1>3. ASSUME NEW k \in Local, k.claimedAt = call[c].claimedAt, k.claimed = call[c].claimed,
             k.args = call[c].args, NEW a \in Answer, NEW of \in Call \cup {NoCall}, Finish(c, k, a, of)
      PROVE  \E l : Unclaiming(c, l)
  <2>. DEFINE l == [Ended(k, "done") EXCEPT !.answer = a, !.of = of]
  <2>1. "done" \in Pc
    BY DEF Pc
  <2>2. l \in Local
    <3>1. Ended(k, "done") \in Local
      BY <2>1, LocalType
    <3>. QED
      BY <3>1 DEF Local
  <2>3. ~l.claimed /\ l.claimedAt = k.claimedAt /\ l.args = k.args
    BY <2>1, EndedKeeps
  <2>4. Set(c, l)
    BY <1>3 DEF Finish
  <2>. QED
    BY <1>3, <2>2, <2>3, <2>4 DEF Unclaiming
<1>4. ASSUME NEW k \in Local, k.claimedAt = call[c].claimedAt, k.claimed = call[c].claimed,
             k.args = call[c].args, Throw(c, k)
      PROVE  \E l : Unclaiming(c, l)
  <2>. DEFINE l == [k EXCEPT !.pc = "catch"]
  <2>1. l \in Local /\ l.claimed = k.claimed /\ l.claimedAt = k.claimedAt /\ l.args = k.args
    BY DEF Local, Pc
  <2>2. Set(c, l)
    BY <1>4 DEF Throw
  <2>. QED
    BY <1>4, <2>1, <2>2 DEF Unclaiming
<1>5. ASSUME NEW p \in Pc, Set(c, [call[c] EXCEPT !.pc = p]) PROVE \E l : Unclaiming(c, l)
  <2>. DEFINE l == [call[c] EXCEPT !.pc = p]
  <2>1. l \in Local /\ l.claimed = call[c].claimed /\ l.claimedAt = call[c].claimedAt /\ l.args = call[c].args
    BY <1>2 DEF Local
  <2>. QED
    BY <1>5, <2>1 DEF Unclaiming
<1>6. ASSUME NEW b \in BOOLEAN,
             NEW l \in {[call[c] EXCEPT !.committed = b], [call[c] EXCEPT !.blocked = b],
                       [call[c] EXCEPT !.spent = b], [call[c] EXCEPT !.returned = b]}
      PROVE  /\ l \in Local /\ l.claimed = call[c].claimed
             /\ l.claimedAt = call[c].claimedAt /\ l.args = call[c].args
  <2>1. CASE l = [call[c] EXCEPT !.committed = b]
    BY <1>2, <2>1 DEF Local
  <2>2. CASE l = [call[c] EXCEPT !.blocked = b]
    BY <1>2, <2>2 DEF Local
  <2>3. CASE l = [call[c] EXCEPT !.spent = b]
    BY <1>2, <2>3 DEF Local
  <2>4. CASE l = [call[c] EXCEPT !.returned = b]
    BY <1>2, <2>4 DEF Local
  <2>. QED
    BY <1>6, <2>1, <2>2, <2>3, <2>4
<1>7. CASE Arrive(c)
  <2>1. PICK a \in Args :
          Set(c, [call[c] EXCEPT !.pc = IF c \in Keyless THEN "gates" ELSE "insert", !.args = a])
    BY <1>7 DEF Arrive
  <2>. DEFINE l == [call[c] EXCEPT !.pc = IF c \in Keyless THEN "gates" ELSE "insert", !.args = a]
  <2>2. l \in Local /\ l.claimed = call[c].claimed /\ l.claimedAt = call[c].claimedAt
    BY <1>2 DEF Local, Pc
  <2>3. call[c].pc = "idle" /\ Set(c, l)
    BY <1>7, <2>1 DEF Arrive
  <2>. QED
    BY <2>2, <2>3 DEF Unclaiming
<1>8. CASE Reject(c) \/ ClaimFault(c)
  BY <1>2, <1>3, <1>8 DEF Reject, ClaimFault, Answer
<1>9. ASSUME Resolve(c) PROVE \E l : Unclaiming(c, l)
  <2>1. row # NoRow => row.result \in Call \cup {NoCall} /\ row.state \in RowState
    BY DEF TypeOK, Row
  <2>2. \E a \in Answer, of \in Call \cup {NoCall} : Finish(c, call[c], a, of)
    BY <1>9, <2>1 DEF Resolve, Answer, RowState
  <2>. QED
    BY <1>2, <1>3, <2>2
<1>10. CASE Insert(c) \/ Read(c) \/ Reap(c) \/ Reinsert(c) \/ Reread(c)
  BY <1>5, <1>9, <1>10 DEF Insert, Read, Reap, Reinsert, Reread, Pc, Mid
<1>11. CASE Throttled(c) \/ Abort(c) \/ ElicitRequired(c) \/ Drifted(c) \/ OutputRefused(c)
  BY <1>2, <1>4, <1>11 DEF Throttled, Abort, ElicitRequired, Drifted, OutputRefused
<1>12. CASE Enter(c)
  <2>. DEFINE k == [call[c] EXCEPT !.spent = (Gating(c) = "dispatch")]
              h == [k EXCEPT !.pc = "handler", !.invoked = TRUE]
  <2>1. /\ k \in Local /\ k.claimed = call[c].claimed /\ k.claimedAt = call[c].claimedAt /\ k.args = call[c].args
        /\ h \in Local /\ h.claimed = call[c].claimed /\ h.claimedAt = call[c].claimedAt /\ h.args = call[c].args
    BY <1>2 DEF Local, Pc
  <2>2. Throw(c, k) \/ Set(c, h)
    BY <1>12 DEF Enter
  <2>. HIDE DEF k, h
  <2>. QED
    BY <1>4, <2>1, <2>2 DEF Unclaiming
<1>13. CASE Confirm(c)
  BY <1>6, <1>13 DEF Confirm, Unclaiming
<1>14. CASE Signal(c)
  BY <1>2, <1>4, <1>6, <1>14 DEF Signal, Unclaiming
<1>15. CASE Effect(c)
  BY <1>1, <1>2, <1>6, <1>15 DEF Effect, Unclaiming
<1>16. CASE RolledBack(c) \/ HandlerThrow(c)
  BY <1>4, <1>6, <1>16 DEF RolledBack, HandlerThrow
<1>17. CASE HandlerReturn(c)
  <2>. DEFINE t == [call[c] EXCEPT !.returned = TRUE]
              s == [t EXCEPT !.pc = "settle"]
  <2>1. /\ t \in Local /\ t.claimed = call[c].claimed /\ t.claimedAt = call[c].claimedAt /\ t.args = call[c].args
        /\ s \in Local /\ s.claimed = call[c].claimed /\ s.claimedAt = call[c].claimedAt /\ s.args = call[c].args
    BY <1>2 DEF Local, Pc
  <2>2. Throw(c, t) \/ Set(c, s)
    BY <1>17 DEF HandlerReturn
  <2>. HIDE DEF t, s
  <2>. QED
    BY <1>4, <2>1, <2>2 DEF Unclaiming
<1>18. CASE Complete(c)
  BY <1>2, <1>3, <1>4, <1>18 DEF Complete, Answer
<1>19. CASE Catch(c)
  <2>. DEFINE k == [call[c] EXCEPT !.spent = @ /\ ~Refusable(call[c])]
  <2>1. (call[c].spent /\ ~Refusable(call[c])) \in BOOLEAN
    BY <1>2 DEF Local, Refusable
  <2>2. k \in Local /\ k.claimed = call[c].claimed /\ k.claimedAt = call[c].claimedAt /\ k.args = call[c].args
    BY <1>6, <2>1
  <2>3. Finish(c, k, "error", NoCall)
    BY <1>19 DEF Catch
  <2>. HIDE DEF k
  <2>. QED
    BY <1>3, <2>2, <2>3 DEF Answer
<1>. QED
  BY <1>7, <1>8, <1>10, <1>11, <1>12, <1>13, <1>14, <1>15, <1>16, <1>17, <1>18, <1>19 DEF Dispatch

LEMMA KeptStep ==
  ASSUME AInv, Alone, [Next]_vars
  PROVE  \A c \in Call :
           claimant = c /\ c \in landed /\ Style(c) \in {"ahead", "txn"} /\ call'[c] # call[c]
             => row' # NoRow
<1>. SUFFICES ASSUME NEW c \in Call, claimant = c, c \in landed, Style(c) \in {"ahead", "txn"},
                     call'[c] # call[c]
              PROVE  row' # NoRow
  OBVIOUS
<1>1. ASSUME NEW d \in Call, Dispatch(d) PROVE row' # NoRow
  <2>1. CASE d = c
    BY <1>1, <2>1, HolderKeeps
  <2>2. CASE d # c
    <3>1. \E l : Set(d, l)
      BY <1>1, DispatchMoves DEF AInv, Unclaiming, tryClaimIdempotency
    <3>2. call'[c] = call[c]
      BY <2>2, <3>1 DEF Set, AInv, TypeOK
    <3>. QED
      BY <3>2
  <2>. QED
    BY <2>1, <2>2
<1>2. CASE \E p \in Proc : Crash(p)
  BY <1>2, DispatchAssumption DEF Crash, AInv, Owner
<1>3. CASE Sweep \/ Tick \/ UNCHANGED vars
  BY <1>3 DEF Sweep, Tick, vars
<1>. QED
  BY <1>1, <1>2, <1>3 DEF Next

(* The holder of a claim does not give it up once its effect has landed,   *)
(* when its handler marks ahead of the effect or with it (the catch of     *)
(* dispatch.ts).                                                           *)
THEOREM ClaimOfEffectKept == Alone => (Spec => CommittedClaimKept)
<1>. SUFFICES ASSUME Alone PROVE Spec => CommittedClaimKept
  OBVIOUS
<1>1. AInv /\ [Next]_vars
        => [\A c \in Call :
              claimant = c /\ c \in landed /\ Style(c) \in {"ahead", "txn"} /\ call'[c] # call[c]
                => row' # NoRow]_vars
  BY KeptStep
<1>. QED
  BY <1>1, InitAlone, NextAlone, PTL DEF Spec, CommittedClaimKept

-----------------------------------------------------------------------------
(* One effect in the lifetime of a key.                                    *)

\* Until the key's lifetime is over, the row of a landed effect keeps other calls out.
Guarded(c) ==
  now < call[c].claimedAt + Ttl
    => row # NoRow /\ claimant = c /\ row.state # "in_flight" /\ row.expires = call[c].claimedAt + Ttl

Apart(c, d) == call[d].claimed => call[c].claimedAt + Ttl <= call[d].claimedAt

OnceInv ==
  /\ AInv
  /\ \A c \in landed \ Keyless : Guarded(c) /\ \A d \in Call \ {c} : Apart(c, d)
  /\ AtMostOncePerTtl

\* Every tool marks its effect before it lands, or with it.
MarksEffects == Styles \subseteq {"ahead", "txn"}

LEMMA InitOnce == Init => OnceInv
<1>1. Init => landed = {}
  BY DEF Init
<1>. QED
  BY <1>1, InitAlone DEF OnceInv, AtMostOncePerTtl

\* A call that does not hold the claim leaves a row that guards its key.
LEMMA GuardStays ==
  ASSUME AInv, Alone, NEW d \in Call, Dispatch(d), row # NoRow, claimant # d, ~Reclaimable(row)
  PROVE  UNCHANGED <<row, claimant>>
<1>1. ~call[d].claimed
  BY DEF AInv, Claims
<1>2. call[d].pc \notin {"reap", "reinsert"}
  BY DEF AInv, Stretch, Stands
<1>3. ~Throttled(d) /\ ~ElicitRequired(d)
  <2>1. call[d].args \in Args /\ tool[call[d].args].gating \in Gatings
    BY DEF AInv, TypeOK, Local
  <2>. QED
    BY <2>1 DEF Throttled, ElicitRequired, Alone, Gating
<1>4. CASE Signal(d) \/ Effect(d) \/ HandlerReturn(d) \/ Complete(d) \/ Catch(d)
  BY <1>1, <1>4 DEF Signal, Effect, HandlerReturn, Complete, Catch, MarkIfClaimed
<1>5. CASE Insert(d)
  BY <1>5 DEF Insert, tryClaimIdempotency
<1>. QED
  BY <1>2, <1>3, <1>4, <1>5
     DEF Dispatch, Arrive, Reject, Read, Reap, Reinsert, Reread, ClaimFault, Abort, Drifted, Enter, Confirm,
         RolledBack, HandlerThrow, OutputRefused, SqlFault

\* A step of a call keeps the guards.
LEMMA DispatchGuards ==
  ASSUME OnceInv, Alone, MarksEffects, AInv', NEW d \in Call, Dispatch(d)
  PROVE  OnceInv'
<1>0. /\ AInv /\ TypeOK /\ TypeOK' /\ now \in Nat /\ Ttl \in Nat /\ Reclaim \in Nat /\ now' = now /\ Ttl > 0
      /\ \A c \in Call : call[c].claimedAt \in Nat
  <2>1. now' = now
    BY DEF Dispatch, Arrive, Reject, Insert, Read, Reap, Reinsert, Reread, ClaimFault, Throttled, Abort,
           ElicitRequired, Drifted, Enter, Confirm, Signal, Effect, RolledBack, HandlerThrow, HandlerReturn,
           Complete, OutputRefused, Catch
  <2>. QED
    BY <2>1, DispatchAssumption DEF OnceInv, AInv, TypeOK, Local, Alone
<1>1. ASSUME NEW c \in Call, c # d PROVE call'[c] = call[c]
  <2>1. \E l : Set(d, l)
    BY DispatchMoves, <1>0 DEF Unclaiming, tryClaimIdempotency
  <2>. QED
    BY <1>0, <1>1, <2>1 DEF Set, TypeOK
<1>2. landed' = landed \/ (Effect(d) /\ landed' = landed \cup {d})
  BY DEF Dispatch, Arrive, Reject, Insert, Read, Reap, Reinsert, Reread, ClaimFault, Throttled, Abort,
         ElicitRequired, Drifted, Enter, Confirm, Signal, Effect, RolledBack, HandlerThrow, HandlerReturn,
         Complete, OutputRefused, Catch
<1>3. \A c \in Call : Style(c) \in {"ahead", "txn"} /\ Style(c)' \in {"ahead", "txn"}
  <2>1. \A c \in Call : call[c].args \in Args /\ call'[c].args \in Args
    BY <1>0 DEF TypeOK, Local
  <2>. QED
    BY <1>0, <2>1 DEF TypeOK, Style, MarksEffects
<1>4. \/ /\ call'[d].claimedAt = call[d].claimedAt
         /\ call'[d].claimed => call[d].claimed
      \/ /\ d \notin landed /\ row = NoRow /\ call'[d].claimedAt = now
  <2>1. ASSUME NEW l, Unclaiming(d, l)
        PROVE  call'[d].claimedAt = call[d].claimedAt /\ (call'[d].claimed => call[d].claimed)
    <3>1. call'[d] = l
      BY <1>0, <2>1 DEF Unclaiming, Set, TypeOK
    <3>. QED
      BY <2>1, <3>1 DEF Unclaiming
  <2>2. CASE tryClaimIdempotency(d) /\ call[d].pc \in {"insert", "reinsert"}
    <3>. DEFINE l == [call[d] EXCEPT !.pc = "gates", !.claimed = TRUE, !.claimedAt = now]
    <3>1. call'[d] = l /\ row = NoRow
      BY <1>0, <2>2 DEF tryClaimIdempotency, Set, TypeOK
    <3>2. call[d] \in Local
      BY <1>0 DEF TypeOK
    <3>3. l.claimedAt = now
      BY <3>2 DEF Local
    <3>4. d \notin landed
      BY <1>0, <2>2 DEF AInv, Claims, Early, Mid
    <3>. QED
      BY <3>1, <3>3, <3>4
  <2>. QED
    BY <1>0, <2>1, <2>2, DispatchMoves
<1>5. \A c \in landed : c \in Call /\ call'[c].claimedAt = call[c].claimedAt
  BY <1>0, <1>1, <1>4 DEF TypeOK
<1>6. ASSUME NEW c \in landed \ Keyless PROVE Guarded(c)'
  <2>. SUFFICES ASSUME now < call[c].claimedAt + Ttl
                PROVE  /\ row' # NoRow /\ claimant' = c /\ row'.state # "in_flight"
                       /\ row'.expires = call[c].claimedAt + Ttl
    BY <1>0, <1>5 DEF Guarded
  <2>1. /\ row # NoRow /\ claimant = c /\ row.state # "in_flight"
        /\ row.expires = call[c].claimedAt + Ttl
    BY DEF OnceInv, Guarded
  <2>2. CASE c # d
    <3>1. ~Reclaimable(row)
      BY <1>0, <1>5, <2>1 DEF Reclaimable
    <3>2. UNCHANGED <<row, claimant>>
      BY <1>0, <2>1, <2>2, <3>1, GuardStays
    <3>. QED
      BY <2>1, <3>2
  <2>3. CASE c = d
    BY <1>0, <1>3, <2>1, <2>3, HolderKeeps
  <2>. QED
    BY <2>2, <2>3
<1>7. ASSUME NEW c \in landed' \ Keyless, c \notin landed
      PROVE  c = d /\ call'[c].claimed /\ claimant' = c /\ Guarded(c)'
  <2>1. c = d /\ Effect(d)
    BY <1>2, <1>7
  <2>2. Live(d)'
    <3>1. call[d].pc = "handler" /\ call[d] \in Local
      BY <1>0, <2>1 DEF Effect, InHandler, TypeOK
    <3>2. \/ call' = call \/ Set(d, [call[d] EXCEPT !.committed = TRUE])
      BY <2>1 DEF Effect
    <3>3. call'[d].pc = "handler"
      BY <1>0, <3>1, <3>2 DEF Set, TypeOK, Local
    <3>. QED
      BY <3>3 DEF Live
  <2>3. call'[d].claimed /\ claimant' = d
    BY <2>1, <2>2 DEF AInv, Claims
  <2>4. row' # NoRow /\ row'.state = "effect_committed" /\ row'.expires = call'[d].claimedAt + Ttl
    BY <1>3, <2>1, <2>3 DEF AInv, Claims
  <2>. QED
    BY <2>1, <2>3, <2>4 DEF Guarded
<1>8. ASSUME NEW c \in landed' \ Keyless, NEW e \in Call \ {c} PROVE Apart(c, e)'
  <2>. SUFFICES ASSUME call'[e].claimed PROVE call'[c].claimedAt + Ttl <= call'[e].claimedAt
    BY DEF Apart
  <2>1. CASE c \in landed
    <3>1. call[e].claimed => call[c].claimedAt + Ttl <= call[e].claimedAt
      BY <2>1 DEF OnceInv, Apart
    <3>2. now < call[c].claimedAt + Ttl => row # NoRow
      BY <2>1 DEF OnceInv, Guarded
    <3>3. CASE call'[e].claimedAt = call[e].claimedAt /\ call[e].claimed
      BY <1>5, <2>1, <3>1, <3>3
    <3>4. CASE row = NoRow /\ call'[e].claimedAt = now
      BY <1>0, <1>5, <2>1, <3>2, <3>4
    <3>. QED
      BY <1>1, <1>4, <3>3, <3>4
  <2>2. CASE c \notin landed
    <3>1. claimant' = c
      BY <1>7, <2>2
    <3>2. claimant' = e
      BY DEF AInv, Claims
    <3>. QED
      BY <3>1, <3>2
  <2>. QED
    BY <2>1, <2>2
<1>9. AtMostOncePerTtl'
  <2>. SUFFICES ASSUME NEW c \in landed' \ Keyless, NEW e \in landed' \ Keyless, c # e,
                       call'[c].claimedAt <= call'[e].claimedAt
                PROVE  call'[c].claimedAt + Ttl <= call'[e].claimedAt
    BY DEF AtMostOncePerTtl
  <2>1. /\ c \in Call /\ e \in Call
        /\ call'[c].claimedAt \in Nat /\ call'[e].claimedAt \in Nat
    BY <1>0 DEF TypeOK, Local
  <2>2. CASE c \in landed /\ e \in landed
    BY <1>5, <2>2 DEF OnceInv, AtMostOncePerTtl
  <2>3. CASE e \notin landed
    BY <1>7, <1>8, <2>1, <2>3 DEF Apart
  <2>4. CASE c \notin landed
    <3>1. call'[e].claimedAt + Ttl <= call'[c].claimedAt
      BY <1>7, <1>8, <2>1, <2>4 DEF Apart
    <3>. QED
      BY <1>0, <2>1, <3>1
  <2>. QED
    BY <2>2, <2>3, <2>4
<1>. QED
  BY <1>6, <1>7, <1>8, <1>9 DEF OnceInv

LEMMA OtherOnce ==
  ASSUME OnceInv, Alone, AInv', (\E p \in Proc : Crash(p)) \/ Sweep \/ Tick \/ UNCHANGED vars
  PROVE  OnceInv'
<1>0. /\ AInv /\ TypeOK /\ TypeOK' /\ now \in Nat /\ Ttl \in Nat
      /\ \A c \in Call : call[c].claimedAt \in Nat
  BY DispatchAssumption DEF OnceInv, AInv, TypeOK, Local
<1>1. landed' = landed /\ landed \subseteq Call
  BY <1>0 DEF Crash, Sweep, Tick, vars, TypeOK
<1>2. now' \in Nat /\ now <= now'
  BY <1>0 DEF Crash, Sweep, Tick, vars
<1>3. \A c \in Call : /\ call'[c].claimedAt = call[c].claimedAt
                      /\ call'[c].claimed => call[c].claimed
  <2>1. CASE \E p \in Proc : Crash(p)
    <3>1. PICK p \in Proc : Crash(p)
      BY <2>1
    <3>2. \A c \in Call : call'[c] = call[c] \/ call'[c] = Ended(call[c], "crashed")
      BY <3>1 DEF Crash
    <3>3. \A c \in Call : call[c] \in Local
      BY <1>0 DEF TypeOK
    <3>4. \A c \in Call : LET l == Ended(call[c], "crashed") IN
                          l.claimedAt = call[c].claimedAt /\ ~l.claimed
      BY <3>3 DEF Ended, Local
    <3>. QED
      BY <3>2, <3>4
  <2>2. CASE call' = call
    BY <2>2
  <2>. QED
    BY <2>1, <2>2 DEF Sweep, Tick, vars
<1>4. ASSUME NEW c \in landed \ Keyless PROVE Guarded(c)'
  <2>. SUFFICES ASSUME now' < call[c].claimedAt + Ttl
                PROVE  /\ row' # NoRow /\ claimant' = c /\ row'.state # "in_flight"
                       /\ row'.expires = call[c].claimedAt + Ttl
    BY <1>1, <1>3 DEF Guarded
  <2>1. call[c].claimedAt \in Nat
    BY <1>0, <1>1
  <2>2. /\ row # NoRow /\ claimant = c /\ row.state # "in_flight"
        /\ row.expires = call[c].claimedAt + Ttl
    BY <1>0, <1>2, <2>1 DEF OnceInv, Guarded
  <2>3. UNCHANGED <<row, claimant>>
    BY <1>0, <1>2, <2>1, <2>2 DEF Crash, Sweep, Tick, vars
  <2>. QED
    BY <2>2, <2>3
<1>5. \A c \in landed \ Keyless : \A d \in Call \ {c} : Apart(c, d)'
  BY <1>1, <1>3 DEF OnceInv, Apart
<1>6. AtMostOncePerTtl'
  BY <1>1, <1>3 DEF OnceInv, AtMostOncePerTtl
<1>. QED
  BY <1>1, <1>4, <1>5, <1>6 DEF OnceInv

LEMMA NextOnce == Alone /\ MarksEffects /\ OnceInv /\ [Next]_vars => OnceInv'
<1>. SUFFICES ASSUME Alone, MarksEffects, OnceInv, [Next]_vars PROVE OnceInv'
  OBVIOUS
<1>1. AInv'
  BY NextAlone DEF OnceInv
<1>. QED
  BY <1>1, DispatchGuards, OtherOnce DEF Next

(* Two effects under one key are at least the key's lifetime apart, when   *)
(* every tool marks its effect (idempotency.ts, ARCHITECTURE.md 4a).       *)
THEOREM OncePerKey == Alone /\ MarksEffects => (Spec => []AtMostOncePerTtl)
<1>. SUFFICES ASSUME Alone, MarksEffects PROVE Spec => []AtMostOncePerTtl
  OBVIOUS
<1>1. OnceInv => AtMostOncePerTtl
  BY DEF OnceInv
<1>. QED
  BY <1>1, InitOnce, NextOnce, PTL DEF Spec

=============================================================================
