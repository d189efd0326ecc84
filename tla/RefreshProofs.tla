---------------------------- MODULE RefreshProofs ----------------------------
(* Theorems about Refresh, for a family and a number of requests of any    *)
(* size, and any lifetimes and grace.                                      *)
EXTENDS Refresh, FiniteSetTheorems, TLAPS

LEMMA Constants ==
  /\ Token \subseteq Nat /\ Jti \subseteq Nat /\ None \notin Jti /\ Time \subseteq Nat
  /\ 0 \in Token /\ 0 \in Time /\ Unused \notin Time
  /\ NoRow \in Row /\ NoReq \in Request
BY RefreshAssumption DEF Token, Jti, None, Time, Unused, NoRow, Row, NoReq, Request, Pc

LEMMA RowParts ==
  ASSUME NEW t \in Row
  PROVE  /\ t.live \in BOOLEAN /\ t.gen \in Nat /\ t.used \in Time \cup {Unused} /\ t.revoked \in BOOLEAN
         /\ t.replay \in Jti \cup {None} /\ t.ends \in Nat
BY DEF Row

LEMMA RowEqual ==
  ASSUME NEW s \in Row, NEW t \in Row, s.live = t.live, s.gen = t.gen, s.used = t.used,
         s.revoked = t.revoked, s.replay = t.replay, s.ends = t.ends
  PROVE  s = t
BY DEF Row

LEMMA ReqParts ==
  ASSUME TypeOK, NEW r \in Req
  PROVE  /\ req[r] \in Request /\ req[r].pc \in Pc /\ req[r].tok \in Token
         /\ req[r].gen \in Nat /\ req[r].jti \in Jti \cup {None}
BY DEF TypeOK, Request

LEMMA ChildRow ==
  ASSUME TypeOK, NEW k \in Token
  PROVE  /\ k < MaxToken => k + 1 \in Token /\ Child(k) = row[k + 1]
         /\ ~(k < MaxToken) => Child(k) = NoRow /\ k = MaxToken
         /\ Child(k) \in Row /\ Stored(k) \in Jti \cup {None}
<1>1. /\ k < MaxToken => k + 1 \in Token /\ Child(k) = row[k + 1]
      /\ ~(k < MaxToken) => Child(k) = NoRow /\ k = MaxToken
  BY RefreshAssumption DEF Token, Child
<1>2. Child(k) \in Row
  BY <1>1, Constants DEF TypeOK
<1> QED
  BY <1>1, <1>2, RowParts DEF Stored

-----------------------------------------------------------------------------
(* What a step does to the rows of the family.                             *)

\* The transaction of a request that makes a successor.
Rotates(r) == Commit(r) /\ Redecided(r) = "rotate"

\* A row after a revocation, a sweep, and a rotation of k by r.
Retired(k) == [row[k] EXCEPT !.revoked = @ \/ row[k].live]

RowsMove ==
  \/ UNCHANGED <<row, code>>
  \/ queueFamilyRevocation /\ UNCHANGED code
  \/ Sweep
  \/ \E r \in Req : Rotates(r)

LEMMA RowCases == ASSUME TypeOK, [Next]_vars PROVE RowsMove
<1>1. ASSUME NEW r \in Req, Commit(r) PROVE RowsMove
  <2>1. CASE Redecided(r) = "rotate"
    BY <1>1, <2>1 DEF RowsMove, Rotates
  <2>2. CASE Redecided(r) # "rotate"
    BY <1>1, <2>2 DEF RowsMove, Commit
  <2> QED
    BY <2>1, <2>2
<1>2. ASSUME NEW r \in Req, \/ \E k \in Token : Begin(r, k)
                            \/ Record(r) \/ CommitFails(r) \/ Answer(r)
                            \/ Undo(r) \/ Repeat(r) \/ Abandon(r)
      PROVE  UNCHANGED <<row, code>>
  BY <1>2 DEF Begin, Record, CommitFails, Answer, Undo, Repeat, Abandon
<1>3. CASE (\E j \in Jti : Drain(j)) \/ Tick \/ ReplaceSecret \/ UNCHANGED vars
  BY <1>3 DEF Drain, Tick, ReplaceSecret, vars, RowsMove
<1>4. CASE (\E r \in Req : Retire(r)) \/ RevokeByClient \/ revokeGrant
  BY <1>4 DEF Retire, RevokeByClient, revokeGrant, RowsMove
<1> QED
  BY <1>1, <1>2, <1>3, <1>4 DEF Next, RowsMove

LEMMA RetiredRow ==
  ASSUME TypeOK, NEW k \in Token, queueFamilyRevocation
  PROVE  /\ row'[k] \in Row
         /\ row'[k].live = row[k].live /\ row'[k].gen = row[k].gen /\ row'[k].used = row[k].used
         /\ row'[k].replay = row[k].replay /\ row'[k].ends = row[k].ends
         /\ row'[k].revoked = (row[k].revoked \/ row[k].live)
<1>1. row[k] \in Row /\ row'[k] = [row[k] EXCEPT !.revoked = row[k].revoked \/ row[k].live]
  BY DEF TypeOK, queueFamilyRevocation
<1>2. (row[k].revoked \/ row[k].live) \in BOOLEAN
  BY <1>1, RowParts
<1> QED
  BY <1>1, <1>2 DEF Row

LEMMA SweptRow ==
  ASSUME TypeOK, NEW k \in Token, Sweep
  PROVE  /\ row'[k] \in Row
         /\ row'[k] = IF row[k].live /\ row[k].ends <= now THEN NoRow ELSE row[k]
BY Constants DEF TypeOK, Sweep

\* What standing() has seen of a token that may be rotated.
LEMMA Rotatable ==
  ASSUME TypeOK, NEW k \in Token, NEW g, standing(k, g) = "rotate"
  PROVE  /\ grant
         /\ k = 0 => code
         /\ k # 0 => /\ row[k].live /\ ~row[k].revoked /\ ~(row[k].ends <= now) /\ ~Child(k).live
<1>1. CASE k = 0
  BY <1>1 DEF standing, TypeOK
<1>2. CASE k # 0
  BY <1>2 DEF standing, TypeOK
<1> QED
  BY <1>1, <1>2

\* The new row, and what its making changes of the others.
LEMMA RotatedRow ==
  ASSUME TypeOK, NEW r \in Req, Rotates(r), req[r].tok < MaxToken, NEW i \in Token
  PROVE  LET k == req[r].tok IN
         /\ row'[i] \in Row
         /\ i = k + 1 => /\ row'[i].live /\ ~row'[i].revoked /\ row'[i].used = Unused
                         /\ row'[i].replay = (IF k = 0 THEN None ELSE req[r].jti)
                         /\ row'[i].ends = (IF k = 0 THEN now + FamilyLife ELSE row[k].ends)
         /\ i # k + 1 /\ k = 0 => row'[i] = row[i]
         /\ i # k + 1 /\ k # 0 =>
              /\ row'[i].live = row[i].live /\ row'[i].revoked = row[i].revoked
              /\ row'[i].ends = row[i].ends /\ row'[i].gen = row[i].gen
              /\ row'[i].replay = (IF i = Spent(k) THEN None ELSE row[i].replay)
              /\ row'[i].used = (IF i = k - 1 /\ i > 0 /\ row[i].used = Unused THEN now ELSE row[i].used)
<1> DEFINE k == req[r].tok
<1>1. Rotated(r)
  BY DEF Rotates, Commit
<1>2. row[i] \in Row /\ row[k] \in Row /\ now \in Time /\ now + FamilyLife \in Nat
  <2>1. k \in Token
    BY ReqParts
  <2>2. now \in Nat /\ FamilyLife \in Nat
    BY Constants, RefreshAssumption DEF TypeOK
  <2> QED
    BY <2>1, <2>2 DEF TypeOK
<1>3. CASE i = k + 1
  <2>1. row'[i] = [NoRow EXCEPT !.live = TRUE, !.gen = req[r].gen,
                      !.replay = IF k = 0 THEN None ELSE req[r].jti,
                      !.ends = IF k = 0 THEN now + FamilyLife ELSE row[k].ends]
    BY <1>1, <1>3 DEF Rotated
  <2>2. /\ row'[i].live = TRUE /\ row'[i].gen = req[r].gen /\ row'[i].used = Unused /\ row'[i].revoked = FALSE
        /\ row'[i].replay = (IF k = 0 THEN None ELSE req[r].jti)
        /\ row'[i].ends = (IF k = 0 THEN now + FamilyLife ELSE row[k].ends)
    BY <2>1 DEF NoRow
  <2>3. row'[i] \in Row
    <3>1. /\ req[r].gen \in Nat /\ (IF k = 0 THEN None ELSE req[r].jti) \in Jti \cup {None}
          /\ (IF k = 0 THEN now + FamilyLife ELSE row[k].ends) \in Nat
      BY <1>2, ReqParts, RowParts
    <3>2. NoRow \in Row
      BY Constants
    <3> QED
      BY <2>1, <3>1, <3>2 DEF Row
  <2> QED
    BY <1>3, <2>2, <2>3
<1>4. CASE i # k + 1 /\ k = 0
  BY <1>1, <1>2, <1>4 DEF Rotated
<1>5. CASE i # k + 1 /\ k # 0
  <2>1. PICK u, m : /\ row'[i] = [row[i] EXCEPT !.replay = u, !.used = m]
                    /\ u = (IF i = Spent(k) THEN None ELSE row[i].replay)
                    /\ m = (IF i = k - 1 /\ i > 0 /\ row[i].used = Unused THEN now ELSE row[i].used)
    BY <1>1, <1>5 DEF Rotated
  <2>2. u \in Jti \cup {None} /\ m \in Time \cup {Unused}
    BY <1>2, <2>1, RowParts
  <2> QED
    BY <1>2, <1>5, <2>1, <2>2 DEF Row
<1> QED
  BY <1>3, <1>4, <1>5

-----------------------------------------------------------------------------
(* The inductive invariant.                                                *)

\* The rows of a family are made one after the other, end together, and are revoked
\* together; there are none before the code is used.
Family ==
  /\ \A k \in Token : ~row[k].live => row[k] = NoRow
  /\ row[0] = NoRow /\ Stored(0) = None
  /\ code => \A k \in Token : ~row[k].live
  /\ \A i, k \in Token : row[i].live /\ row[k].live => row[i].ends = row[k].ends
  /\ \A k \in Token \ {0} : Child(k).live => row[k].live
  /\ \A i, k \in Token : row[i].revoked /\ row[k].live => row[k].revoked

\* A response is kept until the step that closes the window it is kept for.
Windows ==
  \A k \in Token \ {0} :
    /\ Child(k).live /\ Child(k).replay = None
         => row[k].used # Unused /\ (Grace = 0 \/ Child(k).used # Unused)
    /\ k + 1 \in Token /\ Child(k + 1).live => row[k].used # Unused

\* What a request has in hand.
Requests ==
  \A r \in Req : /\ req[r].pc \in {"look", "sign", "answer"} => req[r].tok < MaxToken
                 /\ req[r].pc \in {"sign", "answer", "undo", "superseded"} => req[r].jti # None

\* The access token j is an answer to the token k, on its way or to be repeated.
Bearer(k, j) ==
  \/ j \in out[k]
  \/ \E r \in Req : req[r].pc = "answer" /\ req[r].tok = k /\ req[r].jti = j
  \/ Stored(k) = j

\* The token k will not be rotated again.
Over == ~code /\ \A i \in Token : row[i].live => row[i].ends <= now
Done(k) == IF k = 0 THEN ~code ELSE Child(k).live \/ Over

Bearers ==
  \A k \in Token : /\ \A j \in Jti : Bearer(k, j) => Done(k)
                   /\ \A i, j \in Jti : Bearer(k, i) /\ Bearer(k, j) => i = j

\* A jti that anyone holds has been minted, and the family knows the good ones.
Minted ==
  /\ \A r \in Req : req[r].jti # None => exp[req[r].jti] # 0
  /\ \A k \in Token, j \in Jti : Bearer(k, j) => exp[j] # 0
  /\ \A j \in Jti : exp[j] > now => j \in issued

IsRevoked == ~grant \/ \E k \in Token : row[k].revoked
Covered == IsRevoked => \A k \in Token, j \in Jti : Bearer(k, j) /\ Good(j) => j \in outbox

IInv == TypeOK /\ Family /\ Windows /\ Requests /\ Bearers /\ Minted /\ Covered

-----------------------------------------------------------------------------
(* Types.                                                                  *)

LEMMA RequestSet ==
  ASSUME TypeOK, NEW r \in Req, NEW c \in Pc
  PROVE  /\ [req EXCEPT ![r] = NoReq] \in [Req -> Request]
         /\ [req EXCEPT ![r].pc = c] \in [Req -> Request]
         /\ \A j \in Jti \cup {None} : [req EXCEPT ![r].pc = c, ![r].jti = j] \in [Req -> Request]
         /\ \A k \in Token : [req EXCEPT ![r] = [pc |-> c, tok |-> k, gen |-> gen, jti |-> None]] \in [Req -> Request]
<1>1. /\ req \in [Req -> Request] /\ NoReq \in Request /\ gen \in Nat /\ req[r] \in Request
      /\ req[r].jti \in Jti \cup {None} /\ None \in Jti \cup {None}
  BY Constants, RefreshAssumption, ReqParts DEF TypeOK
<1>2. /\ [req[r] EXCEPT !.pc = c] \in Request
      /\ \A j \in Jti \cup {None} : [req[r] EXCEPT !.pc = c, !.jti = j] \in Request
  BY <1>1 DEF Request
<1>3. \A k \in Token : [pc |-> c, tok |-> k, gen |-> gen, jti |-> None] \in Request
  BY <1>1 DEF Request
<1> QED
  BY <1>1, <1>2, <1>3

LEMMA OutSet ==
  ASSUME TypeOK, NEW k \in Token, NEW j \in Jti
  PROVE  [out EXCEPT ![k] = @ \cup {j}] \in [Token -> SUBSET Jti]
BY DEF TypeOK

LEMMA StandingTyped ==
  ASSUME TypeOK, NEW k \in Token, NEW g
  PROVE  standing(k, g) \in {"dead", "reuse", "rotate", "foreign", "retry"}
<1>1. CASE k = 0
  BY <1>1 DEF standing, TypeOK
<1>2. CASE k # 0
  BY <1>2 DEF standing, TypeOK
<1> QED
  BY <1>1, <1>2

LEMMA RowsTyped ==
  ASSUME TypeOK, Requests, [Next]_vars
  PROVE  row' \in [Token -> Row]
<1>1. CASE UNCHANGED <<row, code>>
  BY <1>1 DEF TypeOK
<1>2. CASE queueFamilyRevocation
  BY <1>2, RetiredRow DEF queueFamilyRevocation
<1>3. CASE Sweep
  BY <1>3, SweptRow DEF Sweep
<1>4. ASSUME NEW r \in Req, Rotates(r) PROVE row' \in [Token -> Row]
  <2>1. req[r].tok < MaxToken
    BY <1>4 DEF Rotates, Commit, Requests
  <2>2. \A i \in Token : row'[i] \in Row
    BY <1>4, <2>1, RotatedRow
  <2>3. DOMAIN row' = Token /\ row' = [i \in Token |-> row'[i]]
    BY <1>4 DEF Rotates, Commit, Rotated
  <2> QED
    BY <2>2, <2>3
<1> QED
  BY <1>1, <1>2, <1>3, <1>4, RowCases DEF RowsMove

LEMMA TypeStep == TypeOK /\ Requests /\ [Next]_vars => TypeOK'
<1> SUFFICES ASSUME TypeOK, Requests, [Next]_vars PROVE TypeOK'
  OBVIOUS
<1>0. row' \in [Token -> Row]
  BY RowsTyped
<1>1. ASSUME NEW r \in Req, NEW k \in Token, Begin(r, k) PROVE TypeOK'
  <2>1. req' \in [Req -> Request]
    <3>1. standing(k, gen) \in {"dead", "reuse", "rotate", "foreign", "retry"}
      BY StandingTyped
    <3>2. \/ req' = [req EXCEPT ![r] = NoReq]
          \/ \E c \in {"look", "repeat", "retire"} :
               req' = [req EXCEPT ![r] = [pc |-> c, tok |-> k, gen |-> gen, jti |-> None]]
      BY <1>1, <3>1 DEF Begin
    <3>3. {"look", "repeat", "retire"} \subseteq Pc
      BY DEF Pc
    <3>4. CASE req' = [req EXCEPT ![r] = NoReq]
      BY <3>3, <3>4, RequestSet
    <3>5. ASSUME NEW c \in Pc, req' = [req EXCEPT ![r] = [pc |-> c, tok |-> k, gen |-> gen, jti |-> None]]
          PROVE  req' \in [Req -> Request]
      BY <3>5, RequestSet
    <3> QED
      BY <3>2, <3>3, <3>4, <3>5
  <2>2. outbox' \subseteq Jti /\ revoked' \subseteq Jti
    BY <1>1 DEF Begin, TypeOK
  <2> QED
    BY <1>0, <1>1, <2>1, <2>2 DEF Begin, TypeOK
<1>2. ASSUME NEW r \in Req, Record(r) PROVE TypeOK'
  <2>1. PICK j \in Jti : /\ exp' = [exp EXCEPT ![j] = now + AccessLife] /\ issued' = issued \cup {j}
                         /\ req' = [req EXCEPT ![r].pc = "sign", ![r].jti = j]
    BY <1>2 DEF Record
  <2>2. now + AccessLife \in Nat
    BY Constants, RefreshAssumption DEF TypeOK
  <2>3. req' \in [Req -> Request]
    BY <2>1, RequestSet DEF Pc
  <2> QED
    BY <1>0, <1>2, <2>1, <2>2, <2>3 DEF Record, TypeOK
<1>3. ASSUME NEW r \in Req, Commit(r) PROVE TypeOK'
  <2>1. PICK c \in Pc : req' = [req EXCEPT ![r].pc = c]
    <3>1. Redecided(r) \in {"dead", "reuse", "rotate", "foreign", "retry"}
      BY ReqParts, StandingTyped DEF Redecided
    <3>2. \E c \in {"answer", "retire", "undo", "superseded"} : req' = [req EXCEPT ![r].pc = c]
      BY <1>3, <3>1 DEF Commit
    <3> QED
      BY <3>2 DEF Pc
  <2>2. code' \in BOOLEAN
    BY <1>3 DEF Commit, TypeOK
  <2>3. req' \in [Req -> Request]
    BY <2>1, RequestSet
  <2> QED
    BY <1>0, <1>3, <2>2, <2>3 DEF Commit, TypeOK
<1>4. ASSUME NEW r \in Req, CommitFails(r) \/ Abandon(r) \/ Retire(r) PROVE TypeOK'
  <2>1. req' \in [Req -> Request]
    <3>1. CASE CommitFails(r)
      BY <3>1, RequestSet DEF CommitFails, Pc
    <3>2. CASE Abandon(r) \/ Retire(r)
      <4>1. req' = [req EXCEPT ![r] = NoReq]
        BY <3>2 DEF Abandon, Retire
      <4> QED
        BY <4>1, Constants DEF TypeOK
    <3> QED
      BY <1>4, <3>1, <3>2
  <2>2. outbox' \subseteq Jti
    BY <1>4 DEF CommitFails, Abandon, Retire, queueFamilyRevocation, TypeOK
  <2> QED
    BY <1>0, <1>4, <2>1, <2>2 DEF CommitFails, Abandon, Retire, TypeOK
<1>5. ASSUME NEW r \in Req, Answer(r) PROVE TypeOK'
  <2>1. req[r].jti \in Jti /\ req[r].tok \in Token
    BY <1>5, ReqParts DEF Answer, Requests
  <2>2. req' \in [Req -> Request] /\ out' \in [Token -> SUBSET Jti]
    BY <1>5, <2>1, RequestSet, OutSet, Constants DEF Answer, Pc
  <2> QED
    BY <1>0, <1>5, <2>2 DEF Answer, TypeOK
<1>6. ASSUME NEW r \in Req, Undo(r) PROVE TypeOK'
  <2>1. req[r].jti \in Jti /\ req[r].tok \in Token
    BY <1>6, ReqParts DEF Undo, Requests
  <2>2. req' \in [Req -> Request]
    <3>1. [req[r] EXCEPT !.pc = "repeat", !.jti = None] \in Request
      BY ReqParts DEF Request, Pc
    <3> QED
      BY <1>6, <3>1, Constants DEF Undo, TypeOK
  <2> QED
    BY <1>0, <1>6, <2>1, <2>2 DEF Undo, TypeOK
<1>7. ASSUME NEW r \in Req, Repeat(r) PROVE TypeOK'
  <2>1. Stored(req[r].tok) \in Jti \cup {None} /\ req[r].tok \in Token
    BY ReqParts, ChildRow
  <2>2. req' \in [Req -> Request] /\ out' \in [Token -> SUBSET Jti]
    <3>1. req' \in [Req -> Request]
      BY <1>7, Constants DEF Repeat, TypeOK
    <3>2. CASE out' = out
      BY <3>1, <3>2 DEF TypeOK
    <3>3. CASE out' # out
      BY <1>7, <2>1, <3>1, <3>3, OutSet DEF Repeat
    <3> QED
      BY <3>2, <3>3
  <2> QED
    BY <1>0, <1>7, <2>2 DEF Repeat, TypeOK
<1>8. CASE RevokeByClient \/ revokeGrant \/ \E j \in Jti : Drain(j)
  <2>1. outbox' \subseteq Jti /\ revoked' \subseteq Jti /\ grant' \in BOOLEAN
    BY <1>8 DEF RevokeByClient, revokeGrant, Drain, queueFamilyRevocation, TypeOK
  <2> QED
    BY <1>0, <1>8, <2>1 DEF RevokeByClient, revokeGrant, Drain, TypeOK
<1>9. CASE Tick \/ ReplaceSecret
  <2>1. now' \in Time /\ gen' \in 0 .. MaxEvents
    BY <1>9, RefreshAssumption DEF Tick, ReplaceSecret, TypeOK, Time
  <2> QED
    BY <1>0, <1>9, <2>1 DEF Tick, ReplaceSecret, TypeOK
<1>10. CASE Sweep
  BY <1>0, <1>10 DEF Sweep, TypeOK
<1>11. CASE UNCHANGED vars
  BY <1>11 DEF vars, TypeOK
<1> QED
  BY <1>1, <1>2, <1>3, <1>4, <1>5, <1>6, <1>7, <1>8, <1>9, <1>10, <1>11 DEF Next

\* A request that is under way may go on: it has a jti from its recording on.
LEMMA RequestsStep ==
  ASSUME TypeOK, Requests, [Next]_vars
  PROVE  Requests'
<1> DEFINE Ok(q) == /\ q.pc \in {"look", "sign", "answer"} => q.tok < MaxToken
                    /\ q.pc \in {"sign", "answer", "undo", "superseded"} => q.jti # None
<1>0. /\ \A r \in Req : Ok(req[r]) /\ req[r] \in Request
      /\ req \in [Req -> Request] /\ Ok(NoReq)
  BY DEF Requests, TypeOK, NoReq
<1> SUFFICES \A r \in Req : Ok(req'[r])
  BY DEF Requests
<1>1. ASSUME NEW r \in Req, NEW q, Ok(q), req' = [req EXCEPT ![r] = q] PROVE \A s \in Req : Ok(req'[s])
  BY <1>0, <1>1
<1>2. ASSUME NEW r \in Req, NEW k \in Token, Begin(r, k) PROVE \A s \in Req : Ok(req'[s])
  <2>1. PICK c \in {"look", "repeat", "retire"} :
          \/ req' = [req EXCEPT ![r] = [pc |-> c, tok |-> k, gen |-> gen, jti |-> None]]
             /\ (c = "look" => k < MaxToken)
          \/ req' = [req EXCEPT ![r] = NoReq]
    BY <1>2, StandingTyped DEF Begin
  <2> QED
    BY <1>0, <1>1, <2>1
<1>3. ASSUME NEW r \in Req, Record(r) PROVE \A s \in Req : Ok(req'[s])
  <2>1. PICK j \in Jti : req' = [req EXCEPT ![r] = [req[r] EXCEPT !.pc = "sign", !.jti = j]]
    BY <1>0, <1>3 DEF Record
  <2>2. Ok([req[r] EXCEPT !.pc = "sign", !.jti = j])
    BY <1>0, <1>3, Constants DEF Record, Request
  <2> QED
    BY <1>1, <2>1, <2>2
<1>4. ASSUME NEW r \in Req, Commit(r) PROVE \A s \in Req : Ok(req'[s])
  <2>1. PICK c \in {"answer", "retire", "undo", "superseded"} : req' = [req EXCEPT ![r] = [req[r] EXCEPT !.pc = c]]
    BY <1>0, <1>4, ReqParts, StandingTyped DEF Commit, Redecided
  <2>2. Ok([req[r] EXCEPT !.pc = c])
    BY <1>0, <1>4 DEF Commit, Request
  <2> QED
    BY <1>1, <2>1, <2>2
<1>5. ASSUME NEW r \in Req, CommitFails(r) PROVE \A s \in Req : Ok(req'[s])
  <2>1. PICK c \in {"retire", "undo"} : req' = [req EXCEPT ![r] = [req[r] EXCEPT !.pc = c]]
    BY <1>0, <1>5 DEF CommitFails
  <2>2. Ok([req[r] EXCEPT !.pc = c])
    BY <1>0, <1>5 DEF CommitFails, Request
  <2> QED
    BY <1>1, <2>1, <2>2
<1>6. ASSUME NEW r \in Req, Answer(r) \/ Repeat(r) \/ Abandon(r) \/ Retire(r) PROVE \A s \in Req : Ok(req'[s])
  BY <1>0, <1>1, <1>6 DEF Answer, Repeat, Abandon, Retire
<1>7. ASSUME NEW r \in Req, Undo(r) PROVE \A s \in Req : Ok(req'[s])
  <2>1. Ok([req[r] EXCEPT !.pc = "repeat", !.jti = None])
    BY <1>0 DEF Request
  <2> QED
    BY <1>0, <1>1, <1>7, <2>1 DEF Undo
<1>8. CASE \/ RevokeByClient \/ revokeGrant \/ (\E j \in Jti : Drain(j))
           \/ Tick \/ ReplaceSecret \/ Sweep \/ UNCHANGED vars
  BY <1>0, <1>8 DEF RevokeByClient, revokeGrant, Drain, Tick, ReplaceSecret, Sweep, vars
<1> QED
  BY <1>2, <1>3, <1>4, <1>5, <1>6, <1>7, <1>8 DEF Next

LEMMA InitTyped == Init => TypeOK /\ Requests
<1> SUFFICES ASSUME Init PROVE TypeOK /\ Requests
  OBVIOUS
<1>1. [NoRow EXCEPT !.live = TRUE, !.ends = FamilyLife] \in Row /\ NoRow \in Row /\ NoReq \in Request
  BY Constants, RefreshAssumption DEF Row, NoRow
<1>2. row \in [Token -> Row] /\ req \in [Req -> Request] /\ exp \in [Jti -> Nat]
      /\ out \in [Token -> SUBSET Jti]
  BY <1>1 DEF Init
<1>3. now \in Time /\ gen \in 0 .. MaxEvents
  BY RefreshAssumption DEF Init, Time
<1>4. TypeOK
  BY <1>2, <1>3 DEF Init, TypeOK
<1>5. Requests
  BY DEF Init, Requests, NoReq
<1> QED
  BY <1>4, <1>5

(* as-token-endpoint.ts, as-refresh.ts, as-revoke.ts: requests, rows and   *)
(* revocations keep their types in every behaviour.                        *)
THEOREM TypeCorrect == Spec => []TypeOK
BY InitTyped, TypeStep, RequestsStep, PTL DEF Spec

-----------------------------------------------------------------------------
(* The rows.                                                               *)

\* Child and Stored, of the next state.
LEMMA ChildNext ==
  ASSUME TypeOK', NEW k \in Token
  PROVE  /\ k < MaxToken => k + 1 \in Token /\ Child(k)' = row'[k + 1]
         /\ ~(k < MaxToken) => Child(k)' = NoRow
         /\ Stored(k)' = Child(k)'.replay
BY RefreshAssumption DEF Token, Child, Stored

\* A rotation starts from a token below the bound, of a family that stands.
LEMMA RotatesFrom ==
  ASSUME TypeOK, Requests, Family, NEW r \in Req, Rotates(r)
  PROVE  /\ req[r].tok \in Token /\ req[r].tok < MaxToken /\ req[r].jti \in Jti
         /\ req[r].tok + 1 \in Token /\ Child(req[r].tok) = row[req[r].tok + 1]
         /\ grant /\ UNCHANGED <<now, grant>>
         /\ req[r].tok = 0 => code /\ ~code' /\ \A i \in Token : row[i] = NoRow
         /\ req[r].tok # 0 =>
              LET k == req[r].tok IN
              /\ row[k].live /\ ~row[k].revoked /\ ~(row[k].ends <= now)
              /\ row[k + 1] = NoRow /\ ~code /\ ~code' /\ \A i \in Token : ~row[i].revoked
<1> DEFINE k == req[r].tok
<1>1. standing(k, req[r].gen) = "rotate" /\ req[r].pc = "sign"
  BY DEF Rotates, Commit, Redecided
<1>2. k \in Token /\ k < MaxToken /\ req[r].jti \in Jti
  BY <1>1, ReqParts DEF Requests
<1>3. k + 1 \in Token /\ Child(k) = row[k + 1]
  BY <1>2, ChildRow
<1>4. /\ grant /\ (k = 0 => code)
      /\ k # 0 => row[k].live /\ ~row[k].revoked /\ ~(row[k].ends <= now) /\ ~Child(k).live
  BY <1>1, <1>2, Rotatable
<1>5. UNCHANGED <<now, grant>> /\ code' = (code /\ k # 0)
  BY DEF Rotates, Commit
<1>6. CASE k = 0
  BY <1>2, <1>3, <1>4, <1>5, <1>6 DEF Family
<1>7. CASE k # 0
  <2>1. ~code
    BY <1>2, <1>4, <1>7 DEF Family
  <2>2. \A i \in Token : ~row[i].revoked
    BY <1>2, <1>4, <1>7 DEF Family
  <2>3. row[k + 1] = NoRow
    BY <1>3, <1>4, <1>7 DEF Family
  <2> QED
    BY <1>2, <1>3, <1>4, <1>5, <1>7, <2>1, <2>2, <2>3
<1> QED
  BY <1>6, <1>7

LEMMA FamilyStep ==
  ASSUME TypeOK, Requests, Family, [Next]_vars
  PROVE  Family'
<1>0. /\ TypeOK' /\ NoRow.live = FALSE /\ NoRow.replay = None /\ NoRow.revoked = FALSE
      /\ 0 \in Token /\ Token \subseteq Nat
  BY TypeStep, Constants DEF NoRow
<1>1. CASE UNCHANGED <<row, code>>
  BY <1>1 DEF Family, Child, Stored
\* The rows keep their order, their ends and their responses.
<1>2. ASSUME \A k \in Token : row[k].live => row'[k].live /\ row'[k].ends = row[k].ends
                                             /\ row'[k].replay = row[k].replay /\ row'[k].revoked,
             \A k \in Token : ~row[k].live => row'[k] = NoRow,
             UNCHANGED code
      PROVE  Family'
  <2>1. \A k \in Token : row'[k].live = row[k].live
    BY <1>0, <1>2 DEF TypeOK, Row
  <2>2. \A k \in Token \ {0} : Child(k)'.live => row'[k].live
    BY <1>0, <2>1, ChildNext, ChildRow DEF Family
  <2>3. Stored(0)' = None
    BY <1>0, <1>2, ChildNext, ChildRow DEF Family, Stored
  <2>4. row'[0] = NoRow
    BY <1>0, <1>2 DEF Family
  <2> QED
    BY <1>0, <1>2, <2>1, <2>2, <2>3, <2>4 DEF Family
<1>3. CASE queueFamilyRevocation /\ UNCHANGED code
  <2>1. ASSUME NEW k \in Token, ~row[k].live PROVE row'[k] = NoRow
    <3>1. row[k] = NoRow /\ row[k].revoked = FALSE /\ row[k].live = FALSE
      BY <1>0, <2>1 DEF Family
    <3>2. row'[k] = [NoRow EXCEPT !.revoked = FALSE]
      BY <1>3, <3>1 DEF queueFamilyRevocation
    <3> QED
      BY <3>2 DEF NoRow
  <2>2. \A k \in Token : row[k].live => row'[k].live /\ row'[k].ends = row[k].ends
                                        /\ row'[k].replay = row[k].replay /\ row'[k].revoked
    BY <1>3, RetiredRow
  <2> QED
    BY <1>2, <1>3, <2>1, <2>2
<1>4. CASE Sweep
  <2>1. \A k \in Token : row'[k] = IF row[k].live /\ row[k].ends <= now THEN NoRow ELSE row[k]
    BY <1>4, SweptRow
  <2>2. UNCHANGED code
    BY <1>4 DEF Sweep
  <2>3. CASE \E i \in Token : row[i].live /\ row[i].ends <= now
    <3>1. \A k \in Token : row'[k] = NoRow
      BY <2>1, <2>3 DEF Family
    <3>2. \A k \in Token : Child(k)' = NoRow
      BY <1>0, <3>1, ChildNext
    <3> QED
      BY <1>0, <3>1, <3>2, ChildNext DEF Family
  <2>4. CASE ~ \E i \in Token : row[i].live /\ row[i].ends <= now
    <3>1. \A k \in Token : row'[k] = row[k]
      BY <2>1, <2>4
    <3>2. row \in [Token -> Row] /\ row' \in [Token -> Row]
      BY <1>0 DEF TypeOK
    <3> QED
      BY <1>1, <2>2, <3>1, <3>2
  <2> QED
    BY <2>3, <2>4
<1>5. ASSUME NEW r \in Req, Rotates(r) PROVE Family'
  <2> DEFINE k == req[r].tok
  <2>0. k \in Nat
    BY ReqParts, Constants
  <2>1. /\ k \in Token /\ k < MaxToken /\ k + 1 \in Token /\ ~code'
        /\ k = 0 => \A i \in Token : row[i] = NoRow
        /\ k # 0 => row[k].live /\ row[k + 1] = NoRow /\ \A i \in Token : ~row[i].revoked
    BY <1>5, RotatesFrom
  <2>2. \A i \in Token : row'[i] \in Row
    BY <1>0 DEF TypeOK
  <2>3. CASE k = 0
    <3>1. \A i \in Token : i # 1 => row'[i] = NoRow
      BY <1>5, <2>1, <2>3, RotatedRow
    <3>2. row'[1].live /\ ~row'[1].revoked /\ row'[1].replay = None /\ 1 \in Token
      BY <1>5, <2>1, <2>3, RotatedRow
    <3>3. \A i \in Token \ {0} : ~Child(i)'.live
      BY <1>0, <3>1, ChildNext
    <3>4. Stored(0)' = None
      BY <1>0, <3>2, ChildNext
    <3> QED
      BY <1>0, <2>1, <3>1, <3>2, <3>3, <3>4 DEF Family
  <2>4. CASE k # 0
    <3>1. /\ row'[k + 1].live /\ ~row'[k + 1].revoked /\ row'[k + 1].ends = row[k].ends
      BY <1>5, <2>1, <2>4, RotatedRow
    <3>2. \A i \in Token \ {k + 1} :
            /\ row'[i].live = row[i].live /\ row'[i].revoked = row[i].revoked
            /\ row'[i].ends = row[i].ends
            /\ row'[i].replay = (IF i = Spent(k) THEN None ELSE row[i].replay)
            /\ row'[i].used = (IF i = k - 1 /\ i > 0 /\ row[i].used = Unused THEN now ELSE row[i].used)
      BY <1>5, <2>1, <2>4, RotatedRow
    <3>3. ASSUME NEW i \in Token, ~row'[i].live PROVE row'[i] = NoRow
      <4>1. i # k + 1 /\ ~row[i].live /\ row[i] = NoRow
        BY <3>1, <3>2, <3>3 DEF Family
      <4>2. ~(i = k - 1 /\ i > 0)
        <5> SUFFICES ASSUME i = k - 1, i > 0 PROVE FALSE
          OBVIOUS
        <5>1. i < MaxToken /\ i + 1 = k /\ i \in Token \ {0}
          BY <2>0, <2>1, RefreshAssumption DEF Token
        <5>2. Child(i) = row[k]
          BY <5>1, ChildRow
        <5> QED
          BY <2>1, <2>4, <4>1, <5>1, <5>2 DEF Family
      <4>3. /\ row'[i].live = row[i].live /\ row'[i].revoked = row[i].revoked
            /\ row'[i].ends = row[i].ends /\ row'[i].gen = row[i].gen
            /\ row'[i].used = row[i].used /\ row'[i].replay = row[i].replay
        <5>1. row'[i].gen = row[i].gen
          BY <1>5, <2>1, <2>4, <4>1, RotatedRow
        <5>2. row[i].replay = None
          BY <1>0, <4>1
        <5> QED
          BY <3>2, <4>1, <4>2, <5>1, <5>2
      <4>4. row'[i] \in Row /\ row[i] \in Row
        BY <2>2 DEF TypeOK
      <4> QED
        BY <4>1, <4>3, <4>4, RowEqual
    <3>4. row'[0] = NoRow
      <4>1. 0 # k + 1
        BY <2>0
      <4>2. ~row[0].live
        BY <1>0 DEF Family
      <4> QED
        BY <1>0, <3>2, <3>3, <4>1, <4>2
    <3>5. Stored(0)' = None
      <4>1. CASE 0 < MaxToken
        <5>1. 1 \in Token /\ Stored(0)' = row'[1].replay /\ row[1].replay = None
          BY <1>0, <4>1, ChildNext, ChildRow DEF Family, Stored
        <5>2. 1 # k + 1
          BY <2>0, <2>4
        <5> QED
          BY <3>2, <5>1, <5>2
      <4>2. CASE ~(0 < MaxToken)
        BY <1>0, <4>2, ChildNext
      <4> QED
        BY <4>1, <4>2
    <3>6. ASSUME NEW i \in Token \ {0}, Child(i)'.live PROVE row'[i].live
      <4>1. i < MaxToken /\ i + 1 \in Token /\ row'[i + 1].live
        BY <1>0, <3>6, ChildNext
      <4>2. CASE i = k \/ i = k + 1
        <5>1. k # k + 1
          BY <1>0, <2>1
        <5> QED
          BY <2>1, <2>4, <3>1, <3>2, <4>2, <5>1
      <4>3. CASE i # k /\ i # k + 1
        <5>1. i + 1 # k + 1
          BY <1>0, <2>0, <4>3
        <5>2. row[i + 1].live /\ Child(i) = row[i + 1]
          BY <3>2, <4>1, <5>1, ChildRow
        <5> QED
          BY <3>2, <4>3, <5>2 DEF Family
      <4> QED
        BY <4>2, <4>3
    <3>7. ASSUME NEW i \in Token, NEW m \in Token, row'[i].live, row'[m].live PROVE row'[i].ends = row'[m].ends
      <4>1. \A n \in Token : row'[n].live => row'[n].ends = row[k].ends
        BY <2>1, <2>4, <3>1, <3>2 DEF Family
      <4> QED
        BY <3>7, <4>1
    <3>8. \A i \in Token : ~row'[i].revoked
      BY <2>1, <2>4, <3>1, <3>2
    <3> QED
      BY <2>1, <3>3, <3>4, <3>5, <3>6, <3>7, <3>8 DEF Family
  <2> QED
    BY <2>3, <2>4
<1> QED
  BY <1>1, <1>3, <1>4, <1>5, RowCases DEF RowsMove

LEMMA WindowsStep ==
  ASSUME TypeOK, Requests, Family, Windows, [Next]_vars
  PROVE  Windows'
<1>0. /\ TypeOK' /\ NoRow.live = FALSE /\ Token \subseteq Nat /\ None \notin Jti
      /\ now \in Time /\ now # Unused
  BY TypeStep, Constants DEF NoRow, TypeOK
<1>1. CASE UNCHANGED <<row, code>>
  BY <1>1 DEF Windows, Child
<1>2. CASE queueFamilyRevocation
  <2>1. \A k \in Token : row'[k].live = row[k].live /\ row'[k].used = row[k].used /\ row'[k].replay = row[k].replay
    BY <1>2, RetiredRow
  <2>2. \A k \in Token : /\ Child(k)'.live = Child(k).live /\ Child(k)'.used = Child(k).used
                         /\ Child(k)'.replay = Child(k).replay
    BY <1>0, <2>1, ChildNext, ChildRow
  <2> QED
    BY <2>1, <2>2 DEF Windows
<1>3. CASE Sweep
  <2>1. \A k \in Token : row'[k] = IF row[k].live /\ row[k].ends <= now THEN NoRow ELSE row[k]
    BY <1>3, SweptRow
  <2>2. CASE \E i \in Token : row[i].live /\ row[i].ends <= now
    <3>1. \A k \in Token : row'[k] = NoRow
      BY <2>1, <2>2 DEF Family
    <3>2. \A k \in Token : ~Child(k)'.live
      BY <1>0, <3>1, ChildNext
    <3> QED
      BY <3>2 DEF Windows
  <2>3. CASE ~ \E i \in Token : row[i].live /\ row[i].ends <= now
    <3>1. \A k \in Token : row'[k] = row[k]
      BY <2>1, <2>3
    <3>2. row \in [Token -> Row] /\ row' \in [Token -> Row]
      BY <1>0 DEF TypeOK
    <3>3. row' = row
      BY <3>1, <3>2
    <3> QED
      BY <3>3 DEF Windows, Child
  <2> QED
    BY <2>2, <2>3
<1>4. ASSUME NEW r \in Req, Rotates(r) PROVE Windows'
  <2> DEFINE k == req[r].tok
  <2>0. k \in Nat
    BY ReqParts, Constants
  <2>1. /\ k \in Token /\ k < MaxToken /\ k + 1 \in Token /\ req[r].jti \in Jti
        /\ k = 0 => \A i \in Token : row[i] = NoRow
        /\ k # 0 => row[k].live /\ row[k + 1] = NoRow
    BY <1>4, RotatesFrom
  <2>2. CASE k = 0
    <3>1. \A i \in Token : i # 1 => row'[i] = NoRow
      BY <1>4, <2>1, <2>2, RotatedRow
    <3>2. ASSUME NEW i \in Token \ {0} PROVE ~Child(i)'.live
      <4>1. i \in Nat /\ i + 1 # 1
        BY <1>0
      <4> QED
        BY <1>0, <3>1, <4>1, ChildNext
    <3>3. ASSUME NEW i \in Token \ {0}, i + 1 \in Token PROVE ~Child(i + 1)'.live
      <4>1. i \in Nat /\ i + 1 \in Token \ {0}
        BY <1>0, <3>3
      <4> QED
        BY <3>2, <4>1
    <3> QED
      BY <3>2, <3>3 DEF Windows
  <2>3. CASE k # 0
    <3>1. row'[k + 1].live /\ row'[k + 1].replay = req[r].jti
      BY <1>4, <2>1, <2>3, RotatedRow
    <3>2. \A i \in Token \ {k + 1} :
            /\ row'[i].live = row[i].live
            /\ row'[i].replay = (IF i = Spent(k) THEN None ELSE row[i].replay)
            /\ row'[i].used = (IF i = k - 1 /\ i > 0 /\ row[i].used = Unused THEN now ELSE row[i].used)
      BY <1>4, <2>1, <2>3, RotatedRow
    \* A use that is on record stays there.
    <3>3. ASSUME NEW i \in Token, i # k + 1, row[i].used # Unused \/ (i = k - 1 /\ i > 0)
          PROVE  row'[i].used # Unused
      BY <1>0, <3>2, <3>3
    <3>4. ASSUME NEW i \in Token \ {0}, Child(i)'.live, Child(i)'.replay = None
          PROVE  row'[i].used # Unused /\ (Grace = 0 \/ Child(i)'.used # Unused)
      <4>1. i \in Nat /\ i + 1 \in Token /\ Child(i)' = row'[i + 1] /\ Child(i) = row[i + 1]
        BY <1>0, <3>4, ChildNext, ChildRow
      <4>2. i # k
        BY <1>0, <2>1, <3>1, <3>4, <4>1
      <4>3. i + 1 # k + 1
        BY <2>0, <4>1, <4>2
      <4>4. row[i + 1].live /\ i # k + 1
        <5>1. row[i + 1].live
          BY <3>2, <3>4, <4>1, <4>3
        <5>2. row[i].live
          BY <4>1, <5>1 DEF Family
        <5> QED
          BY <1>0, <2>1, <2>3, <5>1, <5>2
      <4>5. CASE i + 1 = Spent(k) /\ Grace > 0
        <5>1. i + 1 = k - 1 /\ i + 1 > 0 /\ i + 1 < MaxToken /\ (i + 1) + 1 = k
          BY <2>0, <2>1, <4>1, <4>5, RefreshAssumption DEF Spent
        <5>2. Child(i + 1) = row[k]
          BY <4>1, <5>1, ChildRow
        <5>3. row[i].used # Unused
          BY <2>1, <2>3, <4>1, <5>2 DEF Windows
        <5> QED
          BY <3>3, <4>1, <4>3, <4>4, <5>1, <5>3
      <4>6. CASE i + 1 = Spent(k) /\ ~(Grace > 0)
        <5>1. i = k - 1 /\ i > 0 /\ Grace = 0
          BY <2>0, <4>1, <4>6, RefreshAssumption DEF Spent
        <5> QED
          BY <3>3, <4>4, <5>1
      <4>7. CASE i + 1 # Spent(k)
        <5>1. row[i + 1].replay = None
          BY <3>2, <3>4, <4>1, <4>3, <4>7
        <5>2. row[i].used # Unused /\ (Grace = 0 \/ row[i + 1].used # Unused)
          BY <4>1, <4>4, <5>1 DEF Windows
        <5> QED
          BY <3>3, <4>1, <4>3, <4>4, <5>2
      <4> QED
        BY <4>5, <4>6, <4>7
    <3>5. ASSUME NEW i \in Token \ {0}, i + 1 \in Token, Child(i + 1)'.live PROVE row'[i].used # Unused
      <4>1. i \in Nat /\ (i + 1) + 1 \in Token /\ Child(i + 1)' = row'[(i + 1) + 1]
            /\ Child(i + 1) = row[(i + 1) + 1]
        BY <1>0, <3>5, ChildNext, ChildRow
      <4>2. CASE i + 1 = k
        <5>1. i = k - 1 /\ i > 0 /\ i # k + 1
          BY <2>0, <4>1, <4>2
        <5> QED
          BY <3>3, <5>1
      <4>3. CASE i + 1 # k
        <5>1. (i + 1) + 1 # k + 1
          BY <2>0, <4>1, <4>3
        <5>2. Child(i + 1).live
          BY <3>2, <3>5, <4>1, <5>1
        <5>3. row[i].used # Unused
          BY <3>5, <5>2 DEF Windows
        <5>4. i # k + 1
          <6>1. i + 1 \in Token \ {0} /\ i < MaxToken
            BY <3>5, <4>1, RefreshAssumption DEF Token
          <6>2. row[i + 1].live
            BY <5>2, <6>1 DEF Family
          <6>3. row[i].live
            BY <3>5, <6>1, <6>2, ChildRow DEF Family
          <6> QED
            BY <1>0, <2>1, <2>3, <6>3
        <5> QED
          BY <3>3, <5>3, <5>4
      <4> QED
        BY <4>2, <4>3
    <3> QED
      BY <3>4, <3>5 DEF Windows
  <2> QED
    BY <2>2, <2>3
<1> QED
  BY <1>1, <1>2, <1>3, <1>4, RowCases DEF RowsMove

-----------------------------------------------------------------------------
(* One access token for each refresh token.                                *)

LEMMA TimeMoves ==
  ASSUME TypeOK, [Next]_vars
  PROVE  now \in Nat /\ now' \in Nat /\ now' >= now
<1>0. now \in Nat
  BY Constants DEF TypeOK
<1>1. CASE Tick
  BY <1>0, <1>1 DEF Tick
<1>2. ASSUME NEW r \in Req, \/ \E k \in Token : Begin(r, k)
                            \/ Record(r) \/ Commit(r) \/ CommitFails(r) \/ Answer(r)
                            \/ Undo(r) \/ Repeat(r) \/ Abandon(r) \/ Retire(r)
      PROVE  UNCHANGED now
  BY <1>2 DEF Begin, Record, Commit, CommitFails, Answer, Undo, Repeat, Abandon, Retire
<1>3. CASE \/ RevokeByClient \/ revokeGrant \/ (\E j \in Jti : Drain(j))
           \/ ReplaceSecret \/ Sweep \/ UNCHANGED vars
  BY <1>0, <1>3 DEF RevokeByClient, revokeGrant, Drain, ReplaceSecret, Sweep, vars
<1> QED
  BY <1>0, <1>1, <1>2, <1>3 DEF Next

\* A family that is over has no token to rotate, whoever is under way.
LEMMA NotDone ==
  ASSUME TypeOK, Requests, Family, NEW r \in Req, Rotates(r)
  PROVE  ~Done(req[r].tok) /\ ~Over
<1>1. CASE req[r].tok = 0
  BY <1>1, RotatesFrom DEF Done, Over
<1>2. CASE req[r].tok # 0
  <2>1. ~Child(req[r].tok).live
    BY <1>2, RotatesFrom DEF NoRow
  <2>2. ~Over
    BY <1>2, RotatesFrom DEF Over
  <2> QED
    BY <1>2, <2>1, <2>2 DEF Done
<1> QED
  BY <1>1, <1>2

LEMMA DoneStays ==
  ASSUME TypeOK, Requests, Family, [Next]_vars, NEW k \in Token, Done(k)
  PROVE  Done(k)'
<1>0. /\ TypeOK' /\ now \in Nat /\ now' \in Nat /\ now' >= now /\ NoRow.live = FALSE
      /\ \A i \in Token : row[i].ends \in Nat
  BY TypeStep, TimeMoves, RowParts DEF NoRow, TypeOK
<1>1. ~code => ~code'
  BY RowCases, RotatesFrom DEF RowsMove, Sweep
<1>2. ASSUME \A i \in Token : row'[i].live => row[i].live /\ row'[i].ends = row[i].ends, Over PROVE Over'
  BY <1>0, <1>1, <1>2 DEF Over
<1>3. CASE UNCHANGED <<row, code>>
  <2>1. Over => Over'
    BY <1>2, <1>3
  <2> QED
    BY <1>3, <2>1 DEF Done, Child
<1>4. CASE queueFamilyRevocation /\ UNCHANGED code
  <2>1. \A i \in Token : row'[i].live = row[i].live /\ row'[i].ends = row[i].ends
    BY <1>4, RetiredRow
  <2>2. Over => Over'
    BY <1>2, <2>1
  <2>3. Child(k)'.live = Child(k).live
    BY <1>0, <2>1, ChildNext, ChildRow
  <2> QED
    BY <1>4, <2>2, <2>3 DEF Done
<1>5. CASE Sweep
  <2>1. \A i \in Token : row'[i] = IF row[i].live /\ row[i].ends <= now THEN NoRow ELSE row[i]
    BY <1>5, SweptRow
  <2>2. CASE \E i \in Token : row[i].live /\ row[i].ends <= now
    <3>1. ~code'
      BY <1>1, <2>2 DEF Family
    <3>2. \A i \in Token : row'[i] = NoRow
      BY <2>1, <2>2 DEF Family
    <3> QED
      BY <1>0, <3>1, <3>2 DEF Done, Over
  <2>3. CASE ~ \E i \in Token : row[i].live /\ row[i].ends <= now
    <3>1. row \in [Token -> Row] /\ row' \in [Token -> Row]
      BY <1>0 DEF TypeOK
    <3>2. UNCHANGED <<row, code>>
      BY <1>5, <2>1, <2>3, <3>1 DEF Sweep
    <3> QED
      BY <1>3, <3>2
  <2> QED
    BY <2>2, <2>3
<1>6. ASSUME NEW r \in Req, Rotates(r) PROVE Done(k)'
  <2> DEFINE t == req[r].tok
  <2>1. /\ t \in Token /\ t < MaxToken /\ t + 1 \in Token
        /\ t = 0 => code /\ \A i \in Token : row[i] = NoRow
    BY <1>6, RotatesFrom
  <2>2. ~Over
    BY <1>6, NotDone
  <2>3. CASE k = 0
    BY <1>1, <2>3 DEF Done
  <2>4. CASE k # 0
    <3>1. Child(k).live
      BY <2>2, <2>4 DEF Done
    <3>2. k < MaxToken /\ k + 1 \in Token /\ row[k + 1].live
      BY <1>0, <3>1, ChildRow
    <3>3. row'[k + 1].live
      BY <1>0, <1>6, <2>1, <3>2, RotatedRow
    <3> QED
      BY <1>0, <2>4, <3>2, <3>3, ChildNext DEF Done
  <2> QED
    BY <2>3, <2>4
<1> QED
  BY <1>3, <1>4, <1>5, <1>6, RowCases DEF RowsMove

\* Where the answers of the next state come from.
LEMMA AnswersMove ==
  ASSUME TypeOK, [Next]_vars, NEW s \in Req, req'[s].pc = "answer"
  PROVE  \/ req'[s] = req[s]
         \/ Rotates(s) /\ req'[s].tok = req[s].tok /\ req'[s].jti = req[s].jti
<1>0. /\ req \in [Req -> Request] /\ req[s] \in Request /\ NoReq.pc = "idle"
      /\ \A k \in Token, c \in {"look", "repeat", "retire"} : [pc |-> c, tok |-> k, gen |-> gen, jti |-> None].pc = c
  BY DEF TypeOK, NoReq
<1>1. ASSUME NEW r \in Req, NEW q, req' = [req EXCEPT ![r] = q], q.pc # "answer" PROVE req'[s] = req[s]
  BY <1>0, <1>1
<1>2. ASSUME NEW r \in Req, NEW k \in Token, Begin(r, k) PROVE req'[s] = req[s]
  <2>1. PICK c \in {"look", "repeat", "retire"} :
          \/ req' = [req EXCEPT ![r] = [pc |-> c, tok |-> k, gen |-> gen, jti |-> None]]
          \/ req' = [req EXCEPT ![r] = NoReq]
    BY <1>2, StandingTyped DEF Begin
  <2> QED
    BY <1>0, <1>1, <2>1
<1>3. ASSUME NEW r \in Req, Record(r) PROVE req'[s] = req[s]
  <2>1. PICK j \in Jti : req' = [req EXCEPT ![r] = [req[r] EXCEPT !.pc = "sign", !.jti = j]]
    BY <1>0, <1>3 DEF Record
  <2>2. [req[r] EXCEPT !.pc = "sign", !.jti = j].pc = "sign"
    BY <1>0 DEF Request
  <2> QED
    BY <1>1, <2>1, <2>2
<1>4. ASSUME NEW r \in Req, Commit(r), r # s PROVE req'[s] = req[s]
  BY <1>0, <1>4 DEF Commit
<1>5. CASE Commit(s)
  <2>1. PICK c \in Pc : /\ req' = [req EXCEPT ![s] = [req[s] EXCEPT !.pc = c]]
                        /\ c = "answer" => Redecided(s) = "rotate"
    <3>1. CASE Redecided(s) = "rotate"
      BY <1>0, <1>5, <3>1 DEF Commit, Pc
    <3>2. CASE Redecided(s) # "rotate"
      <4>1. Redecided(s) \in {"dead", "reuse", "foreign", "retry"}
        BY <3>2, ReqParts, StandingTyped DEF Redecided
      <4>2. \E c \in {"retire", "undo", "superseded"} : req' = [req EXCEPT ![s] = [req[s] EXCEPT !.pc = c]]
        BY <1>0, <1>5, <4>1 DEF Commit
      <4> QED
        BY <4>2 DEF Pc
    <3> QED
      BY <3>1, <3>2
  <2>2. /\ [req[s] EXCEPT !.pc = c].pc = c /\ [req[s] EXCEPT !.pc = c].tok = req[s].tok
        /\ [req[s] EXCEPT !.pc = c].jti = req[s].jti
    BY <1>0 DEF Request
  <2> QED
    BY <1>0, <1>5, <2>1, <2>2 DEF Rotates
<1>6. ASSUME NEW r \in Req, CommitFails(r) PROVE req'[s] = req[s]
  <2>1. PICK c \in {"retire", "undo"} : req' = [req EXCEPT ![r] = [req[r] EXCEPT !.pc = c]]
    BY <1>0, <1>6 DEF CommitFails
  <2>2. [req[r] EXCEPT !.pc = c].pc = c
    BY <1>0 DEF TypeOK, Request
  <2> QED
    BY <1>1, <2>1, <2>2
<1>7. ASSUME NEW r \in Req, Answer(r) \/ Repeat(r) \/ Abandon(r) \/ Retire(r) PROVE req'[s] = req[s]
  BY <1>0, <1>1, <1>7 DEF Answer, Repeat, Abandon, Retire
<1>8. ASSUME NEW r \in Req, Undo(r) PROVE req'[s] = req[s]
  <2>1. [req[r] EXCEPT !.pc = "repeat", !.jti = None].pc = "repeat"
    BY <1>0 DEF Request
  <2> QED
    BY <1>0, <1>1, <1>8, <2>1 DEF Undo
<1>9. CASE \/ RevokeByClient \/ revokeGrant \/ (\E j \in Jti : Drain(j))
           \/ Tick \/ ReplaceSecret \/ Sweep \/ UNCHANGED vars
  BY <1>9 DEF RevokeByClient, revokeGrant, Drain, Tick, ReplaceSecret, Sweep, vars
<1> QED
  BY <1>2, <1>3, <1>4, <1>5, <1>6, <1>7, <1>8, <1>9 DEF Next

LEMMA OutMoves ==
  ASSUME TypeOK, [Next]_vars, NEW k \in Token, NEW j \in Jti, j \in out'[k]
  PROVE  Bearer(k, j)
<1>0. out \in [Token -> SUBSET Jti] /\ \A r \in Req : req[r].tok \in Token
  BY ReqParts DEF TypeOK
<1>1. CASE UNCHANGED out
  BY <1>1 DEF Bearer
<1>2. ASSUME NEW r \in Req, Answer(r) PROVE Bearer(k, j)
  BY <1>0, <1>2 DEF Answer, Bearer
<1>3. ASSUME NEW r \in Req, Repeat(r) PROVE Bearer(k, j)
  BY <1>0, <1>3 DEF Repeat, Bearer
<1>4. ASSUME NEW r \in Req, \/ \E t \in Token : Begin(r, t)
                            \/ Record(r) \/ Commit(r) \/ CommitFails(r)
                            \/ Undo(r) \/ Abandon(r) \/ Retire(r)
      PROVE  UNCHANGED out
  BY <1>4 DEF Begin, Record, Commit, CommitFails, Undo, Abandon, Retire
<1>5. CASE \/ RevokeByClient \/ revokeGrant \/ (\E i \in Jti : Drain(i))
           \/ Tick \/ ReplaceSecret \/ Sweep \/ UNCHANGED vars
  BY <1>1, <1>5 DEF RevokeByClient, revokeGrant, Drain, Tick, ReplaceSecret, Sweep, vars
<1> QED
  BY <1>1, <1>2, <1>3, <1>4, <1>5 DEF Next

LEMMA StoredMoves ==
  ASSUME TypeOK, Requests, Family, [Next]_vars, NEW k \in Token, NEW j \in Jti, Stored(k)' = j
  PROVE  \/ Stored(k) = j
         \/ \E r \in Req : Rotates(r) /\ req[r].tok = k /\ req[r].jti = j
<1>0. TypeOK' /\ j # None /\ NoRow.replay = None /\ Token \subseteq Nat
  BY TypeStep, Constants DEF NoRow
<1>1. k < MaxToken /\ k + 1 \in Token /\ row'[k + 1].replay = j /\ Stored(k) = row[k + 1].replay
  BY <1>0, ChildNext, ChildRow DEF Stored
<1>2. CASE UNCHANGED <<row, code>> \/ queueFamilyRevocation \/ Sweep
  BY <1>0, <1>1, <1>2, RetiredRow, SweptRow
<1>3. ASSUME NEW r \in Req, Rotates(r)
      PROVE  Stored(k) = j \/ (req[r].tok = k /\ req[r].jti = j)
  <2>1. req[r].tok \in Token /\ req[r].tok < MaxToken
    BY <1>3, RotatesFrom
  <2>2. CASE req[r].tok = k
    BY <1>0, <1>1, <1>3, <2>1, <2>2, RotatedRow
  <2>3. CASE req[r].tok # k
    <3>1. k + 1 # req[r].tok + 1
      <4>1. k \in Nat /\ req[r].tok \in Nat
        BY <2>1, Constants
      <4> QED
        BY <2>3, <4>1
    <3> QED
      BY <1>0, <1>1, <1>3, <2>1, <3>1, RotatedRow
  <2> QED
    BY <2>2, <2>3
<1> QED
  BY <1>2, <1>3, RowCases DEF RowsMove

\* An answer is new only when its token is rotated.
LEMMA BearersMove ==
  ASSUME TypeOK, Requests, Family, [Next]_vars, NEW k \in Token, NEW j \in Jti, Bearer(k, j)'
  PROVE  \/ Bearer(k, j)
         \/ \E r \in Req : Rotates(r) /\ req[r].tok = k /\ req[r].jti = j
<1>1. CASE j \in out'[k]
  BY <1>1, OutMoves
<1>2. CASE \E s \in Req : req'[s].pc = "answer" /\ req'[s].tok = k /\ req'[s].jti = j
  BY <1>2, AnswersMove DEF Bearer
<1>3. CASE Stored(k)' = j
  BY <1>3, StoredMoves DEF Bearer
<1> QED
  BY <1>1, <1>2, <1>3 DEF Bearer

LEMMA OneRotation ==
  ASSUME TypeOK, NEW r \in Req, NEW s \in Req, Rotates(r), Rotates(s)
  PROVE  r = s
<1>1. /\ req \in [Req -> Request] /\ req[s].pc = "sign"
      /\ req' = [req EXCEPT ![r].pc = "answer"] /\ req' = [req EXCEPT ![s].pc = "answer"]
  BY DEF Rotates, Commit, TypeOK
<1>2. req'[s].pc = "answer"
  BY <1>1 DEF Request
<1> QED
  BY <1>1, <1>2

LEMMA BearersStep ==
  ASSUME TypeOK, Requests, Family, Bearers, [Next]_vars
  PROVE  Bearers'
<1>1. ASSUME NEW k \in Token, NEW j \in Jti, Bearer(k, j)' PROVE Done(k)'
  <2>1. CASE Bearer(k, j)
    BY <2>1, DoneStays DEF Bearers
  <2>2. ASSUME NEW r \in Req, Rotates(r), req[r].tok = k PROVE Done(k)'
    <3>1. TypeOK' /\ k < MaxToken /\ k + 1 \in Token /\ ~code'
      BY <2>2, TypeStep, RotatesFrom
    <3>2. row'[k + 1].live
      BY <2>2, <3>1, RotatedRow
    <3> QED
      BY <3>1, <3>2, ChildNext DEF Done
  <2> QED
    BY <1>1, <2>1, <2>2, BearersMove
<1>2. ASSUME NEW k \in Token, NEW i \in Jti, NEW j \in Jti, Bearer(k, i)', Bearer(k, j)' PROVE i = j
  <2>1. CASE \E r \in Req : Rotates(r) /\ req[r].tok = k
    <3>1. ~Bearer(k, i) /\ ~Bearer(k, j)
      BY <2>1, NotDone DEF Bearers
    <3> QED
      BY <1>2, <3>1, BearersMove, OneRotation
  <2>2. CASE ~ \E r \in Req : Rotates(r) /\ req[r].tok = k
    BY <1>2, <2>2, BearersMove DEF Bearers
  <2> QED
    BY <2>1, <2>2
<1> QED
  BY <1>1, <1>2 DEF Bearers

-----------------------------------------------------------------------------
(* Revocation.                                                             *)

LEMMA ExpMoves ==
  ASSUME TypeOK, [Next]_vars, NEW j \in Jti
  PROVE  /\ exp[j] # 0 => exp'[j] = exp[j]
         /\ exp'[j] # exp[j] => exp'[j] # 0 /\ j \in issued'
<1>0. now \in Nat /\ exp \in [Jti -> Nat]
  BY TimeMoves DEF TypeOK
<1>1. CASE UNCHANGED exp
  BY <1>1
<1>2. ASSUME NEW r \in Req, Record(r)
      PROVE  (exp[j] # 0 => exp'[j] = exp[j]) /\ (exp'[j] # exp[j] => exp'[j] # 0 /\ j \in issued')
  <2>1. PICK i \in Jti : exp[i] = 0 /\ exp' = [exp EXCEPT ![i] = now + AccessLife] /\ i \in issued'
    BY <1>2 DEF Record
  <2>2. now + AccessLife # 0
    BY <1>0, RefreshAssumption
  <2> QED
    BY <1>0, <2>1, <2>2
<1>3. ASSUME NEW r \in Req, \/ \E k \in Token : Begin(r, k)
                            \/ Commit(r) \/ CommitFails(r) \/ Answer(r)
                            \/ Undo(r) \/ Repeat(r) \/ Abandon(r) \/ Retire(r)
      PROVE  UNCHANGED exp
  BY <1>3 DEF Begin, Commit, CommitFails, Answer, Undo, Repeat, Abandon, Retire
<1>4. CASE \/ RevokeByClient \/ revokeGrant \/ (\E i \in Jti : Drain(i))
           \/ Tick \/ ReplaceSecret \/ Sweep \/ UNCHANGED vars
  BY <1>1, <1>4 DEF RevokeByClient, revokeGrant, Drain, Tick, ReplaceSecret, Sweep, vars
<1> QED
  BY <1>1, <1>2, <1>3, <1>4 DEF Next

\* Only the sweep forgets a jti, and only one that is past its expiry.
LEMMA IssuedMoves ==
  ASSUME TypeOK, [Next]_vars, NEW j \in issued, j \notin issued'
  PROVE  exp[j] < now
<1>1. ASSUME NEW r \in Req, \/ \E k \in Token : Begin(r, k)
                            \/ Record(r) \/ Commit(r) \/ CommitFails(r) \/ Answer(r)
                            \/ Undo(r) \/ Repeat(r) \/ Abandon(r) \/ Retire(r)
      PROVE  FALSE
  BY <1>1 DEF Begin, Record, Commit, CommitFails, Answer, Undo, Repeat, Abandon, Retire
<1>2. CASE Sweep
  <2>1. ~(exp[j] >= now)
    BY <1>2 DEF Sweep
  <2>2. exp[j] \in Nat /\ now \in Nat
    BY TimeMoves DEF TypeOK
  <2> QED
    BY <2>1, <2>2
<1>3. CASE \/ RevokeByClient \/ revokeGrant \/ (\E i \in Jti : Drain(i))
           \/ Tick \/ ReplaceSecret \/ UNCHANGED vars
  BY <1>3 DEF RevokeByClient, revokeGrant, Drain, Tick, ReplaceSecret, vars
<1> QED
  BY <1>1, <1>2, <1>3 DEF Next

\* The jti of a request is the one it recorded.
LEMMA JtisMove ==
  ASSUME TypeOK, [Next]_vars, NEW s \in Req, req'[s].jti \notin {req[s].jti, None}
  PROVE  exp'[req'[s].jti] # 0
<1>0. /\ req \in [Req -> Request] /\ req[s] \in Request /\ NoReq.jti = None
      /\ now \in Nat /\ exp \in [Jti -> Nat]
  BY TimeMoves DEF TypeOK, NoReq
<1>1. ASSUME NEW r \in Req, NEW q, req' = [req EXCEPT ![r] = q], q.jti \in {req[r].jti, None} PROVE FALSE
  BY <1>0, <1>1
<1>2. ASSUME NEW r \in Req, NEW k \in Token, Begin(r, k) PROVE FALSE
  <2>1. PICK c \in {"look", "repeat", "retire"} :
          \/ req' = [req EXCEPT ![r] = [pc |-> c, tok |-> k, gen |-> gen, jti |-> None]]
          \/ req' = [req EXCEPT ![r] = NoReq]
    BY <1>2, StandingTyped DEF Begin
  <2>2. [pc |-> c, tok |-> k, gen |-> gen, jti |-> None].jti = None
    OBVIOUS
  <2> QED
    BY <1>0, <1>1, <2>1, <2>2
<1>3. ASSUME NEW r \in Req, Record(r) PROVE exp'[req'[s].jti] # 0
  <2>1. PICK j \in Jti : /\ req' = [req EXCEPT ![r] = [req[r] EXCEPT !.pc = "sign", !.jti = j]]
                         /\ exp' = [exp EXCEPT ![j] = now + AccessLife]
    BY <1>0, <1>3 DEF Record
  <2>2. [req[r] EXCEPT !.pc = "sign", !.jti = j].jti = j
    BY <1>0 DEF Request
  <2>3. req'[s].jti = j
    BY <1>0, <2>1, <2>2
  <2>4. now + AccessLife # 0
    BY <1>0, RefreshAssumption
  <2> QED
    BY <1>0, <2>1, <2>3, <2>4
<1>4. ASSUME NEW r \in Req, Commit(r) \/ CommitFails(r) PROVE FALSE
  <2>1. PICK c : req' = [req EXCEPT ![r] = [req[r] EXCEPT !.pc = c]]
    BY <1>0, <1>4 DEF Commit, CommitFails
  <2>2. [req[r] EXCEPT !.pc = c].jti = req[r].jti
    BY <1>0 DEF Request
  <2> QED
    BY <1>1, <2>1, <2>2
<1>5. ASSUME NEW r \in Req, Answer(r) \/ Repeat(r) \/ Abandon(r) \/ Retire(r) PROVE FALSE
  BY <1>0, <1>1, <1>5 DEF Answer, Repeat, Abandon, Retire
<1>6. ASSUME NEW r \in Req, Undo(r) PROVE FALSE
  <2>1. [req[r] EXCEPT !.pc = "repeat", !.jti = None].jti = None
    BY <1>0 DEF Request
  <2> QED
    BY <1>0, <1>1, <1>6, <2>1 DEF Undo
<1>7. CASE \/ RevokeByClient \/ revokeGrant \/ (\E j \in Jti : Drain(j))
           \/ Tick \/ ReplaceSecret \/ Sweep \/ UNCHANGED vars
  BY <1>7 DEF RevokeByClient, revokeGrant, Drain, Tick, ReplaceSecret, Sweep, vars
<1> QED
  BY <1>2, <1>3, <1>4, <1>5, <1>6, <1>7 DEF Next

LEMMA MintedStep ==
  ASSUME TypeOK, Requests, Family, Minted, [Next]_vars
  PROVE  Minted'
<1>0. /\ TypeOK' /\ now \in Nat /\ now' \in Nat /\ now' >= now
      /\ \A j \in Jti : exp[j] \in Nat /\ exp'[j] \in Nat
  BY TypeStep, TimeMoves DEF TypeOK
<1>1. ASSUME NEW r \in Req, req'[r].jti # None PROVE exp'[req'[r].jti] # 0
  <2>1. CASE req'[r].jti = req[r].jti
    BY <1>1, <2>1, ExpMoves, ReqParts DEF Minted
  <2>2. CASE req'[r].jti # req[r].jti
    BY <1>1, <2>2, JtisMove
  <2> QED
    BY <2>1, <2>2
<1>2. ASSUME NEW k \in Token, NEW j \in Jti, Bearer(k, j)' PROVE exp'[j] # 0
  <2>1. exp[j] # 0
    BY <1>2, BearersMove, Constants DEF Minted
  <2> QED
    BY <2>1, ExpMoves
<1>3. ASSUME NEW j \in Jti, exp'[j] > now' PROVE j \in issued'
  <2>1. CASE exp'[j] # exp[j]
    BY <2>1, ExpMoves
  <2>2. CASE exp'[j] = exp[j]
    <3>1. exp[j] > now
      BY <1>0, <1>3, <2>2
    <3>2. j \in issued
      BY <3>1 DEF Minted
    <3> QED
      BY <1>0, <3>1, <3>2, IssuedMoves
  <2> QED
    BY <2>1, <2>2
<1> QED
  BY <1>1, <1>2, <1>3 DEF Minted

\* A revocation that is queued stays so until the registry has it.
LEMMA OutboxMoves ==
  ASSUME TypeOK, [Next]_vars
  PROVE  revoked \subseteq revoked' /\ outbox \subseteq outbox' \cup revoked'
<1>1. ASSUME NEW r \in Req, \/ \E k \in Token : Begin(r, k)
                            \/ Record(r) \/ Commit(r) \/ CommitFails(r) \/ Answer(r)
                            \/ Undo(r) \/ Repeat(r) \/ Abandon(r) \/ Retire(r)
      PROVE  revoked \subseteq revoked' /\ outbox \subseteq outbox' \cup revoked'
  BY <1>1 DEF Begin, Record, Commit, CommitFails, Answer, Undo, Repeat, Abandon, Retire, queueFamilyRevocation
<1>2. CASE \/ RevokeByClient \/ revokeGrant \/ (\E j \in Jti : Drain(j))
           \/ Tick \/ ReplaceSecret \/ Sweep \/ UNCHANGED vars
  BY <1>2 DEF RevokeByClient, revokeGrant, Drain, Tick, ReplaceSecret, Sweep, vars, queueFamilyRevocation
<1> QED
  BY <1>1, <1>2 DEF Next

\* A revocation is new only in the step that queues what was issued.
LEMMA RevocationMoves ==
  ASSUME TypeOK, Requests, Family, [Next]_vars, IsRevoked'
  PROVE  /\ ~ \E r \in Req : Rotates(r)
         /\ IsRevoked \/ issued \subseteq outbox'
<1>0. NoRow.revoked = FALSE
  BY DEF NoRow
<1>1. ASSUME NEW r \in Req, Rotates(r) PROVE FALSE
  <2>1. /\ req[r].tok \in Token /\ req[r].tok < MaxToken /\ grant /\ grant' = grant
        /\ \A i \in Token : ~row[i].revoked
    BY <1>0, <1>1, RotatesFrom
  <2>2. \A i \in Token : ~row'[i].revoked
    BY <1>1, <2>1, RotatedRow
  <2> QED
    BY <2>1, <2>2 DEF IsRevoked
<1>2. ASSUME grant' = grant, ~queueFamilyRevocation PROVE IsRevoked
  <2>1. CASE UNCHANGED <<row, code>>
    BY <1>2, <2>1 DEF IsRevoked
  <2>2. CASE Sweep
    BY <1>0, <1>2, <2>2, SweptRow DEF IsRevoked
  <2> QED
    BY <1>1, <1>2, <2>1, <2>2, RowCases DEF RowsMove
<1>3. CASE queueFamilyRevocation
  BY <1>1, <1>3 DEF queueFamilyRevocation
<1>4. ASSUME ~queueFamilyRevocation PROVE grant' = grant
  <2>1. ASSUME NEW r \in Req, \/ \E k \in Token : Begin(r, k)
                              \/ Record(r) \/ Commit(r) \/ CommitFails(r) \/ Answer(r)
                              \/ Undo(r) \/ Repeat(r) \/ Abandon(r) \/ Retire(r)
        PROVE  grant' = grant
    BY <2>1 DEF Begin, Record, Commit, CommitFails, Answer, Undo, Repeat, Abandon, Retire
  <2>2. CASE \/ RevokeByClient \/ revokeGrant \/ (\E j \in Jti : Drain(j))
             \/ Tick \/ ReplaceSecret \/ Sweep \/ UNCHANGED vars
    BY <1>4, <2>2 DEF RevokeByClient, revokeGrant, Drain, Tick, ReplaceSecret, Sweep, vars
  <2> QED
    BY <2>1, <2>2 DEF Next
<1> QED
  BY <1>1, <1>2, <1>3, <1>4

LEMMA CoveredStep ==
  ASSUME TypeOK, Requests, Family, Minted, Covered, [Next]_vars
  PROVE  Covered'
<1> SUFFICES ASSUME IsRevoked', NEW k \in Token, NEW j \in Jti, Bearer(k, j)', Good(j)'
             PROVE  j \in outbox'
  BY DEF Covered
<1>1. Bearer(k, j)
  BY BearersMove, RevocationMoves
<1>2. Good(j)
  <2>1. exp'[j] = exp[j] /\ j \notin revoked
    BY <1>1, ExpMoves, OutboxMoves DEF Minted, Good
  <2>2. exp[j] \in Nat /\ now \in Nat /\ now' \in Nat /\ now' >= now
    BY TimeMoves DEF TypeOK
  <2> QED
    BY <2>1, <2>2 DEF Good
<1>3. j \in issued
  BY <1>2 DEF Minted, Good
<1>4. CASE issued \subseteq outbox'
  BY <1>3, <1>4
<1>5. CASE IsRevoked
  <2>1. j \in outbox
    BY <1>1, <1>2, <1>5 DEF Covered
  <2> QED
    BY <2>1, OutboxMoves DEF Good
<1> QED
  BY <1>4, <1>5, RevocationMoves

-----------------------------------------------------------------------------
(* The theorems.                                                           *)

LEMMA InvStep == IInv /\ [Next]_vars => IInv'
BY TypeStep, RequestsStep, FamilyStep, WindowsStep, BearersStep, MintedStep, CoveredStep DEF IInv

LEMMA Inductive == Spec => []IInv
<1>1. Init => IInv
  <2> SUFFICES ASSUME Init PROVE IInv
    OBVIOUS
  <2>1. TypeOK /\ Requests
    BY InitTyped
  <2>2. /\ NoRow.live = FALSE /\ NoRow.revoked = FALSE /\ NoRow.replay = None /\ NoReq.pc = "idle" /\ NoReq.jti = None
        /\ Token \subseteq Nat /\ 0 \in Token /\ None \notin Jti /\ FamilyLife > 0
    BY Constants, RefreshAssumption DEF NoRow, NoReq
  <2>3. PICK first : /\ first = [NoRow EXCEPT !.live = TRUE, !.ends = FamilyLife]
                     /\ row = [k \in Token |-> IF k = 1 /\ ~code THEN first ELSE NoRow]
    BY DEF Init
  <2>4. first.live = TRUE /\ first.revoked = FALSE /\ first.replay = None
    BY <2>3 DEF NoRow
  <2>5. \A k \in Token \ {1} : row[k] = NoRow
    BY <2>3
  <2>6. \A k \in Token : ~row[k].revoked /\ row[k].replay = None
    BY <2>2, <2>3, <2>4
  <2>7. \A k \in Token : Stored(k) = None
    BY <2>1, <2>2, <2>6, ChildRow DEF Stored
  <2>8. \A k \in Token \ {0} : ~Child(k).live
    <3> SUFFICES ASSUME NEW k \in Token \ {0} PROVE ~Child(k).live
      OBVIOUS
    <3>1. k \in Nat /\ k + 1 # 1
      BY <2>2
    <3> QED
      BY <2>1, <2>2, <2>5, <3>1, ChildRow
  <2>9. Family
    BY <2>2, <2>3, <2>4, <2>5, <2>6, <2>7, <2>8 DEF Family
  <2>10. Windows
    <3>1. ASSUME NEW k \in Token \ {0}, k + 1 \in Token PROVE ~Child(k + 1).live
      <4>1. k + 1 \in Token \ {0}
        BY <2>2, <3>1
      <4> QED
        BY <2>8, <4>1
    <3> QED
      BY <2>8, <3>1 DEF Windows
  <2>11. \A k \in Token, j \in Jti : ~Bearer(k, j)
    BY <2>2, <2>7 DEF Init, Bearer
  <2>12. Bearers /\ Covered
    BY <2>11 DEF Bearers, Covered
  <2>13. Minted
    BY <2>2, <2>11 DEF Init, Minted
  <2> QED
    BY <2>1, <2>9, <2>10, <2>12, <2>13 DEF IInv
<1> QED
  BY <1>1, InvStep, PTL DEF Spec

(* as-refresh.ts useRefresh, as-refresh-grant.ts: a refresh token, or a    *)
(* code, is worth one access token, however many requests present it.      *)
THEOREM OneAccessToken == Spec => []OneBearer
<1>1. IInv => OneBearer
  <2> SUFFICES ASSUME IInv, NEW k \in Token PROVE Cardinality(out[k]) <= 1
    BY DEF OneBearer
  <2>1. out[k] \subseteq Jti /\ \A i, j \in out[k] : i = j
    BY DEF IInv, TypeOK, Bearers, Bearer
  <2>2. CASE out[k] = {}
    BY <2>2, FS_EmptySet
  <2>3. ASSUME NEW j \in out[k] PROVE Cardinality(out[k]) <= 1
    <3>1. out[k] = {j}
      BY <2>1, <2>3
    <3>2. Cardinality({j}) = 1
      BY FS_Singleton
    <3> QED
      BY <3>1, <3>2
  <2> QED
    BY <2>2, <2>3
<1> QED
  BY <1>1, Inductive, PTL

(* as-refresh.ts queueFamilyRevocation, as-revoke.ts drainRevocations: a   *)
(* revocation reaches every access token that left, before it or after.    *)
THEOREM RevocationCovers == Spec => []RevokedCovered
<1>1. IInv => RevokedCovered
  <2> SUFFICES ASSUME IInv, IsRevoked, NEW k \in Token, NEW j \in out[k], Good(j) PROVE j \in outbox
    BY DEF RevokedCovered, IsRevoked
  <2>1. j \in Jti /\ Bearer(k, j)
    BY DEF IInv, TypeOK, Bearer
  <2> QED
    BY <2>1 DEF IInv, Covered
<1> QED
  BY <1>1, Inductive, PTL

(* as-refresh.ts standing, loadReplay: a token that may be presented again *)
(* has its response kept.                                                  *)
THEOREM RetryAnswered == Spec => []WindowHasResponse
<1>1. IInv => WindowHasResponse
  <2> SUFFICES ASSUME IInv, NEW k \in Token \ {0}, standing(k, gen) = "retry", Stored(k) = None PROVE FALSE
    BY DEF WindowHasResponse
  <2>1. TypeOK /\ Windows
    BY DEF IInv
  <2>2. Child(k).live /\ (row[k].used = Unused \/ Graced(k))
    BY <2>1 DEF standing, TypeOK
  <2>3. row[k].used # Unused /\ (Grace = 0 \/ Child(k).used # Unused)
    BY <2>1, <2>2 DEF Windows, Stored
  <2>4. Grace > 0 /\ Child(k).used = Unused
    BY <2>2, <2>3 DEF Graced
  <2> QED
    BY <2>3, <2>4, RefreshAssumption
<1> QED
  BY <1>1, Inductive, PTL
=============================================================================
