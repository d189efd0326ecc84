------------------------------- MODULE Refresh -------------------------------
(***************************************************************************)
(* One family of refresh tokens of the bundled authorization server: the   *)
(* exchange of its code, rotation on every use, the answer to a client     *)
(* that lost a response and asks again, the grace for several windows, and *)
(* the revocation of everything that was issued, by requests of several    *)
(* processes with an await between the look and the commit.                *)
(*                                                                         *)
(* Sources: auth/{as-token-endpoint,as-refresh-grant,as-refresh,as-access, *)
(* as-grants,as-revoke,oauth-db}.ts.                                       *)
(*                                                                         *)
(* The successor of a token is derived from it, so the tokens of a family  *)
(* are numbered: 0 stands for the code, 1 for the token its exchange makes *)
(* and k + 1 for the successor of k.  oauth.db and auth.db are two files:  *)
(* a transaction covers one of them.                                       *)
(***************************************************************************)
EXTENDS Naturals, FiniteSets

CONSTANTS
  Req,         \* requests that may be in flight at once
  MaxToken,    \* bound: length of the family
  MaxJti,      \* bound: access tokens minted
  AccessLife,  \* accessTokenSeconds
  FamilyLife,  \* refreshTokenDays
  Grace,       \* refreshReuseGraceSeconds, 0 for none
  MaxEvents    \* bound: ticks of the clock and replacements of the server secret

Token == 0 .. MaxToken
Jti == 1 .. MaxJti
Time == 0 .. MaxEvents

ASSUME RefreshAssumption ==
  /\ MaxToken \in Nat /\ MaxJti \in Nat /\ MaxEvents \in Nat
  /\ AccessLife \in Nat \ {0} /\ FamilyLife \in Nat \ {0} /\ Grace \in Nat

VARIABLES
  now,      \* Date.now()
  gen,      \* secretGeneration of the server
  grant,    \* TRUE: the grant stands
  code,     \* TRUE: the code is unused
  row,      \* row[k]: the row of token k in refresh_tokens
  exp,      \* exp[j]: the expiry of access token j, 0 before it is minted
  issued,   \* issued_access: the jtis the family is known to have
  outbox,   \* revocation_outbox
  revoked,  \* the registry's revoked set, in auth.db
  req,      \* req[r]: the locals of a request
  out       \* history: out[k]: the access tokens that went out in answer to token k

vars == <<now, gen, grant, code, row, exp, issued, outbox, revoked, req, out>>

None == 0
Unused == MaxEvents + 1
Row == [live : BOOLEAN, gen : Nat, used : Time \cup {Unused}, revoked : BOOLEAN,
        replay : Jti \cup {None}, ends : Nat]
NoRow == [live |-> FALSE, gen |-> 0, used |-> Unused, revoked |-> FALSE, replay |-> None, ends |-> 0]

\* look: the token was found usable.  sign: its jti is recorded, the signature is
\* awaited.  answer, repeat, retire, undo, superseded: what the request does next.
Pc == {"idle", "look", "sign", "answer", "repeat", "retire", "undo", "superseded"}
NoReq == [pc |-> "idle", tok |-> 0, gen |-> 0, jti |-> None]
Request == [pc : Pc, tok : Token, gen : Nat, jti : Jti \cup {None}]

TypeOK ==
  /\ now \in Time /\ gen \in 0 .. MaxEvents /\ grant \in BOOLEAN /\ code \in BOOLEAN
  /\ row \in [Token -> Row] /\ exp \in [Jti -> Nat]
  /\ issued \subseteq Jti /\ outbox \subseteq Jti /\ revoked \subseteq Jti
  /\ req \in [Req -> Request] /\ out \in [Token -> SUBSET Jti]

\* A code just granted, or a family whose first access token is long gone.
Init ==
  /\ now = 0 /\ gen = 0 /\ grant = TRUE /\ code \in BOOLEAN
  /\ row = [k \in Token |-> IF k = 1 /\ ~code
                            THEN [NoRow EXCEPT !.live = TRUE, !.ends = FamilyLife] ELSE NoRow]
  /\ exp = [j \in Jti |-> 0]
  /\ issued = {} /\ outbox = {} /\ revoked = {}
  /\ req = [r \in Req |-> NoReq] /\ out = [k \in Token |-> {}]

------------------------------------------------------------------------------
(* What presenting a token means.                                          *)

Child(k) == IF k < MaxToken THEN row[k + 1] ELSE NoRow

\* The family left k by one step, at most Grace ago.
Graced(k) == Grace > 0 /\ Child(k).used = Unused /\ now - row[k].used < Grace

\* standing() of a refresh token, and of a code what its endpoint decides.
standing(k, g) ==
  IF k = 0
  THEN CASE ~code -> "reuse" [] code /\ ~grant -> "dead" [] code /\ grant -> "rotate"
  ELSE LET t == row[k] IN
       CASE ~t.live \/ t.revoked \/ ~grant \/ t.ends <= now -> "dead"
         [] OTHER -> IF t.gen # g THEN "foreign"
                     ELSE IF ~Child(k).live THEN "rotate"
                     ELSE IF t.used # Unused /\ ~Graced(k) THEN "reuse" ELSE "retry"

\* loadReplay: the response that made the successor of k.
Stored(k) == Child(k).replay

------------------------------------------------------------------------------
(* A request.                                                              *)

\* It pays the debts of the outbox, looks, and decides.  A request that comes from
\* another client, asks for too much or finds no row ends here and changes nothing.
Begin(r, k) ==
  LET st == standing(k, gen) IN
  /\ req[r] = NoReq /\ (k = 0 \/ row[k].live)
  /\ k < MaxToken \/ st # "rotate"
  /\ IF k = 0 THEN UNCHANGED <<outbox, revoked>>
     ELSE outbox' = {} /\ revoked' = revoked \cup outbox
  /\ req' = [req EXCEPT ![r] =
       CASE st = "rotate" -> [pc |-> "look", tok |-> k, gen |-> gen, jti |-> None]
         [] st = "retry" -> [pc |-> "repeat", tok |-> k, gen |-> gen, jti |-> None]
         [] st \in {"reuse", "foreign"} -> [pc |-> "retire", tok |-> k, gen |-> gen, jti |-> None]
         [] st = "dead" -> NoReq]
  /\ UNCHANGED <<now, gen, grant, code, row, exp, issued, out>>

\* recordIssuedAccess, before the token is signed.
Record(r) ==
  \E j \in Jti :
    /\ req[r].pc = "look" /\ exp[j] = 0 /\ \A i \in Jti : i < j => exp[i] # 0
    /\ exp' = [exp EXCEPT ![j] = now + AccessLife] /\ issued' = issued \cup {j}
    /\ req' = [req EXCEPT ![r].pc = "sign", ![r].jti = j]
    /\ UNCHANGED <<now, gen, grant, code, row, outbox, revoked, out>>

\* A plausible slip: only a revocation is looked for again, not another use.
RedecidedByLife(r) ==
  LET st == standing(req[r].tok, req[r].gen) IN IF st = "retry" THEN "rotate" ELSE st

\* A plausible slip: only another use is looked for again, not a revocation.
RedecidedByChild(r) ==
  LET k == req[r].tok
      st == standing(k, req[r].gen) IN
  IF st = "dead" /\ k # 0 /\ row[k].live /\ ~Child(k).live THEN "rotate" ELSE st

\* useRefresh decides again, under the write lock.
Redecided(r) == standing(req[r].tok, req[r].gen)

\* A plausible slip: the row that was just presented, whatever the grace.
SpentNow(k) == k

\* The row whose stored response can no longer be asked for.
Spent(k) == IF Grace > 0 THEN k - 1 ELSE k

\* The new row, and what its making closes: the parent's window.
Rotated(r) ==
  LET k == req[r].tok
      new == [NoRow EXCEPT !.live = TRUE, !.gen = req[r].gen,
                           !.replay = IF k = 0 THEN None ELSE req[r].jti,
                           !.ends = IF k = 0 THEN now + FamilyLife ELSE row[k].ends] IN
  row' = [i \in Token |->
            IF i = k + 1 THEN new
            ELSE IF k = 0 THEN row[i]
            ELSE [row[i] EXCEPT !.replay = IF i = Spent(k) THEN None ELSE @,
                                !.used = IF i = k - 1 /\ i > 0 /\ @ = Unused THEN now ELSE @]]

\* consumeCodeAndStartFamily, or useRefresh: one transaction.
Commit(r) ==
  LET st == Redecided(r) IN
  /\ req[r].pc = "sign"
  /\ IF st = "rotate" THEN Rotated(r) /\ code' = (code /\ req[r].tok # 0) ELSE UNCHANGED <<row, code>>
  /\ req' = [req EXCEPT ![r].pc =
       CASE st = "rotate" -> "answer"
         [] st \in {"reuse", "foreign"} \/ (st = "dead" /\ req[r].tok = 0) -> "retire"
         [] st = "dead" /\ req[r].tok # 0 -> "undo"
         [] st = "retry" -> "superseded"]
  /\ UNCHANGED <<now, gen, grant, exp, issued, outbox, revoked, out>>

\* The transaction throws: an exchange revokes its family, a refresh its jti.
CommitFails(r) ==
  /\ req[r].pc = "sign"
  /\ req' = [req EXCEPT ![r].pc = IF req[r].tok = 0 THEN "retire" ELSE "undo"]
  /\ UNCHANGED <<now, gen, grant, code, row, exp, issued, outbox, revoked, out>>

\* A plausible slip: the response is read back from the successor's row, where the
\* exchange of the code stores none.
AnswerStored(r) ==
  /\ req[r].pc = "answer"
  /\ out' = [out EXCEPT ![req[r].tok] = @ \cup {Stored(req[r].tok)}]
  /\ req' = [req EXCEPT ![r] = NoReq]
  /\ UNCHANGED <<now, gen, grant, code, row, exp, issued, outbox, revoked>>

\* The response leaves.
Answer(r) ==
  /\ req[r].pc = "answer"
  /\ out' = [out EXCEPT ![req[r].tok] = @ \cup {req[r].jti}]
  /\ req' = [req EXCEPT ![r] = NoReq]
  /\ UNCHANGED <<now, gen, grant, code, row, exp, issued, outbox, revoked>>

\* A token that will not leave is revoked; when another request of the same token
\* won, its response is the answer.
Undo(r) ==
  /\ req[r].pc \in {"undo", "superseded"}
  /\ revoked' = revoked \cup {req[r].jti}
  /\ req' = [req EXCEPT ![r] =
       IF @.pc = "superseded" THEN [@ EXCEPT !.pc = "repeat", !.jti = None] ELSE NoReq]
  /\ UNCHANGED <<now, gen, grant, code, row, exp, issued, outbox, out>>

\* The stored response is repeated, if it is there and its token still good.
Repeat(r) ==
  LET k == req[r].tok
      j == Stored(k) IN
  /\ req[r].pc = "repeat"
  /\ out' = IF j # None /\ j \notin revoked /\ exp[j] > now
            THEN [out EXCEPT ![k] = @ \cup {j}] ELSE out
  /\ req' = [req EXCEPT ![r] = NoReq]
  /\ UNCHANGED <<now, gen, grant, code, row, exp, issued, outbox, revoked>>

\* The request is lost with its process, its client goes away, or signing fails.
Abandon(r) ==
  /\ req[r].pc # "idle"
  /\ req' = [req EXCEPT ![r] = NoReq]
  /\ UNCHANGED <<now, gen, grant, code, row, exp, issued, outbox, revoked, out>>

------------------------------------------------------------------------------
(* Revocation.                                                             *)

\* queueFamilyRevocation: the tokens are marked and the jtis queued at once.  An
\* exchange that fails does so while its code stays good for another.
queueFamilyRevocation ==
  /\ row' = [k \in Token |-> [row[k] EXCEPT !.revoked = @ \/ row[k].live]]
  /\ outbox' = outbox \cup issued

\* The family of a token that was presented beyond its window, or under a secret
\* that is no more.
Retire(r) ==
  /\ req[r].pc = "retire"
  /\ queueFamilyRevocation
  /\ req' = [req EXCEPT ![r] = NoReq]
  /\ UNCHANGED <<now, gen, grant, code, exp, issued, revoked, out>>

\* The client revokes a refresh token.
RevokeByClient ==
  /\ \E k \in Token : row[k].live
  /\ queueFamilyRevocation
  /\ UNCHANGED <<now, gen, grant, code, exp, issued, revoked, req, out>>

revokeGrant ==
  /\ queueFamilyRevocation /\ grant' = FALSE
  /\ UNCHANGED <<now, gen, code, exp, issued, revoked, req, out>>

\* One round of drainRevocations, which runs after each revocation, at start and on
\* the maintenance sweep: a jti the registry refuses stays in the outbox.
Drain(j) ==
  /\ j \in outbox
  /\ revoked' = revoked \cup {j} /\ outbox' = outbox \ {j}
  /\ UNCHANGED <<now, gen, grant, code, row, exp, issued, req, out>>

------------------------------------------------------------------------------
(* The rest of the world.                                                  *)

Tick ==
  /\ now + gen < MaxEvents /\ now' = now + 1
  /\ UNCHANGED <<gen, grant, code, row, exp, issued, outbox, revoked, req, out>>

\* The server comes back with another secret; requests in flight keep theirs.
ReplaceSecret ==
  /\ now + gen < MaxEvents /\ gen' = gen + 1
  /\ UNCHANGED <<now, grant, code, row, exp, issued, outbox, revoked, req, out>>

\* gcOauthDb: rows past the family's cap, and jtis past their expiry.
Sweep ==
  /\ row' = [k \in Token |-> IF row[k].live /\ row[k].ends <= now THEN NoRow ELSE row[k]]
  /\ issued' = {j \in issued : exp[j] >= now}
  /\ row' # row \/ issued' # issued
  /\ UNCHANGED <<now, gen, grant, code, exp, outbox, revoked, req, out>>

Next ==
  \/ \E r \in Req : \/ \E k \in Token : Begin(r, k)
                    \/ Record(r) \/ Commit(r) \/ CommitFails(r) \/ Answer(r)
                    \/ Undo(r) \/ Repeat(r) \/ Abandon(r) \/ Retire(r)
  \/ RevokeByClient \/ revokeGrant \/ (\E j \in Jti : Drain(j))
  \/ Tick \/ ReplaceSecret \/ Sweep

Spec == Init /\ [][Next]_vars

------------------------------------------------------------------------------
(* Properties.                                                             *)

Good(j) == j \notin revoked /\ exp[j] > now

\* A token, and the code, is worth one access token: however many requests present
\* it at once, lose their answers or ask again, every answer carries the same one.
OneBearer == \A k \in Token : Cardinality(out[k]) <= 1

\* Once a revocation of the family or of the grant has committed, no access token
\* that left, before it or after, is still good and not at least queued for the
\* registry.
RevokedCovered ==
  (~grant \/ \E k \in Token : row[k].revoked) => \A k \in Token : \A j \in out[k] : Good(j) => j \in outbox

\* While the rules say that a token may be presented again, its response is there.
WindowHasResponse ==
  \A k \in Token \ {0} : standing(k, gen) = "retry" => Stored(k) # None
=============================================================================
