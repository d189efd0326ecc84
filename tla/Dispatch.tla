------------------------------ MODULE Dispatch ------------------------------
(***************************************************************************)
(* The policy part of a tool call (mcp/registry/dispatch.ts): the claim on *)
(* an idempotency key, the throttle and confirmation gates, the handler    *)
(* with its commit signal, and what becomes of the claim and of the        *)
(* confirmation token when the call succeeds, is refused, throws, or dies  *)
(* with its process.                                                       *)
(*                                                                         *)
(* One (vault, principal, key) and one confirmation token are modelled:    *)
(* rows of distinct keys never meet, and a call carries at most one of     *)
(* each.  The server processes share the one cache.db, and every SQL       *)
(* statement is atomic.  A process runs one JavaScript event loop, so a    *)
(* call that is between two statements with no await in between excludes   *)
(* the other calls of its process, and nobody else.                        *)
(***************************************************************************)
EXTENDS Integers, FiniteSets

CONSTANTS
  Call,             \* tool calls; each is dispatched once, a retry is another one
  Proc,             \* server processes sharing cache.db
  Home,             \* Home[c]: the process that serves call c
  Keyless,          \* calls that carry no idempotency key
  Args,             \* argument hashes (argsHash of tool and input)
  Styles,           \* how a handler orders its effect and its commit signal
  Gatings,          \* where a call asks for confirmation: nowhere, dispatch, handler
  ThrottleEnabled,  \* config throttle.enabled
  Ttl,              \* idempotencyTtlSeconds
  Reclaim,          \* idempotencyReclaimSeconds
  ElicitTtl,        \* elicitTtlSeconds
  Prompt,           \* TRUE: no live call outlasts the reclaim window
  MaxTime,          \* bound on the clock
  MaxFaults,        \* bound on failing SQL statements
  NoCall            \* not a call

ASSUME DispatchAssumption ==
  /\ Home \in [Call -> Proc]
  /\ Keyless \subseteq Call
  /\ Args # {}
  /\ Styles \subseteq {"ahead", "after", "txn", "none"} /\ Styles # {}
  /\ Gatings \subseteq {"none", "dispatch", "handler"} /\ Gatings # {}
  /\ ThrottleEnabled \in BOOLEAN
  /\ Prompt \in BOOLEAN
  /\ Ttl \in Nat /\ Reclaim \in Nat /\ ElicitTtl \in Nat
  /\ MaxTime \in Nat /\ MaxFaults \in Nat
  /\ NoCall \notin Call

VARIABLES
  now,       \* Date.now(), shared by the processes
  row,       \* the key's row of idempotency_keys, or NoRow
  token,     \* the confirmation token's row of elicit_tokens, or NoToken
  tool,      \* tool[a]: how the tool behind argument hash a behaves; never changes
  call,      \* call[c]: the locals of dispatch c
  faults,    \* SQL statements that failed so far
  claimant,  \* history: the call whose INSERT made the present row
  landed     \* history: the calls whose effect has landed

vars == <<now, row, token, tool, call, faults, claimant, landed>>

-----------------------------------------------------------------------------
(* Data.  A row is done (completed_at set) exactly in the last two states. *)

NoRow == [state |-> "absent"]
NoToken == [state |-> "absent"]

RowState == {"in_flight", "effect_committed", "completed", "indeterminate"}

Row == [state: RowState, args: Args, started: Nat, expires: Nat,
        result: Call \cup {NoCall}, over: BOOLEAN]

Token == [state: {"issued", "consumed"}, args: Args, expires: Nat]

\* Statements of claimOrReplay with no await between them.
Mid == {"read", "reap", "reinsert", "reread"}

Pc == {"idle", "insert", "gates", "handler", "settle", "catch", "done", "crashed"} \cup Mid

Answer == {"none", "refused", "mismatch", "in_flight", "indeterminate",
           "overflow", "replay", "ok", "error"}

Local == [pc: Pc, args: Args, claimed: BOOLEAN, claimedAt: Nat,
          invoked: BOOLEAN, returned: BOOLEAN, committed: BOOLEAN,
          blocked: BOOLEAN, spent: BOOLEAN,
          answer: Answer, of: Call \cup {NoCall}]

Done(r) == r.state \in {"completed", "indeterminate"}

Style(c) == tool[call[c].args].style
Gating(c) == tool[call[c].args].gating

\* A call that is past its claim and not over.
Live(c) == call[c].pc \in {"gates", "handler", "settle", "catch"}

\* No other call of c's process is between two statements.
LoopFree(c) == \A d \in Call \ {c} : Home[d] = Home[c] => call[d].pc \notin Mid

Set(c, l) == call' = [call EXCEPT ![c] = l]

\* The locals of a call that is over: those that nothing reads any more are dropped.
Ended(l, where) == [l EXCEPT !.pc = where, !.claimed = FALSE, !.invoked = FALSE,
                             !.committed = FALSE, !.blocked = FALSE]

Finish(c, l, a, of) == Set(c, [Ended(l, "done") EXCEPT !.answer = a, !.of = of])

-----------------------------------------------------------------------------
(* idempotency.ts: the statements on the row.  None of the UPDATEs and     *)
(* DELETEs names the claim it was issued for: they address the key.        *)

\* Variants with a bug, for mutation runs, stand before the definition they replace.
ExpiryBackwards(c) == [state |-> "in_flight", args |-> call[c].args, started |-> now,
                       expires |-> now - Ttl, result |-> NoCall, over |-> FALSE]

FreshRow(c) == [state |-> "in_flight", args |-> call[c].args, started |-> now,
                expires |-> now + Ttl, result |-> NoCall, over |-> FALSE]

tryClaimIdempotency(c) ==
  /\ row = NoRow
  /\ row' = FreshRow(c)
  /\ claimant' = c
  /\ Set(c, [call[c] EXCEPT !.pc = "gates", !.claimed = TRUE, !.claimedAt = now])

deleteIdempotency ==
  /\ row' = NoRow
  /\ claimant' = NoCall

MarkOverTerminal ==
  /\ row' = IF row = NoRow THEN row ELSE [row EXCEPT !.state = "effect_committed"]
  /\ UNCHANGED claimant

markEffectCommitted ==
  /\ row' = IF row = NoRow \/ Done(row) THEN row ELSE [row EXCEPT !.state = "effect_committed"]
  /\ UNCHANGED claimant

finalizeIdempotency(c, over) ==
  /\ row' = IF row = NoRow THEN row
            ELSE [row EXCEPT !.state = "completed", !.result = c, !.over = over]
  /\ UNCHANGED claimant

finalizeIndeterminate ==
  /\ row' = IF row = NoRow THEN row
            ELSE [row EXCEPT !.state = "indeterminate", !.result = NoCall, !.over = FALSE]
  /\ UNCHANGED claimant

\* The statement throws (SQLITE_BUSY past the timeout, a full disk).
SqlFault ==
  /\ faults < MaxFaults
  /\ faults' = faults + 1
  /\ UNCHANGED <<row, claimant>>

ReclaimCommitted(r) == r.expires <= now \/ (~Done(r) /\ r.started + Reclaim <= now)

ReclaimEarly(r) ==
  \/ r.expires <= now
  \/ r.state = "in_flight" /\ r.started + Reclaim <= now + 1

Reclaimable(r) ==
  \/ r.expires <= now
  \/ r.state = "in_flight" /\ r.started + Reclaim <= now

ResolveAnyArgs(c) ==
  IF row # NoRow /\ row.state = "completed"
  THEN Finish(c, call[c], "replay", row.result)
  ELSE Finish(c, call[c], "in_flight", NoCall)

(* claimOrReplay, once the key is known to be taken and not reclaimable.   *)
Resolve(c) ==
  LET l == call[c] IN
  CASE row = NoRow                                         -> Finish(c, l, "in_flight", NoCall)
    [] row # NoRow /\ row.args # l.args                    -> Finish(c, l, "mismatch", NoCall)
    [] row # NoRow /\ row.args = l.args
         /\ row.state \in {"indeterminate", "effect_committed"}
                                                           -> Finish(c, l, "indeterminate", NoCall)
    [] row # NoRow /\ row.args = l.args /\ row.state = "completed"
                                                           -> Finish(c, l, IF row.over THEN "overflow" ELSE "replay", row.result)
    [] row # NoRow /\ row.args = l.args /\ row.state = "in_flight"
                                                           -> Finish(c, l, "in_flight", NoCall)

-----------------------------------------------------------------------------
(* elicit.ts: the token's row.                                             *)

\* verifyAndConsumeElicit's conditions; the UPDATE's own WHERE consumed_at
\* IS NULL makes the read and the write one step.
Redeemable(c) ==
  /\ token.state = "issued"
  /\ now <= token.expires
  /\ token.args = call[c].args

Consume == token' = [token EXCEPT !.state = "consumed"]

\* releaseSpentElicit under refusedBeforeEffect.
RefusableThoughInvoked(l) == ~l.returned /\ ~l.committed

Refusable(l) == ~l.returned /\ ~l.committed /\ (~l.invoked \/ l.blocked)

releaseSpentElicit(l) ==
  token' = IF l.spent /\ Refusable(l) /\ token.state = "consumed"
           THEN [token EXCEPT !.state = "issued"] ELSE token

-----------------------------------------------------------------------------
(* Arrival.                                                                *)

Arrive(c) ==
  /\ call[c].pc = "idle" /\ LoopFree(c)
  /\ \E a \in Args :
       Set(c, [call[c] EXCEPT !.pc = IF c \in Keyless THEN "gates" ELSE "insert", !.args = a])
  /\ UNCHANGED <<now, row, token, tool, faults, claimant, landed>>

\* Cancelled, unknown tool, bad input, scope, ACL or precheck: nothing was touched.
Reject(c) ==
  /\ call[c].pc \in {"idle", "insert"} /\ LoopFree(c)
  /\ Finish(c, call[c], "refused", NoCall)
  /\ UNCHANGED <<now, row, token, tool, faults, claimant, landed>>

-----------------------------------------------------------------------------
(* The idempotency gate: claimOrReplay, one SQL statement per step.        *)

Insert(c) ==
  /\ call[c].pc = "insert" /\ LoopFree(c)
  /\ \/ tryClaimIdempotency(c)
     \/ /\ row # NoRow
        /\ Set(c, [call[c] EXCEPT !.pc = "read"])
        /\ UNCHANGED <<row, claimant>>
  /\ UNCHANGED <<now, token, tool, faults, landed>>

Read(c) ==
  /\ call[c].pc = "read"
  /\ IF row # NoRow /\ Reclaimable(row)
     THEN Set(c, [call[c] EXCEPT !.pc = "reap"])
     ELSE Resolve(c)
  /\ UNCHANGED <<now, row, token, tool, faults, claimant, landed>>

Reap(c) ==
  /\ call[c].pc = "reap"
  /\ deleteIdempotency
  /\ Set(c, [call[c] EXCEPT !.pc = "reinsert"])
  /\ UNCHANGED <<now, token, tool, faults, landed>>

Reinsert(c) ==
  /\ call[c].pc = "reinsert"
  /\ \/ tryClaimIdempotency(c)
     \/ /\ row # NoRow
        /\ Set(c, [call[c] EXCEPT !.pc = "reread"])
        /\ UNCHANGED <<row, claimant>>
  /\ UNCHANGED <<now, token, tool, faults, landed>>

Reread(c) ==
  /\ call[c].pc = "reread"
  /\ Resolve(c)
  /\ UNCHANGED <<now, row, token, tool, faults, claimant, landed>>

\* A later statement throws; the call does not hold the claim, so its catch
\* leaves the row as it is.
ClaimFault(c) ==
  /\ call[c].pc \in Mid
  /\ SqlFault
  /\ Finish(c, call[c], "error", NoCall)
  /\ UNCHANGED <<now, token, tool, landed>>

-----------------------------------------------------------------------------
(* The gates after the claim, and the entry into the handler.  A refusal   *)
(* is thrown to the catch, which first awaits provenance.settle.           *)

Throw(c, l) == Set(c, [l EXCEPT !.pc = "catch"])

\* The throttle and confirmation gates delete the claim before they throw.
ReleaseAtGate(c) ==
  IF call[c].claimed
  THEN (deleteIdempotency /\ UNCHANGED faults) \/ SqlFault
  ELSE UNCHANGED <<row, claimant, faults>>

Throttled(c) ==
  /\ ThrottleEnabled
  /\ call[c].pc = "gates" /\ LoopFree(c)
  /\ ReleaseAtGate(c)
  /\ Throw(c, call[c])
  /\ UNCHANGED <<now, token, tool, landed>>

\* checkAborted after the claim, after the throttle or after provenance.begin.
Abort(c) ==
  /\ call[c].pc = "gates" /\ LoopFree(c)
  /\ Throw(c, call[c])
  /\ UNCHANGED <<now, row, token, tool, faults, claimant, landed>>

\* The call carries no token, or not one that confirms it.
ElicitRequired(c) ==
  /\ call[c].pc = "gates" /\ LoopFree(c)
  /\ Gating(c) = "dispatch"
  /\ ReleaseAtGate(c)
  /\ Throw(c, call[c])
  /\ UNCHANGED <<now, token, tool, landed>>

\* The target changed since the request: replay_drift, with the token spent
\* but not reported to dispatch.
Drifted(c) ==
  /\ \/ call[c].pc = "gates" /\ Gating(c) = "dispatch"
     \/ call[c].pc = "handler" /\ Gating(c) = "handler" /\ ~call[c].spent /\ ~call[c].committed
  /\ LoopFree(c)
  /\ Redeemable(c) /\ Consume
  /\ Throw(c, call[c])
  /\ UNCHANGED <<now, row, tool, faults, claimant, landed>>

\* checkHitl, installEffectMarker, enforceCentralPathAcl and the last
\* checkAborted run without an await up to the handler.
Enter(c) ==
  /\ call[c].pc = "gates" /\ LoopFree(c)
  /\ IF Gating(c) = "dispatch" THEN Redeemable(c) /\ Consume ELSE UNCHANGED token
  /\ LET l == [call[c] EXCEPT !.spent = (Gating(c) = "dispatch")] IN
       \/ Set(c, [l EXCEPT !.pc = "handler", !.invoked = TRUE])
       \/ Throw(c, l)
  /\ UNCHANGED <<now, row, tool, faults, claimant, landed>>

-----------------------------------------------------------------------------
(* The handler.                                                            *)

InHandler(c) == call[c].pc = "handler" /\ LoopFree(c)

Confirmed(c) == Gating(c) = "handler" => call[c].spent

\* requireConfirmation spends the token inside the handler.
Confirm(c) ==
  /\ InHandler(c)
  /\ Gating(c) = "handler" /\ ~call[c].spent /\ ~call[c].committed
  /\ Redeemable(c) /\ Consume
  /\ Set(c, [call[c] EXCEPT !.spent = TRUE])
  /\ UNCHANGED <<now, row, tool, faults, claimant, landed>>

\* ctx.markEffectCommitted: the durable mark first, then the flag.
MarkIfClaimed(c) == IF call[c].claimed THEN markEffectCommitted ELSE UNCHANGED <<row, claimant>>

Signal(c) ==
  /\ InHandler(c) /\ Confirmed(c) /\ ~call[c].committed
  /\ \/ Style(c) = "ahead"
     \/ Style(c) = "after" /\ c \in landed
  /\ \/ MarkIfClaimed(c) /\ Set(c, [call[c] EXCEPT !.committed = TRUE]) /\ UNCHANGED faults
     \/ call[c].claimed /\ SqlFault /\ Throw(c, call[c])
  /\ UNCHANGED <<now, token, tool, landed>>

\* The effect lands: behind the signal, before it, or in one transaction with it.
Effect(c) ==
  /\ InHandler(c) /\ Confirmed(c) /\ c \notin landed
  /\ Style(c) = "ahead" => call[c].committed
  /\ landed' = landed \cup {c}
  /\ IF Style(c) = "txn"
     THEN MarkIfClaimed(c) /\ Set(c, [call[c] EXCEPT !.committed = TRUE])
     ELSE UNCHANGED <<row, claimant, call>>
  /\ UNCHANGED <<now, token, tool, faults>>

\* The transaction that held the effect and the mark rolls back; the flag stays.
RolledBack(c) ==
  /\ InHandler(c) /\ Confirmed(c)
  /\ Style(c) = "txn" /\ c \notin landed
  /\ Throw(c, [call[c] EXCEPT !.committed = TRUE])
  /\ UNCHANGED <<now, row, token, tool, faults, claimant, landed>>

\* Any other throw; blocked is the write gate's refusal before any write.
HandlerThrow(c) ==
  /\ InHandler(c)
  /\ \E blocked \in BOOLEAN :
       /\ blocked => c \notin landed
       /\ Throw(c, [call[c] EXCEPT !.blocked = blocked])
  /\ UNCHANGED <<now, row, token, tool, faults, claimant, landed>>

HandlerReturn(c) ==
  /\ InHandler(c) /\ Confirmed(c)
  /\ LET l == [call[c] EXCEPT !.returned = TRUE] IN
       \/ MarkIfClaimed(c) /\ Set(c, [l EXCEPT !.pc = "settle"]) /\ UNCHANGED faults
       \/ call[c].claimed /\ SqlFault /\ Throw(c, l)
  /\ UNCHANGED <<now, token, tool, landed>>

-----------------------------------------------------------------------------
(* After the handler.                                                      *)

\* The result is recorded; over is the overflow path, whose fault is swallowed.
Complete(c) ==
  /\ call[c].pc = "settle" /\ LoopFree(c)
  /\ \E over \in BOOLEAN :
       LET ok == Finish(c, call[c], IF over THEN "overflow" ELSE "ok", c) IN
       IF call[c].claimed
       THEN \/ finalizeIdempotency(c, over) /\ ok /\ UNCHANGED faults
            \/ SqlFault /\ IF over THEN ok ELSE Throw(c, call[c])
       ELSE ok /\ UNCHANGED <<row, claimant, faults>>
  /\ UNCHANGED <<now, token, tool, landed>>

\* Strict output schema, or a payload that does not serialize.
OutputRefused(c) ==
  /\ call[c].pc = "settle" /\ LoopFree(c)
  /\ Throw(c, call[c])
  /\ UNCHANGED <<now, row, token, tool, faults, claimant, landed>>

SettledOnlyOnReturn(c) == call[c].returned

\* The rest of the catch: the claim first, then the token.
Settled(c) ==
  call[c].returned \/ (call[c].committed /\ row # NoRow /\ row.state = "effect_committed")

Catch(c) ==
  /\ call[c].pc = "catch" /\ LoopFree(c)
  /\ IF call[c].claimed
     THEN \/ /\ IF Settled(c) THEN finalizeIndeterminate ELSE deleteIdempotency
             /\ UNCHANGED faults
          \/ SqlFault
          \/ \* the state cannot be read: taken for committed
             /\ call[c].committed /\ faults < MaxFaults
             /\ finalizeIndeterminate
             /\ faults' = faults + 1
     ELSE UNCHANGED <<row, claimant, faults>>
  /\ releaseSpentElicit(call[c])
  /\ Finish(c, [call[c] EXCEPT !.spent = @ /\ ~Refusable(call[c])], "error", NoCall)
  /\ UNCHANGED <<now, tool, landed>>

-----------------------------------------------------------------------------
(* The environment.                                                        *)

\* db/maintenance.ts: rows past their expiry.
Sweep ==
  /\ \/ row # NoRow /\ row.expires <= now
     \/ token # NoToken /\ token.expires <= now
  /\ IF row # NoRow /\ row.expires <= now THEN deleteIdempotency ELSE UNCHANGED <<row, claimant>>
  /\ token' = IF token # NoToken /\ token.expires <= now THEN NoToken ELSE token
  /\ UNCHANGED <<now, tool, call, faults, landed>>

Over == {"idle", "done", "crashed"}

Crash(p) ==
  /\ \E c \in Call : Home[c] = p /\ call[c].pc \notin Over
  /\ call' = [c \in Call |-> IF Home[c] = p /\ call[c].pc \notin Over
                             THEN Ended(call[c], "crashed") ELSE call[c]]
  /\ UNCHANGED <<now, row, token, tool, faults, claimant, landed>>

Tick ==
  /\ now < MaxTime
  /\ Prompt => \A c \in Call : Live(c) /\ call[c].claimed => now + 1 < call[c].claimedAt + Reclaim
  /\ now' = now + 1
  /\ UNCHANGED <<row, token, tool, call, faults, claimant, landed>>

-----------------------------------------------------------------------------
Unborn ==
  [pc |-> "idle", args |-> CHOOSE a \in Args : TRUE, claimed |-> FALSE, claimedAt |-> 0,
   invoked |-> FALSE, returned |-> FALSE, committed |-> FALSE,
   blocked |-> FALSE, spent |-> FALSE, answer |-> "none", of |-> NoCall]

Init ==
  /\ now = 0
  /\ row = NoRow
  /\ \E a \in Args : token = [state |-> "issued", args |-> a, expires |-> ElicitTtl]
  /\ tool \in [Args -> [style: Styles, gating: Gatings]]
  /\ call = [c \in Call |-> Unborn]
  /\ faults = 0
  /\ claimant = NoCall
  /\ landed = {}

Dispatch(c) ==
  \/ Arrive(c) \/ Reject(c)
  \/ Insert(c) \/ Read(c) \/ Reap(c) \/ Reinsert(c) \/ Reread(c)
  \/ ClaimFault(c)
  \/ Throttled(c) \/ Abort(c) \/ ElicitRequired(c) \/ Drifted(c) \/ Enter(c)
  \/ Confirm(c) \/ Signal(c) \/ Effect(c) \/ RolledBack(c)
  \/ HandlerThrow(c) \/ HandlerReturn(c)
  \/ Complete(c) \/ OutputRefused(c) \/ Catch(c)

Next ==
  \/ \E c \in Call : Dispatch(c)
  \/ \E p \in Proc : Crash(p)
  \/ Sweep
  \/ Tick

Spec == Init /\ [][Next]_vars

-----------------------------------------------------------------------------
(* Properties.                                                             *)

TypeOK ==
  /\ now \in Nat
  /\ row \in Row \cup {NoRow}
  /\ token \in Token \cup {NoToken}
  /\ tool \in [Args -> [style: Styles, gating: Gatings]]
  /\ call \in [Call -> Local]
  /\ faults \in Nat
  /\ claimant \in Call \cup {NoCall}
  /\ landed \subseteq Call

(* elicit.ts, elicit-release.ts: whatever is refused, thrown, released or  *)
(* retried, and in whatever order, one human confirmation lets at most one *)
(* gated call have its effect.                                             *)
OneEffectPerConfirmation ==
  \A c, d \in landed :
    Gating(c) # "none" /\ Gating(d) # "none" => c = d

(* dispatch.ts: a claim that is not settled belongs to a call that is      *)
(* still at work or died; every early return and throw let it go.          *)
NoStrandedClaim ==
  faults = 0 /\ row # NoRow /\ ~Done(row)
    => claimant \in Call /\ (Live(claimant) \/ call[claimant].pc = "crashed")

(* dispatch.ts catch: the holder of a claim does not give it up once its   *)
(* effect has landed, when the handler marked ahead of the effect or with  *)
(* it, even if it throws before it returns.                                *)
CommittedClaimKept ==
  [][\A c \in Call :
       claimant = c /\ c \in landed /\ Style(c) \in {"ahead", "txn"} /\ call'[c] # call[c]
         => row' # NoRow]_vars

(* idempotency.ts, ARCHITECTURE.md 4a: two effects under one key are at    *)
(* least the key's lifetime apart.                                         *)
AtMostOncePerTtl ==
  \A c, d \in landed \ Keyless :
    c # d /\ call[c].claimedAt <= call[d].claimedAt
      => call[c].claimedAt + Ttl <= call[d].claimedAt

(* claimOrReplay: a replayed answer is the answer of a call with the same  *)
(* tool and arguments, whose handler returned.                             *)
ReplayFaithful ==
  \A c \in Call :
    call[c].answer \in {"replay", "overflow"} /\ call[c].of # c
      => /\ call[c].of \in Call
         /\ call[call[c].of].args = call[c].args
         /\ call[call[c].of].returned

(* claimOrReplay: a duplicate of a call in flight, inside the reclaim      *)
(* window, does not get to the handler.                                    *)
OneHolder ==
  \A c, d \in Call \ Keyless :
    c # d /\ call[c].pc = "handler" /\ call[d].pc = "handler" /\ call[c].claimedAt <= call[d].claimedAt
      => call[c].claimedAt + Reclaim <= now \/ call[c].claimedAt + Ttl <= now

=============================================================================
