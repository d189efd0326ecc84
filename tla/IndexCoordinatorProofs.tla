----------------------- MODULE IndexCoordinatorProofs -----------------------
(* Theorems about IndexCoordinator, for all keys, vaults, limits and bounds. *)
EXTENDS IndexCoordinator, FiniteSetTheorems, TLAPS

Working == {"vaultWait", "vaultHeld", "globalWait", "running"}
Begun == Working \cup {"settled", "done"}
Final == {"applied", "thrown", "dropped"}

-----------------------------------------------------------------------------
(* The queues of the semaphores.                                           *)

KeysOf(u) == {k \in Key : VaultOf[k] = u}

\* By the drains D, those of q are of the keys S and wait there once, in phase ph.
Queue(D, q, ph, S) ==
  /\ \A i \in 1 .. Len(q) : q[i][1] \in S /\ D[q[i][1]][q[i][2]].phase = ph
  /\ \A i, j \in 1 .. Len(q) : q[i] = q[j] => i = j

Queues ==
  /\ Queue(drain, globalSem.waiters, "globalWait", Key)
  /\ \A u \in Vault : Queue(drain, vaultSem[u].waiters, "vaultWait", KeysOf(u))

-----------------------------------------------------------------------------
(* The chain of one key.                                                   *)

\* A drain exists once its submission does, and begins after every earlier one is done.
Ordered(k) ==
  /\ \A n \in Ticket : drain[k][n].phase = "none" <=> n > submits[k]
  /\ \A n \in Ticket : n <= submits[k] =>
       \/ drain[k][n].after = n - 1
       \/ drain[k][n].after = 0 /\ \A m \in Ticket : m < n => drain[k][m].phase = "done"
  /\ \A m, n \in Ticket : m < n /\ drain[k][n].phase \in Begun => drain[k][m].phase = "done"

\* A pending submission is the last one, and its drain has not begun.
Pending(k) ==
  /\ chain[k] \in {0, submits[k]}
  /\ latest[k] # 0 => latest[k] = submits[k] /\ drain[k][submits[k]].phase = "chained"
  /\ chain[k] = 0 => \A n \in Ticket : drain[k][n].phase \in {"none", "done"}

\* The index is older than what is claimed, and that is older than what is pending.
Newer(k) ==
  /\ index[k] <= submits[k]
  /\ latest[k] # 0 => index[k] < latest[k]
  /\ \A n \in Ticket : drain[k][n].phase \in Working =>
       /\ drain[k][n].op \in Ticket
       /\ index[k] < drain[k][n].op /\ drain[k][n].op <= submits[k]
       /\ latest[k] # 0 => drain[k][n].op < latest[k]

\* The last submission is pending, claimed by a drain at work, or at its end.
Followed(k) ==
  submits[k] # 0 =>
    /\ fate[k][submits[k]] \in {"pending", "claimed"} \cup Final
    /\ fate[k][submits[k]] = "pending" => latest[k] = submits[k]
    /\ fate[k][submits[k]] = "claimed" =>
         \E n \in Ticket : drain[k][n].phase \in Working /\ drain[k][n].op = submits[k]

Life(k) == Ordered(k) /\ Pending(k) /\ Newer(k) /\ Followed(k)

IInv == TypeOK /\ Queues /\ \A k \in Key : Life(k)

-----------------------------------------------------------------------------
(* Facts about semaphores and their queues.                                *)

\* acquire and release keep the types.
LEMMA SemTyped ==
  ASSUME NEW s \in Sem, NEW d \in Key \X Ticket
  PROVE  Acquire(s, d) \in Sem /\ Release(s) \in Sem
<1>1. s.permits > 0 => s.permits - 1 \in Nat
  BY DEF Sem
<1>2. Append(s.waiters, d) \in Seq(Key \X Ticket)
  BY DEF Sem
<1>3. s.waiters # <<>> => Tail(s.waiters) \in Seq(Key \X Ticket)
  BY DEF Sem
<1>4. \A p \in Nat : [s EXCEPT !.permits = p] \in Sem
  BY DEF Sem
<1>5. \A q \in Seq(Key \X Ticket) : [s EXCEPT !.waiters = q] \in Sem
  BY DEF Sem
<1>6. Acquire(s, d) \in Sem
  BY <1>1, <1>2, <1>4, <1>5 DEF Acquire
<1>7. s.permits + 1 \in Nat
  BY DEF Sem
<1>8. Release(s) \in Sem
  BY <1>3, <1>4, <1>5, <1>7 DEF Release
<1>. QED
  BY <1>6, <1>8

\* A step that leaves the waiting drains alone keeps their queue.
LEMMA QueueKept ==
  ASSUME NEW D, NEW E, NEW q \in Seq(Key \X Ticket), NEW ph, NEW S, Queue(D, q, ph, S),
         \A d \in Key \X Ticket : d[1] \in S /\ D[d[1]][d[2]].phase = ph => E[d[1]][d[2]].phase = ph
  PROVE  Queue(E, q, ph, S)
BY DEF Queue

\* One that moves the head waiter on keeps the rest of the queue.
LEMMA QueueTail ==
  ASSUME NEW D, NEW E, NEW q \in Seq(Key \X Ticket), NEW ph, NEW S, Queue(D, q, ph, S), q # <<>>,
         \A d \in Key \X Ticket : d # Head(q) /\ d[1] \in S /\ D[d[1]][d[2]].phase = ph => E[d[1]][d[2]].phase = ph
  PROVE  Queue(E, Tail(q), ph, S)
<1>1. Len(Tail(q)) = Len(q) - 1 /\ Len(q) \in Nat \ {0}
  OBVIOUS
<1>2. \A i \in 1 .. Len(Tail(q)) : Tail(q)[i] = q[i + 1] /\ i + 1 \in 1 .. Len(q) /\ q[i + 1] \in Key \X Ticket
  BY <1>1
<1>3. Head(q) = q[1] /\ 1 \in 1 .. Len(q)
  BY <1>1
<1>4. \A i \in 1 .. Len(Tail(q)) : q[i + 1] # Head(q)
  BY <1>1, <1>2, <1>3 DEF Queue
<1>5. \A i \in 1 .. Len(q) : q[i][1] \in S /\ D[q[i][1]][q[i][2]].phase = ph
  BY DEF Queue
<1>6. ASSUME NEW i \in 1 .. Len(Tail(q))
      PROVE  Tail(q)[i][1] \in S /\ E[Tail(q)[i][1]][Tail(q)[i][2]].phase = ph
  <2>1. /\ Tail(q)[i] = q[i + 1] /\ q[i + 1] \in Key \X Ticket /\ q[i + 1] # Head(q)
        /\ q[i + 1][1] \in S /\ D[q[i + 1][1]][q[i + 1][2]].phase = ph
    BY <1>2, <1>4, <1>5
  <2>. QED
    BY <2>1
<1>7. \A i, j \in 1 .. Len(Tail(q)) : Tail(q)[i] = Tail(q)[j] => i = j
  BY <1>1, <1>2 DEF Queue
<1>. QED
  BY <1>6, <1>7 DEF Queue

\* One that starts to wait joins the queue.
LEMMA QueueAppend ==
  ASSUME NEW D, NEW E, NEW q \in Seq(Key \X Ticket), NEW ph, NEW S, Queue(D, q, ph, S),
         NEW k \in Key \cap S, NEW n \in Ticket, D[k][n].phase # ph, E[k][n].phase = ph,
         \A d \in Key \X Ticket : d[1] \in S /\ D[d[1]][d[2]].phase = ph => E[d[1]][d[2]].phase = ph
  PROVE  Queue(E, Append(q, <<k, n>>), ph, S)
<1>. DEFINE r == Append(q, <<k, n>>)
<1>1. /\ Len(r) = Len(q) + 1 /\ Len(q) \in Nat
      /\ r[Len(q) + 1] = <<k, n>>
      /\ \A i \in 1 .. Len(q) : r[i] = q[i] /\ q[i] \in Key \X Ticket
  OBVIOUS
<1>2. \A i \in 1 .. Len(q) : q[i] # <<k, n>>
  BY DEF Queue
<1>3. \A i \in 1 .. Len(r) : i \in 1 .. Len(q) \/ i = Len(q) + 1
  BY <1>1
<1>4. \A i \in 1 .. Len(r) : r[i][1] \in S /\ E[r[i][1]][r[i][2]].phase = ph
  BY <1>1, <1>3 DEF Queue
<1>5. \A i, j \in 1 .. Len(r) : r[i] = r[j] => i = j
  BY <1>1, <1>2, <1>3 DEF Queue
<1>. HIDE DEF r
<1>6. Queue(E, r, ph, S)
  BY <1>4, <1>5 DEF Queue
<1>. QED
  BY <1>6 DEF r

-----------------------------------------------------------------------------
(* What the actions do to the drains.                                      *)

LEMMA Counted ==
  ASSUME TypeOK, NEW k \in Key
  PROVE  /\ submits[k] \in Number /\ submits[k] \in Nat /\ latest[k] \in Nat /\ chain[k] \in Nat /\ index[k] \in Nat
         /\ \A n \in Ticket : /\ n \in Nat /\ n # 0
                             /\ drain[k][n] \in Drain /\ drain[k][n].op \in Nat /\ drain[k][n].after \in Nat
         /\ submits[k] # 0 => submits[k] \in Ticket
<1>1. Number \subseteq Nat /\ Ticket \subseteq Nat \ {0} /\ \A n \in Number : n # 0 => n \in Ticket
  BY CoordinatorAssumption DEF Number, Ticket
<1>2. \A n \in Ticket : drain[k][n] \in Drain
  BY DEF TypeOK
<1>3. \A n \in Ticket : drain[k][n].op \in Number /\ drain[k][n].after \in Number
  BY <1>2 DEF Drain
<1>4. submits[k] \in Number /\ latest[k] \in Number /\ chain[k] \in Number /\ index[k] \in Number
  BY DEF TypeOK
<1>. QED
  BY <1>1, <1>2, <1>3, <1>4

\* Only drain n of key k changes, to r.
Sets(k, n, r) ==
  /\ drain' \in [Key -> [Ticket -> Drain]]
  /\ drain'[k][n] = r
  /\ \A d \in Key \X Ticket : d # <<k, n>> => drain'[d[1]][d[2]] = drain[d[1]][d[2]]

LEMMA SetDrain ==
  ASSUME TypeOK, NEW k \in Key, NEW n \in Ticket, NEW r \in Drain, drain' = [drain EXCEPT ![k][n] = r]
  PROVE  Sets(k, n, r)
<1>1. drain \in [Key -> [Ticket -> Drain]]
  BY DEF TypeOK
<1>2. drain' \in [Key -> [Ticket -> Drain]]
  BY <1>1
<1>3. drain'[k][n] = r
  BY <1>1
<1>4. \A d \in Key \X Ticket : d # <<k, n>> => drain'[d[1]][d[2]] = drain[d[1]][d[2]]
  BY <1>1
<1>. QED
  BY <1>2, <1>3, <1>4 DEF Sets

LEMMA SetPhase ==
  ASSUME TypeOK, NEW k \in Key, NEW n \in Ticket, NEW ph \in Phase,
         drain' = [drain EXCEPT ![k][n].phase = ph]
  PROVE  Sets(k, n, [drain[k][n] EXCEPT !.phase = ph])
<1>1. drain[k][n] \in Drain
  BY DEF TypeOK
<1>2. [drain[k][n] EXCEPT !.phase = ph] \in Drain
  BY <1>1 DEF Drain
<1>3. drain' = [drain EXCEPT ![k][n] = [drain[k][n] EXCEPT !.phase = ph]]
  OBVIOUS
<1>. QED
  BY <1>2, <1>3, SetDrain

LEMMA SubmitSets ==
  ASSUME TypeOK, NEW k \in Key, NEW o, Submit(k, o)
  PROVE  /\ submits[k] + 1 \in Ticket
         /\ Sets(k, submits[k] + 1, [phase |-> "chained", after |-> chain[k], op |-> 0])
<1>0. /\ submits[k] \in Nat /\ Burst[k] \in 0 .. MaxSubmits /\ MaxSubmits \in Nat
      /\ submits[k] + 1 <= Burst[k]
  <2>1. MaxSubmits \in Nat /\ Burst[k] \in 0 .. MaxSubmits
    BY CoordinatorAssumption
  <2>2. submits[k] \in 0 .. MaxSubmits
    BY DEF TypeOK, Number
  <2>3. submits[k] + 1 <= Burst[k]
    BY DEF Submit
  <2>. QED
    BY <2>1, <2>2, <2>3
<1>1. submits[k] + 1 \in Ticket
  BY <1>0 DEF Ticket
<1>2. [phase |-> "chained", after |-> chain[k], op |-> 0] \in Drain
  BY CoordinatorAssumption DEF TypeOK, Drain, Phase, Number
<1>. QED
  BY <1>1, <1>2, SetDrain DEF Submit

LEMMA ClaimSets ==
  ASSUME TypeOK, NEW k \in Key, NEW n \in Ticket, DrainClaim(k, n)
  PROVE  \E r \in Drain :
           /\ Sets(k, n, r)
           /\ r.op = latest[k] /\ r.after = drain[k][n].after
           /\ r.phase = IF vaultSem[VaultOf[k]].permits > 0 THEN "vaultHeld" ELSE "vaultWait"
<1>. DEFINE ph == IF vaultSem[VaultOf[k]].permits > 0 THEN "vaultHeld" ELSE "vaultWait"
            x == [drain[k][n] EXCEPT !.op = latest[k]]
            r == [x EXCEPT !.phase = ph]
<1>1. drain[k][n] \in Drain
  BY DEF TypeOK
<1>2. x \in Drain /\ x.op = latest[k] /\ x.after = drain[k][n].after
  BY <1>1 DEF Drain, TypeOK
<1>3. ASSUME NEW y \in Drain, NEW p \in Phase
      PROVE  LET z == [y EXCEPT !.phase = p] IN z \in Drain /\ z.op = y.op /\ z.after = y.after /\ z.phase = p
  BY DEF Drain
<1>4. ph \in Phase
  BY DEF Phase
<1>5. r \in Drain /\ r.op = latest[k] /\ r.after = drain[k][n].after /\ r.phase = ph
  <2>. HIDE DEF x, ph
  <2>. QED
    BY <1>2, <1>3, <1>4
<1>6. drain' = [drain EXCEPT ![k][n] = r]
  BY DEF DrainClaim, TypeOK
<1>7. Sets(k, n, r)
  <2>. HIDE DEF r
  <2>. QED
    BY <1>5, <1>6, SetDrain
<1>. QED
  BY <1>5, <1>7

\* What a drain that leaves does to the others: it moves on the head waiters.
LEMMA LeaveMoves ==
  ASSUME TypeOK, Queues, NEW k \in Key, NEW n \in Ticket, Leave(k, n), drain[k][n].phase = "running"
  PROVE  /\ drain' \in [Key -> [Ticket -> Drain]]
         /\ drain'[k][n] = [drain[k][n] EXCEPT !.phase = "settled"]
         /\ \A d \in Key \X Ticket : d # <<k, n>> =>
              \/ drain'[d[1]][d[2]] = drain[d[1]][d[2]]
              \/ /\ Grants(globalSem, d) /\ drain[d[1]][d[2]].phase = "globalWait"
                 /\ drain'[d[1]][d[2]] = [drain[d[1]][d[2]] EXCEPT !.phase = "running"]
              \/ /\ Grants(vaultSem[VaultOf[k]], d) /\ drain[d[1]][d[2]].phase = "vaultWait"
                 /\ drain'[d[1]][d[2]] = [drain[d[1]][d[2]] EXCEPT !.phase = "vaultHeld"]
<1>. DEFINE V == vaultSem[VaultOf[k]]
            Moves(d) == [drain[d[1]][d[2]] EXCEPT !.phase =
                           CASE d[1] = k /\ d[2] = n -> "settled"
                             [] Grants(globalSem, <<d[1], d[2]>>) -> "running"
                             [] Grants(V, <<d[1], d[2]>>) -> "vaultHeld"
                             [] OTHER -> @]
<1>1. drain \in [Key -> [Ticket -> Drain]] /\ \A d \in Key \X Ticket : drain[d[1]][d[2]] \in Drain
  BY DEF TypeOK
<1>2. \A j \in Key, m \in Ticket : drain'[j][m] = Moves(<<j, m>>)
  BY DEF Leave
<1>3. drain' = [j \in Key |-> [m \in Ticket |-> Moves(<<j, m>>)]]
  BY DEF Leave
<1>4. \A d \in Key \X Ticket : Moves(d) \in Drain
  <2>. TAKE d \in Key \X Ticket
  <2>1. \A ph \in Phase : [drain[d[1]][d[2]] EXCEPT !.phase = ph] \in Drain
    BY <1>1 DEF Drain
  <2>2. drain[d[1]][d[2]].phase \in Phase
    BY <1>1 DEF Drain
  <2>3. {"settled", "running", "vaultHeld"} \subseteq Phase
    BY DEF Phase
  <2>. QED
    BY <2>1, <2>2, <2>3
<1>5. drain' \in [Key -> [Ticket -> Drain]]
  BY <1>3, <1>4
<1>7. V \in Sem /\ globalSem \in Sem
  BY CoordinatorAssumption DEF TypeOK
<1>8. ASSUME NEW q \in Seq(Key \X Ticket), NEW ph, NEW S, Queue(drain, q, ph, S), q # <<>>
      PROVE  drain[Head(q)[1]][Head(q)[2]].phase = ph
  BY <1>8 DEF Queue
<1>9. \A d \in Key \X Ticket : Grants(globalSem, d) => drain[d[1]][d[2]].phase = "globalWait"
  BY <1>7, <1>8 DEF Queues, Grants, Sem
<1>10. \A d \in Key \X Ticket : Grants(V, d) => drain[d[1]][d[2]].phase = "vaultWait"
  BY <1>7, <1>8, CoordinatorAssumption DEF Queues, Grants, Sem
<1>6. drain'[k][n] = [drain[k][n] EXCEPT !.phase = "settled"]
  <2>1. ~Grants(globalSem, <<k, n>>) /\ ~Grants(V, <<k, n>>)
    BY <1>9, <1>10
  <2>2. ASSUME NEW d \in Key \X Ticket, d[1] = k, d[2] = n, d = <<k, n>>
        PROVE  Moves(d) = [drain[k][n] EXCEPT !.phase = "settled"]
    BY <2>1, <2>2
  <2>3. drain'[k][n] = Moves(<<k, n>>) /\ <<k, n>> \in Key \X Ticket /\ <<k, n>>[1] = k /\ <<k, n>>[2] = n
    <3>. HIDE DEF Moves
    <3>. QED
      BY <1>2
  <2>. HIDE DEF Moves
  <2>. QED
    BY <2>2, <2>3
<1>11. ASSUME NEW d \in Key \X Ticket, d # <<k, n>>
       PROVE  \/ drain'[d[1]][d[2]] = drain[d[1]][d[2]]
              \/ /\ Grants(globalSem, d)
                 /\ drain'[d[1]][d[2]] = [drain[d[1]][d[2]] EXCEPT !.phase = "running"]
              \/ /\ Grants(V, d)
                 /\ drain'[d[1]][d[2]] = [drain[d[1]][d[2]] EXCEPT !.phase = "vaultHeld"]
  <2>1. d = <<d[1], d[2]>> /\ ~(d[1] = k /\ d[2] = n)
    BY <1>11
  <2>2. drain'[d[1]][d[2]] = Moves(d)
    BY <1>2
  <2>3. drain[d[1]][d[2]] = [drain[d[1]][d[2]] EXCEPT !.phase = drain[d[1]][d[2]].phase]
    BY <1>1 DEF Drain
  <2>. QED
    BY <2>1, <2>2, <2>3
<1>. QED
  BY <1>5, <1>6, <1>9, <1>10, <1>11

-----------------------------------------------------------------------------
(* Types.                                                                  *)

LEMMA InitTyped == Init => TypeOK
<1>. SUFFICES ASSUME Init PROVE TypeOK
  OBVIOUS
<1>1. 0 \in Number /\ "none" \in Origin /\ "none" \in Phase /\ "none" \in Fate
  BY CoordinatorAssumption DEF Number, Origin, Phase, Fate
<1>2. [phase |-> "none", after |-> 0, op |-> 0] \in Drain
  BY <1>1 DEF Drain
<1>3. ASSUME NEW p \in Nat PROVE [permits |-> p, waiters |-> <<>>] \in Sem
  BY DEF Sem
<1>4. PerVaultConcurrency \in Nat /\ GlobalConcurrency \in Nat /\ 0 \in 0 .. MaxDemotions
  BY CoordinatorAssumption
<1>5. globalSem \in Sem /\ vaultSem \in [Vault -> Sem]
  BY <1>3, <1>4 DEF Init
<1>6. drain \in [Key -> [Ticket -> Drain]]
  BY <1>2 DEF Init
<1>. QED
  BY <1>1, <1>4, <1>5, <1>6 DEF Init, TypeOK

LEMMA SubmitTyped ==
  ASSUME TypeOK, NEW k \in Key, NEW o \in Origin, Submit(k, o)
  PROVE  TypeOK'
<1>1. submits[k] + 1 \in Ticket /\ drain' \in [Key -> [Ticket -> Drain]]
  BY SubmitSets DEF Sets
<1>2. submits[k] + 1 \in Number
  BY <1>1 DEF Ticket, Number
<1>3. fate' \in [Key -> [Ticket -> Fate]]
  <2>1. {"pending", "superseded"} \subseteq Fate
    BY DEF Fate
  <2>2. \A m \in Ticket : fate[k][m] \in Fate
    BY DEF TypeOK
  <2>3. [m \in Ticket |-> CASE m = submits[k] + 1 -> "pending" [] m = latest[k] -> "superseded"
                            [] OTHER -> fate[k][m]] \in [Ticket -> Fate]
    BY <2>1, <2>2
  <2>. QED
    BY <2>3 DEF Submit, TypeOK
<1>4. overQueueMax' \in BOOLEAN
  BY DEF Submit, Over
<1>5. /\ submits' \in [Key -> Number] /\ latest' \in [Key -> Number] /\ chain' \in [Key -> Number]
      /\ latestOrigin' \in [Key -> Origin]
  BY <1>2 DEF Submit, TypeOK
<1>6. UNCHANGED <<vaultSem, globalSem, index, leader, demotions>>
  BY DEF Submit
<1>. QED
  BY <1>1, <1>3, <1>4, <1>5, <1>6 DEF TypeOK

LEMMA ClaimTyped ==
  ASSUME TypeOK, NEW k \in Key, NEW n \in Ticket, DrainClaim(k, n)
  PROVE  TypeOK'
<1>1. drain' \in [Key -> [Ticket -> Drain]]
  BY ClaimSets DEF Sets
<1>2. vaultSem' \in [Vault -> Sem]
  <2>1. VaultOf[k] \in Vault /\ <<k, n>> \in Key \X Ticket
    BY CoordinatorAssumption
  <2>2. Acquire(vaultSem[VaultOf[k]], <<k, n>>) \in Sem
    BY <2>1, SemTyped DEF TypeOK
  <2>. QED
    BY <2>1, <2>2 DEF DrainClaim, TypeOK
<1>3. fate' \in [Key -> [Ticket -> Fate]]
  BY DEF DrainClaim, TypeOK, Fate
<1>4. latest' \in [Key -> Number] /\ latestOrigin' \in [Key -> Origin]
  BY CoordinatorAssumption DEF DrainClaim, TypeOK, Number, Origin
<1>. QED
  BY <1>1, <1>2, <1>3, <1>4 DEF DrainClaim, TypeOK

LEMMA HandledTyped ==
  ASSUME TypeOK, Queues, NEW k \in Key, NEW n \in Ticket, Handled(k, n)
  PROVE  TypeOK'
<1>1. drain' \in [Key -> [Ticket -> Drain]]
  BY LeaveMoves DEF Handled
<1>2. vaultSem' \in [Vault -> Sem] /\ globalSem' \in Sem
  <2>1. VaultOf[k] \in Vault /\ <<k, n>> \in Key \X Ticket
    BY CoordinatorAssumption
  <2>2. Release(vaultSem[VaultOf[k]]) \in Sem /\ Release(globalSem) \in Sem
    BY <2>1, SemTyped DEF TypeOK
  <2>. QED
    BY <2>1, <2>2 DEF Handled, Leave, TypeOK
<1>3. drain[k][n].op \in Number
  BY DEF TypeOK, Drain
<1>4. PICK end \in {"applied", "thrown"}, committed \in BOOLEAN :
        /\ index' = IF committed THEN [index EXCEPT ![k] = drain[k][n].op] ELSE index
        /\ fate' = [fate EXCEPT ![k][drain[k][n].op] = end]
  BY DEF Handled
<1>5. fate' \in [Key -> [Ticket -> Fate]]
  <2>1. end \in Fate
    BY DEF Fate
  <2>. QED
    BY <1>4, <2>1 DEF TypeOK
<1>6. index' \in [Key -> Number]
  BY <1>3, <1>4 DEF TypeOK
<1>. QED
  BY <1>1, <1>2, <1>5, <1>6 DEF Handled, TypeOK

LEMMA NextTyped ==
  ASSUME TypeOK, Queues, [Next]_vars
  PROVE  TypeOK'
<1>1. ASSUME NEW k \in Key, SubmitTool(k) PROVE TypeOK'
  BY <1>1, SubmitTyped DEF SubmitTool, Origin
<1>2. ASSUME NEW k \in Key, SubmitWatcher(k) PROVE TypeOK'
  BY <1>2, SubmitTyped DEF SubmitWatcher, Origin
<1>3. ASSUME NEW k \in Key, NEW n \in Ticket, DrainNothing(k, n) PROVE TypeOK'
  BY <1>3, SetPhase DEF DrainNothing, TypeOK, Sets, Phase
<1>4. ASSUME NEW k \in Key, NEW n \in Ticket, DrainGlobal(k, n) PROVE TypeOK'
  <2>1. drain' \in [Key -> [Ticket -> Drain]]
    BY <1>4, SetPhase DEF DrainGlobal, Sets, Phase
  <2>2. globalSem' \in Sem
    BY <1>4, SemTyped DEF DrainGlobal, TypeOK
  <2>. QED
    BY <1>4, <2>1, <2>2 DEF DrainGlobal, TypeOK
<1>5. ASSUME NEW k \in Key, NEW n \in Ticket, Cleanup(k, n) PROVE TypeOK'
  <2>1. drain' \in [Key -> [Ticket -> Drain]]
    BY <1>5, SetPhase DEF Cleanup, Sets, Phase
  <2>2. chain' \in [Key -> Number]
    BY <1>5, CoordinatorAssumption DEF Cleanup, TypeOK, Number
  <2>. QED
    BY <1>5, <2>1, <2>2 DEF Cleanup, TypeOK
<1>6. CASE Demote
  <2>1. /\ latest' \in [Key -> Number] /\ latestOrigin' \in [Key -> Origin]
        /\ fate' \in [Key -> [Ticket -> Fate]]
    BY <1>6, CoordinatorAssumption DEF Demote, TypeOK, Number, Origin, Fate
  <2>2. demotions' \in 0 .. MaxDemotions
    BY <1>6, CoordinatorAssumption DEF Demote, TypeOK
  <2>. QED
    BY <1>6, <2>1, <2>2 DEF Demote, TypeOK
<1>7. CASE Promote
  BY <1>7 DEF Promote, TypeOK, work
<1>8. CASE UNCHANGED vars
  BY <1>8 DEF vars, work, TypeOK
<1>. QED
  BY <1>1, <1>2, <1>3, <1>4, <1>5, <1>6, <1>7, <1>8, ClaimTyped, HandledTyped DEF Next, Step

-----------------------------------------------------------------------------
(* The queues hold the waiting drains.                                     *)

\* A step that moves no waiting drain and no queue.
LEMMA QueuesKept ==
  ASSUME TypeOK, Queues, UNCHANGED <<globalSem, vaultSem>>,
         \A d \in Key \X Ticket : drain[d[1]][d[2]].phase \in {"globalWait", "vaultWait"} =>
            drain'[d[1]][d[2]].phase = drain[d[1]][d[2]].phase
  PROVE  Queues'
<1>1. globalSem.waiters \in Seq(Key \X Ticket) /\ \A u \in Vault : vaultSem[u].waiters \in Seq(Key \X Ticket)
  BY DEF TypeOK, Sem
<1>2. \A ph \in {"globalWait", "vaultWait"} : \A d \in Key \X Ticket :
        drain[d[1]][d[2]].phase = ph => drain'[d[1]][d[2]].phase = ph
  OBVIOUS
<1>3. Queue(drain', globalSem.waiters, "globalWait", Key)
  BY <1>1, <1>2, QueueKept DEF Queues
<1>4. \A u \in Vault : Queue(drain', vaultSem[u].waiters, "vaultWait", KeysOf(u))
  BY <1>1, <1>2, QueueKept DEF Queues
<1>. QED
  BY <1>3, <1>4 DEF Queues

LEMMA SetsQueues ==
  ASSUME TypeOK, Queues, UNCHANGED <<globalSem, vaultSem>>, NEW k \in Key, NEW n \in Ticket, NEW r,
         Sets(k, n, r), drain[k][n].phase \notin {"globalWait", "vaultWait"}
  PROVE  Queues'
BY QueuesKept DEF Sets

LEMMA ClaimQueues ==
  ASSUME TypeOK, Queues, NEW k \in Key, NEW n \in Ticket, DrainClaim(k, n)
  PROVE  Queues'
<1>. DEFINE V == VaultOf[k]
            s == vaultSem[V]
<1>1. PICK r \in Drain :
        /\ Sets(k, n, r)
        /\ r.phase = IF s.permits > 0 THEN "vaultHeld" ELSE "vaultWait"
  BY ClaimSets
<1>2. drain[k][n].phase = "chained" /\ V \in Vault /\ UNCHANGED globalSem
  BY CoordinatorAssumption DEF DrainClaim, Turn
<1>3. globalSem.waiters \in Seq(Key \X Ticket) /\ \A u \in Vault : vaultSem[u].waiters \in Seq(Key \X Ticket)
  BY DEF TypeOK, Sem
<1>4. \A ph \in {"globalWait", "vaultWait"} : \A d \in Key \X Ticket :
        drain[d[1]][d[2]].phase = ph => drain'[d[1]][d[2]].phase = ph
  BY <1>1, <1>2 DEF Sets
<1>5. Queue(drain', globalSem'.waiters, "globalWait", Key)
  BY <1>2, <1>3, <1>4, QueueKept DEF Queues
<1>6. \A u \in Vault : u # V => vaultSem'[u] = vaultSem[u]
  BY DEF DrainClaim, TypeOK
<1>7. vaultSem'[V] = Acquire(s, <<k, n>>)
  BY <1>2 DEF DrainClaim, TypeOK
<1>8. Queue(drain', vaultSem'[V].waiters, "vaultWait", KeysOf(V))
  <2>1. Queue(drain, s.waiters, "vaultWait", KeysOf(V)) /\ s \in Sem
    BY <1>2 DEF Queues, TypeOK
  <2>2. CASE s.permits > 0
    <3>1. vaultSem'[V].waiters = s.waiters
      BY <1>7, <2>1, <2>2 DEF Acquire, Sem
    <3>. QED
      BY <1>2, <1>3, <1>4, <2>1, <3>1, QueueKept
  <2>3. CASE ~(s.permits > 0)
    <3>1. vaultSem'[V].waiters = Append(s.waiters, <<k, n>>)
      BY <1>7, <2>1, <2>3 DEF Acquire, Sem
    <3>2. drain'[k][n].phase = "vaultWait"
      BY <1>1, <2>3 DEF Sets
    <3>3. k \in Key \cap KeysOf(V) /\ drain[k][n].phase # "vaultWait" /\ s.waiters \in Seq(Key \X Ticket)
      BY <1>2, <1>3 DEF KeysOf
    <3>4. Queue(drain', Append(s.waiters, <<k, n>>), "vaultWait", KeysOf(V))
      BY <1>4, <2>1, <3>2, <3>3, QueueAppend
    <3>. QED
      BY <3>1, <3>4
  <2>. QED
    BY <2>2, <2>3
<1>9. \A u \in Vault : Queue(drain', vaultSem'[u].waiters, "vaultWait", KeysOf(u))
  BY <1>3, <1>4, <1>6, <1>8, QueueKept DEF Queues
<1>. QED
  BY <1>5, <1>9 DEF Queues

LEMMA GlobalQueues ==
  ASSUME TypeOK, Queues, NEW k \in Key, NEW n \in Ticket, DrainGlobal(k, n)
  PROVE  Queues'
<1>. DEFINE s == globalSem
            ph == IF s.permits > 0 THEN "running" ELSE "globalWait"
<1>1. Sets(k, n, [drain[k][n] EXCEPT !.phase = ph])
  BY SetPhase DEF DrainGlobal, Phase
<1>2. drain[k][n].phase = "vaultHeld" /\ UNCHANGED vaultSem /\ globalSem' = Acquire(s, <<k, n>>)
  BY DEF DrainGlobal
<1>3. s.waiters \in Seq(Key \X Ticket) /\ \A u \in Vault : vaultSem[u].waiters \in Seq(Key \X Ticket)
  BY DEF TypeOK, Sem
<1>4. \A f \in {"globalWait", "vaultWait"} : \A d \in Key \X Ticket :
        drain[d[1]][d[2]].phase = f => drain'[d[1]][d[2]].phase = f
  BY <1>1, <1>2 DEF Sets
<1>5. \A u \in Vault : Queue(drain', vaultSem'[u].waiters, "vaultWait", KeysOf(u))
  BY <1>2, <1>3, <1>4, QueueKept DEF Queues
<1>6. Queue(drain, s.waiters, "globalWait", Key) /\ s \in Sem /\ drain[k][n] \in Drain
  BY DEF Queues, TypeOK
<1>7. CASE s.permits > 0
  <2>1. globalSem'.waiters = s.waiters
    BY <1>2, <1>6, <1>7 DEF Acquire, Sem
  <2>2. Queue(drain', globalSem'.waiters, "globalWait", Key)
    BY <1>3, <1>4, <1>6, <2>1, QueueKept
  <2>. QED
    BY <1>5, <2>2 DEF Queues
<1>8. CASE ~(s.permits > 0)
  <2>1. globalSem'.waiters = Append(s.waiters, <<k, n>>)
    BY <1>2, <1>6, <1>8 DEF Acquire, Sem
  <2>2. drain'[k][n].phase = "globalWait"
    BY <1>1, <1>6, <1>8 DEF Sets, Drain
  <2>3. k \in Key \cap Key /\ drain[k][n].phase # "globalWait"
    BY <1>2
  <2>4. Queue(drain', Append(s.waiters, <<k, n>>), "globalWait", Key)
    BY <1>3, <1>4, <1>6, <2>2, <2>3, QueueAppend
  <2>. QED
    BY <1>5, <2>1, <2>4 DEF Queues
<1>. QED
  BY <1>7, <1>8

LEMMA HandledQueues ==
  ASSUME TypeOK, Queues, NEW k \in Key, NEW n \in Ticket, Handled(k, n)
  PROVE  Queues'
<1>. DEFINE V == VaultOf[k]
<1>1. drain[k][n].phase = "running" /\ Leave(k, n) /\ V \in Vault
  BY CoordinatorAssumption DEF Handled
<1>2. /\ \A u \in Vault : vaultSem[u] \in Sem /\ vaultSem[u].waiters \in Seq(Key \X Ticket)
      /\ globalSem \in Sem /\ globalSem.waiters \in Seq(Key \X Ticket)
  BY DEF TypeOK, Sem
<1>3. ASSUME NEW s \in Sem, NEW ph, NEW S, Queue(drain, s.waiters, ph, S),
             \A d \in Key \X Ticket : ~Grants(s, d) /\ drain[d[1]][d[2]].phase = ph
                                        => drain'[d[1]][d[2]].phase = ph
      PROVE  Queue(drain', Release(s).waiters, ph, S)
  <2>1. s.waiters \in Seq(Key \X Ticket)
    BY DEF Sem
  <2>2. CASE s.waiters = <<>>
    <3>1. Release(s).waiters = s.waiters
      BY <2>2 DEF Release, Sem
    <3>. QED
      BY <1>3, <2>1, <2>2, <3>1, QueueKept DEF Grants
  <2>3. CASE s.waiters # <<>>
    <3>1. Release(s).waiters = Tail(s.waiters)
      BY <2>3 DEF Release, Sem
    <3>. QED
      BY <1>3, <2>1, <2>3, <3>1, QueueTail DEF Grants
  <2>. QED
    BY <2>2, <2>3
<1>4. \A d \in Key \X Ticket : ~Grants(globalSem, d) /\ drain[d[1]][d[2]].phase = "globalWait"
                                => drain'[d[1]][d[2]].phase = "globalWait"
  <2>. TAKE d \in Key \X Ticket
  <2>1. d = <<k, n>> => drain[d[1]][d[2]].phase = "running"
    BY <1>1
  <2>2. \A ph : [drain[d[1]][d[2]] EXCEPT !.phase = ph].phase = ph
    BY DEF TypeOK, Drain
  <2>. QED
    BY <1>1, <2>1, <2>2, LeaveMoves
<1>5. \A d \in Key \X Ticket : ~Grants(vaultSem[V], d) /\ drain[d[1]][d[2]].phase = "vaultWait"
                                => drain'[d[1]][d[2]].phase = "vaultWait"
  <2>. TAKE d \in Key \X Ticket
  <2>1. d = <<k, n>> => drain[d[1]][d[2]].phase = "running"
    BY <1>1
  <2>2. \A ph : [drain[d[1]][d[2]] EXCEPT !.phase = ph].phase = ph
    BY DEF TypeOK, Drain
  <2>. QED
    BY <1>1, <2>1, <2>2, LeaveMoves
<1>6. globalSem' = Release(globalSem) /\ vaultSem' = [vaultSem EXCEPT ![V] = Release(vaultSem[V])]
  BY <1>1 DEF Leave
<1>7. Queue(drain', globalSem'.waiters, "globalWait", Key)
  BY <1>2, <1>3, <1>4, <1>6 DEF Queues
<1>8. Queue(drain', vaultSem'[V].waiters, "vaultWait", KeysOf(V))
  BY <1>1, <1>2, <1>3, <1>5, <1>6 DEF Queues, TypeOK
<1>9. ASSUME NEW u \in Vault, u # V PROVE Queue(drain', vaultSem'[u].waiters, "vaultWait", KeysOf(u))
  <2>1. vaultSem'[u] = vaultSem[u]
    BY <1>6, <1>9 DEF TypeOK
  <2>2. Queue(drain, vaultSem[V].waiters, "vaultWait", KeysOf(V))
    BY <1>1 DEF Queues
  <2>3. \A d \in Key \X Ticket : Grants(vaultSem[V], d) => VaultOf[d[1]] = V
    <3>1. vaultSem[V].waiters # <<>> =>
            1 \in 1 .. Len(vaultSem[V].waiters) /\ Head(vaultSem[V].waiters) = vaultSem[V].waiters[1]
      BY <1>1, <1>2 DEF TypeOK, Sem
    <3> QED
      BY <2>2, <3>1 DEF Queue, KeysOf, Grants
  <2>4. \A d \in Key \X Ticket : d[1] \in KeysOf(u) /\ drain[d[1]][d[2]].phase = "vaultWait"
                                  => drain'[d[1]][d[2]].phase = "vaultWait"
    BY <1>5, <1>9, <2>3 DEF KeysOf
  <2>. QED
    BY <1>2, <2>1, <2>4, QueueKept DEF Queues
<1>. QED
  BY <1>7, <1>8, <1>9 DEF Queues

LEMMA NextQueues ==
  ASSUME TypeOK, Queues, \A k \in Key : Ordered(k), [Next]_vars
  PROVE  Queues'
<1>1. ASSUME NEW k \in Key, NEW o, Submit(k, o) PROVE Queues'
  <2>1. submits[k] + 1 \in Ticket /\ submits[k] \in Nat
    BY <1>1, SubmitSets, Counted
  <2>2. drain[k][submits[k] + 1].phase = "none"
    BY <2>1 DEF Ordered
  <2>. QED
    BY <1>1, <2>1, <2>2, SubmitSets, SetsQueues DEF Submit
<1>2. ASSUME NEW k \in Key, NEW n \in Ticket, DrainNothing(k, n) PROVE Queues'
  BY <1>2, SetPhase, SetsQueues, ZenonT(60) DEF DrainNothing, Turn, Phase
<1>3. ASSUME NEW k \in Key, NEW n \in Ticket, Cleanup(k, n) PROVE Queues'
  BY <1>3, SetPhase, SetsQueues, ZenonT(60) DEF Cleanup, Phase
<1>4. CASE Demote
  BY <1>4 DEF Demote, Queues
<1>5. CASE Promote
  BY <1>5 DEF Promote, Queues, work
<1>6. CASE UNCHANGED vars
  BY <1>6 DEF vars, work, Queues
<1>. QED
  BY <1>1, <1>2, <1>3, <1>4, <1>5, <1>6, ClaimQueues, GlobalQueues, HandledQueues
  DEF Next, Step, SubmitTool, SubmitWatcher

-----------------------------------------------------------------------------
(* The life of one key.                                                    *)

LEMMA SetsOne ==
  ASSUME NEW k \in Key, NEW n \in Ticket, NEW r, Sets(k, n, r)
  PROVE  /\ \A m \in Ticket : m # n => drain'[k][m] = drain[k][m]
         /\ \A j \in Key, m \in Ticket : j # k => drain'[j][m] = drain[j][m]
<1>1. ASSUME NEW j \in Key, NEW m \in Ticket, <<j, m>> # <<k, n>>
      PROVE  drain'[j][m] = drain[j][m]
  <2>1. <<j, m>> \in Key \X Ticket /\ <<j, m>>[1] = j /\ <<j, m>>[2] = m
    OBVIOUS
  <2>. QED
    BY <1>1, <2>1 DEF Sets
<1>. QED
  BY <1>1

\* A step that leaves a key alone, but for the waiting drains it may move on.
Kept(k) ==
  /\ submits'[k] = submits[k] /\ latest'[k] = latest[k] /\ chain'[k] = chain[k] /\ index'[k] = index[k]
  /\ fate'[k] = fate[k]
  /\ \A n \in Ticket :
       /\ drain'[k][n].after = drain[k][n].after /\ drain'[k][n].op = drain[k][n].op
       /\ \/ drain'[k][n].phase = drain[k][n].phase
          \/ drain'[k][n].phase \in Working /\ drain[k][n].phase \in Working

LEMMA LifeKept ==
  ASSUME TypeOK, NEW k \in Key, Life(k), Kept(k)
  PROVE  Life(k)'
<1>1. Ordered(k)'
  BY DEF Life, Ordered, Kept, Working, Begun
<1>2. submits[k] # 0 => submits[k] \in Ticket
  BY Counted
<1>3. Pending(k)'
  BY <1>2, Counted DEF Life, Pending, Kept, Working
<1>4. Newer(k)'
  BY DEF Life, Newer, Kept, Working
<1>5. Followed(k)'
  BY DEF Life, Followed, Kept, Working
<1>. QED
  BY <1>1, <1>3, <1>4, <1>5 DEF Life

\* A drain whose turn it is comes after every earlier one.
LEMMA TurnLast ==
  ASSUME TypeOK, NEW k \in Key, NEW n \in Ticket, Turn(k, n), Ordered(k)
  PROVE  \A m \in Ticket : m < n => drain[k][m].phase = "done"
<1>1. n <= submits[k]
  BY Counted DEF Turn, Ordered
<1>2. CASE drain[k][n].after = 0
  <2>1. drain[k][n].after = n - 1 => \A m \in Ticket : ~(m < n)
    BY <1>2, Counted
  <2>. QED
    BY <1>1, <2>1 DEF Ordered
<1>3. CASE drain[k][n].after # 0
  <2>1. drain[k][n].after = n - 1 /\ drain[k][n - 1].phase = "done"
    BY <1>1, <1>3 DEF Turn, Ordered
  <2>2. n - 1 \in Ticket
    BY <1>3, <2>1, Counted, CoordinatorAssumption DEF Ticket
  <2>3. \A m \in Ticket : m < n => m = n - 1 \/ m < n - 1
    BY Counted
  <2>. QED
    BY <2>1, <2>2, <2>3 DEF Ordered, Begun
<1>. QED
  BY <1>2, <1>3

\* A drain that leaves moves on only drains at work.
LEMMA LeaveKeeps ==
  ASSUME TypeOK, Queues, NEW k \in Key, NEW n \in Ticket, Leave(k, n), drain[k][n].phase = "running"
  PROVE  /\ drain'[k][n].phase = "settled" /\ drain'[k][n].after = drain[k][n].after
         /\ \A j \in Key, m \in Ticket : <<j, m>> # <<k, n>> =>
              /\ drain'[j][m].after = drain[j][m].after /\ drain'[j][m].op = drain[j][m].op
              /\ \/ drain'[j][m].phase = drain[j][m].phase
                 \/ drain'[j][m].phase \in Working /\ drain[j][m].phase \in Working
<1>1. ASSUME NEW x \in Drain, NEW ph
      PROVE  /\ [x EXCEPT !.phase = ph].phase = ph /\ [x EXCEPT !.phase = ph].after = x.after
             /\ [x EXCEPT !.phase = ph].op = x.op
  BY DEF Drain
<1>2. drain'[k][n].phase = "settled" /\ drain'[k][n].after = drain[k][n].after
  <2>1. drain'[k][n] = [drain[k][n] EXCEPT !.phase = "settled"] /\ drain[k][n] \in Drain
    BY LeaveMoves, Counted
  <2>. QED
    BY <1>1, <2>1
<1>3. ASSUME NEW j \in Key, NEW m \in Ticket, <<j, m>> # <<k, n>>
      PROVE  /\ drain'[j][m].after = drain[j][m].after /\ drain'[j][m].op = drain[j][m].op
             /\ \/ drain'[j][m].phase = drain[j][m].phase
                \/ drain'[j][m].phase \in Working /\ drain[j][m].phase \in Working
  <2>1. <<j, m>> \in Key \X Ticket /\ <<j, m>>[1] = j /\ <<j, m>>[2] = m /\ drain[j][m] \in Drain
    BY Counted
  <2>2. \/ drain'[j][m] = drain[j][m]
        \/ drain[j][m].phase = "globalWait" /\ drain'[j][m] = [drain[j][m] EXCEPT !.phase = "running"]
        \/ drain[j][m].phase = "vaultWait" /\ drain'[j][m] = [drain[j][m] EXCEPT !.phase = "vaultHeld"]
    <3>. DEFINE d == <<j, m>>
    <3>1. \/ drain'[d[1]][d[2]] = drain[d[1]][d[2]]
          \/ /\ drain[d[1]][d[2]].phase = "globalWait"
             /\ drain'[d[1]][d[2]] = [drain[d[1]][d[2]] EXCEPT !.phase = "running"]
          \/ /\ drain[d[1]][d[2]].phase = "vaultWait"
             /\ drain'[d[1]][d[2]] = [drain[d[1]][d[2]] EXCEPT !.phase = "vaultHeld"]
      <4>1. d \in Key \X Ticket /\ d # <<k, n>>
        BY <1>3
      <4>. DEFINE Moved(e) ==
                  \/ drain'[e[1]][e[2]] = drain[e[1]][e[2]]
                  \/ /\ Grants(globalSem, e) /\ drain[e[1]][e[2]].phase = "globalWait"
                     /\ drain'[e[1]][e[2]] = [drain[e[1]][e[2]] EXCEPT !.phase = "running"]
                  \/ /\ Grants(vaultSem[VaultOf[k]], e) /\ drain[e[1]][e[2]].phase = "vaultWait"
                     /\ drain'[e[1]][e[2]] = [drain[e[1]][e[2]] EXCEPT !.phase = "vaultHeld"]
      <4>2. \A e \in Key \X Ticket : e # <<k, n>> => Moved(e)
        BY LeaveMoves, Zenon
      <4>. HIDE DEF d
      <4>3. Moved(d)
        <5>. HIDE DEF Moved
        <5>. QED
          BY <4>1, <4>2
      <4>. QED
        BY <4>3, Zenon
    <3>. QED
      BY <3>1
  <2>3. CASE drain'[j][m] = drain[j][m]
    BY <2>3
  <2>4. CASE drain[j][m].phase = "globalWait" /\ drain'[j][m] = [drain[j][m] EXCEPT !.phase = "running"]
    BY <1>1, <2>1, <2>4 DEF Working
  <2>5. CASE drain[j][m].phase = "vaultWait" /\ drain'[j][m] = [drain[j][m] EXCEPT !.phase = "vaultHeld"]
    BY <1>1, <2>1, <2>5 DEF Working
  <2>. QED
    BY <2>2, <2>3, <2>4, <2>5
<1>. QED
  BY <1>2, <1>3

LEMMA SubmitLife ==
  ASSUME TypeOK, NEW k \in Key, NEW o, Submit(k, o), Life(k)
  PROVE  Life(k)'
<1>. DEFINE n == submits[k] + 1
<1>1. /\ n \in Ticket
      /\ Sets(k, n, [phase |-> "chained", after |-> chain[k], op |-> 0])
  BY SubmitSets
<1>2. /\ submits'[k] = n /\ latest'[k] = n /\ chain'[k] = n /\ index'[k] = index[k]
      /\ fate'[k][n] = "pending"
  <2>1. submits'[k] = n /\ latest'[k] = n /\ chain'[k] = n /\ index'[k] = index[k]
    BY DEF Submit, TypeOK
  <2>2. fate'[k] = [m \in Ticket |-> CASE m = n -> "pending" [] m = latest[k] -> "superseded" [] OTHER -> fate[k][m]]
    BY DEF Submit, TypeOK
  <2>3. latest[k] # n
    BY Counted DEF Life, Pending
  <2>4. fate'[k][n] = "pending"
    BY <1>1, <2>2, <2>3
  <2>. QED
    BY <2>1, <2>4
<1>3. /\ drain'[k][n].phase = "chained" /\ drain'[k][n].after = chain[k]
      /\ \A m \in Ticket : m # n => drain'[k][m] = drain[k][m]
  <2>1. drain'[k][n] = [phase |-> "chained", after |-> chain[k], op |-> 0]
    BY <1>1 DEF Sets
  <2>. QED
    BY <1>1, <2>1, SetsOne
<1>4. Ordered(k)'
  <2>1. \A m \in Ticket : drain'[k][m].phase = "none" <=> m > n
    BY <1>1, <1>3, Counted DEF Life, Ordered
  <2>2. drain'[k][n].after = n - 1 \/ (drain'[k][n].after = 0 /\ \A m \in Ticket : m < n => drain'[k][m].phase = "done")
    BY <1>1, <1>3, Counted DEF Life, Ordered, Pending
  <2>3. ASSUME NEW i \in Ticket, i <= n
        PROVE  \/ drain'[k][i].after = i - 1
               \/ drain'[k][i].after = 0 /\ \A m \in Ticket : m < i => drain'[k][m].phase = "done"
    <3>1. CASE i = n
      BY <2>2, <3>1
    <3>2. CASE i # n
      <4>1. i <= submits[k] /\ drain'[k][i] = drain[k][i] /\ \A m \in Ticket : m < i => drain'[k][m] = drain[k][m]
        BY <1>1, <1>3, <2>3, <3>2, Counted
      <4>. QED
        BY <4>1 DEF Life, Ordered
    <3>. QED
      BY <3>1, <3>2
  <2>4. ASSUME NEW m \in Ticket, NEW i \in Ticket, m < i, drain'[k][i].phase \in Begun
        PROVE  drain'[k][m].phase = "done"
    <3>1. i # n
      BY <1>3, <2>4 DEF Begun, Working
    <3>2. i < n
      <4>1. drain[k][i].phase # "none"
        BY <1>3, <2>4, <3>1 DEF Begun, Working
      <4>. QED
        BY <4>1, Counted DEF Life, Ordered
    <3>3. m # n
      BY <2>4, <3>2, Counted
    <3>. QED
      BY <1>3, <2>4, <3>1, <3>3 DEF Life, Ordered
  <2>. QED
    BY <1>2, <2>1, <2>3, <2>4 DEF Ordered
<1>5. Pending(k)'
  BY <1>1, <1>2, <1>3, Counted DEF Pending
<1>6. Newer(k)'
  <2>1. index[k] < n
    BY Counted DEF Life, Newer
  <2>2. ASSUME NEW m \in Ticket, drain'[k][m].phase \in Working
        PROVE  drain'[k][m].op \in Ticket /\ index[k] < drain'[k][m].op /\ drain'[k][m].op < n
    <3>1. m # n
      BY <1>3, <2>2 DEF Working
    <3>2. drain'[k][m] = drain[k][m]
      BY <1>3, <3>1
    <3>. QED
      BY <2>2, <3>2, Counted DEF Life, Newer
  <2>3. \A m \in Ticket : drain'[k][m].phase \in Working =>
          drain'[k][m].op \in Ticket /\ index'[k] < drain'[k][m].op /\ drain'[k][m].op < n /\ drain'[k][m].op <= n
    BY <1>1, <1>2, <2>2 DEF Ticket
  <2>. QED
    BY <1>2, <2>1, <2>3, Counted DEF Newer
<1>7. Followed(k)'
  BY <1>2 DEF Followed
<1>. QED
  BY <1>4, <1>5, <1>6, <1>7 DEF Life

\* A drain moves from one phase to a later one, with its operation and its place in the chain.
LEMMA NothingLife ==
  ASSUME TypeOK, NEW k \in Key, NEW n \in Ticket, DrainNothing(k, n), Life(k)
  PROVE  Life(k)'
<1>1. Sets(k, n, [drain[k][n] EXCEPT !.phase = "settled"])
  BY SetPhase DEF DrainNothing, Phase
<1>2. /\ drain[k][n].phase = "chained" /\ drain'[k][n].phase = "settled"
      /\ drain'[k][n].after = drain[k][n].after
      /\ \A m \in Ticket : m # n => drain'[k][m] = drain[k][m]
  BY <1>1, Counted, SetsOne DEF Sets, DrainNothing, Turn, Drain
<1>3. UNCHANGED <<submits, latest, chain, index, fate>> /\ latest[k] = 0
  BY DEF DrainNothing
<1>4. \A m \in Ticket : m < n => drain[k][m].phase = "done"
  BY TurnLast DEF DrainNothing, Life
<1>5. Ordered(k)'
  BY <1>2, <1>3, <1>4, Counted DEF Life, Ordered, Begun, Working
<1>6. Pending(k)'
  BY <1>2, <1>3 DEF Life, Pending
<1>7. Newer(k)'
  BY <1>2, <1>3 DEF Life, Newer, Working
<1>8. Followed(k)'
  BY <1>2, <1>3 DEF Life, Followed, Working
<1>. QED
  BY <1>5, <1>6, <1>7, <1>8 DEF Life

LEMMA ClaimLife ==
  ASSUME TypeOK, NEW k \in Key, NEW n \in Ticket, DrainClaim(k, n), Life(k)
  PROVE  Life(k)'
<1>1. PICK r \in Drain :
        /\ Sets(k, n, r)
        /\ r.op = latest[k] /\ r.after = drain[k][n].after
        /\ r.phase \in {"vaultHeld", "vaultWait"}
  BY ClaimSets
<1>2. /\ drain[k][n].phase = "chained" /\ drain'[k][n].phase \in {"vaultHeld", "vaultWait"}
      /\ drain'[k][n].after = drain[k][n].after /\ drain'[k][n].op = latest[k]
      /\ \A m \in Ticket : m # n => drain'[k][m] = drain[k][m]
  <2>1. drain[k][n].phase = "chained"
    BY DEF DrainClaim, Turn
  <2>2. drain'[k][n] = r
    BY <1>1 DEF Sets
  <2>3. \A m \in Ticket : m # n => drain'[k][m] = drain[k][m]
    BY <1>1, SetsOne
  <2>. QED
    BY <1>1, <2>1, <2>2, <2>3
<1>3. /\ UNCHANGED <<submits, chain, index>> /\ latest[k] # 0 /\ latest'[k] = 0
      /\ latest[k] = submits[k] /\ submits[k] \in Ticket
  BY Counted DEF DrainClaim, TypeOK, Life, Pending
<1>4. fate'[k][submits[k]] = "claimed"
  BY <1>3 DEF DrainClaim, TypeOK
<1>5. \A m \in Ticket : m < n => drain[k][m].phase = "done"
  BY TurnLast DEF DrainClaim, Life
<1>6. Ordered(k)'
  BY <1>2, <1>3, <1>5, Counted DEF Life, Ordered, Begun, Working
<1>7. Pending(k)'
  <2>1. chain[k] # 0
    BY <1>2 DEF Life, Pending
  <2>. QED
    BY <1>3, <2>1 DEF Life, Pending
<1>8. Newer(k)'
  <2>1. index[k] < latest[k]
    BY <1>3 DEF Life, Newer
  <2>. QED
    BY <1>2, <1>3, <2>1, Counted DEF Life, Newer, Working
<1>9. Followed(k)'
  BY <1>2, <1>3, <1>4 DEF Followed, Working
<1>. QED
  BY <1>6, <1>7, <1>8, <1>9 DEF Life

LEMMA CleanupLife ==
  ASSUME TypeOK, NEW k \in Key, NEW n \in Ticket, Cleanup(k, n), Life(k)
  PROVE  Life(k)'
<1>1. Sets(k, n, [drain[k][n] EXCEPT !.phase = "done"])
  BY SetPhase DEF Cleanup, Phase
<1>2. /\ drain[k][n].phase = "settled" /\ drain'[k][n].phase = "done"
      /\ drain'[k][n].after = drain[k][n].after
      /\ \A m \in Ticket : m # n => drain'[k][m] = drain[k][m]
  BY <1>1, Counted, SetsOne DEF Sets, Cleanup, Drain
<1>3. /\ UNCHANGED <<submits, latest, index, fate>>
      /\ chain'[k] = IF chain[k] = n THEN 0 ELSE chain[k]
  BY DEF Cleanup, TypeOK
<1>4. \A m \in Ticket : m < n => drain[k][m].phase = "done"
  BY <1>2 DEF Life, Ordered, Begun
<1>5. Ordered(k)'
  BY <1>2, <1>3, <1>4, Counted DEF Life, Ordered, Begun, Working
<1>6. Pending(k)'
  <2>1. chain[k] # 0
    BY <1>2 DEF Life, Pending
  <2>2. chain[k] = n => \A m \in Ticket : drain'[k][m].phase \in {"none", "done"}
    <3>1. chain[k] = n => submits[k] = n
      BY <2>1 DEF Life, Pending
    <3>. QED
      BY <1>2, <1>4, <3>1, Counted DEF Life, Ordered
  <2>. QED
    BY <1>2, <1>3, <2>1, <2>2, Counted DEF Life, Pending
<1>7. Newer(k)'
  BY <1>2, <1>3 DEF Life, Newer, Working
<1>8. Followed(k)'
  BY <1>2, <1>3 DEF Life, Followed, Working
<1>. QED
  BY <1>5, <1>6, <1>7, <1>8 DEF Life

LEMMA HandledLife ==
  ASSUME TypeOK, Queues, NEW k \in Key, NEW n \in Ticket, Handled(k, n), Life(k)
  PROVE  Life(k)' /\ index'[k] >= index[k]
<1>1. PICK end \in {"applied", "thrown"}, committed \in BOOLEAN :
        /\ index' = IF committed THEN [index EXCEPT ![k] = drain[k][n].op] ELSE index
        /\ fate' = [fate EXCEPT ![k][drain[k][n].op] = end]
  BY DEF Handled
<1>2. drain[k][n].phase = "running" /\ Leave(k, n) /\ UNCHANGED <<submits, latest, chain>>
  BY DEF Handled
<1>3. /\ drain'[k][n].phase = "settled" /\ drain'[k][n].after = drain[k][n].after
      /\ \A m \in Ticket : m # n =>
           /\ drain'[k][m].after = drain[k][m].after /\ drain'[k][m].op = drain[k][m].op
           /\ \/ drain'[k][m].phase = drain[k][m].phase
              \/ drain'[k][m].phase \in Working /\ drain[k][m].phase \in Working
  BY <1>2, LeaveKeeps
<1>4. /\ drain[k][n].op \in Ticket /\ index[k] < drain[k][n].op /\ drain[k][n].op <= submits[k]
      /\ latest[k] # 0 => drain[k][n].op < latest[k]
  BY <1>2 DEF Life, Newer, Working
<1>5. /\ \A m \in Ticket : m < n => drain[k][m].phase = "done"
      /\ \A m \in Ticket : m # n => drain[k][m].phase \notin Working
  BY <1>2, Counted DEF Life, Ordered, Begun, Working
<1>6. \A m \in Ticket : m # n => drain'[k][m].phase = drain[k][m].phase
  BY <1>3, <1>5
<1>7. index'[k] \in {index[k], drain[k][n].op} /\ index'[k] >= index[k]
  BY <1>1, <1>4, Counted DEF TypeOK
<1>8. Ordered(k)'
  BY <1>2, <1>3, <1>5, <1>6, Counted DEF Life, Ordered, Begun, Working
<1>9. Pending(k)'
  <2>1. chain[k] # 0
    BY <1>2 DEF Life, Pending
  <2>. QED
    BY <1>2, <1>3, <1>6, <2>1, Counted DEF Life, Pending
<1>10. Newer(k)'
  BY <1>2, <1>3, <1>4, <1>5, <1>6, <1>7, Counted DEF Life, Newer, Working
<1>11. Followed(k)'
  <2>1. CASE drain[k][n].op = submits[k]
    BY <1>1, <1>2, <1>4, <2>1 DEF TypeOK, Followed, Final
  <2>2. CASE drain[k][n].op # submits[k]
    <3>1. fate'[k][submits[k]] = fate[k][submits[k]]
      BY <1>1, <2>2 DEF TypeOK
    <3>2. fate[k][submits[k]] = "claimed" /\ submits[k] # 0 => FALSE
      BY <1>5, <2>2 DEF Life, Followed
    <3>. QED
      BY <1>2, <3>1, <3>2 DEF Life, Followed
  <2>. QED
    BY <2>1, <2>2
<1>. QED
  BY <1>7, <1>8, <1>9, <1>10, <1>11 DEF Life

\* A demotion forgets what the watcher submitted last.
LEMMA DemoteLife ==
  ASSUME TypeOK, NEW k \in Key, Demote, Life(k)
  PROVE  Life(k)' /\ index'[k] = index[k]
<1>. DEFINE gone == latestOrigin[k] = "watcher"
<1>1. /\ UNCHANGED <<submits, chain, drain, index>>
      /\ latest'[k] = IF gone THEN 0 ELSE latest[k]
      /\ \A m \in Ticket : fate'[k][m] = IF gone /\ m = latest[k] THEN "dropped" ELSE fate[k][m]
  BY DEF Demote
<1>2. Ordered(k)'
  BY <1>1 DEF Life, Ordered
<1>3. Pending(k)'
  BY <1>1 DEF Life, Pending
<1>4. Newer(k)'
  BY <1>1 DEF Life, Newer
<1>5. Followed(k)'
  <2>. SUFFICES ASSUME submits[k] # 0 PROVE Followed(k)'
    BY <1>1 DEF Followed
  <2>1. submits[k] \in Ticket
    BY Counted
  <2>2. CASE gone /\ latest[k] = submits[k]
    <3>1. fate'[k][submits[k]] = "dropped"
      BY <1>1, <2>1, <2>2
    <3>. QED
      BY <1>1, <3>1 DEF Followed, Final
  <2>3. CASE ~(gone /\ latest[k] = submits[k])
    <3>1. fate'[k][submits[k]] = fate[k][submits[k]]
      BY <1>1, <2>1, <2>3
    <3>. QED
      BY <1>1, <2>3, <3>1 DEF Life, Followed
  <2>. QED
    BY <2>2, <2>3
<1>. QED
  BY <1>1, <1>2, <1>3, <1>4, <1>5 DEF Life

\* Every step keeps the life of every key and takes no index back.
LEMMA NextLife ==
  ASSUME IInv, [Next]_vars, NEW j \in Key
  PROVE  Life(j)' /\ index'[j] >= index[j]
<1>. USE DEF IInv
<1>0. Life(j) /\ index[j] \in Nat
  BY Counted
<1>1. Kept(j) => Life(j)' /\ index'[j] >= index[j]
  BY <1>0, LifeKept DEF Kept
<1>2. ASSUME NEW k \in Key, NEW o, Submit(k, o) PROVE Life(j)' /\ index'[j] >= index[j]
  <2>1. CASE j = k
    <3>1. index'[j] >= index[j]
      BY <1>0, <1>2 DEF Submit
    <3>2. Life(j)'
      BY <1>0, <1>2, <2>1, SubmitLife
    <3>. QED
      BY <3>1, <3>2
  <2>2. CASE j # k
    <3>1. \A m \in Ticket : drain'[j][m] = drain[j][m]
      BY <1>2, <2>2, SubmitSets, SetsOne
    <3>. QED
      BY <1>1, <1>2, <2>2, <3>1 DEF Kept, Submit, TypeOK
  <2>. QED
    BY <2>1, <2>2
<1>3. ASSUME NEW k \in Key, NEW n \in Ticket, DrainNothing(k, n) PROVE Life(j)' /\ index'[j] >= index[j]
  <2>1. CASE j = k
    <3>1. index'[j] >= index[j]
      BY <1>0, <1>3 DEF DrainNothing
    <3>2. Life(j)'
      BY <1>0, <1>3, <2>1, NothingLife
    <3>. QED
      BY <3>1, <3>2
  <2>2. CASE j # k
    <3>1. \A m \in Ticket : drain'[j][m] = drain[j][m]
      BY <1>3, <2>2, SetPhase, SetsOne DEF DrainNothing, Phase
    <3>. QED
      BY <1>1, <1>3, <3>1 DEF Kept, DrainNothing
  <2>. QED
    BY <2>1, <2>2
<1>4. ASSUME NEW k \in Key, NEW n \in Ticket, DrainClaim(k, n) PROVE Life(j)' /\ index'[j] >= index[j]
  <2>1. CASE j = k
    <3>1. index'[j] >= index[j]
      BY <1>0, <1>4 DEF DrainClaim
    <3>2. Life(j)'
      BY <1>0, <1>4, <2>1, ClaimLife
    <3>. QED
      BY <3>1, <3>2
  <2>2. CASE j # k
    <3>1. \A m \in Ticket : drain'[j][m] = drain[j][m]
      BY <1>4, <2>2, ClaimSets, SetsOne
    <3>. QED
      BY <1>1, <1>4, <2>2, <3>1 DEF Kept, DrainClaim, TypeOK
  <2>. QED
    BY <2>1, <2>2
<1>5. ASSUME NEW k \in Key, NEW n \in Ticket, DrainGlobal(k, n) PROVE Life(j)' /\ index'[j] >= index[j]
  <2>. DEFINE ph == IF globalSem.permits > 0 THEN "running" ELSE "globalWait"
  <2>1. Sets(k, n, [drain[k][n] EXCEPT !.phase = ph])
    BY <1>5, SetPhase DEF DrainGlobal, Phase
  <2>2. /\ drain[k][n].phase \in Working /\ drain'[k][n].phase \in Working
        /\ drain'[k][n].after = drain[k][n].after /\ drain'[k][n].op = drain[k][n].op
    BY <1>5, <2>1, Counted DEF Sets, DrainGlobal, Drain, Working
  <2>3. \A m \in Ticket : ~(j = k /\ m = n) => drain'[j][m] = drain[j][m]
    BY <2>1, SetsOne
  <2>. QED
    BY <1>1, <1>5, <2>2, <2>3 DEF Kept, DrainGlobal
<1>6. ASSUME NEW k \in Key, NEW n \in Ticket, Handled(k, n) PROVE Life(j)' /\ index'[j] >= index[j]
  <2>1. CASE j = k
    BY <1>0, <1>6, <2>1, HandledLife
  <2>2. CASE j # k
    <3>1. \A m \in Ticket : <<j, m>> # <<k, n>>
      BY <2>2
    <3>2. \A m \in Ticket :
            /\ drain'[j][m].after = drain[j][m].after /\ drain'[j][m].op = drain[j][m].op
            /\ \/ drain'[j][m].phase = drain[j][m].phase
               \/ drain'[j][m].phase \in Working /\ drain[j][m].phase \in Working
      BY <1>6, <3>1, LeaveKeeps DEF Handled
    <3>3. fate'[j] = fate[j] /\ index'[j] = index[j]
      BY <1>6, <2>2 DEF Handled, TypeOK
    <3>. QED
      BY <1>1, <1>6, <3>2, <3>3 DEF Kept, Handled
  <2>. QED
    BY <2>1, <2>2
<1>7. ASSUME NEW k \in Key, NEW n \in Ticket, Cleanup(k, n) PROVE Life(j)' /\ index'[j] >= index[j]
  <2>1. CASE j = k
    <3>1. index'[j] >= index[j]
      BY <1>0, <1>7 DEF Cleanup
    <3>2. Life(j)'
      BY <1>0, <1>7, <2>1, CleanupLife
    <3>. QED
      BY <3>1, <3>2
  <2>2. CASE j # k
    <3>1. \A m \in Ticket : drain'[j][m] = drain[j][m]
      BY <1>7, <2>2, SetPhase, SetsOne DEF Cleanup, Phase
    <3>. QED
      BY <1>1, <1>7, <2>2, <3>1 DEF Kept, Cleanup, TypeOK
  <2>. QED
    BY <2>1, <2>2
<1>8. CASE Demote
  BY <1>0, <1>8, DemoteLife
<1>9. CASE Promote \/ UNCHANGED vars
  BY <1>1, <1>9 DEF Promote, vars, work, Kept
<1>. QED
  BY <1>2, <1>3, <1>4, <1>5, <1>6, <1>7, <1>8, <1>9 DEF Next, Step, SubmitTool, SubmitWatcher

-----------------------------------------------------------------------------
(* The limits.                                                             *)

Slot == {"vaultHeld", "globalWait", "running"}

\* By the drains D, those of the keys S that are in one of the phases P.
Held(D, P, S) == {d \in Key \X Ticket : d[1] \in S /\ D[d[1]][d[2]].phase \in P}

\* Every permit is free or held.
Full(s, H, limit) == s.permits + Cardinality(H) = limit

Limits ==
  /\ Full(globalSem, Held(drain, {"running"}, Key), GlobalConcurrency)
  /\ \A u \in Vault : Full(vaultSem[u], Held(drain, Slot, KeysOf(u)), PerVaultConcurrency)

LEMMA HeldFinite ==
  ASSUME NEW D, NEW P, NEW S
  PROVE  IsFiniteSet(Held(D, P, S)) /\ Cardinality(Held(D, P, S)) \in Nat
<1>1. IsFiniteSet(Ticket)
  BY CoordinatorAssumption, FS_Interval DEF Ticket
<1>2. IsFiniteSet(Key \X Ticket)
  BY <1>1, CoordinatorAssumption, FS_Product
<1>3. Held(D, P, S) \in SUBSET (Key \X Ticket)
  BY DEF Held
<1>4. IsFiniteSet(Held(D, P, S))
  BY <1>2, <1>3, FS_Subset
<1>. QED
  BY <1>4, FS_CardinalityType

\* acquire hands a free permit to its caller.
LEMMA Taken ==
  ASSUME NEW s \in Sem, NEW x, NEW H, IsFiniteSet(H), x \notin H, NEW limit, Full(s, H, limit)
  PROVE  Full(Acquire(s, x), IF s.permits > 0 THEN H \cup {x} ELSE H, limit)
<1>1. s.permits \in Nat /\ Cardinality(H) \in Nat
  BY FS_CardinalityType DEF Sem
<1>2. CASE s.permits > 0
  <2>1. Acquire(s, x).permits = s.permits - 1
    BY <1>2 DEF Acquire, Sem
  <2>2. Cardinality(H \cup {x}) = Cardinality(H) + 1
    BY FS_AddElement
  <2>. QED
    BY <1>1, <1>2, <2>1, <2>2 DEF Full
<1>3. CASE ~(s.permits > 0)
  BY <1>3 DEF Acquire, Sem, Full
<1>. QED
  BY <1>2, <1>3

\* release hands the permit of its caller to the head waiter, or frees it.
LEMMA Freed ==
  ASSUME NEW s \in Sem, NEW x, NEW H, IsFiniteSet(H), x \in H, NEW limit, Full(s, H, limit),
         s.waiters # <<>> => Head(s.waiters) \notin H
  PROVE  Full(Release(s), IF s.waiters # <<>> THEN (H \ {x}) \cup {Head(s.waiters)} ELSE H \ {x}, limit)
<1>1. s.permits \in Nat /\ Cardinality(H) \in Nat
  BY FS_CardinalityType DEF Sem
<1>2. IsFiniteSet(H \ {x}) /\ Cardinality(H \ {x}) = Cardinality(H) - 1
  BY FS_RemoveElement
<1>3. CASE s.waiters # <<>>
  <2>1. Release(s).permits = s.permits
    BY <1>3 DEF Release, Sem
  <2>2. Cardinality((H \ {x}) \cup {Head(s.waiters)}) = Cardinality(H \ {x}) + 1
    BY <1>2, <1>3, FS_AddElement
  <2>. QED
    BY <1>1, <1>2, <1>3, <2>1, <2>2 DEF Full
<1>4. CASE s.waiters = <<>>
  <2>1. Release(s).permits = s.permits + 1
    BY <1>4 DEF Release, Sem
  <2>. QED
    BY <1>1, <1>2, <1>4, <2>1 DEF Full
<1>. QED
  BY <1>3, <1>4

\* When one drain changes, the holders change by that one.
LEMMA SetsHeld ==
  ASSUME NEW k \in Key, NEW n \in Ticket, NEW r, Sets(k, n, r), NEW P, NEW S
  PROVE  /\ k \in S /\ r.phase \in P => \A d : d \in Held(drain', P, S) <=> d \in Held(drain, P, S) \/ d = <<k, n>>
         /\ k \in S /\ r.phase \in P /\ <<k, n>> \in Held(drain, P, S) => Held(drain', P, S) = Held(drain, P, S)
         /\ ~(k \in S /\ r.phase \in P) /\ <<k, n>> \notin Held(drain, P, S) => Held(drain', P, S) = Held(drain, P, S)
<1>1. /\ drain'[k][n] = r
      /\ \A d \in Key \X Ticket : d # <<k, n>> => drain'[d[1]][d[2]] = drain[d[1]][d[2]]
  BY DEF Sets
<1>2. <<k, n>> \in Key \X Ticket /\ <<k, n>>[1] = k /\ <<k, n>>[2] = n
  OBVIOUS
<1>3. \A d \in Key \X Ticket : d # <<k, n>> => (d \in Held(drain', P, S) <=> d \in Held(drain, P, S))
  BY <1>1 DEF Held
<1>4. <<k, n>> \in Held(drain', P, S) <=> k \in S /\ r.phase \in P
  BY <1>1, <1>2 DEF Held
<1>5. Held(drain', P, S) \subseteq Key \X Ticket /\ Held(drain, P, S) \subseteq Key \X Ticket
  BY DEF Held
<1>. QED
  BY <1>2, <1>3, <1>4, <1>5

\* A drain that neither held a slot nor takes one leaves the counts alone.
LEMMA SetsLimits ==
  ASSUME Limits, NEW k \in Key, NEW n \in Ticket, NEW r, Sets(k, n, r),
         drain[k][n].phase \notin Slot, r.phase \notin Slot, UNCHANGED <<vaultSem, globalSem>>
  PROVE  Limits'
<1>1. ASSUME NEW P, NEW S, P \subseteq Slot PROVE Held(drain', P, S) = Held(drain, P, S)
  <2>1. <<k, n>> \notin Held(drain, P, S) /\ r.phase \notin P
    BY <1>1 DEF Held
  <2>. QED
    BY <2>1, SetsHeld
<1>2. {"running"} \subseteq Slot
  BY DEF Slot
<1>3. Held(drain', {"running"}, Key) = Held(drain, {"running"}, Key)
  BY <1>1, <1>2
<1>4. \A u \in Vault : Held(drain', Slot, KeysOf(u)) = Held(drain, Slot, KeysOf(u))
  BY <1>1
<1>. QED
  BY <1>3, <1>4 DEF Limits

LEMMA ClaimLimits ==
  ASSUME TypeOK, Limits, NEW k \in Key, NEW n \in Ticket, DrainClaim(k, n)
  PROVE  Limits'
<1>. DEFINE s == vaultSem[VaultOf[k]]
            x == <<k, n>>
<1>1. PICK r \in Drain : /\ Sets(k, n, r)
                         /\ r.phase = IF s.permits > 0 THEN "vaultHeld" ELSE "vaultWait"
  BY ClaimSets
<1>2. /\ drain[k][n].phase = "chained" /\ globalSem' = globalSem
      /\ vaultSem' = [vaultSem EXCEPT ![VaultOf[k]] = Acquire(s, x)]
  BY DEF DrainClaim, Turn
<1>3. VaultOf[k] \in Vault /\ s \in Sem /\ vaultSem \in [Vault -> Sem]
  BY CoordinatorAssumption DEF TypeOK
<1>4. \A S : x \notin Held(drain, Slot, S) /\ x \notin Held(drain, {"running"}, S)
  BY <1>2 DEF Held, Slot
<1>5. Held(drain', {"running"}, Key) = Held(drain, {"running"}, Key)
  BY <1>1, <1>4, SetsHeld
<1>6. ASSUME NEW u \in Vault, u # VaultOf[k]
      PROVE  vaultSem'[u] = vaultSem[u] /\ Held(drain', Slot, KeysOf(u)) = Held(drain, Slot, KeysOf(u))
  <2>1. k \notin KeysOf(u)
    BY <1>6 DEF KeysOf
  <2>2. Held(drain', Slot, KeysOf(u)) = Held(drain, Slot, KeysOf(u))
    BY <1>1, <1>4, <2>1, SetsHeld
  <2>3. vaultSem'[u] = vaultSem[u]
    BY <1>2, <1>3, <1>6
  <2>. QED
    BY <2>2, <2>3
<1>7. Full(vaultSem'[VaultOf[k]], Held(drain', Slot, KeysOf(VaultOf[k])), PerVaultConcurrency)
  <2>. DEFINE H == Held(drain, Slot, KeysOf(VaultOf[k]))
  <2>1. IsFiniteSet(H) /\ x \notin H /\ Full(s, H, PerVaultConcurrency)
    BY <1>3, <1>4, HeldFinite DEF Limits
  <2>2. vaultSem'[VaultOf[k]] = Acquire(s, x)
    BY <1>2, <1>3
  <2>3. k \in KeysOf(VaultOf[k]) /\ (r.phase \in Slot <=> s.permits > 0)
    BY <1>1 DEF KeysOf, Slot
  <2>4. Held(drain', Slot, KeysOf(VaultOf[k])) = IF s.permits > 0 THEN H \cup {x} ELSE H
    <3>1. s.permits > 0 => Held(drain', Slot, KeysOf(VaultOf[k])) = H \cup {x}
      <4>. SUFFICES ASSUME s.permits > 0 PROVE Held(drain', Slot, KeysOf(VaultOf[k])) = H \cup {x}
        OBVIOUS
      <4>1. k \in KeysOf(VaultOf[k]) /\ r.phase \in Slot /\ Sets(k, n, r)
        BY <1>1, <2>3
      <4>2. \A d : d \in Held(drain', Slot, KeysOf(VaultOf[k])) <=>
                     d \in Held(drain, Slot, KeysOf(VaultOf[k])) \/ d = <<k, n>>
        BY <4>1, SetsHeld
      <4>. QED
        BY <4>2
    <3>2. ~(s.permits > 0) => Held(drain', Slot, KeysOf(VaultOf[k])) = H
      BY <1>1, <2>1, <2>3, SetsHeld
    <3>. QED
      BY <3>1, <3>2
  <2>. HIDE DEF H, s, x
  <2>5. Full(Acquire(s, x), IF s.permits > 0 THEN H \cup {x} ELSE H, PerVaultConcurrency)
    BY <1>3, <2>1, Taken
  <2>. QED
    BY <2>2, <2>4, <2>5
<1>. QED
  BY <1>2, <1>5, <1>6, <1>7 DEF Limits

LEMMA GlobalLimits ==
  ASSUME TypeOK, Limits, NEW k \in Key, NEW n \in Ticket, DrainGlobal(k, n)
  PROVE  Limits'
<1>. DEFINE x == <<k, n>>
            ph == IF globalSem.permits > 0 THEN "running" ELSE "globalWait"
            H == Held(drain, {"running"}, Key)
<1>1. /\ drain[k][n].phase = "vaultHeld" /\ vaultSem' = vaultSem /\ globalSem' = Acquire(globalSem, x)
      /\ drain' = [drain EXCEPT ![k][n].phase = ph]
  BY DEF DrainGlobal
<1>2. PICK r \in Drain : Sets(k, n, r) /\ r.phase = ph
  <2>1. Sets(k, n, [drain[k][n] EXCEPT !.phase = ph])
    BY <1>1, SetPhase DEF Phase
  <2>2. drain[k][n] \in Drain /\ ph \in Phase
    BY DEF TypeOK, Phase
  <2>3. [drain[k][n] EXCEPT !.phase = ph].phase = ph /\ [drain[k][n] EXCEPT !.phase = ph] \in Drain
    <3>. HIDE DEF ph
    <3>. QED
      BY <2>2 DEF Drain
  <2>. QED
    BY <2>1, <2>3
<1>3. r.phase = "running" <=> globalSem.permits > 0
  BY <1>2
<1>4. x \notin H /\ IsFiniteSet(H) /\ Full(globalSem, H, GlobalConcurrency) /\ globalSem \in Sem
  <2>1. x \notin H
    BY <1>1 DEF Held
  <2>2. IsFiniteSet(H)
    BY HeldFinite
  <2>. QED
    BY <2>1, <2>2 DEF Limits, TypeOK
<1>5. Held(drain', {"running"}, Key) = IF globalSem.permits > 0 THEN H \cup {x} ELSE H
  <2>1. globalSem.permits > 0 => Held(drain', {"running"}, Key) = H \cup {x}
    <3>. SUFFICES ASSUME globalSem.permits > 0 PROVE Held(drain', {"running"}, Key) = H \cup {x}
      OBVIOUS
    <3>1. r.phase \in {"running"} /\ Sets(k, n, r)
      BY <1>2, <1>3
    <3>2. \A d : d \in Held(drain', {"running"}, Key) <=> d \in Held(drain, {"running"}, Key) \/ d = <<k, n>>
      BY <3>1, SetsHeld
    <3>. QED
      BY <3>2
  <2>2. ~(globalSem.permits > 0) => Held(drain', {"running"}, Key) = H
    BY <1>2, <1>3, <1>4, SetsHeld
  <2>. QED
    BY <2>1, <2>2
<1>6. Full(globalSem', Held(drain', {"running"}, Key), GlobalConcurrency)
  <2>. HIDE DEF H, x
  <2>1. Full(Acquire(globalSem, x), IF globalSem.permits > 0 THEN H \cup {x} ELSE H, GlobalConcurrency)
    BY <1>4, Taken
  <2>. QED
    BY <1>1, <1>5, <2>1
<1>7. ASSUME NEW u \in Vault PROVE Held(drain', Slot, KeysOf(u)) = Held(drain, Slot, KeysOf(u))
  <2>1. ph \in Slot
    BY DEF Slot
  <2>2. k \in KeysOf(u) <=> x \in Held(drain, Slot, KeysOf(u))
    BY <1>1 DEF Held, Slot
  <2>3. r.phase \in Slot
    BY <1>2, <2>1
  <2>. QED
    BY <1>2, <2>2, <2>3, SetsHeld
<1>. QED
  BY <1>1, <1>6, <1>7 DEF Limits

\* The head waiters do get the slots.
LEMMA LeaveGrants ==
  ASSUME TypeOK, Queues, NEW k \in Key, NEW n \in Ticket, Leave(k, n), drain[k][n].phase = "running",
         NEW d \in Key \X Ticket
  PROVE  /\ Grants(globalSem, d) => /\ d # <<k, n>> /\ drain[d[1]][d[2]].phase = "globalWait"
                                    /\ drain'[d[1]][d[2]].phase = "running"
         /\ Grants(vaultSem[VaultOf[k]], d) => /\ d # <<k, n>> /\ drain[d[1]][d[2]].phase = "vaultWait"
                                               /\ VaultOf[d[1]] = VaultOf[k]
                                               /\ drain'[d[1]][d[2]].phase = "vaultHeld"
<1>. DEFINE V == vaultSem[VaultOf[k]]
<1>1. V \in Sem /\ globalSem \in Sem /\ VaultOf[k] \in Vault
  BY CoordinatorAssumption DEF TypeOK
<1>2. ASSUME NEW q \in Seq(Key \X Ticket), NEW ph, NEW S, Queue(drain, q, ph, S), q # <<>>
      PROVE  drain[Head(q)[1]][Head(q)[2]].phase = ph /\ Head(q)[1] \in S
  BY <1>2 DEF Queue
<1>3. Grants(globalSem, d) => drain[d[1]][d[2]].phase = "globalWait"
  BY <1>1, <1>2 DEF Queues, Grants, Sem
<1>4. Grants(V, d) => drain[d[1]][d[2]].phase = "vaultWait" /\ VaultOf[d[1]] = VaultOf[k]
  <2>. SUFFICES ASSUME Grants(V, d)
                PROVE  drain[d[1]][d[2]].phase = "vaultWait" /\ VaultOf[d[1]] = VaultOf[k]
    OBVIOUS
  <2>1. V.waiters \in Seq(Key \X Ticket) /\ V.waiters # <<>> /\ d = Head(V.waiters)
    BY <1>1 DEF Grants, Sem
  <2>2. Queue(drain, V.waiters, "vaultWait", KeysOf(VaultOf[k]))
    BY <1>1 DEF Queues
  <2>3. drain[d[1]][d[2]].phase = "vaultWait" /\ d[1] \in KeysOf(VaultOf[k])
    BY <1>2, <2>1, <2>2
  <2>. QED
    BY <2>3 DEF KeysOf
<1>5. PICK j \in Key, m \in Ticket : d = <<j, m>>
  OBVIOUS
<1>6. drain'[j][m] = [drain[j][m] EXCEPT !.phase =
                        CASE j = k /\ m = n -> "settled"
                          [] Grants(globalSem, <<j, m>>) -> "running"
                          [] Grants(V, <<j, m>>) -> "vaultHeld"
                          [] OTHER -> @]
  BY DEF Leave
<1>7. drain[j][m] \in Drain /\ d[1] = j /\ d[2] = m
  BY <1>5 DEF TypeOK
<1>8. \A ph : [drain[j][m] EXCEPT !.phase = ph].phase = ph
  BY <1>7 DEF Drain
<1>9. Grants(globalSem, d) => /\ ~(j = k /\ m = n)
                              /\ drain'[j][m].phase = "running"
  <2>. SUFFICES ASSUME Grants(globalSem, d)
                PROVE  ~(j = k /\ m = n) /\ drain'[j][m].phase = "running"
    OBVIOUS
  <2>1. ~(j = k /\ m = n) /\ ~Grants(V, d)
    BY <1>3, <1>4, <1>7
  <2>2. drain'[j][m] = [drain[j][m] EXCEPT !.phase = "running"]
    BY <1>5, <1>6, <2>1
  <2>. QED
    BY <1>8, <2>1, <2>2
<1>10. Grants(V, d) => /\ ~(j = k /\ m = n) /\ ~Grants(globalSem, d)
                       /\ drain'[j][m].phase = "vaultHeld"
  <2>. SUFFICES ASSUME Grants(V, d)
                PROVE  ~(j = k /\ m = n) /\ ~Grants(globalSem, d) /\ drain'[j][m].phase = "vaultHeld"
    OBVIOUS
  <2>1. ~(j = k /\ m = n) /\ ~Grants(globalSem, d)
    BY <1>3, <1>4, <1>7
  <2>2. drain'[j][m] = [drain[j][m] EXCEPT !.phase = "vaultHeld"]
    BY <1>5, <1>6, <2>1
  <2>. QED
    BY <1>8, <2>1, <2>2
<1>. QED
  BY <1>3, <1>4, <1>5, <1>7, <1>9, <1>10

LEMMA HandledLimits ==
  ASSUME TypeOK, Queues, Limits, NEW k \in Key, NEW n \in Ticket, Handled(k, n)
  PROVE  Limits'
<1>. DEFINE x == <<k, n>>
            V == vaultSem[VaultOf[k]]
<1>1. Leave(k, n) /\ drain[k][n].phase = "running"
  BY DEF Handled
<1>2. /\ globalSem' = Release(globalSem)
      /\ vaultSem' = [vaultSem EXCEPT ![VaultOf[k]] = Release(V)]
  BY <1>1 DEF Leave
<1>3. /\ VaultOf[k] \in Vault /\ V \in Sem /\ globalSem \in Sem /\ vaultSem \in [Vault -> Sem]
      /\ x \in Key \X Ticket /\ drain'[k][n].phase = "settled"
  <2>1. drain[k][n] \in Drain /\ drain'[k][n] = [drain[k][n] EXCEPT !.phase = "settled"]
    BY <1>1, LeaveMoves DEF TypeOK
  <2>. QED
    BY <2>1, CoordinatorAssumption DEF TypeOK, Drain
<1>4. ASSUME NEW d \in Key \X Ticket, d # x
      PROVE  \/ drain'[d[1]][d[2]].phase = drain[d[1]][d[2]].phase
                /\ ~Grants(globalSem, d) /\ ~Grants(V, d)
             \/ /\ Grants(globalSem, d) /\ ~Grants(V, d)
                /\ drain[d[1]][d[2]].phase = "globalWait" /\ drain'[d[1]][d[2]].phase = "running"
             \/ /\ Grants(V, d) /\ VaultOf[d[1]] = VaultOf[k] /\ ~Grants(globalSem, d)
                /\ drain[d[1]][d[2]].phase = "vaultWait" /\ drain'[d[1]][d[2]].phase = "vaultHeld"
  <2>1. \/ drain'[d[1]][d[2]] = drain[d[1]][d[2]]
        \/ Grants(globalSem, d)
        \/ Grants(V, d)
    BY <1>1, <1>4, LeaveMoves
  <2>2. Grants(globalSem, d) =>
          drain[d[1]][d[2]].phase = "globalWait" /\ drain'[d[1]][d[2]].phase = "running"
    BY <1>1, LeaveGrants
  <2>3. Grants(V, d) => /\ drain[d[1]][d[2]].phase = "vaultWait" /\ VaultOf[d[1]] = VaultOf[k]
                        /\ drain'[d[1]][d[2]].phase = "vaultHeld"
    BY <1>1, LeaveGrants
  <2>. HIDE DEF V
  <2>. QED
    BY <2>1, <2>2, <2>3
<1>5. ASSUME NEW s \in Sem, s.waiters # <<>>
      PROVE  Head(s.waiters) \in Key \X Ticket /\ Grants(s, Head(s.waiters))
  BY <1>5 DEF Grants, Sem
<1>6. Full(globalSem', Held(drain', {"running"}, Key), GlobalConcurrency)
  <2>. DEFINE H == Held(drain, {"running"}, Key)
              y == Head(globalSem.waiters)
              I == IF globalSem.waiters # <<>> THEN (H \ {x}) \cup {y} ELSE H \ {x}
  <2>0. IsFiniteSet(H)
    BY HeldFinite
  <2>1. x \in H /\ Full(globalSem, H, GlobalConcurrency)
    BY <1>1, <1>3 DEF Held, Limits
  <2>2. globalSem.waiters # <<>> =>
          y \in Key \X Ticket /\ y # x /\ y \notin H /\ drain'[y[1]][y[2]].phase = "running"
    BY <1>1, <1>3, <1>5, LeaveGrants DEF Held
  <2>3. ASSUME NEW d \in Key \X Ticket
        PROVE  d \in Held(drain', {"running"}, Key) <=> d \in I
    <3>1. CASE d = x
      BY <1>3, <2>2, <3>1 DEF Held
    <3>2. CASE d # x
      <4>1. d[1] \in Key
        OBVIOUS
      <4>2. d \in Held(drain', {"running"}, Key) <=> d \in H \/ Grants(globalSem, d)
        BY <1>4, <3>2, <4>1 DEF Held
      <4>3. d \in I <=> d \in H \/ Grants(globalSem, d)
        BY <3>2 DEF Grants
      <4>. QED
        BY <4>2, <4>3
    <3>. QED
      BY <3>1, <3>2
  <2>4. Held(drain', {"running"}, Key) = I
    <3>1. Held(drain', {"running"}, Key) \subseteq Key \X Ticket /\ H \subseteq Key \X Ticket
      BY DEF Held
    <3>2. I \subseteq Key \X Ticket
      BY <2>2, <3>1
    <3>. QED
      BY <2>3, <3>1, <3>2
  <2>. HIDE DEF H, x
  <2>5. Full(Release(globalSem), I, GlobalConcurrency)
    BY <1>3, <2>0, <2>1, <2>2, Freed
  <2>. QED
    BY <1>2, <2>4, <2>5
<1>7. ASSUME NEW u \in Vault, u # VaultOf[k]
      PROVE  vaultSem'[u] = vaultSem[u] /\ Held(drain', Slot, KeysOf(u)) = Held(drain, Slot, KeysOf(u))
  <2>1. vaultSem'[u] = vaultSem[u]
    BY <1>2, <1>3, <1>7
  <2>2. ASSUME NEW d \in Key \X Ticket
        PROVE  d \in Held(drain', Slot, KeysOf(u)) <=> d \in Held(drain, Slot, KeysOf(u))
    <3>1. CASE d[1] \notin KeysOf(u)
      BY <3>1 DEF Held
    <3>2. CASE d[1] \in KeysOf(u)
      <4>1. d # x /\ VaultOf[d[1]] # VaultOf[k]
        BY <1>7, <3>2 DEF KeysOf
      <4>2. drain'[d[1]][d[2]].phase \in Slot <=> drain[d[1]][d[2]].phase \in Slot
        BY <1>4, <4>1 DEF Slot
      <4>. QED
        BY <4>2 DEF Held
    <3>. QED
      BY <3>1, <3>2
  <2>. QED
    BY <2>1, <2>2 DEF Held
<1>8. Full(vaultSem'[VaultOf[k]], Held(drain', Slot, KeysOf(VaultOf[k])), PerVaultConcurrency)
  <2>. DEFINE S == KeysOf(VaultOf[k])
              H == Held(drain, Slot, S)
              y == Head(V.waiters)
              I == IF V.waiters # <<>> THEN (H \ {x}) \cup {y} ELSE H \ {x}
  <2>0. k \in S
    BY DEF KeysOf
  <2>7. IsFiniteSet(H)
    BY HeldFinite
  <2>1. x \in H /\ Full(V, H, PerVaultConcurrency)
    BY <1>1, <1>3, <2>0 DEF Held, Limits, Slot
  <2>2. V.waiters # <<>> => y \in Key \X Ticket /\ y # x /\ y \notin H
    <3>. SUFFICES ASSUME V.waiters # <<>> PROVE y \in Key \X Ticket /\ y # x /\ y \notin H
      OBVIOUS
    <3>1. y \in Key \X Ticket /\ Grants(V, y)
      BY <1>3, <1>5
    <3>. HIDE DEF y
    <3>2. y # x /\ drain[y[1]][y[2]].phase = "vaultWait"
      BY <1>1, <3>1, LeaveGrants
    <3>. QED
      BY <3>1, <3>2 DEF Held, Slot
  <2>3. ASSUME NEW d \in Key \X Ticket
        PROVE  d \in Held(drain', Slot, S) <=> d \in I
    <3>1. CASE d = x
      BY <1>3, <2>2, <3>1 DEF Held, Slot
    <3>2. CASE d # x
      <4>1. d[1] \in Key
        OBVIOUS
      <4>2. d \in Held(drain', Slot, S) <=> d \in H \/ Grants(V, d)
        BY <1>4, <3>2, <4>1 DEF Held, Slot, KeysOf
      <4>3. d \in I <=> d \in H \/ Grants(V, d)
        BY <3>2 DEF Grants
      <4>. QED
        BY <4>2, <4>3
    <3>. QED
      BY <3>1, <3>2
  <2>4. Held(drain', Slot, S) = I
    <3>1. Held(drain', Slot, S) \subseteq Key \X Ticket /\ H \subseteq Key \X Ticket
      BY DEF Held
    <3>2. I \subseteq Key \X Ticket
      BY <2>2, <3>1
    <3>. QED
      BY <2>3, <3>1, <3>2
  <2>6. vaultSem'[VaultOf[k]] = Release(V)
    BY <1>2, <1>3
  <2>. HIDE DEF H, x, V
  <2>5. Full(Release(V), I, PerVaultConcurrency)
    BY <1>3, <2>1, <2>2, <2>7, Freed
  <2>. QED
    BY <2>4, <2>5, <2>6
<1>. QED
  BY <1>6, <1>7, <1>8 DEF Limits

LEMMA NextLimits ==
  ASSUME TypeOK, Queues, \A k \in Key : Ordered(k), Limits, [Next]_vars
  PROVE  Limits'
<1>1. ASSUME NEW k \in Key, NEW o, Submit(k, o) PROVE Limits'
  <2>. DEFINE r == [phase |-> "chained", after |-> chain[k], op |-> 0]
  <2>1. submits[k] + 1 \in Ticket /\ submits[k] \in Nat /\ Sets(k, submits[k] + 1, r)
    BY <1>1, SubmitSets, Counted
  <2>2. drain[k][submits[k] + 1].phase = "none"
    BY <2>1 DEF Ordered
  <2>3. drain[k][submits[k] + 1].phase \notin Slot /\ r.phase \notin Slot
    BY <2>2 DEF Slot
  <2>. QED
    BY <1>1, <2>1, <2>3, SetsLimits DEF Submit
<1>2. ASSUME NEW k \in Key, NEW n \in Ticket, DrainNothing(k, n) \/ Cleanup(k, n) PROVE Limits'
  <2>1. PICK ph \in {"settled", "done"} : drain' = [drain EXCEPT ![k][n].phase = ph]
    BY <1>2 DEF DrainNothing, Cleanup
  <2>2. Sets(k, n, [drain[k][n] EXCEPT !.phase = ph])
    BY <2>1, SetPhase DEF Phase
  <2>3. [drain[k][n] EXCEPT !.phase = ph].phase \notin Slot
    BY DEF TypeOK, Drain, Slot
  <2>4. drain[k][n].phase \notin Slot
    BY <1>2 DEF DrainNothing, Cleanup, Turn, Slot
  <2>5. UNCHANGED <<vaultSem, globalSem>>
    BY <1>2 DEF DrainNothing, Cleanup
  <2>. QED
    BY <2>2, <2>3, <2>4, <2>5, SetsLimits
<1>3. CASE Demote \/ Promote \/ UNCHANGED vars
  BY <1>3 DEF Demote, Promote, vars, work, Limits
<1>. QED
  BY <1>1, <1>2, <1>3, ClaimLimits, GlobalLimits, HandledLimits
  DEF Next, Step, SubmitTool, SubmitWatcher

LEMMA InitInv == Init => IInv
<1>. SUFFICES ASSUME Init PROVE IInv
  OBVIOUS
<1>1. TypeOK
  BY InitTyped
<1>2. Queues
  BY DEF Init, Queues, Queue
<1>3. ASSUME NEW k \in Key PROVE Life(k)
  <2>1. \A n \in Ticket : n \in Nat /\ n > 0
    BY DEF Ticket
  <2>2. /\ submits[k] = 0 /\ latest[k] = 0 /\ chain[k] = 0 /\ index[k] = 0
        /\ \A n \in Ticket : drain[k][n].phase = "none"
    BY DEF Init
  <2>. QED
    BY <2>1, <2>2 DEF Life, Ordered, Pending, Newer, Followed, Working, Begun
<1>. QED
  BY <1>1, <1>2, <1>3 DEF IInv

LEMMA NextInv == IInv /\ [Next]_vars => IInv'
BY NextTyped, NextQueues, NextLife DEF IInv, Life

LEMMA Invariant == Spec => []IInv
BY InitInv, NextInv, PTL DEF Spec

-----------------------------------------------------------------------------
(* The theorems.                                                           *)

\* The coordinator keeps its types: in particular no semaphore's count goes below zero.
THEOREM TypeCorrect == Spec => []TypeOK
<1>1. IInv => TypeOK
  BY DEF IInv
<1>. QED
  BY <1>1, Invariant, PTL

\* The index of a path never goes back to an older submission, however handlers, grants and
\* cleanups interleave.
THEOREM NewestKept == Spec => NewestWins
<1>1. IInv /\ [Next]_vars => [\A k \in Key : index'[k] >= index[k]]_vars
  BY NextLife
<1>. QED
  BY <1>1, Invariant, PTL DEF Spec, NewestWins

\* A key without a chain has nothing pending and no drain at work.
THEOREM IdleCorrect == Spec => []IdleIsIdle
<1>1. IInv => IdleIsIdle
  <2>. SUFFICES ASSUME IInv, NEW k \in Key, chain[k] = 0
                PROVE  latest[k] = 0 /\ \A n \in Ticket : drain[k][n].phase \in {"none", "done"}
    BY DEF IdleIsIdle
  <2>. QED
    BY Counted DEF IInv, Life, Pending
<1>. QED
  BY <1>1, Invariant, PTL

\* A key at rest has seen its last submission through.
THEOREM NothingLost == Spec => []NothingForgotten
<1>1. IInv => NothingForgotten
  <2>. SUFFICES ASSUME IInv, NEW k \in Key, chain[k] = 0, submits[k] > 0
                PROVE  fate[k][submits[k]] \in {"applied", "thrown", "dropped"}
    BY DEF NothingForgotten
  <2>1. /\ submits[k] # 0 /\ submits[k] \in Ticket
        /\ \A n \in Ticket : drain[k][n].phase \in {"none", "done"}
    BY Counted DEF IInv, Life, Pending
  <2>2. fate[k][submits[k]] # "pending"
    BY <2>1 DEF IInv, Life, Pending, Followed
  <2>3. fate[k][submits[k]] # "claimed"
    BY <2>1 DEF IInv, Life, Followed, Working
  <2>. QED
    BY <2>1, <2>2, <2>3 DEF IInv, Life, Followed, Final
<1>. QED
  BY <1>1, Invariant, PTL

\* However many paths change at once, no more handlers run than the limits allow: every permit
\* is free or held.
THEOREM LimitsKept == Spec => []WithinLimits
<1>1. Init => Limits
  <2>. SUFFICES ASSUME Init PROVE Limits
    OBVIOUS
  <2>1. ASSUME NEW P, NEW S, P \subseteq Slot PROVE Held(drain, P, S) = {}
    <3>1. \A d \in Key \X Ticket : drain[d[1]][d[2]].phase = "none"
      BY DEF Init
    <3>. QED
      BY <2>1, <3>1 DEF Held, Slot
  <2>2. Held(drain, {"running"}, Key) = {} /\ \A u \in Vault : Held(drain, Slot, KeysOf(u)) = {}
    BY <2>1 DEF Slot
  <2>3. /\ globalSem.permits = GlobalConcurrency
        /\ \A u \in Vault : vaultSem[u].permits = PerVaultConcurrency
    BY DEF Init
  <2>4. Cardinality({}) = 0 /\ GlobalConcurrency \in Nat /\ PerVaultConcurrency \in Nat
    BY FS_EmptySet, CoordinatorAssumption
  <2>5. GlobalConcurrency + 0 = GlobalConcurrency /\ PerVaultConcurrency + 0 = PerVaultConcurrency
    BY <2>4
  <2>. QED
    BY <2>2, <2>3, <2>4, <2>5 DEF Limits, Full
<1>2. IInv /\ Limits /\ [Next]_vars => Limits'
  BY NextLimits DEF IInv, Life
<1>3. IInv /\ Limits => WithinLimits
  <2>. SUFFICES ASSUME IInv, Limits PROVE WithinLimits
    OBVIOUS
  <2>1. globalSem.permits \in Nat /\ \A u \in Vault : vaultSem[u].permits \in Nat
    BY DEF IInv, TypeOK, Sem
  <2>2. Within({"running"}) = Held(drain, {"running"}, Key)
    BY DEF Within, Held
  <2>3. ASSUME NEW u \in Vault
        PROVE  {d \in Within({"vaultHeld", "globalWait", "running"}) : VaultOf[d[1]] = u}
                 = Held(drain, Slot, KeysOf(u))
    BY DEF Within, Held, Slot, KeysOf
  <2>4. Cardinality(Held(drain, {"running"}, Key)) <= GlobalConcurrency
    BY <2>1, HeldFinite, CoordinatorAssumption DEF Limits, Full
  <2>5. ASSUME NEW u \in Vault
        PROVE  Cardinality(Held(drain, Slot, KeysOf(u))) <= PerVaultConcurrency
    BY <2>1, HeldFinite, CoordinatorAssumption DEF Limits, Full
  <2>. QED
    BY <2>2, <2>3, <2>4, <2>5 DEF WithinLimits
<1>. QED
  BY <1>1, <1>2, <1>3, Invariant, PTL DEF Spec

\* A follower has no change of the watcher's pending.
THEOREM FollowerKeepsQuiet == Spec => []FollowerQuiet
<1>1. Init => FollowerQuiet
  BY DEF Init, FollowerQuiet
<1>2. TypeOK /\ FollowerQuiet /\ [Next]_vars => FollowerQuiet'
  <2>. SUFFICES ASSUME TypeOK, FollowerQuiet, [Next]_vars PROVE FollowerQuiet'
    OBVIOUS
  <2>1. ASSUME NEW k \in Key, SubmitTool(k) PROVE FollowerQuiet'
    BY <2>1 DEF SubmitTool, Submit, FollowerQuiet, TypeOK
  <2>2. ASSUME NEW k \in Key, SubmitWatcher(k) PROVE FollowerQuiet'
    BY <2>2 DEF SubmitWatcher, Submit, FollowerQuiet
  <2>3. ASSUME NEW k \in Key, NEW n \in Ticket, Step(k, n) PROVE FollowerQuiet'
    BY <2>3 DEF Step, DrainNothing, DrainClaim, DrainGlobal, Handled, Cleanup, FollowerQuiet, TypeOK
  <2>4. CASE Demote
    BY <2>4 DEF Demote, FollowerQuiet, TypeOK, Origin
  <2>5. CASE Promote \/ UNCHANGED vars
    BY <2>5 DEF Promote, vars, work, FollowerQuiet
  <2>. QED
    BY <2>1, <2>2, <2>3, <2>4, <2>5 DEF Next
<1>. QED
  BY <1>1, <1>2, TypeCorrect, PTL DEF Spec
=============================================================================
