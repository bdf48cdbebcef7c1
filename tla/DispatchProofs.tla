---------------------------- MODULE DispatchProofs ----------------------------
(***************************************************************************)
(* Proofs about Dispatch, for any workers, slots, tasks, claims and faults.*)
(*                                                                         *)
(* A claim is followed from the server's answer to the report of its       *)
(* outcome: every step of the pool moves it from one place to the next or  *)
(* loses it, and none makes a second copy (Once, Moves).  What the         *)
(* properties say of copies and reports then follows from the books the    *)
(* rows keep (RowInv) and from those kept of the stops.                    *)
(***************************************************************************)
EXTENDS Dispatch, TaskStoreProofs, WorkerPoolProofs

(***************************************************************************)
(* Where a claim can be: a copy of the task in a slot, in the channel or   *)
(* in the fetcher's hands, or the report of its outcome.                   *)
(***************************************************************************)
InSlot(w, s, c) == slots[w][s].pc \in {"starting", "running"} /\ slots[w][s].task = c
Queued(w, k, c) == k \in DOMAIN jobs[w] /\ jobs[w][k] = c
Held(w, c)      == fetch[w].task = c
Sent(m, c)      == m \in reports /\ m.task = c

IsRun(c)    == \E w \in Workers, s \in Slots : InSlot(w, s, c)
IsQueued(c) == \E w \in Workers : \E k \in DOMAIN jobs[w] : Queued(w, k, c)
IsHeld(c)   == \E w \in Workers : Held(w, c)
IsSent(c)   == \E m \in reports : Sent(m, c)

\* A claim is in one place.
Once(c) ==
  /\ \A w, v \in Workers, r, s \in Slots : InSlot(w, r, c) /\ InSlot(v, s, c) => w = v /\ r = s
  /\ \A w, v \in Workers : \A j \in DOMAIN jobs[w], k \in DOMAIN jobs[v] :
       Queued(w, j, c) /\ Queued(v, k, c) => w = v /\ j = k
  /\ \A w, v \in Workers : Held(w, c) /\ Held(v, c) => w = v
  /\ \A m, n \in reports : Sent(m, c) /\ Sent(n, c) => m = n
  /\ ~(IsRun(c) /\ IsQueued(c)) /\ ~(IsRun(c) /\ IsHeld(c)) /\ ~(IsRun(c) /\ IsSent(c))
  /\ ~(IsQueued(c) /\ IsHeld(c)) /\ ~(IsQueued(c) /\ IsSent(c)) /\ ~(IsHeld(c) /\ IsSent(c))

Alive(w, c) == \/ \E s \in Slots : InSlot(w, s, c)
               \/ \E k \in DOMAIN jobs[w] : Queued(w, k, c)
               \/ Held(w, c)

\* What worker w still owes the server for claim c.
Out(w, c) == Alive(w, c) \/ \E m \in reports : Sent(m, c) /\ m.worker = w

(***************************************************************************)
(* The books: what rows, claims and stops say of each other.               *)
(***************************************************************************)
\* Claims are numbered from one, without gaps, and an id that was not issued
\* has none.
Numbered ==
  /\ claims \in [Ids -> Nat]
  /\ nextId <= MaxId + 1
  /\ \A t \in Ids : t >= nextId => claims[t] = 0
  /\ \A w \in Workers, c \in Task : Out(w, c) => c.claim \in 1 .. claims[c.id]

\* Until a user restarts a task only its last claim is out, the row knows where,
\* and every claim but that one has been counted.
Ledger(t) == t \notin restarted =>
  /\ \A w \in Workers, c \in Task : Out(w, c) /\ c.id = t =>
       /\ tasks[t].worker = w
       /\ tasks[t].status \in {"running", "stopped"}
       /\ c.claim = claims[t]
  /\ tasks[t].status \in {"pending", "dead"} => claims[t] = tasks[t].retry
  /\ tasks[t].status \in {"running", "success"} => claims[t] = tasks[t].retry + 1
  /\ tasks[t].status = "stopped" => claims[t] \in {tasks[t].retry, tasks[t].retry + 1}

\* A claim that is out has not been counted yet.
OpenClaims(t) == {n \in 1 .. claims[t] :
                    n \in Claims /\ \E w \in Workers : Out(w, [id |-> t, claim |-> n])}

Budget(t) == tasks[t].retry + Cardinality(OpenClaims(t)) <= claims[t]

\* What is on a stop list was stopped while its last claim ran.
StopNoted(t) ==
  tasks[t].status = "stopped" /\ tasks[t].worker # NoWorker =>
    [id |-> t, claim |-> claims[t]] \in stopped

RowInv(t) == Ledger(t) /\ Budget(t) /\ StopNoted(t)

\* A stop is of a claim that was made, and of an earlier one than a claim that runs.
StopsPast ==
  \A c \in stopped :
    /\ c.id \in Ids /\ c.claim \in Nat /\ c.claim <= claims[c.id]
    /\ c.id \in DOMAIN tasks /\ tasks[c.id].status = "running" => c.claim # claims[c.id]

\* An id on the stop list a fetcher is working on was stopped at a claim not
\* older than any copy its process has.
StopsHeld ==
  \A w \in Workers : \A i \in fetch[w].stops :
    \E c \in stopped : /\ c.id = i
                       /\ \A d \in Task : Alive(w, d) /\ d.id = i => d.claim <= c.claim

DispatchInv ==
  /\ StoreInv
  /\ PoolInv
  /\ \A c \in Task : Once(c)
  /\ Numbered
  /\ \A t \in DOMAIN tasks : RowInv(t)
  /\ StopsPast
  /\ StopsHeld
  /\ StopsReachBack

(***************************************************************************)
(* What a step makes of the places of a claim.                             *)
(***************************************************************************)
Moves(c) ==
  /\ Once(c)'
  /\ \A w \in Workers : (Alive(w, c)' => Alive(w, c)) /\ (Out(w, c)' => Out(w, c))

\* The claim stays where it is, or is lost.
LEMMA Dropped ==
  ASSUME NEW c, Once(c),
         \A w \in Workers, s \in Slots : InSlot(w, s, c)' => InSlot(w, s, c),
         \A w \in Workers : \A k \in DOMAIN jobs'[w] : Queued(w, k, c)' => Queued(w, k, c),
         \A w \in Workers : Held(w, c)' => Held(w, c),
         reports' \subseteq reports
  PROVE  Moves(c)
<1>1. \A w \in Workers : \A k : Queued(w, k, c)' => Queued(w, k, c) /\ k \in DOMAIN jobs[w]
  BY DEF Queued
<1>2. /\ IsRun(c)' => IsRun(c)
      /\ IsQueued(c)' => IsQueued(c)
      /\ IsHeld(c)' => IsHeld(c)
      /\ \A m : Sent(m, c)' => Sent(m, c)
      /\ IsSent(c)' => IsSent(c)
  BY <1>1 DEF IsRun, IsQueued, IsHeld, IsSent, Sent
<1>3. Once(c)'
  BY <1>1, <1>2 DEF Once
<1>4. \A w \in Workers : (Alive(w, c)' => Alive(w, c)) /\ (Out(w, c)' => Out(w, c))
  BY <1>1, <1>2 DEF Alive, Out
<1> QED
  BY <1>3, <1>4 DEF Moves

\* The channel send: from the fetcher's hands to the end of the channel.
LEMMA EnqueueMoves ==
  ASSUME PoolInv, NEW c \in Task, Once(c), NEW w \in Workers, Enqueue(w)
  PROVE  Moves(c)
<1>1. /\ fetch[w].task \in Task /\ jobs[w] \in Seq(Task)
      /\ fetch' = [fetch EXCEPT ![w] = IdleFetch]
      /\ jobs' = [jobs EXCEPT ![w] = Append(jobs[w], fetch[w].task)]
      /\ UNCHANGED <<slots, reports>>
  BY DEF PoolInv, Hands, Shapes, Enqueue
<1> DEFINE last == Len(jobs[w]) + 1
<1>2. /\ DOMAIN jobs[w] = 1 .. (last - 1) /\ last \in Nat
      /\ DOMAIN Append(jobs[w], fetch[w].task) = 1 .. last
      /\ \A k \in 1 .. last : Append(jobs[w], fetch[w].task)[k] =
                                IF k = last THEN fetch[w].task ELSE jobs[w][k]
  BY <1>1
<1>3. /\ jobs'[w] = Append(jobs[w], fetch[w].task)
      /\ \A v \in Workers \ {w} : jobs'[v] = jobs[v]
  BY <1>1 DEF PoolInv, Shapes
<1>4. ASSUME NEW v \in Workers, NEW k
      PROVE  Queued(v, k, c)' <=> \/ Queued(v, k, c)
                                  \/ v = w /\ k = last /\ Held(w, c)
  BY <1>2, <1>3 DEF Queued, Held
<1>5. \A v \in Workers : Held(v, c)' <=> Held(v, c) /\ v # w
  BY <1>1, NoTaskIsNone DEF Held, IdleFetch, PoolInv, Shapes
<1>6. \A v \in Workers, s \in Slots : InSlot(v, s, c)' <=> InSlot(v, s, c)
  BY <1>1 DEF InSlot
<1>7. ~Queued(w, last, c)
  BY <1>2 DEF Queued
<1> HIDE DEF last
<1>8. \A v \in Workers : \A k : Queued(v, k, c) => k \in DOMAIN jobs[v]
  BY DEF Queued
<1>9. \A v \in Workers : \A k : Queued(v, k, c)' => k \in DOMAIN jobs'[v]
  BY DEF Queued
<1>10. /\ IsRun(c)' <=> IsRun(c)
       /\ IsSent(c)' <=> IsSent(c)
       /\ IsHeld(c)' => IsHeld(c)
       /\ IsQueued(c)' => IsQueued(c) \/ Held(w, c)
       /\ Held(w, c) => IsHeld(c) /\ ~IsHeld(c)'
  BY <1>1, <1>4, <1>5, <1>6, <1>8 DEF IsRun, IsSent, Sent, IsHeld, IsQueued, Once
<1>11. Once(c)'
  <2>1. Held(w, c) => \A v \in Workers : \A k : ~Queued(v, k, c)
    BY <1>8, <1>10 DEF Once, IsQueued
  <2>2. \A u, v \in Workers : \A j \in DOMAIN jobs'[u], k \in DOMAIN jobs'[v] :
          Queued(u, j, c)' /\ Queued(v, k, c)' => u = v /\ j = k
    BY <1>4, <1>8, <2>1 DEF Once
  <2>3. /\ \A u, v \in Workers, r, s \in Slots :
             InSlot(u, r, c)' /\ InSlot(v, s, c)' => u = v /\ r = s
        /\ \A u, v \in Workers : Held(u, c)' /\ Held(v, c)' => u = v
        /\ \A m, n \in reports' : Sent(m, c)' /\ Sent(n, c)' => m = n
    BY <1>1, <1>5, <1>6 DEF Once, Sent
  <2>4. IsHeld(c) => ~IsQueued(c) /\ ~IsRun(c) /\ ~IsSent(c)
    BY DEF Once
  <2>5. /\ ~(IsRun(c) /\ IsQueued(c)) /\ ~(IsRun(c) /\ IsSent(c)) /\ ~(IsQueued(c) /\ IsSent(c))
    BY DEF Once
  <2>6. /\ ~(IsRun(c)' /\ IsQueued(c)') /\ ~(IsRun(c)' /\ IsHeld(c)')
        /\ ~(IsRun(c)' /\ IsSent(c)') /\ ~(IsQueued(c)' /\ IsHeld(c)')
        /\ ~(IsQueued(c)' /\ IsSent(c)') /\ ~(IsHeld(c)' /\ IsSent(c)')
    BY <1>10, <2>4, <2>5
  <2> QED
    BY <2>2, <2>3, <2>6 DEF Once
<1>12. \A v \in Workers : Alive(v, c)' => Alive(v, c)
  BY <1>4, <1>5, <1>6, <1>8 DEF Alive
<1>13. \A v \in Workers : Out(v, c)' => Out(v, c)
  BY <1>1, <1>12 DEF Out, Sent
<1> QED
  BY <1>11, <1>12, <1>13 DEF Moves

\* An executor's receive: from the head of the channel to the slot.
LEMMA TakeMoves ==
  ASSUME PoolInv, NEW c \in Task, Once(c), NEW w \in Workers, NEW s \in Slots, Take(w, s)
  PROVE  Moves(c)
<1> DEFINE x == [pc |-> "starting", task |-> Head(jobs[w]),
                 ctx |-> IF life[w] = "up" THEN "live" ELSE "shutdown"]
<1>1. /\ jobs[w] \in Seq(Task) /\ jobs[w] # <<>>
      /\ jobs' = [jobs EXCEPT ![w] = Tail(jobs[w])]
      /\ slots' = [slots EXCEPT ![w][s] = x]
      /\ slots[w][s].pc = "idle"
      /\ UNCHANGED <<fetch, reports>>
  BY DEF PoolInv, Shapes, Take
<1>2. /\ DOMAIN jobs[w] = 1 .. Len(jobs[w]) /\ Len(jobs[w]) \in Nat \ {0}
      /\ DOMAIN Tail(jobs[w]) = 1 .. (Len(jobs[w]) - 1)
      /\ \A k \in 1 .. (Len(jobs[w]) - 1) : Tail(jobs[w])[k] = jobs[w][k + 1]
      /\ Head(jobs[w]) = jobs[w][1]
  BY <1>1
<1>3. jobs'[w] = Tail(jobs[w]) /\ \A v \in Workers \ {w} : jobs'[v] = jobs[v]
  BY <1>1 DEF PoolInv, Shapes
<1>4. \A v \in Workers, r \in Slots : slots'[v][r] = IF v = w /\ r = s THEN x ELSE slots[v][r]
  BY <1>1 DEF PoolInv, Shapes
<1>5. \A v \in Workers, r \in Slots :
        InSlot(v, r, c)' <=> IF v = w /\ r = s THEN Queued(w, 1, c) ELSE InSlot(v, r, c)
  BY <1>2, <1>4 DEF InSlot, Queued
<1>6. ~InSlot(w, s, c)
  BY <1>1 DEF InSlot
<1>7. ASSUME NEW v \in Workers, NEW k, Queued(v, k, c)'
      PROVE  IF v = w THEN k \in Nat \ {0} /\ Queued(w, k + 1, c) ELSE Queued(v, k, c)
  <2>1. k \in DOMAIN jobs'[v] /\ jobs'[v][k] = c
    BY <1>7 DEF Queued
  <2>2. CASE v = w
    <3>1. k \in 1 .. (Len(jobs[w]) - 1) /\ jobs[w][k + 1] = c
      BY <1>2, <1>3, <2>1, <2>2
    <3>2. k \in Nat \ {0} /\ k + 1 \in DOMAIN jobs[w]
      BY <1>2, <3>1
    <3> QED
      BY <2>2, <3>1, <3>2 DEF Queued
  <2>3. CASE v # w
    BY <1>3, <2>1, <2>3 DEF Queued
  <2> QED
    BY <2>2, <2>3
<1>8. \A v \in Workers : \A k : Queued(v, k, c) => k \in DOMAIN jobs[v]
  BY DEF Queued
<1>9. \A v \in Workers : Held(v, c)' <=> Held(v, c)
  BY <1>1 DEF Held
<1>10. /\ IsHeld(c)' <=> IsHeld(c)
       /\ IsSent(c)' <=> IsSent(c)
       /\ IsRun(c)' => IsRun(c) \/ Queued(w, 1, c)
       /\ IsQueued(c)' => IsQueued(c)
       /\ Queued(w, 1, c) => IsQueued(c)
  <2>1. IsQueued(c)' => IsQueued(c)
    BY <1>7, <1>8 DEF IsQueued
  <2>2. Queued(w, 1, c) => IsQueued(c)
    BY <1>8 DEF IsQueued
  <2>3. IsRun(c)' => IsRun(c) \/ Queued(w, 1, c)
    BY <1>5 DEF IsRun
  <2> QED
    BY <1>1, <1>9, <2>1, <2>2, <2>3 DEF IsHeld, IsSent, Sent
<1>11. Queued(w, 1, c) => ~IsQueued(c)'
  <2> SUFFICES ASSUME Queued(w, 1, c), NEW v \in Workers, NEW k, Queued(v, k, c)'
               PROVE  FALSE
    BY DEF IsQueued
  <2>1. CASE v = w
    <3>1. k \in Nat \ {0} /\ Queued(w, k + 1, c)
      BY <1>7, <2>1
    <3>2. k + 1 = 1
      BY <1>8, <3>1 DEF Once
    <3> QED
      BY <3>1, <3>2
  <2>2. CASE v # w
    <3>1. Queued(v, k, c)
      BY <1>7, <2>2
    <3> QED
      BY <1>8, <2>2, <3>1 DEF Once
  <2> QED
    BY <2>1, <2>2
<1> HIDE DEF x
<1>12. Once(c)'
  <2>1. \A u, v \in Workers, r, q \in Slots :
          InSlot(u, r, c)' /\ InSlot(v, q, c)' => u = v /\ r = q
    BY <1>5, <1>10 DEF Once, IsRun
  <2>2. ASSUME NEW u \in Workers, NEW v \in Workers, NEW j, NEW k,
               Queued(u, j, c)', Queued(v, k, c)'
        PROVE  u = v /\ j = k
    <3>1. u = v
      BY <1>7, <1>8, <2>2 DEF Once
    <3>2. CASE v = w
      <4>1. j \in Nat /\ k \in Nat /\ Queued(w, j + 1, c) /\ Queued(w, k + 1, c)
        BY <1>7, <2>2, <3>1, <3>2
      <4>2. j + 1 = k + 1
        BY <1>8, <4>1 DEF Once
      <4> QED
        BY <3>1, <4>1, <4>2
    <3>3. CASE v # w
      BY <1>7, <1>8, <2>2, <3>1, <3>3 DEF Once
    <3> QED
      BY <3>2, <3>3
  <2>3. /\ \A u, v \in Workers : Held(u, c)' /\ Held(v, c)' => u = v
        /\ \A m, n \in reports' : Sent(m, c)' /\ Sent(n, c)' => m = n
    BY <1>1, <1>9 DEF Once, Sent
  <2>4. IsQueued(c) => ~IsRun(c) /\ ~IsHeld(c) /\ ~IsSent(c)
    BY DEF Once
  <2>5. ~(IsRun(c) /\ IsHeld(c)) /\ ~(IsRun(c) /\ IsSent(c)) /\ ~(IsHeld(c) /\ IsSent(c))
    BY DEF Once
  <2>6. /\ ~(IsRun(c)' /\ IsQueued(c)') /\ ~(IsRun(c)' /\ IsHeld(c)')
        /\ ~(IsRun(c)' /\ IsSent(c)') /\ ~(IsQueued(c)' /\ IsHeld(c)')
        /\ ~(IsQueued(c)' /\ IsSent(c)') /\ ~(IsHeld(c)' /\ IsSent(c)')
    BY <1>10, <1>11, <2>4, <2>5
  <2> QED
    BY <2>1, <2>2, <2>3, <2>6 DEF Once
<1>13. \A v \in Workers : Alive(v, c)' => Alive(v, c)
  BY <1>5, <1>7, <1>8, <1>9 DEF Alive
<1>14. \A v \in Workers : Out(v, c)' => Out(v, c)
  BY <1>1, <1>13 DEF Out, Sent
<1> QED
  BY <1>12, <1>13, <1>14 DEF Moves

\* The end of a run: from the slot to the report, if one is sent.
LEMMA FinishMoves ==
  ASSUME PoolInv, NEW c \in Task, Once(c), NEW w \in Workers, NEW s \in Slots,
         NEW ok \in BOOLEAN, Finish(w, s, ok)
  PROVE  Moves(c)
<1> DEFINE x == [slots[w][s] EXCEPT !.pc = "reporting"]
           m == [worker |-> w, task |-> slots[w][s].task, ok |-> ok]
<1>1. /\ slots' = [slots EXCEPT ![w][s] = x] /\ x.pc = "reporting"
      /\ slots[w][s].pc = "running"
      /\ UNCHANGED <<fetch, jobs>>
      /\ reports' \subseteq reports \cup {m}
  BY DEF Finish, PoolInv, Shapes, SlotState
<1>2. \A v \in Workers, r \in Slots : slots'[v][r] = IF v = w /\ r = s THEN x ELSE slots[v][r]
  BY <1>1 DEF PoolInv, Shapes
<1> HIDE DEF x
<1>3. \A v \in Workers, r \in Slots :
        InSlot(v, r, c)' <=> InSlot(v, r, c) /\ ~(v = w /\ r = s)
  BY <1>1, <1>2 DEF InSlot
<1>4. \A n : Sent(n, c)' => Sent(n, c) \/ (n = m /\ InSlot(w, s, c))
  BY <1>1 DEF Sent, InSlot
<1>5. /\ m.worker = w
      /\ \A n : Sent(n, c) => n \in reports
      /\ \A n : Sent(n, c)' => n \in reports'
  BY DEF Sent
<1>6. /\ \A v \in Workers : Held(v, c)' <=> Held(v, c)
      /\ \A v \in Workers : \A k : Queued(v, k, c)' <=> Queued(v, k, c)
      /\ \A v \in Workers : DOMAIN jobs'[v] = DOMAIN jobs[v]
  BY <1>1 DEF Held, Queued
<1> HIDE DEF m
<1>7. /\ IsHeld(c)' <=> IsHeld(c)
      /\ IsQueued(c)' <=> IsQueued(c)
      /\ IsRun(c)' => IsRun(c)
      /\ IsSent(c)' => IsSent(c) \/ InSlot(w, s, c)
      /\ InSlot(w, s, c) => IsRun(c) /\ ~IsRun(c)'
  <2>1. IsHeld(c)' <=> IsHeld(c)
    BY <1>6 DEF IsHeld
  <2>2. IsQueued(c)' <=> IsQueued(c)
    BY <1>6 DEF IsQueued
  <2>3. (IsRun(c)' => IsRun(c)) /\ (InSlot(w, s, c) => IsRun(c) /\ ~IsRun(c)')
    BY <1>3 DEF IsRun, Once
  <2>4. IsSent(c)' => IsSent(c) \/ InSlot(w, s, c)
    BY <1>4, <1>5 DEF IsSent
  <2> QED
    BY <2>1, <2>2, <2>3, <2>4
<1>8. Once(c)'
  <2>1. IsRun(c) => ~IsQueued(c) /\ ~IsHeld(c) /\ ~IsSent(c)
    BY DEF Once
  <2>2. \A n, p \in reports' : Sent(n, c)' /\ Sent(p, c)' => n = p
    BY <1>4, <1>5, <1>7, <2>1 DEF Once, IsSent
  <2>3. /\ \A u, v \in Workers, r, q \in Slots :
             InSlot(u, r, c)' /\ InSlot(v, q, c)' => u = v /\ r = q
        /\ \A u, v \in Workers : Held(u, c)' /\ Held(v, c)' => u = v
        /\ \A u, v \in Workers : \A j \in DOMAIN jobs'[u], k \in DOMAIN jobs'[v] :
             Queued(u, j, c)' /\ Queued(v, k, c)' => u = v /\ j = k
    BY <1>3, <1>6 DEF Once
  <2>4. ~(IsQueued(c) /\ IsHeld(c)) /\ ~(IsQueued(c) /\ IsSent(c)) /\ ~(IsHeld(c) /\ IsSent(c))
    BY DEF Once
  <2>5. /\ ~(IsRun(c)' /\ IsQueued(c)') /\ ~(IsRun(c)' /\ IsHeld(c)')
        /\ ~(IsRun(c)' /\ IsSent(c)') /\ ~(IsQueued(c)' /\ IsHeld(c)')
        /\ ~(IsQueued(c)' /\ IsSent(c)') /\ ~(IsHeld(c)' /\ IsSent(c)')
    BY <1>7, <2>1, <2>4
  <2> QED
    BY <2>2, <2>3, <2>5 DEF Once
<1>9. \A v \in Workers : Alive(v, c)' => Alive(v, c)
  BY <1>3, <1>6 DEF Alive
<1>10. \A v \in Workers : Out(v, c)' => Out(v, c)
  BY <1>4, <1>5, <1>9 DEF Out, Alive
<1> QED
  BY <1>8, <1>9, <1>10 DEF Moves

\* A step of one slot that starts no copy.
LEMMA SlotMoves ==
  ASSUME PoolInv, NEW c \in Task, Once(c), NEW w \in Workers, NEW s \in Slots, NEW x,
         slots' = [slots EXCEPT ![w][s] = x],
         x.pc \in {"starting", "running"} =>
           slots[w][s].pc \in {"starting", "running"} /\ x.task = slots[w][s].task,
         UNCHANGED <<jobs, reports>>,
         \A v \in Workers : Held(v, c)' => Held(v, c)
  PROVE  Moves(c)
<1>1. \A v \in Workers, r \in Slots : slots'[v][r] = IF v = w /\ r = s THEN x ELSE slots[v][r]
  BY DEF PoolInv, Shapes
<1>2. \A v \in Workers, r \in Slots : InSlot(v, r, c)' => InSlot(v, r, c)
  BY <1>1 DEF InSlot
<1>3. \A v \in Workers : \A k : Queued(v, k, c)' => Queued(v, k, c)
  BY DEF Queued
<1> QED
  BY <1>2, <1>3, Dropped

\* A step of the fetcher that takes nothing into its hands.
LEMMA FetchMoves ==
  ASSUME PoolInv, NEW c \in Task, Once(c), NEW w \in Workers, NEW f,
         fetch' = [fetch EXCEPT ![w] = f],
         f.task = fetch[w].task \/ f.task = NoTask,
         UNCHANGED <<jobs, slots>>, reports' \subseteq reports
  PROVE  Moves(c)
<1>1. \A v \in Workers : Held(v, c)' => Held(v, c)
  BY NoTaskIsNone DEF Held, PoolInv, Shapes
<1>2. \A v \in Workers, s \in Slots : InSlot(v, s, c)' => InSlot(v, s, c)
  BY DEF InSlot
<1>3. \A v \in Workers : \A k : Queued(v, k, c)' => Queued(v, k, c)
  BY DEF Queued
<1> QED
  BY <1>1, <1>2, <1>3, Dropped

LEMMA StillMoves ==
  ASSUME NEW c \in Task, Once(c), UNCHANGED <<fetch, jobs, slots>>, reports' \subseteq reports
  PROVE  Moves(c)
<1>1. /\ \A v \in Workers : Held(v, c)' => Held(v, c)
      /\ \A v \in Workers, s \in Slots : InSlot(v, s, c)' => InSlot(v, s, c)
      /\ \A v \in Workers : \A k : Queued(v, k, c)' => Queued(v, k, c)
  BY DEF Held, InSlot, Queued
<1> QED
  BY <1>1, Dropped

\* cancelActive changes the ctx of a run, not its place.
LEMMA CancelMoves ==
  ASSUME PoolInv, NEW c \in Task, Once(c), NEW w \in Workers, NEW i \in Ids, CancelActive(w, i)
  PROVE  Moves(c)
<1>1. /\ fetch' = [fetch EXCEPT ![w] = [fetch[w] EXCEPT !.stops = @ \ {i}]]
      /\ fetch[w] \in FetchState
      /\ UNCHANGED <<jobs, reports>>
  BY DEF CancelActive, PoolInv, Shapes
<1>2. [fetch[w] EXCEPT !.stops = @ \ {i}].task = fetch[w].task
  BY <1>1 DEF FetchState
<1>3. \A v \in Workers : Held(v, c)' => Held(v, c)
  BY <1>1, <1>2 DEF Held, PoolInv, Shapes
<1>4. CASE i \notin DOMAIN active[w]
  BY <1>1, <1>2, <1>4, FetchMoves DEF CancelActive
<1>5. CASE i \in DOMAIN active[w]
  <2> DEFINE s == active[w][i]
             x == [slots[w][s] EXCEPT !.ctx = IF @ = "live" THEN "stopped" ELSE @]
  <2>1. s \in Slots /\ slots[w][s] \in SlotState
    BY <1>5 DEF PoolInv, Shapes, ActiveOK
  <2>2. slots' = [slots EXCEPT ![w][s] = x]
    BY <1>5 DEF CancelActive
  <2>3. x.pc = slots[w][s].pc /\ x.task = slots[w][s].task
    BY <2>1 DEF SlotState
  <2> HIDE DEF s, x
  <2> QED
    BY <1>1, <1>3, <2>1, <2>2, <2>3, SlotMoves
<1> QED
  BY <1>4, <1>5

LEMMA FetcherMoves ==
  ASSUME PoolInv, NEW c \in Task, Once(c), NEW w \in Workers,
         \/ FetcherStep(w) \/ PullFails(w) \/ ServerClaims(w, NoTask)
         \/ \E stops \in SUBSET Ids : ServerAnswers(w, stops)
  PROVE  Moves(c)
<1> DEFINE f == fetch[w]
<1>1. f \in FetchState
  BY DEF PoolInv, Shapes
<1>2. IdleFetch.task = NoTask
  BY DEF IdleFetch
<1>3. CASE Pull(w) \/ CloseJobs(w)
  <2>1. PICK p \in {"pulling", "closed"} :
          /\ fetch' = [fetch EXCEPT ![w] = [f EXCEPT !.pc = p]]
          /\ UNCHANGED <<jobs, slots, reports>>
    BY <1>3 DEF Pull, CloseJobs
  <2>2. [f EXCEPT !.pc = p].task = f.task
    BY <1>1 DEF FetchState
  <2> QED
    BY <2>1, <2>2, FetchMoves
<1>4. CASE PullFails(w) \/ AbandonSend(w)
  BY <1>2, <1>4, FetchMoves DEF PullFails, AbandonSend
<1>5. CASE StopListDone(w)
  <2>1. [f EXCEPT !.pc = "sending"].task = f.task
    BY <1>1 DEF FetchState
  <2> QED
    BY <1>2, <1>5, <2>1, FetchMoves DEF StopListDone
<1>6. CASE ServerClaims(w, NoTask)
  <2>1. [f EXCEPT !.pc = "claimed", !.task = NoTask].task = NoTask
    BY <1>1 DEF FetchState
  <2> QED
    BY <1>6, <2>1, FetchMoves DEF ServerClaims
<1>7. ASSUME NEW stops \in SUBSET Ids, ServerAnswers(w, stops)
      PROVE  Moves(c)
  <2>1. [f EXCEPT !.pc = "answered", !.stops = stops].task = f.task
    BY <1>1 DEF FetchState
  <2> QED
    BY <1>7, <2>1, FetchMoves DEF ServerAnswers
<1> QED
  BY <1>3, <1>4, <1>5, <1>6, <1>7, CancelMoves, EnqueueMoves DEF FetcherStep

LEMMA ExecutorMoves ==
  ASSUME PoolInv, NEW c \in Task, Once(c), NEW w \in Workers, NEW s \in Slots,
         ExecutorStep(w, s) \/ Expire(w, s)
  PROVE  Moves(c)
<1> DEFINE x == slots[w][s]
<1>1. x \in SlotState
  BY DEF PoolInv, Shapes
<1>2. fetch' = fetch /\ \A v \in Workers : Held(v, c)' => Held(v, c)
  BY DEF ExecutorStep, Expire, Take, Register, Finish, EndRun, ExitSlot, Held
<1>3. CASE Register(w, s)
  <2>1. [x EXCEPT !.pc = "running"].task = x.task /\ x.pc = "starting"
    BY <1>1, <1>3 DEF SlotState, Register
  <2> QED
    BY <1>2, <1>3, <2>1, SlotMoves DEF Register
<1>4. CASE Expire(w, s)
  <2>1. [x EXCEPT !.ctx = "expired"].task = x.task /\ [x EXCEPT !.ctx = "expired"].pc = x.pc
    BY <1>1 DEF SlotState
  <2> QED
    BY <1>2, <1>4, <2>1, SlotMoves DEF Expire
<1>5. CASE EndRun(w, s)
  BY <1>2, <1>5, SlotMoves DEF EndRun, IdleSlot
<1>6. CASE ExitSlot(w, s)
  <2>1. [x EXCEPT !.pc = "exited"].pc = "exited"
    BY <1>1 DEF SlotState
  <2> QED
    BY <1>2, <1>6, <2>1, SlotMoves DEF ExitSlot
<1> QED
  BY <1>3, <1>4, <1>5, <1>6, TakeMoves, FinishMoves DEF ExecutorStep

LEMMA ProcessMoves ==
  ASSUME PoolInv, NEW c \in Task, Once(c), NEW w \in Workers, ProcessStep(w)
  PROVE  Moves(c)
<1>1. CASE Boot(w)
  BY <1>1, StillMoves DEF Boot
<1>2. CASE ProcessExit(w) \/ Crash(w)
  <2>1. /\ fetch' = [fetch EXCEPT ![w] = IdleFetch]
        /\ jobs' = [jobs EXCEPT ![w] = <<>>]
        /\ slots' = [slots EXCEPT ![w] = [s \in Slots |-> IdleSlot]]
        /\ UNCHANGED reports
    BY <1>2 DEF ProcessExit, Crash, ClearMemory
  <2>2. \A v \in Workers : Held(v, c)' => Held(v, c)
    BY <2>1, NoTaskIsNone DEF Held, IdleFetch, PoolInv, Shapes
  <2>3. \A v \in Workers, s \in Slots : InSlot(v, s, c)' => InSlot(v, s, c)
    BY <2>1 DEF InSlot, IdleSlot, PoolInv, Shapes
  <2>4. \A v \in Workers : \A k : Queued(v, k, c)' => Queued(v, k, c)
    <3>1. DOMAIN <<>> = {}
      OBVIOUS
    <3> QED
      BY <2>1, <3>1 DEF Queued, PoolInv, Shapes
  <2> QED
    BY <2>1, <2>2, <2>3, <2>4, Dropped
<1>3. CASE Sigterm(w)
  <2> DEFINE y(s) == IF slots[w][s].pc \in Busy /\ slots[w][s].ctx = "live"
                     THEN [slots[w][s] EXCEPT !.ctx = "shutdown"]
                     ELSE slots[w][s]
  <2>1. slots' = [slots EXCEPT ![w] = [s \in Slots |-> y(s)]] /\ UNCHANGED <<fetch, jobs, reports>>
    BY <1>3 DEF Sigterm
  <2>2. ASSUME NEW s \in Slots
        PROVE  y(s).pc = slots[w][s].pc /\ y(s).task = slots[w][s].task
    <3>1. slots[w][s] \in SlotState
      BY DEF PoolInv, Shapes
    <3> QED
      BY <3>1 DEF SlotState
  <2> HIDE DEF y
  <2>3. \A v \in Workers, s \in Slots : InSlot(v, s, c)' => InSlot(v, s, c)
    BY <2>1, <2>2 DEF InSlot, PoolInv, Shapes
  <2>4. /\ \A v \in Workers : Held(v, c)' => Held(v, c)
        /\ \A v \in Workers : \A k : Queued(v, k, c)' => Queued(v, k, c)
    BY <2>1 DEF Held, Queued
  <2> QED
    BY <2>1, <2>3, <2>4, Dropped
<1> QED
  BY <1>1, <1>2, <1>3 DEF ProcessStep

\* The server dies: the pulls it had not answered, and the reports it had not
\* handled, are lost.
ServerLoss ==
  /\ reports' = {}
  /\ fetch' = [w \in Workers |-> IF fetch[w].pc \in {"pulling", "claimed"}
                                 THEN IdleFetch ELSE fetch[w]]
  /\ UNCHANGED <<life, jobs, slots, active>>

LEMMA ServerLossSafe ==
  ASSUME PoolInv, ServerLoss
  PROVE  PoolInv' /\ \A c \in Task : Once(c) => Moves(c)
<1>1. \A w \in Workers : fetch'[w] = fetch[w] \/ fetch'[w] = IdleFetch
  BY DEF ServerLoss
<1>2. fetch' \in [Workers -> FetchState]
  BY <1>1, IdleShapes DEF ServerLoss, PoolInv, Shapes
<1>3. Shapes'
  BY <1>2 DEF ServerLoss, PoolInv, Shapes
<1>4. Hands'
  BY <1>1 DEF ServerLoss, PoolInv, Hands, IdleFetch
<1>5. ActiveIsLive'
  BY DEF ServerLoss, PoolInv, ActiveIsLive
<1>6. ASSUME NEW c \in Task, Once(c)
      PROVE  Moves(c)
  <2>1. \A v \in Workers : Held(v, c)' => Held(v, c)
    BY <1>1, NoTaskIsNone DEF Held, IdleFetch
  <2>2. /\ \A v \in Workers, s \in Slots : InSlot(v, s, c)' => InSlot(v, s, c)
        /\ \A v \in Workers : \A k : Queued(v, k, c)' => Queued(v, k, c)
    BY DEF ServerLoss, InSlot, Queued
  <2>3. reports' \subseteq reports
    BY DEF ServerLoss
  <2> QED
    BY <1>6, <2>1, <2>2, <2>3, Dropped
<1> QED
  BY <1>3, <1>4, <1>5, <1>6 DEF PoolInv

\* Every step of the pool but a claim.
NoClaim ==
  \/ \E w \in Workers :
       \/ FetcherStep(w)
       \/ \E s \in Slots : ExecutorStep(w, s) \/ Expire(w, s)
       \/ ProcessStep(w)
       \/ PullFails(w)
       \/ ServerClaims(w, NoTask)
       \/ ServerAnswers(w, StopList(w))
  \/ UNCHANGED <<life, fetch, jobs, slots, active>> /\ reports' \subseteq reports
  \/ ServerLoss

LEMMA NoClaimSafe ==
  ASSUME PoolInv, NoClaim, \A w \in Workers : StopList(w) \in SUBSET Ids
  PROVE  PoolInv' /\ \A c \in Task : Once(c) => Moves(c)
<1>1. PoolInv'
  <2>1. CASE UNCHANGED <<life, fetch, jobs, slots, active>> /\ reports' \subseteq reports
    BY <2>1, ReportGoneSafe
  <2>2. CASE ServerLoss
    BY <2>2, ServerLossSafe
  <2>3. ASSUME NEW w \in Workers,
               \/ FetcherStep(w)
               \/ \E s \in Slots : ExecutorStep(w, s) \/ Expire(w, s)
               \/ ProcessStep(w)
               \/ PullFails(w)
               \/ ServerClaims(w, NoTask)
               \/ ServerAnswers(w, StopList(w))
        PROVE  PoolInv'
    <3>1. PoolNext
      BY <2>3 DEF PoolNext, AnyServer
    <3> QED
      BY <3>1, StepPool
  <2> QED
    BY <2>1, <2>2, <2>3 DEF NoClaim
<1>2. ASSUME NEW c \in Task, Once(c)
      PROVE  Moves(c)
  BY <1>2, FetcherMoves, ExecutorMoves, ProcessMoves, StillMoves, ServerLossSafe DEF NoClaim
<1> QED
  BY <1>1, <1>2

\* A claim that was nowhere is in the hands of the fetcher that asked.
LEMMA ClaimMoves ==
  ASSUME PoolInv, NEW w \in Workers, NEW c \in Task, ServerClaims(w, c),
         \A v \in Workers : ~Out(v, c), \A d \in Task : Once(d)
  PROVE  /\ PoolInv'
         /\ \A d \in Task : Once(d)'
         /\ \A d \in Task, v \in Workers :
              /\ Alive(v, d)' => Alive(v, d) \/ (v = w /\ d = c)
              /\ Out(v, d)' => Out(v, d) \/ (v = w /\ d = c)
<1>1. PoolInv'
  BY FetcherSafe
<1>2. /\ fetch' = [fetch EXCEPT ![w] = [fetch[w] EXCEPT !.pc = "claimed", !.task = c]]
      /\ UNCHANGED <<jobs, slots, reports>>
      /\ fetch[w] \in FetchState /\ fetch[w].task = NoTask
  BY DEF ServerClaims, PoolInv, Shapes, Hands
<1>3. /\ fetch'[w].task = c
      /\ \A v \in Workers \ {w} : fetch'[v] = fetch[v]
  BY <1>2 DEF FetchState, PoolInv, Shapes
<1>4. ASSUME NEW d \in Task
      PROVE  /\ \A v \in Workers : Held(v, d)' <=> Held(v, d) \/ (v = w /\ d = c)
             /\ \A v \in Workers, s \in Slots : InSlot(v, s, d)' <=> InSlot(v, s, d)
             /\ \A v \in Workers : \A k : Queued(v, k, d)' <=> Queued(v, k, d)
             /\ \A v \in Workers : DOMAIN jobs'[v] = DOMAIN jobs[v]
             /\ \A m : Sent(m, d)' <=> Sent(m, d)
  BY <1>2, <1>3, NoTaskIsNone DEF Held, InSlot, Queued, Sent
<1>5. ASSUME NEW d \in Task, d # c
      PROVE  Moves(d)
  BY <1>2, <1>4, <1>5, Dropped
<1>6. ~IsRun(c)' /\ ~IsQueued(c)' /\ ~IsSent(c)'
  <2>1. ~IsRun(c)'
    BY <1>4 DEF IsRun, Out, Alive
  <2>2. ~IsQueued(c)'
    BY <1>4 DEF IsQueued, Out, Alive
  <2>3. ~IsSent(c)'
    BY <1>2, <1>4 DEF IsSent, Out, PoolInv, Shapes
  <2> QED
    BY <2>1, <2>2, <2>3
<1>7. Once(c)'
  <2>1. \A v \in Workers : Held(v, c)' => v = w
    BY <1>4 DEF Out, Alive
  <2> QED
    BY <1>6, <2>1 DEF Once, IsRun, IsQueued, IsSent
<1>8. ASSUME NEW v \in Workers
      PROVE  (Alive(v, c)' => v = w) /\ (Out(v, c)' => v = w)
  BY <1>2, <1>4 DEF Alive, Out
<1> QED
  BY <1>1, <1>5, <1>7, <1>8 DEF Moves

(***************************************************************************)
(* What being in one place gives.                                          *)
(***************************************************************************)
LEMMA OutAtOne ==
  ASSUME PoolInv, NEW c \in Task, Once(c), NEW w \in Workers, NEW v \in Workers,
         Out(w, c), Out(v, c)
  PROVE  w = v
<1>1. \A u \in Workers : \A k : Queued(u, k, c) => k \in DOMAIN jobs[u]
  BY DEF Queued
<1>2. \A m : Sent(m, c) => m \in reports
  BY DEF Sent
<1>3. ASSUME NEW u \in Workers, Out(u, c)
      PROVE  \/ IsRun(c) /\ \E s \in Slots : InSlot(u, s, c)
             \/ IsQueued(c) /\ \E k \in DOMAIN jobs[u] : Queued(u, k, c)
             \/ IsHeld(c) /\ Held(u, c)
             \/ IsSent(c) /\ \E m \in reports : Sent(m, c) /\ m.worker = u
  BY <1>3 DEF Out, Alive, IsRun, IsQueued, IsHeld, IsSent
<1> QED
  BY <1>3 DEF Once

\* The report of a claim is the last of it.
LEMMA ReportIsLast ==
  ASSUME PoolInv, NEW m \in reports, Once(m.task),
         UNCHANGED <<fetch, jobs, slots>>, reports' = reports \ {m},
         NEW w \in Workers
  PROVE  Out(m.worker, m.task) /\ ~Out(w, m.task)'
<1> DEFINE c == m.task
<1>1. Sent(m, c) /\ IsSent(c)
  BY DEF Sent, IsSent
<1>2. Out(m.worker, c)
  BY <1>1 DEF Out
<1>3. ~IsRun(c) /\ ~IsQueued(c) /\ ~IsHeld(c)
  BY <1>1 DEF Once
<1>4. ~Alive(w, c)'
  BY <1>3 DEF Alive, InSlot, Queued, Held, IsRun, IsQueued, IsHeld
<1>5. \A n \in reports' : ~Sent(n, c)'
  BY <1>1 DEF Once, Sent
<1> QED
  BY <1>2, <1>4, <1>5 DEF Out

LEMMA AtMostOne ==
  ASSUME NEW S, \A x, y \in S : x = y
  PROVE  /\ Cardinality(S) \in {0, 1}
         /\ Cardinality(S) # 0 <=> \E x : x \in S
<1>1. CASE S = {}
  BY <1>1, FS_EmptySet
<1>2. CASE S # {}
  <2>1. PICK x \in S : S = {x}
    BY <1>2
  <2>2. Cardinality(S) = 1
    BY <2>1, FS_Singleton
  <2> QED
    BY <2>1, <2>2
<1> QED
  BY <1>1, <1>2

\* LiveAt counts at most one copy of a claim.
LEMMA LiveAtMeaning ==
  ASSUME PoolInv, NEW c \in Task, Once(c), NEW w \in Workers
  PROVE  LiveAt(w, c) \in {0, 1} /\ (LiveAt(w, c) # 0 <=> Alive(w, c))
<1> DEFINE S == {s \in Slots : slots[w][s].pc \in {"starting", "running"} /\ slots[w][s].task = c}
           J == {k \in DOMAIN jobs[w] : jobs[w][k] = c}
           F == IF fetch[w].task = c THEN 1 ELSE 0
<1>1. \A s : s \in S <=> s \in Slots /\ InSlot(w, s, c)
  BY DEF InSlot
<1>2. \A k : k \in J <=> k \in DOMAIN jobs[w] /\ Queued(w, k, c)
  BY DEF Queued
<1>3. F \in {0, 1} /\ (F # 0 <=> Held(w, c))
  BY DEF Held
<1> HIDE DEF S, J, F
<1>4. Cardinality(S) \in {0, 1} /\ (Cardinality(S) # 0 <=> \E s : s \in S)
  <2>1. \A r, s \in S : r = s
    BY <1>1 DEF Once
  <2> QED
    BY <2>1, AtMostOne
<1>5. Cardinality(J) \in {0, 1} /\ (Cardinality(J) # 0 <=> \E k : k \in J)
  <2>1. \A j, k \in J : j = k
    BY <1>2 DEF Once
  <2> QED
    BY <2>1, AtMostOne
<1>6. /\ (\E s : s \in S) => IsRun(c)
      /\ (\E k : k \in J) => IsQueued(c)
      /\ F # 0 => IsHeld(c)
  BY <1>1, <1>2, <1>3 DEF IsRun, IsQueued, IsHeld
<1>7. Alive(w, c) <=> (\E s : s \in S) \/ (\E k : k \in J) \/ F # 0
  BY <1>1, <1>2, <1>3 DEF Alive
<1>8. /\ ~(IsRun(c) /\ IsQueued(c)) /\ ~(IsRun(c) /\ IsHeld(c)) /\ ~(IsQueued(c) /\ IsHeld(c))
  BY DEF Once
<1>9. LiveAt(w, c) = Cardinality(S) + Cardinality(J) + F
  BY DEF LiveAt, S, J, F
<1> QED
  BY <1>3, <1>4, <1>5, <1>6, <1>7, <1>8, <1>9

(***************************************************************************)
(* Where stop lists and cancelled runs come from.                          *)
(***************************************************************************)
Cancelled(w, s) == slots[w][s].pc = "running" /\ slots[w][s].ctx = "stopped"

\* A slot is only cancelled when its id is on the list its fetcher works on.
Cancels(w, s) ==
  Cancelled(w, s)' =>
    /\ slots[w][s].pc = "running" /\ slots'[w][s].task = slots[w][s].task
    /\ Cancelled(w, s) \/ slots[w][s].task.id \in fetch[w].stops

Lists(w) == fetch'[w].stops \subseteq fetch[w].stops \cup StopList(w)

StopFrame == \A w \in Workers : Lists(w) /\ \A s \in Slots : Cancels(w, s)

LEMMA CancelFrame ==
  ASSUME PoolInv, NEW w \in Workers, NEW i \in Ids, CancelActive(w, i)
  PROVE  StopFrame
<1>1. \A v \in Workers : Lists(v)
  <2>1. /\ fetch[w] \in FetchState
        /\ fetch' = [fetch EXCEPT ![w] = [fetch[w] EXCEPT !.stops = @ \ {i}]]
    BY DEF CancelActive, PoolInv, Shapes
  <2>2. [fetch[w] EXCEPT !.stops = @ \ {i}].stops = fetch[w].stops \ {i}
    BY <2>1 DEF FetchState
  <2> QED
    BY <2>1, <2>2 DEF Lists, PoolInv, Shapes
<1>2. ASSUME NEW v \in Workers, NEW s \in Slots
      PROVE  Cancels(v, s)
  <2>1. CASE i \notin DOMAIN active[w]
    BY <2>1 DEF CancelActive, Cancels, Cancelled
  <2>2. CASE i \in DOMAIN active[w]
    <3> DEFINE r == active[w][i]
               x == [slots[w][r] EXCEPT !.ctx = IF @ = "live" THEN "stopped" ELSE @]
    <3>1. r \in Slots /\ slots[w][r] \in SlotState /\ slots[w][r].task.id = i
      BY <2>2 DEF PoolInv, Shapes, ActiveOK, ActiveIsLive
    <3>2. slots' = [slots EXCEPT ![w][r] = x] /\ i \in fetch[w].stops
      BY <2>2 DEF CancelActive
    <3>3. x.pc = slots[w][r].pc /\ x.task = slots[w][r].task
      BY <3>1 DEF SlotState
    <3>4. slots'[v][s] = IF v = w /\ s = r THEN x ELSE slots[v][s]
      BY <3>1, <3>2 DEF PoolInv, Shapes
    <3> HIDE DEF r, x
    <3> QED
      BY <3>1, <3>2, <3>3, <3>4 DEF Cancels, Cancelled
  <2> QED
    BY <2>1, <2>2
<1> QED
  BY <1>1, <1>2 DEF StopFrame

LEMMA FetcherFrame ==
  ASSUME PoolInv, NEW w \in Workers,
         \/ Pull(w) \/ PullFails(w) \/ StopListDone(w) \/ AbandonSend(w) \/ CloseJobs(w)
         \/ Enqueue(w) \/ ServerAnswers(w, StopList(w))
         \/ \E task : ServerClaims(w, task)
  PROVE  StopFrame
<1>1. slots' = slots
  BY DEF Pull, PullFails, StopListDone, AbandonSend, CloseJobs, Enqueue, ServerAnswers,
         ServerClaims
<1>2. fetch[w] \in FetchState /\ IdleFetch.stops = {}
  BY DEF PoolInv, Shapes, IdleFetch
<1>3. \E f : /\ fetch' = [fetch EXCEPT ![w] = f]
             /\ f.stops \subseteq fetch[w].stops \cup StopList(w)
  <2>1. CASE ServerAnswers(w, StopList(w))
    <3>1. [fetch[w] EXCEPT !.pc = "answered", !.stops = StopList(w)].stops = StopList(w)
      BY <1>2 DEF FetchState
    <3> QED
      BY <2>1, <3>1 DEF ServerAnswers
  <2>2. CASE \E task : ServerClaims(w, task)
    <3>1. PICK task : ServerClaims(w, task)
      BY <2>2
    <3>2. [fetch[w] EXCEPT !.pc = "claimed", !.task = task].stops = fetch[w].stops
      BY <1>2 DEF FetchState
    <3> QED
      BY <3>1, <3>2 DEF ServerClaims
  <2>3. CASE PullFails(w) \/ AbandonSend(w) \/ Enqueue(w)
    BY <1>2, <2>3 DEF PullFails, AbandonSend, Enqueue
  <2>4. CASE Pull(w) \/ CloseJobs(w)
    <3>1. \A p : [fetch[w] EXCEPT !.pc = p].stops = fetch[w].stops
      BY <1>2 DEF FetchState
    <3> QED
      BY <2>4, <3>1 DEF Pull, CloseJobs
  <2>5. CASE StopListDone(w)
    <3>1. [fetch[w] EXCEPT !.pc = "sending"].stops = fetch[w].stops
      BY <1>2 DEF FetchState
    <3> QED
      BY <1>2, <2>5, <3>1 DEF StopListDone
  <2> QED
    BY <2>1, <2>2, <2>3, <2>4, <2>5
<1>4. \A v \in Workers : Lists(v)
  BY <1>3 DEF Lists, PoolInv, Shapes
<1>5. \A v \in Workers, s \in Slots : Cancels(v, s)
  BY <1>1 DEF Cancels, Cancelled
<1> QED
  BY <1>4, <1>5 DEF StopFrame

\* A step of one slot that does not cancel it.
LEMMA SlotFrame ==
  ASSUME PoolInv, NEW w \in Workers, NEW s \in Slots, NEW y,
         slots' = [slots EXCEPT ![w][s] = y],
         ~(y.pc = "running" /\ y.ctx = "stopped"), fetch' = fetch
  PROVE  StopFrame
<1>1. \A v \in Workers, r \in Slots : slots'[v][r] = IF v = w /\ r = s THEN y ELSE slots[v][r]
  BY DEF PoolInv, Shapes
<1>2. \A v \in Workers, r \in Slots : Cancels(v, r)
  BY <1>1 DEF Cancels, Cancelled
<1> QED
  BY <1>2 DEF StopFrame, Lists

LEMMA ExecutorFrame ==
  ASSUME PoolInv, NEW w \in Workers, NEW s \in Slots, ExecutorStep(w, s) \/ Expire(w, s)
  PROVE  StopFrame
<1> DEFINE x == slots[w][s]
<1>1. x \in SlotState /\ (x.pc = "starting" => x.ctx # "stopped")
  BY DEF PoolInv, Shapes, Hands
<1>2. fetch' = fetch
  BY DEF ExecutorStep, Expire, Take, Register, Finish, EndRun, ExitSlot
<1>3. CASE Take(w, s)
  BY <1>2, <1>3, SlotFrame DEF Take
<1>4. CASE Register(w, s)
  <2>1. [x EXCEPT !.pc = "running"].ctx = x.ctx /\ x.ctx # "stopped"
    BY <1>1, <1>4 DEF SlotState, Register
  <2> QED
    BY <1>2, <1>4, <2>1, SlotFrame DEF Register
<1>5. CASE Expire(w, s)
  <2>1. [x EXCEPT !.ctx = "expired"].ctx = "expired"
    BY <1>1 DEF SlotState
  <2> QED
    BY <1>2, <1>5, <2>1, SlotFrame DEF Expire
<1>6. CASE \E ok \in BOOLEAN : Finish(w, s, ok)
  <2>1. [x EXCEPT !.pc = "reporting"].pc = "reporting"
    BY <1>1 DEF SlotState
  <2> QED
    BY <1>2, <1>6, <2>1, SlotFrame DEF Finish
<1>7. CASE ExitSlot(w, s)
  <2>1. [x EXCEPT !.pc = "exited"].pc = "exited"
    BY <1>1 DEF SlotState
  <2> QED
    BY <1>2, <1>7, <2>1, SlotFrame DEF ExitSlot
<1>8. CASE EndRun(w, s)
  BY <1>2, <1>8, SlotFrame DEF EndRun, IdleSlot
<1> QED
  BY <1>3, <1>4, <1>5, <1>6, <1>7, <1>8 DEF ExecutorStep

LEMMA ProcessFrame ==
  ASSUME PoolInv, NEW w \in Workers, ProcessStep(w)
  PROVE  StopFrame
<1>1. CASE Boot(w)
  BY <1>1 DEF Boot, StopFrame, Lists, Cancels, Cancelled
<1>2. CASE ProcessExit(w) \/ Crash(w)
  <2>1. /\ fetch' = [fetch EXCEPT ![w] = IdleFetch]
        /\ slots' = [slots EXCEPT ![w] = [s \in Slots |-> IdleSlot]]
    BY <1>2 DEF ProcessExit, Crash, ClearMemory
  <2>2. \A v \in Workers : Lists(v)
    BY <2>1 DEF Lists, IdleFetch, PoolInv, Shapes
  <2>3. \A v \in Workers, s \in Slots : Cancels(v, s)
    BY <2>1 DEF Cancels, Cancelled, IdleSlot, PoolInv, Shapes
  <2> QED
    BY <2>2, <2>3 DEF StopFrame
<1>3. CASE Sigterm(w)
  <2> DEFINE y(s) == IF slots[w][s].pc \in Busy /\ slots[w][s].ctx = "live"
                     THEN [slots[w][s] EXCEPT !.ctx = "shutdown"]
                     ELSE slots[w][s]
  <2>1. slots' = [slots EXCEPT ![w] = [s \in Slots |-> y(s)]] /\ fetch' = fetch
    BY <1>3 DEF Sigterm
  <2>2. ASSUME NEW s \in Slots
        PROVE  y(s) = slots[w][s] \/ y(s).ctx = "shutdown"
    <3>1. slots[w][s] \in SlotState
      BY DEF PoolInv, Shapes
    <3> QED
      BY <3>1 DEF SlotState
  <2> HIDE DEF y
  <2>3. \A v \in Workers, s \in Slots : slots'[v][s] = slots[v][s] \/ slots'[v][s].ctx = "shutdown"
    BY <2>1, <2>2 DEF PoolInv, Shapes
  <2> QED
    BY <2>1, <2>3 DEF StopFrame, Lists, Cancels, Cancelled
<1> QED
  BY <1>1, <1>2, <1>3 DEF ProcessStep

LEMMA NoClaimFrame ==
  ASSUME PoolInv, NoClaim
  PROVE  StopFrame
<1>1. CASE UNCHANGED <<life, fetch, jobs, slots, active>>
  BY <1>1 DEF StopFrame, Lists, Cancels, Cancelled
<1>2. CASE ServerLoss
  <2>1. \A w \in Workers : fetch'[w].stops \subseteq fetch[w].stops
    BY <1>2 DEF ServerLoss, IdleFetch
  <2> QED
    BY <1>2, <2>1 DEF ServerLoss, StopFrame, Lists, Cancels, Cancelled
<1>3. ASSUME NEW w \in Workers, FetcherStep(w)
      PROVE  StopFrame
  BY <1>3, CancelFrame, FetcherFrame DEF FetcherStep
<1> QED
  BY <1>1, <1>2, <1>3, FetcherFrame, ExecutorFrame, ProcessFrame DEF NoClaim

(***************************************************************************)
(* The steps of Dispatch, by what they do to the pool and to the store.    *)
(***************************************************************************)
Quiet == NoClaim /\ UNCHANGED <<storeVars, history>>

ClaimOf(w, t) ==
  /\ t \in OldestDue
  /\ claims[t] + 1 \in Claims
  /\ ClaimPending(w, t)
  /\ ServerClaims(w, [id |-> t, claim |-> claims[t] + 1])
  /\ claims' = [claims EXCEPT ![t] = @ + 1]
  /\ UNCHANGED <<stopped, restarted>>

LEMMA IdsAre == Ids = 1 .. MaxId /\ MaxId \in Nat
<1>1. Ids = 1 .. MaxId
  BY DispatchConstants
<1>2. MaxId \in Nat
  BY StoreConstants
<1> QED
  BY <1>1, <1>2

LEMMA RowsAreIds ==
  ASSUME StoreInv, Numbered
  PROVE  DOMAIN tasks \subseteq Ids /\ \A w \in Workers : StopList(w) \in SUBSET Ids
<1>1. DOMAIN tasks \subseteq Ids
  BY IdsAre DEF StoreInv, Numbered
<1> QED
  BY <1>1 DEF StopList

LEMMA Steps ==
  ASSUME StoreInv, Numbered, [DispatchNext]_vars
  PROVE  \/ Quiet
         \/ CreateOnce
         \/ \E t \in DOMAIN tasks : Stop(t) \/ Restart(t) \/ DeleteTask(t)
         \/ \E w \in Workers, t \in OldestDue : ClaimOf(w, t)
         \/ \E m \in reports : HandleReport(m)
<1>1. CASE UNCHANGED vars
  BY <1>1 DEF vars, poolVars, Quiet, NoClaim
<1>2. CASE UserMay
  BY <1>2 DEF UserMay
<1>3. ASSUME NEW w \in Workers, WorkerRuns(w) \/ WorkerMay(w)
      PROVE  Quiet
  <2>1. UNCHANGED <<storeVars, history>>
    BY <1>3 DEF WorkerRuns, WorkerMay
  <2>2. NoClaim
    BY <1>3 DEF WorkerRuns, WorkerMay, NoClaim, ProcessStep
  <2> QED
    BY <2>1, <2>2 DEF Quiet
<1>4. ASSUME NEW w \in Workers, PullAnswers(w)
      PROVE  Quiet
  BY <1>4 DEF PullAnswers, Quiet, NoClaim
<1>5. ASSUME NEW w \in Workers, PullClaims(w)
      PROVE  Quiet \/ \E t \in OldestDue : ClaimOf(w, t)
  <2>1. CASE ClaimNothing /\ ServerClaims(w, NoTask) /\ UNCHANGED claims
    BY <1>5, <2>1 DEF PullClaims, ClaimNothing, Quiet, NoClaim, history
  <2>2. CASE \E t \in OldestDue :
               /\ claims[t] + 1 \in Claims
               /\ ClaimPending(w, t)
               /\ ServerClaims(w, [id |-> t, claim |-> claims[t] + 1])
               /\ claims' = [claims EXCEPT ![t] = @ + 1]
    BY <1>5, <2>2 DEF PullClaims, ClaimOf
  <2> QED
    BY <1>5, <2>1, <2>2 DEF PullClaims
<1>6. ASSUME NEW m \in reports, ReportLost(m)
      PROVE  Quiet
  BY <1>6 DEF ReportLost, ReportGone, Quiet, NoClaim
<1>7. CASE ServerRestart
  <2>1. ServerLoss /\ UNCHANGED <<storeVars, history>>
    BY <1>7 DEF ServerRestart, ServerLoss
  <2> QED
    BY <2>1 DEF Quiet, NoClaim
<1> QED
  BY <1>1, <1>2, <1>3, <1>4, <1>5, <1>6, <1>7 DEF DispatchNext

LEMMA StoreSteps ==
  ASSUME StoreInv, PoolInv, Numbered, [DispatchNext]_vars
  PROVE  [Next]_storeVars
<1>1. CASE Quiet
  BY <1>1 DEF Quiet
<1>2. CASE CreateOnce
  <2>1. PICK m \in RetriesOf[nextId] : Create("once", m, 0)
    BY <1>2 DEF CreateOnce
  <2>2. m \in MaxRetries
    BY <1>2, DispatchConstants DEF CreateOnce
  <2>3. QED
    BY <2>1, <2>2 DEF Next, UserStep
<1>3. CASE \E t \in DOMAIN tasks : Stop(t) \/ Restart(t) \/ DeleteTask(t)
  BY <1>3 DEF Stop, Restart, DeleteTask, Next, UserStep
<1>4. CASE \E w \in Workers, t \in OldestDue : ClaimOf(w, t)
  BY <1>4 DEF ClaimOf, Next, WorkerStep
<1>5. ASSUME NEW m \in reports, HandleReport(m)
      PROVE  [Next]_storeVars
  <2>1. /\ m.worker \in Reporters /\ m.ok \in BOOLEAN /\ m.task.id \in 1 .. MaxId
    BY DispatchConstants DEF PoolInv, Shapes, Task, Reporters
  <2> QED
    BY <1>5, <2>1 DEF HandleReport, Next, WorkerStep
<1> QED
  BY <1>1, <1>2, <1>3, <1>4, <1>5, Steps

(***************************************************************************)
(* Steps that claim nothing: every copy and report is an old one.          *)
(***************************************************************************)
OutShrinks ==
  \A w \in Workers, c \in Task : (Alive(w, c)' => Alive(w, c)) /\ (Out(w, c)' => Out(w, c))

LEMMA NoClaimShrinks ==
  ASSUME DispatchInv, NoClaim
  PROVE  PoolInv' /\ (\A c \in Task : Once(c)') /\ OutShrinks /\ StopFrame
<1>1. \A w \in Workers : StopList(w) \in SUBSET Ids
  BY RowsAreIds DEF DispatchInv
<1>2. PoolInv' /\ \A c \in Task : Moves(c)
  BY <1>1, NoClaimSafe DEF DispatchInv
<1>3. StopFrame
  BY NoClaimFrame DEF DispatchInv
<1> QED
  BY <1>2, <1>3 DEF Moves, OutShrinks

LEMMA NumberedKept ==
  ASSUME Numbered, StoreInv, OutShrinks, claims' = claims,
         nextId' = nextId \/ (nextId <= MaxId /\ nextId' = nextId + 1)
  PROVE  Numbered'
<1>1. nextId \in Nat /\ MaxId \in Nat /\ Ids \subseteq Nat
  BY IdsAre DEF StoreInv
<1>2. nextId <= nextId' /\ nextId' <= MaxId + 1 /\ nextId' \in Nat
  BY <1>1 DEF Numbered
<1>3. \A t \in Ids : t >= nextId' => claims[t] = 0
  BY <1>1, <1>2 DEF Numbered
<1> QED
  BY <1>2, <1>3 DEF Numbered, OutShrinks

LEMMA StopsKept ==
  ASSUME DispatchInv, OutShrinks, StopFrame, stopped \subseteq stopped'
  PROVE  StopsHeld' /\ StopsReachBack'
<1>1. StopsHeld'
  <2> SUFFICES ASSUME NEW w \in Workers, NEW i \in fetch'[w].stops
               PROVE  \E c \in stopped : /\ c.id = i
                                         /\ \A d \in Task : Alive(w, d)' /\ d.id = i =>
                                                              d.claim <= c.claim
    BY DEF StopsHeld
  <2>1. CASE i \in fetch[w].stops
    BY <2>1 DEF DispatchInv, StopsHeld, OutShrinks
  <2>2. CASE i \in StopList(w)
    <3> DEFINE c == [id |-> i, claim |-> claims[i]]
    <3>1. i \in DOMAIN tasks /\ tasks[i].status = "stopped" /\ tasks[i].worker = w
      BY <2>2 DEF StopList
    <3>2. c \in stopped
      BY <3>1, StoreConstants DEF DispatchInv, RowInv, StopNoted
    <3>3. \A d \in Task : Alive(w, d)' /\ d.id = i => d.claim <= c.claim
      BY PoolConstants DEF DispatchInv, Numbered, OutShrinks, Out, Task
    <3> QED
      BY <3>2, <3>3
  <2> QED
    BY <2>1, <2>2 DEF StopFrame, Lists
<1>2. StopsReachBack'
  <2> SUFFICES ASSUME NEW w \in Workers, NEW s \in Slots, Cancelled(w, s)'
               PROVE  \E c \in stopped : /\ c.id = slots'[w][s].task.id
                                         /\ c.claim >= slots'[w][s].task.claim
    BY DEF StopsReachBack, Cancelled
  <2>1. /\ slots[w][s].pc = "running" /\ slots'[w][s].task = slots[w][s].task
        /\ Cancelled(w, s) \/ slots[w][s].task.id \in fetch[w].stops
    BY DEF StopFrame, Cancels
  <2>2. CASE Cancelled(w, s)
    BY <2>1, <2>2 DEF DispatchInv, StopsReachBack, Cancelled
  <2>3. CASE slots[w][s].task.id \in fetch[w].stops
    <3>1. slots[w][s].task \in Task
      BY <2>1 DEF DispatchInv, PoolInv, Hands, Busy
    <3>2. Alive(w, slots[w][s].task)
      BY <2>1 DEF Alive, InSlot
    <3>3. PICK c \in stopped : c.id = slots[w][s].task.id /\ slots[w][s].task.claim <= c.claim
      BY <2>3, <3>1, <3>2 DEF DispatchInv, StopsHeld
    <3>4. slots[w][s].task.claim \in Nat /\ c.claim \in Nat
      BY <3>1, PoolConstants DEF Task, DispatchInv, StopsPast
    <3> QED
      BY <2>1, <3>3, <3>4
  <2> QED
    BY <2>1, <2>2, <2>3
<1> QED
  BY <1>1, <1>2

\* No step but a claim makes a row running.
NoStart ==
  \A t \in DOMAIN tasks' :
    tasks'[t].status = "running" => t \in DOMAIN tasks /\ tasks[t].status = "running"

LEMMA StopsPastKept ==
  ASSUME StopsPast, claims' = claims, NoStart,
         \A c \in stopped' : \/ c \in stopped
                             \/ /\ c.id \in Ids /\ c.claim = claims[c.id] /\ c.claim \in Nat
                                /\ ~(c.id \in DOMAIN tasks' /\ tasks'[c.id].status = "running")
  PROVE  StopsPast'
BY DEF StopsPast, NoStart

(***************************************************************************)
(* The books of one row.                                                   *)
(***************************************************************************)
LEMMA OpenIsFinite ==
  ASSUME Numbered, NEW t \in Ids
  PROVE  IsFiniteSet(OpenClaims(t)) /\ Cardinality(OpenClaims(t)) \in Nat
<1>1. IsFiniteSet(1 .. claims[t])
  BY FS_Interval DEF Numbered
<1>2. OpenClaims(t) \subseteq 1 .. claims[t]
  BY DEF OpenClaims
<1>3. IsFiniteSet(OpenClaims(t))
  BY <1>1, <1>2, FS_Subset
<1> QED
  BY <1>3, FS_CardinalityType

LEMMA OpenShrinks ==
  ASSUME Numbered, OutShrinks, NEW t \in Ids, claims'[t] = claims[t]
  PROVE  /\ OpenClaims(t)' \subseteq OpenClaims(t)
         /\ IsFiniteSet(OpenClaims(t)')
         /\ Cardinality(OpenClaims(t)') \in Nat
         /\ Cardinality(OpenClaims(t)') <= Cardinality(OpenClaims(t))
<1>1. \A n \in Claims : [id |-> t, claim |-> n] \in Task
  BY DEF Task
<1>2. OpenClaims(t)' \subseteq OpenClaims(t)
  BY <1>1 DEF OpenClaims, OutShrinks
<1>3. IsFiniteSet(OpenClaims(t)')
  BY <1>2, OpenIsFinite, FS_Subset
<1>4. Cardinality(OpenClaims(t)') \in Nat
  BY <1>3, FS_CardinalityType
<1>5. Cardinality(OpenClaims(t)') <= Cardinality(OpenClaims(t))
  BY <1>2, OpenIsFinite, FS_Subset
<1> QED
  BY <1>2, <1>3, <1>4, <1>5

\* A row that is not written keeps its books.
LEMMA RowKept ==
  ASSUME StoreInv, Numbered, NEW t \in DOMAIN tasks, t \in Ids, t \in DOMAIN tasks',
         tasks'[t] = tasks[t], claims'[t] = claims[t],
         stopped \subseteq stopped', restarted \subseteq restarted',
         OutShrinks, RowInv(t)
  PROVE  RowInv(t)'
<1>1. Ledger(t)'
  BY DEF RowInv, Ledger, OutShrinks
<1>2. Budget(t)'
  <2>1. tasks[t].retry \in Nat /\ claims[t] \in Nat
    BY DEF StoreInv, Good, Row, Numbered
  <2> QED
    BY <2>1, OpenShrinks, OpenIsFinite DEF RowInv, Budget
<1>3. StopNoted(t)'
  BY DEF RowInv, StopNoted
<1> QED
  BY <1>1, <1>2, <1>3 DEF RowInv

\* The rows but one are not written.
OthersKept(t) ==
  \A u \in DOMAIN tasks' \ {t} : u \in DOMAIN tasks /\ tasks'[u] = tasks[u]

LEMMA OthersSafe ==
  ASSUME DispatchInv, NEW t, OthersKept(t), OutShrinks, claims' = claims,
         stopped \subseteq stopped', restarted \subseteq restarted',
         t \in DOMAIN tasks' => RowInv(t)'
  PROVE  \A u \in DOMAIN tasks' : RowInv(u)'
<1> SUFFICES ASSUME NEW u \in DOMAIN tasks', u # t
             PROVE  RowInv(u)'
  OBVIOUS
<1>1. u \in DOMAIN tasks /\ tasks'[u] = tasks[u]
  BY DEF OthersKept
<1>2. u \in Ids
  BY <1>1, RowsAreIds DEF DispatchInv
<1> QED
  BY <1>1, <1>2, RowKept DEF DispatchInv

(***************************************************************************)
(* Users, and the steps of the pool.                                       *)
(***************************************************************************)
LEMMA QuietSafe ==
  ASSUME DispatchInv, Quiet, StoreInv'
  PROVE  DispatchInv'
<1>1. PoolInv' /\ (\A c \in Task : Once(c)') /\ OutShrinks /\ StopFrame
  BY NoClaimShrinks DEF Quiet
<1>2. UNCHANGED <<tasks, nextId, now, claims, stopped, restarted>>
  BY DEF Quiet, storeVars, history
<1>3. Numbered'
  BY <1>1, <1>2, NumberedKept DEF DispatchInv
<1>4. \A t \in DOMAIN tasks' : RowInv(t)'
  BY <1>1, <1>2, RowKept, RowsAreIds DEF DispatchInv
<1>5. StopsPast'
  BY <1>2, StopsPastKept DEF DispatchInv, NoStart
<1>6. StopsHeld' /\ StopsReachBack'
  BY <1>1, <1>2, StopsKept
<1> QED
  BY <1>1, <1>3, <1>4, <1>5, <1>6 DEF DispatchInv

\* A user's step leaves the pool alone.
LEMMA UserShrinks ==
  ASSUME DispatchInv, UNCHANGED poolVars
  PROVE  PoolInv' /\ (\A c \in Task : Once(c)') /\ OutShrinks /\ StopFrame
<1>1. NoClaim
  BY DEF NoClaim, poolVars
<1> QED
  BY <1>1, NoClaimShrinks

LEMMA CreateOnceSafe ==
  ASSUME DispatchInv, CreateOnce, StoreInv'
  PROVE  DispatchInv'
<1>1. PICK m \in RetriesOf[nextId] : Create("once", m, 0)
  BY DEF CreateOnce
<1>2. UNCHANGED <<claims, stopped, restarted>> /\ UNCHANGED poolVars
  BY DEF CreateOnce, history
<1>3. PoolInv' /\ (\A c \in Task : Once(c)') /\ OutShrinks /\ StopFrame
  BY <1>2, UserShrinks
<1>4. /\ nextId <= MaxId /\ nextId' = nextId + 1 /\ nextId \in Ids
      /\ OthersKept(nextId) /\ nextId \in DOMAIN tasks'
      /\ tasks'[nextId] = NewRow("once", m, 0)
  BY <1>1, IdsAre DEF Create, OthersKept, DispatchInv, StoreInv
<1>5. claims[nextId] = 0
  <2>1. nextId \in Nat
    BY DEF DispatchInv, StoreInv
  <2> QED
    BY <1>4, <2>1 DEF DispatchInv, Numbered
<1>6. Numbered'
  BY <1>2, <1>3, <1>4, NumberedKept DEF DispatchInv
<1>7. PICK t : t = nextId
  OBVIOUS
<1>8. RowInv(t)'
  <2>1. /\ tasks'[t].status = "pending" /\ tasks'[t].retry = 0
        /\ claims[t] = 0 /\ claims'[t] = 0
    BY <1>2, <1>4, <1>5, <1>7 DEF NewRow
  <2>2. ASSUME NEW w \in Workers, NEW c \in Task, c.id = t, Out(w, c)'
        PROVE  FALSE
    <3>1. c.claim \in 1 .. claims[t]
      BY <1>3, <2>2 DEF OutShrinks, DispatchInv, Numbered
    <3> QED
      BY <2>1, <3>1
  <2>3. Ledger(t)'
    BY <2>1, <2>2 DEF Ledger
  <2>4. Cardinality(OpenClaims(t)') = 0
    <3>1. OpenClaims(t)' = {}
      BY <2>1 DEF OpenClaims
    <3> QED
      BY <3>1, FS_EmptySet
  <2>5. Budget(t)'
    BY <2>1, <2>4 DEF Budget
  <2>6. StopNoted(t)'
    BY <2>1 DEF StopNoted
  <2> QED
    BY <2>3, <2>5, <2>6 DEF RowInv
<1>9. \A u \in DOMAIN tasks' : RowInv(u)'
  BY <1>2, <1>3, <1>4, <1>7, <1>8, OthersSafe
<1>10. NoStart
  BY <1>4 DEF NoStart, OthersKept, NewRow
<1>11. StopsPast'
  BY <1>2, <1>10, StopsPastKept DEF DispatchInv
<1>12. StopsHeld' /\ StopsReachBack'
  BY <1>2, <1>3, StopsKept
<1> QED
  BY <1>3, <1>6, <1>9, <1>11, <1>12 DEF DispatchInv

LEMMA DeleteTaskSafe ==
  ASSUME DispatchInv, NEW t \in DOMAIN tasks, DeleteTask(t), StoreInv'
  PROVE  DispatchInv'
<1>1. UNCHANGED <<claims, stopped, restarted, nextId>> /\ UNCHANGED poolVars
  BY DEF DeleteTask, Delete, history
<1>2. PoolInv' /\ (\A c \in Task : Once(c)') /\ OutShrinks /\ StopFrame
  BY <1>1, UserShrinks
<1>3. OthersKept(t) /\ t \notin DOMAIN tasks'
  BY DEF DeleteTask, Delete, OthersKept
<1>4. Numbered'
  BY <1>1, <1>2, NumberedKept DEF DispatchInv
<1>5. \A u \in DOMAIN tasks' : RowInv(u)'
  BY <1>1, <1>2, <1>3, OthersSafe
<1>6. NoStart
  BY <1>3 DEF NoStart, OthersKept
<1>7. StopsPast'
  BY <1>1, <1>6, StopsPastKept DEF DispatchInv
<1>8. StopsHeld' /\ StopsReachBack'
  BY <1>1, <1>2, StopsKept
<1> QED
  BY <1>2, <1>4, <1>5, <1>7, <1>8 DEF DispatchInv

LEMMA StopSafe ==
  ASSUME DispatchInv, NEW t \in DOMAIN tasks, Stop(t), StoreInv'
  PROVE  DispatchInv'
<1> DEFINE r == tasks[t]
           c == [id |-> t, claim |-> claims[t]]
<1>1. /\ UNCHANGED <<claims, restarted, nextId>> /\ UNCHANGED poolVars
      /\ stopped' = IF r.status = "running" THEN stopped \cup {c} ELSE stopped
  BY DEF Stop, StopTask
<1>2. PoolInv' /\ (\A d \in Task : Once(d)') /\ OutShrinks /\ StopFrame
  BY <1>1, UserShrinks
<1>3. t \in Ids /\ Good(r) /\ claims[t] \in Nat /\ r.retry \in Nat
  BY RowsAreIds DEF DispatchInv, StoreInv, Good, Row, Numbered
<1>4. /\ OthersKept(t) /\ DOMAIN tasks' = DOMAIN tasks
      /\ tasks'[t].status = "stopped" /\ tasks'[t].retry = r.retry
      /\ tasks'[t].worker = r.worker /\ r.status \in Active
  BY <1>3 DEF Stop, StopTask, Stopped, OthersKept, Good, Row
<1>5. Numbered'
  BY <1>1, <1>2, NumberedKept DEF DispatchInv
<1>6. RowInv(t)'
  <2>1. Ledger(t) /\ Budget(t)
    BY DEF DispatchInv, RowInv
  <2>2. Ledger(t)'
    BY <1>1, <1>2, <1>3, <1>4, <2>1 DEF Ledger, OutShrinks, Active
  <2>3. Budget(t)'
    BY <1>1, <1>2, <1>3, <1>4, <2>1, OpenShrinks, OpenIsFinite DEF Budget, DispatchInv
  <2>4. StopNoted(t)'
    BY <1>1, <1>3, <1>4 DEF StopNoted, Active, Good, OwnedRow
  <2> QED
    BY <2>2, <2>3, <2>4 DEF RowInv
<1>7. \A u \in DOMAIN tasks' : RowInv(u)'
  BY <1>1, <1>2, <1>4, <1>6, OthersSafe
<1>8. NoStart
  BY <1>4 DEF NoStart, OthersKept
<1>9. StopsPast'
  BY <1>1, <1>3, <1>4, <1>8, StopsPastKept DEF DispatchInv
<1>10. StopsHeld' /\ StopsReachBack'
  BY <1>1, <1>2, StopsKept
<1> QED
  BY <1>2, <1>5, <1>7, <1>9, <1>10 DEF DispatchInv

LEMMA RestartSafe ==
  ASSUME DispatchInv, NEW t \in DOMAIN tasks, Restart(t), StoreInv'
  PROVE  DispatchInv'
<1>1. /\ UNCHANGED <<claims, stopped, nextId>> /\ UNCHANGED poolVars
      /\ restarted' = restarted \cup {t}
  BY DEF Restart, ResumeTask
<1>2. PoolInv' /\ (\A c \in Task : Once(c)') /\ OutShrinks /\ StopFrame
  BY <1>1, UserShrinks
<1>3. t \in Ids /\ tasks[t] \in Row /\ claims[t] \in Nat /\ tasks[t].retry \in Nat
  BY RowsAreIds DEF DispatchInv, StoreInv, Good, Row, Numbered
<1>4. /\ OthersKept(t) /\ DOMAIN tasks' = DOMAIN tasks
      /\ tasks'[t].status = "pending" /\ tasks'[t].retry = tasks[t].retry
  BY <1>3 DEF Restart, ResumeTask, OthersKept, Row
<1>5. Numbered'
  BY <1>1, <1>2, NumberedKept DEF DispatchInv
<1>6. RowInv(t)'
  <2>1. Ledger(t)'
    BY <1>1 DEF Ledger
  <2>2. Budget(t)'
    BY <1>1, <1>2, <1>3, <1>4, OpenShrinks, OpenIsFinite DEF DispatchInv, RowInv, Budget
  <2>3. StopNoted(t)'
    BY <1>4 DEF StopNoted
  <2> QED
    BY <2>1, <2>2, <2>3 DEF RowInv
<1>7. \A u \in DOMAIN tasks' : RowInv(u)'
  BY <1>1, <1>2, <1>4, <1>6, OthersSafe
<1>8. NoStart
  BY <1>4 DEF NoStart, OthersKept
<1>9. StopsPast'
  BY <1>1, <1>8, StopsPastKept DEF DispatchInv
<1>10. StopsHeld' /\ StopsReachBack'
  BY <1>1, <1>2, StopsKept
<1> QED
  BY <1>2, <1>5, <1>7, <1>9, <1>10 DEF DispatchInv

(***************************************************************************)
(* handleResult.                                                           *)
(***************************************************************************)
\* What a report makes of row r, if it does not leave it as it is.
Outcome(r, n) ==
  \/ /\ r.status = "stopped" /\ n.status = "stopped"
     /\ n.worker = NoWorker /\ n.retry = r.retry
  \/ r.status # "stopped" /\ n.status = "success" /\ n.retry = r.retry
  \/ r.status # "stopped" /\ n.status \in {"dead", "pending"} /\ n.retry = r.retry + 1

LEMMA ReportOutcome ==
  ASSUME StoreInv, NEW t, NEW w, NEW ok, ReportResult(t, w, ok)
  PROVE  /\ t \in DOMAIN tasks /\ tasks[t].worker = w
         /\ OthersKept(t) /\ DOMAIN tasks' = DOMAIN tasks /\ nextId' = nextId
         /\ \/ Outcome(tasks[t], tasks'[t])
            \/ tasks'[t] = tasks[t] /\ tasks[t].status \notin {"running", "stopped"}
<1>1. /\ t \in DOMAIN tasks /\ tasks[t].worker = w /\ nextId' = nextId
      /\ tasks[t] \in Row
  BY DEF ReportResult, OwnedBy, StoreInv, Good
<1>2. CASE ReportOnStopped(t)
  <2>1. /\ [tasks[t] EXCEPT !.worker = NoWorker].status = tasks[t].status
        /\ [tasks[t] EXCEPT !.worker = NoWorker].worker = NoWorker
        /\ [tasks[t] EXCEPT !.worker = NoWorker].retry = tasks[t].retry
    BY <1>1 DEF Row
  <2> QED
    BY <1>1, <1>2, <2>1 DEF ReportOnStopped, Outcome, OthersKept
<1>3. CASE ReportSuccess(t)
  <2>1. /\ [tasks[t] EXCEPT !.status = "success"].status = "success"
        /\ [tasks[t] EXCEPT !.status = "success"].retry = tasks[t].retry
    BY <1>1 DEF Row
  <2> QED
    BY <1>1, <1>3, <2>1 DEF ReportSuccess, Outcome, OthersKept
<1>4. CASE ReportDead(t)
  <2> DEFINE n == [tasks[t] EXCEPT !.status = "dead", !.retry = tasks[t].retry + 1]
  <2>1. n.status = "dead" /\ n.retry = tasks[t].retry + 1
    BY <1>1 DEF Row
  <2>2. tasks' = [tasks EXCEPT ![t] = n] /\ tasks[t].status # "stopped"
    BY <1>4 DEF ReportDead
  <2> HIDE DEF n
  <2> QED
    BY <1>1, <2>1, <2>2 DEF Outcome, OthersKept
<1>5. CASE ReportRetry(t)
  <2> DEFINE n == [tasks[t] EXCEPT !.status = "pending", !.retry = tasks[t].retry + 1,
                                   !.worker = NoWorker,
                                   !.nextRun = now + (tasks[t].retry + 1) * Backoff]
  <2>1. n.status = "pending" /\ n.retry = tasks[t].retry + 1
    BY <1>1 DEF Row
  <2>2. tasks' = [tasks EXCEPT ![t] = n] /\ tasks[t].status = "running"
    BY <1>5 DEF ReportRetry
  <2> HIDE DEF n
  <2> QED
    BY <1>1, <2>1, <2>2 DEF Outcome, OthersKept
<1>6. CASE ReportRetryMissed(t)
  BY <1>1, <1>6 DEF ReportRetryMissed, OthersKept
<1> QED
  BY <1>2, <1>3, <1>4, <1>5, <1>6 DEF ReportResult

LEMMA HandleReportSafe ==
  ASSUME DispatchInv, NEW m \in reports, HandleReport(m), StoreInv'
  PROVE  DispatchInv'
<1> DEFINE t == m.task.id
<1>1. /\ m.worker \in Workers /\ m.task \in Task /\ t \in Ids /\ m.task.claim \in Claims
      /\ m.task = [id |-> t, claim |-> m.task.claim]
  BY DEF DispatchInv, PoolInv, Shapes, Task
<1>2. /\ UNCHANGED <<claims, stopped, restarted>>
      /\ UNCHANGED <<life, fetch, jobs, slots, active>> /\ reports' = reports \ {m}
  BY DEF HandleReport, history
<1>3. PoolInv' /\ (\A c \in Task : Once(c)') /\ OutShrinks /\ StopFrame
  <2>1. NoClaim
    BY <1>2 DEF NoClaim
  <2> QED
    BY <2>1, NoClaimShrinks
<1>4. Out(m.worker, m.task) /\ \A w \in Workers : ~Out(w, m.task)'
  BY <1>1, <1>2, ReportIsLast DEF DispatchInv
<1>5. StopsHeld' /\ StopsReachBack'
  BY <1>2, <1>3, StopsKept
<1>6. CASE ReportRefused(t, m.worker)
  <2>1. UNCHANGED <<tasks, nextId>>
    BY <1>6 DEF ReportRefused, storeVars
  <2>2. Numbered'
    BY <1>2, <1>3, <2>1, NumberedKept DEF DispatchInv
  <2>3. \A u \in DOMAIN tasks' : RowInv(u)'
    BY <1>2, <1>3, <2>1, RowKept, RowsAreIds DEF DispatchInv
  <2>4. StopsPast'
    BY <1>2, <2>1, StopsPastKept DEF DispatchInv, NoStart
  <2> QED
    BY <1>3, <1>5, <2>2, <2>3, <2>4 DEF DispatchInv
<1>7. CASE ReportResult(t, m.worker, m.ok)
  <2>1. /\ t \in DOMAIN tasks /\ tasks[t].worker = m.worker
        /\ OthersKept(t) /\ DOMAIN tasks' = DOMAIN tasks /\ nextId' = nextId
        /\ \/ Outcome(tasks[t], tasks'[t])
           \/ tasks'[t] = tasks[t] /\ tasks[t].status \notin {"running", "stopped"}
    BY <1>7, ReportOutcome DEF DispatchInv
  <2>2. Numbered'
    BY <1>2, <1>3, <2>1, NumberedKept DEF DispatchInv
  <2>3. claims[t] \in Nat /\ tasks[t].retry \in Nat /\ RowInv(t)
    BY <1>1, <2>1 DEF DispatchInv, Numbered, StoreInv, Good, Row
  <2>4. RowInv(t)'
    <3>1. CASE tasks'[t] = tasks[t]
      BY <1>1, <1>2, <1>3, <2>1, <2>3, <3>1, RowKept DEF DispatchInv
    <3>2. CASE Outcome(tasks[t], tasks'[t])
      <4>1. Ledger(t)'
        <5> SUFFICES ASSUME t \notin restarted
                     PROVE  Ledger(t)'
          BY <1>2 DEF Ledger
        <5>1. tasks[t].status \in {"running", "stopped"} /\ m.task.claim = claims[t]
          BY <1>1, <1>4, <2>3 DEF RowInv, Ledger
        <5>2. ASSUME NEW w \in Workers, NEW c \in Task, c.id = t, Out(w, c)'
              PROVE  FALSE
          <6>1. c.claim = claims[t] /\ c = [id |-> c.id, claim |-> c.claim]
            BY <1>3, <2>3, <5>2 DEF OutShrinks, RowInv, Ledger, Task
          <6>2. c = m.task
            BY <1>1, <5>1, <5>2, <6>1
          <6> QED
            BY <1>4, <5>2, <6>2
        <5>3. /\ tasks[t].status = "running" => claims[t] = tasks[t].retry + 1
              /\ tasks[t].status = "stopped" => claims[t] \in {tasks[t].retry, tasks[t].retry + 1}
          BY <2>3 DEF RowInv, Ledger
        <5> QED
          BY <1>2, <2>3, <3>2, <5>1, <5>2, <5>3 DEF Ledger, Outcome
      <4>2. Budget(t)'
        <5>1. m.task.claim \in OpenClaims(t)
          BY <1>1, <1>4 DEF OpenClaims, DispatchInv, Numbered
        <5>2. m.task.claim \notin OpenClaims(t)'
          BY <1>1, <1>4 DEF OpenClaims
        <5>3. OpenClaims(t)' \subseteq OpenClaims(t) \ {m.task.claim}
          BY <1>1, <1>2, <1>3, <5>2, OpenShrinks DEF DispatchInv
        <5>4. /\ IsFiniteSet(OpenClaims(t)) /\ Cardinality(OpenClaims(t)) \in Nat
              /\ Cardinality(OpenClaims(t)') \in Nat
          BY <1>1, <1>2, <1>3, OpenIsFinite, OpenShrinks DEF DispatchInv
        <5>5. /\ IsFiniteSet(OpenClaims(t) \ {m.task.claim})
              /\ Cardinality(OpenClaims(t) \ {m.task.claim}) = Cardinality(OpenClaims(t)) - 1
          BY <5>1, <5>4, FS_RemoveElement
        <5>6. Cardinality(OpenClaims(t)') <= Cardinality(OpenClaims(t)) - 1
          BY <5>3, <5>5, FS_Subset
        <5>7. tasks'[t].retry \in {tasks[t].retry, tasks[t].retry + 1}
          BY <3>2 DEF Outcome
        <5> QED
          BY <1>2, <2>3, <5>4, <5>6, <5>7 DEF RowInv, Budget
      <4>3. StopNoted(t)'
        BY <3>2 DEF StopNoted, Outcome
      <4> QED
        BY <4>1, <4>2, <4>3 DEF RowInv
    <3> QED
      BY <2>1, <3>1, <3>2
  <2>5. \A u \in DOMAIN tasks' : RowInv(u)'
    BY <1>2, <1>3, <2>1, <2>4, OthersSafe
  <2>6. NoStart
    BY <2>1 DEF NoStart, OthersKept, Outcome
  <2>7. StopsPast'
    BY <1>2, <2>6, StopsPastKept DEF DispatchInv
  <2> QED
    BY <1>3, <1>5, <2>2, <2>5, <2>7 DEF DispatchInv
<1> QED
  BY <1>6, <1>7 DEF HandleReport

(***************************************************************************)
(* The claim.                                                              *)
(***************************************************************************)
LEMMA ClaimOfSafe ==
  ASSUME DispatchInv, NEW w \in Workers, NEW t \in OldestDue, ClaimOf(w, t), StoreInv'
  PROVE  DispatchInv'
<1> DEFINE n == claims[t] + 1
           c == [id |-> t, claim |-> n]
<1>1. /\ t \in DOMAIN tasks /\ t \in Ids /\ tasks[t].status = "pending"
      /\ tasks[t] \in Row /\ tasks[t].retry \in Nat
      /\ claims[t] \in Nat /\ n \in Nat /\ n \in Claims /\ c \in Task
      /\ c.id = t /\ c.claim = n
  BY RowsAreIds DEF ClaimOf, OldestDue, Due, Task, DispatchInv, Numbered, StoreInv, Good, Row
<1>2. \A v \in Workers : ~Out(v, c)
  BY <1>1 DEF DispatchInv, Numbered
<1>3. /\ PoolInv'
      /\ \A d \in Task : Once(d)'
      /\ \A d \in Task, v \in Workers :
           /\ Alive(v, d)' => Alive(v, d) \/ (v = w /\ d = c)
           /\ Out(v, d)' => Out(v, d) \/ (v = w /\ d = c)
  BY <1>1, <1>2, ClaimMoves DEF ClaimOf, DispatchInv
<1>4. /\ DOMAIN tasks' = DOMAIN tasks /\ nextId' = nextId
      /\ \A u \in DOMAIN tasks : u # t => tasks'[u] = tasks[u]
      /\ tasks'[t].status = "running" /\ tasks'[t].worker = w
      /\ tasks'[t].retry = tasks[t].retry
  BY <1>1 DEF ClaimOf, ClaimPending, Row
<1>5. /\ claims' \in [Ids -> Nat] /\ claims'[t] = n
      /\ \A u \in Ids : u # t => claims'[u] = claims[u]
      /\ UNCHANGED <<stopped, restarted>>
  BY <1>1 DEF ClaimOf, DispatchInv, Numbered
<1> HIDE DEF c
<1>6. Numbered'
  <2>1. \A v \in Workers, d \in Task : Out(v, d)' => d.claim \in 1 .. claims'[d.id]
    <3> SUFFICES ASSUME NEW v \in Workers, NEW d \in Task, Out(v, d)'
                 PROVE  d.claim \in 1 .. claims'[d.id]
      OBVIOUS
    <3>1. CASE d = c
      BY <1>1, <1>5, <3>1
    <3>2. CASE d # c
      <4>1. d.claim \in 1 .. claims[d.id] /\ d.id \in Ids
        BY <1>3, <3>2 DEF DispatchInv, Numbered, Task
      <4> QED
        BY <1>1, <1>5, <4>1
    <3> QED
      BY <3>1, <3>2
  <2>2. \A u \in Ids : u >= nextId' => claims'[u] = 0
    <3>1. ~(t >= nextId)
      BY <1>1 DEF DispatchInv, StoreInv
    <3> QED
      BY <1>4, <1>5, <3>1 DEF DispatchInv, Numbered
  <2> QED
    BY <1>4, <1>5, <2>1, <2>2 DEF DispatchInv, Numbered
<1>7. RowInv(t)'
  <2>1. RowInv(t)
    BY <1>1 DEF DispatchInv
  <2>2. Ledger(t)'
    BY <1>1, <1>3, <1>4, <1>5, <2>1 DEF RowInv, Ledger
  <2>3. Budget(t)'
    <3>1. /\ IsFiniteSet(OpenClaims(t)) /\ Cardinality(OpenClaims(t)) \in Nat
      BY <1>1, OpenIsFinite DEF DispatchInv
    <3>2. OpenClaims(t)' \subseteq OpenClaims(t) \cup {n}
      <4> SUFFICES ASSUME NEW k \in OpenClaims(t)', k # n
                   PROVE  k \in OpenClaims(t)
        OBVIOUS
      <4>1. PICK v \in Workers : Out(v, [id |-> t, claim |-> k])'
        BY DEF OpenClaims
      <4>2. k \in Claims /\ k \in 1 .. n /\ [id |-> t, claim |-> k] \in Task
        BY <1>1, <1>5 DEF OpenClaims, Task
      <4>3. Out(v, [id |-> t, claim |-> k])
        BY <1>1, <1>3, <4>1, <4>2
      <4> QED
        BY <1>1, <4>2, <4>3 DEF OpenClaims
    <3>3. /\ IsFiniteSet(OpenClaims(t) \cup {n})
          /\ Cardinality(OpenClaims(t) \cup {n}) <= Cardinality(OpenClaims(t)) + 1
          /\ Cardinality(OpenClaims(t) \cup {n}) \in Nat
      BY <3>1, FS_AddElement, FS_CardinalityType
    <3>4. /\ Cardinality(OpenClaims(t)') \in Nat
          /\ Cardinality(OpenClaims(t)') <= Cardinality(OpenClaims(t) \cup {n})
      BY <3>2, <3>3, FS_Subset, FS_CardinalityType
    <3> QED
      BY <1>1, <1>4, <1>5, <2>1, <3>1, <3>3, <3>4 DEF RowInv, Budget
  <2>4. StopNoted(t)'
    BY <1>4 DEF StopNoted
  <2> QED
    BY <2>2, <2>3, <2>4 DEF RowInv
<1>8. ASSUME NEW u \in DOMAIN tasks', u # t
      PROVE  RowInv(u)'
  <2>1. u \in DOMAIN tasks /\ u \in Ids /\ RowInv(u) /\ claims'[u] = claims[u]
        /\ tasks'[u] = tasks[u]
    BY <1>4, <1>5, <1>8, RowsAreIds DEF DispatchInv
  <2>2. \A v \in Workers, d \in Task : d.id = u => (Out(v, d)' => Out(v, d))
    BY <1>1, <1>3, <1>8
  <2>3. Ledger(u)'
    BY <1>5, <2>1, <2>2 DEF RowInv, Ledger
  <2>4. OpenClaims(u)' \subseteq OpenClaims(u)
    <3>1. \A k \in Claims : [id |-> u, claim |-> k] \in Task /\ [id |-> u, claim |-> k].id = u
      BY <2>1 DEF Task
    <3> QED
      BY <2>1, <2>2, <3>1 DEF OpenClaims
  <2>5. /\ IsFiniteSet(OpenClaims(u)) /\ Cardinality(OpenClaims(u)) \in Nat
    BY <2>1, OpenIsFinite DEF DispatchInv
  <2>6. /\ Cardinality(OpenClaims(u)') \in Nat
        /\ Cardinality(OpenClaims(u)') <= Cardinality(OpenClaims(u))
    BY <2>4, <2>5, FS_Subset, FS_CardinalityType
  <2>7. Budget(u)'
    <3>1. tasks[u].retry \in Nat /\ claims[u] \in Nat
      BY <2>1 DEF DispatchInv, StoreInv, Good, Row, Numbered
    <3> QED
      BY <2>1, <2>5, <2>6, <3>1 DEF RowInv, Budget
  <2>8. StopNoted(u)'
    BY <1>5, <2>1 DEF RowInv, StopNoted
  <2> QED
    BY <2>3, <2>7, <2>8 DEF RowInv
<1>9. StopsPast'
  <2> SUFFICES ASSUME NEW d \in stopped
               PROVE  /\ d.id \in Ids /\ d.claim \in Nat /\ d.claim <= claims'[d.id]
                      /\ d.id \in DOMAIN tasks' /\ tasks'[d.id].status = "running" =>
                           d.claim # claims'[d.id]
    BY <1>5 DEF StopsPast
  <2>1. /\ d.id \in Ids /\ d.claim \in Nat /\ d.claim <= claims[d.id]
        /\ d.id \in DOMAIN tasks /\ tasks[d.id].status = "running" => d.claim # claims[d.id]
    BY DEF DispatchInv, StopsPast
  <2>2. CASE d.id = t
    BY <1>1, <1>5, <2>1, <2>2
  <2>3. CASE d.id # t
    BY <1>4, <1>5, <2>1, <2>3
  <2> QED
    BY <2>2, <2>3
<1>10. StopsHeld'
  <2>1. fetch[w].pc = "pulling" /\ fetch[w].stops = {} /\ fetch[w] \in FetchState
    BY DEF ClaimOf, ServerClaims, DispatchInv, PoolInv, Hands, Shapes
  <2>2. \A v \in Workers : fetch'[v].stops = fetch[v].stops
    BY <2>1 DEF ClaimOf, ServerClaims, DispatchInv, PoolInv, Shapes, FetchState
  <2> SUFFICES ASSUME NEW v \in Workers, NEW i \in fetch[v].stops
               PROVE  \E e \in stopped : /\ e.id = i
                                         /\ \A d \in Task : Alive(v, d)' /\ d.id = i =>
                                                              d.claim <= e.claim
    BY <1>5, <2>2 DEF StopsHeld
  <2>3. v # w
    BY <2>1
  <2> QED
    BY <1>3, <2>3 DEF DispatchInv, StopsHeld
<1>11. StopsReachBack'
  BY <1>5 DEF DispatchInv, StopsReachBack, ClaimOf, ServerClaims
<1> QED
  BY <1>3, <1>6, <1>7, <1>8, <1>9, <1>10, <1>11 DEF DispatchInv

(***************************************************************************)
(* The invariant.                                                          *)
(***************************************************************************)
LEMMA InitDispatch == DispatchInit => DispatchInv
<1> SUFFICES ASSUME DispatchInit PROVE DispatchInv
  OBVIOUS
<1>1. StoreInv /\ PoolInv
  BY InitSafe, InitPool DEF DispatchInit
<1>2. /\ tasks = [t \in {} |-> {}] /\ nextId = 1
      /\ claims = [t \in Ids |-> 0] /\ stopped = {} /\ restarted = {}
  BY DEF DispatchInit, Init
<1>3. /\ \A w \in Workers : jobs[w] = <<>> /\ fetch[w] = IdleFetch
      /\ \A w \in Workers, s \in Slots : slots[w][s] = IdleSlot
      /\ reports = {}
  BY DEF DispatchInit, PoolInit
<1>4. ASSUME NEW c \in Task, NEW w \in Workers
      PROVE  /\ \A s \in Slots : ~InSlot(w, s, c)
             /\ \A k : ~Queued(w, k, c)
             /\ ~Held(w, c)
             /\ \A m : ~Sent(m, c)
  <2>1. DOMAIN <<>> = {}
    OBVIOUS
  <2> QED
    BY <1>3, <2>1, NoTaskIsNone DEF InSlot, Queued, Held, Sent, IdleFetch, IdleSlot
<1>5. \A c \in Task : Once(c)
  BY <1>3, <1>4 DEF Once, IsRun, IsQueued, IsHeld, IsSent
<1>6. \A c \in Task, w \in Workers : ~Out(w, c)
  BY <1>4 DEF Out, Alive
<1>7. Numbered
  BY <1>2, <1>6, IdsAre DEF Numbered
<1>8. /\ \A t \in DOMAIN tasks : RowInv(t)
      /\ StopsPast
  BY <1>2 DEF StopsPast
<1>9. StopsHeld /\ StopsReachBack
  BY <1>3 DEF StopsHeld, StopsReachBack, IdleFetch, IdleSlot
<1> QED
  BY <1>1, <1>5, <1>7, <1>8, <1>9 DEF DispatchInv

LEMMA StepDispatch ==
  ASSUME DispatchInv, [DispatchNext]_vars
  PROVE  DispatchInv' /\ [Next]_storeVars
<1>1. [Next]_storeVars
  BY StoreSteps DEF DispatchInv
<1>2. StoreInv'
  BY <1>1, StoreConstants, StepSafe DEF DispatchInv, Safe
<1>3. \/ Quiet
      \/ CreateOnce
      \/ \E t \in DOMAIN tasks : Stop(t) \/ Restart(t) \/ DeleteTask(t)
      \/ \E w \in Workers, t \in OldestDue : ClaimOf(w, t)
      \/ \E m \in reports : HandleReport(m)
  BY Steps DEF DispatchInv
<1> QED
  BY <1>1, <1>2, <1>3, QuietSafe, CreateOnceSafe, StopSafe, RestartSafe, DeleteTaskSafe,
     ClaimOfSafe, HandleReportSafe

LEMMA DispatchInvariant == DispatchSpec => []DispatchInv
<1>1. DispatchInv /\ [DispatchNext]_vars => DispatchInv'
  BY StepDispatch
<1> QED
  BY <1>1, InitDispatch, PTL DEF DispatchSpec

(***************************************************************************)
(* What it says, in the terms of Dispatch.                                 *)
(***************************************************************************)
LEMMA OnceMeaning == DispatchInv => OneRunPerClaim
<1> SUFFICES ASSUME DispatchInv, NEW c \in Task, NEW w \in Workers, LiveAt(w, c) # 0
             PROVE  LiveAt(w, c) = 1 /\ \A v \in Workers \ {w} : LiveAt(v, c) = 0
  BY DEF OneRunPerClaim
<1>1. PoolInv /\ Once(c)
  BY DEF DispatchInv
<1>2. \A v \in Workers : LiveAt(v, c) \in {0, 1} /\ (LiveAt(v, c) # 0 <=> Alive(v, c))
  BY <1>1, LiveAtMeaning
<1>3. \A v \in Workers : Alive(v, c) => v = w
  BY <1>1, <1>2, OutAtOne DEF Out
<1> QED
  BY <1>2, <1>3

LEMMA LiveCopiesMeaning ==
  ASSUME DispatchInv, NEW t \in Ids
  PROVE  \A c : c \in LiveCopies(t) <=>
           /\ c \in Workers \X Claims
           /\ [id |-> t, claim |-> c[2]] \in Task
           /\ Alive(c[1], [id |-> t, claim |-> c[2]])
<1> SUFFICES ASSUME NEW c \in Workers \X Claims
             PROVE  /\ [id |-> t, claim |-> c[2]] \in Task
                    /\ LiveAt(c[1], [id |-> t, claim |-> c[2]]) > 0 <=>
                         Alive(c[1], [id |-> t, claim |-> c[2]])
  BY DEF LiveCopies
<1>1. c[1] \in Workers /\ [id |-> t, claim |-> c[2]] \in Task
  BY DEF Task
<1>2. /\ LiveAt(c[1], [id |-> t, claim |-> c[2]]) \in {0, 1}
      /\ LiveAt(c[1], [id |-> t, claim |-> c[2]]) # 0 <=> Alive(c[1], [id |-> t, claim |-> c[2]])
  BY <1>1, LiveAtMeaning DEF DispatchInv
<1> QED
  BY <1>1, <1>2

LEMMA LedgerMeaning == DispatchInv => LiveRunIsOwned
<1> SUFFICES ASSUME DispatchInv, NEW t \in DOMAIN tasks \ restarted
             PROVE  /\ Cardinality(LiveCopies(t)) <= 1
                    /\ \A c \in LiveCopies(t) : /\ tasks[t].worker = c[1]
                                                /\ tasks[t].status \in {"running", "stopped"}
                                                /\ c[2] = claims[t]
  BY DEF LiveRunIsOwned
<1>1. t \in Ids /\ Ledger(t)
  BY RowsAreIds DEF DispatchInv, RowInv
<1>2. ASSUME NEW c \in LiveCopies(t)
      PROVE  /\ c = <<c[1], c[2]>>
             /\ tasks[t].worker = c[1]
             /\ tasks[t].status \in {"running", "stopped"}
             /\ c[2] = claims[t]
  <2> DEFINE d == [id |-> t, claim |-> c[2]]
  <2>1. c \in Workers \X Claims /\ d \in Task /\ Alive(c[1], d)
    BY <1>1, LiveCopiesMeaning
  <2>2. Out(c[1], d) /\ d.id = t /\ d.claim = c[2]
    BY <2>1 DEF Out
  <2> HIDE DEF d
  <2> QED
    BY <1>1, <2>1, <2>2 DEF Ledger
<1>3. \A c, d \in LiveCopies(t) : c = d
  BY <1>2
<1>4. Cardinality(LiveCopies(t)) \in {0, 1}
  BY <1>3, AtMostOne
<1> QED
  BY <1>2, <1>4

LEMMA BudgetMeaning == DispatchInv => AttemptsCounted
<1> SUFFICES ASSUME DispatchInv, NEW t \in DOMAIN tasks
             PROVE  /\ tasks[t].retry <= claims[t]
                    /\ t \notin restarted => claims[t] <= tasks[t].retry + 1
  BY DEF AttemptsCounted
<1>1. t \in Ids /\ RowInv(t) /\ Good(tasks[t]) /\ tasks[t].retry \in Nat /\ claims[t] \in Nat
  BY RowsAreIds DEF DispatchInv, StoreInv, Good, Row, Numbered
<1>2. tasks[t].retry <= claims[t]
  BY <1>1, OpenIsFinite DEF DispatchInv, RowInv, Budget
<1>3. t \notin restarted => claims[t] <= tasks[t].retry + 1
  BY <1>1 DEF RowInv, Ledger, Good, Row, Status
<1> QED
  BY <1>2, <1>3

(***************************************************************************)
(* Theorems.                                                               *)
(***************************************************************************)
\* OneRunPerClaim: whatever is lost, restarted, killed or answered late, a
\* claim of a task is never in two slots, channels or fetchers at once.
THEOREM OneRunPerClaimHolds == DispatchSpec => []OneRunPerClaim
BY DispatchInvariant, OnceMeaning, PTL

\* LiveRunIsOwned: until a user restarts a task its row names the one worker
\* that has it, and is running or stopped.
THEOREM LiveRunIsOwnedHolds == DispatchSpec => []LiveRunIsOwned
BY DispatchInvariant, LedgerMeaning, PTL

\* AttemptsCounted: no claim counts twice against the retry budget, and an
\* unrestarted task is claimed at most once more than it was counted.
THEOREM AttemptsCountedHolds == DispatchSpec => []AttemptsCounted
BY DispatchInvariant, BudgetMeaning, PTL

\* StopsReachBack: the stop list never cancels a run that began after the
\* last stop of its task, however late the answer is.
THEOREM StopsReachBackHolds == DispatchSpec => []StopsReachBack
<1>1. DispatchInv => StopsReachBack
  BY DEF DispatchInv
<1> QED
  BY <1>1, DispatchInvariant, PTL

\* OutcomeIsFinal: success and dead are final until a user restarts the task,
\* although the last UPDATE of ReportResult does not test the status.
THEOREM OutcomeIsFinalHolds == DispatchSpec => OutcomeIsFinal
<1>1. DispatchInv /\ [DispatchNext]_vars =>
        (\A t \in Kept \ restarted : tasks[t].status \in {"success", "dead"} =>
           tasks'[t].status = tasks[t].status)
  <2> SUFFICES ASSUME DispatchInv, [DispatchNext]_vars, NEW t \in Kept \ restarted,
                      tasks[t].status \in {"success", "dead"}
               PROVE  tasks'[t] = tasks[t]
    OBVIOUS
  <2>1. t \in DOMAIN tasks /\ t \in DOMAIN tasks' /\ t \in Ids /\ Ledger(t)
    BY RowsAreIds DEF Kept, DispatchInv, RowInv
  <2>2. CASE Quiet
    BY <2>2 DEF Quiet, storeVars
  <2>3. CASE CreateOnce
    BY <2>1, <2>3 DEF CreateOnce, Create, DispatchInv, StoreInv
  <2>4. CASE \E u \in DOMAIN tasks : Stop(u) \/ Restart(u) \/ DeleteTask(u)
    BY <2>1, <2>4 DEF Stop, StopTask, Restart, ResumeTask, DeleteTask, Delete, Active
  <2>5. CASE \E w \in Workers, u \in OldestDue : ClaimOf(w, u)
    BY <2>1, <2>5 DEF ClaimOf, ClaimPending, OldestDue, Due
  <2>6. ASSUME NEW m \in reports, HandleReport(m)
        PROVE  tasks'[t] = tasks[t]
    <3>1. CASE ReportRefused(m.task.id, m.worker)
      BY <3>1 DEF ReportRefused, storeVars
    <3>2. CASE ReportResult(m.task.id, m.worker, m.ok)
      <4>1. OthersKept(m.task.id)
        BY <3>2, ReportOutcome DEF DispatchInv
      <4>2. m.task.id # t
        <5>1. m.worker \in Workers /\ m.task \in Task /\ Out(m.worker, m.task)
          BY DEF DispatchInv, PoolInv, Shapes, Out, Sent
        <5> QED
          BY <2>1, <5>1 DEF Ledger
      <4> QED
        BY <2>1, <4>1, <4>2 DEF OthersKept
    <3> QED
      BY <2>6, <3>1, <3>2 DEF HandleReport
  <2> QED
    BY <2>2, <2>3, <2>4, <2>5, <2>6, Steps DEF DispatchInv
<1> QED
  BY <1>1, DispatchInvariant, PTL DEF DispatchSpec, OutcomeIsFinal

\* The server with its workers uses the store as TaskStore says its callers
\* do: every theorem of TaskStoreProofs holds of the store under them.
THEOREM DispatchImplementsStore == DispatchSpec => Spec
<1>1. DispatchInit => Init
  BY DEF DispatchInit
<1>2. DispatchInv /\ [DispatchNext]_vars => [Next]_storeVars
  BY StepDispatch
<1> QED
  BY <1>1, <1>2, DispatchInvariant, PTL DEF DispatchSpec, Spec

(***************************************************************************)
(* When nothing fails.  Env may still hold stops, restarts and deletions.  *)
(***************************************************************************)
Faults == {"expire", "lose", "sigterm", "crash", "server restart"}

Calm == Env \cap Faults = {}

\* Every process is up, and only a stop ends a run early.
AllUp == \A w \in Workers :
  life[w] = "up" /\ \A s \in Slots : slots[w][s].ctx \in {"live", "stopped"}

LastClaim(t) == [id |-> t, claim |-> claims[t]]

\* The worker of a running row still owes the server for the row's last claim.
RowOut(t) == tasks[t].status = "running" =>
               /\ tasks[t].worker \in Workers
               /\ LastClaim(t) \in Task
               /\ Out(tasks[t].worker, LastClaim(t))

CalmInv == AllUp /\ \A t \in DOMAIN tasks : RowOut(t)

(***************************************************************************)
(* What a step keeps of what is out: Moves the other way round.            *)
(***************************************************************************)
Stays(w, c) == Out(w, c) => Out(w, c)'

LEMMA Remains ==
  ASSUME NEW w \in Workers, NEW c \in Task,
         \A s \in Slots : InSlot(w, s, c) => Alive(w, c)',
         \A k \in DOMAIN jobs[w] : Queued(w, k, c) => Alive(w, c)',
         Held(w, c) => Alive(w, c)',
         reports \subseteq reports'
  PROVE  Stays(w, c)
<1>1. Alive(w, c) => Alive(w, c)'
  BY DEF Alive
<1>2. \A m \in reports : Sent(m, c) => m \in reports' /\ Sent(m, c)'
  BY DEF Sent
<1> QED
  BY <1>1, <1>2 DEF Stays, Out

LEMMA FetchStays ==
  ASSUME PoolInv, NEW c \in Task, NEW w \in Workers, NEW v \in Workers, NEW f,
         fetch' = [fetch EXCEPT ![w] = f],
         fetch[w].task = NoTask \/ f.task = fetch[w].task,
         UNCHANGED <<jobs, slots, reports>>
  PROVE  Stays(v, c)
<1>1. Held(v, c) => Held(v, c)'
  BY NoTaskIsNone DEF Held, PoolInv, Shapes
<1>2. /\ \A s \in Slots : InSlot(v, s, c) => InSlot(v, s, c)'
      /\ \A k \in DOMAIN jobs[v] : Queued(v, k, c) => k \in DOMAIN jobs'[v] /\ Queued(v, k, c)'
  BY DEF InSlot, Queued
<1> QED
  BY <1>1, <1>2, Remains DEF Alive

LEMMA SlotStays ==
  ASSUME PoolInv, NEW c \in Task, NEW w \in Workers, NEW s \in Slots, NEW v \in Workers, NEW x,
         slots' = [slots EXCEPT ![w][s] = x],
         slots[w][s].pc \in {"starting", "running"} =>
           x.pc \in {"starting", "running"} /\ x.task = slots[w][s].task,
         Held(v, c) => Held(v, c)',
         UNCHANGED <<jobs, reports>>
  PROVE  Stays(v, c)
<1>1. \A u \in Workers, r \in Slots : slots'[u][r] = IF u = w /\ r = s THEN x ELSE slots[u][r]
  BY DEF PoolInv, Shapes
<1>2. \A r \in Slots : InSlot(v, r, c) => InSlot(v, r, c)'
  BY <1>1 DEF InSlot
<1>3. \A k \in DOMAIN jobs[v] : Queued(v, k, c) => k \in DOMAIN jobs'[v] /\ Queued(v, k, c)'
  BY DEF Queued
<1> QED
  BY <1>2, <1>3, Remains DEF Alive

LEMMA EnqueueStays ==
  ASSUME PoolInv, NEW c \in Task, NEW w \in Workers, NEW v \in Workers, Enqueue(w)
  PROVE  Stays(v, c)
<1>1. /\ fetch[w].task \in Task /\ jobs[w] \in Seq(Task)
      /\ fetch' = [fetch EXCEPT ![w] = IdleFetch]
      /\ jobs' = [jobs EXCEPT ![w] = Append(jobs[w], fetch[w].task)]
      /\ UNCHANGED <<slots, reports>>
  BY DEF PoolInv, Hands, Shapes, Enqueue
<1> DEFINE q    == Append(jobs[w], fetch[w].task)
           last == Len(jobs[w]) + 1
<1>2. /\ DOMAIN jobs[w] \subseteq DOMAIN q /\ last \in DOMAIN q
      /\ \A k \in DOMAIN jobs[w] : q[k] = jobs[w][k]
      /\ q[last] = fetch[w].task
  BY <1>1
<1>3. /\ jobs'[w] = q
      /\ \A u \in Workers \ {w} : jobs'[u] = jobs[u] /\ fetch'[u] = fetch[u]
  BY <1>1 DEF PoolInv, Shapes
<1> HIDE DEF q, last
<1>4. \A k \in DOMAIN jobs[v] : Queued(v, k, c) => k \in DOMAIN jobs'[v] /\ Queued(v, k, c)'
  BY <1>2, <1>3 DEF Queued
<1>5. Held(v, c) => Alive(v, c)'
  <2>1. CASE v = w
    BY <1>2, <1>3, <2>1 DEF Held, Alive, Queued
  <2>2. CASE v # w
    BY <1>3, <2>2 DEF Held, Alive
  <2> QED
    BY <2>1, <2>2
<1>6. \A s \in Slots : InSlot(v, s, c) => InSlot(v, s, c)'
  BY <1>1 DEF InSlot
<1> QED
  BY <1>1, <1>4, <1>5, <1>6, Remains DEF Alive

LEMMA TakeStays ==
  ASSUME PoolInv, NEW c \in Task, NEW w \in Workers, NEW s \in Slots, NEW v \in Workers,
         Take(w, s)
  PROVE  Stays(v, c)
<1> DEFINE x == [pc |-> "starting", task |-> Head(jobs[w]),
                 ctx |-> IF life[w] = "up" THEN "live" ELSE "shutdown"]
           q == Tail(jobs[w])
<1>1. /\ jobs[w] \in Seq(Task) /\ jobs[w] # <<>>
      /\ jobs' = [jobs EXCEPT ![w] = q]
      /\ slots' = [slots EXCEPT ![w][s] = x]
      /\ slots[w][s].pc = "idle"
      /\ UNCHANGED <<fetch, reports>>
  BY DEF PoolInv, Shapes, Take
<1>2. /\ DOMAIN jobs[w] \subseteq Nat
      /\ x.pc = "starting" /\ x.task = jobs[w][1]
      /\ \A k \in DOMAIN jobs[w] \ {1} : k - 1 \in DOMAIN q /\ q[k - 1] = jobs[w][k]
  BY <1>1
<1>3. /\ \A u \in Workers, r \in Slots : slots'[u][r] = IF u = w /\ r = s THEN x ELSE slots[u][r]
      /\ jobs'[w] = q /\ \A u \in Workers \ {w} : jobs'[u] = jobs[u]
  BY <1>1 DEF PoolInv, Shapes
<1> HIDE DEF x, q
<1>4. \A r \in Slots : InSlot(v, r, c) => InSlot(v, r, c)'
  BY <1>1, <1>3 DEF InSlot
<1>5. ASSUME NEW k \in DOMAIN jobs[v], Queued(v, k, c)
      PROVE  Alive(v, c)'
  <2>1. CASE v = w /\ k = 1
    <3>1. InSlot(w, s, c)'
      BY <1>2, <1>3, <1>5, <2>1 DEF Queued, InSlot
    <3> QED
      BY <2>1, <3>1 DEF Alive
  <2>2. CASE v = w /\ k # 1
    <3>1. Queued(w, k - 1, c)' /\ k - 1 \in DOMAIN jobs'[w]
      BY <1>2, <1>3, <1>5, <2>2 DEF Queued
    <3> QED
      BY <2>2, <3>1 DEF Alive
  <2>3. CASE v # w
    BY <1>3, <1>5, <2>3 DEF Queued, Alive
  <2> QED
    BY <2>1, <2>2, <2>3
<1>6. Held(v, c) => Held(v, c)'
  BY <1>1 DEF Held
<1> QED
  BY <1>1, <1>4, <1>5, <1>6, Remains DEF Alive

\* A run that was not cancelled ends in a report.
LEMMA FinishStays ==
  ASSUME PoolInv, AllUp, NEW c \in Task, NEW w \in Workers, NEW s \in Slots, NEW v \in Workers,
         NEW ok \in BOOLEAN, Finish(w, s, ok),
         ~(InSlot(w, s, c) /\ Cancelled(w, s))
  PROVE  Stays(v, c)
<1> DEFINE x == [slots[w][s] EXCEPT !.pc = "reporting"]
           m == [worker |-> w, task |-> slots[w][s].task, ok |-> ok]
<1>1. /\ slots' = [slots EXCEPT ![w][s] = x] /\ slots[w][s].pc = "running"
      /\ reports' = IF slots[w][s].ctx = "live" THEN reports \cup {m} ELSE reports
      /\ UNCHANGED <<fetch, jobs>>
  BY DEF Finish
<1>2. \A u \in Workers, r \in Slots : u # w \/ r # s => slots'[u][r] = slots[u][r]
  BY <1>1 DEF PoolInv, Shapes
<1>3. InSlot(w, s, c) => /\ m \in reports' /\ m.worker = w /\ m.task = c
  BY <1>1 DEF AllUp, InSlot, Cancelled
<1>4. ~(v = w /\ InSlot(w, s, c)) => Stays(v, c)
  <2>1. \A r \in Slots : ~(v = w /\ InSlot(w, s, c)) /\ InSlot(v, r, c) => InSlot(v, r, c)'
    BY <1>2 DEF InSlot
  <2>2. /\ \A k \in DOMAIN jobs[v] : Queued(v, k, c) => k \in DOMAIN jobs'[v] /\ Queued(v, k, c)'
        /\ Held(v, c) => Held(v, c)'
        /\ reports \subseteq reports'
    BY <1>1 DEF Queued, Held
  <2> QED
    BY <2>1, <2>2, Remains DEF Alive
<1> HIDE DEF x, m
<1>5. CASE v = w /\ InSlot(w, s, c)
  <2>1. \E n \in reports' : Sent(n, c)' /\ n.worker = v
    BY <1>3, <1>5 DEF Sent
  <2> QED
    BY <2>1 DEF Stays, Out
<1> QED
  BY <1>4, <1>5

LEMMA StillStays ==
  ASSUME NEW c \in Task, NEW v \in Workers, UNCHANGED <<fetch, jobs, slots, reports>>
  PROVE  Stays(v, c)
BY DEF Stays, Out, Alive, InSlot, Queued, Held, Sent

(***************************************************************************)
(* The steps of the pool that are left.                                    *)
(***************************************************************************)
CalmPool ==
  \/ UNCHANGED poolVars
  \/ \E w \in Workers :
       \/ FetcherStep(w)
       \/ ServerClaims(w, NoTask)
       \/ ServerAnswers(w, StopList(w))
       \/ \E s \in Slots : ExecutorStep(w, s)

LEMMA CalmSteps ==
  ASSUME Calm, DispatchInv, AllUp, [DispatchNext]_vars
  PROVE  \/ CalmPool /\ UNCHANGED <<storeVars, history>>
         \/ CreateOnce
         \/ \E t \in DOMAIN tasks : Stop(t) \/ Restart(t) \/ DeleteTask(t)
         \/ \E w \in Workers, t \in OldestDue : ClaimOf(w, t)
         \/ \E m \in reports : HandleReport(m)
<1>1. CASE UNCHANGED vars
  BY <1>1 DEF vars, CalmPool
<1>2. CASE UserMay
  BY <1>2 DEF UserMay
<1>3. ASSUME NEW w \in Workers, WorkerRuns(w) \/ PullAnswers(w)
      PROVE  CalmPool /\ UNCHANGED <<storeVars, history>>
  BY <1>3 DEF WorkerRuns, PullAnswers, CalmPool
<1>4. ASSUME NEW w \in Workers, WorkerMay(w)
      PROVE  FALSE
  BY <1>4 DEF WorkerMay, Calm, Faults, AllUp, ProcessExit, Boot
<1>5. ASSUME NEW w \in Workers, PullClaims(w)
      PROVE  \/ CalmPool /\ UNCHANGED <<storeVars, history>>
             \/ \E t \in OldestDue : ClaimOf(w, t)
  <2>1. CASE ClaimNothing /\ ServerClaims(w, NoTask) /\ UNCHANGED claims
    BY <1>5, <2>1 DEF PullClaims, ClaimNothing, CalmPool, history
  <2>2. CASE \E t \in OldestDue :
               /\ claims[t] + 1 \in Claims
               /\ ClaimPending(w, t)
               /\ ServerClaims(w, [id |-> t, claim |-> claims[t] + 1])
               /\ claims' = [claims EXCEPT ![t] = @ + 1]
    BY <1>5, <2>2 DEF PullClaims, ClaimOf
  <2> QED
    BY <1>5, <2>1, <2>2 DEF PullClaims
<1>6. ASSUME NEW m \in reports, ReportLost(m)
      PROVE  FALSE
  BY <1>6 DEF ReportLost, Calm, Faults
<1>7. ~("server restart" \in Env)
  BY DEF Calm, Faults
<1> QED
  BY <1>1, <1>2, <1>3, <1>4, <1>5, <1>6, <1>7 DEF DispatchNext

LEMMA CalmFetcher ==
  ASSUME PoolInv, AllUp, NEW w \in Workers,
         \/ FetcherStep(w)
         \/ ServerClaims(w, NoTask)
         \/ ServerAnswers(w, StopList(w))
  PROVE  AllUp' /\ \A c \in Task, v \in Workers : Stays(v, c)
<1>0. /\ fetch[w] \in FetchState /\ life[w] = "up"
      /\ fetch[w].pc \in {"idle", "pulling", "closed"} => fetch[w].task = NoTask
  BY DEF PoolInv, Shapes, Hands, AllUp
<1>1. CASE Pull(w)
  <2>1. [fetch[w] EXCEPT !.pc = "pulling"].task = fetch[w].task
    BY <1>0 DEF FetchState
  <2> QED
    BY <1>1, <2>1, FetchStays DEF Pull, AllUp
<1>2. CASE StopListDone(w)
  <2>1. [fetch[w] EXCEPT !.pc = "sending"].task = fetch[w].task
    BY <1>0 DEF FetchState
  <2> QED
    BY <1>2, <2>1, FetchStays DEF StopListDone, AllUp
<1>3. CASE Enqueue(w)
  BY <1>3, EnqueueStays DEF Enqueue, AllUp
<1>4. CASE ServerClaims(w, NoTask)
  <2>1. fetch[w].task = NoTask
    BY <1>0, <1>4 DEF ServerClaims
  <2> QED
    BY <1>4, <2>1, FetchStays DEF ServerClaims, AllUp
<1>5. CASE ServerAnswers(w, StopList(w))
  <2>1. [fetch[w] EXCEPT !.pc = "answered", !.stops = StopList(w)].task = fetch[w].task
    BY <1>0 DEF FetchState
  <2> QED
    BY <1>5, <2>1, FetchStays DEF ServerAnswers, AllUp
<1>6. ASSUME NEW i \in Ids, CancelActive(w, i)
      PROVE  AllUp' /\ \A c \in Task, v \in Workers : Stays(v, c)
  <2> DEFINE f == [fetch[w] EXCEPT !.stops = @ \ {i}]
  <2>1. f.task = fetch[w].task /\ fetch' = [fetch EXCEPT ![w] = f] /\ UNCHANGED <<life, jobs, reports>>
    BY <1>0, <1>6 DEF FetchState, CancelActive
  <2> HIDE DEF f
  <2>2. CASE i \notin DOMAIN active[w]
    <3>1. slots' = slots
      BY <1>6, <2>2 DEF CancelActive
    <3>2. AllUp'
      BY <2>1, <3>1 DEF AllUp
    <3> QED
      BY <2>1, <3>1, <3>2, FetchStays
  <2>3. CASE i \in DOMAIN active[w]
    <3> DEFINE s == active[w][i]
               x == [slots[w][s] EXCEPT !.ctx = IF @ = "live" THEN "stopped" ELSE @]
    <3>1. s \in Slots /\ slots[w][s] \in SlotState
      BY <2>3 DEF PoolInv, Shapes, ActiveOK
    <3>2. slots' = [slots EXCEPT ![w][s] = x]
      BY <1>6, <2>3 DEF CancelActive
    <3>3. x.pc = slots[w][s].pc /\ x.task = slots[w][s].task /\ x.ctx \in {"live", "stopped"}
      BY <3>1 DEF SlotState, AllUp
    <3>4. \A u \in Workers, r \in Slots : slots'[u][r] = IF u = w /\ r = s THEN x ELSE slots[u][r]
      BY <3>1, <3>2 DEF PoolInv, Shapes
    <3> HIDE DEF s, x
    <3>5. AllUp'
      BY <2>1, <3>3, <3>4 DEF AllUp
    <3>6. \A c \in Task, v \in Workers : Held(v, c) => Held(v, c)'
      BY <2>1 DEF Held, PoolInv, Shapes
    <3>7. \A c \in Task, v \in Workers : Stays(v, c)
      BY <2>1, <3>1, <3>2, <3>3, <3>6, SlotStays
    <3> QED
      BY <3>5, <3>7
  <2> QED
    BY <2>2, <2>3
<1>7. ~AbandonSend(w) /\ ~CloseJobs(w)
  BY <1>0 DEF AbandonSend, CloseJobs
<1> QED
  BY <1>1, <1>2, <1>3, <1>4, <1>5, <1>6, <1>7 DEF FetcherStep

LEMMA CalmExecutor ==
  ASSUME PoolInv, AllUp, NEW w \in Workers, NEW s \in Slots, ExecutorStep(w, s)
  PROVE  /\ AllUp'
         /\ \A c \in Task : ~(InSlot(w, s, c) /\ Cancelled(w, s)) =>
                              \A v \in Workers : Stays(v, c)
<1> DEFINE x == slots[w][s]
<1>1. x \in SlotState /\ x.ctx \in {"live", "stopped"} /\ life[w] = "up"
  BY DEF PoolInv, Shapes, AllUp
<1>2. /\ UNCHANGED <<life, fetch>>
      /\ \A c \in Task, v \in Workers : Held(v, c) => Held(v, c)'
  BY DEF ExecutorStep, Take, Register, Finish, EndRun, ExitSlot, Held
<1>3. ASSUME NEW y, slots' = [slots EXCEPT ![w][s] = y], y.ctx \in {"live", "stopped"}
      PROVE  AllUp'
  <2>1. \A u \in Workers, r \in Slots : slots'[u][r] = IF u = w /\ r = s THEN y ELSE slots[u][r]
    BY <1>3 DEF PoolInv, Shapes
  <2> QED
    BY <1>2, <1>3, <2>1 DEF AllUp
<1>4. CASE Take(w, s)
  <2> DEFINE y == [pc |-> "starting", task |-> Head(jobs[w]), ctx |-> "live"]
  <2>1. slots' = [slots EXCEPT ![w][s] = y] /\ y.ctx = "live"
    BY <1>1, <1>4 DEF Take
  <2> HIDE DEF y
  <2>2. AllUp'
    BY <1>3, <2>1
  <2> QED
    BY <1>4, <2>2, TakeStays
<1>5. CASE Register(w, s)
  <2>1. /\ [x EXCEPT !.pc = "running"].ctx = x.ctx
        /\ [x EXCEPT !.pc = "running"].task = x.task
        /\ [x EXCEPT !.pc = "running"].pc = "running"
    BY <1>1 DEF SlotState
  <2>2. AllUp'
    BY <1>1, <1>3, <1>5, <2>1 DEF Register
  <2>3. \A c \in Task, v \in Workers : Stays(v, c)
    BY <1>2, <1>5, <2>1, SlotStays DEF Register
  <2> QED
    BY <2>2, <2>3
<1>6. ASSUME NEW ok \in BOOLEAN, Finish(w, s, ok)
      PROVE  /\ AllUp'
             /\ \A c \in Task : ~(InSlot(w, s, c) /\ Cancelled(w, s)) =>
                                  \A v \in Workers : Stays(v, c)
  <2>1. [x EXCEPT !.pc = "reporting"].ctx = x.ctx
    BY <1>1 DEF SlotState
  <2>2. AllUp'
    BY <1>1, <1>3, <1>6, <2>1 DEF Finish
  <2> QED
    BY <1>6, <2>2, FinishStays
<1>7. CASE EndRun(w, s)
  <2>1. IdleSlot.ctx = "live"
    BY DEF IdleSlot
  <2>2. AllUp'
    BY <1>3, <1>7, <2>1 DEF EndRun
  <2>3. \A c \in Task, v \in Workers : Stays(v, c)
    BY <1>2, <1>7, SlotStays DEF EndRun
  <2> QED
    BY <2>2, <2>3
<1>8. ~ExitSlot(w, s)
  BY <1>1 DEF ExitSlot
<1> QED
  BY <1>4, <1>5, <1>6, <1>7, <1>8 DEF ExecutorStep

(***************************************************************************)
(* The running rows.                                                       *)
(***************************************************************************)
\* The run of a running row's last claim was not cancelled: the stop would be
\* of that claim or a later one, and there is none.
LEMMA LastIsUncancelled ==
  ASSUME DispatchInv, NEW t \in DOMAIN tasks, tasks[t].status = "running",
         LastClaim(t) \in Task, NEW w \in Workers, NEW s \in Slots
  PROVE  ~(InSlot(w, s, LastClaim(t)) /\ Cancelled(w, s))
<1> SUFFICES ASSUME InSlot(w, s, LastClaim(t)), Cancelled(w, s)
             PROVE  FALSE
  OBVIOUS
<1>1. t \in Ids /\ claims[t] \in Nat
  BY RowsAreIds DEF DispatchInv, Numbered
<1>2. slots[w][s].task.id = t /\ slots[w][s].task.claim = claims[t]
  BY DEF InSlot, LastClaim
<1>3. PICK d \in stopped : d.id = t /\ d.claim >= claims[t]
  BY <1>2 DEF DispatchInv, StopsReachBack, Cancelled
<1>4. d.claim \in Nat /\ d.claim <= claims[t] /\ d.claim # claims[t]
  BY <1>3 DEF DispatchInv, StopsPast
<1> QED
  BY <1>1, <1>3, <1>4

\* A row that is not written, and whose claim is not lost.
LEMMA RowOutKept ==
  ASSUME NEW t, t \in DOMAIN tasks, RowOut(t),
         tasks'[t] = tasks[t], claims'[t] = claims[t],
         \A w \in Workers, c \in Task :
           tasks[t].status = "running" /\ w = tasks[t].worker /\ c = LastClaim(t) => Stays(w, c)
  PROVE  RowOut(t)'
<1>1. PICK w : w = tasks[t].worker
  OBVIOUS
<1>2. PICK c : c = LastClaim(t)
  OBVIOUS
<1>3. LastClaim(t)' = c /\ tasks'[t].worker = w
  BY <1>1, <1>2 DEF LastClaim
<1>4. tasks[t].status = "running" => w \in Workers /\ c \in Task /\ Out(w, c)
  BY <1>1, <1>2 DEF RowOut
<1>5. tasks[t].status = "running" => w \in Workers /\ c \in Task /\ Out(w, c)'
  BY <1>1, <1>2, <1>4 DEF Stays
<1> QED
  BY <1>3, <1>5 DEF RowOut

LEMMA CalmPoolSafe ==
  ASSUME DispatchInv, CalmInv, CalmPool, UNCHANGED <<storeVars, history>>
  PROVE  CalmInv'
<1>1. CASE UNCHANGED poolVars
  <2>1. AllUp'
    BY <1>1 DEF CalmInv, AllUp, poolVars
  <2>2. \A v \in Workers, c \in Task : Stays(v, c)
    BY <1>1, StillStays DEF poolVars
  <2>3. \A t \in DOMAIN tasks' : RowOut(t)'
    BY <2>2, RowOutKept DEF CalmInv, storeVars, history
  <2> QED
    BY <2>1, <2>3 DEF CalmInv
<1>2. ASSUME NEW w \in Workers,
             \/ FetcherStep(w)
             \/ ServerClaims(w, NoTask)
             \/ ServerAnswers(w, StopList(w))
      PROVE  CalmInv'
  <2>1. AllUp' /\ \A v \in Workers, c \in Task : Stays(v, c)
    BY <1>2, CalmFetcher DEF CalmInv, DispatchInv
  <2>2. \A t \in DOMAIN tasks' : RowOut(t)'
    BY <2>1, RowOutKept DEF CalmInv, storeVars, history
  <2> QED
    BY <2>1, <2>2 DEF CalmInv
<1>3. ASSUME NEW w \in Workers, NEW s \in Slots, ExecutorStep(w, s)
      PROVE  CalmInv'
  <2>1. /\ AllUp'
        /\ \A c \in Task : ~(InSlot(w, s, c) /\ Cancelled(w, s)) =>
                             \A v \in Workers : Stays(v, c)
    BY <1>3, CalmExecutor DEF CalmInv, DispatchInv
  <2>2. ASSUME NEW t \in DOMAIN tasks, tasks[t].status = "running",
               NEW c \in Task, c = LastClaim(t), NEW v \in Workers
        PROVE  Stays(v, c)
    <3>1. ~(InSlot(w, s, c) /\ Cancelled(w, s))
      BY <2>2, LastIsUncancelled
    <3> QED
      BY <2>1, <3>1
  <2>3. \A t \in DOMAIN tasks' : RowOut(t)'
    BY <2>2, RowOutKept DEF CalmInv, storeVars, history
  <2> QED
    BY <2>1, <2>3 DEF CalmInv
<1> QED
  BY <1>1, <1>2, <1>3 DEF CalmPool

LEMMA CalmUserSafe ==
  ASSUME DispatchInv, CalmInv,
         \/ CreateOnce
         \/ \E t \in DOMAIN tasks : Stop(t) \/ Restart(t) \/ DeleteTask(t)
  PROVE  CalmInv'
<1>1. UNCHANGED poolVars /\ UNCHANGED claims
  BY DEF CreateOnce, Stop, Restart, DeleteTask, history
<1>2. AllUp' /\ \A v \in Workers, c \in Task : Stays(v, c)
  BY <1>1, StillStays DEF poolVars, CalmInv, AllUp
<1>3. ASSUME NEW t \in DOMAIN tasks', tasks'[t].status = "running"
      PROVE  t \in DOMAIN tasks /\ tasks'[t] = tasks[t]
  <2>1. \A u \in DOMAIN tasks : tasks[u] \in Row
    BY DEF DispatchInv, StoreInv, Good
  <2>2. CASE CreateOnce
    BY <1>3, <2>2 DEF CreateOnce, Create, NewRow
  <2>3. CASE \E u \in DOMAIN tasks : Stop(u)
    BY <1>3, <2>1, <2>3 DEF Stop, StopTask, Stopped, Row
  <2>4. CASE \E u \in DOMAIN tasks : Restart(u)
    BY <1>3, <2>1, <2>4 DEF Restart, ResumeTask, Row
  <2>5. CASE \E u \in DOMAIN tasks : DeleteTask(u)
    BY <1>3, <2>5 DEF DeleteTask, Delete
  <2> QED
    BY <2>2, <2>3, <2>4, <2>5
<1>4. ASSUME NEW t \in DOMAIN tasks'
      PROVE  RowOut(t)'
  <2>1. CASE tasks'[t].status = "running"
    BY <1>1, <1>2, <1>3, <2>1, RowOutKept DEF CalmInv
  <2>2. CASE tasks'[t].status # "running"
    BY <2>2 DEF RowOut
  <2> QED
    BY <2>1, <2>2
<1> QED
  BY <1>2, <1>4 DEF CalmInv

\* The claim is in the hands of the fetcher that asked.
LEMMA CalmClaimSafe ==
  ASSUME DispatchInv, CalmInv, NEW w \in Workers, NEW t \in OldestDue, ClaimOf(w, t)
  PROVE  CalmInv'
<1>0. PICK c : c = [id |-> t, claim |-> claims[t] + 1]
  OBVIOUS
<1>1. /\ t \in DOMAIN tasks /\ t \in Ids /\ tasks[t] \in Row
      /\ claims \in [Ids -> Nat] /\ c \in Task
  BY <1>0, RowsAreIds DEF ClaimOf, OldestDue, Due, Task, DispatchInv, Numbered, StoreInv, Good
<1>2. /\ DOMAIN tasks' = DOMAIN tasks
      /\ \A u \in DOMAIN tasks : u # t => tasks'[u] = tasks[u]
      /\ tasks'[t].worker = w
      /\ claims'[t] = claims[t] + 1
      /\ \A u \in Ids : u # t => claims'[u] = claims[u]
  BY <1>1 DEF ClaimOf, ClaimPending, Row
<1>3. LastClaim(t)' = c
  BY <1>0, <1>2 DEF LastClaim
<1>4. /\ fetch' = [fetch EXCEPT ![w] = [fetch[w] EXCEPT !.pc = "claimed", !.task = c]]
      /\ UNCHANGED <<life, jobs, slots, reports>>
      /\ fetch[w] \in FetchState /\ fetch[w].task = NoTask
  BY <1>0 DEF ClaimOf, ServerClaims, DispatchInv, PoolInv, Shapes, Hands
<1>5. Out(w, c)'
  <2>1. fetch'[w].task = c
    BY <1>4 DEF DispatchInv, PoolInv, Shapes, FetchState
  <2> QED
    BY <2>1 DEF Out, Alive, Held
<1>6. RowOut(t)'
  BY <1>1, <1>2, <1>3, <1>5 DEF RowOut
<1>7. \A v \in Workers, d \in Task : Stays(v, d)
  BY <1>4, FetchStays DEF DispatchInv
<1>8. ASSUME NEW u \in DOMAIN tasks', u # t
      PROVE  RowOut(u)'
  <2>1. u \in DOMAIN tasks /\ u \in Ids
    BY <1>2, RowsAreIds DEF DispatchInv
  <2> QED
    BY <1>2, <1>7, <1>8, <2>1, RowOutKept DEF CalmInv
<1>9. AllUp'
  BY <1>4 DEF CalmInv, AllUp
<1> QED
  BY <1>6, <1>8, <1>9 DEF CalmInv

\* The report of a running row's last claim ends its run; another one is no
\* loss to the row.
LEMMA CalmReportSafe ==
  ASSUME DispatchInv, CalmInv, NEW m \in reports, HandleReport(m)
  PROVE  CalmInv'
<1>1. /\ UNCHANGED <<life, fetch, jobs, slots, claims>> /\ reports' = reports \ {m}
      /\ m.worker \in Workers /\ m.task \in Task
  BY DEF HandleReport, history, DispatchInv, PoolInv, Shapes
<1>2. AllUp'
  BY <1>1 DEF CalmInv, AllUp
<1>3. ASSUME NEW v \in Workers, NEW c \in Task, m.worker # v \/ m.task # c
      PROVE  Stays(v, c)
  <2>1. Alive(v, c) => Alive(v, c)'
    BY <1>1 DEF Alive, InSlot, Queued, Held
  <2>2. \A n \in reports : Sent(n, c) /\ n.worker = v => n \in reports' /\ Sent(n, c)'
    BY <1>1, <1>3 DEF Sent
  <2> QED
    BY <2>1, <2>2 DEF Stays, Out
<1>4. ASSUME NEW t \in DOMAIN tasks'
      PROVE  RowOut(t)'
  <2>1. CASE ReportRefused(m.task.id, m.worker)
    <3>1. UNCHANGED tasks /\ (m.task.id = t => tasks[t].worker # m.worker)
      BY <2>1 DEF ReportRefused, OwnedBy, storeVars
    <3>2. LastClaim(t).id = t
      BY DEF LastClaim
    <3>3. \A v \in Workers, c \in Task :
            v = tasks[t].worker /\ c = LastClaim(t) => Stays(v, c)
      BY <1>3, <3>1, <3>2
    <3> QED
      BY <1>1, <3>1, <3>3, RowOutKept DEF CalmInv
  <2>2. CASE ReportResult(m.task.id, m.worker, m.ok)
    <3>1. /\ OthersKept(m.task.id)
          /\ m.task.id \in DOMAIN tasks'
          /\ tasks'[m.task.id].status # "running"
      BY <2>2, ReportOutcome DEF DispatchInv, Outcome
    <3>2. CASE t = m.task.id
      BY <3>1, <3>2 DEF RowOut
    <3>3. CASE t # m.task.id
      <4>1. t \in DOMAIN tasks /\ tasks'[t] = tasks[t]
        BY <3>1, <3>3 DEF OthersKept
      <4>2. LastClaim(t).id = t
        BY DEF LastClaim
      <4>3. \A v \in Workers, c \in Task : c = LastClaim(t) => Stays(v, c)
        BY <1>3, <3>3, <4>2
      <4> QED
        BY <1>1, <4>1, <4>3, RowOutKept DEF CalmInv
    <3> QED
      BY <3>2, <3>3
  <2> QED
    BY <2>1, <2>2 DEF HandleReport
<1> QED
  BY <1>2, <1>4 DEF CalmInv

LEMMA CalmStep ==
  ASSUME Calm, DispatchInv, CalmInv, [DispatchNext]_vars
  PROVE  CalmInv'
<1>1. \/ CalmPool /\ UNCHANGED <<storeVars, history>>
      \/ CreateOnce
      \/ \E t \in DOMAIN tasks : Stop(t) \/ Restart(t) \/ DeleteTask(t)
      \/ \E w \in Workers, t \in OldestDue : ClaimOf(w, t)
      \/ \E m \in reports : HandleReport(m)
  BY CalmSteps DEF CalmInv
<1> QED
  BY <1>1, CalmPoolSafe, CalmUserSafe, CalmClaimSafe, CalmReportSafe

LEMMA CalmMeaning == DispatchInv /\ CalmInv => RunningIsLive
<1> SUFFICES ASSUME DispatchInv, CalmInv, NEW t \in DOMAIN tasks, tasks[t].status = "running"
             PROVE  OnTheWay(t)
  BY DEF RunningIsLive
<1> DEFINE w == tasks[t].worker
           c == LastClaim(t)
<1>1. t \in Ids /\ w \in Workers /\ c \in Task /\ c.id = t /\ c.claim = claims[t] /\ Out(w, c)
  BY RowsAreIds DEF DispatchInv, CalmInv, RowOut, LastClaim
<1>2. CASE Alive(w, c)
  <2> DEFINE p == <<w, claims[t]>>
  <2>1. p \in Workers \X Claims
    BY <1>1 DEF Task
  <2>2. p[1] = w /\ [id |-> t, claim |-> p[2]] = c
    BY DEF LastClaim
  <2>3. p \in LiveCopies(t)
    BY <1>1, <1>2, <2>1, <2>2, LiveCopiesMeaning
  <2> QED
    BY <2>3 DEF OnTheWay
<1>3. CASE \E m \in reports : Sent(m, c) /\ m.worker = w
  BY <1>1, <1>3 DEF Sent, OnTheWay
<1> QED
  BY <1>1, <1>2, <1>3 DEF Out

\* RunningIsLive: as long as nothing of Faults happens, no claim is forgotten,
\* whatever users stop, restart or delete and in whatever order the answers,
\* the stop lists and the reports are handled.
THEOREM RunningIsLiveHolds ==
  ASSUME Calm
  PROVE  DispatchSpec => []RunningIsLive
<1>1. DispatchInit => CalmInv
  <2>1. DispatchInit => AllUp
    BY DEF DispatchInit, PoolInit, AllUp, IdleSlot
  <2>2. DispatchInit => DOMAIN tasks = {}
    BY DEF DispatchInit, Init
  <2> QED
    BY <2>1, <2>2 DEF CalmInv
<1>2. DispatchInv /\ CalmInv /\ [DispatchNext]_vars => CalmInv'
  BY CalmStep
<1> QED
  BY <1>1, <1>2, CalmMeaning, DispatchInvariant, PTL DEF DispatchSpec
=============================================================================
