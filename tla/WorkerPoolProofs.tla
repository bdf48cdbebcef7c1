--------------------------- MODULE WorkerPoolProofs ---------------------------
(***************************************************************************)
(* Proofs about WorkerPool, for any set of workers, tasks and claims and   *)
(* any finite set of executor slots.                                       *)
(***************************************************************************)
EXTENDS WorkerPool, FiniteSetTheorems, SequenceTheorems, TLAPS

(***************************************************************************)
(* The inductive invariant.                                                *)
(***************************************************************************)
FetchState == [pc    : {"idle", "pulling", "claimed", "answered", "sending", "closed"},
               task  : Task \cup {NoTask},
               stops : SUBSET Ids]

SlotState == [pc   : Busy \cup {"idle", "exited"},
              task : Task \cup {NoTask},
              ctx  : {"live", "stopped", "expired", "shutdown"}]

ActiveOK(a) == DOMAIN a \subseteq Ids /\ a \in [DOMAIN a -> Slots]

\* PoolTypeOK, with jobs and active as functions.
Shapes ==
  /\ life \in [Workers -> {"up", "draining", "down"}]
  /\ fetch \in [Workers -> FetchState]
  /\ jobs \in [Workers -> Seq(Task)]
  /\ \A w \in Workers : Len(jobs[w]) <= JobsCap
  /\ slots \in [Workers -> [Slots -> SlotState]]
  /\ active = [w \in Workers |-> active[w]]
  /\ \A w \in Workers : ActiveOK(active[w])
  /\ reports \subseteq [worker : Workers, task : Task, ok : BOOLEAN]

\* The fetcher has a task in its hands between the answer and the send, and a
\* stop list only while it works on one; a busy slot has a task, and the run it
\* is starting has not been cancelled: nobody knows it yet.
Hands ==
  /\ \A w \in Workers :
       /\ fetch[w].pc \in {"idle", "pulling", "closed"} => fetch[w].task = NoTask
       /\ fetch[w].pc = "sending" => fetch[w].task \in Task
       /\ fetch[w].pc # "answered" => fetch[w].stops = {}
  /\ \A w \in Workers, s \in Slots :
       /\ slots[w][s].pc \in Busy => slots[w][s].task \in Task
       /\ slots[w][s].pc \notin Busy => slots[w][s].task = NoTask
       /\ slots[w][s].pc = "starting" => slots[w][s].ctx # "stopped"

PoolInv == Shapes /\ Hands /\ ActiveIsLive

(***************************************************************************)
(* Small facts.                                                            *)
(***************************************************************************)
LEMMA CapIsNat == JobsCap \in Nat
BY PoolConstants, FS_CardinalityType DEF JobsCap

LEMMA NoTaskIsNone == NoTask \notin Task
BY PoolConstants DEF NoTask, Task

LEMMA IdleShapes == IdleFetch \in FetchState /\ IdleSlot \in SlotState
BY DEF IdleFetch, IdleSlot, FetchState, SlotState

LEMMA EmptyMap == ActiveOK(<<>>) /\ DOMAIN <<>> = {}
<1>1. DOMAIN <<>> = {} /\ <<>> = [j \in {} |-> 0]
  OBVIOUS
<1> QED
  BY <1>1 DEF ActiveOK

LEMMA SmallerMap ==
  ASSUME NEW a, ActiveOK(a), NEW i
  PROVE  ActiveOK([j \in DOMAIN a \ {i} |-> a[j]])
BY DEF ActiveOK

LEMMA LargerMap ==
  ASSUME NEW a, ActiveOK(a), NEW i \in Ids, NEW s \in Slots
  PROVE  ActiveOK([j \in DOMAIN a \cup {i} |-> IF j = i THEN s ELSE a[j]])
BY DEF ActiveOK

LEMMA InitPool == PoolInit => PoolInv
<1> SUFFICES ASSUME PoolInit PROVE PoolInv
  OBVIOUS
<1>1. Shapes
  <2>1. jobs \in [Workers -> Seq(Task)] /\ \A w \in Workers : Len(jobs[w]) = 0
    BY DEF PoolInit
  <2>2. \A w \in Workers : active[w] = <<>> /\ DOMAIN active[w] = {}
    BY DEF PoolInit
  <2> QED
    BY <2>1, <2>2, IdleShapes, CapIsNat, EmptyMap DEF PoolInit, Shapes
<1>2. Hands
  BY DEF PoolInit, Hands, IdleFetch, IdleSlot, Busy
<1>3. ActiveIsLive
  BY DEF PoolInit, ActiveIsLive
<1> QED
  BY <1>1, <1>2, <1>3 DEF PoolInv

(***************************************************************************)
(* What a step does, seen from one process.                                *)
(***************************************************************************)
\* A step of the fetcher that touches nothing but the fetcher.
LEMMA FetchOnly ==
  ASSUME PoolInv, NEW w \in Workers, NEW f \in FetchState,
         fetch' = [fetch EXCEPT ![w] = f],
         f.pc \in {"idle", "pulling", "closed"} => f.task = NoTask,
         f.pc = "sending" => f.task \in Task,
         f.pc # "answered" => f.stops = {},
         UNCHANGED <<life, jobs, slots, active>>, reports' \subseteq reports
  PROVE  PoolInv'
<1>1. Shapes'
  BY DEF PoolInv, Shapes
<1>2. Hands'
  BY DEF PoolInv, Shapes, Hands
<1>3. ActiveIsLive'
  BY DEF PoolInv, ActiveIsLive
<1> QED
  BY <1>1, <1>2, <1>3 DEF PoolInv

LEMMA FetcherSafe ==
  ASSUME PoolInv, NEW w \in Workers,
         \/ Pull(w) \/ PullFails(w) \/ StopListDone(w) \/ AbandonSend(w) \/ CloseJobs(w)
         \/ \E task \in Task \cup {NoTask} : ServerClaims(w, task)
         \/ \E stops \in SUBSET Ids : ServerAnswers(w, stops)
  PROVE  PoolInv'
<1> DEFINE f == fetch[w]
<1>0. f \in FetchState /\ f = [pc |-> f.pc, task |-> f.task, stops |-> f.stops]
  BY DEF PoolInv, Shapes, FetchState
<1>a. /\ f.pc \in {"idle", "pulling", "closed"} => f.task = NoTask
      /\ f.pc = "sending" => f.task \in Task
      /\ f.pc # "answered" => f.stops = {}
  BY DEF PoolInv, Hands
<1>1. CASE Pull(w) \/ CloseJobs(w)
  <2>1. PICK p \in {"pulling", "closed"} :
          /\ f.pc = "idle" /\ fetch' = [fetch EXCEPT ![w] = [f EXCEPT !.pc = p]]
          /\ UNCHANGED <<life, jobs, slots, active, reports>>
    BY <1>1 DEF Pull, CloseJobs
  <2>2. [f EXCEPT !.pc = p] \in FetchState
    BY <1>0 DEF FetchState
  <2> QED
    BY <1>0, <1>a, <2>1, <2>2, FetchOnly
<1>2. CASE PullFails(w) \/ AbandonSend(w)
  BY <1>2, FetchOnly, IdleShapes DEF PullFails, AbandonSend, IdleFetch
<1>3. CASE StopListDone(w)
  <2>1. CASE f.task = NoTask
    BY <1>3, <2>1, FetchOnly, IdleShapes DEF StopListDone, IdleFetch
  <2>2. CASE f.task # NoTask
    <3>1. [f EXCEPT !.pc = "sending"] \in FetchState /\ f.task \in Task
      BY <1>0, <2>2 DEF FetchState
    <3> QED
      BY <1>0, <1>3, <2>2, <3>1, FetchOnly DEF StopListDone
  <2> QED
    BY <2>1, <2>2
<1>4. ASSUME NEW task \in Task \cup {NoTask}, ServerClaims(w, task)
      PROVE  PoolInv'
  <2>1. [f EXCEPT !.pc = "claimed", !.task = task] \in FetchState
    BY <1>0 DEF FetchState
  <2> QED
    BY <1>0, <1>a, <1>4, <2>1, FetchOnly DEF ServerClaims
<1>5. ASSUME NEW stops \in SUBSET Ids, ServerAnswers(w, stops)
      PROVE  PoolInv'
  <2>1. [f EXCEPT !.pc = "answered", !.stops = stops] \in FetchState
    BY <1>0 DEF FetchState
  <2> QED
    BY <1>0, <1>a, <1>5, <2>1, FetchOnly DEF ServerAnswers
<1> QED
  BY <1>1, <1>2, <1>3, <1>4, <1>5

\* The invariant of one slot, and of one entry of the active map.
SlotOK(x) ==
  /\ x \in SlotState
  /\ x.pc \in Busy => x.task \in Task
  /\ x.pc \notin Busy => x.task = NoTask
  /\ x.pc = "starting" => x.ctx # "stopped"

Live(x, i) == x.pc \in {"running", "reporting"} /\ x.task.id = i /\ x.ctx # "stopped"

\* A step of one slot, and of the entries that lead to it.
LEMMA SlotStep ==
  ASSUME PoolInv, NEW w \in Workers, NEW s \in Slots, NEW x, SlotOK(x),
         slots' = [slots EXCEPT ![w][s] = x],
         UNCHANGED <<life, fetch>>,
         jobs' \in [Workers -> Seq(Task)], \A v \in Workers : Len(jobs'[v]) <= JobsCap,
         reports' \subseteq [worker : Workers, task : Task, ok : BOOLEAN],
         active' = [v \in Workers |-> active'[v]],
         \A v \in Workers : ActiveOK(active'[v]),
         \A v \in Workers : \A i \in DOMAIN active'[v] :
           IF v = w /\ active'[v][i] = s
           THEN Live(x, i)
           ELSE i \in DOMAIN active[v] /\ active'[v][i] = active[v][i]
  PROVE  PoolInv'
<1>1. /\ \A v \in Workers, r \in Slots :
            slots'[v][r] = IF v = w /\ r = s THEN x ELSE slots[v][r]
      /\ slots' \in [Workers -> [Slots -> SlotState]]
  BY DEF PoolInv, Shapes, SlotOK
<1>2. Shapes'
  BY <1>1 DEF PoolInv, Shapes
<1>3. Hands'
  BY <1>1 DEF PoolInv, Hands, SlotOK
<1>4. ActiveIsLive'
  <2> SUFFICES ASSUME NEW v \in Workers, NEW i \in DOMAIN active'[v]
               PROVE  Live(slots'[v][active'[v][i]], i)
    BY DEF ActiveIsLive, Live
  <2>1. active'[v][i] \in Slots
    BY DEF ActiveOK
  <2>2. CASE v = w /\ active'[v][i] = s
    BY <1>1, <2>2
  <2>3. CASE ~(v = w /\ active'[v][i] = s)
    <3>1. i \in DOMAIN active[v] /\ active'[v][i] = active[v][i]
      BY <2>3
    <3>2. slots'[v][active[v][i]] = slots[v][active[v][i]]
      BY <1>1, <2>1, <2>3, <3>1
    <3> QED
      BY <3>1, <3>2 DEF PoolInv, ActiveIsLive, Live
  <2> QED
    BY <2>2, <2>3
<1> QED
  BY <1>2, <1>3, <1>4 DEF PoolInv

\* The same where the map stays as it is, the slot not being in it or staying live.
LEMMA SlotStepOnly ==
  ASSUME PoolInv, NEW w \in Workers, NEW s \in Slots, NEW x, SlotOK(x),
         slots' = [slots EXCEPT ![w][s] = x],
         UNCHANGED <<life, fetch, active>>,
         jobs' \in [Workers -> Seq(Task)], \A v \in Workers : Len(jobs'[v]) <= JobsCap,
         reports' \subseteq [worker : Workers, task : Task, ok : BOOLEAN],
         \A i \in DOMAIN active[w] : active[w][i] = s => Live(x, i)
  PROVE  PoolInv'
<1>1. /\ active' = [v \in Workers |-> active'[v]]
      /\ \A v \in Workers : ActiveOK(active'[v])
  BY DEF PoolInv, Shapes
<1>2. \A v \in Workers : \A i \in DOMAIN active'[v] :
           IF v = w /\ active'[v][i] = s
           THEN Live(x, i)
           ELSE i \in DOMAIN active[v] /\ active'[v][i] = active[v][i]
  OBVIOUS
<1> QED
  BY <1>1, <1>2, SlotStep

LEMMA HeadAndTail ==
  ASSUME PoolInv, NEW w \in Workers, jobs[w] # <<>>, jobs' = [jobs EXCEPT ![w] = Tail(@)]
  PROVE  /\ Head(jobs[w]) \in Task
         /\ jobs' \in [Workers -> Seq(Task)]
         /\ \A v \in Workers : Len(jobs'[v]) <= JobsCap
<1>1. jobs[w] \in Seq(Task) /\ Len(jobs[w]) <= JobsCap /\ jobs \in [Workers -> Seq(Task)]
      /\ \A v \in Workers : Len(jobs[v]) <= JobsCap
  BY DEF PoolInv, Shapes
<1>2. Head(jobs[w]) \in Task /\ Tail(jobs[w]) \in Seq(Task) /\ Len(Tail(jobs[w])) = Len(jobs[w]) - 1
      /\ Len(jobs[w]) \in Nat
  BY <1>1, HeadTailProperties
<1>3. Len(Tail(jobs[w])) <= JobsCap
  BY <1>1, <1>2, CapIsNat
<1> QED
  BY <1>1, <1>2, <1>3

LEMMA EnqueueSafe ==
  ASSUME PoolInv, NEW w \in Workers, Enqueue(w)
  PROVE  PoolInv'
<1>1. fetch[w].task \in Task /\ jobs[w] \in Seq(Task) /\ Len(jobs[w]) \in Nat
  BY DEF PoolInv, Hands, Shapes, Enqueue
<1>2. /\ Append(jobs[w], fetch[w].task) \in Seq(Task)
      /\ Len(Append(jobs[w], fetch[w].task)) = Len(jobs[w]) + 1
  BY <1>1, AppendProperties
<1>3. jobs' \in [Workers -> Seq(Task)] /\ \A v \in Workers : Len(jobs'[v]) <= JobsCap
  BY <1>1, <1>2, CapIsNat DEF PoolInv, Shapes, Enqueue
<1>4. fetch' = [fetch EXCEPT ![w] = IdleFetch] /\ UNCHANGED <<life, slots, active, reports>>
  BY DEF Enqueue
<1>5. Shapes'
  BY <1>3, <1>4, IdleShapes DEF PoolInv, Shapes
<1>6. Hands'
  BY <1>4 DEF PoolInv, Shapes, Hands, IdleFetch
<1>7. ActiveIsLive'
  BY <1>4 DEF PoolInv, ActiveIsLive
<1> QED
  BY <1>5, <1>6, <1>7 DEF PoolInv

LEMMA ExecutorSafe ==
  ASSUME PoolInv, NEW w \in Workers, NEW s \in Slots, ExecutorStep(w, s) \/ Expire(w, s)
  PROVE  PoolInv'
<1> DEFINE x == slots[w][s]
<1>1. /\ SlotOK(x) /\ x = [pc |-> x.pc, task |-> x.task, ctx |-> x.ctx]
      /\ \A i \in DOMAIN active[w] : active[w][i] = s => Live(x, i)
  BY DEF PoolInv, Shapes, ActiveOK, Hands, ActiveIsLive, SlotOK, SlotState, Live
<1>2. /\ jobs \in [Workers -> Seq(Task)] /\ \A v \in Workers : Len(jobs[v]) <= JobsCap
      /\ reports \subseteq [worker : Workers, task : Task, ok : BOOLEAN]
  BY DEF PoolInv, Shapes
<1>3. CASE Take(w, s)
  <2> DEFINE y == [pc |-> "starting", task |-> Head(jobs[w]),
                   ctx |-> IF life[w] = "up" THEN "live" ELSE "shutdown"]
  <2>1. SlotOK(y)
    BY <1>3, HeadAndTail DEF Take, SlotOK, SlotState, Busy
  <2>2. slots' = [slots EXCEPT ![w][s] = y]
    BY <1>3 DEF Take
  <2>3. \A i \in DOMAIN active[w] : active[w][i] # s
    BY <1>1, <1>3 DEF Take, Live
  <2>4. jobs' \in [Workers -> Seq(Task)] /\ \A v \in Workers : Len(jobs'[v]) <= JobsCap
    BY <1>3, HeadAndTail DEF Take
  <2>5. UNCHANGED <<life, fetch, active, reports>>
    BY <1>3 DEF Take
  <2> HIDE DEF y
  <2> QED
    BY <1>2, <2>1, <2>2, <2>3, <2>4, <2>5, SlotStepOnly
<1>4. CASE Register(w, s)
  <2> DEFINE y == [x EXCEPT !.pc = "running"]
             id == x.task.id
  <2>1. x.pc = "starting" /\ slots' = [slots EXCEPT ![w][s] = y]
        /\ UNCHANGED <<life, fetch, jobs, reports>>
    BY <1>4 DEF Register
  <2>2. SlotOK(y) /\ Live(y, id) /\ id \in Ids
    BY <1>1, <2>1 DEF SlotOK, SlotState, Busy, Live, Task
  <2>3. /\ active' = [v \in Workers |-> active'[v]]
        /\ \A v \in Workers : v # w => active'[v] = active[v]
        /\ active'[w] = [i \in DOMAIN active[w] \cup {id} |-> IF i = id THEN s ELSE active[w][i]]
    BY <1>4 DEF Register, PoolInv, Shapes
  <2>4. \A v \in Workers : ActiveOK(active'[v])
    <3>1. \A v \in Workers : ActiveOK(active[v])
      BY DEF PoolInv, Shapes
    <3>2. ActiveOK(active'[w])
      BY <2>2, <2>3, <3>1, LargerMap
    <3> QED
      BY <2>3, <3>1, <3>2
  <2>5. \A i \in DOMAIN active[w] : active[w][i] # s
    BY <1>1, <2>1 DEF Live
  <2>6. \A v \in Workers : \A i \in DOMAIN active'[v] :
           IF v = w /\ active'[v][i] = s
           THEN Live(y, i)
           ELSE i \in DOMAIN active[v] /\ active'[v][i] = active[v][i]
    BY <2>2, <2>3, <2>5
  <2> QED
    BY <1>2, <2>1, <2>2, <2>3, <2>4, <2>6, SlotStep
<1>5. CASE Expire(w, s)
  <2> DEFINE y == [x EXCEPT !.ctx = "expired"]
  <2>1. SlotOK(y) /\ slots' = [slots EXCEPT ![w][s] = y]
    BY <1>1, <1>5 DEF Expire, SlotOK, SlotState
  <2>2. \A i \in DOMAIN active[w] : active[w][i] = s => Live(y, i)
    BY <1>1 DEF Live
  <2> QED
    BY <1>2, <1>5, <2>1, <2>2, SlotStepOnly DEF Expire
<1>6. ASSUME NEW ok \in BOOLEAN, Finish(w, s, ok)
      PROVE  PoolInv'
  <2> DEFINE y == [x EXCEPT !.pc = "reporting"]
  <2>1. x.pc = "running" /\ slots' = [slots EXCEPT ![w][s] = y]
        /\ UNCHANGED <<life, fetch, jobs, active>>
    BY <1>6 DEF Finish
  <2>2. SlotOK(y) /\ x.task \in Task
    BY <1>1, <2>1 DEF SlotOK, SlotState, Busy
  <2>3. reports' \subseteq [worker : Workers, task : Task, ok : BOOLEAN]
    BY <1>2, <1>6, <2>2 DEF Finish
  <2>4. \A i \in DOMAIN active[w] : active[w][i] = s => Live(y, i)
    BY <1>1 DEF Live
  <2> QED
    BY <1>2, <2>1, <2>2, <2>3, <2>4, SlotStepOnly
<1>7. CASE EndRun(w, s)
  <2> DEFINE id == x.task.id
  <2>1. slots' = [slots EXCEPT ![w][s] = IdleSlot] /\ UNCHANGED <<life, fetch, jobs, reports>>
    BY <1>7 DEF EndRun
  <2>2. SlotOK(IdleSlot)
    BY IdleShapes DEF SlotOK, IdleSlot, Busy
  <2>3. /\ active' = [v \in Workers |-> active'[v]]
        /\ \A v \in Workers : v # w => active'[v] = active[v]
        /\ active'[w] = [i \in DOMAIN active[w] \ {id} |-> active[w][i]]
    BY <1>7 DEF EndRun, Without, PoolInv, Shapes
  <2>4. \A v \in Workers : ActiveOK(active'[v])
    <3>1. \A v \in Workers : ActiveOK(active[v])
      BY DEF PoolInv, Shapes
    <3>2. ActiveOK([i \in DOMAIN active[w] \ {id} |-> active[w][i]])
      BY <3>1, SmallerMap
    <3> QED
      BY <2>3, <3>1, <3>2
  <2>5. \A i \in DOMAIN active'[w] : active'[w][i] # s
    BY <1>1, <2>3 DEF Live
  <2>6. \A v \in Workers : \A i \in DOMAIN active'[v] :
           IF v = w /\ active'[v][i] = s
           THEN Live(IdleSlot, i)
           ELSE i \in DOMAIN active[v] /\ active'[v][i] = active[v][i]
    BY <2>3, <2>5
  <2> QED
    BY <1>2, <2>1, <2>2, <2>3, <2>4, <2>6, SlotStep
<1>8. CASE ExitSlot(w, s)
  <2> DEFINE y == [x EXCEPT !.pc = "exited"]
  <2>1. SlotOK(y) /\ slots' = [slots EXCEPT ![w][s] = y]
    BY <1>1, <1>8 DEF ExitSlot, SlotOK, SlotState, Busy
  <2>2. \A i \in DOMAIN active[w] : active[w][i] # s
    BY <1>1, <1>8 DEF ExitSlot, Live
  <2> QED
    BY <1>2, <1>8, <2>1, <2>2, SlotStepOnly DEF ExitSlot
<1> QED
  BY <1>3, <1>4, <1>5, <1>6, <1>7, <1>8 DEF ExecutorStep

LEMMA CancelSafe ==
  ASSUME PoolInv, NEW w \in Workers, NEW i \in Ids, CancelActive(w, i)
  PROVE  PoolInv'
<1> DEFINE f == [fetch[w] EXCEPT !.stops = @ \ {i}]
<1>1. /\ fetch[w] \in FetchState /\ fetch[w].pc = "answered"
      /\ fetch' = [fetch EXCEPT ![w] = f]
      /\ UNCHANGED <<life, jobs, reports>>
  BY DEF CancelActive, PoolInv, Shapes
<1>2. f \in FetchState /\ f.pc = "answered" /\ f.task = fetch[w].task
  BY <1>1 DEF FetchState
<1>3. CASE i \notin DOMAIN active[w]
  BY <1>1, <1>2, <1>3, FetchOnly DEF CancelActive
<1>4. CASE i \in DOMAIN active[w]
  <2> DEFINE s == active[w][i]
             y == [slots[w][s] EXCEPT !.ctx = IF @ = "live" THEN "stopped" ELSE @]
  <2>1. /\ s \in Slots /\ Live(slots[w][s], i)
        /\ slots[w][s] \in SlotState /\ slots[w][s].task \in Task
    BY <1>4 DEF PoolInv, Shapes, ActiveOK, Hands, ActiveIsLive, Live, Busy
  <2>2. /\ slots' = [slots EXCEPT ![w][s] = y]
        /\ active' = [active EXCEPT ![w] = [j \in DOMAIN active[w] \ {i} |-> active[w][j]]]
    BY <1>4 DEF CancelActive, Without
  <2>3. y \in SlotState /\ y.pc = slots[w][s].pc /\ y.task = slots[w][s].task
    BY <2>1 DEF SlotState
  <2>4. /\ \A v \in Workers, r \in Slots :
              slots'[v][r] = IF v = w /\ r = s THEN y ELSE slots[v][r]
        /\ slots' \in [Workers -> [Slots -> SlotState]]
    BY <2>1, <2>2, <2>3 DEF PoolInv, Shapes
  <2>5. /\ active' = [v \in Workers |-> active'[v]]
        /\ \A v \in Workers : v # w => active'[v] = active[v]
        /\ active'[w] = [j \in DOMAIN active[w] \ {i} |-> active[w][j]]
    BY <2>2 DEF PoolInv, Shapes
  <2>6. \A j \in DOMAIN active'[w] : active'[w][j] # s
    BY <2>1, <2>5 DEF PoolInv, ActiveIsLive, Live
  <2>7. Shapes'
    <3>1. \A v \in Workers : ActiveOK(active'[v])
      <4>1. \A v \in Workers : ActiveOK(active[v])
        BY DEF PoolInv, Shapes
      <4>2. ActiveOK(active'[w])
        BY <2>5, <4>1, SmallerMap
      <4> QED
        BY <2>5, <4>1, <4>2
    <3> QED
      BY <1>1, <1>2, <2>4, <2>5, <3>1 DEF PoolInv, Shapes
  <2>8. Hands'
    <3>1. \A v \in Workers : fetch'[v] = IF v = w THEN f ELSE fetch[v]
      BY <1>1 DEF PoolInv, Shapes
    <3>2. y.pc # "starting"
      BY <2>1, <2>3 DEF Live
    <3> HIDE DEF y, f
    <3> QED
      BY <1>1, <1>2, <2>3, <2>4, <3>1, <3>2 DEF PoolInv, Hands
  <2>9. ActiveIsLive'
    <3> SUFFICES ASSUME NEW v \in Workers, NEW j \in DOMAIN active'[v]
                 PROVE  Live(slots'[v][active'[v][j]], j)
      BY DEF ActiveIsLive, Live
    <3>1. j \in DOMAIN active[v] /\ active'[v][j] = active[v][j] /\ active[v][j] \in Slots
      BY <2>5 DEF PoolInv, Shapes, ActiveOK
    <3>2. slots'[v][active[v][j]] = slots[v][active[v][j]]
      BY <2>4, <2>6, <3>1
    <3> QED
      BY <3>1, <3>2 DEF PoolInv, ActiveIsLive, Live
  <2> QED
    BY <2>7, <2>8, <2>9 DEF PoolInv
<1> QED
  BY <1>3, <1>4

(***************************************************************************)
(* The process.                                                            *)
(***************************************************************************)
LEMMA ClearSafe ==
  ASSUME PoolInv, NEW w \in Workers, ClearMemory(w), UNCHANGED reports,
         life' \in [Workers -> {"up", "draining", "down"}]
  PROVE  PoolInv'
<1>1. /\ fetch' = [fetch EXCEPT ![w] = IdleFetch]
      /\ jobs' = [jobs EXCEPT ![w] = <<>>]
      /\ slots' = [slots EXCEPT ![w] = [s \in Slots |-> IdleSlot]]
      /\ active' = [active EXCEPT ![w] = <<>>]
  BY DEF ClearMemory
<1>2. jobs' \in [Workers -> Seq(Task)] /\ \A v \in Workers : Len(jobs'[v]) <= JobsCap
  <2>1. <<>> \in Seq(Task) /\ Len(<<>>) = 0
    OBVIOUS
  <2> QED
    BY <1>1, <2>1, CapIsNat DEF PoolInv, Shapes
<1>3. /\ active' = [v \in Workers |-> active'[v]]
      /\ \A v \in Workers : v # w => active'[v] = active[v]
      /\ active'[w] = <<>> /\ DOMAIN active'[w] = {} /\ ActiveOK(active'[w])
  BY <1>1, EmptyMap DEF PoolInv, Shapes
<1>4. Shapes'
  BY <1>1, <1>2, <1>3, IdleShapes DEF PoolInv, Shapes
<1>5. Hands'
  BY <1>1 DEF PoolInv, Shapes, Hands, IdleFetch, IdleSlot, Busy
<1>6. ActiveIsLive'
  BY <1>1, <1>3 DEF PoolInv, Shapes, ActiveIsLive
<1> QED
  BY <1>4, <1>5, <1>6 DEF PoolInv

LEMMA ProcessSafe ==
  ASSUME PoolInv, NEW w \in Workers, ProcessStep(w)
  PROVE  PoolInv'
<1>1. CASE ProcessExit(w) \/ Crash(w)
  BY <1>1, ClearSafe DEF ProcessExit, Crash, PoolInv, Shapes
<1>2. CASE Boot(w)
  BY <1>2 DEF Boot, PoolInv, Shapes, Hands, ActiveIsLive
<1>3. CASE Sigterm(w)
  <2> DEFINE y(s) == IF slots[w][s].pc \in Busy /\ slots[w][s].ctx = "live"
                     THEN [slots[w][s] EXCEPT !.ctx = "shutdown"]
                     ELSE slots[w][s]
  <2>1. /\ slots' = [slots EXCEPT ![w] = [s \in Slots |-> y(s)]]
        /\ UNCHANGED <<fetch, jobs, active, reports>>
        /\ life' = [life EXCEPT ![w] = "draining"]
    BY <1>3 DEF Sigterm
  <2>2. \A s \in Slots : /\ y(s) \in SlotState
                         /\ y(s).pc = slots[w][s].pc
                         /\ y(s).task = slots[w][s].task
                         /\ y(s).ctx = slots[w][s].ctx \/ y(s).ctx = "shutdown"
    <3> SUFFICES ASSUME NEW s \in Slots
                 PROVE  /\ y(s) \in SlotState
                        /\ y(s).pc = slots[w][s].pc
                        /\ y(s).task = slots[w][s].task
                        /\ y(s).ctx = slots[w][s].ctx \/ y(s).ctx = "shutdown"
      OBVIOUS
    <3>1. slots[w][s] \in SlotState
      BY DEF PoolInv, Shapes
    <3> QED
      BY <3>1 DEF SlotState
  <2> HIDE DEF y
  <2>3. /\ slots' \in [Workers -> [Slots -> SlotState]]
        /\ \A v \in Workers, s \in Slots :
             /\ slots'[v][s].pc = slots[v][s].pc
             /\ slots'[v][s].task = slots[v][s].task
             /\ slots'[v][s].ctx = slots[v][s].ctx \/ slots'[v][s].ctx = "shutdown"
    BY <2>1, <2>2 DEF PoolInv, Shapes
  <2>4. Shapes'
    BY <2>1, <2>3 DEF PoolInv, Shapes
  <2>5. Hands'
    BY <2>1, <2>3 DEF PoolInv, Hands
  <2>6. ActiveIsLive'
    BY <2>1, <2>3 DEF PoolInv, Shapes, ActiveOK, ActiveIsLive
  <2> QED
    BY <2>4, <2>5, <2>6 DEF PoolInv
<1> QED
  BY <1>1, <1>2, <1>3 DEF ProcessStep

LEMMA ReportGoneSafe ==
  ASSUME PoolInv, UNCHANGED <<life, fetch, jobs, slots, active>>, reports' \subseteq reports
  PROVE  PoolInv'
BY DEF PoolInv, Shapes, Hands, ActiveIsLive

LEMMA StepPool ==
  ASSUME PoolInv, [PoolNext]_poolVars
  PROVE  PoolInv'
<1>1. ASSUME NEW w \in Workers, FetcherStep(w)
      PROVE  PoolInv'
  BY <1>1, FetcherSafe, CancelSafe, EnqueueSafe DEF FetcherStep
<1>2. ASSUME NEW w \in Workers, AnyServer(w)
      PROVE  PoolInv'
  BY <1>2, FetcherSafe DEF AnyServer
<1>3. ASSUME NEW m \in reports, ReportGone(m)
      PROVE  PoolInv'
  BY <1>3, ReportGoneSafe DEF ReportGone
<1>4. CASE UNCHANGED poolVars
  BY <1>4, ReportGoneSafe DEF poolVars
<1> QED
  BY <1>1, <1>2, <1>3, <1>4, ExecutorSafe, ProcessSafe DEF PoolNext

LEMMA PoolInvariant == PoolSpec => []PoolInv
BY InitPool, StepPool, PTL DEF PoolSpec

(***************************************************************************)
(* Theorems.                                                               *)
(***************************************************************************)
\* PoolTypeOK: the channel never holds more than its capacity, the active map
\* never an id that is no task or a slot that is none, whatever the server answers.
THEOREM PoolTypeCorrect == PoolSpec => []PoolTypeOK
<1>1. PoolInv => PoolTypeOK
  BY DEF PoolInv, Shapes, ActiveOK, PoolTypeOK, FetchState, SlotState
<1> QED
  BY <1>1, PoolInvariant, PTL

\* ActiveIsLive: cancelActive only ever finds a run of the id it was given that
\* has not been cancelled, although runs of one id replace and delete each
\* other's entries.
THEOREM ActiveIsLiveHolds == PoolSpec => []ActiveIsLive
<1>1. PoolInv => ActiveIsLive
  BY DEF PoolInv
<1> QED
  BY <1>1, PoolInvariant, PTL
=============================================================================
