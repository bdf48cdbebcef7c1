--------------------------- MODULE TaskStoreProofs ---------------------------
(***************************************************************************)
(* Proofs about TaskStore: its invariants and action properties hold for   *)
(* every set of workers, every set of max_retry values and every bound.    *)
(*                                                                         *)
(* The invariants speak of one row at a time, so the inductive invariant   *)
(* is "every row is Good".  An operation replaces some rows; the row       *)
(* lemmas say that what it writes is Good, and the table lemmas carry that *)
(* to the whole table.                                                     *)
(***************************************************************************)
EXTENDS TaskStore, TLAPS

OwnedRow(r) ==
  /\ r.status = "pending" => r.worker = NoWorker
  /\ r.status = "running" => r.worker # NoWorker

TemplateRow(r) ==
  r.type = "cron" => /\ r.status # "running"
                     /\ r.worker = NoWorker
                     /\ r.status \in {"pending", "stopped"} => r.retry = 0

BudgetRow(r) ==
  /\ r.status \in {"pending", "running", "stopped"} =>
       r.retry = 0 \/ r.retry <= r.maxRetry
  /\ r.status = "dead" => r.retry > r.maxRetry

Good(r) == r \in Row /\ OwnedRow(r) /\ TemplateRow(r) /\ BudgetRow(r)

\* What an operation may turn row r into, s: the action properties, row by row.
RowStep(r, s) ==
  /\ r.status = "running" /\ s.status = "running" => s.worker = r.worker
  /\ r.status = "stopped" =>
       \/ s.status = "stopped"
       \/ s.status = "pending" /\ s.worker = NoWorker /\ s.retry = r.retry
  /\ r.status = "running" =>
       \/ s.status \in {"running", "success", "stopped"} /\ s.retry = r.retry
       \/ s.status \in {"dead", "pending"} /\ s.retry = r.retry + 1

Becomes(r, s) == Good(s) /\ RowStep(r, s)

StoreInv ==
  /\ nextId \in Nat \ {0}
  /\ now \in Nat
  /\ DOMAIN tasks \subseteq 1 .. (nextId - 1)
  /\ tasks = [t \in DOMAIN tasks |-> tasks[t]]
  /\ \A t \in DOMAIN tasks : Good(tasks[t])

RowsStep == \A t \in Kept : RowStep(tasks[t], tasks'[t])

(***************************************************************************)
(* What StoreInv says, in the terms of TaskStore.                          *)
(***************************************************************************)
LEMMA StoreInvMeaning ==
  StoreInv => TypeOK /\ Ownership /\ CronNeverRuns /\ RetryBudget
<1> SUFFICES ASSUME StoreInv
             PROVE  TypeOK /\ Ownership /\ CronNeverRuns /\ RetryBudget
  OBVIOUS
<1>1. \A t \in DOMAIN tasks : tasks[t] \in Row
  BY DEF StoreInv, Good
<1>2. TypeOK
  BY <1>1 DEF StoreInv, TypeOK
<1>3. Ownership
  BY DEF StoreInv, Good, OwnedRow, Ownership
<1>4. CronNeverRuns
  BY DEF StoreInv, Good, TemplateRow, CronNeverRuns
<1>5. RetryBudget
  BY DEF StoreInv, Good, BudgetRow, RetryBudget
<1> QED
  BY <1>2, <1>3, <1>4, <1>5

(***************************************************************************)
(* Row lemmas: what each operation writes is Good.                         *)
(***************************************************************************)
LEMMA NewRowGood ==
  ASSUME StoreConstants, now \in Nat, NEW type \in {"once", "cron"},
         NEW m \in MaxRetries, NEW parent \in Nat
  PROVE  Good(NewRow(type, m, parent))
BY DEF StoreConstants, Good, NewRow, Row, Status, OwnedRow, TemplateRow, BudgetRow

LEMMA StoppedGood ==
  ASSUME NEW r, Good(r), r.status \in Active
  PROVE  Becomes(r, Stopped(r))
BY DEF Good, Row, Status, Active, Stopped, OwnedRow, TemplateRow, BudgetRow, Becomes, RowStep

LEMMA ToggledGood ==
  ASSUME NEW r, Good(r), NEW on \in BOOLEAN
  PROVE  Becomes(r, [r EXCEPT !.enabled = on])
<1>1. [r EXCEPT !.enabled = on] \in Row
  BY DEF Good, Row
<1>2. \A f \in {"type", "status", "maxRetry", "retry", "worker"} :
        [r EXCEPT !.enabled = on][f] = r[f]
  BY DEF Good, Row
<1> QED
  BY <1>1, <1>2 DEF Good, OwnedRow, TemplateRow, BudgetRow, Becomes, RowStep

LEMMA ResumedGood ==
  ASSUME NEW r, Good(r), r.status = "stopped", now \in Nat
  PROVE  Becomes(r, [r EXCEPT !.status = "pending", !.worker = NoWorker, !.nextRun = now])
BY DEF Good, Row, Status, OwnedRow, TemplateRow, BudgetRow, Becomes, RowStep

LEMMA DetachedGood ==
  ASSUME NEW r, Good(r), r.status = "stopped"
  PROVE  Becomes(r, [r EXCEPT !.worker = NoWorker])
BY DEF Good, Row, Status, OwnedRow, TemplateRow, BudgetRow, Becomes, RowStep

LEMMA ClaimedGood ==
  ASSUME StoreConstants, NEW w \in Workers, NEW r, Good(r),
         r.type = "once", r.status = "pending"
  PROVE  Becomes(r, [r EXCEPT !.status = "running", !.worker = w])
BY DEF StoreConstants, Good, Row, Status, OwnedRow, TemplateRow, BudgetRow, Becomes, RowStep

LEMMA SucceededGood ==
  ASSUME NEW r, Good(r), r.status # "stopped"
  PROVE  Becomes(r, [r EXCEPT !.status = "success"])
BY DEF Good, Row, Status, OwnedRow, TemplateRow, BudgetRow, Becomes, RowStep

LEMMA DeadGood ==
  ASSUME StoreConstants, NEW r, Good(r), r.status # "stopped", r.retry + 1 > r.maxRetry
  PROVE  Becomes(r, [r EXCEPT !.status = "dead", !.retry = @ + 1])
<1> DEFINE k == r.retry + 1
           n == [r EXCEPT !.status = "dead", !.retry = k]
<1>1. r \in Row /\ k \in Nat /\ k = r.retry + 1 /\ k > r.maxRetry
  BY DEF Good, Row
<1> HIDE DEF k
<1>2. n \in Row
  BY <1>1 DEF Row, Status
<1>3. /\ n.type = r.type /\ n.status = "dead" /\ n.worker = r.worker
      /\ n.retry = k /\ n.maxRetry = r.maxRetry
  BY <1>1 DEF Row
<1> HIDE DEF n
<1>4. Becomes(r, n)
  BY <1>1, <1>2, <1>3 DEF Good, OwnedRow, TemplateRow, BudgetRow, Becomes, RowStep
<1> QED
  BY <1>4 DEF n, k

LEMMA RetriedGood ==
  ASSUME StoreConstants, NEW r, Good(r), r.status = "running",
         r.retry + 1 <= r.maxRetry, now \in Nat
  PROVE  Becomes(r, [r EXCEPT !.status = "pending",
                        !.retry = @ + 1,
                        !.worker = NoWorker,
                        !.nextRun = now + (r.retry + 1) * Backoff])
<1> DEFINE k == r.retry + 1
           due == now + (r.retry + 1) * Backoff
           n == [r EXCEPT !.status = "pending", !.retry = k,
                          !.worker = NoWorker, !.nextRun = due]
<1>1. r \in Row /\ r.type = "once" /\ k \in Nat /\ k = r.retry + 1 /\ k <= r.maxRetry
  BY DEF Good, TemplateRow, Row
<1>2. due \in Nat
  BY <1>1 DEF StoreConstants
<1> HIDE DEF k, due
<1>3. n \in Row
  BY <1>1, <1>2 DEF Row, Status
<1>4. /\ n.type = "once" /\ n.status = "pending" /\ n.worker = NoWorker
      /\ n.retry = k /\ n.maxRetry = r.maxRetry
  BY <1>1 DEF Row
<1> HIDE DEF n
<1>5. Becomes(r, n)
  BY <1>1, <1>3, <1>4 DEF Good, OwnedRow, TemplateRow, BudgetRow, Becomes, RowStep
<1> QED
  BY <1>5 DEF n, k, due

(***************************************************************************)
(* Table lemmas: replacing rows by Good rows keeps StoreInv.               *)
(***************************************************************************)
LEMMA ReplaceRow ==
  ASSUME StoreInv, NEW id \in DOMAIN tasks, NEW r, Becomes(tasks[id], r),
         tasks' = [tasks EXCEPT ![id] = r], UNCHANGED <<nextId, now>>
  PROVE  StoreInv' /\ RowsStep
<1>1. DOMAIN tasks' = DOMAIN tasks
  OBVIOUS
<1>2. \A t \in DOMAIN tasks : tasks'[t] = IF t = id THEN r ELSE tasks[t]
  BY DEF StoreInv
<1>3. \A t \in DOMAIN tasks' : Becomes(tasks[t], tasks'[t])
  BY <1>1, <1>2 DEF StoreInv, Becomes, RowStep
<1>4. tasks' = [t \in DOMAIN tasks' |-> tasks'[t]]
  BY <1>1
<1> QED
  BY <1>1, <1>3, <1>4 DEF StoreInv, Becomes, RowsStep, Kept

LEMMA ReplaceRows ==
  ASSUME StoreInv, UNCHANGED <<nextId, now>>,
         DOMAIN tasks' = DOMAIN tasks,
         tasks' = [t \in DOMAIN tasks' |-> tasks'[t]],
         \A t \in DOMAIN tasks : Becomes(tasks[t], tasks'[t])
  PROVE  StoreInv' /\ RowsStep
BY DEF StoreInv, Becomes, RowsStep, Kept

LEMMA SameRow ==
  ASSUME NEW r, Good(r)
  PROVE  Becomes(r, r)
BY DEF Becomes, RowStep

(***************************************************************************)
(* One lemma per operation.                                                *)
(***************************************************************************)
Safe == StoreInv' /\ RowsStep

LEMMA CreateSafe ==
  ASSUME StoreConstants, StoreInv,
         NEW type \in {"once", "cron"}, NEW m \in MaxRetries, NEW parent \in Nat,
         Create(type, m, parent)
  PROVE  Safe
<1>1. DOMAIN tasks' = DOMAIN tasks \cup {nextId} /\ nextId' = nextId + 1 /\ now' = now
  BY DEF Create
<1>2. nextId \notin DOMAIN tasks
  BY DEF StoreInv
<1>3. \A t \in DOMAIN tasks' : tasks'[t] = IF t = nextId THEN NewRow(type, m, parent)
                                                      ELSE tasks[t]
  BY DEF Create
<1>4. Good(NewRow(type, m, parent))
  BY NewRowGood DEF StoreInv
<1>5. \A t \in DOMAIN tasks' : Good(tasks'[t])
  BY <1>1, <1>3, <1>4 DEF StoreInv
<1>6. tasks' = [t \in DOMAIN tasks' |-> tasks'[t]]
  BY DEF Create
<1>7. DOMAIN tasks' \subseteq 1 .. (nextId' - 1) /\ nextId' \in Nat \ {0} /\ now' \in Nat
  BY <1>1 DEF StoreInv
<1>8. StoreInv'
  BY <1>5, <1>6, <1>7 DEF StoreInv
<1>9. RowsStep
  <2> SUFFICES ASSUME NEW t \in Kept PROVE RowStep(tasks[t], tasks'[t])
    BY DEF RowsStep
  <2>1. t \in DOMAIN tasks /\ tasks'[t] = tasks[t]
    BY <1>2, <1>3 DEF Kept
  <2> QED
    BY <2>1, SameRow DEF StoreInv, Becomes
<1> QED
  BY <1>8, <1>9 DEF Safe

LEMMA DeleteSafe ==
  ASSUME StoreInv, NEW id, Delete(id)
  PROVE  Safe
<1>1. DOMAIN tasks' = DOMAIN tasks \ {id} /\ nextId' = nextId /\ now' = now
  BY DEF Delete
<1>2. \A t \in DOMAIN tasks' : tasks'[t] = tasks[t]
  BY DEF Delete
<1>3. tasks' = [t \in DOMAIN tasks' |-> tasks'[t]]
  BY DEF Delete
<1>4. \A t \in DOMAIN tasks' : Good(tasks'[t]) /\ RowStep(tasks[t], tasks'[t])
  BY <1>1, <1>2, SameRow DEF StoreInv, Becomes
<1> QED
  BY <1>1, <1>3, <1>4 DEF StoreInv, Safe, RowsStep, Kept

LEMMA SetEnabledSafe ==
  ASSUME StoreInv, NEW id, NEW on \in BOOLEAN, SetEnabled(id, on)
  PROVE  Safe
<1>1. /\ DOMAIN tasks' = DOMAIN tasks
      /\ tasks' = [t \in DOMAIN tasks' |-> tasks'[t]]
      /\ UNCHANGED <<nextId, now>>
  BY DEF SetEnabled
<1>2. ASSUME NEW t \in DOMAIN tasks
      PROVE  Becomes(tasks[t], tasks'[t])
  <2>1. CASE t = id
    <3>1. tasks'[t] = [tasks[t] EXCEPT !.enabled = on]
      BY <2>1 DEF SetEnabled
    <3> QED
      BY <3>1, ToggledGood DEF StoreInv
  <2>2. CASE t # id /\ ~on /\ t \in Children(id) /\ tasks[t].status \in Active
    <3>1. tasks'[t] = Stopped(tasks[t])
      BY <2>2 DEF SetEnabled
    <3> QED
      BY <3>1, <2>2, StoppedGood DEF StoreInv
  <2>3. CASE t # id /\ ~(~on /\ t \in Children(id) /\ tasks[t].status \in Active)
    <3>1. tasks'[t] = tasks[t]
      BY <2>3 DEF SetEnabled
    <3> QED
      BY <3>1, SameRow DEF StoreInv
  <2> QED
    BY <2>1, <2>2, <2>3
<1> QED
  BY <1>1, <1>2, ReplaceRows DEF Safe

LEMMA StopTaskSafe ==
  ASSUME StoreInv, NEW id, StopTask(id)
  PROVE  Safe
<1>1. id \in DOMAIN tasks /\ tasks' = [tasks EXCEPT ![id] = Stopped(tasks[id])]
  BY DEF StopTask
<1>2. Becomes(tasks[id], Stopped(tasks[id]))
  BY <1>1, StoppedGood DEF StopTask, StoreInv
<1> QED
  BY <1>1, <1>2, ReplaceRow DEF StopTask, Safe

LEMMA ResumeTaskSafe ==
  ASSUME StoreInv, NEW id, ResumeTask(id)
  PROVE  Safe
<1> DEFINE r == [tasks[id] EXCEPT !.status = "pending", !.worker = NoWorker,
                                  !.nextRun = now]
<1>1. id \in DOMAIN tasks /\ tasks' = [tasks EXCEPT ![id] = r]
  BY DEF ResumeTask
<1>2. Becomes(tasks[id], r)
  BY <1>1, ResumedGood DEF ResumeTask, StoreInv
<1> HIDE DEF r
<1> QED
  BY <1>1, <1>2, ReplaceRow DEF ResumeTask, Safe

LEMMA DisableAllCronSafe ==
  ASSUME StoreInv, DisableAllCron
  PROVE  Safe
<1>1. /\ DOMAIN tasks' = DOMAIN tasks
      /\ tasks' = [t \in DOMAIN tasks' |-> tasks'[t]]
      /\ UNCHANGED <<nextId, now>>
  BY DEF DisableAllCron
<1>2. ASSUME NEW t \in DOMAIN tasks
      PROVE  tasks'[t] = tasks[t] \/ tasks'[t] = [tasks[t] EXCEPT !.enabled = FALSE]
  BY DEF DisableAllCron
<1>3. ASSUME NEW t \in DOMAIN tasks
      PROVE  Becomes(tasks[t], tasks'[t])
  <2>1. Good(tasks[t])
    BY DEF StoreInv
  <2>2. Becomes(tasks[t], tasks[t]) /\ Becomes(tasks[t], [tasks[t] EXCEPT !.enabled = FALSE])
    BY <2>1, SameRow, ToggledGood
  <2> QED
    BY <1>2, <2>2
<1> QED
  BY <1>1, <1>3, ReplaceRows DEF Safe

LEMMA StopAllChildrenSafe ==
  ASSUME StoreInv, StopAllChildren
  PROVE  Safe
<1>1. /\ DOMAIN tasks' = DOMAIN tasks
      /\ tasks' = [t \in DOMAIN tasks' |-> tasks'[t]]
      /\ UNCHANGED <<nextId, now>>
  BY DEF StopAllChildren
<1>2. ASSUME NEW t \in DOMAIN tasks
      PROVE  \/ tasks'[t] = tasks[t]
             \/ tasks[t].status \in Active /\ tasks'[t] = Stopped(tasks[t])
  BY DEF StopAllChildren
<1>3. \A t \in DOMAIN tasks : Becomes(tasks[t], tasks'[t])
  BY <1>2, SameRow, StoppedGood DEF StoreInv
<1> QED
  BY <1>1, <1>3, ReplaceRows DEF Safe

LEMMA ClearWorkerSafe ==
  ASSUME StoreInv, NEW id, NEW w, ClearWorker(id, w)
  PROVE  Safe
<1> DEFINE r == [tasks[id] EXCEPT !.worker = NoWorker]
<1>1. id \in DOMAIN tasks /\ tasks[id].status = "stopped"
  BY DEF ClearWorker, StopList
<1>2. tasks' = [tasks EXCEPT ![id] = r]
  BY DEF ClearWorker
<1>3. Becomes(tasks[id], r)
  BY <1>1, DetachedGood DEF StoreInv
<1> HIDE DEF r
<1> QED
  BY <1>1, <1>2, <1>3, ReplaceRow DEF ClearWorker, Safe

LEMMA ClaimPendingSafe ==
  ASSUME StoreConstants, StoreInv, NEW w \in Workers, NEW t, ClaimPending(w, t)
  PROVE  Safe
<1> DEFINE r == [tasks[t] EXCEPT !.status = "running", !.worker = w]
<1>1. t \in DOMAIN tasks /\ tasks[t].type = "once" /\ tasks[t].status = "pending"
  BY DEF ClaimPending, OldestDue, Due
<1>2. tasks' = [tasks EXCEPT ![t] = r]
  BY DEF ClaimPending
<1>3. Becomes(tasks[t], r)
  BY <1>1, ClaimedGood DEF StoreInv
<1> HIDE DEF r
<1> QED
  BY <1>1, <1>2, <1>3, ReplaceRow DEF ClaimPending, Safe

LEMMA ReportResultSafe ==
  ASSUME StoreConstants, StoreInv, NEW id, NEW w, NEW ok \in BOOLEAN,
         ReportResult(id, w, ok)
  PROVE  Safe
<1>1. /\ id \in DOMAIN tasks /\ Good(tasks[id])
      /\ now \in Nat /\ UNCHANGED <<nextId, now>>
  BY DEF ReportResult, OwnedBy, StoreInv
<1>2. CASE ReportOnStopped(id)
  <2> DEFINE r == [tasks[id] EXCEPT !.worker = NoWorker]
  <2>1. tasks' = [tasks EXCEPT ![id] = r] /\ tasks[id].status = "stopped"
    BY <1>2 DEF ReportOnStopped
  <2>2. Becomes(tasks[id], r)
    BY <1>1, <2>1, DetachedGood
  <2> HIDE DEF r
  <2> QED
    BY <1>1, <2>1, <2>2, ReplaceRow DEF Safe
<1>3. CASE ReportSuccess(id)
  <2> DEFINE r == [tasks[id] EXCEPT !.status = "success"]
  <2>1. tasks' = [tasks EXCEPT ![id] = r] /\ tasks[id].status # "stopped"
    BY <1>3 DEF ReportSuccess
  <2>2. Becomes(tasks[id], r)
    BY <1>1, <2>1, SucceededGood
  <2> HIDE DEF r
  <2> QED
    BY <1>1, <2>1, <2>2, ReplaceRow DEF Safe
<1>4. CASE ReportDead(id)
  <2> DEFINE r == [tasks[id] EXCEPT !.status = "dead", !.retry = @ + 1]
  <2>1. tasks' = [tasks EXCEPT ![id] = r]
    BY <1>4 DEF ReportDead
  <2>2. tasks[id].status # "stopped" /\ tasks[id].retry + 1 > tasks[id].maxRetry
    BY <1>4 DEF ReportDead
  <2>3. Becomes(tasks[id], r)
    BY <1>1, <2>2, DeadGood
  <2> HIDE DEF r
  <2> QED
    BY <1>1, <2>1, <2>3, ReplaceRow DEF Safe
<1>5. CASE ReportRetry(id)
  <2> DEFINE r == [tasks[id] EXCEPT !.status = "pending", !.retry = @ + 1,
                                    !.worker = NoWorker,
                                    !.nextRun = now + (tasks[id].retry + 1) * Backoff]
  <2>1. tasks' = [tasks EXCEPT ![id] = r]
    BY <1>5 DEF ReportRetry
  <2>2. tasks[id].status = "running" /\ tasks[id].retry + 1 <= tasks[id].maxRetry
    BY <1>5 DEF ReportRetry
  <2>3. Becomes(tasks[id], r)
    BY <1>1, <2>2, RetriedGood
  <2> HIDE DEF r
  <2> QED
    BY <1>1, <2>1, <2>3, ReplaceRow DEF Safe
<1>6. CASE ReportRetryMissed(id)
  <2>1. UNCHANGED storeVars
    BY <1>1, <1>6 DEF ReportRetryMissed, storeVars
  <2> QED
    BY <2>1, SameRow DEF StoreInv, storeVars, Safe, RowsStep, Kept, Becomes
<1> QED
  BY <1>2, <1>3, <1>4, <1>5, <1>6 DEF ReportResult

LEMMA IdleSafe ==
  ASSUME StoreInv, UNCHANGED tasks, UNCHANGED nextId, now' \in Nat
  PROVE  Safe
BY SameRow DEF StoreInv, Safe, RowsStep, Kept, Becomes

(***************************************************************************)
(* The step: an operation keeps StoreInv and obeys the action properties.  *)
(***************************************************************************)
LEMMA InitSafe == Init => StoreInv
BY DEF Init, StoreInv

LEMMA StepSafe ==
  ASSUME StoreConstants, StoreInv, [Next]_storeVars
  PROVE  Safe
<1>1. CASE UserStep
  <2>1. ASSUME NEW type \in {"once", "cron"}, NEW m \in MaxRetries, Create(type, m, 0)
        PROVE  Safe
    BY <2>1, CreateSafe
  <2>2. ASSUME NEW id \in DOMAIN tasks,
               \/ Delete(id)
               \/ SetEnabled(id, TRUE)
               \/ SetEnabled(id, FALSE)
               \/ StopTask(id)
               \/ ResumeTask(id)
        PROVE  Safe
    BY <2>2, DeleteSafe, SetEnabledSafe, StopTaskSafe, ResumeTaskSafe
  <2> QED
    BY <1>1, <2>1, <2>2, DisableAllCronSafe, StopAllChildrenSafe DEF UserStep
<1>2. CASE SchedulerStep
  <2>1. PICK d \in CronParents, m \in MaxRetries : Create("once", m, d)
    BY <1>2 DEF SchedulerStep
  <2>2. d \in Nat
    BY <2>1 DEF CronParents, StoreInv
  <2> QED
    BY <2>1, <2>2, CreateSafe
<1>3. CASE WorkerStep
  <2>1. ASSUME NEW w \in Workers, NEW t \in OldestDue, ClaimPending(w, t)
        PROVE  Safe
    BY <2>1, ClaimPendingSafe
  <2>2. ASSUME NEW w \in Reporters, NEW id \in 1 .. MaxId, NEW ok \in BOOLEAN,
               ReportResult(id, w, ok)
        PROVE  Safe
    BY <2>2, ReportResultSafe
  <2>3. ASSUME NEW w, NEW id \in 1 .. MaxId,
               ReportRefused(id, w) \/ ClearWorker(id, w)
        PROVE  Safe
    BY <2>3, ClearWorkerSafe, IdleSafe DEF ReportRefused, storeVars, StoreInv
  <2>4. CASE ClaimNothing
    BY <2>4, IdleSafe DEF ClaimNothing, storeVars, StoreInv
  <2> QED
    BY <1>3, <2>1, <2>2, <2>3, <2>4 DEF WorkerStep
<1>4. CASE Tick
  <2>1. now' \in Nat /\ UNCHANGED tasks /\ UNCHANGED nextId
    BY <1>4 DEF Tick, StoreInv
  <2> QED
    BY <2>1, IdleSafe
<1>5. CASE UNCHANGED storeVars
  BY <1>5, IdleSafe DEF storeVars, StoreInv
<1> QED
  BY <1>1, <1>2, <1>3, <1>4, <1>5 DEF Next

\* An id below nextId that has no row never has one again.
LEMMA StepKeepsDeleted ==
  ASSUME StoreInv, [Next]_storeVars,
         NEW t \in 1 .. (nextId - 1), t \notin DOMAIN tasks
  PROVE  t \notin DOMAIN tasks'
<1>1. DOMAIN tasks' \subseteq DOMAIN tasks \cup {nextId}
  BY DEF Next, UserStep, SchedulerStep, WorkerStep, storeVars, Tick,
         Create, Delete, SetEnabled, StopTask, ResumeTask, DisableAllCron,
         StopAllChildren, ClearWorker, ClaimPending, ClaimNothing,
         ReportResult, ReportRefused, ReportOnStopped, ReportSuccess,
         ReportDead, ReportRetry, ReportRetryMissed
<1> QED
  BY <1>1 DEF StoreInv

(***************************************************************************)
(* The theorems.                                                           *)
(***************************************************************************)
LEMMA StoreInvariant == Spec => []StoreInv
<1>1. StoreInv /\ [Next]_storeVars => StoreInv'
  BY StepSafe, StoreConstants DEF Safe
<1> QED
  BY <1>1, InitSafe, PTL DEF Spec

\* The rows always have the columns and the ids the schema gives them.
THEOREM TypeCorrect == Spec => []TypeOK
BY StoreInvariant, StoreInvMeaning, PTL

\* A waiting row is unowned and a running one names its worker, whatever the
\* users, the scheduler and the workers call, in any order, reports that name
\* no worker included.
THEOREM OwnershipHolds == Spec => []Ownership
BY StoreInvariant, StoreInvMeaning, PTL

\* No order of calls makes a cron definition claimed, owned or queued as a
\* retry, not even reports that name no worker and so reach the row.
THEOREM CronNeverRunsHolds == Spec => []CronNeverRuns
BY StoreInvariant, StoreInvMeaning, PTL

\* A task that may still run is within its retry budget, a dead one is past it.
THEOREM RetryBudgetHolds == Spec => []RetryBudget
BY StoreInvariant, StoreInvMeaning, PTL

\* A running row never passes from one worker to another.
THEOREM ClaimIsExclusiveHolds == Spec => ClaimIsExclusive
<1>1. StoreInv /\ [Next]_storeVars =>
        (\A t \in Kept : tasks[t].status = "running" /\ tasks'[t].status = "running"
                            => tasks'[t].worker = tasks[t].worker)
  BY StepSafe, StoreConstants DEF Safe, RowsStep, RowStep
<1> QED
  BY <1>1, StoreInvariant, PTL DEF Spec, ClaimIsExclusive

\* A stopped row leaves "stopped" only for an unowned pending row.
THEOREM StopIsStickyHolds == Spec => StopIsSticky
<1>1. StoreInv /\ [Next]_storeVars =>
        (\A t \in Kept : tasks[t].status = "stopped" =>
           \/ tasks'[t].status = "stopped"
           \/ /\ tasks'[t].status = "pending"
              /\ tasks'[t].worker = NoWorker
              /\ tasks'[t].retry = tasks[t].retry)
  BY StepSafe, StoreConstants DEF Safe, RowsStep, RowStep
<1> QED
  BY <1>1, StoreInvariant, PTL DEF Spec, StopIsSticky

\* The id of a deleted row is never issued again.
THEOREM DeletedStaysDeletedHolds == Spec => DeletedStaysDeleted
<1>1. StoreInv /\ [Next]_storeVars =>
        (\A t \in 1 .. (nextId - 1) : t \notin DOMAIN tasks => t \notin DOMAIN tasks')
  BY StepKeepsDeleted
<1> QED
  BY <1>1, StoreInvariant, PTL DEF Spec, DeletedStaysDeleted

\* Every way out of "running" records an outcome, and counts it when it failed.
THEOREM RunningIsAccountedHolds == Spec => RunningIsAccounted
<1>1. StoreInv /\ [Next]_storeVars =>
        (\A t \in Kept : tasks[t].status = "running" =>
           \/ tasks'[t].status \in {"running", "success", "stopped"}
                /\ tasks'[t].retry = tasks[t].retry
           \/ tasks'[t].status \in {"dead", "pending"}
                /\ tasks'[t].retry = tasks[t].retry + 1)
  BY StepSafe, StoreConstants DEF Safe, RowsStep, RowStep
<1> QED
  BY <1>1, StoreInvariant, PTL DEF Spec, RunningIsAccounted
=============================================================================
