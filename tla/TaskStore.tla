------------------------------ MODULE TaskStore ------------------------------
(***************************************************************************)
(* The tasks table kept by internal/store/store.go and the operations its  *)
(* exported methods perform on it.                                         *)
(*                                                                         *)
(* Every method runs either one SQL statement or one transaction, and the  *)
(* connection pool holds a single connection (SetMaxOpenConns(1)), so a    *)
(* method is one atomic step here.  The only exception is StopAllCron,     *)
(* which issues two statements outside any transaction: it is two actions. *)
(*                                                                         *)
(* A row keeps the columns some guard or property depends on.  The name,   *)
(* command, result text, timeout and the created/updated stamps are data.  *)
(***************************************************************************)
EXTENDS Integers, FiniteSets, WorkerIds

CONSTANTS
  NoWorker,    \* the empty worker_id
  MaxRetries,  \* the max_retry values callers pass; not validated by the API
  Backoff,     \* ticks of delay per retry already made (5s in the code)
  MaxId,       \* bound: ids issued
  MaxNow,      \* bound: clock
  RetryCap     \* bound: retry_count

ASSUME StoreConstants ==
  /\ NoWorker \notin Workers
  /\ MaxRetries \subseteq Int
  /\ Backoff \in Nat
  /\ MaxId \in Nat
  /\ MaxNow \in Nat
  /\ RetryCap \in Nat

VARIABLES
  tasks,       \* id -> row; the domain is the set of rows that exist
  nextId,      \* the AUTOINCREMENT counter
  now          \* the server's clock

storeVars == <<tasks, nextId, now>>

Status == {"pending", "running", "success", "dead", "stopped"}

Row == [type     : {"once", "cron"},
        status   : Status,
        maxRetry : MaxRetries,
        retry    : Nat,
        worker   : Workers \cup {NoWorker},
        parent   : Nat,
        enabled  : BOOLEAN,
        nextRun  : Nat]

TypeOK ==
  /\ nextId \in Nat \ {0}
  /\ now \in Nat
  /\ DOMAIN tasks \subseteq 1 .. (nextId - 1)
  /\ tasks \in [DOMAIN tasks -> Row]

(***************************************************************************)
(* Queries.                                                                *)
(***************************************************************************)

Active == {"pending", "running"}      \* the statuses StopTask and pause match

\* Mutants of Due: the claim forgets the status test, or the type test.
DueWhateverStatus == {t \in DOMAIN tasks : tasks[t].type = "once" /\ tasks[t].nextRun <= now}

DueWhateverType == {t \in DOMAIN tasks : /\ tasks[t].status = "pending"
                                         /\ tasks[t].nextRun <= now}

Due == {t \in DOMAIN tasks : /\ tasks[t].type = "once"
                             /\ tasks[t].status = "pending"
                             /\ tasks[t].nextRun <= now}

OldestDue == {t \in Due : \A u \in Due : tasks[t].nextRun <= tasks[u].nextRun}

\* Mutant: the stop list forgets the status test.
StopListOfOwned(w) == {t \in DOMAIN tasks : tasks[t].worker = w}

StopList(w) == {t \in DOMAIN tasks : /\ tasks[t].worker = w
                                     /\ tasks[t].status = "stopped"}

ListCron == {t \in DOMAIN tasks : tasks[t].type = "cron" /\ tasks[t].enabled}

Children(d) == {t \in DOMAIN tasks : tasks[t].parent = d}

(***************************************************************************)
(* Operations.                                                             *)
(***************************************************************************)

Init ==
  /\ tasks = [t \in {} |-> {}]
  /\ nextId = 1
  /\ now = 0

NewRow(type, maxRetry, parent) ==
  [type |-> type, status |-> "pending", maxRetry |-> maxRetry, retry |-> 0,
   worker |-> NoWorker, parent |-> parent, enabled |-> TRUE, nextRun |-> now]

\* Mutant: without AUTOINCREMENT the largest id is issued again once deleted.
CreateAfterLargest(type, maxRetry, parent) ==
  LET id == CHOOSE i \in 1 .. nextId : /\ \A t \in DOMAIN tasks : t < i
                                       /\ i = 1 \/ i - 1 \in DOMAIN tasks
  IN  /\ id <= MaxId
      /\ tasks' = [t \in DOMAIN tasks \cup {id} |->
                     IF t = id THEN NewRow(type, maxRetry, parent) ELSE tasks[t]]
      /\ nextId' = IF id = nextId THEN nextId + 1 ELSE nextId
      /\ UNCHANGED now

\* No caller sets NextRunAt, so the row is due at once.
Create(type, maxRetry, parent) ==
  /\ nextId <= MaxId
  /\ tasks' = [t \in DOMAIN tasks \cup {nextId} |->
                 IF t = nextId THEN NewRow(type, maxRetry, parent)
                               ELSE tasks[t]]
  /\ nextId' = nextId + 1
  /\ UNCHANGED now

Delete(id) ==
  /\ id \in DOMAIN tasks
  /\ tasks' = [t \in DOMAIN tasks \ {id} |-> tasks[t]]
  /\ UNCHANGED <<nextId, now>>

Stopped(row) == [row EXCEPT !.status = "stopped"]

\* Flips the row and, when pausing, stops its in-flight children: one transaction.
SetEnabled(id, on) ==
  /\ id \in DOMAIN tasks
  /\ tasks' = [t \in DOMAIN tasks |->
                 IF t = id THEN [tasks[t] EXCEPT !.enabled = on]
                 ELSE IF ~on /\ t \in Children(id) /\ tasks[t].status \in Active
                 THEN Stopped(tasks[t])
                 ELSE tasks[t]]
  /\ UNCHANGED <<nextId, now>>

\* No test of the type: a cron definition can be stopped too.
StopTask(id) ==
  /\ id \in DOMAIN tasks
  /\ tasks[id].status \in Active
  /\ tasks' = [tasks EXCEPT ![id] = Stopped(@)]
  /\ UNCHANGED <<nextId, now>>

\* Mutant: the restarted row keeps its worker_id.
ResumeKeepingWorker(id) ==
  /\ id \in DOMAIN tasks
  /\ tasks[id].status = "stopped"
  /\ tasks' = [tasks EXCEPT ![id] = [@ EXCEPT !.status = "pending", !.nextRun = now]]
  /\ UNCHANGED <<nextId, now>>

ResumeTask(id) ==
  /\ id \in DOMAIN tasks
  /\ tasks[id].status = "stopped"
  /\ tasks' = [tasks EXCEPT ![id] = [@ EXCEPT !.status = "pending",
                                              !.worker = NoWorker,
                                              !.nextRun = now]]
  /\ UNCHANGED <<nextId, now>>

\* The two statements of StopAllCron, each committed on its own.
DisableAllCron ==
  /\ tasks' = [t \in DOMAIN tasks |->
                 IF tasks[t].type = "cron" THEN [tasks[t] EXCEPT !.enabled = FALSE]
                                           ELSE tasks[t]]
  /\ UNCHANGED <<nextId, now>>

StopAllChildren ==
  /\ tasks' = [t \in DOMAIN tasks |->
                 IF tasks[t].parent > 0 /\ tasks[t].status \in Active
                 THEN Stopped(tasks[t])
                 ELSE tasks[t]]
  /\ UNCHANGED <<nextId, now>>

ClearWorker(id, w) ==
  /\ id \in StopList(w)
  /\ tasks' = [tasks EXCEPT ![id] = [@ EXCEPT !.worker = NoWorker]]
  /\ UNCHANGED <<nextId, now>>

ClaimPending(w, t) ==
  /\ t \in OldestDue
  /\ tasks' = [tasks EXCEPT ![t] = [@ EXCEPT !.status = "running", !.worker = w]]
  /\ UNCHANGED <<nextId, now>>

\* ErrNotFound: nothing is due, nothing changes.
ClaimNothing ==
  /\ Due = {}
  /\ UNCHANGED storeVars

(***************************************************************************)
(* ReportResult: the outcome of a task reported by the worker its row      *)
(* names.  The five disjuncts are the five ways its transaction commits.   *)
(* The ids are compared as strings: a report that names no worker passes   *)
(* as the owner's of every row that has none.                              *)
(***************************************************************************)
OwnedBy(id, w) == id \in DOMAIN tasks /\ tasks[id].worker = w

ReportOnStopped(id) ==
  /\ tasks[id].status = "stopped"
  /\ tasks' = [tasks EXCEPT ![id] = [@ EXCEPT !.worker = NoWorker]]

\* Mutant: the outcome overrides the user's stop.
ReportSuccessAnyway(id) == tasks' = [tasks EXCEPT ![id] = [@ EXCEPT !.status = "success"]]

ReportSuccess(id) ==
  /\ tasks[id].status # "stopped"
  /\ tasks' = [tasks EXCEPT ![id] = [@ EXCEPT !.status = "success"]]

\* Mutant: newRetry >= maxRetry.
ReportDeadEarly(id) ==
  /\ tasks[id].status # "stopped"
  /\ tasks[id].retry < RetryCap
  /\ tasks[id].retry + 1 >= tasks[id].maxRetry
  /\ tasks' = [tasks EXCEPT ![id] = [tasks[id] EXCEPT !.status = "dead",
                                                      !.retry = @ + 1]]

ReportDead(id) ==
  /\ tasks[id].status # "stopped"
  /\ tasks[id].retry < RetryCap
  /\ tasks[id].retry + 1 > tasks[id].maxRetry
  /\ tasks' = [tasks EXCEPT ![id] = [@ EXCEPT !.status = "dead",
                                              !.retry = tasks[id].retry + 1]]

\* Mutants: the retry is not counted, or the row is left "failed".
ReportRetryUncounted(id) ==
  /\ tasks[id].status = "running"
  /\ tasks[id].retry + 1 <= tasks[id].maxRetry
  /\ tasks' = [tasks EXCEPT ![id] = [@ EXCEPT !.status = "pending", !.worker = NoWorker]]

ReportRetryFailed(id) ==
  /\ tasks[id].status = "running"
  /\ tasks[id].retry + 1 <= tasks[id].maxRetry
  /\ tasks' = [tasks EXCEPT ![id] = [@ EXCEPT !.status = "failed", !.worker = NoWorker]]

ReportRetry(id) ==
  /\ tasks[id].status = "running"
  /\ tasks[id].retry < RetryCap
  /\ tasks[id].retry + 1 <= tasks[id].maxRetry
  /\ tasks' = [tasks EXCEPT ![id] =
                 [@ EXCEPT !.status = "pending",
                           !.retry = tasks[id].retry + 1,
                           !.worker = NoWorker,
                           !.nextRun = now + (tasks[id].retry + 1) * Backoff]]

\* The retry UPDATE asks for status='running' and matches no row.
ReportRetryMissed(id) ==
  /\ tasks[id].status \notin {"running", "stopped"}
  /\ tasks[id].retry + 1 <= tasks[id].maxRetry
  /\ UNCHANGED tasks

ReportResult(id, w, ok) ==
  /\ OwnedBy(id, w)
  /\ \/ ReportOnStopped(id)
     \/ ok /\ ReportSuccess(id)
     \/ ~ok /\ (ReportDead(id) \/ ReportRetry(id) \/ ReportRetryMissed(id))
  /\ UNCHANGED <<nextId, now>>

\* ErrNotFound or the ownership error: nothing changes.
ReportRefused(id, w) ==
  /\ ~OwnedBy(id, w)
  /\ UNCHANGED storeVars

Tick ==
  /\ now < MaxNow
  /\ now' = now + 1
  /\ UNCHANGED <<tasks, nextId>>

(***************************************************************************)
(* The store under any sequence of calls its callers can make.  A parent   *)
(* is named only by the scheduler, for a cron definition that may have     *)
(* been paused or deleted since the scheduler read it.                     *)
(***************************************************************************)
CronParents == {d \in 1 .. (nextId - 1) :
                  d \in DOMAIN tasks => tasks[d].type = "cron"}

UserStep ==
  \/ \E type \in {"once", "cron"}, m \in MaxRetries : Create(type, m, 0)
  \/ \E id \in DOMAIN tasks :
       \/ Delete(id)
       \/ SetEnabled(id, TRUE)
       \/ SetEnabled(id, FALSE)
       \/ StopTask(id)
       \/ ResumeTask(id)
  \/ DisableAllCron
  \/ StopAllChildren

SchedulerStep == \E d \in CronParents, m \in MaxRetries : Create("once", m, d)

\* handlePull turns an empty worker_id away, handleResult does not.
Reporters == Workers \cup {NoWorker}

WorkerStep ==
  \/ \E w \in Workers :
       \/ \E t \in OldestDue : ClaimPending(w, t)
       \/ \E id \in 1 .. MaxId : ClearWorker(id, w)
  \/ ClaimNothing
  \/ \E w \in Reporters, id \in 1 .. MaxId :
       \/ \E ok \in BOOLEAN : ReportResult(id, w, ok)
       \/ ReportRefused(id, w)

Next == UserStep \/ SchedulerStep \/ WorkerStep \/ Tick

Spec == Init /\ [][Next]_storeVars

(***************************************************************************)
(* Invariants.                                                             *)
(***************************************************************************)

\* A waiting row belongs to nobody, so the report of a worker whose claim is
\* over (retried, restarted by a user) cannot be taken for it; a running row
\* names its worker, so a report that names none cannot end its run.
Ownership ==
  \A t \in DOMAIN tasks :
    /\ tasks[t].status = "pending" => tasks[t].worker = NoWorker
    /\ tasks[t].status = "running" => tasks[t].worker # NoWorker

\* A cron definition is a template: whatever the callers do to the row it is
\* never claimed and never anybody's, and no outcome queues it as a retry.  A
\* report that names no worker can write success or dead on it, and does not
\* get it into anybody's hands that way.
CronNeverRuns ==
  \A t \in DOMAIN tasks : tasks[t].type = "cron" =>
    /\ tasks[t].status # "running"
    /\ tasks[t].worker = NoWorker
    /\ tasks[t].status \in {"pending", "stopped"} => tasks[t].retry = 0

\* A row that may still run has not used more retries than it was given, and a
\* dead row has used them all; stop and restart do not lose the count.
RetryBudget ==
  \A t \in DOMAIN tasks :
    /\ tasks[t].status \in {"pending", "running", "stopped"} =>
         tasks[t].retry = 0 \/ tasks[t].retry <= tasks[t].maxRetry
    /\ tasks[t].status = "dead" => tasks[t].retry > tasks[t].maxRetry

(***************************************************************************)
(* Action properties.                                                      *)
(***************************************************************************)

\* What a step may do to a row that exists before and after it.
Kept == DOMAIN tasks \cap DOMAIN tasks'

\* ClaimPending never hands a running row to a second worker: the owner of a
\* running row is the same for as long as it is running.
ClaimIsExclusive ==
  [][\A t \in Kept : tasks[t].status = "running" /\ tasks'[t].status = "running"
                        => tasks'[t].worker = tasks[t].worker]_storeVars

\* The user's stop outlives every worker outcome: a stopped row stays stopped
\* until it is restarted, and then it is pending, unowned and due.
StopIsSticky ==
  [][\A t \in Kept : tasks[t].status = "stopped" =>
       \/ tasks'[t].status = "stopped"
       \/ /\ tasks'[t].status = "pending"
          /\ tasks'[t].worker = NoWorker
          /\ tasks'[t].retry = tasks[t].retry]_storeVars

\* AUTOINCREMENT never reissues the id of a deleted row, so a late report for
\* it cannot land on a task created afterwards.
DeletedStaysDeleted ==
  [][\A t \in 1 .. (nextId - 1) : t \notin DOMAIN tasks => t \notin DOMAIN tasks']_storeVars

\* A row leaves a worker's hands only with its outcome recorded: from running
\* it goes to success, to dead with one more retry counted, back to pending
\* with one more retry counted and a delay, or it is stopped.
RunningIsAccounted ==
  [][\A t \in Kept : tasks[t].status = "running" =>
       \/ tasks'[t].status \in {"running", "success", "stopped"}
            /\ tasks'[t].retry = tasks[t].retry
       \/ tasks'[t].status \in {"dead", "pending"}
            /\ tasks'[t].retry = tasks[t].retry + 1]_storeVars

=============================================================================
