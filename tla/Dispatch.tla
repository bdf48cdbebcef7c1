------------------------------- MODULE Dispatch -------------------------------
(***************************************************************************)
(* The whole path of a one-shot task: users and the server's store         *)
(* (TaskStore), worker processes (WorkerPool), and between them the two    *)
(* requests a worker makes, handlePull and handleResult of                 *)
(* internal/server/server.go, over a network that may lose them.           *)
(*                                                                         *)
(* handlePull is two store calls: a stop, a restart or a report of another *)
(* worker may commit between the claim and the reading of the stop list.   *)
(*                                                                         *)
(* The clock stands still here (MaxNow and Backoff are 0 in every run):    *)
(* every pending task is due and the due ones are claimed in any order.    *)
(***************************************************************************)
EXTENDS TaskStore, WorkerPool

CONSTANTS
  Env,        \* what happens besides the work itself, see DispatchNext
  RetriesOf,  \* bound: the max_retry users give to each task
  Stoppable   \* bound: the tasks users stop

ASSUME DispatchConstants ==
  /\ Ids = 1 .. MaxId
  /\ RetriesOf \in [Ids -> SUBSET MaxRetries]
  /\ Stoppable \subseteq Ids
  /\ Env \subseteq {"stop", "restart", "delete", "expire", "lose",
                    "sigterm", "crash", "boot", "server restart"}

VARIABLES
  claims,     \* history: id -> times claimed
  stopped,    \* history: the claims a user stopped while they were running
  restarted   \* history: ids a user stopped and restarted

history == <<claims, stopped, restarted>>
vars == <<storeVars, poolVars, history>>

DispatchInit ==
  /\ Init
  /\ PoolInit
  /\ claims = [t \in Ids |-> 0]
  /\ stopped = {}
  /\ restarted = {}

(***************************************************************************)
(* Users.                                                                  *)
(***************************************************************************)
CreateOnce ==
  /\ nextId \in Ids
  /\ \E m \in RetriesOf[nextId] : Create("once", m, 0)
  /\ UNCHANGED <<poolVars, history>>

Stop(t) ==
  /\ StopTask(t)
  /\ stopped' = IF tasks[t].status = "running"
                THEN stopped \cup {[id |-> t, claim |-> claims[t]]} ELSE stopped
  /\ UNCHANGED <<poolVars, claims, restarted>>

Restart(t) ==
  /\ ResumeTask(t)
  /\ restarted' = restarted \cup {t}
  /\ UNCHANGED <<poolVars, claims, stopped>>

DeleteTask(t) ==
  /\ Delete(t)
  /\ UNCHANGED <<poolVars, history>>

(***************************************************************************)
(* The server.                                                             *)
(***************************************************************************)
\* handlePull, first call: the claim, or nothing when nothing is due.
PullClaims(w) ==
  /\ \/ \E t \in OldestDue :
          /\ claims[t] + 1 \in Claims
          /\ ClaimPending(w, t)
          /\ ServerClaims(w, [id |-> t, claim |-> claims[t] + 1])
          /\ claims' = [claims EXCEPT ![t] = @ + 1]
     \/ /\ ClaimNothing
        /\ ServerClaims(w, NoTask)
        /\ UNCHANGED claims
  /\ UNCHANGED <<stopped, restarted>>

\* Mutant: an id is put on the stop list once (ClearWorker when it is handed out).
PullAnswersOnce(w) ==
  /\ ServerAnswers(w, StopList(w))
  /\ tasks' = [t \in DOMAIN tasks |->
                 IF t \in StopList(w) THEN [tasks[t] EXCEPT !.worker = NoWorker] ELSE tasks[t]]
  /\ UNCHANGED <<nextId, now, history>>

\* handlePull, second call: the stop list, and the answer.
PullAnswers(w) ==
  /\ ServerAnswers(w, StopList(w))
  /\ UNCHANGED <<storeVars, history>>

\* handleResult.  The clients here are the program's own workers, which have an
\* id: without one handlePull gives them nothing to report.
HandleReport(m) ==
  /\ m \in reports
  /\ ReportResult(m.task.id, m.worker, m.ok) \/ ReportRefused(m.task.id, m.worker)
  /\ reports' = reports \ {m}
  /\ UNCHANGED <<life, fetch, jobs, slots, active, history>>

\* The handlers and what was sent to them are gone; opening the database again
\* (store.New, migrate) changes no row.
ServerRestart ==
  /\ reports' = {}
  /\ fetch' = [w \in Workers |-> IF fetch[w].pc \in {"pulling", "claimed"}
                                 THEN IdleFetch ELSE fetch[w]]
  /\ UNCHANGED <<storeVars, life, jobs, slots, active, history>>

(***************************************************************************)
(* Next.  Env says which of the steps that are nobody's duty may happen.   *)
(***************************************************************************)
UserMay ==
  \/ CreateOnce
  \/ \E t \in DOMAIN tasks :
       \/ "stop" \in Env /\ t \in Stoppable /\ Stop(t)
       \/ "restart" \in Env /\ Restart(t)
       \/ "delete" \in Env /\ DeleteTask(t)

WorkerRuns(w) ==
  /\ FetcherStep(w) \/ \E s \in Slots : ExecutorStep(w, s)
  /\ UNCHANGED <<storeVars, history>>

WorkerMay(w) ==
  /\ \/ "sigterm" \in Env /\ Sigterm(w)
     \/ ProcessExit(w)
     \/ "crash" \in Env /\ Crash(w)
     \/ "boot" \in Env /\ Boot(w)
     \/ "expire" \in Env /\ \E s \in Slots : Expire(w, s)
     \/ "lose" \in Env /\ PullFails(w)
  /\ UNCHANGED <<storeVars, history>>

ReportLost(m) ==
  /\ "lose" \in Env
  /\ ReportGone(m)
  /\ UNCHANGED <<storeVars, history>>

DispatchNext ==
  \/ UserMay
  \/ \E w \in Workers : WorkerRuns(w) \/ WorkerMay(w) \/ PullClaims(w) \/ PullAnswers(w)
  \/ \E m \in reports : HandleReport(m) \/ ReportLost(m)
  \/ "server restart" \in Env /\ ServerRestart

DispatchSpec == DispatchInit /\ [][DispatchNext]_vars

(***************************************************************************)
(* Fairness.  The goroutines of a worker and the handlers of the server    *)
(* run when they can.  That commands end by themselves (CommandsEnd), or   *)
(* when they are killed (KillsEnd), is a hypothesis of the properties that *)
(* need it, not of FairSpec.                                               *)
(***************************************************************************)
Quietly(A) == A /\ UNCHANGED <<storeVars, history>>

Duties ==
  /\ \A w \in Workers :
       /\ WF_vars(Quietly(FetcherStep(w)))
       /\ WF_vars(PullClaims(w))
       /\ WF_vars(PullAnswers(w))
       /\ \A s \in Slots :
            WF_vars(Quietly(Take(w, s) \/ Register(w, s) \/ EndRun(w, s)))
  /\ WF_vars(\E m \in reports : HandleReport(m))

CommandsEnd ==
  \A w \in Workers, s \in Slots :
    WF_vars(Quietly(\E ok \in BOOLEAN : Finish(w, s, ok)))

FairSpec == DispatchSpec /\ Duties

\* A server that is restarted again and again.
RestartedSpec == FairSpec /\ SF_vars(ServerRestart)

(***************************************************************************)
(* What is alive of a task: the copies that will run or are running.       *)
(***************************************************************************)
LiveAt(w, c) ==
  Cardinality({s \in Slots : slots[w][s].pc \in {"starting", "running"} /\ slots[w][s].task = c})
  + Cardinality({k \in DOMAIN jobs[w] : jobs[w][k] = c})
  + (IF fetch[w].task = c THEN 1 ELSE 0)

LiveCopies(t) == {c \in Workers \X Claims :
                    LiveAt(c[1], [id |-> t, claim |-> c[2]]) > 0}

(***************************************************************************)
(* Properties.                                                             *)
(***************************************************************************)
\* One claim is one run: whatever is lost, restarted or killed, the copies of
\* a task that will run or are running are of different claims, each once.
OneRunPerClaim ==
  \A c \in Task : \A w \in Workers : LiveAt(w, c) # 0 =>
    LiveAt(w, c) = 1 /\ \A v \in Workers \ {w} : LiveAt(v, c) = 0

\* Until a user restarts a task there is at most one copy of it anywhere, and
\* the row knows about it: it names that worker, and is running or stopped.
LiveRunIsOwned ==
  \A t \in DOMAIN tasks \ restarted :
    /\ Cardinality(LiveCopies(t)) <= 1
    /\ \A c \in LiveCopies(t) : /\ tasks[t].worker = c[1]
                                /\ tasks[t].status \in {"running", "stopped"}
                                /\ c[2] = claims[t]

\* A stop never kills a run that began after it: a run cancelled through the
\* stop list is one whose task a user stopped during that run or a later one,
\* even when the answer is late and the task was restarted meanwhile.
StopsReachBack ==
  \A w \in Workers, s \in Slots :
    slots[w][s].pc = "running" /\ slots[w][s].ctx = "stopped" =>
      \E c \in stopped : /\ c.id = slots[w][s].task.id
                         /\ c.claim >= slots[w][s].task.claim

\* Every claim counts at most once against the retry budget, and until a user
\* restarts the task a claim is made only after the last one was counted: a
\* task runs at most max_retry + 1 times.
AttemptsCounted ==
  \A t \in DOMAIN tasks :
    /\ tasks[t].retry <= claims[t]
    /\ t \notin restarted => claims[t] <= tasks[t].retry + 1

\* An outcome is final as long as no user restarts the task, however late the
\* reports of its claims are handled: the last UPDATE of ReportResult does not
\* test the status, and the row still names the worker.
OutcomeIsFinal ==
  [][\A t \in Kept \ restarted : tasks[t].status \in {"success", "dead"} =>
       tasks'[t].status = tasks[t].status]_vars

\* While nothing fails, a row is running only as long as some worker has the
\* task, or its outcome is on the way to the server: no claim is forgotten.
OnTheWay(t) ==
  \/ LiveCopies(t) # {}
  \/ \E m \in reports : m.task.id = t

RunningIsLive ==
  \A t \in DOMAIN tasks : tasks[t].status = "running" => OnTheWay(t)

\* A task that waits does not wait for ever: it succeeds, runs out of retries
\* or is stopped, as long as commands end and no message is lost.
Settles ==
  CommandsEnd =>
    \A t \in Ids : (t \in DOMAIN tasks /\ tasks[t].status = "pending") ~>
      (t \in DOMAIN tasks => tasks[t].status \in {"success", "dead", "stopped"})

\* A stopped command ends although it would never end by itself.  The cancel
\* may come before the run is registered and hit nothing; that the stop list
\* repeats the id until then is what makes it work.  This is about a first run:
\* the end of an earlier run may have taken a later one's entry out of active.
\* One thing keeps a stop away besides what a killed shell leaves behind: the
\* fetcher blocked for ever on a full channel, behind commands that never end.
RunningStopped(w, s) ==
  LET task == slots[w][s].task
  IN  /\ slots[w][s].pc \in {"starting", "running"}
      /\ task.claim = 1
      /\ task.id \in DOMAIN tasks \ restarted
      /\ tasks[task.id].status = "stopped"

Blocked(w) == fetch[w].pc = "sending" /\ Len(jobs[w]) = JobsCap

StopReaches ==
  KillsEnd =>
    \A w \in Workers, s \in Slots :
      (RunningStopped(w, s) ~> ~RunningStopped(w, s)) \/ <>[]Blocked(w)

(***************************************************************************)
(* What comments and documents say, and the code does not do.              *)
(***************************************************************************)
\* pool.go:331: a row left running by a lost report is recovered by "the next
\* server restart sweep".  ServerRestart changes no row.
SweepRecovers ==
  \A t \in Ids : (t \in DOMAIN tasks /\ tasks[t].status = "running" /\ ~OnTheWay(t)) ~>
                 (t \in DOMAIN tasks => tasks[t].status # "running")

\* pool.go:323: "Deadline exceeded counts as failure (caller retries per
\* MaxRetry)": an expired run's row does not stay running, when the command
\* that is killed ends.
ExpiryCounts ==
  KillsEnd =>
    \A w \in Workers, s \in Slots, c \in Task :
      (slots[w][s].task = c /\ slots[w][s].ctx = "expired") ~>
      (c.id \in DOMAIN tasks => tasks[c.id].status # "running")

=============================================================================
