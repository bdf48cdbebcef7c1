------------------------------- MODULE StoreTx -------------------------------
(***************************************************************************)
(* internal/store/store.go statement by statement: calls wait for the one  *)
(* connection of the pool, a transaction keeps it from BEGIN to COMMIT or  *)
(* ROLLBACK, and any of them may be cut short by its context, by the store *)
(* being closed, or by the end of the process.  Around it the life of the  *)
(* server in main.go and server.go: run, drain, close, exit.               *)
(*                                                                         *)
(* TaskStore says what the calls do; here, that they do it at once.        *)
(***************************************************************************)
EXTENDS Integers, FiniteSets, WorkerIds

CONSTANTS
  NoWorker, MaxRetries, Backoff, MaxId, MaxNow, RetryCap,   \* as in TaskStore
  Requests,    \* handlers of HTTP requests that call the store
  Spawns,      \* firings of cron entries that call it (Scheduler.spawn)
  Offered,     \* bound: the operations requests carry
  Free         \* nobody holds the connection

VARIABLES
  disk,        \* the table as last committed
  nextId, now, \* as in TaskStore
  draft,       \* the table as the open transaction sees it
  conn,        \* the caller whose transaction holds the connection, or Free
  call,        \* caller -> the operation it is in, for those in one
  server       \* "up", "draining", "closed", "down"

rowVars == <<disk, nextId, now>>
txVars == <<rowVars, draft, conn, call, server>>

Store == INSTANCE TaskStore WITH tasks <- disk
Draft == INSTANCE TaskStore WITH tasks <- draft

Callers == Requests \cup Spawns

\* The calls the handlers make, with what tells them apart.
Ids == 1 .. MaxId

Creations == [kind : {"create"}, type : {"once", "cron"}, max : MaxRetries, parent : 0 .. MaxId]

Operations ==
  [kind : {"claim"}, worker : Workers]
    \cup [kind : {"report"}, id : Ids, worker : Workers \cup {NoWorker}, ok : BOOLEAN]
    \cup [kind : {"enable"}, id : Ids, on : BOOLEAN]
    \cup {op \in Creations : op.parent = 0}
    \cup [kind : {"delete", "stop", "resume"}, id : Ids]
    \cup [kind : {"stopAll"}]

ASSUME TxConstants ==
  /\ Requests \cap Spawns = {}
  /\ Free \notin Requests \cup Spawns
  /\ Offered \subseteq Operations

InTransaction(op) == op.kind \in {"claim", "report", "enable"}

Phases == {"waiting", "begun", "written"}

TxTypeOK ==
  /\ Store!TypeOK
  /\ Draft!TypeOK
  /\ conn \in Callers \cup {Free}
  /\ DOMAIN call \subseteq Callers
  /\ \A c \in DOMAIN call :
       /\ call[c].op \in Offered \cup Creations \cup {[kind |-> "stopChildren"]}
       /\ call[c].phase \in Phases
  /\ server \in {"up", "draining", "closed", "down"}

TxInit ==
  /\ Store!Init
  /\ draft = disk
  /\ conn = Free
  /\ call = [c \in {} |-> Free]
  /\ server = "up"

In(c, phase) == c \in DOMAIN call /\ call[c].phase = phase

Ended(c) == [x \in DOMAIN call \ {c} |-> call[x]]

(***************************************************************************)
(* A call arrives.                                                         *)
(***************************************************************************)
Enter(c, op) ==
  /\ c \notin DOMAIN call
  /\ call' = [x \in DOMAIN call \cup {c} |->
                IF x = c THEN [op |-> op, phase |-> "waiting"] ELSE call[x]]
  /\ UNCHANGED <<rowVars, draft, conn, server>>

\* A request accepted before the signal may reach the store while the server
\* drains.
Accept(c) ==
  /\ server \in {"up", "draining"}
  /\ \E op \in Offered : Enter(c, op)

\* spawn: a child of a definition that may have been paused or deleted since.
Fire(c) ==
  /\ server = "up"
  /\ \E op \in Creations : op.type = "once" /\ op.parent \in Store!CronParents /\ Enter(c, op)

(***************************************************************************)
(* One-statement calls: executed when the connection is free.              *)
(***************************************************************************)
Matches(op) ==
  CASE op.kind = "create" -> nextId <= MaxId
    [] op.kind = "delete" -> op.id \in DOMAIN disk
    [] op.kind = "stop"   -> op.id \in DOMAIN disk /\ disk[op.id].status \in Store!Active
    [] op.kind = "resume" -> op.id \in DOMAIN disk /\ disk[op.id].status = "stopped"
    [] OTHER -> TRUE

Effect(op) ==
  \/ op.kind = "create" /\ Store!Create(op.type, op.max, op.parent)
  \/ op.kind = "delete" /\ Store!Delete(op.id)
  \/ op.kind = "stop" /\ Store!StopTask(op.id)
  \/ op.kind = "resume" /\ Store!ResumeTask(op.id)
  \/ op.kind = "stopAll" /\ Store!DisableAllCron
  \/ op.kind = "stopChildren" /\ Store!StopAllChildren

\* Mutant: a second connection in the pool.
ExecuteBeside(c) ==
  /\ server # "closed"
  /\ In(c, "waiting") /\ ~InTransaction(call[c].op)
  /\ IF Matches(call[c].op) THEN Effect(call[c].op) ELSE UNCHANGED rowVars
  /\ draft' = IF conn = Free THEN disk' ELSE draft
  /\ call' = IF call[c].op.kind = "stopAll"
               THEN [call EXCEPT ![c].op = [kind |-> "stopChildren"]]
               ELSE Ended(c)
  /\ UNCHANGED <<conn, server>>

\* StopAllCron gives the connection up between its statements.
Execute(c) ==
  /\ conn = Free /\ server # "closed"
  /\ In(c, "waiting") /\ ~InTransaction(call[c].op)
  /\ IF Matches(call[c].op) THEN Effect(call[c].op) ELSE UNCHANGED rowVars
  /\ draft' = disk'
  /\ call' = IF call[c].op.kind = "stopAll"
               THEN [call EXCEPT ![c].op = [kind |-> "stopChildren"]]
               ELSE Ended(c)
  /\ UNCHANGED <<conn, server>>

(***************************************************************************)
(* Transactions: SetEnabled, ClaimPending, ReportResult.                   *)
(***************************************************************************)
Begin(c) ==
  /\ conn = Free /\ server # "closed"
  /\ In(c, "waiting") /\ InTransaction(call[c].op)
  /\ conn' = c
  /\ call' = [call EXCEPT ![c].phase = "begun"]
  /\ UNCHANGED <<rowVars, draft, server>>

\* Mutant: the early return of an error path has no deferred rollback.
RollbackLeaking(c) ==
  /\ call' = Ended(c)
  /\ UNCHANGED <<rowVars, draft, conn, server>>

\* tx.Rollback, deferred: the draft is dropped and the connection released.
Rollback(c) ==
  /\ draft' = disk
  /\ conn' = Free
  /\ call' = Ended(c)
  /\ UNCHANGED <<rowVars, server>>

\* The statements that look a row up find none (ErrNotFound, not the owner).
Misses(op) ==
  CASE op.kind = "claim"  -> Draft!Due = {}
    [] op.kind = "report" -> Draft!OwnedBy(op.id, op.worker) => draft[op.id].retry >= RetryCap
    [] op.kind = "enable" -> op.id \notin DOMAIN draft

GiveUp(c) == In(c, "begun") /\ Misses(call[c].op) /\ Rollback(c)

\* The statements that change rows.
Change(op) ==
  \/ op.kind = "claim" /\ \E t \in Draft!OldestDue : Draft!ClaimPending(op.worker, t)
  \/ op.kind = "report" /\ Draft!ReportResult(op.id, op.worker, op.ok)
  \/ op.kind = "enable" /\ Draft!SetEnabled(op.id, op.on)

Write(c) ==
  /\ In(c, "begun") /\ ~Misses(call[c].op)
  /\ Change(call[c].op)
  /\ call' = [call EXCEPT ![c].phase = "written"]
  /\ UNCHANGED <<disk, conn, server>>

Commit(c) ==
  /\ In(c, "written")
  /\ disk' = draft
  /\ conn' = Free
  /\ call' = Ended(c)
  /\ UNCHANGED <<nextId, now, draft, server>>

(***************************************************************************)
(* A call is cut short: the client is gone or timed out, the scheduler's   *)
(* context is cancelled, the closed store gives out no connection, or the  *)
(* database reports an error.                                              *)
(***************************************************************************)
Abort(c) ==
  /\ c \in DOMAIN call
  /\ IF conn = c THEN Rollback(c)
                 ELSE call' = Ended(c) /\ UNCHANGED <<rowVars, draft, conn, server>>

Refused(c) == server = "closed" /\ In(c, "waiting") /\ Abort(c)

(***************************************************************************)
(* runServer.                                                              *)
(***************************************************************************)
Busy == DOMAIN call \cap Requests

Signal ==
  /\ server = "up"
  /\ server' = "draining"
  /\ UNCHANGED <<rowVars, draft, conn, call>>

Close == server' = "closed" /\ UNCHANGED <<rowVars, draft, conn, call>>

\* Shutdown returns when the last request has been answered; nobody waits for
\* the scheduler's firings.
Drained == server = "draining" /\ Busy = {} /\ Close

\* Its ten seconds are over, or the listener failed and there was no Shutdown.
CloseEarly ==
  /\ server \in {"draining", "up"}
  /\ Close

\* main returns, or the process is killed: what was not committed is gone.
Die ==
  /\ server' = "down"
  /\ call' = [c \in {} |-> Free]
  /\ conn' = Free
  /\ draft' = disk
  /\ UNCHANGED rowVars

Exit == server = "closed" /\ Die
Crash == server # "down" /\ Die

\* New runs migrate, which changes no row.
Boot ==
  /\ server = "down"
  /\ server' = "up"
  /\ UNCHANGED <<rowVars, draft, conn, call>>

Take(c) == Begin(c) \/ Execute(c)
Advance(c) == GiveUp(c) \/ Write(c) \/ Commit(c) \/ Refused(c)

TxNext ==
  \/ \E c \in Requests : Accept(c)
  \/ \E c \in Spawns : Fire(c)
  \/ \E c \in Callers : Take(c) \/ Advance(c) \/ Abort(c)
  \/ Signal \/ Drained \/ CloseEarly \/ Exit \/ Crash \/ Boot

TxSpec ==
  /\ TxInit
  /\ [][TxNext]_txVars
  /\ \A c \in Callers : SF_txVars(Take(c)) /\ WF_txVars(Advance(c))

(***************************************************************************)
(* Properties.                                                             *)
(***************************************************************************)

\* Whatever is cut short, closed or killed between two statements, the table
\* on disk changes by whole operations of TaskStore only.
IsTaskStore == Store!Spec

\* An open transaction works on the table as it is: until its own statements
\* run, nothing has been committed since it began.  ClaimPending's row test
\* and ReportResult's arithmetic on values read before rely on it.
SnapshotIsCurrent == (\A c \in DOMAIN call : ~In(c, "written")) => draft = disk

\* The one connection is held by a call that is still going on, on every path.
ConnectionIsHeld ==
  /\ conn # Free => In(conn, "begun") \/ In(conn, "written")
  /\ \A c \in DOMAIN call : ~In(c, "waiting") => conn = c

\* No caller waits for the connection forever, whatever becomes of the others.
CallsEnd == \A c \in Callers : c \in DOMAIN call ~> c \notin DOMAIN call
=============================================================================
