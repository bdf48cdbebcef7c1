---------------------------- MODULE StoreTxProofs ----------------------------
(***************************************************************************)
(* Proofs about StoreTx: for every set of callers, every bound and every   *)
(* choice of offered operations, the statements of internal/store/store.go *)
(* with their waiting, cancelling and crashing change the table on disk as *)
(* TaskStore says, one whole operation at a time.                          *)
(***************************************************************************)
EXTENDS StoreTx, TLAPS

(***************************************************************************)
(* The inductive invariant.                                                *)
(***************************************************************************)

\* What a call in flight may carry: a child to create is a child of something
\* that was a cron definition when the entry fired, and still is if it exists.
Firings == {op \in Creations : op.type = "once" /\ op.parent \in Store!CronParents}

CallsOK ==
  /\ call = [c \in DOMAIN call |-> call[c]]
  /\ DOMAIN call \subseteq Callers
  /\ \A c \in DOMAIN call :
       /\ call[c].op \in Operations \cup Firings \cup {[kind |-> "stopChildren"]}
       /\ call[c] = [op |-> call[c].op, phase |-> call[c].phase]
       /\ call[c].phase \in Phases
       /\ call[c].phase # "waiting" => InTransaction(call[c].op)

\* The draft of a call that has run its statements is the result of one whole
\* operation on the table as it still is on disk.
Put(id, row) == draft = [disk EXCEPT ![id] = row]

WroteReport(id, w, ok) ==
  /\ Store!OwnedBy(id, w)
  /\ \/ /\ disk[id].status = "stopped"
        /\ Put(id, [disk[id] EXCEPT !.worker = NoWorker])
     \/ /\ ok /\ disk[id].status # "stopped"
        /\ Put(id, [disk[id] EXCEPT !.status = "success"])
     \/ /\ ~ok /\ disk[id].status # "stopped"
        /\ disk[id].retry < RetryCap /\ disk[id].retry + 1 > disk[id].maxRetry
        /\ Put(id, [disk[id] EXCEPT !.status = "dead", !.retry = disk[id].retry + 1])
     \/ /\ ~ok /\ disk[id].status = "running"
        /\ disk[id].retry < RetryCap /\ disk[id].retry + 1 <= disk[id].maxRetry
        /\ Put(id, [disk[id] EXCEPT !.status = "pending",
                                    !.retry = disk[id].retry + 1,
                                    !.worker = NoWorker,
                                    !.nextRun = now + (disk[id].retry + 1) * Backoff])
     \/ /\ ~ok /\ disk[id].status \notin {"running", "stopped"}
        /\ disk[id].retry + 1 <= disk[id].maxRetry
        /\ draft = disk

WroteClaim(w) ==
  \E t \in Store!OldestDue : Put(t, [disk[t] EXCEPT !.status = "running", !.worker = w])

WroteEnabled(id, on) ==
  /\ id \in DOMAIN disk
  /\ draft = [t \in DOMAIN disk |->
                IF t = id THEN [disk[t] EXCEPT !.enabled = on]
                ELSE IF ~on /\ t \in Store!Children(id) /\ disk[t].status \in Store!Active
                THEN Store!Stopped(disk[t])
                ELSE disk[t]]

Wrote(op) ==
  \/ op.kind = "claim" /\ WroteClaim(op.worker)
  \/ op.kind = "report" /\ WroteReport(op.id, op.worker, op.ok)
  \/ op.kind = "enable" /\ WroteEnabled(op.id, op.on)

WrittenIsWhole == \A c \in DOMAIN call : In(c, "written") => Wrote(call[c].op)

\* Rows are records that have a type, and ids are handed out upwards.
Typed(r) == r = [f \in DOMAIN r |-> r[f]] /\ "type" \in DOMAIN r

RowsTyped ==
  /\ nextId \in Nat \ {0}
  /\ disk = [t \in DOMAIN disk |-> disk[t]]
  /\ \A t \in DOMAIN disk : Typed(disk[t])

TxInv ==
  /\ CallsOK
  /\ conn \in Callers \cup {Free}
  /\ ConnectionIsHeld
  /\ SnapshotIsCurrent
  /\ WrittenIsWhole
  /\ RowsTyped

(***************************************************************************)
(* What the invariant gives at each step.                                  *)
(***************************************************************************)
LEMMA InitInv == TxInit => TxInv
BY TxConstants DEF TxInit, TxInv, CallsOK, ConnectionIsHeld, SnapshotIsCurrent, WrittenIsWhole,
  RowsTyped, In, Callers, Store!Init

\* No call has run its statements while the connection is free.
LEMMA FreeIsCurrent ==
  ASSUME TxInv, conn = Free
  PROVE  /\ draft = disk
         /\ \A c \in DOMAIN call : In(c, "waiting")
<1>1. \A c \in DOMAIN call : c # Free
  BY TxConstants DEF TxInv, CallsOK, Callers
<1>2. \A c \in DOMAIN call : In(c, "waiting")
  BY <1>1 DEF TxInv, ConnectionIsHeld
<1>3. \A c \in DOMAIN call : ~In(c, "written")
  BY <1>2 DEF In
<1> QED
  BY <1>2, <1>3 DEF TxInv, SnapshotIsCurrent

\* The statements of an open transaction find the table as it is on disk.
LEMMA BegunIsCurrent ==
  ASSUME TxInv, NEW c, In(c, "begun")
  PROVE  draft = disk /\ conn = c
<1>1. conn = c
  BY DEF TxInv, ConnectionIsHeld, In
<1>2. \A x \in DOMAIN call : ~In(x, "written")
  BY <1>1 DEF TxInv, ConnectionIsHeld, In
<1> QED
  BY <1>1, <1>2 DEF TxInv, SnapshotIsCurrent

(***************************************************************************)
(* One-statement calls and commits are steps of TaskStore.                 *)
(***************************************************************************)
LEMMA ExecuteIsStep ==
  ASSUME TxInv, NEW c \in Callers, Execute(c)
  PROVE  Store!Next \/ UNCHANGED rowVars
<1> DEFINE op == call[c].op
<1>1. op \in Operations \cup Firings \cup {[kind |-> "stopChildren"]}
  BY DEF TxInv, CallsOK, Execute, In
<1>2. CASE ~Matches(op)
  BY <1>2 DEF Execute
<1>3. CASE Matches(op)
  <2>1. Effect(op)
    BY <1>3 DEF Execute
  <2>2. CASE op.kind = "create" /\ Store!Create(op.type, op.max, op.parent)
    <3>1. op \in Creations /\ (op.parent = 0 \/ op \in Firings)
      BY <1>1, <2>2 DEF Operations, Firings
    <3>2. op.type \in {"once", "cron"} /\ op.max \in MaxRetries
      BY <3>1 DEF Creations
    <3>3. CASE op.parent = 0
      BY <2>2, <3>2, <3>3 DEF Store!Next, Store!UserStep
    <3>4. CASE op \in Firings
      BY <2>2, <3>2, <3>4 DEF Firings, Store!Next, Store!SchedulerStep
    <3> QED
      BY <3>1, <3>3, <3>4
  <2>3. CASE op.kind = "delete" /\ Store!Delete(op.id)
    BY <2>3 DEF Store!Delete, Store!Next, Store!UserStep
  <2>4. CASE op.kind = "stop" /\ Store!StopTask(op.id)
    BY <2>4 DEF Store!StopTask, Store!Next, Store!UserStep
  <2>5. CASE op.kind = "resume" /\ Store!ResumeTask(op.id)
    BY <2>5 DEF Store!ResumeTask, Store!Next, Store!UserStep
  <2>6. CASE op.kind = "stopAll" /\ Store!DisableAllCron
    BY <2>6 DEF Store!Next, Store!UserStep
  <2>7. CASE op.kind = "stopChildren" /\ Store!StopAllChildren
    BY <2>7 DEF Store!Next, Store!UserStep
  <2> QED
    BY <2>1, <2>2, <2>3, <2>4, <2>5, <2>6, <2>7 DEF Effect
<1> QED
  BY <1>2, <1>3

LEMMA CommitIsStep ==
  ASSUME TxInv, NEW c \in Callers, Commit(c)
  PROVE  Store!Next
<1> DEFINE op == call[c].op
<1>1. op \in Operations \cup Firings \cup {[kind |-> "stopChildren"]}
  BY DEF TxInv, CallsOK, Commit, In
<1>2. Wrote(op)
  BY DEF TxInv, WrittenIsWhole, Commit, In
<1>3. disk' = draft /\ nextId' = nextId /\ now' = now
  BY DEF Commit
<1>4. CASE op.kind = "claim" /\ WroteClaim(op.worker)
  <2>1. op.worker \in Workers
    BY <1>1, <1>4 DEF Operations, Firings, Creations
  <2>2. \E t \in Store!OldestDue : Store!ClaimPending(op.worker, t)
    BY <1>3, <1>4 DEF WroteClaim, Put, Store!ClaimPending
  <2> QED
    BY <2>1, <2>2 DEF Store!Next, Store!WorkerStep
<1>5. CASE op.kind = "report" /\ WroteReport(op.id, op.worker, op.ok)
  <2>1. op.id \in 1 .. MaxId /\ op.worker \in Store!Reporters /\ op.ok \in BOOLEAN
    BY <1>1, <1>5 DEF Operations, Firings, Creations, Ids, Store!Reporters
  <2>2. Store!ReportResult(op.id, op.worker, op.ok)
    BY <1>3, <1>5 DEF WroteReport, Put, Store!ReportResult, Store!ReportOnStopped,
      Store!ReportSuccess, Store!ReportDead, Store!ReportRetry, Store!ReportRetryMissed
  <2> QED
    BY <2>1, <2>2 DEF Store!Next, Store!WorkerStep
<1>6. CASE op.kind = "enable" /\ WroteEnabled(op.id, op.on)
  <2>1. op.on \in BOOLEAN
    BY <1>1, <1>6 DEF Operations, Firings, Creations
  <2>2. op.id \in DOMAIN disk /\ Store!SetEnabled(op.id, op.on)
    BY <1>3, <1>6 DEF WroteEnabled, Store!SetEnabled
  <2> QED
    BY <2>1, <2>2 DEF Store!Next, Store!UserStep
<1> QED
  BY <1>2, <1>4, <1>5, <1>6 DEF Wrote

(***************************************************************************)
(* What a step of TaskStore keeps: a row never changes its type, and a     *)
(* number once passed names no new row.  So a call to create a child stays *)
(* well formed while it waits, whatever is done to its definition.         *)
(***************************************************************************)
SameType(r, q) == Typed(q) /\ q.type = r.type

TypesKept ==
  /\ nextId' >= nextId
  /\ \A t \in DOMAIN disk' :
       \/ t \in DOMAIN disk /\ disk'[t].type = disk[t].type
       \/ t = nextId /\ nextId' > nextId

LEMMA FieldSet ==
  ASSUME NEW r, Typed(r), NEW f, f # "type", NEW x
  PROVE  SameType(r, [r EXCEPT ![f] = x])
BY DEF Typed, SameType

LEMMA FieldSetAgain ==
  ASSUME NEW r, NEW q, SameType(r, q), NEW f, f # "type", NEW x
  PROVE  SameType(r, [q EXCEPT ![f] = x])
BY FieldSet DEF SameType

LEMMA OneRowSet ==
  ASSUME RowsTyped, NEW id \in DOMAIN disk, NEW q, SameType(disk[id], q),
         disk' = [disk EXCEPT ![id] = q], nextId' = nextId
  PROVE  RowsTyped' /\ TypesKept
<1>1. /\ DOMAIN disk' = DOMAIN disk
      /\ disk' = [t \in DOMAIN disk' |-> disk'[t]]
      /\ \A t \in DOMAIN disk : disk'[t] = IF t = id THEN q ELSE disk[t]
  BY DEF RowsTyped
<1>2. nextId \in Nat /\ nextId' >= nextId
  BY DEF RowsTyped
<1>3. \A t \in DOMAIN disk : Typed(disk'[t]) /\ disk'[t].type = disk[t].type
  BY <1>1 DEF RowsTyped, SameType
<1> QED
  BY <1>1, <1>2, <1>3 DEF RowsTyped, Typed, TypesKept

LEMMA RowsSet ==
  ASSUME RowsTyped, DOMAIN disk' = DOMAIN disk, disk' = [t \in DOMAIN disk' |-> disk'[t]],
         \A t \in DOMAIN disk : disk'[t] = disk[t] \/ SameType(disk[t], disk'[t]),
         nextId' = nextId
  PROVE  RowsTyped' /\ TypesKept
BY DEF RowsTyped, SameType, TypesKept

LEMMA UserStepKeeps ==
  ASSUME RowsTyped, Store!UserStep \/ Store!SchedulerStep
  PROVE  RowsTyped' /\ TypesKept
<1> USE DEF RowsTyped
<1>1. ASSUME NEW type, NEW m, NEW p, Store!Create(type, m, p)
      PROVE  RowsTyped' /\ TypesKept
  <2>1. Typed(Store!NewRow(type, m, p))
    BY DEF Typed, Store!NewRow
  <2>2. /\ nextId' = nextId + 1
        /\ disk' = [t \in DOMAIN disk \cup {nextId} |->
                      IF t = nextId THEN Store!NewRow(type, m, p) ELSE disk[t]]
    BY <1>1 DEF Store!Create
  <2> QED
    BY <2>1, <2>2 DEF TypesKept
<1>2. ASSUME NEW id, Store!Delete(id)
      PROVE  RowsTyped' /\ TypesKept
  BY <1>2 DEF Store!Delete, TypesKept
<1>3. ASSUME NEW id, NEW on, Store!SetEnabled(id, on)
      PROVE  RowsTyped' /\ TypesKept
  <2>1. \A t \in DOMAIN disk : /\ SameType(disk[t], [disk[t] EXCEPT !.enabled = on])
                               /\ SameType(disk[t], Store!Stopped(disk[t]))
    BY FieldSet DEF Store!Stopped
  <2> QED
    BY <1>3, <2>1, RowsSet DEF Store!SetEnabled
<1>4. ASSUME NEW id, Store!StopTask(id)
      PROVE  RowsTyped' /\ TypesKept
  BY <1>4, FieldSet, OneRowSet DEF Store!StopTask, Store!Stopped
<1>5. ASSUME NEW id, Store!ResumeTask(id)
      PROVE  RowsTyped' /\ TypesKept
  <2> DEFINE q == [disk[id] EXCEPT !.status = "pending", !.worker = NoWorker, !.nextRun = now]
  <2>1. id \in DOMAIN disk /\ disk' = [disk EXCEPT ![id] = q] /\ nextId' = nextId
    BY <1>5 DEF Store!ResumeTask
  <2>2. SameType(disk[id], q)
    BY <2>1, FieldSet, FieldSetAgain, Zenon
  <2> QED
    BY <2>1, <2>2, OneRowSet
<1>6. ASSUME Store!DisableAllCron
      PROVE  RowsTyped' /\ TypesKept
  BY <1>6, FieldSet, RowsSet DEF Store!DisableAllCron
<1>7. ASSUME Store!StopAllChildren
      PROVE  RowsTyped' /\ TypesKept
  BY <1>7, FieldSet, RowsSet DEF Store!StopAllChildren, Store!Stopped
<1> QED
  BY <1>1, <1>2, <1>3, <1>4, <1>5, <1>6, <1>7 DEF Store!UserStep, Store!SchedulerStep

LEMMA WorkerStepKeeps ==
  ASSUME RowsTyped, Store!WorkerStep
  PROVE  RowsTyped' /\ TypesKept
<1> USE DEF RowsTyped
<1>1. ASSUME UNCHANGED <<disk, nextId>>
      PROVE  RowsTyped' /\ TypesKept
  BY <1>1 DEF TypesKept
<1>2. ASSUME NEW w, NEW id, Store!ClaimPending(w, id)
      PROVE  RowsTyped' /\ TypesKept
  <2> DEFINE q == [disk[id] EXCEPT !.status = "running", !.worker = w]
  <2>1. id \in DOMAIN disk /\ disk' = [disk EXCEPT ![id] = q] /\ nextId' = nextId
    BY <1>2 DEF Store!ClaimPending, Store!OldestDue, Store!Due
  <2>2. SameType(disk[id], q)
    BY <2>1, FieldSet, FieldSetAgain, Zenon
  <2> QED
    BY <2>1, <2>2, OneRowSet
<1>3. ASSUME NEW w, NEW id, Store!ClearWorker(id, w)
      PROVE  RowsTyped' /\ TypesKept
  BY <1>3, FieldSet, OneRowSet DEF Store!ClearWorker, Store!StopList
<1>4. ASSUME NEW w, NEW id, NEW ok, Store!ReportResult(id, w, ok)
      PROVE  RowsTyped' /\ TypesKept
  <2>1. id \in DOMAIN disk /\ nextId' = nextId
    BY <1>4 DEF Store!ReportResult, Store!OwnedBy
  <2>2. CASE Store!ReportOnStopped(id)
    BY <2>1, <2>2, FieldSet, OneRowSet DEF Store!ReportOnStopped
  <2>3. CASE Store!ReportSuccess(id)
    BY <2>1, <2>3, FieldSet, OneRowSet DEF Store!ReportSuccess
  <2>4. CASE Store!ReportDead(id)
    <3> DEFINE q == [disk[id] EXCEPT !.status = "dead", !.retry = disk[id].retry + 1]
    <3>1. disk' = [disk EXCEPT ![id] = q]
      BY <2>4 DEF Store!ReportDead
    <3>2. SameType(disk[id], q)
      BY <2>1, FieldSet, FieldSetAgain, Zenon
    <3> QED
      BY <2>1, <3>1, <3>2, OneRowSet
  <2>5. CASE Store!ReportRetry(id)
    <3> DEFINE q == [disk[id] EXCEPT !.status = "pending",
                                     !.retry = disk[id].retry + 1,
                                     !.worker = NoWorker,
                                     !.nextRun = now + (disk[id].retry + 1) * Backoff]
    <3>1. disk' = [disk EXCEPT ![id] = q]
      BY <2>5 DEF Store!ReportRetry
    <3>2. SameType(disk[id], q)
      BY <2>1, FieldSet, FieldSetAgain, Zenon
    <3> QED
      BY <2>1, <3>1, <3>2, OneRowSet
  <2>6. CASE Store!ReportRetryMissed(id)
    BY <2>1, <2>6, <1>1 DEF Store!ReportRetryMissed
  <2> QED
    BY <1>4, <2>2, <2>3, <2>4, <2>5, <2>6 DEF Store!ReportResult
<1> QED
  BY <1>1, <1>2, <1>3, <1>4
    DEF Store!WorkerStep, Store!ClaimNothing, Store!ReportRefused, Store!storeVars

LEMMA StoreStepKeeps ==
  ASSUME RowsTyped, Store!Next \/ UNCHANGED rowVars
  PROVE  RowsTyped' /\ TypesKept
<1>1. CASE Store!Tick \/ UNCHANGED rowVars
  BY <1>1 DEF RowsTyped, TypesKept, Store!Tick, rowVars
<1> QED
  BY <1>1, UserStepKeeps, WorkerStepKeeps DEF Store!Next

LEMMA RangeGrows ==
  ASSUME NEW n \in Nat, NEW m \in Nat, m >= n, NEW d \in 1 .. (n - 1)
  PROVE  d \in 1 .. (m - 1) /\ d # n
OBVIOUS

LEMMA FiringsStay ==
  ASSUME RowsTyped, RowsTyped', TypesKept
  PROVE  Firings \subseteq Firings'
<1> SUFFICES ASSUME NEW d \in Store!CronParents
             PROVE  d \in Store!CronParents'
  BY DEF Firings
<1>1. nextId \in Nat /\ nextId' \in Nat /\ nextId' >= nextId
  BY DEF RowsTyped, TypesKept
<1>2. d \in 1 .. (nextId - 1) /\ (d \in DOMAIN disk => disk[d].type = "cron")
  BY DEF Store!CronParents
<1>3. d \in 1 .. (nextId' - 1) /\ d # nextId
  BY <1>1, <1>2, RangeGrows
<1>4. d \in DOMAIN disk' => disk'[d].type = "cron"
  BY <1>2, <1>3 DEF TypesKept
<1> QED
  BY <1>3, <1>4 DEF Store!CronParents

(***************************************************************************)
(* The invariant is inductive.                                             *)
(***************************************************************************)

\* The calls still in flight keep their operation; those in a transaction
\* have one that needs it.
LEMMA CallsStay ==
  ASSUME CallsOK, Firings \subseteq Firings',
         call' = [c \in DOMAIN call' |-> call'[c]],
         DOMAIN call' \subseteq Callers,
         \A c \in DOMAIN call' :
           /\ c \in DOMAIN call
           /\ \/ call'[c] = call[c]
              \/ \E p \in Phases : /\ p # "waiting" => InTransaction(call[c].op)
                                  /\ call'[c] = [op |-> call[c].op, phase |-> p]
  PROVE  CallsOK'
BY DEF CallsOK

\* With the connection free and the draft dropped, nothing else is asked.
LEMMA AllWait ==
  ASSUME CallsOK', RowsTyped', conn' = Free, draft' = disk',
         \A c \in DOMAIN call' : call'[c].phase = "waiting"
  PROVE  TxInv'
BY DEF TxInv, ConnectionIsHeld, SnapshotIsCurrent, WrittenIsWhole, In

LEMMA StillWhole ==
  ASSUME UNCHANGED <<disk, now, draft>>, NEW op, Wrote(op)
  PROVE  Wrote(op)'
BY DEF Wrote, WroteClaim, WroteReport, WroteEnabled, Put,
  Store!OldestDue, Store!Due, Store!OwnedBy, Store!Children, Store!Active, Store!Stopped

LEMMA EnterSafe ==
  ASSUME TxInv, NEW c \in Callers, NEW op \in Operations \cup Firings, Enter(c, op)
  PROVE  TxInv'
<1>1. /\ call' = [x \in DOMAIN call \cup {c} |->
                   IF x = c THEN [op |-> op, phase |-> "waiting"] ELSE call[x]]
      /\ c \notin DOMAIN call
      /\ UNCHANGED <<disk, nextId, now, draft, conn, server>>
  BY DEF Enter, rowVars
<1>2. Firings' = Firings
  BY <1>1 DEF Firings, Store!CronParents
<1>3. CallsOK'
  BY <1>1, <1>2 DEF TxInv, CallsOK, Phases
<1>4. \A x \in DOMAIN call : call'[x] = call[x] /\ x # c
  BY <1>1
<1>5. call'[c].phase = "waiting" /\ DOMAIN call' = DOMAIN call \cup {c}
  BY <1>1
<1>6. ConnectionIsHeld'
  BY <1>1, <1>4, <1>5 DEF TxInv, ConnectionIsHeld, In
<1>7. SnapshotIsCurrent'
  BY <1>1, <1>4, <1>5 DEF TxInv, SnapshotIsCurrent, In
<1>8. WrittenIsWhole'
  <2> SUFFICES ASSUME NEW x \in DOMAIN call', In(x, "written")'
               PROVE  Wrote(call[x].op)'
    BY DEF WrittenIsWhole
  <2>1. x \in DOMAIN call /\ call'[x] = call[x] /\ In(x, "written")
    BY <1>4, <1>5 DEF In
  <2>2. Wrote(call[x].op)
    BY <2>1 DEF TxInv, WrittenIsWhole
  <2> QED
    BY <1>1, <2>1, <2>2, StillWhole
<1>9. RowsTyped'
  BY <1>1 DEF TxInv, RowsTyped, Typed
<1> QED
  BY <1>1, <1>3, <1>6, <1>7, <1>8, <1>9 DEF TxInv

LEMMA ExecuteSafe ==
  ASSUME TxInv, NEW c \in Callers, Execute(c)
  PROVE  TxInv'
<1>1. RowsTyped' /\ Firings \subseteq Firings'
  BY ExecuteIsStep, StoreStepKeeps, FiringsStay DEF TxInv
<1>2. \A x \in DOMAIN call : In(x, "waiting")
  BY FreeIsCurrent DEF Execute
<1>3. conn' = Free /\ draft' = disk' /\ c \in DOMAIN call
  BY DEF Execute, In
<1>4. CASE call' = Ended(c)
  <2>1. CallsOK'
    BY <1>1, <1>4, CallsStay DEF TxInv, CallsOK, Ended
  <2> QED
    BY <1>1, <1>2, <1>3, <1>4, <2>1, AllWait DEF Ended, In
<1>5. CASE call' = [call EXCEPT ![c].op = [kind |-> "stopChildren"]]
  <2>1. /\ DOMAIN call' = DOMAIN call
        /\ call' = [x \in DOMAIN call' |-> call'[x]]
        /\ \A x \in DOMAIN call \ {c} : call'[x] = call[x]
    BY <1>5 DEF TxInv, CallsOK
  <2>2. call[c] = [op |-> call[c].op, phase |-> "waiting"]
    BY <1>2, <1>3 DEF TxInv, CallsOK, In
  <2>3. call'[c] = [op |-> [kind |-> "stopChildren"], phase |-> "waiting"]
    BY <1>3, <1>5, <2>2
  <2>4. CallsOK'
    BY <1>1, <2>1, <2>3 DEF TxInv, CallsOK, Phases
  <2> QED
    BY <1>1, <1>2, <1>3, <2>1, <2>3, <2>4, AllWait DEF In
<1> QED
  BY <1>4, <1>5 DEF Execute

\* Between statements the table, the clock and the counter do not move.
LEMMA StillRows ==
  ASSUME TxInv, UNCHANGED rowVars
  PROVE  RowsTyped' /\ Firings \subseteq Firings'
BY StoreStepKeeps, FiringsStay DEF TxInv

\* A call in flight moves on to another phase of its own.
LEMMA PhaseMoved ==
  ASSUME TxInv, NEW c \in DOMAIN call, NEW p, call' = [call EXCEPT ![c].phase = p]
  PROVE  /\ DOMAIN call' = DOMAIN call
         /\ call' = [x \in DOMAIN call' |-> call'[x]]
         /\ \A x \in DOMAIN call \ {c} : call'[x] = call[x]
         /\ call'[c] = [op |-> call[c].op, phase |-> p]
<1>1. call[c] = [op |-> call[c].op, phase |-> call[c].phase]
  BY DEF TxInv, CallsOK
<1> QED
  BY <1>1 DEF TxInv, CallsOK

LEMMA BeginSafe ==
  ASSUME TxInv, NEW c \in Callers, Begin(c)
  PROVE  TxInv'
<1>1. /\ c \in DOMAIN call /\ InTransaction(call[c].op)
      /\ conn = Free /\ conn' = c
      /\ UNCHANGED rowVars /\ draft' = draft
      /\ call' = [call EXCEPT ![c].phase = "begun"]
  BY DEF Begin, In
<1>2. draft = disk /\ \A x \in DOMAIN call : In(x, "waiting")
  BY <1>1, FreeIsCurrent
<1>3. /\ DOMAIN call' = DOMAIN call
      /\ call' = [x \in DOMAIN call' |-> call'[x]]
      /\ \A x \in DOMAIN call \ {c} : call'[x] = call[x]
      /\ call'[c] = [op |-> call[c].op, phase |-> "begun"]
  BY <1>1, PhaseMoved
<1>4. CallsOK'
  BY <1>1, <1>3, StillRows, CallsStay DEF TxInv, CallsOK, Phases
<1>5. RowsTyped' /\ draft' = disk'
  BY <1>1, <1>2, StillRows DEF rowVars
<1>6. \A x \in DOMAIN call' : IF x = c THEN In(x, "begun")' ELSE In(x, "waiting")'
  BY <1>2, <1>3 DEF In
<1> QED
  BY <1>1, <1>3, <1>4, <1>5, <1>6 DEF TxInv, ConnectionIsHeld, SnapshotIsCurrent, WrittenIsWhole, In

\* What the statements of a transaction leave in the draft.
LEMMA WriteIsWhole ==
  ASSUME TxInv, NEW c \in Callers, Write(c)
  PROVE  Wrote(call[c].op)'
<1> DEFINE op == call[c].op
<1>1. draft = disk /\ c \in DOMAIN call
  BY BegunIsCurrent DEF Write, In
<1>2. call' = [call EXCEPT ![c].phase = "written"] /\ disk' = disk
  BY DEF Write
<1>3. call'[c].op = op
  <2>1. call'[c] = [op |-> call[c].op, phase |-> "written"]
    BY <1>1, <1>2, PhaseMoved
  <2> QED
    BY <2>1
<1>4. Change(op) /\ nextId' = nextId /\ now' = now
  BY DEF Write, Change, Draft!ClaimPending, Draft!ReportResult, Draft!SetEnabled
<1>5. CASE op.kind = "claim" /\ \E t \in Draft!OldestDue : Draft!ClaimPending(op.worker, t)
  BY <1>1, <1>2, <1>3, <1>4, <1>5 DEF Draft!ClaimPending, Draft!OldestDue, Draft!Due,
    Wrote, WroteClaim, Put, Store!OldestDue, Store!Due
<1>6. CASE op.kind = "report" /\ Draft!ReportResult(op.id, op.worker, op.ok)
  BY <1>1, <1>2, <1>3, <1>4, <1>6 DEF Draft!ReportResult, Draft!OwnedBy, Draft!ReportOnStopped,
    Draft!ReportSuccess, Draft!ReportDead, Draft!ReportRetry, Draft!ReportRetryMissed,
    Wrote, WroteReport, Put, Store!OwnedBy
<1>7. CASE op.kind = "enable" /\ Draft!SetEnabled(op.id, op.on)
  BY <1>1, <1>2, <1>3, <1>4, <1>7 DEF Draft!SetEnabled, Draft!Children, Draft!Active, Draft!Stopped,
    Wrote, WroteEnabled, Store!Children, Store!Active, Store!Stopped
<1> QED
  BY <1>4, <1>5, <1>6, <1>7 DEF Change

LEMMA WriteSafe ==
  ASSUME TxInv, NEW c \in Callers, Write(c)
  PROVE  TxInv'
<1>1. /\ c \in DOMAIN call /\ InTransaction(call[c].op) /\ conn = c
      /\ call' = [call EXCEPT ![c].phase = "written"]
      /\ disk' = disk /\ conn' = conn /\ nextId' = nextId /\ now' = now
  BY BegunIsCurrent DEF TxInv, CallsOK, Write, In, Change,
    Draft!ClaimPending, Draft!ReportResult, Draft!SetEnabled
<1>2. /\ DOMAIN call' = DOMAIN call
      /\ call' = [x \in DOMAIN call' |-> call'[x]]
      /\ \A x \in DOMAIN call \ {c} : call'[x] = call[x]
      /\ call'[c] = [op |-> call[c].op, phase |-> "written"]
  BY <1>1, PhaseMoved
<1>3. RowsTyped' /\ Firings \subseteq Firings'
  BY <1>1, StillRows DEF rowVars
<1>4. CallsOK'
  BY <1>1, <1>2, <1>3, CallsStay DEF TxInv, CallsOK, Phases
<1>5. ConnectionIsHeld'
  BY <1>1, <1>2 DEF TxInv, ConnectionIsHeld, In
<1>6. In(c, "written")' /\ \A x \in DOMAIN call' : In(x, "written")' => x = c
  BY <1>1, <1>2 DEF TxInv, ConnectionIsHeld, In
<1>7. SnapshotIsCurrent'
  BY <1>6 DEF SnapshotIsCurrent, In
<1>8. WrittenIsWhole'
  BY <1>6, WriteIsWhole DEF WrittenIsWhole
<1> QED
  BY <1>1, <1>3, <1>4, <1>5, <1>7, <1>8 DEF TxInv

\* A call that held the connection ends: what is left waits.
LEMMA ReleaseSafe ==
  ASSUME TxInv, NEW c \in DOMAIN call, conn = c,
         RowsTyped', Firings \subseteq Firings',
         conn' = Free, draft' = disk', call' = Ended(c)
  PROVE  TxInv'
<1>1. \A x \in DOMAIN call \ {c} : call[x].phase = "waiting"
  BY DEF TxInv, ConnectionIsHeld, In
<1>2. CallsOK'
  BY CallsStay DEF TxInv, CallsOK, Ended
<1> QED
  BY <1>1, <1>2, AllWait DEF Ended

LEMMA RollbackSafe ==
  ASSUME TxInv, NEW c \in DOMAIN call, conn = c, Rollback(c)
  PROVE  TxInv'
BY StillRows, ReleaseSafe DEF Rollback, rowVars

LEMMA CommitSafe ==
  ASSUME TxInv, NEW c \in Callers, Commit(c)
  PROVE  TxInv'
<1>1. RowsTyped' /\ Firings \subseteq Firings'
  BY CommitIsStep, StoreStepKeeps, FiringsStay DEF TxInv
<1>2. c \in DOMAIN call /\ conn = c
  BY DEF TxInv, ConnectionIsHeld, Commit, In
<1> QED
  BY <1>1, <1>2, ReleaseSafe DEF Commit

\* Nothing but the set of calls changes, and those that go were waiting.
LEMMA LeaveSafe ==
  ASSUME TxInv, NEW c \in DOMAIN call, conn # c,
         call' = Ended(c), UNCHANGED <<rowVars, draft, conn>>
  PROVE  TxInv'
<1>1. In(c, "waiting")
  BY DEF TxInv, ConnectionIsHeld
<1>2. /\ UNCHANGED <<disk, nextId, now, draft, conn>>
      /\ DOMAIN call' = DOMAIN call \ {c}
      /\ \A x \in DOMAIN call' : call'[x] = call[x]
  BY DEF Ended, rowVars
<1>3. RowsTyped' /\ Firings \subseteq Firings'
  BY <1>2, StillRows DEF rowVars
<1>4. CallsOK'
  BY <1>3, CallsStay DEF TxInv, CallsOK, Ended
<1>5. ConnectionIsHeld'
  BY <1>1, <1>2 DEF TxInv, ConnectionIsHeld, In
<1>6. SnapshotIsCurrent'
  BY <1>1, <1>2 DEF TxInv, SnapshotIsCurrent, In
<1>7. WrittenIsWhole'
  <2> SUFFICES ASSUME NEW x \in DOMAIN call', In(x, "written")'
               PROVE  Wrote(call[x].op)'
    BY DEF WrittenIsWhole
  <2>1. x \in DOMAIN call /\ call'[x] = call[x] /\ In(x, "written")
    BY <1>2 DEF In
  <2>2. Wrote(call[x].op)
    BY <2>1 DEF TxInv, WrittenIsWhole
  <2> QED
    BY <1>2, <2>1, <2>2, StillWhole
<1> QED
  BY <1>2, <1>3, <1>4, <1>5, <1>6, <1>7 DEF TxInv

LEMMA AbortSafe ==
  ASSUME TxInv, NEW c \in Callers, Abort(c)
  PROVE  TxInv'
<1>1. c \in DOMAIN call
  BY DEF Abort
<1>2. CASE conn = c
  BY <1>1, <1>2, RollbackSafe DEF Abort
<1>3. CASE conn # c
  <2>1. call' = Ended(c) /\ UNCHANGED <<rowVars, draft, conn>>
    BY <1>3 DEF Abort
  <2> QED
    BY <1>1, <1>3, <2>1, LeaveSafe
<1> QED
  BY <1>2, <1>3

LEMMA DieSafe ==
  ASSUME TxInv, Die
  PROVE  TxInv'
<1>1. call' = [x \in {} |-> Free] /\ conn' = Free /\ draft' = disk' /\ UNCHANGED rowVars
  BY DEF Die, rowVars
<1>2. RowsTyped' /\ CallsOK'
  BY <1>1, StillRows DEF CallsOK
<1> QED
  BY <1>1, <1>2, AllWait

\* The life of the server touches nothing the calls work on.
LEMMA StillSafe ==
  ASSUME TxInv, UNCHANGED <<rowVars, draft, conn, call>>
  PROVE  TxInv'
<1>1. UNCHANGED <<disk, nextId, now, draft, conn, call>>
  BY DEF rowVars
<1>2. CallsOK'
  BY <1>1 DEF TxInv, CallsOK, Firings, Store!CronParents
<1>3. ConnectionIsHeld' /\ SnapshotIsCurrent'
  BY <1>1 DEF TxInv, ConnectionIsHeld, SnapshotIsCurrent, In
<1>4. WrittenIsWhole'
  BY <1>1, StillWhole DEF TxInv, WrittenIsWhole, In
<1>5. RowsTyped'
  BY StillRows
<1> QED
  BY <1>1, <1>2, <1>3, <1>4, <1>5 DEF TxInv

LEMMA StepSafe ==
  ASSUME TxInv, [TxNext]_txVars
  PROVE  TxInv'
<1>1. ASSUME NEW c \in Requests, Accept(c)
      PROVE  TxInv'
  BY <1>1, EnterSafe, TxConstants DEF Accept, Callers
<1>2. ASSUME NEW c \in Spawns, Fire(c)
      PROVE  TxInv'
  BY <1>2, EnterSafe DEF Fire, Callers, Firings
<1>3. ASSUME NEW c \in Callers, Take(c)
      PROVE  TxInv'
  BY <1>3, BeginSafe, ExecuteSafe DEF Take
<1>4. ASSUME NEW c \in Callers, Advance(c)
      PROVE  TxInv'
  <2>1. GiveUp(c) => TxInv'
    BY BegunIsCurrent, RollbackSafe DEF GiveUp, In
  <2>2. Refused(c) => TxInv'
    BY AbortSafe DEF Refused
  <2> QED
    BY <1>4, <2>1, <2>2, WriteSafe, CommitSafe DEF Advance
<1>5. ASSUME NEW c \in Callers, Abort(c)
      PROVE  TxInv'
  BY <1>5, AbortSafe
<1>6. CASE Signal \/ Drained \/ CloseEarly \/ Boot
  <2>1. UNCHANGED <<rowVars, draft, conn, call>>
    BY <1>6 DEF Signal, Drained, CloseEarly, Boot, Close
  <2> QED
    BY <2>1, StillSafe
<1>7. CASE Exit \/ Crash
  BY <1>7, DieSafe DEF Exit, Crash
<1>8. CASE UNCHANGED txVars
  BY <1>8, StillSafe DEF txVars, rowVars
<1> QED
  BY <1>1, <1>2, <1>3, <1>4, <1>5, <1>6, <1>7, <1>8 DEF TxNext

(***************************************************************************)
(* The refinement: which steps are operations of TaskStore.                *)
(***************************************************************************)
LEMMA StepIsStep ==
  ASSUME TxInv, [TxNext]_txVars
  PROVE  [Store!Next]_(Store!storeVars)
<1>1. ASSUME NEW c \in Callers, Take(c) \/ Advance(c) \/ Abort(c)
      PROVE  Store!Next \/ UNCHANGED rowVars
  <2>1. CASE Execute(c)
    BY <2>1, ExecuteIsStep
  <2>2. CASE Commit(c)
    BY <2>2, CommitIsStep
  <2>3. CASE Write(c)
    BY <2>3 DEF Write, Change, rowVars,
      Draft!ClaimPending, Draft!ReportResult, Draft!SetEnabled
  <2>4. CASE Begin(c) \/ GiveUp(c) \/ Refused(c) \/ Abort(c)
    BY <2>4 DEF Begin, GiveUp, Refused, Abort, Rollback
  <2> QED
    BY <1>1, <2>1, <2>2, <2>3, <2>4 DEF Take, Advance
<1>2. ASSUME NEW c, Accept(c) \/ Fire(c)
      PROVE  UNCHANGED rowVars
  BY <1>2 DEF Accept, Fire, Enter
<1>3. CASE Signal \/ Drained \/ CloseEarly \/ Exit \/ Crash \/ Boot
  BY <1>3 DEF Signal, Drained, CloseEarly, Exit, Crash, Boot, Close, Die, rowVars, Store!storeVars
<1>4. CASE UNCHANGED txVars
  BY <1>4 DEF txVars, rowVars, Store!storeVars
<1> QED
  BY <1>1, <1>2, <1>3, <1>4 DEF TxNext, rowVars, Store!storeVars

LEMMA TxInvariant == TxSpec => []TxInv
<1>1. TxInit => TxInv
  BY InitInv
<1>2. TxInv /\ [TxNext]_txVars => TxInv'
  BY StepSafe
<1> QED
  BY <1>1, <1>2, PTL DEF TxSpec

(***************************************************************************)
(* Theorems.                                                               *)
(***************************************************************************)

\* However calls wait, fail, are cancelled or are killed with the process, the
\* committed table changes only by whole operations of TaskStore: Rollback, the
\* single connection and Commit make store.go's methods atomic.
THEOREM TxIsTaskStore == TxSpec => IsTaskStore
<1>1. TxInit => Store!Init
  BY DEF TxInit
<1>2. TxInv /\ [TxNext]_txVars => [Store!Next]_(Store!storeVars)
  BY StepIsStep
<1> QED
  BY <1>1, <1>2, TxInvariant, PTL DEF TxSpec, IsTaskStore, Store!Spec

\* The connection is held exactly by the call whose transaction is open, on
\* every path out of it (the deferred Rollback of each method).
THEOREM ConnectionIsHeldHolds == TxSpec => []ConnectionIsHeld
<1>1. TxInv => ConnectionIsHeld
  BY DEF TxInv
<1> QED
  BY <1>1, TxInvariant, PTL

\* What a transaction reads before its statements is the table as committed,
\* so ReportResult may compute on the retry it has read.
THEOREM SnapshotIsCurrentHolds == TxSpec => []SnapshotIsCurrent
<1>1. TxInv => SnapshotIsCurrent
  BY DEF TxInv
<1> QED
  BY <1>1, TxInvariant, PTL
=============================================================================
