------------------------------ MODULE Scheduler ------------------------------
(***************************************************************************)
(* internal/server/scheduler.go: the loop that copies the enabled cron     *)
(* definitions of the store into the cron engine, the engine's firings     *)
(* (spawn), and the handlers of server.go that change a definition and     *)
(* then nudge the loop.                                                    *)
(*                                                                         *)
(* The engine may fire an entry at any time.  The loop replaces its        *)
(* entries one call at a time, so a firing falls between any two of them,  *)
(* and every database call of a handler, of the loop or of a firing may    *)
(* come between two steps of the others.  The lock is taken as what its    *)
(* interface promises while no lease runs out (MemoryLock).                *)
(***************************************************************************)
EXTENDS TaskStore

CONSTANTS
  Key,          \* Key[d] stands for the name of definition d, its lock's key
  MaxHandlers   \* bound: handlers between their commit and their nudge

ASSUME SchedulerConstants ==
  /\ DOMAIN Key = 1 .. MaxId
  /\ MaxHandlers \in Nat

VARIABLES
  live,       \* FALSE once the server's ctx is cancelled
  loop,       \* Start: where it is, and the definitions it has still to add
  sig,        \* resyncSig, a channel of capacity one
  entries,    \* the entries of the cron engine
  spawns,     \* spawn calls that hold their lock
  handlers,   \* handlers that have committed and not yet nudged
  missed      \* history: the last resync could not read the definitions

engineVars == <<live, loop, sig, entries, spawns, handlers, missed>>
schedVars == <<storeVars, engineVars>>

\* What the closure of an entry keeps of its definition.
Def(d) == [id |-> d, maxRetry |-> tasks[d].maxRetry]

\* Mutant: the listing asks for cron definitions and forgets "enabled".
AllDefs == {Def(d) : d \in {e \in DOMAIN tasks : tasks[e].type = "cron"}}

EnabledDefs == {Def(d) : d \in ListCron}

SchedInit ==
  /\ Init
  /\ live = TRUE
  /\ loop = [pc |-> "list", defs |-> {}]
  /\ sig = 0
  /\ entries = {}
  /\ spawns = {}
  /\ handlers = 0
  /\ missed = FALSE

(***************************************************************************)
(* Handlers: commit, then ResyncNow.  deleteTask does not nudge.           *)
(***************************************************************************)
Committed ==
  /\ handlers < MaxHandlers
  /\ handlers' = handlers + 1
  /\ UNCHANGED <<live, loop, sig, entries, spawns, missed>>

CreateCron == Committed /\ \E m \in MaxRetries : Create("cron", m, 0)

SetTaskEnabled(d) == Committed /\ \E on \in BOOLEAN : SetEnabled(d, on)

DeleteDef(d) == Delete(d) /\ UNCHANGED engineVars

\* Mutant: an unbuffered channel, whose signal is dropped while the loop works.
ResyncNowUnbuffered ==
  /\ handlers > 0
  /\ handlers' = handlers - 1
  /\ sig' = IF loop.pc = "wait" THEN 1 ELSE sig
  /\ UNCHANGED <<storeVars, live, loop, entries, spawns, missed>>

\* A signal that is already queued absorbs this one.
ResyncNow ==
  /\ handlers > 0
  /\ handlers' = handlers - 1
  /\ sig' = 1
  /\ UNCHANGED <<storeVars, live, loop, entries, spawns, missed>>

(***************************************************************************)
(* Start and resync.                                                       *)
(***************************************************************************)
Step(from, to) == loop.pc = from /\ loop' = [loop EXCEPT !.pc = to]

\* The select of the loop: the ticker, the signal or the end of ctx.
Ticker ==
  /\ Step("wait", "list")
  /\ UNCHANGED <<storeVars, live, sig, entries, spawns, handlers, missed>>

Signalled ==
  /\ sig = 1
  /\ Step("wait", "list")
  /\ sig' = 0
  /\ UNCHANGED <<storeVars, live, entries, spawns, handlers, missed>>

\* cron.Stop: no entry fires any more, those that did are waited for.
Stopping ==
  /\ ~live
  /\ Step("wait", "stopping")
  /\ UNCHANGED <<storeVars, live, sig, entries, spawns, handlers, missed>>

Stop ==
  /\ spawns = {}
  /\ Step("stopping", "stopped")
  /\ UNCHANGED <<storeVars, live, sig, entries, spawns, handlers, missed>>

ListDefs ==
  /\ live
  /\ loop.pc = "list"
  /\ loop' = [pc |-> "remove", defs |-> EnabledDefs]
  /\ missed' = FALSE
  /\ UNCHANGED <<storeVars, live, sig, entries, spawns, handlers>>

\* Mutant: an error ends the loop.
ListFailsForGood ==
  /\ Step("list", "stopped")
  /\ missed' = TRUE
  /\ UNCHANGED <<storeVars, live, sig, entries, spawns, handlers>>

\* Always under a cancelled ctx, and on any database error.
ListFails ==
  /\ Step("list", "wait")
  /\ missed' = TRUE
  /\ UNCHANGED <<storeVars, live, sig, entries, spawns, handlers>>

RemoveEntry(e) ==
  /\ loop.pc = "remove"
  /\ e \in entries
  /\ entries' = entries \ {e}
  /\ UNCHANGED <<storeVars, live, loop, sig, spawns, handlers, missed>>

Removed ==
  /\ entries = {}
  /\ Step("remove", "add")
  /\ UNCHANGED <<storeVars, live, sig, entries, spawns, handlers, missed>>

AddEntry(e) ==
  /\ loop.pc = "add"
  /\ e \in loop.defs
  /\ entries' = entries \cup {e}
  /\ loop' = [loop EXCEPT !.defs = @ \ {e}]
  /\ UNCHANGED <<storeVars, live, sig, spawns, handlers, missed>>

Added ==
  /\ loop.defs = {}
  /\ Step("add", "wait")
  /\ UNCHANGED <<storeVars, live, sig, entries, spawns, handlers, missed>>

(***************************************************************************)
(* spawn.                                                                  *)
(***************************************************************************)
\* An entry fires and takes the lock of its name, or finds it held.
Fire(e) ==
  /\ e \in entries
  /\ loop.pc \notin {"stopping", "stopped"}
  /\ spawns' = IF \E c \in spawns : Key[c.def.id] = Key[e.id] THEN spawns
               ELSE spawns \cup {[def |-> e, pc |-> "locked"]}
  /\ UNCHANGED <<storeVars, live, loop, sig, entries, handlers, missed>>

Goes(c, pc) == spawns' = (spawns \ {c}) \cup {[c EXCEPT !.pc = pc]}

\* Mutant: the child copies the type of its definition too.
SpawnChildOfType(c) ==
  /\ live
  /\ c.pc = "locked"
  /\ Create("cron", c.def.maxRetry, c.def.id)
  /\ Goes(c, "created")
  /\ UNCHANGED <<live, loop, sig, entries, handlers, missed>>

\* Neither the lock nor Create looks at the definition again.
SpawnChild(c) ==
  /\ live
  /\ c.pc = "locked"
  /\ Create("once", c.def.maxRetry, c.def.id)
  /\ Goes(c, "created")
  /\ UNCHANGED <<live, loop, sig, entries, handlers, missed>>

\* Mutant: Release is not deferred, an early return keeps the lock.
SpawnFailsLocked(c) ==
  /\ c.pc = "locked"
  /\ Goes(c, "failed")
  /\ UNCHANGED <<storeVars, live, loop, sig, entries, handlers, missed>>

SpawnFails(c) ==
  /\ c.pc = "locked"
  /\ Goes(c, "created")
  /\ UNCHANGED <<storeVars, live, loop, sig, entries, handlers, missed>>

SpawnReleases(c) ==
  /\ c.pc = "created"
  /\ spawns' = spawns \ {c}
  /\ UNCHANGED <<storeVars, live, loop, sig, entries, handlers, missed>>

(***************************************************************************)
(* The server process.                                                     *)
(***************************************************************************)
Cancel ==
  /\ live
  /\ live' = FALSE
  /\ UNCHANGED <<storeVars, loop, sig, entries, spawns, handlers, missed>>

\* The process ends at any moment and starts again on the same database.
ServerRestart ==
  /\ live' = TRUE
  /\ loop' = [pc |-> "list", defs |-> {}]
  /\ sig' = 0
  /\ entries' = {}
  /\ spawns' = {}
  /\ handlers' = 0
  /\ missed' = FALSE
  /\ UNCHANGED storeVars

(***************************************************************************)
(* Next, and fairness.                                                     *)
(***************************************************************************)
LoopStep ==
  \/ Signalled \/ ListDefs \/ ListFails \/ Removed \/ Added
  \/ \E e \in entries : RemoveEntry(e)
  \/ \E e \in loop.defs : AddEntry(e)

SpawnStep(c) == SpawnChild(c) \/ SpawnFails(c) \/ SpawnReleases(c)

SchedNext ==
  \/ CreateCron
  \/ \E d \in CronParents \cap DOMAIN tasks : SetTaskEnabled(d) \/ DeleteDef(d)
  \/ ResyncNow
  \/ Ticker \/ LoopStep \/ Stopping \/ Stop
  \/ \E e \in entries : Fire(e)
  \/ \E c \in spawns : SpawnStep(c)
  \/ Cancel \/ ServerRestart

SchedSafety == SchedInit /\ [][SchedNext]_schedVars

\* Goroutines run and the ticker keeps firing; select does not pass over the
\* end of ctx for ever, nor does the database refuse every single listing.
SchedFairness ==
  /\ WF_schedVars(Ticker)
  /\ WF_schedVars(LoopStep)
  /\ WF_schedVars(Stop)
  /\ SF_schedVars(Stopping)
  /\ SF_schedVars(ListDefs)
  /\ \A d \in 1 .. MaxId : WF_schedVars(\E c \in spawns : c.def.id = d /\ SpawnStep(c))

\* A server that is not restarted for ever.
SchedSpec == SchedSafety /\ SchedFairness /\ <>[][~ServerRestart]_schedVars

(***************************************************************************)
(* Properties.                                                             *)
(***************************************************************************)
SchedTypeOK ==
  /\ live \in BOOLEAN
  /\ loop.pc \in {"wait", "list", "remove", "add", "stopping", "stopped"}
  /\ loop.defs \subseteq [id : 1 .. MaxId, maxRetry : MaxRetries]
  /\ sig \in 0 .. 1
  /\ entries \subseteq [id : 1 .. MaxId, maxRetry : MaxRetries]
  /\ spawns \subseteq [def : [id : 1 .. MaxId, maxRetry : MaxRetries], pc : {"locked", "created"}]
  /\ handlers \in 0 .. MaxHandlers
  /\ missed \in BOOLEAN

\* No nudge is lost although the channel drops signals: once no handler and no
\* signal is pending and the loop waits, the engine holds every enabled
\* definition and no paused one, unless the last listing failed.
EntriesFollow ==
  (loop.pc = "wait" /\ sig = 0 /\ handlers = 0 /\ ~missed) =>
    /\ EnabledDefs \subseteq entries
    /\ \A e \in entries : e.id \in DOMAIN tasks => e.id \in ListCron

\* What the scheduler does to the store is what TaskStore lets a store's
\* callers do: children are one-shot, and their parent is or was a definition.
StoreSpec == Init /\ [][Next]_storeVars

\* A definition that stays paused or deleted stays away from the engine from
\* some moment on, and its last spawn ends, whichever nudge or listing fails, as
\* long as the server is not told to stop.  That the engine is empty for an
\* instant in every resync is not enough.
Unscheduled(d) == /\ \A e \in entries : e.id # d
                  /\ \A c \in spawns : c.def.id # d

PausedLeaves ==
  \A d \in 1 .. MaxId : <>[](live /\ d \notin ListCron) => <>[]Unscheduled(d)

\* An enabled definition gets its entry even when listings fail.
EnabledArrives ==
  \A d \in 1 .. MaxId : d \in ListCron ~>
    ((\E e \in entries : e.id = d) \/ d \notin ListCron \/ ~live)

\* Once its ctx is cancelled the scheduler stops, spawns in flight included.
SchedulerStops == ~live ~> (live \/ (loop.pc = "stopped" /\ spawns = {}))

(***************************************************************************)
(* What a comment says, and the code does not do.                          *)
(***************************************************************************)
\* store.go:168: pausing stops the in-flight children in its transaction, so
\* "no stale children execute after the parent is paused".
PausedHasNoLiveChildren ==
  \A d \in DOMAIN tasks : tasks[d].type = "cron" /\ ~tasks[d].enabled =>
    \A t \in Children(d) : tasks[t].status \notin Active

=============================================================================
