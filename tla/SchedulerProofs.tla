--------------------------- MODULE SchedulerProofs ----------------------------
(***************************************************************************)
(* Proofs about Scheduler: its types, that the engine follows the          *)
(* definitions, and that what the scheduler and the handlers do to the     *)
(* store is a behaviour of TaskStore, for every set of definitions and any *)
(* number of handlers, firings and restarts.                               *)
(*                                                                         *)
(* Two facts carry the proof.  A definition the loop, the engine or a      *)
(* firing once read is, or was, a definition: ids are never reissued and   *)
(* no operation changes the type of a row.  And while a resync is under    *)
(* way the engine is compared with what it is about to hold (Target), not  *)
(* with what it holds.                                                     *)
(***************************************************************************)
EXTENDS Scheduler, TaskStoreProofs

\* What the loop and the engine may know of a definition.
Known == [id : CronParents, maxRetry : MaxRetries]

LoopState == [pc   : {"wait", "list", "remove", "add", "stopping", "stopped"},
              defs : SUBSET Known]

SchedShapes ==
  /\ live \in BOOLEAN
  /\ loop \in LoopState
  /\ sig \in 0 .. 1
  /\ entries \subseteq Known
  /\ spawns \subseteq [def : Known, pc : {"locked", "created"}]
  /\ handlers \in 0 .. MaxHandlers
  /\ missed \in BOOLEAN

\* The entries the engine has once the resync under way is over.
Target == IF loop.pc = "remove" THEN loop.defs
          ELSE IF loop.pc = "add" THEN entries \cup loop.defs
          ELSE entries

\* No nudge is on its way that would make the loop list again.
Settled == loop.pc \in {"remove", "add", "wait"} /\ sig = 0 /\ handlers = 0 /\ ~missed

Current(defs) == /\ EnabledDefs \subseteq defs
                 /\ \A e \in defs : e.id \in DOMAIN tasks => e.id \in ListCron

IdsIssued == nextId <= MaxId + 1

SchedInv == StoreInv /\ IdsIssued /\ SchedShapes /\ (Settled => Current(Target))

LEMMA FreshLoop == [pc |-> "list", defs |-> {}] \in LoopState
BY DEF LoopState

LEMMA SchedInvMeaning ==
  SchedInv => SchedTypeOK /\ EntriesFollow
<1> SUFFICES ASSUME SchedInv PROVE SchedTypeOK /\ EntriesFollow
  OBVIOUS
<1>1. CronParents \subseteq 1 .. MaxId
  BY StoreConstants DEF SchedInv, StoreInv, IdsIssued, CronParents
<1>2. Known \subseteq [id : 1 .. MaxId, maxRetry : MaxRetries]
  BY <1>1 DEF Known
<1>3. SchedTypeOK
  BY <1>2 DEF SchedInv, SchedShapes, LoopState, SchedTypeOK
<1>4. EntriesFollow
  BY DEF SchedInv, Settled, Target, Current, EntriesFollow
<1> QED
  BY <1>3, <1>4

(***************************************************************************)
(* What the steps of the scheduler do to the store.                        *)
(***************************************************************************)
\* The steps that no handler announces: a firing's child, a deletion.
Unannounced ==
  \/ \E m \in MaxRetries, d \in CronParents : Create("once", m, d)
  \/ \E d \in DOMAIN tasks : Delete(d)
  \/ UNCHANGED storeVars

Announced ==
  \/ \E m \in MaxRetries : Create("cron", m, 0)
  \/ \E d \in DOMAIN tasks, on \in BOOLEAN : SetEnabled(d, on)

LEMMA MoveIsStoreStep ==
  ASSUME Unannounced \/ Announced
  PROVE  [Next]_storeVars
<1>1. CASE \E m \in MaxRetries, d \in CronParents : Create("once", m, d)
  BY <1>1 DEF Next, SchedulerStep
<1>2. CASE \E d \in DOMAIN tasks : Delete(d)
  BY <1>2 DEF Next, UserStep
<1>3. CASE \E m \in MaxRetries : Create("cron", m, 0)
  BY <1>3 DEF Next, UserStep
<1>4. CASE \E d \in DOMAIN tasks, on \in BOOLEAN : SetEnabled(d, on)
  <2>1. PICK d \in DOMAIN tasks : SetEnabled(d, TRUE) \/ SetEnabled(d, FALSE)
    BY <1>4
  <2> QED
    BY <2>1 DEF Next, UserStep
<1> QED
  BY <1>1, <1>2, <1>3, <1>4 DEF Unannounced, Announced

\* A definition stays known, and no more ids are issued than MaxId.
LEMMA KnownGrows ==
  ASSUME StoreInv, IdsIssued, Unannounced \/ Announced
  PROVE  IdsIssued' /\ CronParents \subseteq CronParents' /\ Known \subseteq Known'
<1>1. nextId \in Nat /\ MaxId \in Nat /\ DOMAIN tasks \subseteq 1 .. (nextId - 1)
  BY StoreConstants DEF StoreInv
<1>2. nextId' \in Nat /\ nextId <= nextId' /\ IdsIssued'
  <2>1. nextId' = nextId \/ (nextId <= MaxId /\ nextId' = nextId + 1)
    BY DEF Unannounced, Announced, storeVars, Create, Delete, SetEnabled
  <2> QED
    BY <1>1, <2>1 DEF IdsIssued
<1>3. ASSUME NEW d \in CronParents, d \in DOMAIN tasks'
      PROVE  d \in DOMAIN tasks /\ tasks'[d].type = tasks[d].type
  <2>1. d # nextId
    BY <1>1 DEF CronParents
  <2>2. CASE \E type, m, p : Create(type, m, p)
    BY <1>3, <2>1, <2>2 DEF Create
  <2>3. CASE \E x : Delete(x)
    BY <1>3, <2>3 DEF Delete
  <2>4. CASE \E x, on : SetEnabled(x, on)
    <3>1. d \in DOMAIN tasks /\ tasks[d] \in Row
      BY <1>3, <2>4 DEF SetEnabled, StoreInv, Good
    <3>2. PICK x, on : SetEnabled(x, on)
      BY <2>4
    <3>3. \/ tasks'[d] = tasks[d]
          \/ tasks'[d] = [tasks[d] EXCEPT !.enabled = on]
          \/ tasks'[d] = [tasks[d] EXCEPT !.status = "stopped"]
      BY <3>1, <3>2 DEF SetEnabled, Stopped
    <3> QED
      BY <3>1, <3>3 DEF Row
  <2>5. CASE UNCHANGED storeVars
    BY <1>3, <2>5 DEF storeVars
  <2> QED
    BY <2>2, <2>3, <2>4, <2>5 DEF Unannounced, Announced
<1>4. CronParents \subseteq CronParents'
  BY <1>1, <1>2, <1>3 DEF CronParents
<1> QED
  BY <1>2, <1>4 DEF Known

\* A step that nobody announces leaves what was current, current.
LEMMA StaysCurrent ==
  ASSUME StoreInv, Unannounced, NEW defs, defs \subseteq Known, Current(defs)
  PROVE  Current(defs)'
<1>1. ASSUME NEW d \in ListCron'
      PROVE  d \in ListCron /\ tasks'[d] = tasks[d]
  <2>1. CASE \E m \in MaxRetries, p \in CronParents : Create("once", m, p)
    BY <1>1, <2>1 DEF Create, NewRow, ListCron
  <2>2. CASE \E x \in DOMAIN tasks : Delete(x)
    BY <1>1, <2>2 DEF Delete, ListCron
  <2>3. CASE UNCHANGED storeVars
    BY <1>1, <2>3 DEF storeVars, ListCron
  <2> QED
    BY <2>1, <2>2, <2>3 DEF Unannounced
<1>2. EnabledDefs' \subseteq EnabledDefs
  BY <1>1 DEF EnabledDefs, Def
<1>3. ASSUME NEW e \in defs, e.id \in DOMAIN tasks'
      PROVE  e.id \in ListCron'
  <2>1. e.id \in CronParents /\ e.id # nextId
    BY DEF Known, CronParents, StoreInv
  <2>2. e.id \in DOMAIN tasks /\ tasks'[e.id] = tasks[e.id]
    <3>1. CASE \E m \in MaxRetries, p \in CronParents : Create("once", m, p)
      BY <1>3, <2>1, <3>1 DEF Create
    <3>2. CASE \E x \in DOMAIN tasks : Delete(x)
      BY <1>3, <3>2 DEF Delete
    <3>3. CASE UNCHANGED storeVars
      BY <1>3, <3>3 DEF storeVars
    <3> QED
      BY <3>1, <3>2, <3>3 DEF Unannounced
  <2> QED
    BY <1>3, <2>2 DEF Current, ListCron
<1> QED
  BY <1>2, <1>3 DEF Current

(***************************************************************************)
(* Steps that leave the store alone.                                       *)
(***************************************************************************)
LEMMA StoreKept ==
  ASSUME SchedInv, UNCHANGED storeVars
  PROVE  /\ StoreInv' /\ IdsIssued' /\ Known' = Known
         /\ EnabledDefs' = EnabledDefs /\ ListCron' = ListCron
         /\ \A defs : Current(defs)' = Current(defs)
<1>1. StoreInv' /\ IdsIssued'
  BY DEF SchedInv, StoreInv, Good, storeVars, IdsIssued
<1>2. CronParents' = CronParents /\ ListCron' = ListCron /\ EnabledDefs' = EnabledDefs
  BY DEF storeVars, CronParents, ListCron, EnabledDefs, Def
<1> QED
  BY <1>1, <1>2 DEF Known, Current, storeVars

LEMMA LoopSafe ==
  ASSUME SchedInv,
         Ticker \/ Signalled \/ ListDefs \/ ListFails \/ Removed \/ Added \/ Stopping \/ Stop
  PROVE  UNCHANGED storeVars /\ SchedInv'
<1>1. UNCHANGED storeVars
  BY DEF Ticker, Signalled, ListDefs, ListFails, Removed, Added, Stopping, Stop
<1>2. /\ StoreInv' /\ IdsIssued' /\ Known' = Known
      /\ EnabledDefs' = EnabledDefs /\ ListCron' = ListCron
  BY <1>1, StoreKept
<1>3. loop = [pc |-> loop.pc, defs |-> loop.defs] /\ SchedShapes
  BY DEF SchedInv, SchedShapes, LoopState
<1>4. EnabledDefs \subseteq Known
  BY DEF SchedInv, StoreInv, Good, Row, EnabledDefs, Def, ListCron, Known, CronParents
<1>5. SchedShapes'
  <2>1. LoopState' = LoopState
    BY <1>2 DEF LoopState
  <2>2. loop' \in LoopState
    <3>1. CASE ListDefs
      BY <1>4, <3>1 DEF LoopState, ListDefs
    <3>2. CASE ~ListDefs
      BY <1>3, <3>2 DEF SchedShapes, LoopState, Step, Ticker, Signalled, ListFails,
                        Removed, Added, Stopping, Stop
    <3> QED
      BY <3>1, <3>2
  <2>3. UNCHANGED <<live, entries, spawns, handlers>>
    BY DEF Ticker, Signalled, ListDefs, ListFails, Removed, Added, Stopping, Stop
  <2>4. sig' = sig \/ sig' = 0
    BY DEF Ticker, Signalled, ListDefs, ListFails, Removed, Added, Stopping, Stop
  <2>5. sig' \in 0 .. 1
    BY <1>3, <2>4 DEF SchedShapes
  <2>6. missed' \in BOOLEAN
    <3>1. missed \in BOOLEAN
      BY <1>3 DEF SchedShapes
    <3> QED
      BY <3>1 DEF Ticker, Signalled, ListDefs, ListFails, Removed, Added, Stopping, Stop
  <2> QED
    BY <1>2, <1>3, <2>1, <2>2, <2>3, <2>5, <2>6 DEF SchedShapes
<1>6. ASSUME Settled' PROVE Current(Target)'
  <2>1. CASE ListDefs
    <3>1. Target' = EnabledDefs
      BY <2>1 DEF ListDefs, Target
    <3>2. Current(EnabledDefs)
      BY DEF Current, EnabledDefs, Def
    <3> QED
      BY <1>1, <1>2, <3>1, <3>2 DEF Current, storeVars
  <2>2. CASE Removed \/ Added
    <3>1. Target' = Target /\ Settled
      BY <1>3, <1>6, <2>2 DEF Removed, Added, Step, Target, Settled
    <3> QED
      BY <1>1, <1>2, <3>1 DEF SchedInv, Current, storeVars
  <2>3. CASE Ticker \/ Signalled \/ ListFails \/ Stopping \/ Stop
    BY <1>3, <1>6, <2>3 DEF Ticker, Signalled, ListFails, Stopping, Stop, Step, Settled
  <2> QED
    BY <2>1, <2>2, <2>3
<1> QED
  BY <1>1, <1>2, <1>5, <1>6 DEF SchedInv

LEMMA EntrySafe ==
  ASSUME SchedInv,
         \/ \E e \in entries : RemoveEntry(e) \/ Fire(e)
         \/ \E e \in loop.defs : AddEntry(e)
  PROVE  UNCHANGED storeVars /\ SchedInv'
<1>1. UNCHANGED storeVars
  BY DEF RemoveEntry, Fire, AddEntry
<1>2. /\ StoreInv' /\ IdsIssued' /\ Known' = Known
      /\ EnabledDefs' = EnabledDefs /\ ListCron' = ListCron
  BY <1>1, StoreKept
<1>3. loop = [pc |-> loop.pc, defs |-> loop.defs] /\ SchedShapes
  BY DEF SchedInv, SchedShapes, LoopState
<1>4. SchedShapes' /\ (Settled' => Settled) /\ (Settled => Target' = Target)
  <2>1. CASE \E e \in entries : RemoveEntry(e)
    BY <1>2, <1>3, <2>1 DEF SchedShapes, LoopState, RemoveEntry, Target, Settled
  <2>2. CASE \E e \in entries : Fire(e)
    BY <1>2, <1>3, <2>2 DEF SchedShapes, LoopState, Fire, Target, Settled
  <2>3. CASE \E e \in loop.defs : AddEntry(e)
    <3>1. PICK e \in loop.defs : AddEntry(e)
      BY <2>3
    <3>2. loop' = [pc |-> loop.pc, defs |-> loop.defs \ {e}] /\ loop.pc = "add"
      BY <1>3, <3>1 DEF AddEntry
    <3> QED
      BY <1>2, <1>3, <3>1, <3>2 DEF SchedShapes, LoopState, AddEntry, Target, Settled
  <2> QED
    BY <2>1, <2>2, <2>3
<1>5. Settled' => Current(Target)'
  BY <1>1, <1>2, <1>4 DEF SchedInv, Current, storeVars
<1> QED
  BY <1>1, <1>2, <1>4, <1>5 DEF SchedInv

LEMMA OutsideSafe ==
  ASSUME SchedInv,
         \/ ResyncNow \/ Cancel \/ ServerRestart
         \/ \E c \in spawns : SpawnFails(c) \/ SpawnReleases(c)
         \/ UNCHANGED schedVars
  PROVE  UNCHANGED storeVars /\ SchedInv'
<1>1. UNCHANGED storeVars
  BY DEF ResyncNow, Cancel, ServerRestart, SpawnFails, SpawnReleases, schedVars
<1>2. /\ StoreInv' /\ IdsIssued' /\ Known' = Known
      /\ EnabledDefs' = EnabledDefs /\ ListCron' = ListCron
  BY <1>1, StoreKept
<1>3. SchedShapes /\ MaxHandlers \in Nat
  BY SchedulerConstants DEF SchedInv
<1>4. SchedShapes' /\ (Settled' => Settled /\ Target' = Target)
  <2>1. CASE ResyncNow
    BY <1>2, <1>3, <2>1 DEF SchedShapes, LoopState, ResyncNow, Settled
  <2>2. CASE Cancel
    BY <1>2, <1>3, <2>2 DEF SchedShapes, LoopState, Cancel, Settled, Target
  <2>3. CASE ServerRestart
    <3>1. LoopState' = LoopState
      BY <1>2 DEF LoopState
    <3>2. /\ loop' \in LoopState /\ loop'.pc = "list" /\ sig' = 0
          /\ entries' = {} /\ spawns' = {} /\ handlers' = 0
          /\ live' \in BOOLEAN /\ missed' \in BOOLEAN
      BY <2>3, FreshLoop DEF ServerRestart
    <3>3. SchedShapes'
      BY <1>3, <3>1, <3>2 DEF SchedShapes
    <3> QED
      BY <3>2, <3>3 DEF Settled
  <2>4. CASE \E c \in spawns : SpawnFails(c) \/ SpawnReleases(c)
    BY <1>2, <1>3, <2>4 DEF SchedShapes, LoopState, SpawnFails, SpawnReleases, Goes, Settled, Target
  <2>5. CASE UNCHANGED schedVars
    BY <1>2, <1>3, <2>5 DEF SchedShapes, LoopState, schedVars, engineVars, Settled, Target
  <2> QED
    BY <2>1, <2>2, <2>3, <2>4, <2>5
<1>5. Settled' => Current(Target)'
  BY <1>1, <1>2, <1>4 DEF SchedInv, Current, storeVars
<1> QED
  BY <1>1, <1>2, <1>4, <1>5 DEF SchedInv

(***************************************************************************)
(* Steps that write the store.                                             *)
(***************************************************************************)
LEMMA HandlerSafe ==
  ASSUME SchedInv,
         CreateCron \/ \E d \in CronParents \cap DOMAIN tasks : SetTaskEnabled(d)
  PROVE  Announced /\ SchedInv'
<1>1. Announced /\ Committed
  BY DEF CreateCron, SetTaskEnabled, Announced
<1>2. StoreInv'
  BY <1>1, StoreConstants, MoveIsStoreStep, StepSafe DEF SchedInv, Safe
<1>3. IdsIssued' /\ Known \subseteq Known'
  BY <1>1, KnownGrows DEF SchedInv
<1>4. SchedShapes' /\ ~Settled'
  BY <1>1, <1>3, SchedulerConstants DEF Committed, SchedInv, SchedShapes, LoopState, Settled
<1> QED
  BY <1>1, <1>2, <1>3, <1>4 DEF SchedInv

LEMMA SilentSafe ==
  ASSUME SchedInv,
         \/ \E d \in CronParents \cap DOMAIN tasks : DeleteDef(d)
         \/ \E c \in spawns : SpawnChild(c)
  PROVE  Unannounced /\ SchedInv'
<1>1. \A c \in spawns : c = [def |-> c.def, pc |-> c.pc] /\ c.def \in Known
  BY DEF SchedInv, SchedShapes
<1>2. Unannounced
  BY <1>1 DEF DeleteDef, SpawnChild, Unannounced, Known
<1>3. StoreInv'
  BY <1>2, StoreConstants, MoveIsStoreStep, StepSafe DEF SchedInv, Safe
<1>4. IdsIssued' /\ Known \subseteq Known'
  BY <1>2, KnownGrows DEF SchedInv
<1>5. UNCHANGED <<live, loop, sig, entries, handlers, missed>>
  BY DEF DeleteDef, SpawnChild, engineVars
<1>6. spawns' \subseteq [def : Known, pc : {"locked", "created"}]
  BY <1>1 DEF DeleteDef, SpawnChild, Goes, engineVars, SchedInv, SchedShapes
<1>7. SchedShapes'
  BY <1>4, <1>5, <1>6 DEF SchedInv, SchedShapes, LoopState
<1>8. ASSUME Settled' PROVE Current(Target)'
  <2>1. Target' = Target /\ Settled
    BY <1>5, <1>8 DEF Target, Settled
  <2>2. Target \subseteq Known
    BY DEF Target, SchedInv, SchedShapes, LoopState
  <2>3. Current(Target)
    BY <2>1 DEF SchedInv
  <2> QED
    BY <1>2, <2>1, <2>2, <2>3, StaysCurrent DEF SchedInv
<1> QED
  BY <1>2, <1>3, <1>4, <1>7, <1>8 DEF SchedInv

(***************************************************************************)
(* The step, and the theorems.                                             *)
(***************************************************************************)
LEMMA InitSched == SchedInit => SchedInv
<1> SUFFICES ASSUME SchedInit PROVE SchedInv
  OBVIOUS
<1>1. StoreInv
  BY InitSafe DEF SchedInit
<1>2. IdsIssued
  BY StoreConstants DEF SchedInit, Init, IdsIssued
<1>3. SchedShapes /\ ~Settled
  <2>1. /\ loop \in LoopState /\ loop.pc = "list" /\ sig = 0
        /\ entries = {} /\ spawns = {} /\ handlers = 0
        /\ live \in BOOLEAN /\ missed \in BOOLEAN
    BY FreshLoop DEF SchedInit
  <2>2. MaxHandlers \in Nat
    BY SchedulerConstants
  <2> QED
    BY <2>1, <2>2 DEF SchedShapes, Settled
<1> QED
  BY <1>1, <1>2, <1>3 DEF SchedInv

LEMMA StepSched ==
  ASSUME SchedInv, [SchedNext]_schedVars
  PROVE  SchedInv' /\ [Next]_storeVars
<1>1. CASE CreateCron \/ \E d \in CronParents \cap DOMAIN tasks : SetTaskEnabled(d)
  BY <1>1, HandlerSafe, MoveIsStoreStep
<1>2. CASE \/ \E d \in CronParents \cap DOMAIN tasks : DeleteDef(d)
           \/ \E c \in spawns : SpawnChild(c)
  BY <1>2, SilentSafe, MoveIsStoreStep
<1>3. CASE Ticker \/ Signalled \/ ListDefs \/ ListFails \/ Removed \/ Added \/ Stopping \/ Stop
  BY <1>3, LoopSafe
<1>4. CASE \/ \E e \in entries : RemoveEntry(e) \/ Fire(e)
           \/ \E e \in loop.defs : AddEntry(e)
  BY <1>4, EntrySafe
<1>5. CASE \/ ResyncNow \/ Cancel \/ ServerRestart
           \/ \E c \in spawns : SpawnFails(c) \/ SpawnReleases(c)
           \/ UNCHANGED schedVars
  BY <1>5, OutsideSafe
<1> QED
  BY <1>1, <1>2, <1>3, <1>4, <1>5 DEF SchedNext, LoopStep, SpawnStep

LEMMA SchedInvariant == SchedSafety => []SchedInv
<1>1. SchedInv /\ [SchedNext]_schedVars => SchedInv'
  BY StepSched
<1> QED
  BY <1>1, InitSched, PTL DEF SchedSafety

\* The loop, the channel, the engine and the firings stay within their types,
\* and an entry always names an id that was issued.
THEOREM SchedTypeCorrect == SchedSafety => []SchedTypeOK
BY SchedInvariant, SchedInvMeaning, PTL

\* ResyncNow drops a signal when one is queued, and still no change of a
\* definition is lost: when nothing is pending the engine holds exactly the
\* enabled definitions, however handlers, firings and the loop interleave.
THEOREM EntriesFollowHolds == SchedSafety => []EntriesFollow
BY SchedInvariant, SchedInvMeaning, PTL

\* The scheduler and its handlers use the store as TaskStore says its callers
\* do, so every theorem of TaskStoreProofs holds of the store under them.
THEOREM SchedulerImplementsStore == SchedSafety => StoreSpec
<1>1. SchedInit => Init
  BY DEF SchedInit
<1>2. SchedInv /\ [SchedNext]_schedVars => [Next]_storeVars
  BY StepSched
<1> QED
  BY <1>1, <1>2, SchedInvariant, PTL DEF SchedSafety, StoreSpec
=============================================================================
