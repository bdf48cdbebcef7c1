------------------------------ MODULE WorkerPool ------------------------------
(***************************************************************************)
(* The worker processes of internal/worker/pool.go: one fetcher and a set  *)
(* of executor slots per process, the buffered jobs channel between them,  *)
(* and the active map through which the fetcher cancels running commands.  *)
(*                                                                         *)
(* A task in a process is the copy the server answered with.  Besides the  *)
(* id it carries a number telling the claims of one task apart; the code   *)
(* has no such number and no action here tests it.                         *)
(*                                                                         *)
(* The server's two halves of a pull (ServerClaims, ServerAnswers) and the *)
(* fate of a report are left to the module that composes this one.         *)
(***************************************************************************)
EXTENDS Naturals, Sequences, FiniteSets, WorkerIds

CONSTANTS
  Slots,      \* executor goroutines of a process
  Ids,        \* task ids
  Claims      \* claim numbers

ASSUME PoolConstants ==
  /\ IsFiniteSet(Slots)
  /\ 0 \notin Ids
  /\ Claims \subseteq Nat

VARIABLES
  life,       \* the process: "up", "draining" once ctx is cancelled, "down"
  fetch,      \* the fetcher, and the pull it waits for
  jobs,       \* the channel
  slots,      \* the executors
  active,     \* id -> the slot whose cancel function is registered
  reports     \* reports sent and not yet handled by the server

poolVars == <<life, fetch, jobs, slots, active, reports>>

Task   == [id : Ids, claim : Claims]
NoTask == [id |-> 0, claim |-> 0]

IdleFetch == [pc |-> "idle", task |-> NoTask, stops |-> {}]
IdleSlot  == [pc |-> "idle", task |-> NoTask, ctx |-> "live"]

JobsCap == 2 * Cardinality(Slots)

Busy == {"starting", "running", "reporting"}

PoolTypeOK ==
  /\ life \in [Workers -> {"up", "draining", "down"}]
  /\ fetch \in [Workers -> [pc    : {"idle", "pulling", "claimed", "answered",
                                     "sending", "closed"},
                            task  : Task \cup {NoTask},
                            stops : SUBSET Ids]]
  /\ \A w \in Workers : jobs[w] \in Seq(Task) /\ Len(jobs[w]) <= JobsCap
  /\ slots \in [Workers -> [Slots -> [pc   : Busy \cup {"idle", "exited"},
                                      task : Task \cup {NoTask},
                                      ctx  : {"live", "stopped", "expired", "shutdown"}]]]
  /\ \A w \in Workers : DOMAIN active[w] \subseteq Ids /\ \A i \in DOMAIN active[w] :
                                                            active[w][i] \in Slots
  /\ reports \subseteq [worker : Workers, task : Task, ok : BOOLEAN]

(***************************************************************************)
(* NewPool: the memory of a process that starts.                           *)
(***************************************************************************)
PoolInit ==
  /\ life = [w \in Workers |-> "up"]
  /\ fetch = [w \in Workers |-> IdleFetch]
  /\ jobs = [w \in Workers |-> <<>>]
  /\ slots = [w \in Workers |-> [s \in Slots |-> IdleSlot]]
  /\ active = [w \in Workers |-> <<>>]
  /\ reports = {}

ClearMemory(w) ==
  /\ fetch' = [fetch EXCEPT ![w] = IdleFetch]
  /\ jobs' = [jobs EXCEPT ![w] = <<>>]
  /\ slots' = [slots EXCEPT ![w] = [s \in Slots |-> IdleSlot]]
  /\ active' = [active EXCEPT ![w] = <<>>]

Without(f, i) == [j \in DOMAIN f \ {i} |-> f[j]]

(***************************************************************************)
(* The fetcher.                                                            *)
(***************************************************************************)
\* The ticker fires.  A pull under a cancelled ctx fails before it is sent.
Pull(w) ==
  /\ life[w] = "up"
  /\ fetch[w].pc = "idle"
  /\ fetch' = [fetch EXCEPT ![w].pc = "pulling"]
  /\ UNCHANGED <<life, jobs, slots, active, reports>>

\* handlePull up to the commit of ClaimPending.
ServerClaims(w, task) ==
  /\ fetch[w].pc = "pulling"
  /\ fetch' = [fetch EXCEPT ![w] = [@ EXCEPT !.pc = "claimed", !.task = task]]
  /\ UNCHANGED <<life, jobs, slots, active, reports>>

\* The rest of handlePull.
ServerAnswers(w, stops) ==
  /\ fetch[w].pc = "claimed"
  /\ fetch' = [fetch EXCEPT ![w] = [@ EXCEPT !.pc = "answered", !.stops = stops]]
  /\ UNCHANGED <<life, jobs, slots, active, reports>>

\* No answer, or not 200: what the server may have claimed never arrives.
PullFails(w) ==
  /\ fetch[w].pc \in {"pulling", "claimed"}
  /\ fetch' = [fetch EXCEPT ![w] = IdleFetch]
  /\ UNCHANGED <<life, jobs, slots, active, reports>>

\* One round of the loop over the stop list: cancelActive(i).
CancelActive(w, i) ==
  /\ fetch[w].pc = "answered"
  /\ i \in fetch[w].stops
  /\ fetch' = [fetch EXCEPT ![w].stops = @ \ {i}]
  /\ IF i \in DOMAIN active[w]
     THEN /\ active' = [active EXCEPT ![w] = Without(@, i)]
          /\ slots' = [slots EXCEPT ![w][active[w][i]].ctx =
                         IF @ = "live" THEN "stopped" ELSE @]
     ELSE UNCHANGED <<active, slots>>
  /\ UNCHANGED <<life, jobs, reports>>

StopListDone(w) ==
  /\ fetch[w].pc = "answered"
  /\ fetch[w].stops = {}
  /\ fetch' = [fetch EXCEPT ![w] = IF @.task = NoTask THEN IdleFetch
                                   ELSE [@ EXCEPT !.pc = "sending"]]
  /\ UNCHANGED <<life, jobs, slots, active, reports>>

\* Mutants: a channel without a bound; a send that is repeated.
EnqueueUnbounded(w) ==
  /\ fetch[w].pc = "sending"
  /\ Len(jobs[w]) < JobsCap + 1
  /\ jobs' = [jobs EXCEPT ![w] = Append(@, fetch[w].task)]
  /\ fetch' = [fetch EXCEPT ![w] = IdleFetch]
  /\ UNCHANGED <<life, slots, active, reports>>

EnqueueAgain(w) ==
  /\ fetch[w].pc = "sending"
  /\ Len(jobs[w]) < JobsCap
  /\ jobs' = [jobs EXCEPT ![w] = Append(@, fetch[w].task)]
  /\ UNCHANGED <<life, fetch, slots, active, reports>>

\* The channel send blocks while the buffer is full.
Enqueue(w) ==
  /\ fetch[w].pc = "sending"
  /\ Len(jobs[w]) < JobsCap
  /\ jobs' = [jobs EXCEPT ![w] = Append(@, fetch[w].task)]
  /\ fetch' = [fetch EXCEPT ![w] = IdleFetch]
  /\ UNCHANGED <<life, slots, active, reports>>

AbandonSend(w) ==
  /\ fetch[w].pc = "sending"
  /\ life[w] = "draining"
  /\ fetch' = [fetch EXCEPT ![w] = IdleFetch]
  /\ UNCHANGED <<life, jobs, slots, active, reports>>

CloseJobs(w) ==
  /\ life[w] = "draining"
  /\ fetch[w].pc = "idle"
  /\ fetch' = [fetch EXCEPT ![w].pc = "closed"]
  /\ UNCHANGED <<life, jobs, slots, active, reports>>

(***************************************************************************)
(* An executor.  Its select may take a job although ctx is cancelled.      *)
(***************************************************************************)
Take(w, s) ==
  /\ life[w] # "down"
  /\ slots[w][s].pc = "idle"
  /\ jobs[w] # <<>>
  /\ jobs' = [jobs EXCEPT ![w] = Tail(@)]
  /\ slots' = [slots EXCEPT ![w][s] =
                 [pc |-> "starting", task |-> Head(jobs[w]),
                  ctx |-> IF life[w] = "up" THEN "live" ELSE "shutdown"]]
  /\ UNCHANGED <<life, fetch, active, reports>>

\* registerActive: replaces the entry of an earlier run of the same id.
Register(w, s) ==
  /\ slots[w][s].pc = "starting"
  /\ slots' = [slots EXCEPT ![w][s].pc = "running"]
  /\ active' = [active EXCEPT ![w] =
                  [i \in DOMAIN @ \cup {slots[w][s].task.id} |->
                     IF i = slots[w][s].task.id THEN s ELSE @[i]]]
  /\ UNCHANGED <<life, fetch, jobs, reports>>

\* taskTimeout: every run has a deadline, five minutes when the task sets none.
Expire(w, s) ==
  /\ slots[w][s].pc = "running"
  /\ slots[w][s].ctx = "live"
  /\ slots' = [slots EXCEPT ![w][s].ctx = "expired"]
  /\ UNCHANGED <<life, fetch, jobs, active, reports>>

\* Mutant: only successes are reported.
FinishSilently(w, s, ok) ==
  /\ slots[w][s].pc = "running"
  /\ slots' = [slots EXCEPT ![w][s].pc = "reporting"]
  /\ reports' = IF ok /\ slots[w][s].ctx = "live"
                THEN reports \cup {[worker |-> w, task |-> slots[w][s].task, ok |-> ok]}
                ELSE reports
  /\ UNCHANGED <<life, fetch, jobs, active>>

\* exec returns and report is called with the run's own ctx: once that is done,
\* client.Do returns its error and nothing is sent.
Finish(w, s, ok) ==
  /\ slots[w][s].pc = "running"
  /\ slots' = [slots EXCEPT ![w][s].pc = "reporting"]
  /\ reports' = IF slots[w][s].ctx = "live"
                THEN reports \cup {[worker |-> w, task |-> slots[w][s].task, ok |-> ok]}
                ELSE reports
  /\ UNCHANGED <<life, fetch, jobs, active>>

\* Mutant: the deferred unregisterActive is missing.
EndRunRegistered(w, s) ==
  /\ slots[w][s].pc = "reporting"
  /\ slots' = [slots EXCEPT ![w][s] = IdleSlot]
  /\ UNCHANGED <<life, fetch, jobs, active, reports>>

\* report returns, answered or not, and unregisterActive deletes the id.
EndRun(w, s) ==
  /\ slots[w][s].pc = "reporting"
  /\ slots' = [slots EXCEPT ![w][s] = IdleSlot]
  /\ active' = [active EXCEPT ![w] = Without(@, slots[w][s].task.id)]
  /\ UNCHANGED <<life, fetch, jobs, reports>>

ExitSlot(w, s) ==
  /\ life[w] = "draining"
  /\ slots[w][s].pc = "idle"
  /\ slots' = [slots EXCEPT ![w][s].pc = "exited"]
  /\ UNCHANGED <<life, fetch, jobs, active, reports>>

(***************************************************************************)
(* The process.                                                            *)
(***************************************************************************)
\* Mutant: the runs' contexts do not derive from the process's.
SigtermDetached(w) ==
  /\ life[w] = "up"
  /\ life' = [life EXCEPT ![w] = "draining"]
  /\ UNCHANGED <<fetch, jobs, slots, active, reports>>

\* SIGINT or SIGTERM: every ctx derived from the process's is done at once.
Sigterm(w) ==
  /\ life[w] = "up"
  /\ life' = [life EXCEPT ![w] = "draining"]
  /\ slots' = [slots EXCEPT ![w] =
                 [s \in Slots |-> IF @[s].pc \in Busy /\ @[s].ctx = "live"
                                  THEN [@[s] EXCEPT !.ctx = "shutdown"]
                                  ELSE @[s]]]
  /\ UNCHANGED <<fetch, jobs, active, reports>>

\* Start has heard from every executor and main returns.
ProcessExit(w) ==
  /\ life[w] = "draining"
  /\ \A s \in Slots : slots[w][s].pc = "exited"
  /\ life' = [life EXCEPT ![w] = "down"]
  /\ ClearMemory(w)
  /\ UNCHANGED reports

Crash(w) ==
  /\ life[w] # "down"
  /\ life' = [life EXCEPT ![w] = "down"]
  /\ ClearMemory(w)
  /\ UNCHANGED reports

Boot(w) ==
  /\ life[w] = "down"
  /\ life' = [life EXCEPT ![w] = "up"]
  /\ UNCHANGED <<fetch, jobs, slots, active, reports>>

(***************************************************************************)
(* The pool's own steps, and the pool under a server that may answer a     *)
(* pull with any task and any stop list.                                   *)
(***************************************************************************)
FetcherStep(w) ==
  \/ Pull(w)
  \/ \E i \in Ids : CancelActive(w, i)
  \/ StopListDone(w)
  \/ Enqueue(w)
  \/ AbandonSend(w)
  \/ CloseJobs(w)

ExecutorStep(w, s) ==
  \/ Take(w, s)
  \/ Register(w, s)
  \/ \E ok \in BOOLEAN : Finish(w, s, ok)
  \/ EndRun(w, s)
  \/ ExitSlot(w, s)

ProcessStep(w) == Sigterm(w) \/ ProcessExit(w) \/ Crash(w) \/ Boot(w)

AnyServer(w) ==
  \/ \E task \in Task \cup {NoTask} : ServerClaims(w, task)
  \/ \E stops \in SUBSET Ids : ServerAnswers(w, stops)
  \/ PullFails(w)

ReportGone(m) ==
  /\ m \in reports
  /\ reports' = reports \ {m}
  /\ UNCHANGED <<life, fetch, jobs, slots, active>>

PoolNext ==
  \/ \E w \in Workers :
       \/ FetcherStep(w)
       \/ \E s \in Slots : ExecutorStep(w, s) \/ Expire(w, s)
       \/ ProcessStep(w)
       \/ AnyServer(w)
  \/ \E m \in reports : ReportGone(m)

\* Goroutines run when they can.  Nothing is said of commands: one may run for
\* ever, and even when its ctx is done its end is not certain.
PoolFairness ==
  \A w \in Workers :
    /\ WF_poolVars(FetcherStep(w))
    /\ WF_poolVars(ProcessExit(w))
    /\ \A s \in Slots :
         WF_poolVars(Take(w, s) \/ Register(w, s) \/ EndRun(w, s) \/ ExitSlot(w, s))

PoolSpec == PoolInit /\ [][PoolNext]_poolVars /\ PoolFairness

(***************************************************************************)
(* Properties.                                                             *)
(***************************************************************************)
\* An entry of the active map is a run of its id that is in a slot and has not
\* been cancelled by a stop list, so cancelActive never cancels the run of
\* another task, and no entry outlives the runs of its id.  The converse fails:
\* the end of an earlier run takes the entry of a later one away.
ActiveIsLive ==
  \A w \in Workers : \A i \in DOMAIN active[w] :
    LET slot == slots[w][active[w][i]]
    IN  slot.pc \in {"running", "reporting"} /\ slot.task.id = i /\ slot.ctx # "stopped"

\* CommandContext kills /bin/sh when the ctx is done, and cmd.Run then waits
\* until every process the shell has left behind has closed the output: no
\* WaitDelay is set and the shell has no process group of its own.
Killed(w, s) == slots[w][s].ctx # "live" /\ \E ok \in BOOLEAN : Finish(w, s, ok)

\* Hypothesis: no process outlives its killed shell holding the output for ever.
KillsEnd == \A w \in Workers, s \in Slots : WF_poolVars(Killed(w, s))

\* A process told to stop does stop, whatever its slots, its queue and its
\* fetcher are doing and though no command would end by itself, unless what a
\* killed shell has left behind holds the output for ever: neither a fetcher
\* blocked on a full channel, nor a pull under way, nor a job taken after the
\* signal, nor a report keeps Start from returning.
ShutdownEnds ==
  KillsEnd => \A w \in Workers : (life[w] = "draining") ~> (life[w] # "draining")

=============================================================================
