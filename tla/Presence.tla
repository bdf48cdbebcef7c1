------------------------------ MODULE Presence ------------------------------
(***************************************************************************)
(* How a worker comes to be shown as live: the heartbeat goroutine of each *)
(* pool, the limiter its request passes, handleWorkerHeartbeat, and the    *)
(* registry that the dashboard's List reads and prunes.                    *)
(*                                                                         *)
(* Heartbeat and List both read the clock BEFORE they take the registry's  *)
(* lock, so each is two steps; the client gives up on a request after 10   *)
(* seconds while its handler goes on, so one worker can have two in hand.  *)
(* Instants are kept as ages in ticks.                                     *)
(***************************************************************************)
EXTENDS RateLimiter

CONSTANTS
  Workers,     \* worker ids
  Handlers,    \* bound: handlers of the server busy with heartbeats
  Address,     \* worker -> the client address it calls from
  Stale,       \* workerStaleAfter, in ticks
  Delay        \* bound: ticks a request, a handler or List takes

ASSUME PresenceConstants ==
  /\ Address \in [Workers -> Clients]
  /\ Delay \in Nat
  /\ Stale \in Nat

VARIABLES
  beating,     \* workers whose pool is up (Pool.Start's heartbeat goroutine)
  waiting,     \* those of them blocked in client.Do
  handler,     \* busy handler -> the worker it serves, its stage, ticks in it
  entries,     \* registry: worker -> age of its LastHeartbeat
  listing,     \* the age of List's cutoff, or Idle
  shown,       \* what the List calls of this tick returned
  sent,        \* history: age of the worker's latest POST; saturates
  heard        \* history: age of its newest stored stamp; saturates

registryVars == <<beating, waiting, handler, entries, listing, shown, sent, heard>>
presenceVars == <<limiterVars, registryVars>>

Idle == -1

Old == Stale + 2 * Delay + 1     \* no property looks further back

Older(age) == Least(Old, age + 1)

PresenceTypeOK ==
  /\ LimiterTypeOK
  /\ beating \subseteq Workers
  /\ waiting \subseteq beating
  /\ DOMAIN handler \subseteq Handlers
  /\ handler \in [DOMAIN handler ->
                   [worker : Workers, stage : {"sent", "stamped"}, age : 0 .. Delay]]
  /\ DOMAIN entries \subseteq Workers
  /\ entries \in [DOMAIN entries -> 0 .. Old]
  /\ listing \in Idle .. Delay
  /\ shown \subseteq Workers
  /\ sent \in [Workers -> 0 .. Old]
  /\ heard \in [Workers -> 0 .. Old]

PresenceInit ==
  /\ LimiterInit
  /\ beating = Workers
  /\ waiting = {}
  /\ handler = [h \in {} |-> Idle]
  /\ entries = [w \in {} |-> 0]
  /\ listing = Idle
  /\ shown = {}
  /\ sent = [w \in Workers |-> Old]
  /\ heard = [w \in Workers |-> Old]

(***************************************************************************)
(* The worker.                                                             *)
(***************************************************************************)

Done(h) == [x \in DOMAIN handler \ {h} |-> handler[x]]

\* heartbeat(): the next tick of its ticker is due and the last call is over.
Post(w) ==
  /\ w \in beating \ waiting
  /\ \E h \in Handlers \ DOMAIN handler :
       handler' = With(handler, h, [worker |-> w, stage |-> "sent", age |-> 0])
  /\ waiting' = waiting \cup {w}
  /\ sent' = [sent EXCEPT ![w] = 0]
  /\ UNCHANGED <<limiterVars, beating, entries, listing, shown, heard>>

\* The call returns: answered, refused, failed or timed out, it is all the same
\* to the goroutine, which waits for its next tick.
Return(w) ==
  /\ w \in waiting
  /\ waiting' = waiting \ {w}
  /\ UNCHANGED <<limiterVars, beating, handler, entries, listing, shown, sent, heard>>

\* The worker process ends; what it has sent is still on its way.
Leave(w) ==
  /\ w \in beating
  /\ beating' = beating \ {w}
  /\ waiting' = waiting \ {w}
  /\ UNCHANGED <<limiterVars, handler, entries, listing, shown, sent, heard>>

(***************************************************************************)
(* The server.                                                             *)
(***************************************************************************)

At(h, stage) == h \in DOMAIN handler /\ handler[h].stage = stage

\* The limiter lets the heartbeat through and Heartbeat reads the clock; a
\* pause between the two shows as a pause before both.
Stamp(h) ==
  /\ At(h, "sent")
  /\ Allow(Address[handler[h].worker])
  /\ handler' = [handler EXCEPT ![h].stage = "stamped", ![h].age = 0]
  /\ UNCHANGED <<beating, waiting, entries, listing, shown, sent, heard>>

\* 429: the registry does not hear of it.
Refused(h) ==
  /\ At(h, "sent")
  /\ Deny(Address[handler[h].worker])
  /\ handler' = Done(h)
  /\ UNCHANGED <<beating, waiting, entries, listing, shown, sent, heard>>

\* The request, or the connection under it, is lost.
Lost(h) ==
  /\ At(h, "sent")
  /\ handler' = Done(h)
  /\ UNCHANGED <<limiterVars, beating, waiting, entries, listing, shown, sent, heard>>

\* Mutant: a worker already known keeps its first stamp.
StoreOnce(h) ==
  /\ At(h, "stamped")
  /\ LET w == handler[h].worker
     IN  /\ entries' = IF w \in DOMAIN entries THEN entries
                                               ELSE With(entries, w, handler[h].age)
         /\ heard' = [heard EXCEPT ![w] = Least(@, handler[h].age)]
  /\ handler' = Done(h)
  /\ UNCHANGED <<limiterVars, beating, waiting, listing, shown, sent>>

\* The rest of Heartbeat, under the lock: the snapshot replaces the one held,
\* even one stamped later than itself.
Store(h) ==
  /\ At(h, "stamped")
  /\ LET w == handler[h].worker
     IN  /\ entries' = With(entries, w, handler[h].age)
         /\ heard' = [heard EXCEPT ![w] = Least(@, handler[h].age)]
  /\ handler' = Done(h)
  /\ UNCHANGED <<limiterVars, beating, waiting, listing, shown, sent>>

\* handleWorkers, past the limiter, or renderUI, which has none: List computes its cutoff.
Cutoff ==
  /\ listing = Idle
  /\ listing' = 0
  /\ UNCHANGED <<limiterVars, beating, waiting, handler, entries, shown, sent, heard>>

\* Mutant: List returns what it holds and prunes nothing.
PruneNothing ==
  /\ listing # Idle
  /\ shown' = shown \cup DOMAIN entries
  /\ listing' = Idle
  /\ UNCHANGED <<limiterVars, beating, waiting, handler, entries, sent, heard>>

\* The rest of List, under the lock: an entry stamped before the cutoff goes.
Prune ==
  LET fresh == {w \in DOMAIN entries : entries[w] <= Stale + listing}
  IN  /\ listing # Idle
      /\ entries' = [w \in fresh |-> entries[w]]
      /\ shown' = shown \cup fresh
      /\ listing' = Idle
      /\ UNCHANGED <<limiterVars, beating, waiting, handler, sent, heard>>

\* Any other request from an address: a pull, a report, a dashboard.
OtherRequest(c) ==
  /\ Allow(c) \/ Deny(c)
  /\ UNCHANGED registryVars

Sweep == Cleanup /\ UNCHANGED registryVars

\* A handler or List that has taken Delay moves on before the clock does.
Tick ==
  /\ \A h \in DOMAIN handler : handler[h].age < Delay
  /\ listing < Delay
  /\ LimiterTick
  /\ handler' = [h \in DOMAIN handler |-> [handler[h] EXCEPT !.age = @ + 1]]
  /\ entries' = [w \in DOMAIN entries |-> Older(entries[w])]
  /\ listing' = IF listing = Idle THEN Idle ELSE listing + 1
  /\ shown' = {}
  /\ sent' = [w \in Workers |-> Older(sent[w])]
  /\ heard' = [w \in Workers |-> Older(heard[w])]
  /\ UNCHANGED <<beating, waiting>>

PresenceNext ==
  \/ \E w \in Workers : Post(w) \/ Return(w) \/ Leave(w)
  \/ \E h \in Handlers : Stamp(h) \/ Refused(h) \/ Lost(h) \/ Store(h)
  \/ Cutoff
  \/ Prune
  \/ \E c \in Clients : OtherRequest(c)
  \/ Sweep
  \/ Tick

PresenceSpec == PresenceInit /\ [][PresenceNext]_presenceVars

(***************************************************************************)
(* Properties.                                                             *)
(***************************************************************************)

\* A worker heard recently enough is in the set List would return now, even
\* when an older heartbeat of its own was stored after the newer one, and
\* whichever List pruned the registry with however old a cutoff.
HeardIsListed ==
  \A w \in Workers :
    heard[w] + Delay <= Stale => w \in DOMAIN entries /\ entries[w] <= Stale

\* A worker shown as live did send a heartbeat: not longer ago than the
\* threshold and the delays of one request and one List.
ShownIsAlive == \A w \in shown : sent[w] <= Stale + 2 * Delay
=============================================================================
