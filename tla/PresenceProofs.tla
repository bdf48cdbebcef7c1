---------------------------- MODULE PresenceProofs ----------------------------
(***************************************************************************)
(* Proofs about RateLimiter and about Presence, which contains it.         *)
(*                                                                         *)
(* The limiter: its type invariant, and that it implements TokenBucket,    *)
(* for every limit, every length of a minute and any set of addresses.     *)
(* The refinement mapping Refilled hides the laziness; what it needs is    *)
(* that TTL is long enough for an idle bucket to be full again.            *)
(*                                                                         *)
(* The registry, for any workers, addresses, handlers, thresholds and      *)
(* delays.  Every step is a step of the limiter or leaves it alone, so     *)
(* what is proved of the limiter holds here.  What is shown follows from   *)
(* bounds on how far two ages may be apart: a stamp is at most Delay older *)
(* than the newest one heard, and a POST at most Delay older than its      *)
(* stamp.                                                                  *)
(***************************************************************************)
EXTENDS Presence, TLAPS

(***************************************************************************)
(* Arithmetic.                                                             *)
(***************************************************************************)

\* One tick more of a refill is one refill more.
LEMMA OneMore ==
  ASSUME NEW l \in Nat, NEW p \in Nat
  PROVE  l * p \in Nat /\ (l + 1) * p = l * p + p
OBVIOUS

LEMMA ProductGrows ==
  ASSUME NEW l \in Nat, NEW m \in Nat, NEW p \in Nat, l >= m
  PROVE  l * p >= m * p
<1> DEFINE k == l - m
<1>1. k \in Nat /\ l = m + k
  OBVIOUS
<1>2. k * p \in Nat /\ m * p \in Nat
  BY <1>1, OneMore
<1>3. (m + k) * p = m * p + k * p
  BY <1>1
<1> QED BY <1>1, <1>2, <1>3

LEMMA FullIsNat == Full \in Nat
  BY LimiterConstants, OneMore DEF Full

\* What has been idle past TTL, or longer, has refilled a whole bucket.
LEMMA IdleIsFull ==
  ASSUME NEW l \in Nat, l > TTL
  PROVE  l * PerMin >= Full
<1>1. l >= Minute
  BY LimiterConstants
<1>2. l * PerMin >= Minute * PerMin
  BY <1>1, ProductGrows, LimiterConstants
<1>3. Minute * PerMin = Full
  BY LimiterConstants DEF Full
<1> QED BY <1>2, <1>3

(***************************************************************************)
(* What allow finds.                                                       *)
(***************************************************************************)
LEMMA KnownAddress ==
  ASSUME LimiterTypeOK, NEW c \in DOMAIN tokens
  PROVE  /\ tokens[c] \in Nat /\ tokens[c] <= Full
         /\ last[c] \in Nat /\ last[c] <= TTL + 1
         /\ last[c] * PerMin \in Nat
<1>1. tokens[c] \in 0 .. Full /\ last[c] \in 0 .. TTL + 1
  BY DEF LimiterTypeOK
<1> QED BY <1>1, FullIsNat, OneMore, LimiterConstants

LEMMA RefilledInRange ==
  ASSUME LimiterTypeOK, NEW c \in Clients
  PROVE  Refilled(c) \in Nat /\ Refilled(c) <= Full
<1>1. CASE c \notin DOMAIN tokens
  BY <1>1, FullIsNat DEF Refilled
<1>2. CASE c \in DOMAIN tokens
  BY <1>2, FullIsNat, KnownAddress DEF Refilled, Least
<1> QED BY <1>1, <1>2

\* A bucket looked at in this very tick holds what was written.
LEMMA JustStored ==
  ASSUME NEW c, NEW v \in Nat, v <= Full,
         tokens' = With(tokens, c, v), last' = With(last, c, 0)
  PROVE  Refilled(c)' = v
<1>1. c \in DOMAIN tokens' /\ tokens'[c] = v /\ last'[c] = 0
  <2>1. DOMAIN last' = DOMAIN last \cup {c} /\ DOMAIN tokens' = DOMAIN tokens \cup {c}
    BY DEF With
  <2> QED BY <2>1 DEF With
<1>2. 0 * PerMin = 0
  BY LimiterConstants
<1> QED BY <1>1, <1>2, FullIsNat DEF Refilled, Least, Full

\* Writing the bucket of one address leaves those of the others alone.
LEMMA OthersKeep ==
  ASSUME LimiterTypeOK, NEW c, NEW v, NEW d, d # c,
         tokens' = With(tokens, c, v), last' = With(last, c, 0)
  PROVE  Refilled(d)' = Refilled(d)
<1>1. d \in DOMAIN tokens' <=> d \in DOMAIN tokens
  BY DEF With
<1>2. ASSUME d \in DOMAIN tokens PROVE tokens'[d] = tokens[d] /\ last'[d] = last[d]
  <2>1. d \in DOMAIN last
    BY <1>2 DEF LimiterTypeOK
  <2> QED BY <1>2, <2>1 DEF With
<1> QED BY <1>1, <1>2 DEF Refilled, Full

(***************************************************************************)
(* Types.                                                                  *)
(***************************************************************************)

\* Every reachable state of the limiter is well typed: no bucket is ever
\* below empty or above full.
LEMMA InitTyped == LimiterInit => LimiterTypeOK
  BY DEF LimiterInit, LimiterTypeOK

LEMMA StoreTyped ==
  ASSUME LimiterTypeOK, NEW c \in Clients, NEW v \in Nat, v <= Full,
         tokens' = With(tokens, c, v), last' = With(last, c, 0)
  PROVE  /\ DOMAIN tokens' \subseteq Clients
         /\ tokens' \in [DOMAIN tokens' -> 0 .. Full]
         /\ last' \in [DOMAIN tokens' -> 0 .. TTL + 1]
<1> DEFINE known == DOMAIN tokens \cup {c}
<1>1. DOMAIN last = DOMAIN tokens
  BY DEF LimiterTypeOK
<1>2. 0 \in 0 .. TTL + 1 /\ v \in 0 .. Full
  BY LimiterConstants, FullIsNat
<1>3. tokens' \in [known -> 0 .. Full]
  BY <1>2 DEF With, LimiterTypeOK
<1>4. last' \in [known -> 0 .. TTL + 1]
  BY <1>1, <1>2 DEF With, LimiterTypeOK
<1>5. DOMAIN tokens' = known
  BY DEF With
<1> QED BY <1>3, <1>4, <1>5 DEF LimiterTypeOK

LEMMA StepTyped == LimiterTypeOK /\ [LimiterNext]_limiterVars => LimiterTypeOK'
<1> SUFFICES ASSUME LimiterTypeOK, [LimiterNext]_limiterVars PROVE LimiterTypeOK'
  OBVIOUS
<1>1. ASSUME NEW c \in Clients, Allow(c) PROVE LimiterTypeOK'
  <2> DEFINE v == Refilled(c) - Minute
  <2>1. v \in Nat /\ v <= Full
    BY <1>1, RefilledInRange, FullIsNat, LimiterConstants DEF Allow
  <2>2. tokens' = With(tokens, c, v) /\ last' = With(last, c, 0)
    BY <1>1 DEF Allow
  <2>3. verdict' \in [Clients -> {"none", "admitted", "refused"}]
    BY <1>1 DEF Allow, LimiterTypeOK
  <2> HIDE DEF v
  <2> QED BY <2>1, <2>2, <2>3, StoreTyped DEF LimiterTypeOK
<1>2. ASSUME NEW c \in Clients, Deny(c) PROVE LimiterTypeOK'
  <2>1. Refilled(c) \in Nat /\ Refilled(c) <= Full
    BY RefilledInRange
  <2>2. tokens' = With(tokens, c, Refilled(c)) /\ last' = With(last, c, 0)
    BY <1>2 DEF Deny
  <2>3. verdict' \in [Clients -> {"none", "admitted", "refused"}]
    BY <1>2 DEF Deny, LimiterTypeOK
  <2> QED BY <2>1, <2>2, <2>3, StoreTyped DEF LimiterTypeOK
<1>3. CASE Cleanup
  <2> DEFINE kept == {c \in DOMAIN last : last[c] <= TTL}
  <2>1. kept \subseteq DOMAIN tokens
    BY DEF LimiterTypeOK
  <2>2. tokens' = [c \in kept |-> tokens[c]] /\ last' = [c \in kept |-> last[c]]
    BY <1>3 DEF Cleanup
  <2> QED BY <1>3, <2>1, <2>2 DEF Cleanup, LimiterTypeOK
<1>4. CASE LimiterTick
  <2>1. DOMAIN last = DOMAIN tokens /\ tokens' = tokens /\ verdict' = verdict
    BY <1>4 DEF LimiterTick, LimiterTypeOK
  <2>2. \A c \in DOMAIN tokens : Least(TTL + 1, last[c] + 1) \in 0 .. TTL + 1
    BY KnownAddress, LimiterConstants DEF Least
  <2>3. last' = [c \in DOMAIN tokens |-> Least(TTL + 1, last[c] + 1)]
    BY <1>4, <2>1 DEF LimiterTick
  <2> QED BY <2>1, <2>2, <2>3 DEF LimiterTypeOK
<1>5. CASE UNCHANGED limiterVars
  BY <1>5 DEF limiterVars, LimiterTypeOK, Full
<1> QED BY <1>1, <1>2, <1>3, <1>4, <1>5 DEF LimiterNext

\* No bucket of a limiter is ever below empty or above full, whatever asks
\* and whenever it is swept.
THEOREM LimiterTypeCorrect == LimiterSpec => []LimiterTypeOK
<1>1. LimiterInit => LimiterTypeOK
  BY InitTyped
<1>2. LimiterTypeOK /\ [LimiterNext]_limiterVars => LimiterTypeOK'
  BY StepTyped
<1> QED BY <1>1, <1>2, PTL DEF LimiterSpec

(***************************************************************************)
(* Refinement.                                                             *)
(***************************************************************************)
Level == [c \in Clients |-> Refilled(c)]

LEMMA InitMaps == LimiterInit => TB!BucketInit
  BY DEF LimiterInit, TB!BucketInit, TB!Full, Refilled, Full

\* One bucket is set, the others are what they were: the mapped step.
LEMMA LevelAfterStore ==
  ASSUME LimiterTypeOK, NEW c \in Clients, NEW v \in Nat, v <= Full,
         tokens' = With(tokens, c, v), last' = With(last, c, 0)
  PROVE  Level' = [Level EXCEPT ![c] = v]
<1>1. Refilled(c)' = v
  BY JustStored
<1>2. \A d \in Clients : d # c => Refilled(d)' = Refilled(d)
  BY OthersKeep
<1> QED BY <1>1, <1>2 DEF Level

\* allow, returning true, takes a token from the bucket it maps to.
LEMMA AllowMaps ==
  ASSUME LimiterTypeOK, NEW c \in Clients, Allow(c)
  PROVE  TB!Admit(c)
<1> DEFINE v == Refilled(c) - Minute
<1>1. v \in Nat /\ v <= Full
  BY RefilledInRange, FullIsNat, LimiterConstants DEF Allow
<1>2. tokens' = With(tokens, c, v) /\ last' = With(last, c, 0)
  BY DEF Allow
<1>3. Level' = [Level EXCEPT ![c] = v]
  <2> HIDE DEF v
  <2> QED BY <1>1, <1>2, LevelAfterStore
<1>4. Level[c] >= Minute /\ v = Level[c] - Minute
  BY DEF Level, Allow
<1>5. Level' = [Level EXCEPT ![c] = @ - Minute]
  BY <1>3, <1>4
<1> QED BY <1>4, <1>5 DEF TB!Admit, Level, Allow

\* allow, returning false, changes nothing of it.
LEMMA DenyMaps ==
  ASSUME LimiterTypeOK, NEW c \in Clients, Deny(c)
  PROVE  TB!Refuse(c)
<1>1. Refilled(c) \in Nat /\ Refilled(c) <= Full
  BY RefilledInRange
<1>2. tokens' = With(tokens, c, Refilled(c)) /\ last' = With(last, c, 0)
  BY DEF Deny
<1>3. Level' = [Level EXCEPT ![c] = Refilled(c)]
  BY <1>1, <1>2, LevelAfterStore
<1>4. Level' = Level
  BY <1>3 DEF Level
<1> QED BY <1>4 DEF TB!Refuse, Level, Deny

\* What the sweep forgets was full, which is what a new address finds.
LEMMA CleanupMaps ==
  ASSUME LimiterTypeOK, Cleanup
  PROVE  UNCHANGED TB!bucketVars
<1> DEFINE kept == {c \in DOMAIN last : last[c] <= TTL}
<1>1. DOMAIN last = DOMAIN tokens
  BY DEF LimiterTypeOK
<1>2. tokens' = [c \in kept |-> tokens[c]] /\ last' = [c \in kept |-> last[c]]
  BY DEF Cleanup
<1>3. ASSUME NEW c \in Clients PROVE Refilled(c)' = Refilled(c)
  <2>1. CASE c \in kept
    BY <1>1, <1>2, <2>1 DEF Refilled, Full
  <2>2. CASE c \in DOMAIN tokens \ kept
    <3>1. last[c] \in Nat /\ last[c] > TTL
      BY <1>1, <2>2, KnownAddress, LimiterConstants
    <3>2. last[c] * PerMin >= Full /\ last[c] * PerMin \in Nat
      BY <3>1, IdleIsFull, OneMore, LimiterConstants
    <3>3. Refilled(c) = Full
      BY <2>2, <3>2, KnownAddress, FullIsNat DEF Refilled, Least
    <3>4. Refilled(c)' = Full
      BY <1>2, <2>2 DEF Refilled, Full
    <3> QED BY <3>3, <3>4
  <2>3. CASE c \notin DOMAIN tokens
    BY <1>1, <1>2, <2>3 DEF Refilled, Full
  <2> QED BY <2>1, <2>2, <2>3
<1>4. Level' = Level
  BY <1>3 DEF Level
<1> QED BY <1>4 DEF TB!bucketVars, Level, Cleanup

\* A tick refills every bucket, whether or not anyone looks.
LEMMA TickMaps ==
  ASSUME LimiterTypeOK, LimiterTick
  PROVE  TB!Refill
<1>1. DOMAIN last = DOMAIN tokens /\ tokens' = tokens /\ verdict' = verdict
  BY DEF LimiterTick, LimiterTypeOK
<1>2. last' = [c \in DOMAIN tokens |-> Least(TTL + 1, last[c] + 1)]
  BY <1>1 DEF LimiterTick
<1>3. ASSUME NEW c \in Clients PROVE Refilled(c)' = Least(Full, Refilled(c) + PerMin)
  <2>1. CASE c \notin DOMAIN tokens
    BY <1>1, <2>1, FullIsNat, LimiterConstants DEF Refilled, Least, Full
  <2>2. CASE c \in DOMAIN tokens /\ last[c] <= TTL
    <3>1. last'[c] = last[c] + 1
      BY <1>2, <2>2, KnownAddress, LimiterConstants DEF Least
    <3>2. last'[c] * PerMin = last[c] * PerMin + PerMin /\ last[c] * PerMin \in Nat
      BY <2>2, <3>1, KnownAddress, OneMore, LimiterConstants
    <3>3. Refilled(c)' = Least(Full, tokens[c] + last'[c] * PerMin)
      BY <1>1, <2>2 DEF Refilled, Full, Least
    <3>4. Refilled(c) = Least(Full, tokens[c] + last[c] * PerMin)
      BY <2>2 DEF Refilled
    <3> QED BY <2>2, <3>2, <3>3, <3>4, KnownAddress, FullIsNat, LimiterConstants DEF Least
  <2>3. CASE c \in DOMAIN tokens /\ last[c] > TTL
    <3>1. last'[c] = TTL + 1
      BY <1>2, <2>3, KnownAddress, LimiterConstants DEF Least
    <3>2. /\ last'[c] * PerMin >= Full /\ last'[c] * PerMin \in Nat
          /\ last[c] * PerMin >= Full /\ last[c] * PerMin \in Nat
      BY <2>3, <3>1, KnownAddress, IdleIsFull, OneMore, LimiterConstants
    <3>3. Refilled(c)' = Least(Full, tokens[c] + last'[c] * PerMin)
      BY <1>1, <2>3 DEF Refilled, Full, Least
    <3>4. Refilled(c) = Least(Full, tokens[c] + last[c] * PerMin)
      BY <2>3 DEF Refilled
    <3> QED BY <2>3, <3>2, <3>3, <3>4, KnownAddress, FullIsNat, LimiterConstants DEF Least
  <2> QED BY <2>1, <2>2, <2>3, KnownAddress, LimiterConstants
<1>4. Level' = [c \in Clients |-> Least(Full, Level[c] + PerMin)]
  BY <1>3 DEF Level
<1> QED BY <1>1, <1>4 DEF TB!Refill, TB!Least, TB!Full, Least, Full, Level

LEMMA StepMaps ==
  ASSUME LimiterTypeOK, [LimiterNext]_limiterVars
  PROVE  [TB!BucketNext]_(TB!bucketVars)
<1>1. ASSUME NEW c \in Clients, Allow(c) PROVE TB!BucketNext
  BY <1>1, AllowMaps DEF TB!BucketNext
<1>2. ASSUME NEW c \in Clients, Deny(c) PROVE TB!BucketNext
  BY <1>2, DenyMaps DEF TB!BucketNext
<1>3. CASE Cleanup
  BY <1>3, CleanupMaps
<1>4. CASE LimiterTick
  BY <1>4, TickMaps DEF TB!BucketNext
<1>5. CASE UNCHANGED limiterVars
  BY <1>5 DEF limiterVars, TB!bucketVars, Refilled, Full
<1> QED BY <1>1, <1>2, <1>3, <1>4, <1>5 DEF LimiterNext

\* The limiter of server.go is a token bucket per address: refill on demand,
\* a stamp that moves on refusals, and eviction of the idle are invisible.
THEOREM LimiterIsTokenBucket == LimiterSpec => IsTokenBucket
<1>1. LimiterInit => TB!BucketInit
  BY InitMaps
<1>2. LimiterTypeOK /\ [LimiterNext]_limiterVars => [TB!BucketNext]_(TB!bucketVars)
  BY StepMaps
<1>3. LimiterSpec => []LimiterTypeOK
  BY LimiterTypeCorrect
<1> QED BY <1>1, <1>2, <1>3, PTL DEF LimiterSpec, IsTokenBucket, TB!BucketSpec

(***************************************************************************)
(* The limiter inside.                                                     *)
(***************************************************************************)
LEMMA LimiterPart ==
  ASSUME PresenceTypeOK, [PresenceNext]_presenceVars
  PROVE  [LimiterNext]_limiterVars
<1>1. ASSUME NEW w \in Workers, Post(w) \/ Return(w) \/ Leave(w) PROVE UNCHANGED limiterVars
  BY <1>1 DEF Post, Return, Leave
<1>2. ASSUME NEW h \in Handlers, Lost(h) \/ Store(h) PROVE UNCHANGED limiterVars
  BY <1>2 DEF Lost, Store
<1>3. ASSUME NEW h \in Handlers, Stamp(h) \/ Refused(h) PROVE LimiterNext
  <2>1. h \in DOMAIN handler
    BY <1>3 DEF Stamp, Refused, At
  <2>2. handler[h].worker \in Workers
    BY <2>1 DEF PresenceTypeOK
  <2>3. Address[handler[h].worker] \in Clients
    BY <2>2, PresenceConstants
  <2> QED BY <1>3, <2>3 DEF Stamp, Refused, LimiterNext
<1>4. ASSUME Cutoff \/ Prune PROVE UNCHANGED limiterVars
  BY <1>4 DEF Cutoff, Prune
<1>5. ASSUME NEW c \in Clients, OtherRequest(c) PROVE LimiterNext
  BY <1>5 DEF OtherRequest, LimiterNext
<1>6. CASE Sweep
  BY <1>6 DEF Sweep, LimiterNext
<1>7. CASE Tick
  BY <1>7 DEF Tick, LimiterNext
<1>8. CASE UNCHANGED presenceVars
  BY <1>8 DEF presenceVars
<1> QED BY <1>1, <1>2, <1>3, <1>4, <1>5, <1>6, <1>7, <1>8 DEF PresenceNext

(***************************************************************************)
(* The inductive invariant.                                                *)
(***************************************************************************)
Duty == [worker : Workers, stage : {"sent", "stamped"}, age : 0 .. Delay]

RegistryTypeOK ==
  /\ beating \subseteq Workers
  /\ waiting \subseteq beating
  /\ DOMAIN handler \subseteq Handlers
  /\ handler \in [DOMAIN handler -> Duty]
  /\ DOMAIN entries \subseteq Workers
  /\ entries \in [DOMAIN entries -> 0 .. Old]
  /\ listing \in Idle .. Delay
  /\ shown \subseteq Workers
  /\ sent \in [Workers -> 0 .. Old]
  /\ heard \in [Workers -> 0 .. Old]

\* What the registry holds of a worker is little older than what it has heard.
NearlyNewest == \A w \in DOMAIN entries : entries[w] <= heard[w] + Delay

\* What it has heard in time it holds.
HeardIsKept == \A w \in Workers : heard[w] + Delay <= Stale => w \in DOMAIN entries

\* A heartbeat in the server's hands was sent, and not long ago.
HandlerWasSent ==
  \A h \in DOMAIN handler :
    sent[handler[h].worker] <= handler[h].age + (IF handler[h].stage = "sent" THEN 0 ELSE Delay)

EntryWasSent == \A w \in DOMAIN entries : sent[w] <= entries[w] + Delay

PresenceInv ==
  /\ RegistryTypeOK
  /\ NearlyNewest
  /\ HeardIsKept
  /\ HandlerWasSent
  /\ EntryWasSent
  /\ ShownIsAlive

LEMMA OldIsLarge == Old \in Nat /\ Old > Stale + 2 * Delay /\ Delay <= Old
  BY PresenceConstants DEF Old

LEMMA OlderInRange ==
  ASSUME NEW a \in 0 .. Old
  PROVE  Older(a) \in 0 .. Old /\ Older(a) <= a + 1 /\ (a < Old => Older(a) = a + 1)
                              /\ (a = Old => Older(a) = Old)
  BY OldIsLarge DEF Older, Least

LEMMA TypesMeet == PresenceTypeOK <=> LimiterTypeOK /\ RegistryTypeOK
  BY DEF PresenceTypeOK, RegistryTypeOK, Duty

LEMMA InitInv == PresenceInit => PresenceInv
  BY OldIsLarge, PresenceConstants
  DEF PresenceInit, PresenceInv, RegistryTypeOK, NearlyNewest, HeardIsKept, HandlerWasSent,
      EntryWasSent, ShownIsAlive, Idle

LEMMA DutyFields ==
  ASSUME PresenceInv, NEW h \in DOMAIN handler
  PROVE  /\ handler[h] \in Duty
         /\ handler[h].worker \in Workers
         /\ handler[h].age \in Nat /\ handler[h].age <= Delay
         /\ handler[h].stage \in {"sent", "stamped"}
  BY PresenceConstants DEF PresenceInv, RegistryTypeOK, Duty

\* A handler that is done takes its heartbeat with it.
LEMMA DoneKeeps ==
  ASSUME PresenceInv, NEW h, handler' = Done(h), UNCHANGED sent
  PROVE  /\ DOMAIN handler' \subseteq Handlers
         /\ handler' \in [DOMAIN handler' -> Duty]
         /\ HandlerWasSent'
<1>1. DOMAIN handler' = DOMAIN handler \ {h}
  BY DEF Done
<1>2. \A x \in DOMAIN handler' : handler'[x] = handler[x]
  BY DEF Done
<1>3. handler' = [x \in DOMAIN handler' |-> handler'[x]]
  BY DEF Done
<1> QED BY <1>1, <1>2, <1>3 DEF PresenceInv, RegistryTypeOK, HandlerWasSent

LEMMA PostInv == ASSUME PresenceInv, NEW w \in Workers, Post(w) PROVE PresenceInv'
<1>1. PICK h \in Handlers \ DOMAIN handler :
        handler' = With(handler, h, [worker |-> w, stage |-> "sent", age |-> 0])
  BY DEF Post
<1>2. UNCHANGED <<beating, entries, listing, shown, heard>>
  BY DEF Post
<1>3. sent' = [sent EXCEPT ![w] = 0] /\ sent \in [Workers -> 0 .. Old]
  BY DEF Post, PresenceInv, RegistryTypeOK
<1>4. \A v \in Workers : sent'[v] \in 0 .. Old /\ sent'[v] <= sent[v]
  BY <1>3, OldIsLarge
<1>5. DOMAIN handler' = DOMAIN handler \cup {h}
  BY <1>1 DEF With
<1>6. \A x \in DOMAIN handler : handler'[x] = handler[x]
  BY <1>1, <1>5 DEF With
<1>7. handler'[h] = [worker |-> w, stage |-> "sent", age |-> 0]
  BY <1>1, <1>5 DEF With
<1>8. handler'[h] \in Duty
  BY <1>7, PresenceConstants DEF Duty
<1>9. handler' \in [DOMAIN handler' -> Duty]
  BY <1>1, <1>5, <1>6, <1>8, DutyFields DEF With
<1>10. RegistryTypeOK'
  <2>1. waiting' \subseteq beating'
    BY DEF Post, PresenceInv, RegistryTypeOK
  <2>2. sent' \in [Workers -> 0 .. Old]
    BY <1>3, <1>4
  <2> QED BY <1>2, <1>5, <1>9, <2>1, <2>2 DEF PresenceInv, RegistryTypeOK, Old
<1>11. HandlerWasSent'
  <2>1. ASSUME NEW x \in DOMAIN handler
        PROVE  sent'[handler[x].worker] <= handler[x].age
                 + (IF handler[x].stage = "sent" THEN 0 ELSE Delay)
    BY <1>3, <1>4, <2>1, DutyFields, PresenceConstants, OldIsLarge DEF PresenceInv, HandlerWasSent
  <2>2. sent'[w] = 0
    BY <1>3
  <2> QED BY <1>5, <1>6, <1>7, <2>1, <2>2 DEF HandlerWasSent
<1>12. NearlyNewest' /\ HeardIsKept'
  BY <1>2 DEF PresenceInv, NearlyNewest, HeardIsKept
<1>13. EntryWasSent'
  <2>1. \A v \in DOMAIN entries : v \in Workers /\ entries[v] \in Nat
    BY OldIsLarge DEF PresenceInv, RegistryTypeOK
  <2> QED BY <1>2, <1>3, <1>4, <2>1, OldIsLarge, PresenceConstants DEF PresenceInv, EntryWasSent
<1>14. ShownIsAlive'
  <2>1. \A v \in shown : v \in Workers
    BY DEF PresenceInv, RegistryTypeOK
  <2> QED BY <1>2, <1>3, <1>4, <2>1, OldIsLarge, PresenceConstants DEF PresenceInv, ShownIsAlive
<1> QED BY <1>10, <1>11, <1>12, <1>13, <1>14 DEF PresenceInv

\* The steps that touch neither ages nor handlers.
LEMMA ReturnInv == ASSUME PresenceInv, NEW w \in Workers, Return(w) \/ Leave(w) PROVE PresenceInv'
<1>1. waiting' \subseteq beating' /\ beating' \subseteq Workers
  BY DEF Return, Leave, PresenceInv, RegistryTypeOK
<1>2. UNCHANGED <<handler, entries, listing, shown, sent, heard>>
  BY DEF Return, Leave
<1> QED BY <1>1, <1>2 DEF PresenceInv, RegistryTypeOK, NearlyNewest, HeardIsKept, HandlerWasSent,
                          EntryWasSent, ShownIsAlive, Old

LEMMA StampInv == ASSUME PresenceInv, NEW h \in Handlers, Stamp(h) PROVE PresenceInv'
<1>1. h \in DOMAIN handler /\ handler[h].stage = "sent"
  BY DEF Stamp, At
<1>2. handler' = [handler EXCEPT ![h].stage = "stamped", ![h].age = 0]
  BY DEF Stamp
<1>3. UNCHANGED <<beating, waiting, entries, listing, shown, sent, heard>>
  BY DEF Stamp
<1>4. DOMAIN handler' = DOMAIN handler
  BY <1>2
<1>5. handler'[h] = [worker |-> handler[h].worker, stage |-> "stamped", age |-> 0]
  BY <1>1, <1>2, DutyFields DEF Duty
<1>6. \A x \in DOMAIN handler : x # h => handler'[x] = handler[x]
  BY <1>2
<1>7. handler'[h] \in Duty
  BY <1>1, <1>5, DutyFields, PresenceConstants DEF Duty
<1>8. handler' \in [DOMAIN handler' -> Duty]
  BY <1>2, <1>4, <1>6, <1>7, DutyFields
<1>9. HandlerWasSent'
  <2>1. handler[h].age <= Delay /\ handler[h].age \in Nat /\ handler[h].worker \in Workers
    BY <1>1, DutyFields
  <2>2. sent[handler[h].worker] <= handler[h].age
    BY <1>1, <2>1, PresenceConstants DEF PresenceInv, HandlerWasSent
  <2>3. sent[handler[h].worker] \in Nat
    BY <2>1, OldIsLarge DEF PresenceInv, RegistryTypeOK
  <2>4. sent[handler[h].worker] <= 0 + Delay
    BY <2>1, <2>2, <2>3, PresenceConstants
  <2> QED BY <1>3, <1>4, <1>5, <1>6, <2>4 DEF PresenceInv, HandlerWasSent
<1> QED BY <1>3, <1>4, <1>8, <1>9 DEF PresenceInv, RegistryTypeOK, NearlyNewest, HeardIsKept,
                                      EntryWasSent, ShownIsAlive, Old

LEMMA GoneInv == ASSUME PresenceInv, NEW h \in Handlers, Refused(h) \/ Lost(h) PROVE PresenceInv'
<1>1. handler' = Done(h) /\ UNCHANGED <<beating, waiting, entries, listing, shown, sent, heard>>
  BY DEF Refused, Lost
<1>2. DOMAIN handler' \subseteq Handlers /\ handler' \in [DOMAIN handler' -> Duty] /\ HandlerWasSent'
  BY <1>1, DoneKeeps
<1> QED BY <1>1, <1>2 DEF PresenceInv, RegistryTypeOK, NearlyNewest, HeardIsKept, EntryWasSent,
                          ShownIsAlive, Old

LEMMA StoreInv == ASSUME PresenceInv, NEW h \in Handlers, Store(h) PROVE PresenceInv'
<1> DEFINE w == handler[h].worker
           a == handler[h].age
<1>1. h \in DOMAIN handler /\ handler[h].stage = "stamped"
  BY DEF Store, At
<1>2. w \in Workers /\ a \in Nat /\ a <= Delay /\ a \in 0 .. Old
  BY <1>1, DutyFields, OldIsLarge, PresenceConstants
<1>3. entries' = With(entries, w, a) /\ heard' = [heard EXCEPT ![w] = Least(@, a)]
  BY DEF Store
<1>4. handler' = Done(h) /\ UNCHANGED <<beating, waiting, listing, shown, sent>>
  BY DEF Store
<1>5. DOMAIN handler' \subseteq Handlers /\ handler' \in [DOMAIN handler' -> Duty] /\ HandlerWasSent'
  BY <1>4, DoneKeeps
<1>6. sent[w] <= a + Delay
  BY <1>1 DEF PresenceInv, HandlerWasSent
<1> HIDE DEF w, a
<1>7. DOMAIN entries' = DOMAIN entries \cup {w} /\ entries'[w] = a
  BY <1>3 DEF With
<1>8. \A v \in DOMAIN entries : v # w => entries'[v] = entries[v]
  BY <1>3 DEF With
<1>9. heard'[w] = Least(heard[w], a) /\ \A v \in Workers : v # w => heard'[v] = heard[v]
  BY <1>2, <1>3 DEF PresenceInv, RegistryTypeOK
<1>10. heard'[w] \in 0 .. Old
  BY <1>2, <1>9 DEF PresenceInv, RegistryTypeOK, Least
<1>11. RegistryTypeOK'
  <2>1. entries' \in [DOMAIN entries' -> 0 .. Old]
    BY <1>2, <1>3, <1>7, <1>8 DEF With, PresenceInv, RegistryTypeOK
  <2>2. heard' \in [Workers -> 0 .. Old]
    BY <1>3, <1>9, <1>10 DEF PresenceInv, RegistryTypeOK
  <2>3. DOMAIN entries' \subseteq Workers
    BY <1>2, <1>7 DEF PresenceInv, RegistryTypeOK
  <2> QED BY <1>4, <1>5, <2>1, <2>2, <2>3 DEF PresenceInv, RegistryTypeOK, Old
<1>12. NearlyNewest'
  <2>1. heard'[w] \in Nat
    BY <1>10, OldIsLarge
  <2>2. a <= heard'[w] + Delay
    BY <1>2, <2>1, PresenceConstants
  <2>3. \A v \in DOMAIN entries : v \in Workers
    BY DEF PresenceInv, RegistryTypeOK
  <2> QED BY <1>7, <1>8, <1>9, <2>2, <2>3 DEF PresenceInv, NearlyNewest
<1>13. HeardIsKept'
  BY <1>7, <1>9 DEF PresenceInv, HeardIsKept
<1>14. EntryWasSent'
  BY <1>4, <1>6, <1>7, <1>8 DEF PresenceInv, EntryWasSent
<1>15. ShownIsAlive'
  BY <1>4 DEF PresenceInv, ShownIsAlive
<1> QED BY <1>5, <1>11, <1>12, <1>13, <1>14, <1>15 DEF PresenceInv

LEMMA CutoffInv == ASSUME PresenceInv, Cutoff PROVE PresenceInv'
<1>1. listing' \in Idle .. Delay
  BY PresenceConstants DEF Cutoff, Idle
<1>2. UNCHANGED <<beating, waiting, handler, entries, shown, sent, heard>>
  BY DEF Cutoff
<1> QED BY <1>1, <1>2 DEF PresenceInv, RegistryTypeOK, NearlyNewest, HeardIsKept, HandlerWasSent,
                          EntryWasSent, ShownIsAlive, Old

LEMMA PruneInv == ASSUME PresenceInv, Prune PROVE PresenceInv'
<1> DEFINE fresh == {w \in DOMAIN entries : entries[w] <= Stale + listing}
<1>1. listing \in Nat /\ listing <= Delay
  BY PresenceConstants DEF Prune, PresenceInv, RegistryTypeOK, Idle
<1>2. entries' = [w \in fresh |-> entries[w]] /\ shown' = shown \cup fresh /\ listing' = Idle
  BY DEF Prune
<1>3. UNCHANGED <<beating, waiting, handler, sent, heard>>
  BY DEF Prune
<1>4. fresh \subseteq DOMAIN entries /\ DOMAIN entries \subseteq Workers
  BY DEF PresenceInv, RegistryTypeOK
<1>5. \A w \in DOMAIN entries : entries[w] \in Nat /\ heard[w] \in Nat /\ sent[w] \in Nat
  BY <1>4, OldIsLarge DEF PresenceInv, RegistryTypeOK
<1>6. RegistryTypeOK'
  <2>1. entries' \in [DOMAIN entries' -> 0 .. Old]
    BY <1>2, <1>4 DEF PresenceInv, RegistryTypeOK
  <2>2. Idle \in Idle .. Delay
    BY PresenceConstants DEF Idle
  <2> QED BY <1>2, <1>3, <1>4, <2>1, <2>2 DEF PresenceInv, RegistryTypeOK, Old
<1>7. NearlyNewest' /\ EntryWasSent'
  BY <1>2, <1>3, <1>4 DEF PresenceInv, NearlyNewest, EntryWasSent
<1>8. HeardIsKept'
  <2>1. ASSUME NEW w \in Workers, heard[w] + Delay <= Stale PROVE w \in fresh
    <3>1. w \in DOMAIN entries
      BY <2>1 DEF PresenceInv, HeardIsKept
    <3>2. entries[w] <= heard[w] + Delay
      BY <3>1 DEF PresenceInv, NearlyNewest
    <3> QED BY <1>1, <1>5, <2>1, <3>1, <3>2, PresenceConstants
  <2> QED BY <1>2, <1>3, <2>1 DEF HeardIsKept
<1>9. ShownIsAlive'
  <2>1. ASSUME NEW w \in fresh PROVE sent[w] <= Stale + 2 * Delay
    <3>1. sent[w] <= entries[w] + Delay
      BY <1>4 DEF PresenceInv, EntryWasSent
    <3> QED BY <1>1, <1>4, <1>5, <3>1, PresenceConstants
  <2> QED BY <1>2, <1>3, <2>1 DEF PresenceInv, ShownIsAlive
<1> QED BY <1>3, <1>6, <1>7, <1>8, <1>9 DEF PresenceInv, HandlerWasSent

LEMMA TickInv == ASSUME PresenceInv, Tick PROVE PresenceInv'
<1>1. UNCHANGED <<beating, waiting>> /\ shown' = {}
  BY DEF Tick
<1>2. entries' = [w \in DOMAIN entries |-> Older(entries[w])]
  BY DEF Tick
<1>3. sent' = [w \in Workers |-> Older(sent[w])] /\ heard' = [w \in Workers |-> Older(heard[w])]
  BY DEF Tick
<1>4. handler' = [h \in DOMAIN handler |-> [handler[h] EXCEPT !.age = @ + 1]]
  BY DEF Tick
<1>5. listing' \in Idle .. Delay
  BY PresenceConstants DEF Tick, PresenceInv, RegistryTypeOK, Idle
<1>6. /\ \A w \in Workers : sent[w] \in 0 .. Old /\ heard[w] \in 0 .. Old
      /\ \A w \in DOMAIN entries : w \in Workers /\ entries[w] \in 0 .. Old
  BY DEF PresenceInv, RegistryTypeOK
<1>7. ASSUME NEW h \in DOMAIN handler
      PROVE  /\ handler'[h] \in Duty
             /\ handler'[h].worker = handler[h].worker
             /\ handler'[h].stage = handler[h].stage
             /\ handler'[h].age = handler[h].age + 1
  <2>1. handler[h] \in Duty /\ handler[h].age \in Nat /\ handler[h].age < Delay
    BY DutyFields DEF Tick
  <2> QED BY <1>4, <2>1, PresenceConstants DEF Duty
<1>8. RegistryTypeOK'
  <2>1. DOMAIN handler' = DOMAIN handler /\ handler' \in [DOMAIN handler' -> Duty]
    BY <1>4, <1>7
  <2>2. DOMAIN entries' = DOMAIN entries /\ entries' \in [DOMAIN entries' -> 0 .. Old]
    BY <1>2, <1>6, OlderInRange
  <2>3. sent' \in [Workers -> 0 .. Old] /\ heard' \in [Workers -> 0 .. Old]
    BY <1>3, <1>6, OlderInRange
  <2> QED BY <1>1, <1>5, <2>1, <2>2, <2>3 DEF PresenceInv, RegistryTypeOK, Old
<1>9. NearlyNewest'
  <2>1. ASSUME NEW w \in DOMAIN entries PROVE Older(entries[w]) <= Older(heard[w]) + Delay
    <3>1. entries[w] <= heard[w] + Delay
      BY DEF PresenceInv, NearlyNewest
    <3> QED BY <1>6, <3>1, OlderInRange, OldIsLarge, PresenceConstants
  <2> QED BY <1>2, <1>3, <1>6, <2>1 DEF NearlyNewest
<1>10. HeardIsKept'
  <2>1. ASSUME NEW w \in Workers, Older(heard[w]) + Delay <= Stale PROVE w \in DOMAIN entries
    <3>1. heard[w] + Delay <= Stale
      BY <1>6, <2>1, OlderInRange, OldIsLarge, PresenceConstants
    <3> QED BY <3>1 DEF PresenceInv, HeardIsKept
  <2> QED BY <1>2, <1>3, <2>1 DEF HeardIsKept
<1>11. HandlerWasSent'
  <2>1. ASSUME NEW h \in DOMAIN handler
        PROVE  Older(sent[handler[h].worker]) <= (handler[h].age + 1)
                 + (IF handler[h].stage = "sent" THEN 0 ELSE Delay)
    <3>1. handler[h].worker \in Workers /\ handler[h].age \in Nat
      BY DutyFields
    <3>2. sent[handler[h].worker] <= handler[h].age
            + (IF handler[h].stage = "sent" THEN 0 ELSE Delay)
      BY DEF PresenceInv, HandlerWasSent
    <3> QED BY <1>6, <3>1, <3>2, OlderInRange, OldIsLarge, PresenceConstants
  <2> QED BY <1>3, <1>4, <1>7, <2>1, DutyFields DEF HandlerWasSent
<1>12. EntryWasSent'
  <2>1. ASSUME NEW w \in DOMAIN entries PROVE Older(sent[w]) <= Older(entries[w]) + Delay
    <3>1. sent[w] <= entries[w] + Delay
      BY DEF PresenceInv, EntryWasSent
    <3> QED BY <1>6, <3>1, OlderInRange, OldIsLarge, PresenceConstants
  <2> QED BY <1>2, <1>3, <1>6, <2>1 DEF EntryWasSent
<1>13. ShownIsAlive'
  BY <1>1 DEF ShownIsAlive
<1> QED BY <1>8, <1>9, <1>10, <1>11, <1>12, <1>13 DEF PresenceInv

LEMMA StepInv == ASSUME PresenceInv, [PresenceNext]_presenceVars PROVE PresenceInv'
<1>1. ASSUME UNCHANGED registryVars PROVE PresenceInv'
  BY <1>1 DEF registryVars, PresenceInv, RegistryTypeOK, NearlyNewest, HeardIsKept,
              HandlerWasSent, EntryWasSent, ShownIsAlive, Old
<1>2. ASSUME NEW c \in Clients, OtherRequest(c) PROVE PresenceInv'
  BY <1>1, <1>2 DEF OtherRequest
<1>3. CASE Sweep
  BY <1>1, <1>3 DEF Sweep
<1>4. CASE UNCHANGED presenceVars
  BY <1>1, <1>4 DEF presenceVars
<1> QED BY <1>2, <1>3, <1>4, PostInv, ReturnInv, StampInv, GoneInv, StoreInv, CutoffInv, PruneInv,
           TickInv DEF PresenceNext

(***************************************************************************)
(* Theorems.                                                               *)
(***************************************************************************)

\* The invariant that is inductive for heartbeats and registry; the limiter
\* plays no part in it.
THEOREM PresenceInvariant == PresenceSpec => []PresenceInv
<1>1. PresenceInit => PresenceInv
  BY InitInv
<1>2. PresenceInv /\ [PresenceNext]_presenceVars => PresenceInv'
  BY StepInv
<1> QED BY <1>1, <1>2, PTL DEF PresenceSpec

\* Limiter, registry, handlers and workers stay well typed together.
THEOREM PresenceTypeCorrect == PresenceSpec => []PresenceTypeOK
<1>1. PresenceInit => PresenceTypeOK
  BY InitInv, InitTyped, TypesMeet DEF PresenceInit, PresenceInv
<1>2. PresenceTypeOK /\ PresenceInv /\ [PresenceNext]_presenceVars => PresenceTypeOK'
  <2> SUFFICES ASSUME PresenceTypeOK, PresenceInv, [PresenceNext]_presenceVars
               PROVE  PresenceTypeOK'
    OBVIOUS
  <2>1. LimiterTypeOK'
    BY LimiterPart, StepTyped, TypesMeet
  <2>2. RegistryTypeOK'
    BY StepInv DEF PresenceInv
  <2> QED BY <2>1, <2>2 DEF PresenceTypeOK, LimiterTypeOK, RegistryTypeOK, Duty, Old
<1> QED BY <1>1, <1>2, PresenceInvariant, PTL DEF PresenceSpec

\* A worker heard in time is in the list, whichever of its heartbeats was
\* stored last and however old the cutoff of a List that pruned meanwhile.
THEOREM HeardIsListedHolds == PresenceSpec => []HeardIsListed
<1>1. PresenceInv => HeardIsListed
  <2> SUFFICES ASSUME PresenceInv, NEW w \in Workers, heard[w] + Delay <= Stale
               PROVE  w \in DOMAIN entries /\ entries[w] <= Stale
    BY DEF HeardIsListed
  <2>1. w \in DOMAIN entries
    BY DEF PresenceInv, HeardIsKept
  <2>2. entries[w] <= heard[w] + Delay
    BY <2>1 DEF PresenceInv, NearlyNewest
  <2>3. entries[w] \in Nat /\ heard[w] \in Nat
    BY <2>1, OldIsLarge DEF PresenceInv, RegistryTypeOK
  <2> QED BY <2>1, <2>2, <2>3, PresenceConstants
<1> QED BY <1>1, PresenceInvariant, PTL

\* A worker that is shown did call, and not long ago.
THEOREM ShownIsAliveHolds == PresenceSpec => []ShownIsAlive
<1>1. PresenceInv => ShownIsAlive
  BY DEF PresenceInv
<1> QED BY <1>1, PresenceInvariant, PTL

\* Heartbeats, other requests and the sweep together see nothing but a token
\* bucket per address.
THEOREM PresenceIsTokenBucket == PresenceSpec => IsTokenBucket
<1>1. PresenceInit => LimiterInit
  BY DEF PresenceInit
<1>2. PresenceTypeOK /\ [PresenceNext]_presenceVars => [LimiterNext]_limiterVars
  BY LimiterPart
<1>3. PresenceSpec => LimiterSpec
  BY <1>1, <1>2, PresenceTypeCorrect, PTL DEF PresenceSpec, LimiterSpec
<1> QED BY <1>3, LimiterIsTokenBucket
=============================================================================
