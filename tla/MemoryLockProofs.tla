--------------------------- MODULE MemoryLockProofs ---------------------------
(***************************************************************************)
(* Proofs about MemoryLock.  The type invariant holds as the code stands.  *)
(* Mutual exclusion is about behaviours in which no holder outlives its    *)
(* lease and the callers at it differ in their tokens (Disciplined, in     *)
(* every state).  In them Shape is invariant: the entry in the map is that *)
(* of the caller that holds the lock, with the lease it was given, and     *)
(* nobody who found an entry ever writes to it.                            *)
(***************************************************************************)
EXTENDS MemoryLock, TLAPS

(***************************************************************************)
(* Types.                                                                  *)
(***************************************************************************)
\* The states in which a caller goes on to read or write the entry it found.
Reading == Winning \cup {"expired", "again", "compare", "owner"}

\* Such a caller reached one of them with an entry in its hands, except that
\* a caller which stored its own never reads it there.
FoundEntry == \A p \in Callers : pc[p] \in Reading => found[p] \in Callers

Typed == LockTypeOK /\ FoundEntry

\* The `now` of a call is in the past.
StartPast == \A p \in Callers : start[p] <= clock

LEMMA InitTyped == LockInit => Typed
  BY LockConstants DEF LockInit, Typed, LockTypeOK, FoundEntry, Reading, Winning, Holding

LEMMA StepTyped == Typed /\ [LockNext]_lockVars => Typed'
<1> SUFFICES ASSUME Typed, [LockNext]_lockVars PROVE Typed'
  OBVIOUS
<1> USE LockConstants DEF Typed, LockTypeOK, FoundEntry, Reading, Winning, Holding, Goto
<1>1. ASSUME NEW p \in Callers, Now(p) PROVE Typed'
  BY <1>1 DEF Now
<1>2. ASSUME NEW p \in Callers, LoadOrStore(p) PROVE Typed'
  <2>1. CASE map = NoEntry
    <3>1. start[p] + TTL \in 0 .. (MaxTime + TTL)
      OBVIOUS
    <3>2. entry' = [entry EXCEPT ![p] = [token |-> Token[p], exp |-> start[p] + TTL]]
      BY <1>2, <2>1 DEF LoadOrStore
    <3>3. entry' \in [Callers -> [token : {Token[q] : q \in Callers}, exp : 0 .. (MaxTime + TTL)]]
      BY <3>1, <3>2
    <3> QED BY <1>2, <2>1, <3>3 DEF LoadOrStore
  <2>2. CASE map # NoEntry
    <3>1. /\ UNCHANGED <<clock, map, entry, start>>
          /\ pc' = [pc EXCEPT ![p] = "expired"]
          /\ found' = [found EXCEPT ![p] = map]
          /\ map \in Callers
      BY <1>2, <2>2 DEF LoadOrStore
    <3>2. LockTypeOK'
      BY <3>1
    <3>3. FoundEntry'
      BY <3>1
    <3> QED BY <3>2, <3>3
  <2> QED BY <1>2, <2>1, <2>2
<1>3. ASSUME NEW p \in Callers, TestExpired(p) PROVE Typed'
  BY <1>3 DEF TestExpired
<1>4. ASSUME NEW p \in Callers, SetToken(p) PROVE Typed'
  BY <1>4 DEF SetToken
<1>5. ASSUME NEW p \in Callers, SetExp(p) PROVE Typed'
  <2>1. start[p] + TTL \in 0 .. (MaxTime + TTL)
    OBVIOUS
  <2>2. entry' \in [Callers -> [token : {Token[q] : q \in Callers}, exp : 0 .. (MaxTime + TTL)]]
    BY <1>5, <2>1 DEF SetExp
  <2> QED BY <1>5, <2>2 DEF SetExp
<1>6. ASSUME NEW p \in Callers, Compare(p) PROVE Typed'
  BY <1>6 DEF Compare
<1>7. ASSUME NEW p \in Callers, Load(p) PROVE Typed'
  <2>1. CASE map = NoEntry
    BY <1>7, <2>1 DEF Load
  <2>2. CASE map # NoEntry
    <3>1. /\ UNCHANGED <<clock, map, entry, start>>
          /\ pc' = [pc EXCEPT ![p] = "owner"]
          /\ found' = [found EXCEPT ![p] = map]
          /\ map \in Callers
      BY <1>7, <2>2 DEF Load
    <3>2. LockTypeOK'
      BY <3>1
    <3>3. FoundEntry'
      BY <3>1
    <3> QED BY <3>2, <3>3
  <2> QED BY <1>7, <2>1, <2>2
<1>8. ASSUME NEW p \in Callers, TestOwner(p) PROVE Typed'
  BY <1>8 DEF TestOwner
<1>9. ASSUME NEW p \in Callers, Remove(p) PROVE Typed'
  BY <1>9 DEF Remove
<1>10. CASE Pass
  BY <1>10 DEF Pass
<1>11. CASE UNCHANGED lockVars
  BY <1>11 DEF lockVars
<1> QED
  BY <1>1, <1>2, <1>3, <1>4, <1>5, <1>6, <1>7, <1>8, <1>9, <1>10, <1>11 DEF LockNext

\* Every step but Pass leaves the clock alone, every step but Now the starts.
LEMMA StepTimes ==
  ASSUME Typed, [LockNext]_lockVars
  PROVE  /\ clock' \in {clock, clock + 1}
         /\ start' = start \/ \E p \in Callers : start' = [start EXCEPT ![p] = clock]
<1>1. ASSUME NEW p \in Callers,
             Now(p) \/ LoadOrStore(p) \/ TestExpired(p) \/ SetToken(p) \/ SetExp(p)
             \/ Compare(p) \/ Load(p) \/ TestOwner(p) \/ Remove(p)
      PROVE  clock' = clock /\ (start' = start \/ start' = [start EXCEPT ![p] = clock])
  <2>1. CASE Now(p)
    BY <2>1 DEF Now
  <2>2. CASE LoadOrStore(p) \/ TestExpired(p) \/ Load(p) \/ TestOwner(p) \/ Compare(p)
    BY <2>2 DEF LoadOrStore, TestExpired, Load, TestOwner, Compare
  <2>3. CASE SetToken(p) \/ SetExp(p) \/ Remove(p)
    BY <2>3 DEF SetToken, SetExp, Remove
  <2> QED BY <1>1, <2>1, <2>2, <2>3
<1>2. CASE Pass
  BY <1>2, LockConstants DEF Pass, Typed, LockTypeOK
<1>3. CASE UNCHANGED lockVars
  BY <1>3 DEF lockVars
<1> QED
  BY <1>1, <1>2, <1>3 DEF LockNext

LEMMA StepStartPast ==
  ASSUME Typed, StartPast, [LockNext]_lockVars
  PROVE  StartPast'
<1> SUFFICES ASSUME NEW q \in Callers PROVE start'[q] <= clock'
  BY DEF StartPast
<1>1. clock \in Nat /\ start[q] \in Nat /\ start[q] <= clock /\ start \in [Callers -> Nat]
  BY LockConstants DEF Typed, LockTypeOK, StartPast
<1>2. start'[q] \in {start[q], clock}
  BY <1>1, StepTimes
<1>3. clock' \in {clock, clock + 1}
  BY StepTimes
<1> QED
  BY <1>1, <1>2, <1>3

LEMMA AlwaysTyped == LockSpec => [](Typed /\ StartPast)
<1>1. LockInit => StartPast
  BY DEF LockInit, StartPast
<1> QED
  BY <1>1, InitTyped, StepTyped, StepStartPast, PTL DEF LockSpec

\* LockTypeOK: clocks, leases, tokens and program counters stay in range, the
\* lease of an entry in particular never beyond one TTL after the clock's end.
THEOREM LockTypeCorrect == LockSpec => []LockTypeOK
<1>1. Typed => LockTypeOK
  BY DEF Typed
<1> QED
  BY <1>1, AlwaysTyped, PTL

(***************************************************************************)
(* Mutual exclusion.                                                       *)
(***************************************************************************)
\* Nobody ever takes an entry over: every entry keeps the token it was made
\* with, a holder's the lease it was given, and a caller that has found one
\* came before its lease was over and with another token.
Untouched ==
  /\ \A p \in Callers :
       /\ entry[p].token = Token[p]
       /\ pc[p] \in Holding => entry[p].exp = start[p] + TTL
       /\ pc[p] \notin Winning \cup {"again"}
  /\ \A p \in Callers : pc[p] \in {"expired", "compare"} =>
       /\ pc[found[p]] \notin {"idle", "store"}
       /\ Token[found[p]] # Token[p]
       /\ start[p] <= entry[found[p]].exp

\* The holder's entry is the one in the map, and only a holder's is.
HolderStored ==
  \A p \in Callers : /\ pc[p] \in Holding <=> map = p
                     /\ pc[p] = "owner" => found[p] = p

Shape == Untouched /\ HolderStored

LEMMA InitShape == LockInit => Shape
  BY LockConstants DEF LockInit, Shape, Untouched, HolderStored, Winning, Holding

\* A caller that found an entry finds its lease running.
LEMMA NeverExpired ==
  ASSUME Typed, Shape, NEW p \in Callers, pc[p] = "expired"
  PROVE  ~Expired(p)
<1>1. start[p] <= entry[found[p]].exp /\ found[p] \in Callers
  BY DEF Shape, Untouched, Typed, FoundEntry, Reading
<1>2. entry[found[p]].exp \in Nat /\ start[p] \in Nat
  BY <1>1, LockConstants DEF Typed, LockTypeOK
<1> QED
  BY <1>1, <1>2 DEF Expired

\* A caller that found an entry finds somebody else's token in it.
LEMMA NeverOwn ==
  ASSUME Typed, Shape, NEW p \in Callers, pc[p] = "compare"
  PROVE  entry[found[p]].token # Token[p]
  BY DEF Typed, FoundEntry, Reading, Shape, Untouched

\* A caller that finds the lock taken comes before the holder's lease is over,
\* and with another token than the holder's.
LEMMA HolderInTime ==
  ASSUME Disciplined, Typed, StartPast, Shape,
         NEW p \in Callers, pc[p] = "store", map # NoEntry
  PROVE  /\ map \in Callers /\ pc[map] \in Holding
         /\ Token[map] # Token[p]
         /\ start[p] <= entry[map].exp
<1>1. map \in Callers
  BY DEF Typed, LockTypeOK
<1>2. pc[map] \in Holding /\ entry[map].exp = start[map] + TTL
  BY <1>1 DEF Shape, Untouched, HolderStored
<1>3. p # map /\ p \in Calling /\ map \in Calling
  BY <1>1, <1>2 DEF Calling, Holding
<1>4. Token[map] # Token[p]
  BY <1>3 DEF Disciplined
<1>5. clock <= start[map] + TTL /\ start[p] <= clock
  BY <1>1, <1>2 DEF Disciplined, StartPast
<1>6. start[p] <= entry[map].exp
  <2>1. clock \in Nat /\ start[p] \in Nat /\ start[map] \in Nat
    BY <1>1, LockConstants DEF Typed, LockTypeOK
  <2> QED BY <1>2, <1>5, <2>1, LockConstants
<1> QED
  BY <1>1, <1>2, <1>4, <1>6

LEMMA StepShape ==
  ASSUME Disciplined, Typed, StartPast, Shape, [LockNext]_lockVars
  PROVE  Shape'
<1> USE LockConstants DEF Typed, LockTypeOK, FoundEntry, Reading, Winning, Holding, Goto,
        Shape, Untouched, HolderStored
<1>1. ASSUME NEW p \in Callers, Now(p) PROVE Shape'
  BY <1>1 DEF Now
<1>2. ASSUME NEW p \in Callers, LoadOrStore(p) PROVE Shape'
  <2>1. CASE map = NoEntry
    <3>1. /\ map' = p /\ UNCHANGED <<found, start>>
          /\ pc[p] = "store" /\ pc' = [pc EXCEPT ![p] = "held"]
          /\ entry' = [entry EXCEPT ![p] = [token |-> Token[p], exp |-> start[p] + TTL]]
      BY <1>2, <2>1 DEF LoadOrStore
    <3>2. /\ entry'[p].token = Token[p] /\ entry'[p].exp = start[p] + TTL /\ pc'[p] = "held"
          /\ \A q \in Callers : q # p => entry'[q] = entry[q] /\ pc'[q] = pc[q]
      BY <3>1
    <3>3. \A q \in Callers : pc[q] \in {"expired", "compare"} => q # p /\ found[q] # p
      BY <3>1
    <3>4. Untouched'
      BY <3>1, <3>2, <3>3
    <3>5. HolderStored'
      BY <2>1, <3>1
    <3> QED BY <3>4, <3>5
  <2>2. CASE map # NoEntry
    <3>1. /\ UNCHANGED <<map, entry, start>>
          /\ pc[p] = "store" /\ pc' = [pc EXCEPT ![p] = "expired"]
          /\ found' = [found EXCEPT ![p] = map]
      BY <1>2, <2>2 DEF LoadOrStore
    <3>2. /\ map \in Callers /\ pc[map] \in Holding
          /\ Token[map] # Token[p] /\ start[p] <= entry[map].exp
      BY <2>2, <3>1, HolderInTime
    <3>3. /\ \A q \in Callers : q # p => pc'[q] = pc[q] /\ found'[q] = found[q]
          /\ pc'[p] = "expired" /\ found'[p] = map /\ map # p
      BY <3>1, <3>2
    <3>4. Untouched'
      BY <3>1, <3>2, <3>3
    <3>5. HolderStored'
      BY <3>1, <3>3
    <3> QED BY <3>4, <3>5
  <2> QED BY <1>2, <2>1, <2>2
<1>3. ASSUME NEW p \in Callers, TestExpired(p) PROVE Shape'
  <2>1. pc[p] = "expired" /\ ~Expired(p)
    BY <1>3, NeverExpired DEF TestExpired
  <2> QED BY <1>3, <2>1 DEF TestExpired
<1>4. ASSUME NEW p \in Callers, SetToken(p) \/ SetExp(p) PROVE FALSE
  BY <1>4 DEF SetToken, SetExp
<1>5. ASSUME NEW p \in Callers, Compare(p) PROVE Shape'
  <2>1. pc[p] = "compare" /\ pc' = [pc EXCEPT ![p] = "refused"]
    BY <1>5, NeverOwn DEF Compare
  <2> QED BY <1>5, <2>1 DEF Compare
<1>6. ASSUME NEW p \in Callers, Load(p) PROVE Shape'
  <2>1. map = p
    BY <1>6 DEF Load
  <2>2. /\ UNCHANGED <<clock, map, entry, start>>
        /\ pc[p] = "held" /\ pc' = [pc EXCEPT ![p] = "owner"]
        /\ found' = [found EXCEPT ![p] = p]
    BY <1>6, <2>1, LockConstants DEF Load
  <2>3. Untouched'
    BY <2>2
  <2>4. HolderStored'
    BY <2>2
  <2> QED BY <2>3, <2>4
<1>7. ASSUME NEW p \in Callers, TestOwner(p) PROVE Shape'
  <2>1. pc[p] = "owner" /\ pc' = [pc EXCEPT ![p] = "delete"]
    BY <1>7 DEF TestOwner
  <2> QED BY <1>7, <2>1 DEF TestOwner
<1>8. ASSUME NEW p \in Callers, Remove(p) PROVE Shape'
  BY <1>8 DEF Remove
<1>9. CASE Pass
  BY <1>9 DEF Pass
<1>10. CASE UNCHANGED lockVars
  BY <1>10 DEF lockVars
<1> QED
  BY <1>1, <1>2, <1>3, <1>4, <1>5, <1>6, <1>7, <1>8, <1>9, <1>10 DEF LockNext

\* MutualExclusion: for any callers, tokens, leases and however many of them,
\* there is never more than one holder, from the return of Acquire to the Delete
\* of Release and however their steps interleave, in every behaviour in which no
\* holder outlives the lease it was given and calls at one time differ in token.
THEOREM MutualExclusionHolds == LockSpec => MutualExclusion
<1>1. LockInit => Shape
  BY InitShape
<1>2. Disciplined /\ Typed /\ StartPast /\ Shape /\ [LockNext]_lockVars => Shape'
  BY StepShape
<1>3. Shape => OneHolder
  BY DEF Shape, HolderStored, OneHolder
<1> QED
  BY <1>1, <1>2, <1>3, AlwaysTyped, PTL DEF LockSpec, MutualExclusion

(***************************************************************************)
(* No entry is left behind.                                                *)
(***************************************************************************)
\* Releasable is not inductive: a caller with the right token may have loaded
\* an earlier entry and find a foreign token there.  One of those that have
\* the right token has not, or is about to delete.
WillRelease(p) ==
  /\ pc[p] \in Winning \cup Holding
  /\ entry[map].token = Token[p]
  /\ pc[p] = "owner" => found[p] = map

Kept == map # NoEntry => \E p \in Callers : WillRelease(p)

\* A new entry or a new token in the stored one brings a new caller that will
\* release; any other step leaves the old one on its way.
LEMMA StepKept ==
  ASSUME Typed, Kept, [LockNext]_lockVars
  PROVE  Kept'
<1> USE LockConstants DEF Typed, LockTypeOK, FoundEntry, Reading, Winning, Holding, Goto,
        Kept, WillRelease
<1>1. ASSUME NEW p \in Callers, Now(p) PROVE Kept'
  BY <1>1 DEF Now
<1>2. ASSUME NEW p \in Callers, LoadOrStore(p) PROVE Kept'
  <2>1. CASE map = NoEntry
    <3>1. /\ map' = p
          /\ pc' = [pc EXCEPT ![p] = "held"]
          /\ entry' = [entry EXCEPT ![p] = [token |-> Token[p], exp |-> start[p] + TTL]]
      BY <1>2, <2>1 DEF LoadOrStore
    <3>2. pc'[p] = "held" /\ entry'[map'].token = Token[p]
      BY <3>1
    <3> QED BY <3>2
  <2>2. CASE map # NoEntry
    <3>1. PICK q \in Callers : WillRelease(q)
      BY <2>2
    <3>2. q # p /\ UNCHANGED <<map, entry>> /\ pc'[q] = pc[q] /\ found'[q] = found[q]
      BY <1>2, <2>2, <3>1 DEF LoadOrStore
    <3> QED BY <3>1, <3>2
  <2> QED BY <1>2, <2>1, <2>2
<1>3. ASSUME NEW p \in Callers, TestExpired(p) PROVE Kept'
  BY <1>3 DEF TestExpired
<1>4. ASSUME NEW p \in Callers, SetToken(p) PROVE Kept'
  <2> SUFFICES ASSUME map # NoEntry PROVE \E q \in Callers : WillRelease(q)'
    BY <1>4 DEF SetToken
  <2>1. /\ pc'[p] = "setexp" /\ map' = map /\ found' = found
        /\ \A q \in Callers : q # p => pc'[q] = pc[q]
        /\ \A e \in Callers : entry'[e].token = IF e = found[p] THEN Token[p] ELSE entry[e].token
    BY <1>4 DEF SetToken
  <2>2. CASE found[p] = map
    BY <2>1, <2>2
  <2>3. CASE found[p] # map
    <3>1. PICK q \in Callers : WillRelease(q)
      OBVIOUS
    <3>2. WillRelease(q)'
      BY <2>1, <2>3, <3>1
    <3> QED BY <3>2
  <2> QED BY <2>2, <2>3
<1>5. ASSUME NEW p \in Callers, SetExp(p) PROVE Kept'
  <2>1. /\ pc'[p] = "held" /\ map' = map /\ found' = found /\ pc[p] = "setexp"
        /\ \A q \in Callers : q # p => pc'[q] = pc[q]
        /\ \A e \in Callers : entry'[e].token = entry[e].token
    BY <1>5 DEF SetExp
  <2> QED BY <2>1
<1>6. ASSUME NEW p \in Callers, Compare(p) PROVE Kept'
  BY <1>6 DEF Compare
<1>7. ASSUME NEW p \in Callers, Load(p) PROVE Kept'
  BY <1>7 DEF Load
<1>8. ASSUME NEW p \in Callers, TestOwner(p) PROVE Kept'
  BY <1>8 DEF TestOwner
<1>9. ASSUME NEW p \in Callers, Remove(p) PROVE Kept'
  BY <1>9 DEF Remove
<1>10. CASE Pass
  BY <1>10 DEF Pass
<1>11. CASE UNCHANGED lockVars
  BY <1>11 DEF lockVars
<1> QED
  BY <1>1, <1>2, <1>3, <1>4, <1>5, <1>6, <1>7, <1>8, <1>9, <1>10, <1>11 DEF LockNext

\* Releasable: for any callers and leases, tokens presented twice and races for
\* an expired lease included, some caller whose token the stored entry bears
\* has not ended its Release, so no key stays blocked by callers that are done.
THEOREM ReleasableHolds == LockSpec => []Releasable
<1>1. LockInit => Kept
  BY DEF LockInit, Kept
<1>2. Kept => Releasable
  BY DEF Kept, WillRelease, Releasable
<1> QED
  BY <1>1, <1>2, StepKept, AlwaysTyped, PTL DEF LockSpec
=============================================================================
