------------------------------ MODULE MemoryLock ------------------------------
(***************************************************************************)
(* internal/lock/memory.go: Acquire and Release of one key.  A caller      *)
(* acquires once, does its work and releases once, as Scheduler.spawn      *)
(* does.  LoadOrStore, Load and Delete of the sync.Map are atomic; the     *)
(* entry they return is shared and is read and written with no lock, so    *)
(* every access to one of its fields is a step.  A token is a string of    *)
(* fixed length and two times are compared by one word, so a read races to *)
(* an old or a new value and never to a mixture.                           *)
(***************************************************************************)
EXTENDS Naturals, FiniteSets

CONSTANTS
  Callers,
  Token,     \* Token[p] is the token p presents: the millisecond of its call
  NoEntry,
  TTL,
  MaxTime    \* bound: clock

ASSUME LockConstants ==
  /\ NoEntry \notin Callers
  /\ DOMAIN Token = Callers
  /\ TTL \in Nat
  /\ MaxTime \in Nat

VARIABLES
  clock,
  map,       \* the entry stored under the key, named by the caller that stored it
  entry,     \* the entries: token and expiry
  pc,
  start,     \* the `now` of a caller's Acquire
  found      \* the entry a caller got from the map

lockVars == <<clock, map, entry, pc, start, found>>

Winning == {"settoken", "setexp"}
Holding == {"held", "owner", "delete"}

LockTypeOK ==
  /\ clock \in 0 .. MaxTime
  /\ map \in Callers \cup {NoEntry}
  /\ entry \in [Callers -> [token : {Token[p] : p \in Callers}, exp : 0 .. (MaxTime + TTL)]]
  /\ pc \in [Callers -> Winning \cup Holding \cup
               {"idle", "store", "expired", "again", "compare", "refused", "done"}]
  /\ start \in [Callers -> 0 .. MaxTime]
  /\ found \in [Callers -> Callers \cup {NoEntry}]

LockInit ==
  /\ clock = 0
  /\ map = NoEntry
  /\ entry = [p \in Callers |-> [token |-> Token[p], exp |-> 0]]
  /\ pc = [p \in Callers |-> "idle"]
  /\ start = [p \in Callers |-> 0]
  /\ found = [p \in Callers |-> NoEntry]

Goto(p, from, to) == pc[p] = from /\ pc' = [pc EXCEPT ![p] = to]

(***************************************************************************)
(* Acquire.                                                                *)
(***************************************************************************)
Now(p) ==
  /\ Goto(p, "idle", "store")
  /\ start' = [start EXCEPT ![p] = clock]
  /\ UNCHANGED <<clock, map, entry, found>>

LoadOrStore(p) ==
  /\ \/ /\ map = NoEntry
        /\ Goto(p, "store", "held")
        /\ map' = p
        /\ entry' = [entry EXCEPT ![p] = [token |-> Token[p], exp |-> start[p] + TTL]]
        /\ UNCHANGED found
     \/ /\ map # NoEntry
        /\ Goto(p, "store", "expired")
        /\ found' = [found EXCEPT ![p] = map]
        /\ UNCHANGED <<map, entry>>
  /\ UNCHANGED <<clock, start>>

\* Mutant: a lease counts as run out at its last moment.
ExpiredEarly(p) == entry[found[p]].exp <= start[p]

Expired(p) == entry[found[p]].exp < start[p]

\* The two tests of the expiry, one after the other.
TestExpired(p) ==
  /\ \/ Goto(p, "expired", "again") /\ Expired(p)
     \/ Goto(p, "expired", "compare") /\ ~Expired(p)
     \/ Goto(p, "again", "settoken") /\ Expired(p)
     \/ Goto(p, "again", "compare") /\ ~Expired(p)
  /\ UNCHANGED <<clock, map, entry, start, found>>

SetToken(p) ==
  /\ Goto(p, "settoken", "setexp")
  /\ entry' = [entry EXCEPT ![found[p]].token = Token[p]]
  /\ UNCHANGED <<clock, map, start, found>>

\* Mutant: the lease is lengthened instead of set anew.
SetExpLonger(p) ==
  /\ Goto(p, "setexp", "held")
  /\ entry' = [entry EXCEPT ![found[p]].exp = @ + TTL]
  /\ UNCHANGED <<clock, map, start, found>>

SetExp(p) ==
  /\ Goto(p, "setexp", "held")
  /\ entry' = [entry EXCEPT ![found[p]].exp = start[p] + TTL]
  /\ UNCHANGED <<clock, map, start, found>>

Compare(p) ==
  /\ \/ Goto(p, "compare", "setexp") /\ entry[found[p]].token = Token[p]
     \/ Goto(p, "compare", "refused") /\ entry[found[p]].token # Token[p]
  /\ UNCHANGED <<clock, map, entry, start, found>>

(***************************************************************************)
(* Release.                                                                *)
(***************************************************************************)
Load(p) ==
  /\ \/ /\ map = NoEntry
        /\ Goto(p, "held", "done")
        /\ UNCHANGED found
     \/ /\ map # NoEntry
        /\ Goto(p, "held", "owner")
        /\ found' = [found EXCEPT ![p] = map]
  /\ UNCHANGED <<clock, map, entry, start>>

\* Mutant: an owner that finds its lease expired leaves the entry alone.
TestOwnerInTime(p) ==
  /\ \/ /\ Goto(p, "owner", "delete")
        /\ entry[found[p]].token = Token[p] /\ entry[found[p]].exp >= clock
     \/ /\ Goto(p, "owner", "done")
        /\ entry[found[p]].token # Token[p] \/ entry[found[p]].exp < clock
  /\ UNCHANGED <<clock, map, entry, start, found>>

TestOwner(p) ==
  /\ \/ Goto(p, "owner", "delete") /\ entry[found[p]].token = Token[p]
     \/ Goto(p, "owner", "done") /\ entry[found[p]].token # Token[p]
  /\ UNCHANGED <<clock, map, entry, start, found>>

Remove(p) ==
  /\ Goto(p, "delete", "done")
  /\ map' = NoEntry
  /\ UNCHANGED <<clock, entry, start, found>>

Pass ==
  /\ clock < MaxTime
  /\ clock' = clock + 1
  /\ UNCHANGED <<map, entry, pc, start, found>>

LockNext ==
  \/ \E p \in Callers :
       \/ Now(p) \/ LoadOrStore(p) \/ TestExpired(p)
       \/ SetToken(p) \/ SetExp(p) \/ Compare(p)
       \/ Load(p) \/ TestOwner(p) \/ Remove(p)
  \/ Pass

LockSpec == LockInit /\ [][LockNext]_lockVars

(***************************************************************************)
(* Properties.                                                             *)
(***************************************************************************)
\* The callers between the first step of Acquire and the last of Release.
Calling == {p \in Callers : pc[p] \notin {"idle", "refused", "done"}}

\* No holder has outlived the lease it was given, and those at it differ in
\* their tokens.
Disciplined ==
  /\ \A p \in Callers : pc[p] \in Holding => clock <= start[p] + TTL
  /\ \A p, q \in Calling : Token[p] = Token[q] => p = q

OneHolder == \A p, q \in Callers : pc[p] \in Holding /\ pc[q] \in Holding => p = q

\* While every holder is done before its own lease is over, and no two calls at
\* one time present one token, there is never more than one holder, from the
\* moment Acquire returns to the moment Release has deleted the entry: in the
\* tenth lease as in the first, also for a caller that found an entry which has
\* been released, and stored again by another, before the caller looks at it.
MutualExclusion == []Disciplined => []OneHolder

\* No entry is left behind: whatever races for an expired lease, and even when
\* two callers present the same token, the caller the stored entry names has
\* still to release it, so the key is never blocked by a caller that is done.
Releasable ==
  map # NoEntry => \E p \in Callers : /\ pc[p] \in Winning \cup Holding
                                      /\ entry[map].token = Token[p]
=============================================================================
