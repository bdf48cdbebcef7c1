----------------------------- MODULE TokenBucket -----------------------------
(***************************************************************************)
(* What the rate limiter promises each client address: a bucket of its own *)
(* that starts full, refills by PerMin units a tick, never holds more than *)
(* PerMin tokens, and answers a request by whether it holds a token.  The  *)
(* bucket knows nothing of when it was last looked at, or of eviction.     *)
(*                                                                         *)
(* A token is Minute units, so that a tick refills a whole number of them. *)
(***************************************************************************)
EXTENDS Naturals

CONSTANTS
  Clients,     \* client addresses
  PerMin,      \* the --rate-limit flag: capacity and refill per minute
  Minute       \* ticks in a minute

VARIABLES
  level,       \* client -> units in its bucket
  verdict      \* client -> the last answer it was given

bucketVars == <<level, verdict>>

Verdict == {"none", "admitted", "refused"}

Full == PerMin * Minute

Least(a, b) == IF a <= b THEN a ELSE b

BucketInit ==
  /\ level = [c \in Clients |-> Full]
  /\ verdict = [c \in Clients |-> "none"]

Admit(c) ==
  /\ level[c] >= Minute
  /\ level' = [level EXCEPT ![c] = @ - Minute]
  /\ verdict' = [verdict EXCEPT ![c] = "admitted"]

Refuse(c) ==
  /\ level[c] < Minute
  /\ verdict' = [verdict EXCEPT ![c] = "refused"]
  /\ UNCHANGED level

Refill ==
  /\ level' = [c \in Clients |-> Least(Full, level[c] + PerMin)]
  /\ UNCHANGED verdict

BucketNext == Refill \/ \E c \in Clients : Admit(c) \/ Refuse(c)

BucketSpec == BucketInit /\ [][BucketNext]_bucketVars
=============================================================================
