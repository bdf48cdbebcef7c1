----------------------------- MODULE RateLimiter -----------------------------
(***************************************************************************)
(* The per-address limiter of internal/server/server.go: two maps under    *)
(* one mutex, refilled lazily when an address asks, and swept of addresses *)
(* that have been idle for longer than TTL.  Each method holds the mutex   *)
(* from its first line to its return, so each is one step.                 *)
(*                                                                         *)
(* last[key] is kept as an age in ticks, which the passing of time raises. *)
(* The code's floating-point tokens are whole units here, Minute a token.  *)
(***************************************************************************)
EXTENDS Integers

CONSTANTS
  Clients,     \* client addresses (clientIP)
  PerMin,      \* rateLimiter.perMin
  Minute,      \* ticks in a minute
  TTL          \* ticks an address may stay idle (2 hours in Server.Start)

ASSUME LimiterConstants ==
  /\ PerMin \in Nat \ {0}
  /\ Minute \in Nat \ {0}
  /\ TTL \in Nat
  /\ TTL >= Minute

VARIABLES
  tokens,      \* rateLimiter.tokens, in units; its domain is the addresses known
  last,        \* rateLimiter.last, as an age; saturates past TTL
  verdict      \* the last answer each address was given

limiterVars == <<tokens, last, verdict>>

Full == PerMin * Minute

Least(a, b) == IF a <= b THEN a ELSE b

With(f, k, v) == [x \in DOMAIN f \cup {k} |-> IF x = k THEN v ELSE f[x]]

LimiterTypeOK ==
  /\ DOMAIN tokens \subseteq Clients
  /\ tokens \in [DOMAIN tokens -> 0 .. Full]
  /\ last \in [DOMAIN tokens -> 0 .. TTL + 1]
  /\ verdict \in [Clients -> {"none", "admitted", "refused"}]

LimiterInit ==
  /\ tokens = [c \in {} |-> 0]
  /\ last = [c \in {} |-> 0]
  /\ verdict = [c \in Clients |-> "none"]

\* Mutant: no ceiling on the refill of an idle address.
RefilledWithoutCeiling(c) ==
  IF c \notin DOMAIN tokens THEN Full ELSE tokens[c] + last[c] * PerMin

\* The tokens allow finds: a new address starts full, a known one has refilled
\* since it last asked, up to the ceiling.
Refilled(c) ==
  IF c \notin DOMAIN tokens THEN Full ELSE Least(Full, tokens[c] + last[c] * PerMin)

\* allow, returning true.
Allow(c) ==
  /\ Refilled(c) >= Minute
  /\ tokens' = With(tokens, c, Refilled(c) - Minute)
  /\ last' = With(last, c, 0)
  /\ verdict' = [verdict EXCEPT ![c] = "admitted"]

\* Mutant: a refusal moves last but forgets what had been refilled.
DenyForgetting(c) ==
  /\ Refilled(c) < Minute
  /\ last' = With(last, c, 0)
  /\ verdict' = [verdict EXCEPT ![c] = "refused"]
  /\ UNCHANGED tokens

\* allow, returning false: what was refilled is kept.
Deny(c) ==
  /\ Refilled(c) < Minute
  /\ tokens' = With(tokens, c, Refilled(c))
  /\ last' = With(last, c, 0)
  /\ verdict' = [verdict EXCEPT ![c] = "refused"]

\* Mutant: the sweep evicts every address, however recently it asked.
CleanupAll ==
  /\ tokens' = [c \in {} |-> 0]
  /\ last' = [c \in {} |-> 0]
  /\ UNCHANGED verdict

\* cleanup(2h), run every five minutes.
Cleanup ==
  LET kept == {c \in DOMAIN last : last[c] <= TTL}
  IN  /\ tokens' = [c \in kept |-> tokens[c]]
      /\ last' = [c \in kept |-> last[c]]
      /\ UNCHANGED verdict

\* A tick of the clock every address is measured by.
LimiterTick ==
  /\ last' = [c \in DOMAIN last |-> Least(TTL + 1, last[c] + 1)]
  /\ UNCHANGED <<tokens, verdict>>

LimiterNext ==
  \/ \E c \in Clients : Allow(c) \/ Deny(c)
  \/ Cleanup
  \/ LimiterTick

LimiterSpec == LimiterInit /\ [][LimiterNext]_limiterVars

(***************************************************************************)
(* Properties.                                                             *)
(***************************************************************************)

\* Lazy refill, a stamp that moves on refusals too, and eviction are all
\* invisible: every address sees the bucket of TokenBucket.
TB == INSTANCE TokenBucket WITH level <- [c \in Clients |-> Refilled(c)]

IsTokenBucket == TB!BucketSpec
=============================================================================
