---------------------------- MODULE RateLimiter ----------------------------
(***************************************************************************)
(* The limiter in front of the API's router (http/ratelimit.go).  An entry *)
(* is refilled only when its address asks again, and cleanup forgets       *)
(* entries that were idle for ten minutes.  It implements TokenBucket,     *)
(* which forgets nothing, as long as a bucket fills up within that time.   *)
(*                                                                         *)
(* An address is r.RemoteAddr, host and port: one per TCP connection.      *)
(* Time is counted in units of 1 / RATE_LIMIT_RPS, so that elapsed * rate  *)
(* is a whole number.                                                      *)
(***************************************************************************)
EXTENDS Integers

CONSTANTS
  Addrs,
  Burst,      \* RATE_LIMIT_BURST (20)
  IdleLimit,  \* ten minutes (6000 units at 10 requests a second)
  From,       \* requests are counted from this time on
  MaxTime     \* bound on time

ASSUME LimiterAssumption ==
  /\ Burst \in Nat \ {0}
  /\ IdleLimit \in Nat /\ IdleLimit >= Burst
  /\ From \in Nat
  /\ MaxTime \in Nat

VARIABLES
  now,
  known,      \* the keys of rl.clients
  tokens, last,
  granted     \* granted[a]: requests let through since From (history)

limiterVars == <<now, known, tokens, last, granted>>

LimiterTypeOK ==
  /\ now \in 0..MaxTime
  /\ known \in SUBSET Addrs
  /\ tokens \in [Addrs -> 0..Burst]
  /\ last \in [Addrs -> 0..now]
  /\ granted \in [Addrs -> Nat]

LimiterInit ==
  /\ now = 0
  /\ known = {}
  /\ tokens = [a \in Addrs |-> 0]
  /\ last = [a \in Addrs |-> 0]
  /\ granted = [a \in Addrs |-> 0]

Tick == now < MaxTime /\ now' = now + 1 /\ UNCHANGED <<known, tokens, last, granted>>

\* Mutant of Refilled: the bucket is refilled without a bound.
RefilledFreely(a) == tokens[a] + (now - last[a])

\* c.tokens += elapsed * rate, at most burst.
Refilled(a) ==
  IF tokens[a] + (now - last[a]) > Burst THEN Burst ELSE tokens[a] + (now - last[a])

\* What a request from a finds; a new entry starts full.
Available(a) == IF a \in known THEN Refilled(a) ELSE Burst

\* Mutant of Allow: an entry that exists keeps its time.
AllowKeepsTime(a) ==
  /\ Available(a) >= 1
  /\ known' = known \cup {a}
  /\ tokens' = [tokens EXCEPT ![a] = Available(a) - 1]
  /\ last' = IF a \in known THEN last ELSE [last EXCEPT ![a] = now]
  /\ granted' = [granted EXCEPT ![a] = IF now >= From THEN @ + 1 ELSE @]
  /\ UNCHANGED now

\* allow returns TRUE.
Allow(a) ==
  /\ Available(a) >= 1
  /\ known' = known \cup {a}
  /\ tokens' = [tokens EXCEPT ![a] = Available(a) - 1]
  /\ last' = [last EXCEPT ![a] = now]
  /\ granted' = [granted EXCEPT ![a] = IF now >= From THEN @ + 1 ELSE @]
  /\ UNCHANGED now

\* allow returns FALSE: 429.
Refuse(a) ==
  /\ Available(a) < 1
  /\ tokens' = [tokens EXCEPT ![a] = Available(a)]
  /\ last' = [last EXCEPT ![a] = now]
  /\ UNCHANGED <<now, known, granted>>

Forget(gone) ==
  /\ known' = known \ gone
  /\ tokens' = [a \in Addrs |-> IF a \in gone THEN 0 ELSE tokens[a]]
  /\ last' = [a \in Addrs |-> IF a \in gone THEN 0 ELSE last[a]]
  /\ UNCHANGED <<now, granted>>

\* Mutant of Cleanup: entries of any age are forgotten.
CleanupAll == Forget(known)

\* cleanup, every five minutes: forgets the entries idle for longer than the
\* limit.
Cleanup == Forget({a \in known : now - last[a] > IdleLimit})

LimiterNext == Tick \/ Cleanup \/ \E a \in Addrs : Allow(a) \/ Refuse(a)

LimiterSpec == LimiterInit /\ [][LimiterNext]_limiterVars

\* The bucket of an address as TokenBucket sees it.
Level == [a \in Addrs |-> Available(a)]

Bucket == INSTANCE TokenBucket WITH level <- Level

\* Refilling late and forgetting idle clients is not to be told from a bucket
\* that is always up to date and never forgotten: Cleanup and Refuse leave every
\* bucket as it is, and a request is let through only by a token in it.
ImplementsBucket == Bucket!BucketSpec

\* From any time From on an address is let through at most Burst times, and
\* once more per unit of time; before that nothing is counted.
WithinBudget ==
  \A a \in Addrs :
    granted[a] <= (IF now < From THEN 0 ELSE Burst + (now - From))
==========================================================================
