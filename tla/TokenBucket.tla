---------------------------- MODULE TokenBucket ----------------------------
(***************************************************************************)
(* What the rate limiter promises: one bucket per address, full at first,  *)
(* that gains a token per unit of time up to Burst and loses one for every *)
(* request let through.  Nothing is ever forgotten about an address.       *)
(* The unit of time is 1 / RATE_LIMIT_RPS.                                 *)
(*                                                                         *)
(* granted counts the requests let through from the time From on: From is  *)
(* any fixed time, so a bound on granted is a bound for every window.      *)
(***************************************************************************)
EXTENDS Integers

CONSTANTS Addrs, Burst, From

VARIABLES now, level, granted

bucketVars == <<now, level, granted>>

BucketInit ==
  /\ now = 0
  /\ level = [a \in Addrs |-> Burst]
  /\ granted = [a \in Addrs |-> 0]

BucketTick ==
  /\ now' = now + 1
  /\ level' = [a \in Addrs |-> IF level[a] < Burst THEN level[a] + 1 ELSE Burst]
  /\ UNCHANGED granted

Counted(a) ==
  granted' = [granted EXCEPT ![a] = IF now >= From THEN @ + 1 ELSE @]

LetThrough(a) ==
  /\ level[a] >= 1
  /\ level' = [level EXCEPT ![a] = @ - 1]
  /\ Counted(a)
  /\ UNCHANGED now

BucketNext == BucketTick \/ \E a \in Addrs : LetThrough(a)

BucketSpec == BucketInit /\ [][BucketNext]_bucketVars
==========================================================================
