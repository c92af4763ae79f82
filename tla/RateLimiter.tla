---------------------------- MODULE RateLimiter -----------------------------
(***************************************************************************)
(* The limit on the requests of an address                                 *)
(* (internal/server/middleware/ratelimit.go): a bucket of tokens for each, *)
(* under one mutex, and the goroutine that drops buckets of addresses that *)
(* were silent for a while.                                                *)
(*                                                                         *)
(* Abstractions: the rate is one token in PerToken ticks, and a bucket     *)
(* counts ticks.                                                           *)
(***************************************************************************)
EXTENDS Integers, Sequences

CONSTANTS
  Addresses,
  PerToken,      \* 1 / rate
  Burst,         \* capacity
  Stale,         \* ten minutes
  LastTick       \* bound: time

(* The silence after which a bucket is dropped is longer than it takes to  *)
(* fill it: two seconds with the numbers of fx.go.                         *)
ASSUME RateAssumption ==
  /\ PerToken \in Nat \ {0} /\ Burst \in Nat /\ Stale \in Nat /\ LastTick \in Nat
  /\ Stale >= Burst * PerToken

VARIABLES
  buckets,       \* tokens and lastTime of each address, if it has a bucket
  tick,          \* the time
  passed         \* history: the times of the requests let through

rateVars == <<buckets, tick, passed>>

NoBucket == [tokens |-> 0, lastTime |-> -1]
FullAt(t) == [tokens |-> Burst * PerToken, lastTime |-> t]

RateInit ==
  /\ buckets = [a \in Addresses |-> NoBucket] /\ tick = 0
  /\ passed = [a \in Addresses |-> <<>>]

Grown(b)      == b.tokens + (tick - b.lastTime)
F_Refilled(b) == Grown(b)
Refilled(b)   == IF Grown(b) > Burst * PerToken THEN Burst * PerToken ELSE Grown(b)

(* allow.                                                                  *)
Allow(a) ==
  LET b == IF buckets[a] = NoBucket THEN FullAt(tick) ELSE buckets[a]
      n == Refilled(b)
      ok == n >= PerToken
  IN /\ buckets' = [buckets EXCEPT ![a] = [tokens |-> IF ok THEN n - PerToken ELSE n, lastTime |-> tick]]
     /\ passed' = IF ok THEN [passed EXCEPT ![a] = Append(@, tick)] ELSE passed
     /\ UNCHANGED tick

(* The ticker of the clean-up.                                             *)
CleanBuckets ==
  /\ buckets' = [a \in Addresses |-> IF tick - buckets[a].lastTime > Stale THEN NoBucket ELSE buckets[a]]
  /\ UNCHANGED <<tick, passed>>

Tick == tick < LastTick /\ tick' = tick + 1 /\ UNCHANGED <<buckets, passed>>

RateNext == (\E a \in Addresses : Allow(a)) \/ CleanBuckets \/ Tick
RateSpec == RateInit /\ [][RateNext]_rateVars

-----------------------------------------------------------------------------
(* Every variable has its type. *)
RateTypeOK ==
  /\ \A a \in Addresses : buckets[a].tokens \in 0 .. Burst * PerToken /\ buckets[a].lastTime \in -1 .. tick
  /\ tick \in 0 .. LastTick

(* In no stretch of time, from one request that passed to another, does an *)
(* address pass more often than the burst and the rate together allow,     *)
(* also when its bucket was dropped in it.                                 *)
NoStretchIsTooBusy ==
  \A a \in Addresses : \A i, j \in DOMAIN passed[a] :
    i <= j => PerToken * (j - i + 1) <= Burst * PerToken + (passed[a][j] - passed[a][i])

=============================================================================
