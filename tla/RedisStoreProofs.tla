-------------------------- MODULE RedisStoreProofs --------------------------
(* Proofs about RedisStore, for any number of calls, keys, expiries and batches.*)
(*                                                                              *)
(* The argument: INCR gives every call a number above all that were given since *)
(* the key last expired, whether it is used or not; and of the keys that were   *)
(* there when a sweep began, those still there are ahead of it or in its batch. *)
EXTENDS RedisStore, TLAPS

Incremented == {"checking", "counted"}

\* A number was given in this life of the counter key or in an earlier one.
LivesPast == \A c \in Counts : count[c] \in Incremented => life[c] <= lives

\* The numbers of this life are at most the counter ...
RanksBelow ==
  \A c \in Counts : count[c] \in Incremented /\ life[c] = lives => rank[c] \in 1..counter

\* ... and those of any one life are different.
RanksDiffer ==
  \A c, d \in Counts :
    c # d /\ count[c] \in Incremented /\ count[d] \in Incremented /\ life[c] = life[d] =>
      rank[c] # rank[d]

\* What was there from the beginning and is there still has yet to be seen, or is
\* in the batch.
StaleAhead ==
  \A s \in Sweeps :
    /\ sweep[s] = "scanning" => cache \cap stale[s] \subseteq unseen[s]
    /\ sweep[s] = "deleting" => cache \cap stale[s] \subseteq unseen[s] \cup batch[s]

IInv ==
  /\ RedisTypeOK /\ LivesPast /\ RanksBelow /\ RanksDiffer /\ StaleAhead
  /\ SweepIsComplete

USE RedisBoundsAssumption
USE DEF counterVars, cacheVars, Incremented

\* No call has begun, and Redis has no key of ours.
LEMMA InitInv == RedisInit => IInv
<1> SUFFICES ASSUME RedisInit PROVE IInv
  OBVIOUS
<1>1. counter \in Nat /\ lives \in Nat /\ batches \in [Sweeps -> Nat]
  BY DEF RedisInit
<1>2. rank \in [Counts -> Nat] /\ life \in [Counts -> Nat]
  BY DEF RedisInit
<1>3. RedisTypeOK
  BY <1>1, <1>2, Zenon DEF RedisInit, RedisTypeOK
<1>4. /\ LivesPast /\ RanksBelow /\ RanksDiffer /\ StaleAhead
      /\ SweepIsComplete
  BY DEF RedisInit, LivesPast, RanksBelow, RanksDiffer, StaleAhead, SweepIsComplete
<1> QED
  BY <1>3, <1>4 DEF IInv

\* Every command keeps IInv: first the parts that it leaves as they were or keeps by
\* themselves, then the others.
LEMMA StepInv == IInv /\ [RedisNext]_redisVars => IInv'
<1> SUFFICES ASSUME IInv, [RedisNext]_redisVars PROVE IInv'
  OBVIOUS
<1>1. ASSUME NEW c \in Counts, CountExpire(c) PROVE IInv'
  <2>1. /\ LivesPast' /\ RanksBelow' /\ RanksDiffer' /\ StaleAhead'
       /\ SweepIsComplete'
    BY <1>1
    DEF IInv, RedisTypeOK, LivesPast, RanksBelow, RanksDiffer, StaleAhead,
        SweepIsComplete, CountExpire
  <2>2. RedisTypeOK'
    <3>1. UNCHANGED timed \/ (counter > 0 /\ timed' = TRUE)
      BY <1>1, Zenon DEF CountExpire
    <3>2. timed' \in BOOLEAN /\ (timed' => counter > 0)
      <4>1. CASE UNCHANGED timed
        BY <4>1, Zenon DEF IInv, RedisTypeOK
      <4>2. CASE counter > 0 /\ timed' = TRUE
        BY <4>2
      <4> QED
        BY <3>1, <4>1, <4>2, Zenon
    <3>3. count' \in [Counts -> {"new", "skipped", "counting", "checking", "counted", "failed"}]
      BY <1>1, Zenon DEF IInv, RedisTypeOK, CountExpire
    <3>4. UNCHANGED <<connected, counter, lives, rank, life, cache, sweep, unseen, batch,
                      batches, stale>>
      BY <1>1, Zenon DEF CountExpire
    <3> QED
      BY <3>2, <3>3, <3>4, Zenon DEF IInv, RedisTypeOK
  <2> QED BY <2>1, <2>2 DEF IInv
<1>2. ASSUME NEW c \in Counts, CountIncr(c) PROVE IInv'
  <2>1. /\ RedisTypeOK' /\ StaleAhead' /\ SweepIsComplete'
    BY <1>2 DEF IInv, RedisTypeOK, StaleAhead, SweepIsComplete, CountIncr
  <2>2. LivesPast'
    BY <1>2 DEF IInv, RedisTypeOK, LivesPast, CountIncr
  <2>3. RanksBelow'
    BY <1>2 DEF IInv, RedisTypeOK, RanksBelow, CountIncr
  <2>4. RanksDiffer'
    BY <1>2
    DEF IInv, RedisTypeOK, LivesPast, RanksBelow, RanksDiffer, CountIncr
  <2> QED BY <2>1, <2>2, <2>3, <2>4 DEF IInv
<1>3. ASSUME NEW c \in Counts, CountFails(c) PROVE IInv'
  <2>1. /\ RedisTypeOK' /\ LivesPast' /\ RanksDiffer' /\ StaleAhead'
       /\ SweepIsComplete'
    BY <1>3
    DEF IInv, RedisTypeOK, LivesPast, RanksDiffer, StaleAhead,
        SweepIsComplete, CountFails
  <2>2. RanksBelow'
    BY <1>3 DEF IInv, RedisTypeOK, RanksBelow, CountFails
  <2> QED BY <2>1, <2>2 DEF IInv
<1>4. ASSUME NEW c \in Counts, CountReturns(c) PROVE IInv'
  <2>1. /\ RedisTypeOK' /\ StaleAhead' /\ SweepIsComplete'
    BY <1>4
    DEF IInv, RedisTypeOK, StaleAhead, SweepIsComplete, CountReturns
  <2>2. LivesPast'
    BY <1>4 DEF IInv, RedisTypeOK, LivesPast, CountReturns
  <2>3. RanksBelow'
    BY <1>4 DEF IInv, RedisTypeOK, RanksBelow, CountReturns
  <2>4. RanksDiffer'
    BY <1>4 DEF IInv, RedisTypeOK, RanksDiffer, CountReturns
  <2> QED BY <2>1, <2>2, <2>3, <2>4 DEF IInv
<1>5. ASSUME CounterExpires PROVE IInv'
  <2>1. /\ RanksDiffer' /\ StaleAhead' /\ SweepIsComplete'
    BY <1>5
    DEF IInv, RedisTypeOK, RanksDiffer, StaleAhead, SweepIsComplete,
        CounterExpires
  <2>2. RedisTypeOK'
    <3>1. counter' \in Nat /\ lives' \in Nat
      BY <1>5 DEF IInv, RedisTypeOK, CounterExpires
    <3>2. timed' = FALSE /\ UNCHANGED <<connected, count, rank, life, cacheVars>>
      BY <1>5, Zenon DEF CounterExpires
    <3> QED
      BY <3>1, <3>2, Zenon DEF IInv, RedisTypeOK
  <2>3. LivesPast'
    BY <1>5 DEF IInv, RedisTypeOK, LivesPast, CounterExpires
  <2>4. RanksBelow'
    BY <1>5 DEF IInv, RedisTypeOK, LivesPast, RanksBelow, CounterExpires
  <2> QED BY <2>1, <2>2, <2>3, <2>4 DEF IInv
<1>6. ASSUME NEW k \in Keys, CacheSet(k) PROVE IInv'
  <2>1. /\ RedisTypeOK' /\ LivesPast' /\ RanksBelow' /\ RanksDiffer'
       /\ StaleAhead' /\ SweepIsComplete'
    BY <1>6
    DEF IInv, RedisTypeOK, LivesPast, RanksBelow, RanksDiffer, StaleAhead,
        SweepIsComplete, CacheSet
  <2> QED BY <2>1 DEF IInv
<1>7. ASSUME NEW k \in Keys, CacheRemove(k) PROVE IInv'
  <2>1. /\ RedisTypeOK' /\ LivesPast' /\ RanksBelow' /\ RanksDiffer'
       /\ StaleAhead' /\ SweepIsComplete'
    BY <1>7
    DEF IInv, RedisTypeOK, LivesPast, RanksBelow, RanksDiffer, StaleAhead,
        SweepIsComplete, CacheRemove
  <2> QED BY <2>1 DEF IInv
<1>8. ASSUME NEW s \in Sweeps, BeginSweep(s) PROVE IInv'
  <2>1. /\ RedisTypeOK' /\ LivesPast' /\ RanksBelow' /\ RanksDiffer'
       /\ SweepIsComplete'
    BY <1>8
    DEF IInv, RedisTypeOK, LivesPast, RanksBelow, RanksDiffer,
        SweepIsComplete, BeginSweep
  <2>2. StaleAhead'
    BY <1>8 DEF IInv, RedisTypeOK, StaleAhead, BeginSweep
  <2> QED BY <2>1, <2>2 DEF IInv
<1>9. ASSUME NEW s \in Sweeps, DeleteBatch(s) PROVE IInv'
  <2>1. /\ RedisTypeOK' /\ LivesPast' /\ RanksBelow' /\ RanksDiffer'
    BY <1>9
    DEF IInv, RedisTypeOK, LivesPast, RanksBelow, RanksDiffer, DeleteBatch
  <2>2. StaleAhead'
    BY <1>9 DEF IInv, RedisTypeOK, StaleAhead, DeleteBatch
  <2>3. SweepIsComplete'
    BY <1>9
    DEF IInv, RedisTypeOK, StaleAhead, SweepIsComplete, DeleteBatch
  <2> QED BY <2>1, <2>2, <2>3 DEF IInv
<1>10. ASSUME NEW s \in Sweeps, SweepFails(s) PROVE IInv'
  <2>1. /\ RedisTypeOK' /\ LivesPast' /\ RanksBelow' /\ RanksDiffer'
       /\ StaleAhead' /\ SweepIsComplete'
    BY <1>10
    DEF IInv, RedisTypeOK, LivesPast, RanksBelow, RanksDiffer, StaleAhead,
        SweepIsComplete, SweepFails
  <2> QED BY <2>1 DEF IInv
<1>11. ASSUME NEW s \in Sweeps, NEW keys \in SUBSET Keys, ScanBatch(s, keys) PROVE IInv'
  <2>1. /\ RedisTypeOK' /\ LivesPast' /\ RanksBelow' /\ RanksDiffer'
       /\ SweepIsComplete'
    BY <1>11
    DEF IInv, RedisTypeOK, LivesPast, RanksBelow, RanksDiffer,
        SweepIsComplete, ScanBatch
  <2>2. StaleAhead'
    BY <1>11 DEF IInv, RedisTypeOK, StaleAhead, ScanBatch
  <2> QED BY <2>1, <2>2 DEF IInv
<1>12. CASE UNCHANGED redisVars
  BY <1>12, Zenon
  DEF IInv, RedisTypeOK, LivesPast, RanksBelow, RanksDiffer, StaleAhead,
      SweepIsComplete, redisVars
<1> QED BY <1>1, <1>2, <1>3, <1>4, <1>5, <1>6, <1>7, <1>8, <1>9, <1>10, <1>11,
    <1>12
  DEF RedisNext

\* IInv holds in every reachable state.
LEMMA Inductive == RedisSpec => []IInv
<1> QED
  BY InitInv, StepInv, PTL DEF RedisSpec

\* The variables keep their types, and a counter with a time to live has a value.
THEOREM TypeCorrect == RedisSpec => []RedisTypeOK
<1>1. IInv => RedisTypeOK
  BY DEF IInv
<1> QED
  BY <1>1, Inductive, PTL

\* TokenStore.IncrCounter: no two calls between two expiries are told the same number.
THEOREM CountsAreDistinct == RedisSpec => []RanksDistinct
<1>1. IInv => RanksDistinct
  BY DEF IInv, RedisTypeOK, LivesPast, RanksBelow, RanksDiffer, RanksDistinct
<1> QED
  BY <1>1, Inductive, PTL

\* TokenStore.CacheDeleteByPattern: success means that what was cached is gone.
THEOREM SweepLeavesNothing == RedisSpec => []SweepIsComplete
<1>1. IInv => SweepIsComplete
  BY DEF IInv
<1> QED
  BY <1>1, Inductive, PTL
=============================================================================
