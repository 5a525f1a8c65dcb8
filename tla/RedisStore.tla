----------------------------- MODULE RedisStore -----------------------------
(* The operations of TokenStore besides the blacklist: the counter that a rate  *)
(* limiter would use, and the sweep of cached keys by a pattern, command by     *)
(* command, among other callers of the same Redis server.                       *)
(*                                                                              *)
(* There is one counter key, outside of the pattern. Whether a key has a time   *)
(* to live is all that is kept of it, and one that has may go at any moment.    *)
EXTENDS Naturals

CONSTANTS Counts,    \* calls of IncrCounter
          Sweeps,    \* calls of CacheDeleteByPattern
          Keys,      \* cache keys that match the pattern
          MaxLives,  \* bound on how often the counter key expires
          MaxBatches \* bound on the batches of one sweep

ASSUME RedisBoundsAssumption == MaxLives \in Nat /\ MaxBatches \in Nat

VARIABLES
  connected,  \* NewClient reached Redis; otherwise every operation returns at once
  counter,    \* the counter's value, 0 without the key
  timed,      \* it has a time to live
  lives,      \* how often it has expired
  count,      \* how far each call of IncrCounter is, or how it ended
  rank,       \* the result of its INCR
  life,       \* history: in which life of the key that was
  cache,      \* the cached keys there are
  sweep,      \* how far each sweep is, or how it ended
  unseen,     \* keys it has not had, there without interruption since it began
  batch,      \* the keys it is about to delete
  batches,    \* how many it has had
  stale       \* history: keys there when it began and not written since

counterVars == <<counter, timed, lives, count, rank, life>>
cacheVars   == <<cache, sweep, unseen, batch, batches, stale>>
redisVars   == <<connected, counterVars, cacheVars>>

RedisInit ==
  /\ connected \in BOOLEAN
  /\ counter = 0
  /\ timed = FALSE
  /\ lives = 0
  /\ count = [c \in Counts |-> "new"]
  /\ rank = [c \in Counts |-> 0]
  /\ life = [c \in Counts |-> 0]
  /\ cache = {}
  /\ sweep = [s \in Sweeps |-> "new"]
  /\ unseen = [s \in Sweeps |-> {}]
  /\ batch = [s \in Sweeps |-> {}]
  /\ batches = [s \in Sweeps |-> 0]
  /\ stale = [s \in Sweeps |-> {}]

-----------------------------------------------------------------------------
(* IncrCounter.                                                                *)

\* EXPIRE goes to the client and not into the pipeline: it is sent at once, does
\* nothing to a key that is not there, and its error is dropped.
CountExpire(c) ==
  /\ count[c] = "new"
  /\ count' = [count EXCEPT ![c] = IF connected THEN "counting" ELSE "skipped"]
  /\ \/ UNCHANGED timed
     \/ connected /\ counter > 0 /\ timed' = TRUE
  /\ UNCHANGED <<connected, counter, lives, rank, life, cacheVars>>

\* Exec sends INCR alone.
CountIncr(c) ==
  /\ count[c] = "counting"
  /\ counter' = counter + 1
  /\ count' = [count EXCEPT ![c] = "checking"]
  /\ rank' = [rank EXCEPT ![c] = counter + 1]
  /\ life' = [life EXCEPT ![c] = lives]
  /\ UNCHANGED <<connected, timed, lives, cacheVars>>

\* Its reply is an error, or lost.
CountFails(c) ==
  /\ count[c] = "counting"
  /\ counter' \in {counter, counter + 1}
  /\ count' = [count EXCEPT ![c] = "failed"]
  /\ UNCHANGED <<connected, timed, lives, rank, life, cacheVars>>

\* mutant: the result is that of GET
CountReturnsGet(c) ==
  /\ count[c] = "checking"
  /\ \/ count' = [count EXCEPT ![c] = "failed"] /\ UNCHANGED rank
     \/ /\ counter > 0
        /\ count' = [count EXCEPT ![c] = "counted"]
        /\ rank' = [rank EXCEPT ![c] = counter]
  /\ UNCHANGED <<connected, counter, timed, lives, life, cacheVars>>

\* A GET whose value is not used: without the key it is redis.Nil and an error.
CountReturns(c) ==
  /\ count[c] = "checking"
  /\ \/ count' = [count EXCEPT ![c] = "failed"]
     \/ counter > 0 /\ count' = [count EXCEPT ![c] = "counted"]
  /\ UNCHANGED <<connected, counter, timed, lives, rank, life, cacheVars>>

\* The key's time is up.
CounterExpires ==
  /\ timed
  /\ lives < MaxLives
  /\ lives' = lives + 1
  /\ counter' = 0
  /\ timed' = FALSE
  /\ UNCHANGED <<connected, count, rank, life, cacheVars>>

-----------------------------------------------------------------------------
(* The cache. What is written during a sweep is seen by it or not.             *)

CacheSet(k) ==
  /\ connected
  /\ cache' = cache \cup {k}
  /\ stale' = [s \in Sweeps |-> stale[s] \ {k}]
  /\ unseen' = [s \in Sweeps |-> IF k \in cache THEN unseen[s] ELSE unseen[s] \ {k}]
  /\ UNCHANGED <<connected, counterVars, sweep, batch, batches>>

\* CacheDelete, or the end of the key's time.
CacheRemove(k) ==
  /\ connected
  /\ cache' = cache \ {k}
  /\ UNCHANGED <<connected, counterVars, sweep, unseen, batch, batches, stale>>

BeginSweep(s) ==
  /\ sweep[s] = "new"
  /\ sweep' = [sweep EXCEPT ![s] = IF connected THEN "scanning" ELSE "skipped"]
  /\ unseen' = [unseen EXCEPT ![s] = cache]
  /\ stale' = [stale EXCEPT ![s] = IF connected THEN cache ELSE {}]
  /\ UNCHANGED <<connected, counterVars, cache, batch, batches>>

\* SCAN promises every key that is there from its beginning to its end, and others
\* or none, in batches that may be empty; its cursor is 0 then and not before.
ScanBatch(s, keys) ==
  /\ sweep[s] = "scanning"
  /\ keys \subseteq cache
  /\ batches[s] < MaxBatches
  /\ batch' = [batch EXCEPT ![s] = keys]
  /\ batches' = [batches EXCEPT ![s] = @ + 1]
  /\ unseen' = [unseen EXCEPT ![s] = (@ \ keys) \cap cache]
  /\ sweep' = [sweep EXCEPT ![s] = "deleting"]
  /\ UNCHANGED <<connected, counterVars, cache, stale>>

\* mutant: an empty batch ends the loop
DeleteBatchOrStop(s) ==
  /\ sweep[s] = "deleting"
  /\ cache' = cache \ batch[s]
  /\ \/ sweep' = [sweep EXCEPT ![s] = "scanning"]
     \/ (unseen[s] = {} \/ batch[s] = {}) /\ sweep' = [sweep EXCEPT ![s] = "swept"]
  /\ UNCHANGED <<connected, counterVars, unseen, batch, batches, stale>>

\* DEL of a batch that is not empty, then back to SCAN until the cursor was 0.
DeleteBatch(s) ==
  /\ sweep[s] = "deleting"
  /\ cache' = cache \ batch[s]
  /\ \/ sweep' = [sweep EXCEPT ![s] = "scanning"]
     \/ unseen[s] = {} /\ sweep' = [sweep EXCEPT ![s] = "swept"]
  /\ UNCHANGED <<connected, counterVars, unseen, batch, batches, stale>>

SweepFails(s) ==
  /\ \/ sweep[s] = "scanning" /\ UNCHANGED cache
     \/ sweep[s] = "deleting" /\ cache' \in {cache, cache \ batch[s]}
  /\ sweep' = [sweep EXCEPT ![s] = "failed"]
  /\ UNCHANGED <<connected, counterVars, unseen, batch, batches, stale>>

RedisNext ==
  \/ \E c \in Counts : CountExpire(c) \/ CountIncr(c) \/ CountFails(c) \/ CountReturns(c)
  \/ CounterExpires
  \/ \E k \in Keys : CacheSet(k) \/ CacheRemove(k)
  \/ \E s \in Sweeps :
       \/ BeginSweep(s) \/ DeleteBatch(s) \/ SweepFails(s)
       \/ \E keys \in SUBSET Keys : ScanBatch(s, keys)

RedisSpec == RedisInit /\ [][RedisNext]_redisVars

-----------------------------------------------------------------------------
(* Safety.                                                                     *)

\* Types; a key without value has no time to live.
RedisTypeOK ==
  /\ connected \in BOOLEAN /\ timed \in BOOLEAN
  /\ counter \in Nat /\ lives \in Nat
  /\ timed => counter > 0
  /\ count \in [Counts -> {"new", "skipped", "counting", "checking", "counted", "failed"}]
  /\ rank \in [Counts -> Nat] /\ life \in [Counts -> Nat]
  /\ cache \subseteq Keys
  /\ sweep \in [Sweeps -> {"new", "skipped", "scanning", "deleting", "swept", "failed"}]
  /\ unseen \in [Sweeps -> SUBSET Keys]
  /\ batch \in [Sweeps -> SUBSET Keys]
  /\ batches \in [Sweeps -> Nat]
  /\ stale \in [Sweeps -> SUBSET Keys]

\* IncrCounter counts atomically: of the calls between two expiries of the key no
\* two are told the same number, nor a number beyond the counter. A limit of n
\* then lets n of them pass, whatever fails and however they overlap.
RanksDistinct ==
  \A c, d \in Counts :
    count[c] = "counted" =>
      /\ life[c] = lives => rank[c] \in 1..counter
      /\ c # d /\ count[d] = "counted" /\ life[c] = life[d] => rank[c] # rank[d]

\* CacheDeleteByPattern: after success nothing is left of what was cached when it
\* began, except keys that were written again meanwhile.
SweepIsComplete ==
  \A s \in Sweeps : sweep[s] = "swept" => cache \cap stale[s] = {}
=============================================================================
