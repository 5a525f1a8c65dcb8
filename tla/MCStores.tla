------------------------------ MODULE MCStores ------------------------------
(* Instances of Accounts and RedisStore for TLC. The two share no variable and  *)
(* so do the counter and the cache of RedisStore: every interleaving of them    *)
(* projects to behaviours of each, and OneAtATime explores those.               *)
EXTENDS Accounts, RedisStore, FiniteSets, TLC

StoresInit == Init /\ RedisInit

StoresNext ==
  \/ Next /\ UNCHANGED redisVars
  \/ RedisNext /\ UNCHANGED vars

StoresSpec == StoresInit /\ [][StoresNext]_<<vars, redisVars>>

\* The texts that Validate accepts are alike.
StoresSymmetry ==
  Permutations(Registrations) \cup Permutations(Names) \cup Permutations(GoodEmails)

AccountsIdle ==
  (\A r \in Registrations : reg[r] = "new") /\ (\A l \in Logins : login[l] = "new")
CounterIdle == \A c \in Counts : count[c] = "new"
CacheIdle == cache = {} /\ \A s \in Sweeps : sweep[s] = "new"

\* Accounts do not ask whether Redis is there.
OneAtATime ==
  /\ Cardinality({i \in 1..3 : <<AccountsIdle, CounterIdle, CacheIdle>>[i]}) >= 2
  /\ AccountsIdle \/ connected
=============================================================================
