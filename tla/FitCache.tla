------------------------------- MODULE FitCache -------------------------------
(***************************************************************************)
(* The cache of size recommendations and body scans (fitCacheService.js):  *)
(* Redis when it can be reached, and a bounded map in the process's memory *)
(* otherwise.  The connection is made by the first request that needs it,  *)
(* and the others wait for the same one.                                   *)
(***************************************************************************)
EXTENDS Naturals, SequencesExt

CONSTANTS
  Keys,
  MaxEntries   \* MEMORY_CACHE_MAX_ENTRIES

ASSUME CacheAssumption == MaxEntries \in Nat \ {0}

VARIABLES
  redis,      \* what Redis holds for each key, or "nothing"
  memory,     \* memoryCache: its entries in the order they were inserted
  client,     \* redisClient: "none" or "open"
  attempts,   \* connections being made; redisConnectPromise is set when there is one
  opened,     \* connections that are open at the Redis server
  away        \* Date.now() < redisUnavailableUntil

cache == <<redis, memory, client, attempts, opened, away>>

CacheInit ==
  /\ redis = [k \in Keys |-> "nothing"]
  /\ memory = <<>>
  /\ client = "none" /\ attempts = 0 /\ opened = 0 /\ away = FALSE

\* resolveRedisClient up to its first await: where the request goes on.
Resolved == IF client = "open" THEN "redis" ELSE IF away THEN "memory" ELSE "connect"

Connects == attempts' = IF Resolved = "connect" THEN 1 ELSE attempts

Connected ==
  /\ attempts > 0 /\ attempts' = attempts - 1
  /\ client' = "open" /\ opened' = opened + 1 /\ away' = FALSE

ConnectFails ==
  /\ attempts > 0 /\ attempts' = attempts - 1
  /\ away' = TRUE
  /\ UNCHANGED <<client, opened>>

\* The event 'end': the connection broke.
Disconnects == client = "open" /\ client' = "none" /\ opened' = opened - 1

Entries(k) == SelectSeq(memory, LAMBDA e : e.key = k)

InMemory(k) == IF Entries(k) = <<>> THEN "nothing" ELSE Head(Entries(k)).value

\* writeMemoryCache: an entry keeps its place when its value is replaced; the oldest go.
MemoryWith(k, value) ==
  LET entry == [key |-> k, value |-> value]
      written == IF Entries(k) # <<>>
                 THEN [i \in 1 .. Len(memory) |-> IF memory[i].key = k THEN entry ELSE memory[i]]
                 ELSE Append(memory, entry)
      excess == IF Len(written) > MaxEntries THEN Len(written) - MaxEntries ELSE 0
  IN SubSeq(written, excess + 1, Len(written))

RedisExpires(k) == redis[k] # "nothing" /\ redis' = [redis EXCEPT ![k] = "nothing"] /\ UNCHANGED memory

\* Every read and write drops the entries whose time is over first.
MemoryExpires(k) ==
  /\ InMemory(k) # "nothing"
  /\ memory' = SelectSeq(memory, LAMBDA e : e.key # k)
  /\ UNCHANGED redis
=============================================================================
