------------------------------ MODULE FitService ------------------------------
(***************************************************************************)
(* Size recommendations and body scans (fitRecommendationService.js,       *)
(* fitBodyScanService.js): from the cache, from the ML service, or, for a  *)
(* recommendation, from the rules; what was found is cached.  One process, *)
(* which may restart; Redis keeps what it holds.                           *)
(***************************************************************************)
EXTENDS MlGateway, FitCache

CONSTANTS
  Workers,  \* requests under way
  Scans     \* keys of body scans; the others are of recommendations

ASSUME FitAssumption == Scans \subseteq Keys

VARIABLES
  stage, place,   \* each request, and where its cache access is: "redis", "memory" or at a "connect"
  key, value,  \* the cache key of its input, and the answer it has
  well         \* whether the ML service gives valid answers

requestVars == <<stage, place, key, value>>
fitVars == <<gateway, cache, requestVars, well>>

FitInit ==
  /\ GatewayInit /\ CacheInit
  /\ stage = [w \in Workers |-> "idle"]
  /\ place = [w \in Workers |-> "none"]
  /\ key = [w \in Workers |-> "none"]
  /\ value = [w \in Workers |-> "nothing"]
  /\ well \in BOOLEAN

MovesOn(w, label) ==
  /\ stage' = [stage EXCEPT ![w] = label]
  /\ place' = [place EXCEPT ![w] = "none"]

Has(w, answer) == value' = [value EXCEPT ![w] = answer]

EndsRequest(w) ==
  /\ MovesOn(w, "idle") /\ Has(w, "nothing")
  /\ key' = [key EXCEPT ![w] = "none"]

-----------------------------------------------------------------------------
(* The cache, read first and written last                                  *)

Opens(w, op) ==
  /\ stage' = [stage EXCEPT ![w] = op]
  /\ place' = [place EXCEPT ![w] = Resolved]
  /\ Connects
  /\ UNCHANGED <<redis, memory, client, opened, away>>

At(w, op, at) == stage[w] = op /\ place[w] = at

GoesOn(w, at) == place' = [place EXCEPT ![w] = at] /\ UNCHANGED stage

Start(w, k) ==
  /\ stage[w] = "idle"
  /\ Opens(w, "read")
  /\ key' = [key EXCEPT ![w] = k]
  /\ UNCHANGED <<gateway, value, well>>

WaitersGo(at) ==
  place' = [w \in Workers |-> IF place[w] = "connect" THEN at ELSE place[w]]

\* Those that wait for the connection go on with it, or without.
Connection ==
  /\ \/ Connected /\ WaitersGo("redis")
     \/ ConnectFails /\ WaitersGo("memory")
  /\ UNCHANGED <<redis, memory, gateway, stage, key, value, well>>

Found(w, answer) ==
  /\ MovesOn(w, IF answer = "nothing" THEN "miss" ELSE "answer")
  /\ value' = [value EXCEPT ![w] = answer]

\* Redis answers, or its command fails.
ReadRedis(w) ==
  /\ At(w, "read", "redis")
  /\ \/ client = "open" /\ Found(w, redis[key[w]])
     \/ GoesOn(w, "memory") /\ UNCHANGED value
  /\ UNCHANGED <<cache, gateway, key, well>>

ReadMemory(w) ==
  /\ At(w, "read", "memory")
  /\ Found(w, InMemory(key[w]))
  /\ UNCHANGED <<cache, gateway, key, well>>

\* The insights have been read.
Write(w) ==
  /\ stage[w] = "made"
  /\ Opens(w, "write")
  /\ UNCHANGED <<gateway, key, value, well>>

\* A command that fails may have been carried out.
WriteRedis(w) ==
  /\ At(w, "write", "redis")
  /\ \/ /\ client = "open"
        /\ redis' = [redis EXCEPT ![key[w]] = value[w]]
        /\ MovesOn(w, "answer") \/ GoesOn(w, "memory")
     \/ GoesOn(w, "memory") /\ UNCHANGED redis
  /\ UNCHANGED <<memory, client, attempts, opened, away, gateway, key, value, well>>

WriteMemory(w) ==
  /\ At(w, "write", "memory")
  /\ memory' = MemoryWith(key[w], value[w])
  /\ MovesOn(w, "answer")
  /\ UNCHANGED <<redis, client, attempts, opened, away, gateway, key, value, well>>

\* The customer's fit profile is stored and the answer goes out.
Answer(w) ==
  /\ stage[w] = "answer"
  /\ EndsRequest(w)
  /\ UNCHANGED <<cache, gateway, well>>

-----------------------------------------------------------------------------
(* The ML service                                                          *)

\* Without an answer a recommendation is made by the rules, and a scan is refused.
WithoutMl(w) ==
  IF key[w] \in Scans
  THEN EndsRequest(w)
  ELSE MovesOn(w, "made") /\ Has(w, "rules") /\ UNCHANGED key

Ask(w) ==
  /\ stage[w] = "miss"
  /\ IF Available
     THEN MovesOn(w, "asking") /\ UNCHANGED <<key, value>>
     ELSE WithoutMl(w)
  /\ UNCHANGED <<cache, gateway, well>>

AnswersWell(w) ==
  /\ stage[w] = "asking"
  /\ well
  /\ CallSucceeds
  /\ MovesOn(w, "made") /\ Has(w, "ml")
  /\ UNCHANGED <<cache, key, well>>

Failed(w) ==
  /\ stage[w] = "asking"
  /\ CallFails
  /\ WithoutMl(w)
  /\ UNCHANGED <<cache, well>>

\* An error, or no answer in time.
AnswersBadly(w) == ~well /\ Failed(w)

\* A scan the service cannot read (422) counts as a failure of the service.
Unreadable(w) == key[w] \in Scans /\ well /\ Failed(w)

\* An answer that cannot be used counts neither way.
AnswersNonsense(w) ==
  /\ stage[w] = "asking"
  /\ ~well
  /\ WithoutMl(w)
  /\ UNCHANGED <<cache, gateway, well>>

-----------------------------------------------------------------------------
(* Around the requests                                                     *)

Changes == well' = ~well /\ UNCHANGED <<gateway, cache, requestVars>>

Window == WindowEnds /\ UNCHANGED <<cache, requestVars, well>>

ForgetsOnly == <<client, attempts, opened, away, gateway, requestVars, well>>

RedisForgets(k) == RedisExpires(k) /\ UNCHANGED ForgetsOnly

MemoryForgets(k) == MemoryExpires(k) /\ UNCHANGED ForgetsOnly

Reachable == away /\ away' = FALSE /\ UNCHANGED <<redis, memory, client, attempts, opened, gateway, requestVars, well>>

Disconnected == Disconnects /\ UNCHANGED <<redis, memory, attempts, away, gateway, requestVars, well>>

\* The process dies and starts again.
Restart ==
  /\ failures' = 0 /\ circuit' = "closed"
  /\ memory' = <<>> /\ client' = "none" /\ attempts' = 0 /\ opened' = 0 /\ away' = FALSE
  /\ stage' = [w \in Workers |-> "idle"]
  /\ place' = [w \in Workers |-> "none"]
  /\ key' = [w \in Workers |-> "none"]
  /\ value' = [w \in Workers |-> "nothing"]
  /\ UNCHANGED <<redis, well>>

Steps(w) ==
  \/ ReadRedis(w) \/ ReadMemory(w) \/ Ask(w)
  \/ AnswersWell(w) \/ AnswersBadly(w) \/ Unreadable(w) \/ AnswersNonsense(w)
  \/ Write(w) \/ WriteRedis(w) \/ WriteMemory(w) \/ Answer(w)

FitNext ==
  \/ \E w \in Workers : (\E k \in Keys : Start(w, k)) \/ Steps(w)
  \/ \E k \in Keys : RedisForgets(k) \/ MemoryForgets(k)
  \/ Connection \/ Changes \/ Window \/ Reachable \/ Disconnected \/ Restart

\* The process runs, every call has a time limit, and time passes for what the rules made.
FitFairness ==
  /\ \A w \in Workers : WF_fitVars(Steps(w))
  /\ WF_fitVars(Connection) /\ WF_fitVars(Window)
  /\ \A k \in Keys \ Scans : WF_fitVars(RedisForgets(k)) /\ WF_fitVars(MemoryForgets(k))

FitSpec == FitInit /\ [][FitNext]_fitVars /\ FitFairness

-----------------------------------------------------------------------------
(* Properties                                                              *)

Answers == {"nothing", "ml", "rules"}
RequestLabels == {"idle", "read", "miss", "asking", "made", "write", "answer"}

\* However many requests find no connection, break or restart, one is made or open at a time.
OneConnection == opened + attempts <= 1

\* Types; the map in memory has one entry for a key, and no more than its limit.
FitTypeOK ==
  /\ failures \in 0 .. Threshold /\ circuit \in {"closed", "open", "lapsed"}
  /\ redis \in [Keys -> Answers] /\ client \in {"none", "open"} /\ away \in BOOLEAN
  /\ memory \in Seq([key : Keys, value : Answers \ {"nothing"}]) /\ Len(memory) <= MaxEntries
  /\ \A i, j \in 1 .. Len(memory) : memory[i].key = memory[j].key => i = j
  /\ opened \in Nat /\ attempts \in Nat /\ OneConnection
  /\ stage \in [Workers -> RequestLabels] /\ place \in [Workers -> {"none", "redis", "memory", "connect"}]
  /\ key \in [Workers -> Keys \cup {"none"}] /\ value \in [Workers -> Answers] /\ well \in BOOLEAN

\* However answers of earlier requests come in, the window is there exactly when the
\* failures in a row have reached the threshold: no success leaves a window behind, and no
\* count of failures is without one.
CircuitMatchesCount == circuit # "closed" <=> failures = Threshold

\* Every request is answered, whatever breaks.
RequestsEnd == \A w \in Workers : stage[w] # "idle" ~> stage[w] = "idle"

\* Once the ML service is well for good, and no scan it cannot read comes, recommendations
\* are in the end made by it: neither the window nor the cache keeps the rules in use.
RecoveredIsUsed ==
  <>[]well /\ <>[][\A w \in Workers : ~Unreadable(w)]_fitVars => <>[](\A w \in Workers : value[w] # "rules")

\* A request is answered whatever breaks, and a service that recovered is used again.
RequestsAreServed == RequestsEnd /\ RecoveredIsUsed
=============================================================================
