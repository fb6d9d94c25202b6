------------------------- MODULE ShiprocketSync_proofs -------------------------
(***************************************************************************)
(* What the client of the courier's API and the order sync keep, for every *)
(* set of workers and orders and every number of faults.                   *)
(***************************************************************************)
EXTENDS ShiprocketSync, FiniteSets, FiniteSetTheorems, TLAPS

\* A login starts only with no token cached, and brings one newer than any a request has
\* held or was refused; a token is cached only as long as nobody was refused it.
TokensGrow ==
  /\ login # "none" => token = 0
  /\ login = "granted" =>
       \A w \in Workers : call[w].held < issued /\ call[w].refused < issued
  /\ token # 0 => \A w \in Workers : call[w].refused < token

Overlooked == crossed \cup {o \in Orders : doubts[o] > 0}

\* A worker that is under way has an order; what it is about to store is one of its courier
\* orders, what it cancels has an id; what an order is stored with is a courier order, too.
IdsAreMade ==
  /\ \A w \in Workers :
       /\ pc[w] # "idle" => loc[w].o \in Orders
       /\ pc[w] = "store" => loc[w].id \in 1 .. made[loc[w].o]
       /\ pc[w] \in {"mirror", "cancel"} => loc[w].read # 0
  /\ \A o \in Orders :
       /\ order[o].sync = "synced" => order[o].id \in 1 .. made[o]
       /\ order[o].mirror = "cancelled" => dead[o] # {}

\* An order that was never crossed has one worker at it.
OneAtATime ==
  \A o \in Orders \ crossed : \A v, w \in Workers : At(v, o) /\ At(w, o) => v = w

\* What a worker knows of an order that only it was ever at.
KnowsMade(w) ==
  LET o == loc[w].o
  IN /\ pc[w] \in Syncing => loc[w].read = 0 /\ ~order[o].cancelled /\ made[o] <= 1
     /\ pc[w] \in Syncing /\ (pc[w] = "fail" => ~loc[w].sent) => order[o].id = 0
     /\ pc[w] \in {"prepare", "create"} => ~loc[w].sent
     /\ pc[w] \in Syncing \ {"store"} /\ ~loc[w].sent => made[o] = 0
     /\ pc[w] \in {"mirror", "cancel"} => order[o].id # 0
     /\ pc[w] = "cancel" => order[o].mirror = "pending"

WorkersKnow ==
  \A w \in Workers : pc[w] # "idle" /\ loc[w].o \notin Overlooked => KnowsMade(w)

\* An order that nobody is at, and nobody left in doubt, has its ids once it was made.
MadeIsStored ==
  \A o \in Orders \ Overlooked :
    /\ made[o] <= 1
    /\ made[o] > 0 => order[o].id # 0 \/ \E w \in Workers : At(w, o)

IInv ==
  /\ TypeOK /\ TokensGrow /\ RetriesWithAnother
  /\ IdsAreMade /\ OneAtATime /\ WorkersKnow /\ MadeIsStored /\ ShownIsTrue

\* Who may still make a courier order of o.
MayMake(o) == {w \in Workers : pc[w] \in {"prepare", "create"} /\ loc[w].o = o}

\* The order has its ids, or a sync that answers for what it makes.
Held(o) ==
  \/ order[o].id # 0
  \/ \E w \in Workers : InSync(w, o) /\ (loc[w].sent \/ pc[w] \in {"prepare", "create", "store"})

HeldBy(o) == IF Held(o) THEN 1 ELSE 0

\* What was made and may yet be made is one more than the doubts at most, and no more than
\* they are when nobody answers for the order.
Counted ==
  \A o \in Orders :
    /\ IsFiniteSet(MayMake(o))
    /\ doubts[o] # MaxMade => made[o] + Cardinality(MayMake(o)) <= doubts[o] + HeldBy(o)

-----------------------------------------------------------------------------
(* The client.                                                             *)

TokenInv == TokenTypeOK /\ TokensGrow /\ RetriesWithAnother

Calls0 == [at : CallStates, held : 0 .. issued, refused : 0 .. issued]

LEMMA TokenStart == ASSUME TokenInit, faults = 0 PROVE TokenInv
<1>1. NoCall \in Calls0 /\ NoCall.at = "none"
  BY DEF TokenInit, NoCall, Calls0, CallStates
<1> QED
  BY <1>1, TokenBounds
  DEF TokenInit, TokenInv, TokenTypeOK, TokensGrow, RetriesWithAnother, Calls0

\* A request is made, or taken back; the token and the login are as they were.
LEMMA CallChanges ==
  ASSUME TokenInv, NEW w \in Workers, Calls(w) \/ EndsCall(w),
         UNCHANGED <<token, login, logins, issued, revoked>>, faults' \in 0 .. MaxFaults
  PROVE  TokenInv'
<1> PICK c \in {NoCall, [NoCall EXCEPT !.at = "asks"]} : call' = [call EXCEPT ![w] = c]
  BY DEF Calls, EndsCall
<1>1. c \in Calls0 /\ c.at # "sent" /\ c.held = 0 /\ c.refused = 0
  BY DEF NoCall, Calls0, CallStates, TokenInv, TokenTypeOK
<1>2. \A v \in Workers : call'[v] = IF v = w THEN c ELSE call[v]
  BY DEF TokenInv, TokenTypeOK
<1>3. TokenTypeOK'
  BY <1>1 DEF TokenInv, TokenTypeOK, Calls0
<1>4. TokensGrow'
  <2>1. login = "granted" => \A v \in Workers : call'[v].held < issued /\ call'[v].refused < issued
    BY <1>1, <1>2 DEF TokenInv, TokensGrow, TokenTypeOK
  <2>2. token # 0 => \A v \in Workers : call'[v].refused < token
    BY <1>1, <1>2 DEF TokenInv, TokensGrow, TokenTypeOK
  <2> QED
    BY <2>1, <2>2 DEF TokenInv, TokensGrow
<1>5. RetriesWithAnother'
  BY <1>1, <1>2 DEF TokenInv, RetriesWithAnother
<1> QED
  BY <1>3, <1>4, <1>5 DEF TokenInv

LEMMA CallsStay ==
  ASSUME TokenInv, UNCHANGED tokenVars, faults' \in 0 .. MaxFaults
  PROVE  TokenInv'
BY DEF TokenInv, TokenTypeOK, TokensGrow, RetriesWithAnother, tokenVars

LEMMA CallOf ==
  ASSUME TokenInv, NEW w \in Workers
  PROVE  /\ call[w].at \in CallStates /\ call[w].held \in Nat /\ call[w].refused \in Nat
         /\ call[w].held <= issued /\ call[w].refused <= issued
         /\ token \in Nat /\ token <= issued /\ issued \in Nat
BY DEF TokenInv, TokenTypeOK

LEMMA Asks ==
  ASSUME TokenInv, NEW w \in Workers, Ask(w) PROVE TokenInv'
<1>1. CASE token # 0
  <2>1. call' = [call EXCEPT ![w].at = "sent", ![w].held = token]
    BY <1>1 DEF Ask, CallGoes
  <2>2. \A v \in Workers : /\ v # w => call'[v] = call[v]
                           /\ call'[w].at = "sent" /\ call'[w].held = token
                           /\ call'[w].refused = call[w].refused
    BY <2>1 DEF TokenInv, TokenTypeOK
  <2>3. TokenTypeOK'
    BY <1>1, <2>1, ZenonT(30) DEF Ask, TokenInv, TokenTypeOK, CallStates
  <2>4. TokensGrow'
    BY <1>1, <2>2 DEF Ask, TokenInv, TokensGrow
  <2>5. RetriesWithAnother'
    BY <1>1, <2>2 DEF TokenInv, TokensGrow, RetriesWithAnother
  <2> QED
    BY <2>3, <2>4, <2>5 DEF TokenInv
<1>2. CASE token = 0
  <2>1. call' = [call EXCEPT ![w].at = "login", ![w].held = 0]
    BY <1>2 DEF Ask, CallGoes
  <2>2. \A v \in Workers : /\ v # w => call'[v] = call[v]
                           /\ call'[w].at = "login" /\ call'[w].held = 0
                           /\ call'[w].refused = call[w].refused
    BY <2>1 DEF TokenInv, TokenTypeOK
  <2>3. TokenTypeOK'
    <3>1. call' \in [Workers -> Calls0]
      <4>1. 0 \in 0 .. issued /\ "login" \in CallStates
        BY CallOf DEF CallStates
      <4> QED
        BY <2>1, <4>1 DEF TokenInv, TokenTypeOK, Calls0
    <3>2. login' \in {"none", "asked", "granted"} /\ logins' = IF login' = "none" THEN 0 ELSE 1
      BY <1>2 DEF Ask, TokenInv, TokenTypeOK
    <3> QED
      BY <3>1, <3>2 DEF Ask, TokenInv, TokenTypeOK, Calls0
  <2>4. login' = "granted" => login = "granted"
    BY <1>2 DEF Ask
  <2>5. TokensGrow'
    BY <1>2, <2>2, <2>4, CallOf DEF Ask, TokenInv, TokensGrow
  <2>6. RetriesWithAnother'
    BY <2>2 DEF TokenInv, RetriesWithAnother
  <2> QED
    BY <2>3, <2>5, <2>6 DEF TokenInv
<1> QED
  BY <1>1, <1>2

LEMMA Refusals ==
  ASSUME TokenInv, NEW w \in Workers, Refused(w) PROVE TokenInv'
<1>1. CASE call[w].refused = 0
  <2>1. call' = [call EXCEPT ![w] = [at |-> "again", held |-> 0, refused |-> call[w].held]]
    BY <1>1 DEF Refused
  <2>2. \A v \in Workers : /\ v # w => call'[v] = call[v]
                           /\ call'[w].at = "again" /\ call'[w].held = 0
                           /\ call'[w].refused = call[w].held
    BY <2>1 DEF TokenInv, TokenTypeOK
  <2>3. TokenTypeOK'
    BY <1>1, <2>1, CallOf DEF Refused, TokenInv, TokenTypeOK, CallStates
  <2>4. TokensGrow'
    BY <1>1, <2>2, CallOf DEF Refused, TokenInv, TokensGrow
  <2>5. RetriesWithAnother'
    BY <2>2 DEF TokenInv, RetriesWithAnother
  <2> QED
    BY <2>3, <2>4, <2>5 DEF TokenInv
<1>2. CASE call[w].refused # 0
  <2>1. call' = [call EXCEPT ![w].at = "failed", ![w].held = 0]
    BY <1>2 DEF Refused, CallGoes
  <2>2. \A v \in Workers : /\ v # w => call'[v] = call[v]
                           /\ call'[w].at = "failed" /\ call'[w].held = 0
                           /\ call'[w].refused = call[w].refused
    BY <2>1 DEF TokenInv, TokenTypeOK
  <2>3. TokenTypeOK'
    <3>1. call' \in [Workers -> Calls0]
      <4>1. 0 \in 0 .. issued /\ "failed" \in CallStates
        BY CallOf DEF CallStates
      <4> QED
        BY <2>1, <4>1 DEF TokenInv, TokenTypeOK, Calls0
    <3> QED
      BY <1>2, <3>1 DEF Refused, TokenInv, TokenTypeOK, Calls0
  <2>4. TokensGrow'
    BY <1>2, <2>2, CallOf DEF Refused, TokenInv, TokensGrow
  <2>5. RetriesWithAnother'
    BY <2>2 DEF TokenInv, RetriesWithAnother
  <2> QED
    BY <2>3, <2>4, <2>5 DEF TokenInv
<1> QED
  BY <1>1, <1>2

LEMMA Grants ==
  ASSUME TokenInv, LoginGranted PROVE TokenInv'
<1>1. issued \in Nat /\ issued' = issued + 1
  BY DEF TokenInv, TokenTypeOK, LoginGranted
<1>2. \A w \in Workers : call[w].held < issued' /\ call[w].refused < issued'
  BY <1>1, CallOf
<1>3. TokenTypeOK'
  <2>1. \A n \in 0 .. issued : n \in 0 .. issued'
    BY <1>1
  <2>2. call \in [Workers -> [at : CallStates, held : 0 .. issued', refused : 0 .. issued']]
    BY <2>1 DEF TokenInv, TokenTypeOK
  <2> QED
    BY <1>1, <2>1, <2>2 DEF TokenInv, TokenTypeOK, LoginGranted
<1>4. TokensGrow'
  BY <1>2 DEF TokenInv, TokensGrow, LoginGranted
<1>5. RetriesWithAnother'
  BY DEF TokenInv, RetriesWithAnother, LoginGranted
<1> QED
  BY <1>3, <1>4, <1>5 DEF TokenInv

LEMMA Logins ==
  ASSUME TokenInv, LoginAnswers PROVE TokenInv'
<1>1. issued \in Nat /\ issued' = issued /\ token' = issued /\ login' = "none"
  BY DEF TokenInv, TokenTypeOK, LoginAnswers
<1>2. \A w \in Workers :
        call'[w] = IF call[w].at = "login" THEN [call[w] EXCEPT !.at = "sent", !.held = issued]
                                           ELSE call[w]
  BY DEF LoginAnswers
<1>3. \A w \in Workers : /\ call'[w].refused = call[w].refused
                         /\ \/ call'[w] = call[w]
                            \/ call'[w].at = "sent" /\ call'[w].held = issued
                         /\ call[w] \in Calls0 /\ call'[w] \in Calls0
  <2> SUFFICES ASSUME NEW w \in Workers
               PROVE  /\ call'[w].refused = call[w].refused
                      /\ \/ call'[w] = call[w]
                         \/ call'[w].at = "sent" /\ call'[w].held = issued
                      /\ call[w] \in Calls0 /\ call'[w] \in Calls0
    OBVIOUS
  <2>1. call[w] \in Calls0 /\ issued \in 0 .. issued /\ "sent" \in CallStates
    BY <1>1 DEF TokenInv, TokenTypeOK, Calls0, CallStates
  <2> QED
    BY <1>2, <2>1 DEF Calls0
<1>4. \A w \in Workers : call[w].refused < issued
  BY DEF TokenInv, TokensGrow, LoginAnswers
<1>5. call' \in [Workers -> Calls0]
  BY <1>3 DEF LoginAnswers
<1>6. TokenTypeOK'
  <2>1. logins' = 0 /\ issued \in 0 .. issued /\ revoked' = revoked /\ faults' = faults
    <3>1. logins = 1 /\ logins' = logins - 1
      BY DEF TokenInv, TokenTypeOK, LoginAnswers
    <3>2. logins' = 0
      BY <3>1
    <3>3. issued \in 0 .. issued
      BY <1>1
    <3> QED
      BY <3>2, <3>3 DEF LoginAnswers
  <2> QED
    BY <1>1, <1>5, <2>1 DEF TokenInv, TokenTypeOK, Calls0
<1>7. TokensGrow'
  BY <1>1, <1>3, <1>4 DEF TokensGrow
<1>8. RetriesWithAnother'
  BY <1>1, <1>3, <1>4 DEF TokenInv, RetriesWithAnother
<1> QED
  BY <1>6, <1>7, <1>8 DEF TokenInv

LEMMA LoginErrors ==
  ASSUME TokenInv, LoginFails PROVE TokenInv'
<1>1. token' = 0 /\ login' = "none" /\ issued' = issued
  BY DEF LoginFails
<1>2. \A w \in Workers :
        call'[w] = IF call[w].at = "login" THEN [call[w] EXCEPT !.at = "failed"] ELSE call[w]
  BY DEF LoginFails, FailWaiting
<1>3. \A w \in Workers : /\ call'[w] = call[w] \/ call'[w].at = "failed"
                         /\ call'[w] \in Calls0
  BY <1>2 DEF TokenInv, TokenTypeOK, CallStates, Calls0
<1>4. call' \in [Workers -> Calls0]
  BY <1>3 DEF LoginFails, FailWaiting
<1>5. TokenTypeOK'
  <2>1. logins' = 0 /\ 0 \in 0 .. issued /\ revoked' = revoked
    BY DEF TokenInv, TokenTypeOK, LoginFails
  <2>2. faults' \in 0 .. MaxFaults
    BY TokenBounds DEF TokenInv, TokenTypeOK, LoginFails
  <2> QED
    BY <1>1, <1>4, <2>1, <2>2 DEF TokenInv, TokenTypeOK, Calls0
<1>6. TokensGrow'
  BY <1>1 DEF TokensGrow
<1>7. RetriesWithAnother'
  BY <1>3 DEF TokenInv, RetriesWithAnother
<1> QED
  BY <1>5, <1>6, <1>7 DEF TokenInv

LEMMA Ageing ==
  ASSUME TokenInv, Ages \/ Revoke PROVE TokenInv'
<1>1. CASE Ages
  <2>1. faults' \in 0 .. MaxFaults
    BY <1>1, TokenBounds DEF TokenInv, TokenTypeOK, Ages
  <2>2. /\ issued' = issued /\ call' = call /\ login' = login /\ logins' = logins
        /\ revoked' \in 0 .. issued /\ token' \in {0, token}
    BY <1>1 DEF TokenInv, TokenTypeOK, Ages
  <2>3. TokenTypeOK'
    BY <2>1, <2>2 DEF TokenInv, TokenTypeOK
  <2> QED
    BY <2>2, <2>3 DEF TokenInv, TokensGrow, RetriesWithAnother
<1>2. CASE Revoke
  <2>1. faults' \in 0 .. MaxFaults
    BY <1>2, TokenBounds DEF TokenInv, TokenTypeOK, Revoke
  <2>2. /\ issued' = issued /\ call' = call /\ login' = login /\ logins' = logins
        /\ revoked' \in 0 .. issued /\ token' \in {0, token}
    BY <1>2 DEF TokenInv, TokenTypeOK, Revoke
  <2>3. TokenTypeOK'
    BY <2>1, <2>2 DEF TokenInv, TokenTypeOK
  <2> QED
    BY <2>2, <2>3 DEF TokenInv, TokensGrow, RetriesWithAnother
<1> QED
  BY <1>1, <1>2

LEMMA TokenCrashes ==
  ASSUME TokenInv, TokenCrash, faults' \in 0 .. MaxFaults PROVE TokenInv'
<1>1. issued \in Nat /\ revoked \in 0 .. issued
  BY DEF TokenInv, TokenTypeOK
<1>2. NoCall \in Calls0 /\ NoCall.at = "none"
  BY <1>1 DEF NoCall, Calls0, CallStates
<1>3. TokenTypeOK'
  BY <1>1, <1>2 DEF TokenCrash, TokenTypeOK, Calls0
<1>4. TokensGrow'
  BY DEF TokenCrash, TokensGrow
<1>5. RetriesWithAnother'
  BY <1>2 DEF TokenCrash, RetriesWithAnother
<1> QED
  BY <1>3, <1>4, <1>5 DEF TokenInv

LEMMA TokenSteps == ASSUME TokenInv, TokenNext PROVE TokenInv'
BY Asks, Refusals, Grants, Logins, LoginErrors, Ageing DEF TokenNext

-----------------------------------------------------------------------------
(* The sync.                                                               *)

Locals == [o : Orders \cup {"none"}, read : Ids, id : Ids, sent : BOOLEAN]
Records == [cancelled : BOOLEAN, sync : {"pending", "synced", "pending_retry"},
            id : Ids, mirror : Mirrors]

\* What TypeOK says of the shop's variables.
ShopTypeOK ==
  /\ order \in [Orders -> Records]
  /\ made \in [Orders -> Ids] /\ dead \in [Orders -> SUBSET (1 .. MaxMade)]
  /\ pc \in [Workers -> Labels]
  /\ loc \in [Workers -> Locals]
  /\ crossed \subseteq Orders /\ doubts \in [Orders -> Ids]

CallsAgree == \A w \in Workers : call[w].at # "none" <=> pc[w] \in {"create", "search", "cancel"}

ShopInv == ShopTypeOK /\ IdsAreMade /\ OneAtATime /\ WorkersKnow /\ MadeIsStored /\ ShownIsTrue

LEMMA Parts == IInv <=> TokenInv /\ CallsAgree /\ ShopInv
BY DEF IInv, TypeOK, TokenInv, CallsAgree, ShopInv, ShopTypeOK, Locals, Records

LEMMA PartsAfter == TokenInv' /\ CallsAgree' /\ ShopInv' => IInv'
BY DEF IInv, TypeOK, TokenInv, CallsAgree, ShopInv, ShopTypeOK, Locals, Records

LEMMA MoreOverlooked ==
  ASSUME ShopTypeOK, crossed \subseteq crossed', NEW o \in Orders, NEW n \in Ids,
         doubts' = [doubts EXCEPT ![o] = n], doubts[o] <= n
  PROVE  Overlooked \subseteq Overlooked'
BY CourierBounds DEF ShopTypeOK, Overlooked, Ids

\* A step of worker w about order o.  The conditions are about these two alone; what the
\* others may rely on follows.
LEMMA WorkerMoves ==
  ASSUME ShopInv, NEW w \in Workers, NEW o \in Orders,
         NEW label \in Labels, NEW l \in Locals,
         NEW r \in Records, NEW m \in Ids, NEW d \in SUBSET (1 .. MaxMade), NEW n \in Ids,
         pc' = [pc EXCEPT ![w] = label], loc' = [loc EXCEPT ![w] = l],
         order' = [order EXCEPT ![o] = r],
         made' = [made EXCEPT ![o] = m], dead' = [dead EXCEPT ![o] = d],
         crossed \subseteq crossed', crossed' \subseteq Orders,
         doubts' = [doubts EXCEPT ![o] = n], doubts[o] <= n,
         made[o] <= m,
         pc[w] = "idle" \/ loc[w].o = o,
         label = "idle" \/ l.o = o,
         label = "store" => l.id \in 1 .. m,
         label \in {"mirror", "cancel"} => l.read # 0,
         r.sync = "synced" => r.id \in 1 .. m,
         r.mirror = "cancelled" => d # {},
         pc[w] = "idle" /\ o \notin crossed' => ~ \E v \in Workers : At(v, o),
         o \notin Overlooked' =>
           /\ m <= 1
           /\ label # "idle" => KnowsMade(w)'
           /\ label = "idle" /\ m > 0 =>
                /\ r.id # 0
                /\ r.cancelled => d # {} \/ r.mirror \in {"pending", "failed"}
  PROVE  ShopInv'
<1>1. ShopTypeOK /\ Orders \ Overlooked' \subseteq Orders \ Overlooked
  BY MoreOverlooked DEF ShopInv
<1>2. \A v \in Workers : /\ pc'[v] = IF v = w THEN label ELSE pc[v]
                         /\ loc'[v] = IF v = w THEN l ELSE loc[v]
  BY <1>1 DEF ShopTypeOK
<1>3. \A p \in Orders : /\ order'[p] = IF p = o THEN r ELSE order[p]
                        /\ made'[p] = IF p = o THEN m ELSE made[p]
                        /\ dead'[p] = IF p = o THEN d ELSE dead[p]
                        /\ made[p] \in Nat /\ made'[p] \in Nat /\ made[p] <= made'[p]
  BY <1>1, CourierBounds DEF ShopTypeOK, Ids
<1>4. \A p \in Orders, v \in Workers : At(v, p)' =>
        IF v = w THEN p = o /\ label # "idle" ELSE At(v, p)
  BY <1>2 DEF At
<1>5. \A p \in Orders \ {o}, v \in Workers : At(v, p) => v # w /\ At(v, p)'
  BY <1>2 DEF At
\* Nobody else is at an order that was never crossed.
<1>6. o \notin crossed' => \A v \in Workers \ {w} : ~At(v, o) /\ ~At(v, o)'
  <2> SUFFICES ASSUME o \notin crossed', NEW v \in Workers \ {w}, At(v, o)
               PROVE  FALSE
    BY <1>4
  <2>1. pc[w] # "idle"
    OBVIOUS
  <2>2. At(w, o)
    BY <2>1 DEF At
  <2> QED
    BY <2>2 DEF ShopInv, OneAtATime
<1>7. ShopTypeOK'
  BY <1>1 DEF ShopTypeOK
<1>8. IdsAreMade'
  <2>1. ASSUME NEW v \in Workers
        PROVE  /\ pc'[v] # "idle" => loc'[v].o \in Orders
               /\ pc'[v] = "store" => loc'[v].id \in 1 .. made'[loc'[v].o]
               /\ pc'[v] \in {"mirror", "cancel"} => loc'[v].read # 0
    <3>1. CASE v = w
      <4>1. pc'[v] = label /\ loc'[v] = l /\ made'[o] = m
        BY <1>2, <1>3, <3>1
      <4> QED
        BY <4>1
    <3>2. CASE v # w
      <4>1. pc'[v] = pc[v] /\ loc'[v] = loc[v]
        BY <1>2, <3>2
      <4>2. pc[v] # "idle" => loc[v].o \in Orders
        BY DEF ShopInv, IdsAreMade
      <4>3. pc[v] = "store" => loc[v].id \in 1 .. made[loc[v].o]
        BY DEF ShopInv, IdsAreMade
      <4>4. loc[v].id \in Nat /\ (pc[v] \in {"mirror", "cancel"} => loc[v].read # 0)
        BY <1>1, CourierBounds DEF ShopInv, IdsAreMade, ShopTypeOK, Locals, Ids
      <4> QED
        BY <1>3, <4>1, <4>2, <4>3, <4>4
    <3> QED
      BY <3>1, <3>2
  <2>2. ASSUME NEW p \in Orders
        PROVE  /\ order'[p].sync = "synced" => order'[p].id \in 1 .. made'[p]
               /\ order'[p].mirror = "cancelled" => dead'[p] # {}
    BY <1>3 DEF ShopInv, IdsAreMade
  <2> QED
    BY <2>1, <2>2 DEF IdsAreMade
<1>9. OneAtATime'
  <2> SUFFICES ASSUME NEW p \in Orders \ crossed', NEW u \in Workers, NEW v \in Workers,
                      At(u, p)', At(v, p)'
               PROVE  u = v
    BY DEF OneAtATime
  <2>1. CASE u # w /\ v # w
    BY <1>4, <2>1 DEF ShopInv, OneAtATime
  <2>2. CASE u = w \/ v = w
    BY <1>4, <1>6, <2>2
  <2> QED
    BY <2>1, <2>2
<1>10. WorkersKnow'
  <2> SUFFICES ASSUME NEW v \in Workers, pc'[v] # "idle", loc'[v].o \notin Overlooked'
               PROVE  KnowsMade(v)'
    BY DEF WorkersKnow
  <2>1. CASE v = w
    BY <1>2, <2>1
  <2>2. CASE v # w
    <3>1. pc'[v] = pc[v] /\ loc'[v] = loc[v] /\ loc[v].o \in Orders
      BY <1>2, <2>2 DEF ShopInv, IdsAreMade
    <3>2. loc[v].o # o
      BY <1>6, <2>2, <3>1 DEF At, Overlooked
    <3>3. loc[v].o \notin Overlooked
      BY <1>1, <3>1
    <3>4. KnowsMade(v)
      BY <3>1, <3>3 DEF ShopInv, WorkersKnow
    <3>5. order'[loc[v].o] = order[loc[v].o] /\ made'[loc[v].o] = made[loc[v].o]
      BY <1>3, <3>1, <3>2
    <3> QED
      BY <3>1, <3>4, <3>5 DEF KnowsMade
  <2> QED
    BY <2>1, <2>2
<1>11. MadeIsStored'
  <2> SUFFICES ASSUME NEW p \in Orders \ Overlooked'
               PROVE  /\ made'[p] <= 1
                      /\ made'[p] > 0 => order'[p].id # 0 \/ \E v \in Workers : At(v, p)'
    BY DEF MadeIsStored
  <2>1. CASE p = o
    <3>1. label # "idle" => At(w, o)'
      BY <1>2 DEF At
    <3> QED
      BY <1>3, <2>1, <3>1
  <2>2. CASE p # o
    <3>1. order'[p] = order[p] /\ made'[p] = made[p]
      BY <1>3, <2>2
    <3>2. /\ made[p] <= 1
          /\ made[p] > 0 => order[p].id # 0 \/ \E v \in Workers : At(v, p)
      BY <1>1 DEF ShopInv, MadeIsStored
    <3> QED
      BY <1>5, <2>2, <3>1, <3>2
  <2> QED
    BY <2>1, <2>2
<1>12. ShownIsTrue'
  <2> SUFFICES ASSUME NEW p \in Orders
               PROVE  /\ order'[p].sync = "synced" => order'[p].id \in 1 .. made'[p]
                      /\ order'[p].mirror = "cancelled" => dead'[p] # {}
                      /\ p \notin Overlooked' /\ order'[p].cancelled /\ made'[p] > 0 =>
                           \/ dead'[p] # {} \/ order'[p].mirror \in {"pending", "failed"}
                           \/ \E v \in Workers : At(v, p)'
    BY <1>7, CourierBounds DEF ShownIsTrue, Overlooked, ShopTypeOK, Ids
  <2>1. CASE p = o
    <3>1. label # "idle" => At(w, o)'
      BY <1>2 DEF At
    <3> QED
      BY <1>3, <2>1, <3>1
  <2>2. CASE p # o
    <3>1. order'[p] = order[p] /\ made'[p] = made[p] /\ dead'[p] = dead[p]
      BY <1>3, <2>2
    <3>2. /\ order[p].sync = "synced" => order[p].id \in 1 .. made[p]
          /\ order[p].mirror = "cancelled" => dead[p] # {}
          /\ p \notin Overlooked /\ order[p].cancelled /\ made[p] > 0 =>
               \/ dead[p] # {} \/ order[p].mirror \in {"pending", "failed"}
               \/ \E v \in Workers : At(v, p)
      BY <1>1, CourierBounds DEF ShopInv, ShownIsTrue, Overlooked, ShopTypeOK, Ids
    <3> QED
      BY <1>1, <1>5, <2>2, <3>1, <3>2
  <2> QED
    BY <2>1, <2>2
<1> QED
  BY <1>7, <1>8, <1>9, <1>10, <1>11, <1>12 DEF ShopInv

\* A step of worker w that leaves the orders as they are.
LEMMA LabelMoves ==
  ASSUME ShopInv, NEW w \in Workers, pc[w] # "idle", NEW label \in Labels, NEW l \in Locals,
         GoWith(w, label, l), UNCHANGED <<order, made, dead, historyVars>>,
         label # "idle", l.o = loc[w].o,
         label = "store" => l.id \in 1 .. made[l.o],
         label \in {"mirror", "cancel"} => l.read # 0,
         l.o \notin Overlooked => KnowsMade(w)'
  PROVE  ShopInv'
<1> DEFINE o == loc[w].o
<1>1. o \in Orders /\ ShopTypeOK
  BY DEF ShopInv, IdsAreMade
<1>2. /\ order' = [order EXCEPT ![o] = order[o]]
      /\ made' = [made EXCEPT ![o] = made[o]] /\ dead' = [dead EXCEPT ![o] = dead[o]]
      /\ order[o] \in Records /\ made[o] \in Ids /\ dead[o] \in SUBSET (1 .. MaxMade)
  BY <1>1 DEF ShopTypeOK
<1>3. /\ order[o].sync = "synced" => order[o].id \in 1 .. made[o]
      /\ order[o].mirror = "cancelled" => dead[o] # {}
      /\ made[o] <= made[o]
  BY <1>1, <1>2, CourierBounds DEF ShopInv, IdsAreMade, Ids
<1>4. /\ crossed' = crossed /\ doubts' = doubts /\ Overlooked' = Overlooked
      /\ crossed \subseteq Orders /\ doubts' = [doubts EXCEPT ![o] = doubts[o]]
      /\ doubts[o] \in Ids /\ doubts[o] <= doubts[o]
  BY <1>1, CourierBounds DEF historyVars, Overlooked, ShopTypeOK, Ids
<1>5. o \notin Overlooked => made[o] <= 1
  BY <1>1 DEF ShopInv, MadeIsStored
<1>6. pc' = [pc EXCEPT ![w] = label] /\ loc' = [loc EXCEPT ![w] = l]
  BY DEF GoWith
<1> HIDE DEF o
<1>7. l.o = o /\ loc[w].o = o
  BY DEF o
<1> DEFINE r == order[o]
           m == made[o]
           d == dead[o]
           n == doubts[o]
<1>8. /\ r \in Records /\ m \in Ids /\ d \in SUBSET (1 .. MaxMade)
      /\ order' = [order EXCEPT ![o] = r]
      /\ made' = [made EXCEPT ![o] = m] /\ dead' = [dead EXCEPT ![o] = d]
      /\ r.sync = "synced" => r.id \in 1 .. m
      /\ r.mirror = "cancelled" => d # {}
      /\ made[o] <= m
      /\ label = "store" => l.id \in 1 .. m
  BY <1>2, <1>3, <1>7
<1>9. o \notin Overlooked' =>
        /\ m <= 1
        /\ label # "idle" => KnowsMade(w)'
        /\ label = "idle" /\ m > 0 =>
             /\ r.id # 0
             /\ r.cancelled => d # {} \/ r.mirror \in {"pending", "failed"}
  BY <1>4, <1>5, <1>7
<1>10. /\ crossed \subseteq crossed' /\ crossed' \subseteq Orders
       /\ n \in Ids /\ doubts' = [doubts EXCEPT ![o] = n] /\ doubts[o] <= n
       /\ pc[w] = "idle" /\ o \notin crossed' => ~ \E v \in Workers : At(v, o)
  BY <1>4
<1> HIDE DEF r, m, d, n
<1> QED
  BY <1>1, <1>6, <1>7, <1>8, <1>9, <1>10, WorkerMoves, ZenonT(60)

Calling == {"create", "search", "cancel"}

LEMMA CallsFollow ==
  ASSUME IInv, NEW w \in Workers, NEW label \in Labels, pc' = [pc EXCEPT ![w] = label],
         \/ Calls(w) /\ label \in Calling
         \/ EndsCall(w) /\ label \notin Calling
         \/ UNCHANGED call /\ (label \in Calling <=> pc[w] \in Calling)
  PROVE  CallsAgree'
<1>1. NoCall.at = "none" /\ [NoCall EXCEPT !.at = "asks"].at # "none"
  BY DEF NoCall
<1>2. \A v \in Workers : pc'[v] = IF v = w THEN label ELSE pc[v]
  BY DEF IInv, TypeOK
<1>3. \A v \in Workers \ {w} : call'[v] = call[v]
  BY DEF Calls, EndsCall, IInv, TypeOK, TokenTypeOK
<1>4. call'[w].at # "none" <=> label \in Calling
  <2>1. CASE Calls(w) /\ label \in Calling
    BY <1>1, <2>1 DEF Calls, IInv, TypeOK, TokenTypeOK
  <2>2. CASE EndsCall(w) /\ label \notin Calling
    BY <1>1, <2>2 DEF EndsCall, IInv, TypeOK, TokenTypeOK
  <2>3. CASE UNCHANGED call /\ (label \in Calling <=> pc[w] \in Calling)
    BY <2>3 DEF IInv, TypeOK, Calling
  <2> QED
    BY <2>1, <2>2, <2>3
<1> QED
  BY <1>2, <1>3, <1>4 DEF CallsAgree, IInv, TypeOK, Calling

\* What is known of the order a worker is at.
LEMMA Bearings ==
  ASSUME IInv, NEW w \in Workers, pc[w] # "idle"
  PROVE  /\ loc[w].o \in Orders /\ loc[w].id \in Ids /\ loc[w].read \in Ids /\ loc[w].sent \in BOOLEAN
         /\ order[loc[w].o] \in Records /\ made[loc[w].o] \in Ids
         /\ dead[loc[w].o] \in SUBSET (1 .. MaxMade)
         /\ loc[w].o \notin Overlooked => KnowsMade(w) /\ made[loc[w].o] <= 1
         /\ order[loc[w].o].sync = "synced" => order[loc[w].o].id \in 1 .. made[loc[w].o]
         /\ order[loc[w].o].mirror = "cancelled" => dead[loc[w].o] # {}
         /\ order[loc[w].o].id \in Nat
<1>1. ShopInv
  BY Parts
<1>2. loc[w].o \in Orders
  BY <1>1 DEF ShopInv, IdsAreMade
<1> QED
  BY <1>1, <1>2, CourierBounds
  DEF ShopInv, ShopTypeOK, IdsAreMade, WorkersKnow, MadeIsStored, Locals, Records, Ids

LEMMA Standing ==
  ASSUME IInv, NEW o \in Orders
  PROVE  /\ order[o] \in Records /\ made[o] \in Ids /\ dead[o] \in SUBSET (1 .. MaxMade)
         /\ made[o] \in Nat /\ order[o].id \in Ids /\ order[o].id \in Nat
         /\ order[o].sync = "synced" => order[o].id \in 1 .. made[o]
         /\ order[o].mirror = "cancelled" => dead[o] # {}
         /\ order[o].cancelled \in BOOLEAN /\ doubts[o] \in Ids /\ doubts[o] \in Nat
         /\ o \notin Overlooked =>
              /\ made[o] <= 1
              /\ made[o] > 0 => order[o].id # 0 \/ \E w \in Workers : At(w, o)
BY CourierBounds, Parts DEF ShopInv, ShopTypeOK, IdsAreMade, MadeIsStored, Records, Ids

LEMMA Typing == IInv => /\ pc \in [Workers -> Labels] /\ loc \in [Workers -> Locals]
                        /\ order \in [Orders -> Records]
                        /\ crossed \subseteq Orders /\ doubts \in [Orders -> Ids]
                        /\ made \in [Orders -> Ids] /\ dead \in [Orders -> SUBSET (1 .. MaxMade)]
                        /\ faults \in 0 .. MaxFaults /\ MaxFaults \in Nat
                        /\ MaxMade \in Nat /\ MaxMade >= 1 /\ NoLocals \in Locals
BY TokenBounds, CourierBounds DEF IInv, TypeOK, TokenTypeOK, Locals, Records, NoLocals, Ids

LEMMA Stutters == ASSUME IInv, UNCHANGED vars PROVE IInv'
<1>1. TokenInv'
  BY Parts, CallsStay, Typing DEF vars, tokenVars
<1>2. CallsAgree' /\ ShopInv'
  <2>1. UNCHANGED <<call, pc, loc, order, made, dead, crossed, doubts>>
    BY DEF vars, shopVars, tokenVars, historyVars
  <2> QED
    BY <2>1, Parts DEF CallsAgree, ShopInv, ShopTypeOK, IdsAreMade, OneAtATime, WorkersKnow,
       KnowsMade, MadeIsStored, ShownIsTrue, Overlooked, At
<1> QED
  BY <1>1, <1>2, PartsAfter

-----------------------------------------------------------------------------
(* One lemma per action.                                                   *)

\* A doubt counts one more, up to the bound.
LEMMA Doubting ==
  ASSUME IInv, NEW o \in Orders, NEW how \in BOOLEAN, Doubted(o, how)
  PROVE  \E n \in Ids :
           /\ doubts' = [doubts EXCEPT ![o] = n] /\ doubts[o] <= n
           /\ n = IF how /\ doubts[o] < MaxMade THEN doubts[o] + 1 ELSE doubts[o]
           /\ how => o \in Overlooked'
           /\ ~how /\ crossed' = crossed => Overlooked' = Overlooked
<1> DEFINE n == IF how /\ doubts[o] < MaxMade THEN doubts[o] + 1 ELSE doubts[o]
<1>1. doubts[o] \in 0 .. MaxMade /\ MaxMade \in Nat /\ MaxMade >= 1 /\ doubts \in [Orders -> Ids]
  BY Typing DEF Ids
<1>2. n \in Ids /\ doubts[o] <= n /\ (how => n > 0)
  BY <1>1 DEF Ids
<1>3. doubts' = [doubts EXCEPT ![o] = n]
  BY DEF Doubted
<1>4. doubts'[o] = n
  BY <1>1, <1>3
<1>5. how => o \in Overlooked'
  BY <1>2, <1>4 DEF Overlooked
<1>6. ~how => doubts' = doubts
  BY <1>1, <1>3
<1> QED
  BY <1>2, <1>3, <1>5, <1>6 DEF Overlooked

LEMMA Undoubted ==
  ASSUME IInv, NEW o \in Orders, UNCHANGED doubts
  PROVE  doubts[o] \in Ids /\ doubts' = [doubts EXCEPT ![o] = doubts[o]] /\ doubts[o] <= doubts[o]
BY Typing, Standing

LEMMA Starts ==
  ASSUME IInv, NEW w \in Workers, NEW o \in Orders, NEW force \in BOOLEAN, StartSync(w, o, force)
  PROVE  IInv'
<1>1. CASE ~force /\ order[o].id # 0
  BY <1>1, Stutters DEF StartSync, vars, shopVars
<1>2. CASE ~(~force /\ order[o].id # 0)
  <2> DEFINE l == Reads(o)
             r == order[o]
             m == made[o]
             d == dead[o]
             how == r.id # 0 \/ \E v \in Workers : InSync(v, o)
  <2>1. /\ GoWith(w, "prepare", l) /\ Crosses(o, Shared(o) \/ r.cancelled) /\ pc[w] = "idle"
        /\ Doubted(o, how) /\ how \in BOOLEAN
        /\ UNCHANGED <<tokenVars, faults, order, made, dead>>
    BY <1>2 DEF StartSync
  <2>2. /\ l \in Locals /\ l.o = o /\ l.read = r.id /\ ~l.sent /\ "prepare" \in Labels
    BY Standing, Typing DEF Reads, NoLocals, Locals, Labels
  <2>3. /\ crossed \subseteq crossed' /\ crossed' \subseteq Orders
        /\ o \notin crossed' => ~ (\E v \in Workers : At(v, o)) /\ ~r.cancelled
    BY <2>1, Typing DEF Crosses, Shared
  <2> PICK n \in Ids : /\ doubts' = [doubts EXCEPT ![o] = n] /\ doubts[o] <= n
                       /\ how => o \in Overlooked'
    BY <2>1, Doubting, Zenon
  <2>4. o \notin Overlooked' => r.id = 0 /\ ~r.cancelled /\ m = 0 /\ o \notin Overlooked
    <3>1. o \notin Overlooked' => o \notin Overlooked /\ r.id = 0 /\ ~r.cancelled
      BY <2>1, <2>3, MoreOverlooked, Parts DEF Overlooked, ShopInv
    <3> QED
      BY <2>3, <3>1, Standing DEF Overlooked
  <2>5. /\ order' = [order EXCEPT ![o] = r]
        /\ made' = [made EXCEPT ![o] = m] /\ dead' = [dead EXCEPT ![o] = d]
        /\ pc' = [pc EXCEPT ![w] = "prepare"] /\ loc' = [loc EXCEPT ![w] = l]
    BY <2>1, Typing DEF GoWith
  <2>6. o \notin Overlooked' => KnowsMade(w)'
    <3>1. pc'[w] = "prepare" /\ loc'[w] = l /\ order' = order /\ made' = made
      BY <2>1, <2>5, Typing
    <3> QED
      BY <2>2, <2>4, <3>1 DEF KnowsMade
  <2>7. /\ r \in Records /\ m \in Ids /\ d \in SUBSET (1 .. MaxMade) /\ made[o] <= m
        /\ r.sync = "synced" => r.id \in 1 .. m
        /\ r.mirror = "cancelled" => d # {}
        /\ o \notin Overlooked' => m <= 1
    BY <2>4, Standing
  <2>8. ShopInv
    BY Parts
  <2> HIDE DEF l, r, m, d, how
  <2>9. ShopInv'
    BY <2>1, <2>2, <2>3, <2>5, <2>6, <2>7, <2>8, WorkerMoves, ZenonT(60)
  <2>10. TokenInv'
    BY <2>1, Parts, CallsStay, Typing
  <2>11. CallsAgree'
    BY <2>1, <2>2, <2>5, CallsFollow DEF Calling, tokenVars
  <2> QED
    BY <2>9, <2>10, <2>11, PartsAfter
<1> QED
  BY <1>1, <1>2

\* A worker goes on with a request, or with none, and what it knows holds of the next label.
LEMMA GoesOn ==
  ASSUME IInv, NEW w \in Workers, pc[w] # "idle",
         NEW label \in Labels \ {"idle"}, NEW l \in Locals, GoWith(w, label, l),
         l.o = loc[w].o,
         UNCHANGED <<token, login, logins, issued, revoked, order, made, dead, historyVars>>,
         \/ Calls(w) /\ label \in Calling
         \/ EndsCall(w) /\ label \notin Calling
         \/ UNCHANGED call /\ (label \in Calling <=> pc[w] \in Calling),
         faults' \in 0 .. MaxFaults,
         label = "store" => l.id \in 1 .. made[l.o],
         label \in {"mirror", "cancel"} => l.read # 0,
         l.o \notin Overlooked => KnowsMade(w)'
  PROVE  IInv'
<1>1. ShopInv'
  BY Parts, LabelMoves
<1>2. TokenInv'
  BY Parts, CallChanges, CallsStay DEF tokenVars
<1>3. CallsAgree'
  BY CallsFollow DEF GoWith
<1> QED
  BY <1>1, <1>2, <1>3, PartsAfter

\* What is to be known at a label, with the order as it is.
LEMMA KnownNext ==
  ASSUME IInv, NEW w \in Workers, NEW label, NEW l, GoWith(w, label, l),
         UNCHANGED <<order, made>>,
         label \in Syncing => l.read = 0 /\ ~order[l.o].cancelled /\ made[l.o] <= 1,
         label \in Syncing /\ (label = "fail" => ~l.sent) => order[l.o].id = 0,
         label \in {"prepare", "create"} => ~l.sent,
         label \in Syncing \ {"store"} /\ ~l.sent => made[l.o] = 0,
         label \in {"mirror", "cancel"} => order[l.o].id # 0,
         label = "cancel" => order[l.o].mirror = "pending"
  PROVE  KnowsMade(w)'
<1>1. pc'[w] = label /\ loc'[w] = l
  BY Typing DEF GoWith
<1> QED
  BY <1>1 DEF KnowsMade

\* A step of worker w that ends its work at the order.
LEMMA EndsWork ==
  ASSUME IInv, NEW w \in Workers, pc[w] # "idle", NEW r \in Records, NEW d \in SUBSET (1 .. MaxMade),
         NEW n \in Ids, Ends(w), Set(loc[w].o, r), dead' = [dead EXCEPT ![loc[w].o] = d], UNCHANGED made,
         UNCHANGED <<token, login, logins, issued, revoked>>,
         EndsCall(w) \/ (UNCHANGED call /\ pc[w] \notin Calling),
         faults' \in 0 .. MaxFaults,
         crossed \subseteq crossed', crossed' \subseteq Orders,
         doubts' = [doubts EXCEPT ![loc[w].o] = n], doubts[loc[w].o] <= n,
         r.sync = "synced" => r.id \in 1 .. made[loc[w].o],
         r.mirror = "cancelled" => d # {},
         loc[w].o \notin Overlooked' /\ made[loc[w].o] > 0 =>
           /\ r.id # 0
           /\ r.cancelled => d # {} \/ r.mirror \in {"pending", "failed"}
  PROVE  IInv'
<1> DEFINE o == loc[w].o
           m == made[o]
           l == NoLocals
           label == "idle"
<1>1. /\ o \in Orders /\ l \in Locals /\ label \in Labels /\ m \in Ids /\ ShopInv /\ m \in Nat
      /\ o \notin Overlooked => m <= 1
  BY Bearings, Typing, Parts, CourierBounds DEF Labels, Ids
<1>2. /\ pc' = [pc EXCEPT ![w] = label] /\ loc' = [loc EXCEPT ![w] = l]
      /\ order' = [order EXCEPT ![o] = r] /\ made' = [made EXCEPT ![o] = m]
  BY Typing DEF Ends, GoWith, Set
<1>3. /\ o \notin Overlooked' => o \notin Overlooked
      /\ made[o] <= m /\ label = "idle" /\ label # "store" /\ (pc[w] = "idle" \/ loc[w].o = o)
  <2>1. ShopTypeOK
    BY <1>1 DEF ShopInv
  <2> HIDE DEF o
  <2>2. doubts' = [doubts EXCEPT ![o] = n] /\ doubts[o] <= n
    BY DEF o
  <2>3. Overlooked \subseteq Overlooked'
    BY <1>1, <2>1, <2>2, MoreOverlooked
  <2> USE DEF o
  <2> QED
    BY <1>1, <2>3
<1>4. o \notin Overlooked' =>
        /\ m <= 1
        /\ label # "idle" => KnowsMade(w)'
        /\ label = "idle" /\ m > 0 =>
             /\ r.id # 0
             /\ r.cancelled => d # {} \/ r.mirror \in {"pending", "failed"}
  BY <1>1, <1>3
<1>5. ShopInv'
  <2> HIDE DEF o, m, l, label
  <2>1. dead' = [dead EXCEPT ![o] = d] /\ doubts' = [doubts EXCEPT ![o] = n] /\ doubts[o] <= n
    BY DEF o
  <2>2. r.sync = "synced" => r.id \in 1 .. m
    BY DEF o, m
  <2> QED
    BY <1>1, <1>2, <1>3, <1>4, <2>1, <2>2, WorkerMoves, ZenonT(60)
<1>6. TokenInv'
  BY Parts, CallChanges, CallsStay DEF tokenVars
<1>7. CallsAgree'
  BY <1>1, <1>2, CallsFollow DEF Calling
<1> QED
  BY <1>5, <1>6, <1>7, PartsAfter

\* A step of worker w that goes on with a request and changes the order or its courier orders.
LEMMA WritesAndGoesOn ==
  ASSUME IInv, NEW w \in Workers, pc[w] # "idle",
         NEW label \in Labels \ {"idle"}, NEW l \in Locals, GoWith(w, label, l),
         NEW o, o = loc[w].o, l.o = o, NEW r \in Records, NEW m \in Ids,
         order' = [order EXCEPT ![o] = r], made' = [made EXCEPT ![o] = m], UNCHANGED dead,
         UNCHANGED <<token, login, logins, issued, revoked, historyVars>>,
         (Calls(w) /\ label \in Calling) \/ (EndsCall(w) /\ label \notin Calling),
         faults' \in 0 .. MaxFaults,
         made[o] <= m,
         label = "store" => l.id \in 1 .. m,
         label \in {"mirror", "cancel"} => l.read # 0,
         r.sync = "synced" => r.id \in 1 .. m,
         r.mirror = "cancelled" => dead[o] # {},
         o \notin Overlooked =>
           /\ m <= 1
           /\ label \in Syncing => l.read = 0 /\ ~r.cancelled
           /\ label \in Syncing /\ (label = "fail" => ~l.sent) => r.id = 0
           /\ label \in {"prepare", "create"} => ~l.sent
           /\ label \in Syncing \ {"store"} /\ ~l.sent => m = 0
           /\ label \in {"mirror", "cancel"} => r.id # 0
           /\ label = "cancel" => r.mirror = "pending"
  PROVE  IInv'
<1> DEFINE d == dead[o]
<1>1. o \in Orders /\ d \in SUBSET (1 .. MaxMade) /\ ShopInv /\ dead' = [dead EXCEPT ![o] = d]
  BY Bearings, Typing, Parts
<1> DEFINE n == doubts[o]
<1>2. /\ crossed' = crossed /\ Overlooked' = Overlooked
      /\ crossed' \subseteq Orders /\ crossed \subseteq crossed'
      /\ n \in Ids /\ doubts' = [doubts EXCEPT ![o] = n] /\ doubts[o] <= n
  BY <1>1, Typing, Undoubted DEF historyVars, Overlooked
<1>3. pc' = [pc EXCEPT ![w] = label] /\ loc' = [loc EXCEPT ![w] = l] /\ label \in Labels
  BY DEF GoWith
<1>4. o \notin Overlooked' => KnowsMade(w)' /\ m <= 1
  <2>1. pc'[w] = label /\ loc'[w] = l /\ order'[o] = r /\ made'[o] = m
    BY <1>1, <1>3, Typing
  <2> QED
    BY <1>2, <2>1 DEF KnowsMade
<1>5. ShopInv'
  <2> HIDE DEF d, n
  <2>1. r.mirror = "cancelled" => d # {}
    BY DEF d
  <2>2. label # "idle"
    OBVIOUS
  <2> QED
    BY <1>1, <1>2, <1>3, <1>4, <2>1, <2>2, WorkerMoves, ZenonT(60)
<1>6. TokenInv'
  BY Parts, CallChanges
<1>7. CallsAgree'
  BY <1>3, CallsFollow
<1> QED
  BY <1>5, <1>6, <1>7, PartsAfter

LEMMA Prepares == ASSUME IInv, NEW w \in Workers, Prepare(w) PROVE IInv'
<1> DEFINE o == loc[w].o
           l == loc[w]
<1>1. pc[w] = "prepare" /\ o \in Orders /\ l \in Locals /\ l.o = o
  BY Bearings, Typing DEF Prepare
<1>2. o \notin Overlooked => KnowsMade(w)
  BY <1>1, Bearings
<1>3. o \notin Overlooked =>
        order[o].id = 0 /\ ~order[o].cancelled /\ made[o] = 0 /\ l.read = 0 /\ ~l.sent
  BY <1>1, <1>2 DEF KnowsMade, Syncing
<1>4. CASE /\ Set(o, [order[o] EXCEPT !.sync = "pending"])
           /\ GoTo(w, "create") /\ Calls(w)
  <2> DEFINE r == [order[o] EXCEPT !.sync = "pending"]
             m == made[o]
  <2>1. /\ r \in Records /\ r.id = order[o].id /\ r.cancelled = order[o].cancelled
        /\ r.mirror = order[o].mirror /\ r.sync # "synced"
    BY <1>1, Standing DEF Records
  <2>2. m \in Ids /\ made[o] <= m /\ made' = [made EXCEPT ![o] = m] /\ order' = [order EXCEPT ![o] = r]
    BY <1>1, <1>4, Standing, Typing DEF Prepare, Set
  <2>3. r.mirror = "cancelled" => dead[o] # {}
    BY <1>1, <2>1, Standing
  <2>4. GoWith(w, "create", l) /\ Calls(w)
    BY <1>4 DEF GoTo
  <2>5. /\ UNCHANGED <<token, login, logins, issued, revoked, historyVars>> /\ UNCHANGED dead
        /\ faults' \in 0 .. MaxFaults
    BY Typing DEF Prepare
  <2>6. "create" \in Labels \ {"idle"} /\ "create" \in Calling /\ "create" # "store"
    BY DEF Labels, Calling
  <2>7. o \notin Overlooked => m = 0 /\ r.id = 0 /\ ~r.cancelled /\ l.read = 0 /\ ~l.sent
    BY <1>3, <2>1
  <2> HIDE DEF r, m, o, l
  <2>8. o = loc[w].o /\ l.o = o
    BY <1>1 DEF o
  <2>9. o \notin Overlooked =>
          /\ m <= 1
          /\ "create" \in Syncing => l.read = 0 /\ ~r.cancelled
          /\ "create" \in Syncing /\ ("create" = "fail" => ~l.sent) => r.id = 0
          /\ "create" \in {"prepare", "create"} => ~l.sent
          /\ "create" \in Syncing \ {"store"} /\ ~l.sent => m = 0
          /\ "create" \in {"mirror", "cancel"} => r.id # 0
          /\ "create" = "cancel" => r.mirror = "pending"
    BY <2>7
  <2>10. pc[w] # "idle" /\ l \in Locals
    BY <1>1 DEF l
  <2> QED
    BY <2>1, <2>2, <2>3, <2>4, <2>5, <2>6, <2>8, <2>9, <2>10, WritesAndGoesOn
<1>5. CASE GoTo(w, "fail") /\ UNCHANGED <<order, call>>
  <2>1. GoWith(w, "fail", l) /\ UNCHANGED <<order, made, dead, historyVars>>
    BY <1>5 DEF GoTo, Prepare
  <2>2. "fail" \in Labels \ {"idle"} /\ "fail" \notin Calling /\ pc[w] \notin Calling
    BY <1>1 DEF Labels, Calling
  <2>3. o \notin Overlooked => KnowsMade(w)'
    BY <1>3, <2>1, KnownNext
  <2>4. /\ UNCHANGED <<token, login, logins, issued, revoked>> /\ UNCHANGED call
        /\ faults' \in 0 .. MaxFaults
    BY <1>5, Typing DEF Prepare
  <2> QED
    BY <1>1, <2>1, <2>2, <2>3, <2>4, GoesOn
<1> QED
  BY <1>4, <1>5 DEF Prepare

\* The new count of a courier order made, and of none made.
LEMMA Making ==
  ASSUME IInv, NEW o \in Orders, MakesOrder(o)
  PROVE  /\ made[o] + 1 \in Ids /\ made' = [made EXCEPT ![o] = made[o] + 1]
         /\ made[o] <= made[o] + 1 /\ made[o] + 1 \in 1 .. made[o] + 1
<1>1. made[o] \in Nat /\ MaxMade \in Nat
  BY Standing, Typing
<1> QED
  BY <1>1 DEF MakesOrder, Ids

\* The two ways on from a create request: stored, or searched for.
LEMMA Created ==
  ASSUME IInv, NEW w \in Workers, pc[w] = "create",
         NEW label \in {"store", "search"}, NEW l \in Locals, GoWith(w, label, l),
         l.o = loc[w].o,
         NEW m \in Ids, made' = [made EXCEPT ![l.o] = m],
         made[l.o] <= m, m <= made[l.o] + 1,
         (Calls(w) /\ label = "search") \/ (EndsCall(w) /\ label = "store"),
         UNCHANGED <<order, dead, historyVars, token, login, logins, issued, revoked>>,
         faults' \in 0 .. MaxFaults,
         label = "store" => l.id \in 1 .. m,
         l.read = loc[w].read,
         label = "search" => (~l.sent => ~loc[w].sent /\ m = made[l.o])
  PROVE  IInv'
<1> DEFINE o == l.o
           r == order[o]
<1>1. /\ o \in Orders /\ o = loc[w].o /\ pc[w] # "idle" /\ made[o] \in Nat /\ loc[w].sent \in BOOLEAN
      /\ r \in Records /\ order' = [order EXCEPT ![o] = r]
      /\ r.mirror = "cancelled" => dead[o] # {}
  BY Bearings, Standing, Typing
<1>2. o \notin Overlooked =>
        made[o] = 0 /\ r.id = 0 /\ ~r.cancelled /\ loc[w].read = 0 /\ ~loc[w].sent
  BY <1>1, Bearings DEF KnowsMade, Syncing
<1>3. r.sync = "synced" => r.id \in 1 .. m
  <2>1. r.sync = "synced" => r.id \in 1 .. made[o]
    BY <1>1, Standing
  <2>2. r.id \in Nat /\ m \in Nat
    BY <1>1, Standing, Typing DEF Ids
  <2> QED
    BY <1>1, <2>1, <2>2
<1>4. /\ label \in Labels \ {"idle"} /\ label \notin {"prepare", "create", "mirror", "cancel"}
      /\ (Calls(w) /\ label \in Calling) \/ (EndsCall(w) /\ label \notin Calling)
  BY DEF Labels, Calling
<1>5. o \notin Overlooked =>
        /\ m <= 1
        /\ label \in Syncing => l.read = 0 /\ ~r.cancelled
        /\ label \in Syncing /\ (label = "fail" => ~l.sent) => r.id = 0
        /\ label \in {"prepare", "create"} => ~l.sent
        /\ label \in Syncing \ {"store"} /\ ~l.sent => m = 0
        /\ label \in {"mirror", "cancel"} => r.id # 0
        /\ label = "cancel" => r.mirror = "pending"
  <2> SUFFICES ASSUME o \notin Overlooked PROVE
        /\ m <= 1
        /\ label \in Syncing => l.read = 0 /\ ~r.cancelled
        /\ label \in Syncing /\ (label = "fail" => ~l.sent) => r.id = 0
        /\ label \in Syncing \ {"store"} /\ ~l.sent => m = 0
    BY <1>4
  <2>1. made[o] = 0 /\ m \in Nat
    BY <1>2, Typing DEF Ids
  <2>2. label \in Syncing \ {"store"} => label = "search"
    OBVIOUS
  <2> QED
    BY <1>2, <2>1, <2>2
<1> HIDE DEF r, o
<1>6. l.o = o /\ made' = [made EXCEPT ![o] = m] /\ made[o] <= m
  BY DEF o
<1> QED
  BY <1>1, <1>3, <1>4, <1>5, <1>6, WritesAndGoesOn, ZenonT(30)

LEMMA Creates == ASSUME IInv, NEW w \in Workers, Create(w) PROVE IInv'
<1> DEFINE o == loc[w].o
           searching == [loc[w] EXCEPT !.sent = TRUE]
           storing == [loc[w] EXCEPT !.id = made[o] + 1]
<1>1. /\ pc[w] = "create" /\ o \in Orders /\ made[o] \in Nat /\ made[o] \in Ids
      /\ loc[w] \in Locals /\ faults' \in 0 .. MaxFaults
      /\ UNCHANGED <<order, dead, historyVars>>
      /\ searching \in Locals /\ searching.o = o /\ searching.read = loc[w].read /\ searching.sent
  BY Bearings, Standing, Typing DEF Create, Locals
<1>2. /\ IF pc'[w] = "search"
         THEN Calls(w) /\ UNCHANGED <<token, login, logins, issued, revoked>>
         ELSE EndsCall(w) /\ UNCHANGED <<token, login, logins, issued, revoked>>
      /\ \A label \in Labels, l \in Locals : GoWith(w, label, l) => pc'[w] = label
  BY Typing DEF Create, Answered, GoWith
<1>3. CASE MakesOrder(o) /\ GoWith(w, "store", storing)
  <2>1. /\ made[o] + 1 \in Ids /\ made' = [made EXCEPT ![o] = made[o] + 1]
        /\ made[o] <= made[o] + 1 /\ made[o] + 1 \in 1 .. made[o] + 1
    BY <1>1, <1>3, Making
  <2>2. storing \in Locals /\ storing.o = o /\ storing.id = made[o] + 1
        /\ storing.read = loc[w].read
    BY <1>1, <2>1 DEF Locals
  <2>3. pc'[w] = "store"
    BY <1>2, <1>3, <2>2 DEF Labels
  <2>4. EndsCall(w) /\ UNCHANGED <<token, login, logins, issued, revoked>>
    BY <1>2, <2>3
  <2>5. /\ storing.o = loc[w].o /\ storing.read = loc[w].read /\ made' = [made EXCEPT ![storing.o] = made[o] + 1]
        /\ made[storing.o] <= made[o] + 1 /\ made[o] + 1 <= made[storing.o] + 1
        /\ storing.id \in 1 .. made[o] + 1
    BY <1>1, <2>1, <2>2
  <2> HIDE DEF storing, searching, o
  <2> QED
    BY <1>1, <1>3, <2>1, <2>2, <2>4, <2>5, Created
<1>4. ASSUME GoWith(w, "search", searching), NEW m \in Ids,
             made' = [made EXCEPT ![o] = m], made[o] <= m, m <= made[o] + 1
      PROVE  IInv'
  <2>1. pc'[w] = "search"
    BY <1>1, <1>2, <1>4 DEF Labels
  <2>2. Calls(w) /\ UNCHANGED <<token, login, logins, issued, revoked>>
    BY <1>2, <2>1
  <2> HIDE DEF storing, searching
  <2> QED
    BY <1>1, <1>4, <2>2, Created
<1>5. CASE GoWith(w, "search", searching) /\ UNCHANGED made
  <2>1. made' = [made EXCEPT ![o] = made[o]] /\ made[o] <= made[o] /\ made[o] <= made[o] + 1
    BY <1>1, <1>5, Typing
  <2> HIDE DEF searching, o
  <2> QED
    BY <1>1, <1>4, <1>5, <2>1
<1>6. CASE MakesOrder(o) /\ GoWith(w, "search", searching)
  <2>1. /\ made[o] + 1 \in Ids /\ made' = [made EXCEPT ![o] = made[o] + 1]
        /\ made[o] <= made[o] + 1 /\ made[o] + 1 <= made[o] + 1
    BY <1>1, <1>6, Making
  <2> HIDE DEF searching, o
  <2> QED
    BY <1>1, <1>4, <1>6, <2>1
<1> QED
  BY <1>3, <1>5, <1>6 DEF Create

LEMMA CreateErrors == ASSUME IInv, NEW w \in Workers, CreateFails(w) PROVE IInv'
<1> DEFINE o == loc[w].o
           searching == [loc[w] EXCEPT !.sent = TRUE]
<1>1. /\ pc[w] = "create" /\ pc[w] # "idle" /\ o \in Orders /\ made[o] \in Nat /\ made[o] \in Ids
      /\ loc[w] \in Locals /\ loc[w].sent \in BOOLEAN /\ "search" \in {"store", "search"}
      /\ Calls(w)
      /\ UNCHANGED <<order, dead, historyVars, token, login, logins, issued, revoked>>
  BY Bearings, Standing, Typing DEF CreateFails
<1>2. faults' \in 0 .. MaxFaults
  BY Typing DEF CreateFails
<1>3. searching \in Locals /\ searching.o = o /\ searching.read = loc[w].read /\ searching.sent
  BY <1>1 DEF Locals
<1>4. CASE MakesOrder(o) /\ GoWith(w, "search", searching)
  <2>1. /\ made[o] + 1 \in Ids /\ made' = [made EXCEPT ![o] = made[o] + 1]
        /\ made[o] <= made[o] + 1 /\ made[o] + 1 <= made[o] + 1
    BY <1>1, <1>4, Making
  <2>2. /\ searching.o = loc[w].o /\ made' = [made EXCEPT ![searching.o] = made[o] + 1]
        /\ made[searching.o] <= made[o] + 1 /\ made[o] + 1 <= made[searching.o] + 1
    BY <1>3, <2>1
  <2> HIDE DEF searching, o
  <2> QED
    BY <1>1, <1>2, <1>3, <1>4, <2>1, <2>2, Created
<1>5. made' = made => /\ made' = [made EXCEPT ![o] = made[o]]
                      /\ made[o] <= made[o] /\ made[o] <= made[o] + 1
  BY <1>1, Typing
<1>6. CASE UNCHANGED made /\ GoWith(w, "search", searching)
  <2>1. /\ searching.o = loc[w].o /\ made' = [made EXCEPT ![searching.o] = made[o]]
        /\ made[searching.o] <= made[o] /\ made[o] <= made[searching.o] + 1
    BY <1>3, <1>5, <1>6
  <2> HIDE DEF searching, o
  <2> QED
    BY <1>1, <1>2, <1>3, <1>6, <2>1, Created
<1>7. CASE UNCHANGED made /\ GoWith(w, "search", loc[w])
  <2> DEFINE l == loc[w]
  <2>1. /\ l \in Locals /\ l.o = loc[w].o /\ l.read = loc[w].read /\ l.sent = loc[w].sent
        /\ GoWith(w, "search", l) /\ made' = [made EXCEPT ![l.o] = made[o]]
        /\ made[l.o] <= made[o] /\ made[o] <= made[l.o] + 1 /\ made[o] = made[l.o]
    BY <1>1, <1>5, <1>7
  <2> HIDE DEF l, o
  <2> QED
    BY <1>1, <1>2, <2>1, Created
<1> QED
  BY <1>4, <1>6, <1>7 DEF CreateFails, GoTo

LEMMA Searches == ASSUME IInv, NEW w \in Workers, Search(w) PROVE IInv'
<1> DEFINE o == loc[w].o
<1>1. /\ pc[w] = "search" /\ pc[w] # "idle" /\ o \in Orders /\ made[o] \in Nat /\ made[o] \in Ids
      /\ loc[w] \in Locals /\ loc[w].id \in Ids
      /\ UNCHANGED <<order, made, dead, historyVars, token, login, logins, issued, revoked>>
      /\ faults' \in 0 .. MaxFaults /\ EndsCall(w)
      /\ o \notin Overlooked => KnowsMade(w)
  BY Bearings, Standing, Typing DEF Search, Answered
<1>2. ASSUME NEW id \in 1 .. made[o], GoWith(w, "store", [loc[w] EXCEPT !.id = id, !.sent = FALSE])
      PROVE  IInv'
  <2> DEFINE l == [loc[w] EXCEPT !.id = id, !.sent = FALSE]
  <2>1. id \in Ids
    BY <1>1, Typing DEF Ids
  <2>2. l \in Locals /\ l.o = o /\ l.id = id /\ l.read = loc[w].read
    BY <1>1, <2>1 DEF Locals
  <2>3. "store" \in Labels \ {"idle"} /\ "store" \notin Calling
    BY DEF Labels, Calling
  <2>4. l.o \notin Overlooked => KnowsMade(w)'
    BY <1>1, <1>2, <2>2, KnownNext DEF KnowsMade, Syncing
  <2> QED
    BY <1>1, <1>2, <2>2, <2>3, <2>4, GoesOn
<1>3. CASE made[o] = 0 /\ GoWith(w, "fail", [loc[w] EXCEPT !.sent = FALSE])
  <2> DEFINE l == [loc[w] EXCEPT !.sent = FALSE]
  <2>1. l \in Locals /\ l.o = o /\ l.read = loc[w].read /\ ~l.sent
    BY <1>1 DEF Locals
  <2>2. "fail" \in Labels \ {"idle"} /\ "fail" \notin Calling /\ "fail" # "store"
    BY DEF Labels, Calling
  <2>3. l.o \notin Overlooked => KnowsMade(w)'
    BY <1>1, <1>3, <2>1, KnownNext DEF KnowsMade, Syncing
  <2> QED
    BY <1>1, <1>3, <2>1, <2>2, <2>3, GoesOn
<1> QED
  BY <1>2, <1>3 DEF Search

LEMMA SearchErrors == ASSUME IInv, NEW w \in Workers, SearchFails(w) PROVE IInv'
<1> DEFINE o == loc[w].o
           l == loc[w]
<1>1. /\ pc[w] = "search" /\ pc[w] # "idle" /\ o \in Orders
      /\ l \in Locals /\ l.o = o /\ GoWith(w, "fail", l)
      /\ UNCHANGED <<order, made, dead, historyVars, token, login, logins, issued, revoked>>
      /\ EndsCall(w)
      /\ o \notin Overlooked => KnowsMade(w)
  BY Bearings, Standing, Typing DEF SearchFails, Answered, GoTo
<1>2. faults' \in 0 .. MaxFaults
  BY Typing DEF SearchFails
<1>3. "fail" \in Labels \ {"idle"} /\ "fail" \notin Calling /\ "fail" # "store"
  BY DEF Labels, Calling
<1>4. l.o \notin Overlooked => KnowsMade(w)'
  BY <1>1, KnownNext DEF KnowsMade, Syncing
<1> QED
  BY <1>1, <1>2, <1>3, <1>4, GoesOn

LEMMA Stores == ASSUME IInv, NEW w \in Workers, Store(w) PROVE IInv'
<1> DEFINE o == loc[w].o
           r == [order[o] EXCEPT !.sync = "synced", !.id = loc[w].id]
           d == dead[o]
<1>1. /\ pc[w] = "store" /\ pc[w] # "idle" /\ pc[w] \notin Calling /\ o \in Orders
      /\ loc[w].id \in Ids /\ order[o] \in Records /\ d \in SUBSET (1 .. MaxMade)
      /\ loc[w].id \in 1 .. made[o]
      /\ o \notin Overlooked => KnowsMade(w)
      /\ order[o].mirror = "cancelled" => d # {}
  BY Bearings DEF Store, Calling, IInv, IdsAreMade
<1>2. /\ r \in Records /\ r.id = loc[w].id /\ r.mirror = order[o].mirror
      /\ r.cancelled = order[o].cancelled /\ r.id # 0
  <2>1. loc[w].id # 0
    BY <1>1, Standing
  <2> QED
    BY <1>1, <2>1 DEF Records
<1>3. /\ Ends(w) /\ Set(o, r) /\ dead' = [dead EXCEPT ![o] = d] /\ UNCHANGED made
      /\ UNCHANGED <<token, login, logins, issued, revoked>> /\ UNCHANGED call
      /\ crossed' = crossed /\ crossed' \subseteq Orders /\ crossed \subseteq crossed'
      /\ doubts' = doubts /\ faults' \in 0 .. MaxFaults
  BY <1>1, Typing DEF Store, Stored, historyVars, tokenVars
<1>4. o \notin Overlooked' => ~r.cancelled
  BY <1>1, <1>2, <1>3 DEF Overlooked, KnowsMade, Syncing
<1>5. r.mirror = "cancelled" => d # {}
  BY <1>1, <1>2
<1>6. r.sync = "synced" => r.id \in 1 .. made[o]
  BY <1>1, <1>2
<1>7. doubts[o] \in Ids /\ doubts' = [doubts EXCEPT ![o] = doubts[o]] /\ doubts[o] <= doubts[o]
  BY <1>1, <1>3, Undoubted
<1> HIDE DEF r, d
<1> QED
  BY <1>1, <1>2, <1>3, <1>4, <1>5, <1>6, <1>7, EndsWork

\* The ids are written or not, and the sync goes to its catch block.
LEMMA StoreErrors == ASSUME IInv, NEW w \in Workers, StoreFails(w) PROVE IInv'
<1> DEFINE o == loc[w].o
           l == [loc[w] EXCEPT !.id = 0, !.sent = TRUE]
           m == made[o]
           d == dead[o]
           n == doubts[o]
<1>1. /\ pc[w] = "store" /\ pc[w] # "idle" /\ o \in Orders /\ ShopInv
      /\ loc[w] \in Locals /\ order[o] \in Records /\ loc[w].id \in Ids
      /\ loc[w].id \in 1 .. made[o] /\ m \in Ids /\ d \in SUBSET (1 .. MaxMade) /\ m <= m
      /\ o \notin Overlooked => KnowsMade(w) /\ m <= 1
      /\ order[o].mirror = "cancelled" => d # {}
      /\ order[o].sync = "synced" => order[o].id \in 1 .. m
      /\ faults' \in 0 .. MaxFaults
  BY Bearings, Standing, Typing, Parts DEF StoreFails, IInv, IdsAreMade
<1>2. /\ GoWith(w, "fail", l) /\ UNCHANGED <<tokenVars, made, dead, historyVars>>
      /\ "fail" \in Labels /\ "fail" \notin Calling /\ pc[w] \notin Calling
  BY <1>1 DEF StoreFails, Labels, Calling
<1>3. /\ l \in Locals /\ l.o = o /\ l.read = loc[w].read /\ l.sent
      /\ pc' = [pc EXCEPT ![w] = "fail"] /\ loc' = [loc EXCEPT ![w] = l]
      /\ made' = [made EXCEPT ![o] = m] /\ dead' = [dead EXCEPT ![o] = d]
  <2>1. 0 \in Ids
    BY Typing DEF Ids
  <2> QED
    BY <1>1, <1>2, <2>1, Typing DEF GoWith, Locals
<1>4. /\ n \in Ids /\ doubts' = [doubts EXCEPT ![o] = n] /\ doubts[o] <= n
      /\ crossed' = crossed /\ crossed' \subseteq Orders /\ crossed \subseteq crossed'
      /\ Overlooked' = Overlooked
  BY <1>1, <1>2, Undoubted, Typing DEF historyVars, Overlooked
<1>5. \E r \in Records :
        /\ order' = [order EXCEPT ![o] = r] /\ r.cancelled = order[o].cancelled
        /\ r.mirror = order[o].mirror
        /\ r.sync = "synced" => r.id \in 1 .. m
  <2>1. CASE UNCHANGED order
    <3>1. order' = [order EXCEPT ![o] = order[o]]
      BY <2>1, Typing
    <3> QED
      BY <1>1, <3>1
  <2>2. CASE Set(o, Stored(w))
    <3>1. Stored(w) \in Records /\ Stored(w).cancelled = order[o].cancelled
          /\ Stored(w).mirror = order[o].mirror /\ Stored(w).id = loc[w].id
      BY <1>1 DEF Stored, Records
    <3>2. order' = [order EXCEPT ![o] = Stored(w)]
      BY <2>2 DEF Set
    <3> QED
      BY <1>1, <3>1, <3>2
  <2> QED
    BY <2>1, <2>2 DEF StoreFails
<1> PICK r \in Records : /\ order' = [order EXCEPT ![o] = r] /\ r.cancelled = order[o].cancelled
                         /\ r.mirror = order[o].mirror
                         /\ r.sync = "synced" => r.id \in 1 .. m
  BY <1>5
<1>6. o \notin Overlooked' => m <= 1 /\ KnowsMade(w)'
  <2>1. pc'[w] = "fail" /\ loc'[w] = l /\ order'[o] = r /\ made'[o] = m
    BY <1>1, <1>3, Typing
  <2> QED
    BY <1>1, <1>3, <1>4, <2>1 DEF KnowsMade, Syncing
<1> HIDE DEF l, m, d, n
<1>7. r.mirror = "cancelled" => d # {}
  BY <1>1
<1>8. ShopInv'
  <2> HIDE DEF o
  <2>1. loc[w].o = o /\ made[o] <= m
    BY <1>1 DEF o, m
  <2> QED
    BY <1>1, <1>2, <1>3, <1>4, <1>6, <1>7, <2>1, WorkerMoves, ZenonT(60)
<1>9. TokenInv'
  BY <1>1, <1>2, Parts, CallsStay
<1>10. CallsAgree'
  BY <1>2, <1>3, CallsFollow DEF tokenVars
<1> QED
  BY <1>8, <1>9, <1>10, PartsAfter

LEMMA Failings == ASSUME IInv, NEW w \in Workers, Fail(w) PROVE IInv'
<1> DEFINE o == loc[w].o
           r == [order[o] EXCEPT !.sync = "pending_retry", !.id = loc[w].read]
           d == dead[o]
           how == loc[w].read = 0 /\ (loc[w].sent \/ order[o].id # 0)
<1>1. /\ pc[w] = "fail" /\ pc[w] # "idle" /\ pc[w] \notin Calling /\ o \in Orders
      /\ loc[w].read \in Ids /\ order[o] \in Records /\ d \in SUBSET (1 .. MaxMade)
      /\ o \notin Overlooked => KnowsMade(w)
      /\ order[o].mirror = "cancelled" => d # {}
      /\ made[o] \in Nat /\ loc[w].sent \in BOOLEAN
  BY Bearings, Standing DEF Fail, Calling
<1>2. r \in Records /\ r.mirror = order[o].mirror /\ r.sync # "synced"
  BY <1>1 DEF Records
<1>3. /\ Ends(w) /\ Set(o, r) /\ dead' = [dead EXCEPT ![o] = d] /\ UNCHANGED made
      /\ UNCHANGED <<token, login, logins, issued, revoked>> /\ UNCHANGED call
      /\ crossed' \subseteq Orders /\ crossed \subseteq crossed' /\ crossed' = crossed
      /\ faults' \in 0 .. MaxFaults /\ Doubted(o, how) /\ how \in BOOLEAN
  BY <1>1, Typing DEF Fail, tokenVars
<1> PICK n \in Ids : /\ doubts' = [doubts EXCEPT ![o] = n] /\ doubts[o] <= n
                     /\ how => o \in Overlooked'
                     /\ ~how /\ crossed' = crossed => Overlooked' = Overlooked
  BY <1>1, <1>3, Doubting, Zenon
<1>4. o \notin Overlooked' => made[o] = 0
  <2>1. o \notin Overlooked' => o \notin Overlooked /\ ~how
    BY <1>3
  <2> QED
    BY <1>1, <2>1 DEF KnowsMade, Syncing
<1>5. r.mirror = "cancelled" => d # {}
  BY <1>1, <1>2
<1>6. o \notin Overlooked' /\ made[o] > 0 =>
        /\ r.id # 0
        /\ r.cancelled => d # {} \/ r.mirror \in {"pending", "failed"}
  BY <1>1, <1>4
<1> HIDE DEF r, d, how
<1> QED
  BY <1>1, <1>2, <1>3, <1>5, <1>6, EndsWork

\* The failure is not stored: what the order was left with stays.
LEMMA FailErrors == ASSUME IInv, NEW w \in Workers, FailFails(w) PROVE IInv'
<1> DEFINE o == loc[w].o
           r == order[o]
           d == dead[o]
           how == loc[w].sent /\ order[o].id = 0
<1>1. /\ pc[w] = "fail" /\ pc[w] # "idle" /\ pc[w] \notin Calling /\ o \in Orders
      /\ r \in Records /\ d \in SUBSET (1 .. MaxMade)
      /\ o \notin Overlooked => KnowsMade(w)
      /\ r.mirror = "cancelled" => d # {}
      /\ r.sync = "synced" => r.id \in 1 .. made[o]
      /\ made[o] \in Nat /\ loc[w].sent \in BOOLEAN
  BY Bearings, Standing DEF FailFails, Calling
<1>2. /\ Ends(w) /\ Set(o, r) /\ dead' = [dead EXCEPT ![o] = d] /\ UNCHANGED made
      /\ UNCHANGED <<token, login, logins, issued, revoked>> /\ UNCHANGED call
      /\ crossed' \subseteq Orders /\ crossed \subseteq crossed' /\ crossed' = crossed
      /\ faults' \in 0 .. MaxFaults /\ Doubted(o, how) /\ how \in BOOLEAN
  BY <1>1, Typing DEF FailFails, tokenVars, Set
<1> PICK n \in Ids : /\ doubts' = [doubts EXCEPT ![o] = n] /\ doubts[o] <= n
                     /\ how => o \in Overlooked'
                     /\ ~how /\ crossed' = crossed => Overlooked' = Overlooked
  BY <1>1, <1>2, Doubting, Zenon
<1>3. o \notin Overlooked' /\ made[o] > 0 =>
        /\ r.id # 0
        /\ r.cancelled => d # {} \/ r.mirror \in {"pending", "failed"}
  <2>1. o \notin Overlooked' => o \notin Overlooked /\ ~how
    BY <1>2
  <2> QED
    BY <1>1, <2>1 DEF KnowsMade, Syncing
<1> HIDE DEF r, d, how
<1> QED
  BY <1>1, <1>2, <1>3, EndsWork

LEMMA Mirroring == ASSUME IInv, NEW w \in Workers, Mirror(w) PROVE IInv'
<1> DEFINE o == loc[w].o
           l == loc[w]
           r == [order[o] EXCEPT !.mirror = "pending"]
           m == made[o]
<1>1. /\ pc[w] = "mirror" /\ pc[w] # "idle" /\ o \in Orders /\ l \in Locals /\ l.o = o
      /\ order[o] \in Records /\ m \in Ids /\ m \in Nat
      /\ o \notin Overlooked => KnowsMade(w) /\ m <= 1
      /\ l.read # 0
      /\ order[o].sync = "synced" => order[o].id \in 1 .. m
      /\ faults' \in 0 .. MaxFaults
  BY Bearings, Standing, Typing DEF Mirror, IInv, IdsAreMade
<1>2. /\ r \in Records /\ r.mirror = "pending" /\ r.sync = order[o].sync /\ r.id = order[o].id
  BY <1>1 DEF Records, Mirrors
<1>3. /\ order' = [order EXCEPT ![o] = r] /\ made' = [made EXCEPT ![o] = m] /\ made[o] <= m
      /\ GoWith(w, "cancel", l) /\ Calls(w) /\ UNCHANGED dead
      /\ UNCHANGED <<token, login, logins, issued, revoked, historyVars>>
  BY <1>1, Typing DEF Mirror, Set, GoTo
<1>4. "cancel" \in Labels \ {"idle"} /\ "cancel" \in Calling
  BY DEF Labels, Calling
<1>5. o \notin Overlooked => m <= 1 /\ r.id # 0
  BY <1>1, <1>2 DEF KnowsMade
<1>6. r.sync = "synced" => r.id \in 1 .. m
  BY <1>1, <1>2
<1> HIDE DEF r, m, l, o
<1>7. o = loc[w].o /\ "cancel" \notin Syncing
  BY DEF o, Syncing
<1> QED
  BY <1>1, <1>2, <1>3, <1>4, <1>5, <1>6, <1>7, WritesAndGoesOn

\* The cancellation is not mirrored: its order is counted as crossed.
LEMMA MirrorErrors == ASSUME IInv, NEW w \in Workers, MirrorFails(w) PROVE IInv'
<1> DEFINE o == loc[w].o
           r == order[o]
           d == dead[o]
<1>1. /\ pc[w] = "mirror" /\ pc[w] # "idle" /\ pc[w] \notin Calling /\ o \in Orders
      /\ r \in Records /\ d \in SUBSET (1 .. MaxMade)
      /\ r.mirror = "cancelled" => d # {}
      /\ r.sync = "synced" => r.id \in 1 .. made[o]
  BY Bearings DEF MirrorFails, Calling
<1>2. /\ Ends(w) /\ Set(o, r) /\ dead' = [dead EXCEPT ![o] = d] /\ UNCHANGED made
      /\ UNCHANGED <<token, login, logins, issued, revoked>> /\ UNCHANGED call
      /\ crossed' \subseteq Orders /\ crossed \subseteq crossed' /\ o \in Overlooked'
      /\ faults' \in 0 .. MaxFaults /\ UNCHANGED doubts
  BY <1>1, Typing DEF MirrorFails, tokenVars, Set, Crosses, Overlooked
<1>3. doubts[o] \in Ids /\ doubts' = [doubts EXCEPT ![o] = doubts[o]] /\ doubts[o] <= doubts[o]
  BY <1>1, <1>2, Undoubted
<1> HIDE DEF r, d
<1> QED
  BY <1>1, <1>2, <1>3, EndsWork

\* The courier's answer to a cancellation, or none.
LEMMA Mirrored ==
  ASSUME IInv, NEW w \in Workers, pc[w] = "cancel", NEW status \in {"cancelled", "failed", "pending"},
         MirrorIs(w, status), faults' \in 0 .. MaxFaults,
         NEW d \in SUBSET (1 .. MaxMade), dead' = [dead EXCEPT ![loc[w].o] = d],
         dead[loc[w].o] \subseteq d, status = "cancelled" => d # {}
  PROVE  IInv'
<1> DEFINE o == loc[w].o
           r == [order[o] EXCEPT !.mirror = status]
<1>1. /\ pc[w] # "idle" /\ o \in Orders /\ order[o] \in Records
      /\ o \notin Overlooked => KnowsMade(w)
      /\ order[o].sync = "synced" => order[o].id \in 1 .. made[o]
  BY Bearings
<1>2. /\ r \in Records /\ r.mirror = status /\ r.sync = order[o].sync /\ r.id = order[o].id
  BY <1>1 DEF Records, Mirrors
<1>3. /\ Ends(w) /\ Set(o, r) /\ UNCHANGED made /\ EndsCall(w)
      /\ UNCHANGED <<token, login, logins, issued, revoked>>
      /\ crossed \subseteq crossed' /\ crossed' \subseteq Orders
      /\ doubts' = doubts /\ Overlooked' = Overlooked
  BY <1>1, Typing DEF MirrorIs, Answered, historyVars, Overlooked
<1>4. o \notin Overlooked' => r.id # 0
  BY <1>1, <1>2, <1>3 DEF KnowsMade
<1>5. /\ r.mirror = "cancelled" => d # {}
      /\ d # {} \/ r.mirror \in {"pending", "failed"}
      /\ r.sync = "synced" => r.id \in 1 .. made[o]
  BY <1>1, <1>2
<1>6. doubts[o] \in Ids /\ doubts' = [doubts EXCEPT ![o] = doubts[o]] /\ doubts[o] <= doubts[o]
  BY <1>1, <1>3, Undoubted
<1> HIDE DEF r
<1> QED
  BY <1>1, <1>2, <1>3, <1>4, <1>5, <1>6, EndsWork

LEMMA CourierCancellations ==
  ASSUME IInv, NEW w \in Workers, CourierCancels(w) \/ CancelFails(w) PROVE IInv'
<1> DEFINE o == loc[w].o
           more == dead[o] \cup {loc[w].read}
<1>1. /\ pc[w] = "cancel" /\ pc[w] # "idle" /\ faults' \in 0 .. MaxFaults
      /\ MirrorIs(w, "cancelled") \/ MirrorIs(w, "failed") \/ MirrorIs(w, "pending")
  BY Typing DEF CourierCancels, CancelFails
<1>2. /\ o \in Orders /\ dead[o] \in SUBSET (1 .. MaxMade) /\ loc[w].read \in Ids
      /\ dead' = dead => dead' = [dead EXCEPT ![o] = dead[o]]
  BY <1>1, Bearings, Typing
<1>3. CASE dead' = dead /\ (MirrorIs(w, "failed") \/ MirrorIs(w, "pending"))
  BY <1>1, <1>2, <1>3, Mirrored
<1>4. CASE dead' = [dead EXCEPT ![o] = more]
  <2>1. more # {} /\ dead[o] \subseteq more
    OBVIOUS
  <2>2. more \in SUBSET (1 .. MaxMade)
    <3>1. loc[w].read # 0
      BY <1>1 DEF IInv, IdsAreMade
    <3> QED
      BY <1>2, <3>1, Typing DEF Ids
  <2> HIDE DEF more
  <2> QED
    BY <1>1, <1>4, <2>1, <2>2, Mirrored
<1> QED
  BY <1>1, <1>3, <1>4 DEF CourierCancels, CancelFails

LEMMA Cancellations ==
  ASSUME IInv, NEW w \in Workers, NEW o \in Orders, Cancel(w, o) PROVE IInv'
<1> DEFINE r == [order[o] EXCEPT !.cancelled = TRUE]
           m == made[o]
           d == dead[o]
<1>1. /\ pc[w] = "idle" /\ ~order[o].cancelled /\ order' = [order EXCEPT ![o] = r]
      /\ Crosses(o, Shared(o))
      /\ UNCHANGED <<tokenVars, faults, made, dead, doubts>>
      /\ order[o] \in Records /\ m \in Ids /\ d \in SUBSET (1 .. MaxMade) /\ m \in Nat
  BY Standing DEF Cancel, Set
<1>2. /\ r \in Records /\ r.id = order[o].id /\ r.sync = order[o].sync
      /\ r.mirror = order[o].mirror
  BY <1>1 DEF Records
<1> DEFINE n == doubts[o]
<1>3. /\ crossed \subseteq crossed' /\ crossed' \subseteq Orders
      /\ n \in Ids /\ doubts' = [doubts EXCEPT ![o] = n] /\ doubts[o] <= n
      /\ o \notin crossed' => ~ \E v \in Workers : At(v, o)
      /\ made' = [made EXCEPT ![o] = m] /\ dead' = [dead EXCEPT ![o] = d] /\ made[o] <= m
      /\ Overlooked \subseteq Overlooked'
  BY <1>1, Typing, Undoubted DEF Crosses, Shared, Overlooked
<1>4. /\ r.sync = "synced" => r.id \in 1 .. m
      /\ r.mirror = "cancelled" => d # {}
  BY <1>2, Standing
<1>5. o \notin Overlooked' => m <= 1 /\ (m > 0 => r.id # 0)
  BY <1>2, <1>3, Standing DEF Overlooked
<1>6. ShopInv /\ TokenInv'
  BY <1>1, Parts, CallsStay, Typing
<1>7. CASE order[o].id # 0 /\ order[o].mirror # "cancelled"
  <2> DEFINE l == Reads(o)
  <2>1. pc' = [pc EXCEPT ![w] = "mirror"] /\ loc' = [loc EXCEPT ![w] = l]
    BY <1>7 DEF Cancel, GoWith
  <2>2. /\ l \in Locals /\ l.o = o /\ l.read = order[o].id /\ "mirror" \in Labels
        /\ l.read # 0 /\ "mirror" \notin Syncing /\ "mirror" \notin Calling
    BY <1>7, Standing, Typing DEF Reads, NoLocals, Locals, Labels, Syncing, Calling
  <2>3. KnowsMade(w)'
    <3>1. pc'[w] = "mirror" /\ loc'[w] = l /\ order'[o] = r
      BY <1>1, <2>1, Typing
    <3> QED
      BY <1>2, <1>7, <2>2, <3>1, ZenonT(30) DEF KnowsMade
  <2>4. ShopInv'
    <3> HIDE DEF r, m, d, l, n
    <3>1. m \in Ids /\ d \in SUBSET (1 .. MaxMade) /\ order' = [order EXCEPT ![o] = r] /\ pc[w] = "idle"
      BY <1>1
    <3> QED
      BY <1>2, <1>3, <1>4, <1>5, <1>6, <2>1, <2>2, <2>3, <3>1, WorkerMoves, ZenonT(60)
  <2>5. CallsAgree'
    BY <1>1, <2>1, <2>2, CallsFollow DEF Calling, tokenVars
  <2> QED
    BY <1>6, <2>4, <2>5, PartsAfter
<1>8. CASE ~(order[o].id # 0 /\ order[o].mirror # "cancelled")
  <2> DEFINE l == loc[w]
  <2>1. pc' = [pc EXCEPT ![w] = "idle"] /\ loc' = [loc EXCEPT ![w] = l] /\ pc' = pc
    BY <1>1, <1>8, Typing DEF Cancel
  <2>2. l \in Locals /\ "idle" \in Labels /\ "idle" \notin Calling
    BY Typing DEF Labels, Calling
  <2>3. o \notin Overlooked' /\ m > 0 => d # {}
    BY <1>2, <1>4, <1>5, <1>8
  <2>4. ShopInv'
    <3> HIDE DEF r, m, d, l, n
    <3>1. m \in Ids /\ d \in SUBSET (1 .. MaxMade) /\ order' = [order EXCEPT ![o] = r] /\ pc[w] = "idle"
      BY <1>1
    <3> QED
      BY <1>2, <1>3, <1>4, <1>5, <1>6, <2>1, <2>2, <2>3, <3>1, WorkerMoves, ZenonT(60)
  <2>5. CallsAgree'
    BY <1>1, <2>1, Parts DEF CallsAgree, tokenVars
  <2> QED
    BY <1>6, <2>4, <2>5, PartsAfter
<1> QED
  BY <1>7, <1>8

LEMMA Webhooks == ASSUME IInv, NEW o \in Orders, Webhook(o) PROVE IInv'
<1> PICK id \in 1 .. made[o] : order' = [order EXCEPT ![o] = [order[o] EXCEPT !.sync = "synced", !.id = id]]
  BY DEF Webhook, Set
<1> DEFINE r == [order[o] EXCEPT !.sync = "synced", !.id = id]
<1>1. /\ UNCHANGED <<tokenVars, faults, made, dead, pc, loc, doubts>> /\ Crosses(o, Shared(o))
      /\ order[o] \in Records /\ made[o] \in Ids /\ made[o] \in Nat
  BY Standing DEF Webhook
<1>2. id \in Ids /\ id # 0
  BY <1>1, Typing DEF Ids
<1>3. /\ r \in Records /\ r.id = id /\ r.mirror = order[o].mirror /\ r.cancelled = order[o].cancelled
  BY <1>1, <1>2 DEF Records
<1>4. /\ crossed \subseteq crossed' /\ crossed' \subseteq Orders /\ Overlooked \subseteq Overlooked'
      /\ o \notin crossed' => ~ \E v \in Workers : At(v, o)
  BY <1>1, Typing DEF Crosses, Shared, Overlooked
<1>5. \A p \in Orders : order'[p] = IF p = o THEN r ELSE order[p]
  BY Typing
<1>6. order' \in [Orders -> Records]
  BY <1>3, Typing
<1> HIDE DEF r
<1>7. /\ pc' = pc /\ loc' = loc /\ made' = made /\ dead' = dead /\ doubts' = doubts
      /\ \A v \in Workers, p \in Orders : At(v, p)' <=> At(v, p)
      /\ ShopInv /\ TokenInv' /\ CallsAgree'
  BY <1>1, Parts, CallsStay, Typing DEF At, CallsAgree, tokenVars
<1>8. ShopTypeOK' /\ OneAtATime'
  BY <1>4, <1>6, <1>7 DEF ShopInv, ShopTypeOK, OneAtATime
<1>9. IdsAreMade'
  BY <1>3, <1>5, <1>7, Standing DEF ShopInv, IdsAreMade
<1>10. WorkersKnow'
  <2> SUFFICES ASSUME NEW v \in Workers, pc[v] # "idle", loc[v].o \notin Overlooked'
               PROVE  KnowsMade(v)'
    BY <1>7 DEF WorkersKnow
  <2>1. loc[v].o \in Orders /\ loc[v].o # o /\ KnowsMade(v)
    BY <1>4, <1>7 DEF ShopInv, IdsAreMade, WorkersKnow, At, Overlooked
  <2> QED
    BY <1>5, <1>7, <2>1 DEF KnowsMade
<1>11. MadeIsStored'
  BY <1>2, <1>3, <1>4, <1>5, <1>7 DEF ShopInv, MadeIsStored
<1>12. ShownIsTrue'
  <2> SUFFICES ASSUME NEW p \in Orders
               PROVE  /\ order'[p].sync = "synced" => order'[p].id \in 1 .. made[p]
                      /\ order'[p].mirror = "cancelled" => dead[p] # {}
                      /\ p \notin Overlooked' /\ order'[p].cancelled /\ made[p] > 0 =>
                           \/ dead[p] # {} \/ order'[p].mirror \in {"pending", "failed"}
                           \/ \E v \in Workers : At(v, p)
    BY <1>7, <1>8, CourierBounds DEF ShownIsTrue, Overlooked, ShopTypeOK, Ids
  <2>1. /\ order'[p].sync = "synced" => order'[p].id \in 1 .. made[p]
        /\ order'[p].mirror = "cancelled" => dead[p] # {}
    BY <1>3, <1>5, Standing
  <2>2. /\ order'[p].cancelled = order[p].cancelled /\ order'[p].mirror = order[p].mirror
    BY <1>3, <1>5
  <2>3. p \notin Overlooked' => p \notin crossed /\ doubts[p] = 0
    BY <1>4, Standing DEF Overlooked
  <2> QED
    BY <1>7, <2>1, <2>2, <2>3 DEF ShopInv, ShownIsTrue
<1> QED
  BY <1>7, <1>8, <1>9, <1>10, <1>11, <1>12, PartsAfter DEF ShopInv

\* A crash: only what the courier may have made, and a cancellation not yet mirrored, is
\* left in doubt.
LEMMA Crashes == ASSUME IInv, Crash PROVE IInv'
<1> DEFINE left == {v \in Workers : pc[v] = "mirror"}
           Lost(o) == /\ order[o].id = 0 /\ doubts[o] < MaxMade
                      /\ \E w \in Workers : InSync(w, o) /\ (loc[w].sent \/ pc[w] = "store")
<1>1. /\ pc' = [w \in Workers |-> "idle"] /\ loc' = [w \in Workers |-> NoLocals]
      /\ crossed' = crossed \cup {loc[w].o : w \in left}
      /\ doubts' = [o \in Orders |-> IF Lost(o) THEN doubts[o] + 1 ELSE doubts[o]]
      /\ order' = order /\ made' = made /\ dead' = dead
      /\ \A w \in Workers : call'[w] = NoCall
      /\ ShopInv
  BY Parts DEF Crash, TokenCrash
<1>2. faults' \in 0 .. MaxFaults
  BY Typing DEF Crash
<1>3. TokenInv'
  BY <1>2, Parts, TokenCrashes DEF Crash
<1>4. CallsAgree'
  BY <1>1 DEF CallsAgree, NoCall
<1>5. \A w \in left : loc[w].o \in Orders
  BY <1>1 DEF ShopInv, IdsAreMade
<1>6. ShopTypeOK'
  <2>1. \A o \in Orders : doubts'[o] \in Ids
    BY <1>1, Typing DEF Ids
  <2>2. doubts' \in [Orders -> Ids]
    BY <1>1, <2>1
  <2> QED
    BY <1>1, <1>5, <2>2, Typing DEF ShopTypeOK, Labels
<1>7. \A v \in Workers, p \in Orders : ~At(v, p)'
  BY <1>1 DEF At
<1>8. IdsAreMade' /\ OneAtATime' /\ WorkersKnow'
  BY <1>1, <1>7 DEF ShopInv, IdsAreMade, OneAtATime, WorkersKnow
<1>9. \A p \in Orders : p \notin Overlooked' => p \notin Overlooked /\ doubts[p] = 0 /\ ~Lost(p)
  <2> SUFFICES ASSUME NEW p \in Orders, p \notin Overlooked'
               PROVE  p \notin Overlooked /\ doubts[p] = 0 /\ ~Lost(p)
    OBVIOUS
  <2>1. p \notin crossed' /\ ~(doubts'[p] > 0)
    BY DEF Overlooked
  <2>2. doubts[p] \in Nat /\ doubts'[p] = IF Lost(p) THEN doubts[p] + 1 ELSE doubts[p]
    BY <1>1, Standing
  <2> HIDE DEF Lost
  <2> QED
    BY <1>1, <2>1, <2>2 DEF Overlooked
\* Who is at an order that is not left in doubt has made nothing, or stored it, or mirrors.
<1>10. ASSUME NEW p \in Orders, p \notin Overlooked', NEW w \in Workers, At(w, p)
       PROVE  /\ made[p] = 0 \/ order[p].id # 0
              /\ ~order[p].cancelled \/ order[p].mirror = "pending"
  <2>1. /\ pc[w] # "idle" /\ loc[w].o = p /\ KnowsMade(w) /\ loc[w].sent \in BOOLEAN
        /\ p \notin crossed'
    BY <1>1, <1>9, <1>10, Typing DEF At, ShopInv, WorkersKnow, Overlooked, Locals
  <2>2. CASE pc[w] = "mirror"
    BY <1>1, <2>1, <2>2
  <2>3. CASE pc[w] = "cancel"
    BY <2>1, <2>3 DEF KnowsMade
  <2>4. CASE pc[w] \in Syncing
    <3>1. order[p].id # 0 \/ ~(loc[w].sent \/ pc[w] = "store")
      <4>1. doubts[p] < MaxMade
        BY <1>9, <1>10, Typing
      <4> QED
        BY <1>9, <1>10, <2>1, <2>4, <4>1 DEF InSync
    <3> QED
      BY <2>1, <2>4, <3>1 DEF KnowsMade
  <2> QED
    BY <2>1, <2>2, <2>3, <2>4, Typing DEF Labels, Syncing
<1>11. MadeIsStored'
  <2> SUFFICES ASSUME NEW p \in Orders \ Overlooked'
               PROVE  made[p] <= 1 /\ (made[p] > 0 => order[p].id # 0)
    BY <1>1, <1>7 DEF MadeIsStored
  <2>1. p \notin Overlooked
    BY <1>9
  <2>2. \A w \in Workers : At(w, p) => order[p].id # 0 \/ made[p] = 0
    BY <1>10
  <2> QED
    BY <2>1, <2>2, Standing
<1>12. ShownIsTrue'
  <2> SUFFICES ASSUME NEW p \in Orders
               PROVE  /\ order[p].sync = "synced" => order[p].id \in 1 .. made[p]
                      /\ order[p].mirror = "cancelled" => dead[p] # {}
                      /\ p \notin Overlooked' /\ order[p].cancelled /\ made[p] > 0 =>
                           dead[p] # {} \/ order[p].mirror \in {"pending", "failed"}
    BY <1>1, <1>6, CourierBounds DEF ShownIsTrue, Overlooked, ShopTypeOK, Ids
  <2>1. ASSUME p \notin Overlooked', order[p].cancelled, made[p] > 0, NEW w \in Workers, At(w, p)
        PROVE  order[p].mirror = "pending"
    BY <1>10, <2>1
  <2>2. p \notin Overlooked' => p \notin crossed /\ doubts[p] = 0
    BY <1>9 DEF Overlooked
  <2> QED
    BY <1>1, <2>1, <2>2, Standing DEF ShopInv, ShownIsTrue
<1> QED
  BY <1>3, <1>4, <1>6, <1>8, <1>11, <1>12, PartsAfter DEF ShopInv

\* A step of the client keeps which workers have a request.
LEMMA ClientSteps ==
  ASSUME IInv, TokenNext, UNCHANGED shopVars PROVE IInv'
<1>1. TokenInv'
  BY Parts, TokenSteps
<1>2. \A w \in Workers : call'[w].at # "none" <=> call[w].at # "none"
  <2>1. call \in [Workers -> [at : CallStates, held : 0 .. issued, refused : 0 .. issued]]
    BY DEF IInv, TypeOK, TokenTypeOK
  <2>2. ASSUME NEW w \in Workers, Ask(w) \/ Refused(w)
        PROVE  \A v \in Workers : call'[v].at # "none" <=> call[v].at # "none"
    <3>1. call[w].at # "none"
      BY <2>2 DEF Ask, Refused, Accepted
    <3>2. \A v \in Workers \ {w} : call'[v] = call[v]
      BY <2>1, <2>2 DEF Ask, Refused, CallGoes
    <3>3. call'[w].at # "none"
      BY <2>1, <2>2 DEF Ask, Refused, CallGoes
    <3> QED
      BY <3>1, <3>2, <3>3
  <2>3. CASE LoginAnswers
    BY <2>1, <2>3 DEF LoginAnswers
  <2>4. CASE LoginFails
    BY <2>1, <2>4 DEF LoginFails, FailWaiting
  <2>5. CASE LoginGranted \/ Ages \/ Revoke
    BY <2>5 DEF LoginGranted, Ages, Revoke
  <2> QED
    BY <2>2, <2>3, <2>4, <2>5 DEF TokenNext
<1>3. UNCHANGED <<pc, loc, order, made, dead, crossed, doubts>>
  BY DEF shopVars, historyVars
<1>4. CallsAgree'
  BY <1>2, <1>3, Parts DEF CallsAgree
<1>5. ShopInv'
  BY <1>3, Parts DEF ShopInv, ShopTypeOK, IdsAreMade, OneAtATime, WorkersKnow, KnowsMade,
     MadeIsStored, ShownIsTrue, Overlooked, At
<1> QED
  BY <1>1, <1>4, <1>5, PartsAfter

LEMMA AtStart == Init => IInv
<1> SUFFICES ASSUME Init PROVE IInv
  OBVIOUS
<1>1. TokenInv
  BY TokenStart DEF Init
<1>2. NoLocals \in Locals /\ Placed \in Records /\ 0 \in Ids
  BY CourierBounds DEF NoLocals, Locals, Placed, Records, Ids, Mirrors
<1>3. CallsAgree
  BY DEF Init, TokenInit, CallsAgree, NoCall
<1>4. ShopTypeOK
  BY <1>2 DEF Init, ShopTypeOK, Labels
<1>5. \A w \in Workers : pc[w] = "idle"
  BY DEF Init
<1>6. \A o \in Orders : order[o] = Placed /\ made[o] = 0
  BY DEF Init
<1>7. IdsAreMade /\ OneAtATime /\ WorkersKnow /\ MadeIsStored /\ ShownIsTrue
  BY <1>5, <1>6 DEF IdsAreMade, OneAtATime, WorkersKnow, MadeIsStored, ShownIsTrue, At, Placed
<1> QED
  BY <1>1, <1>3, <1>4, <1>7, Parts DEF ShopInv

LEMMA Steps == IInv /\ [Next]_vars => IInv'
<1> SUFFICES ASSUME IInv, [Next]_vars PROVE IInv'
  OBVIOUS
<1>1. ASSUME NEW w \in Workers, Continue(w) PROVE IInv'
  BY <1>1, Prepares, Creates, CreateErrors, Searches, SearchErrors, Stores, StoreErrors, Failings,
     FailErrors, Mirroring, MirrorErrors, CourierCancellations DEF Continue
<1>2. ASSUME NEW w \in Workers, NEW o \in Orders, Cancel(w, o) PROVE IInv'
  BY <1>2, Cancellations
<1>3. ASSUME NEW w \in Workers, NEW o \in Orders, NEW force \in BOOLEAN, StartSync(w, o, force)
      PROVE  IInv'
  BY <1>3, Starts
<1>4. ASSUME NEW o \in Orders, Webhook(o) PROVE IInv'
  BY <1>4, Webhooks
<1>5. CASE Crash
  BY <1>5, Crashes
<1>6. CASE TokenNext /\ UNCHANGED shopVars
  BY <1>6, ClientSteps
<1>7. CASE UNCHANGED vars
  BY <1>7, Stutters
<1> QED
  BY <1>1, <1>2, <1>3, <1>4, <1>5, <1>6, <1>7 DEF Next

-----------------------------------------------------------------------------
(* How many courier orders there are.                                      *)

Toward == {"prepare", "create"}
Going(label) == IF label \in Toward THEN 1 ELSE 0

Holds(w) == loc[w].sent \/ pc[w] \in {"prepare", "create", "store"}

\* A step of worker w about order o.
LEMMA CountMoves ==
  ASSUME IInv, Counted, NEW w \in Workers, NEW o \in Orders,
         NEW label \in Labels, NEW l \in Locals,
         NEW r \in Records, NEW m \in Ids, NEW n \in Ids,
         pc' = [pc EXCEPT ![w] = label], loc' = [loc EXCEPT ![w] = l],
         order' = [order EXCEPT ![o] = r], made' = [made EXCEPT ![o] = m],
         doubts' = [doubts EXCEPT ![o] = n], doubts[o] <= n,
         pc[w] = "idle" \/ loc[w].o = o, label = "idle" \/ l.o = o,
         \/ n = MaxMade
         \/ m = 0 /\ (label \notin Toward)
         \/ m + Going(label) + HeldBy(o) <= made[o] + Going(pc[w]) + (n - doubts[o]) + HeldBy(o)'
  PROVE  Counted'
<1>1. \A v \in Workers : /\ pc'[v] = IF v = w THEN label ELSE pc[v]
                         /\ loc'[v] = IF v = w THEN l ELSE loc[v]
  BY Typing
<1>2. \A p \in Orders : /\ order'[p] = IF p = o THEN r ELSE order[p]
                        /\ made'[p] = IF p = o THEN m ELSE made[p]
                        /\ doubts'[p] = IF p = o THEN n ELSE doubts[p]
  BY Typing
<1>3. ASSUME NEW p \in Orders \ {o}
      PROVE  MayMake(p)' = MayMake(p) /\ HeldBy(p)' = HeldBy(p)
  <2>1. \A v \in Workers : /\ v \in MayMake(p)' <=> v \in MayMake(p)
                           /\ InSync(v, p)' <=> InSync(v, p)
                           /\ InSync(v, p) => v # w
    BY <1>1 DEF MayMake, InSync, Syncing, Toward
  <2>2. MayMake(p)' = MayMake(p)
    BY <2>1 DEF MayMake
  <2>3. Held(p)' <=> Held(p)
    BY <1>1, <1>2, <2>1 DEF Held
  <2> QED
    BY <2>2, <2>3 DEF HeldBy
<1> DEFINE others == MayMake(o) \ {w}
<1>4. /\ MayMake(o) = IF pc[w] \in Toward THEN others \cup {w} ELSE others
      /\ MayMake(o)' = IF label \in Toward THEN others \cup {w} ELSE others
      /\ w \notin others
  <2>1. w \in MayMake(o) <=> pc[w] \in Toward
    BY DEF MayMake, Toward
  <2>2. w \in MayMake(o)' <=> label \in Toward
    BY <1>1 DEF MayMake, Toward
  <2>3. \A v \in Workers \ {w} : v \in MayMake(o)' <=> v \in MayMake(o)
    BY <1>1 DEF MayMake
  <2>4. MayMake(o) \subseteq Workers /\ MayMake(o)' \subseteq Workers
    BY DEF MayMake
  <2> QED
    BY <2>1, <2>2, <2>3, <2>4
<1>5. IsFiniteSet(others) /\ Cardinality(others) \in Nat
  <2>1. IsFiniteSet(MayMake(o))
    BY DEF Counted
  <2> QED
    BY <2>1, FS_Subset, FS_CardinalityType
<1>6. Cardinality(others \cup {w}) = Cardinality(others) + 1 /\ IsFiniteSet(others \cup {w})
  BY <1>4, <1>5, FS_AddElement
<1> DEFINE k == Cardinality(others)
<1>7. /\ IsFiniteSet(MayMake(o)') /\ Cardinality(MayMake(o)') = k + Going(label)
      /\ Cardinality(MayMake(o)) = k + Going(pc[w])
  <2>1. CASE label \in Toward /\ pc[w] \in Toward
    BY <1>4, <1>5, <1>6, <2>1 DEF Going
  <2>2. CASE label \in Toward /\ pc[w] \notin Toward
    <3>1. MayMake(o) = others /\ MayMake(o)' = others \cup {w}
      BY <1>4, <2>2
    <3>2. Going(label) = 1 /\ Going(pc[w]) = 0
      BY <2>2 DEF Going
    <3>3. k \in Nat /\ k = Cardinality(others)
      BY <1>5
    <3> HIDE DEF others, k
    <3> QED
      BY <1>5, <1>6, <3>1, <3>2, <3>3
  <2>3. CASE label \notin Toward /\ pc[w] \in Toward
    BY <1>4, <1>5, <1>6, <2>3 DEF Going
  <2>4. CASE label \notin Toward /\ pc[w] \notin Toward
    BY <1>4, <1>5, <1>6, <2>4 DEF Going
  <2> QED
    BY <2>1, <2>2, <2>3, <2>4
<1>8. HeldBy(o) \in {0, 1} /\ HeldBy(o)' \in {0, 1}
  BY DEF HeldBy
<1>9. /\ m \in Nat /\ n \in Nat /\ made[o] \in Nat /\ doubts[o] \in 0 .. MaxMade /\ MaxMade \in Nat
      /\ n <= MaxMade /\ Going(label) \in {0, 1} /\ Going(pc[w]) \in {0, 1}
  BY Standing, Typing DEF Ids, Going
<1>10. ASSUME n # MaxMade PROVE m + Cardinality(MayMake(o)') <= n + HeldBy(o)'
  <2>1. CASE m = 0 /\ label \notin Toward
    <3>1. CASE others = {}
      BY <1>4, <1>7, <1>8, <1>9, <2>1, <3>1, FS_EmptySet
    <3>2. CASE others # {}
      <4>1. PICK v \in others : v # w /\ v \in MayMake(o)
        BY <3>2
      <4>2. HeldBy(o) = 1 /\ HeldBy(o)' = 1
        <5>1. v \in Workers /\ InSync(v, o) /\ Holds(v) /\ pc'[v] = pc[v] /\ loc'[v] = loc[v]
          BY <1>1, <4>1 DEF MayMake, InSync, Syncing, Holds
        <5>2. Held(o) /\ Held(o)'
          BY <5>1 DEF Held, InSync, Holds
        <5> QED
          BY <5>2 DEF HeldBy
      <4>3. doubts[o] # MaxMade
        BY <1>9, <1>10
      <4>4. made[o] + Cardinality(MayMake(o)) <= doubts[o] + HeldBy(o)
        BY <4>3 DEF Counted
      <4>5. Going(label) = 0
        BY <2>1 DEF Going
      <4>6. k \in Nat
        BY <1>5
      <4> HIDE DEF k, others
      <4> QED
        BY <1>7, <1>9, <2>1, <4>2, <4>4, <4>5, <4>6
    <3> QED
      BY <3>1, <3>2
  <2>2. CASE m + Going(label) + HeldBy(o) <= made[o] + Going(pc[w]) + (n - doubts[o]) + HeldBy(o)'
    <3>1. doubts[o] # MaxMade
      BY <1>9, <1>10
    <3>2. made[o] + Cardinality(MayMake(o)) <= doubts[o] + HeldBy(o)
      BY <3>1 DEF Counted
    <3>3. k \in Nat
      BY <1>5
    <3> HIDE DEF k, others
    <3> QED
      BY <1>7, <1>8, <1>9, <2>2, <3>2, <3>3
  <2> QED
    BY <1>10, <2>1, <2>2
<1> QED
  <2> SUFFICES ASSUME NEW p \in Orders
               PROVE  /\ IsFiniteSet(MayMake(p)')
                      /\ doubts'[p] # MaxMade =>
                           made'[p] + Cardinality(MayMake(p)') <= doubts'[p] + HeldBy(p)'
    BY DEF Counted
  <2>1. CASE p = o
    BY <1>2, <1>7, <1>10, <2>1
  <2>2. CASE p # o
    BY <1>2, <1>3, <2>2 DEF Counted
  <2> QED
    BY <2>1, <2>2

\* Who answers for an order still does when another moves on.
LEMMA StaysHeld ==
  ASSUME IInv, NEW w \in Workers, NEW o \in Orders, NEW label \in Labels, NEW l \in Locals,
         pc' = [pc EXCEPT ![w] = label], loc' = [loc EXCEPT ![w] = l],
         order[o].id # 0 => order'[o].id # 0,
         InSync(w, o) /\ Holds(w) =>
           label \in Syncing /\ l.o = o /\ (l.sent \/ label \in {"prepare", "create", "store"})
  PROVE  HeldBy(o) <= HeldBy(o)'
<1>1. \A v \in Workers : /\ pc'[v] = IF v = w THEN label ELSE pc[v]
                         /\ loc'[v] = IF v = w THEN l ELSE loc[v]
  BY Typing
<1>2. Held(o) => Held(o)'
  <2>1. CASE order[o].id # 0
    BY <2>1 DEF Held
  <2>2. ASSUME NEW v \in Workers, InSync(v, o), Holds(v)
        PROVE  Held(o)'
    <3>1. InSync(v, o)' /\ Holds(v)'
      BY <1>1, <2>2 DEF InSync, Holds
    <3> QED
      BY <3>1 DEF Held, Holds
  <2> QED
    BY <2>1, <2>2 DEF Held, Holds
<1> QED
  BY <1>2 DEF HeldBy

Keeps(w, o, label, l, r, m) ==
  \/ m = 0 /\ label \notin Toward
  \/ /\ m + Going(label) <= made[o] + Going(pc[w])
     /\ order[o].id # 0 => r.id # 0
     /\ InSync(w, o) /\ Holds(w) =>
          label \in Syncing /\ (l.sent \/ label \in {"prepare", "create", "store"})
  \/ m + Going(label) <= made[o] + Going(pc[w]) /\ r.id # 0
  \/ m + Going(label) + 1 <= made[o] + Going(pc[w])

\* What a step of worker w changes of the count: it makes an order or can no longer, and
\* somebody still answers for the order; or it loses one that could be made.
LEMMA CountGoesOn ==
  ASSUME IInv, Counted, NEW w \in Workers, NEW o \in Orders, loc[w].o = o,
         NEW label \in Labels, NEW l \in Locals, GoWith(w, label, l),
         label = "idle" \/ l.o = o,
         NEW r \in Records, order' = [order EXCEPT ![o] = r],
         NEW m \in Ids, made' = [made EXCEPT ![o] = m],
         UNCHANGED doubts, Keeps(w, o, label, l, r, m)
  PROVE  Counted'
<1> DEFINE n == doubts[o]
<1>1. /\ n \in Ids /\ n \in Nat /\ doubts' = [doubts EXCEPT ![o] = n] /\ doubts[o] <= n
      /\ made[o] \in Nat /\ m \in Nat /\ Going(label) \in {0, 1} /\ Going(pc[w]) \in {0, 1}
      /\ HeldBy(o) \in {0, 1} /\ HeldBy(o)' \in {0, 1}
  BY Standing, Undoubted, Typing DEF Ids, Going, HeldBy
<1>2. /\ pc' = [pc EXCEPT ![w] = label] /\ loc' = [loc EXCEPT ![w] = l] /\ order'[o] = r
  BY Typing DEF GoWith
<1>3. ASSUME r.id # 0 PROVE HeldBy(o)' = 1
  BY <1>2, <1>3 DEF HeldBy, Held
<1>4. ASSUME order[o].id # 0 => r.id # 0,
             InSync(w, o) /\ Holds(w) =>
               label \in Syncing /\ (l.sent \/ label \in {"prepare", "create", "store"})
      PROVE  HeldBy(o) <= HeldBy(o)'
  <2>1. label \in Syncing => l.o = o
    BY DEF Syncing
  <2> QED
    BY <1>1, <1>2, <1>4, <2>1, StaysHeld
<1>5. \/ m = 0 /\ label \notin Toward
      \/ m + Going(label) + HeldBy(o) <= made[o] + Going(pc[w]) + (n - doubts[o]) + HeldBy(o)'
  <2>1. CASE m + Going(label) <= made[o] + Going(pc[w]) /\ HeldBy(o) <= HeldBy(o)'
    BY <1>1, <2>1
  <2>2. CASE m + Going(label) + 1 <= made[o] + Going(pc[w])
    BY <1>1, <2>2
  <2>3. CASE m + Going(label) <= made[o] + Going(pc[w]) /\ r.id # 0
    BY <1>1, <1>3, <2>3
  <2> QED
    BY <1>4, <2>1, <2>2, <2>3 DEF Keeps
<1> HIDE DEF n
<1> QED
  BY <1>1, <1>2, <1>5, CountMoves, ZenonT(60)

\* A sync is begun: beside another or for an order with ids, it is a doubt.
LEMMA CountStarts ==
  ASSUME IInv, Counted, NEW w \in Workers, NEW o \in Orders, NEW force \in BOOLEAN,
         StartSync(w, o, force)
  PROVE  Counted'
<1>1. CASE ~force /\ order[o].id # 0
  <2>1. UNCHANGED <<pc, loc, order, made, doubts>>
    BY <1>1 DEF StartSync, historyVars
  <2> QED
    BY <2>1 DEF Counted, MayMake, HeldBy, Held, InSync
<1>2. CASE ~(~force /\ order[o].id # 0)
  <2> DEFINE l == Reads(o)
             how == order[o].id # 0 \/ \E v \in Workers : InSync(v, o)
             m == made[o]
             r == order[o]
             label == "prepare"
  <2>1. /\ GoWith(w, label, l) /\ pc[w] = "idle"
        /\ Doubted(o, how) /\ how \in BOOLEAN /\ UNCHANGED <<order, made>>
    BY <1>2 DEF StartSync
  <2>2. /\ l \in Locals /\ l.o = o /\ label \in Labels
        /\ m \in Ids /\ m \in Nat /\ r \in Records /\ doubts[o] \in 0 .. MaxMade /\ MaxMade \in Nat
    BY Standing, Typing DEF Reads, NoLocals, Locals, Labels, Ids
  <2>3. /\ pc' = [pc EXCEPT ![w] = label] /\ loc' = [loc EXCEPT ![w] = l]
        /\ order' = [order EXCEPT ![o] = r] /\ made' = [made EXCEPT ![o] = m]
    BY <2>1, Typing DEF GoWith
  <2> PICK n \in Ids : /\ doubts' = [doubts EXCEPT ![o] = n] /\ doubts[o] <= n
                       /\ n = IF how /\ doubts[o] < MaxMade THEN doubts[o] + 1 ELSE doubts[o]
    BY <2>1, Doubting, Zenon
  <2>4. HeldBy(o)' = 1
    <3>1. pc'[w] = "prepare" /\ loc'[w].o = o
      BY <2>2, <2>3, Typing
    <3> QED
      BY <3>1 DEF HeldBy, Held, InSync, Syncing
  <2>5. ~how => HeldBy(o) = 0
    BY DEF HeldBy, Held
  <2>6. HeldBy(o) \in {0, 1} /\ Going(label) = 1 /\ Going(pc[w]) = 0
    BY <2>1 DEF HeldBy, Going, Toward
  <2>7. \/ n = MaxMade
        \/ m + Going(label) + HeldBy(o) <= made[o] + Going(pc[w]) + (n - doubts[o]) + HeldBy(o)'
    <3> HIDE DEF how
    <3> QED
      BY <2>2, <2>4, <2>5, <2>6
  <2> HIDE DEF l, how, m, r, label
  <2> QED
    BY <2>1, <2>2, <2>3, <2>7, CountMoves, ZenonT(60)
<1> QED
  BY <1>1, <1>2

LEMMA CountPrepares ==
  ASSUME IInv, Counted, NEW w \in Workers, NEW o \in Orders, loc[w].o = o, Prepare(w)
  PROVE  Counted'
<1>1. /\ pc[w] = "prepare" /\ made' = [made EXCEPT ![o] = made[o]] /\ made[o] \in Ids /\ made[o] \in Nat
      /\ loc[w] \in Locals /\ order[o] \in Records /\ UNCHANGED doubts
  BY Standing, Typing DEF Prepare, historyVars
<1>2. Going("create") = 1 /\ Going("fail") = 0 /\ Going(pc[w]) = 1
  BY <1>1 DEF Going, Toward
<1>3. CASE Set(o, [order[o] EXCEPT !.sync = "pending"]) /\ GoTo(w, "create")
  <2> DEFINE r == [order[o] EXCEPT !.sync = "pending"]
             m == made[o]
             l == loc[w]
             label == "create"
  <2>1. /\ r \in Records /\ r.id = order[o].id /\ order' = [order EXCEPT ![o] = r]
    BY <1>1, <1>3 DEF Records, Set
  <2>2. /\ label \in Labels /\ label \in Syncing /\ label \in {"prepare", "create", "store"}
        /\ GoWith(w, label, l) /\ l.o = o /\ m + Going(label) <= made[o] + Going(pc[w])
    BY <1>1, <1>2, <1>3, <2>1 DEF Labels, Syncing, GoTo
  <2>4. Keeps(w, o, label, l, r, m)
    BY <2>1, <2>2 DEF Keeps
  <2> HIDE DEF r, m, l, label
  <2>3. l \in Locals /\ m \in Ids /\ made' = [made EXCEPT ![o] = m]
    BY <1>1 DEF l, m
  <2> QED
    BY <1>1, <2>1, <2>2, <2>3, <2>4, CountGoesOn, ZenonT(60)
<1>4. CASE GoTo(w, "fail") /\ UNCHANGED order
  <2> DEFINE r == order[o]
             m == made[o]
             l == loc[w]
             label == "fail"
  <2>1. /\ label \in Labels /\ GoWith(w, label, l) /\ l.o = o /\ order' = [order EXCEPT ![o] = r]
        /\ Keeps(w, o, label, l, r, m) /\ r \in Records /\ l \in Locals
        /\ m \in Ids /\ made' = [made EXCEPT ![o] = m]
    BY <1>1, <1>2, <1>4, Typing DEF Labels, GoTo, Keeps
  <2> HIDE DEF r, m, l, label
  <2> QED
    BY <1>1, <2>1, CountGoesOn, ZenonT(60)
<1> QED
  BY <1>3, <1>4 DEF Prepare

\* A create request may have made one order, and then it has been sent.
LEMMA CountCreates ==
  ASSUME IInv, Counted, NEW w \in Workers, NEW o \in Orders, loc[w].o = o,
         Create(w) \/ CreateFails(w)
  PROVE  Counted'
<1>1. /\ pc[w] = "create" /\ made[o] \in Ids /\ made[o] \in Nat
      /\ loc[w] \in Locals /\ order[o] \in Records /\ UNCHANGED <<order, doubts>>
      /\ order' = [order EXCEPT ![o] = order[o]]
  BY Standing, Typing DEF Create, CreateFails, historyVars
<1>2. /\ Going("store") = 0 /\ Going("search") = 0 /\ Going(pc[w]) = 1
      /\ {"store", "search"} \subseteq Labels /\ {"store", "search"} \subseteq Syncing
  BY <1>1 DEF Going, Toward, Labels, Syncing
<1>3. ASSUME NEW label \in {"store", "search"}, NEW l \in Locals, GoWith(w, label, l), l.o = o,
             NEW m \in Ids, made' = [made EXCEPT ![o] = m],
             \/ m = made[o] + 1 /\ (label = "store" \/ l.sent)
             \/ m = made[o]
      PROVE  Counted'
  <2> DEFINE r == order[o]
  <2>1. /\ label \in Labels /\ label \in Syncing /\ Going(label) = 0 /\ r \in Records
        /\ order' = [order EXCEPT ![o] = r]
    BY <1>1, <1>2
  <2>2. m \in Nat
    BY Typing DEF Ids
  <2>3. m = made[o] + 1 /\ (label = "store" \/ l.sent) => Keeps(w, o, label, l, r, m)
    BY <1>1, <1>2, <2>1, <2>2 DEF Keeps
  <2>4. m = made[o] => Keeps(w, o, label, l, r, m)
    BY <1>1, <1>2, <2>1, <2>2 DEF Keeps
  <2>5. Keeps(w, o, label, l, r, m)
    BY <1>3, <2>3, <2>4
  <2> HIDE DEF r
  <2> QED
    BY <1>1, <1>3, <2>1, <2>5, CountGoesOn, ZenonT(60)
<1> DEFINE searching == [loc[w] EXCEPT !.sent = TRUE]
           storing == [loc[w] EXCEPT !.id = made[o] + 1]
<1>4. searching \in Locals /\ searching.o = o /\ searching.sent
  BY <1>1 DEF Locals
<1>5. ASSUME MakesOrder(o)
      PROVE  /\ made[o] + 1 \in Ids /\ made' = [made EXCEPT ![o] = made[o] + 1]
             /\ storing \in Locals /\ storing.o = o
  BY <1>1, <1>5, Making DEF Locals
<1>6. UNCHANGED made => made' = [made EXCEPT ![o] = made[o]]
  BY Typing
<1>7. CASE MakesOrder(o) /\ GoWith(w, "store", storing)
  <2> HIDE DEF storing
  <2> QED
    BY <1>3, <1>5, <1>7
<1>8. CASE MakesOrder(o) /\ GoWith(w, "search", searching)
  <2> HIDE DEF searching
  <2> QED
    BY <1>3, <1>4, <1>5, <1>8
<1>9. CASE UNCHANGED made /\ GoWith(w, "search", searching)
  <2> HIDE DEF searching
  <2> QED
    BY <1>1, <1>3, <1>4, <1>6, <1>9
<1>10. CASE UNCHANGED made /\ GoWith(w, "search", loc[w])
  <2> DEFINE l == loc[w]
  <2>1. l \in Locals /\ l.o = o /\ GoWith(w, "search", l)
    BY <1>1, <1>10
  <2> HIDE DEF l
  <2> QED
    BY <1>1, <1>3, <1>6, <1>10, <2>1
<1> QED
  BY <1>7, <1>8, <1>9, <1>10 DEF Create, CreateFails, GoTo

\* An order that is found is stored; one that is not was never made; a failed search leaves
\* the worker answering for what it sent.
LEMMA CountSearches ==
  ASSUME IInv, Counted, NEW w \in Workers, NEW o \in Orders, loc[w].o = o,
         Search(w) \/ SearchFails(w)
  PROVE  Counted'
<1> DEFINE r == order[o]
           m == made[o]
<1>1. /\ pc[w] = "search" /\ m \in Ids /\ m \in Nat /\ r \in Records /\ loc[w] \in Locals
      /\ UNCHANGED <<order, made, doubts>>
      /\ order' = [order EXCEPT ![o] = r] /\ made' = [made EXCEPT ![o] = m]
  BY Standing, Typing DEF Search, SearchFails, historyVars
<1>2. /\ Going("store") = 0 /\ Going("fail") = 0 /\ Going(pc[w]) = 0 /\ ~(pc[w] \in {"prepare", "create", "store"})
      /\ {"store", "fail"} \subseteq Labels /\ {"store", "fail"} \subseteq Syncing
      /\ "fail" \notin Toward
  BY <1>1 DEF Going, Toward, Labels, Syncing
<1>3. ASSUME NEW l \in Locals, GoWith(w, "store", l), l.o = o PROVE Counted'
  <2>1. Keeps(w, o, "store", l, r, m) /\ "store" \in Labels
    BY <1>1, <1>2 DEF Keeps
  <2> HIDE DEF r, m
  <2> QED
    BY <1>1, <1>3, <2>1, CountGoesOn, ZenonT(60)
<1>4. CASE m = 0 /\ GoWith(w, "fail", [loc[w] EXCEPT !.sent = FALSE])
  <2> DEFINE l == [loc[w] EXCEPT !.sent = FALSE]
  <2>1. l \in Locals /\ l.o = o /\ GoWith(w, "fail", l) /\ "fail" \in Labels
    BY <1>1, <1>2, <1>4 DEF Locals
  <2>2. Keeps(w, o, "fail", l, r, m)
    BY <1>2, <1>4 DEF Keeps
  <2> HIDE DEF l, r, m
  <2> QED
    BY <1>1, <2>1, <2>2, CountGoesOn, ZenonT(60)
<1>5. CASE GoWith(w, "fail", loc[w])
  <2> DEFINE l == loc[w]
  <2>1. /\ l \in Locals /\ l.o = o /\ GoWith(w, "fail", l)
        /\ Keeps(w, o, "fail", l, r, m) /\ "fail" \in Labels
    BY <1>1, <1>2, <1>5 DEF Holds, Keeps
  <2> HIDE DEF l, r, m
  <2> QED
    BY <1>1, <2>1, CountGoesOn, ZenonT(60)
<1>6. CASE Search(w)
  <2>1. ASSUME NEW id \in 1 .. m, GoWith(w, "store", [loc[w] EXCEPT !.id = id, !.sent = FALSE])
        PROVE  Counted'
    <3>1. id \in Ids
      BY <1>1, Typing DEF Ids
    <3>2. /\ [loc[w] EXCEPT !.id = id, !.sent = FALSE] \in Locals
          /\ [loc[w] EXCEPT !.id = id, !.sent = FALSE].o = o
      BY <1>1, <3>1 DEF Locals
    <3> QED
      BY <1>3, <2>1, <3>2
  <2> QED
    BY <1>4, <1>6, <2>1 DEF Search
<1>7. CASE SearchFails(w)
  BY <1>5, <1>7 DEF SearchFails, GoTo
<1> QED
  BY <1>6, <1>7

\* The ids are stored; or the worker answers for what is not.
LEMMA CountStores ==
  ASSUME IInv, Counted, NEW w \in Workers, NEW o \in Orders, loc[w].o = o,
         Store(w) \/ StoreFails(w)
  PROVE  Counted'
<1> DEFINE m == made[o]
           stored == Stored(w)
           lost == [loc[w] EXCEPT !.id = 0, !.sent = TRUE]
<1>1. /\ pc[w] = "store" /\ m \in Ids /\ m \in Nat /\ order[o] \in Records /\ loc[w] \in Locals
      /\ loc[w].id \in Ids /\ loc[w].id \in 1 .. made[o]
      /\ UNCHANGED doubts /\ made' = [made EXCEPT ![o] = m]
  BY Bearings, Standing, Typing DEF Store, StoreFails, historyVars, IInv, IdsAreMade
<1>2. stored \in Records /\ stored.id # 0
  <2>1. loc[w].id # 0
    BY <1>1
  <2> QED
    BY <1>1, <2>1 DEF Stored, Records
<1>3. lost \in Locals /\ lost.o = o /\ lost.sent
  <2>1. 0 \in Ids
    BY Typing DEF Ids
  <2> QED
    BY <1>1, <2>1 DEF Locals
<1>4. /\ Going("idle") = 0 /\ Going("fail") = 0 /\ Going(pc[w]) = 0
      /\ {"idle", "fail"} \subseteq Labels /\ "fail" \in Syncing
      /\ m + 0 <= made[o] + 0 /\ NoLocals \in Locals
  BY <1>1, Typing DEF Going, Toward, Labels, Syncing
<1>5. CASE Store(w)
  <2>1. order' = [order EXCEPT ![o] = stored] /\ GoWith(w, "idle", NoLocals)
    BY <1>5 DEF Store, Set, Ends
  <2>2. Keeps(w, o, "idle", NoLocals, stored, m) /\ "idle" \in Labels
    BY <1>1, <1>2, <1>4 DEF Keeps
  <2> HIDE DEF m, stored
  <2> QED
    BY <1>1, <1>2, <1>4, <2>1, <2>2, CountGoesOn, ZenonT(60)
<1>6. CASE StoreFails(w)
  <2>1. GoWith(w, "fail", lost) /\ "fail" \in Labels
    BY <1>4, <1>6 DEF StoreFails
  <2>2. CASE Set(o, stored)
    <3>1. order' = [order EXCEPT ![o] = stored] /\ Keeps(w, o, "fail", lost, stored, m)
      BY <1>1, <1>2, <1>4, <2>2 DEF Set, Keeps
    <3> HIDE DEF m, stored, lost
    <3> QED
      BY <1>1, <1>2, <1>3, <2>1, <3>1, CountGoesOn, ZenonT(60)
  <2>3. CASE UNCHANGED order
    <3> DEFINE r == order[o]
    <3>1. order' = [order EXCEPT ![o] = r] /\ r \in Records /\ Keeps(w, o, "fail", lost, r, m)
      BY <1>1, <1>3, <1>4, <2>3, Typing DEF Keeps
    <3> HIDE DEF m, stored, lost, r
    <3> QED
      BY <1>1, <1>3, <1>4, <2>1, <3>1, CountGoesOn, ZenonT(60)
  <2> QED
    BY <1>6, <2>2, <2>3 DEF StoreFails
<1> QED
  BY <1>5, <1>6

\* A failed sync that leaves an order without the ids of what the courier made is a doubt.
LEMMA CountFailings ==
  ASSUME IInv, Counted, NEW w \in Workers, NEW o \in Orders, loc[w].o = o,
         Fail(w) \/ FailFails(w)
  PROVE  Counted'
<1> DEFINE m == made[o]
           l == NoLocals
           label == "idle"
<1>1. /\ pc[w] = "fail" /\ m \in Ids /\ m \in Nat /\ order[o] \in Records /\ loc[w].sent \in BOOLEAN
      /\ l \in Locals /\ label \in Labels /\ GoWith(w, label, l)
      /\ made' = [made EXCEPT ![o] = m] /\ loc[w].read \in Ids /\ order[o].id \in Ids
      /\ pc' = [pc EXCEPT ![w] = label] /\ loc' = [loc EXCEPT ![w] = l]
      /\ Going(label) = 0 /\ Going(pc[w]) = 0 /\ HeldBy(o) \in {0, 1} /\ HeldBy(o)' \in {0, 1}
      /\ doubts[o] \in 0 .. MaxMade /\ MaxMade \in Nat
  BY Bearings, Standing, Typing
  DEF Fail, FailFails, Ends, GoWith, Labels, Going, Toward, HeldBy, Ids
<1>2. ASSUME NEW r \in Records, order' = [order EXCEPT ![o] = r],
             NEW how \in BOOLEAN, Doubted(o, how),
             r.id # 0 \/ how \/ (order[o].id = 0 /\ ~loc[w].sent)
      PROVE  Counted'
  <2> PICK n \in Ids : /\ doubts' = [doubts EXCEPT ![o] = n] /\ doubts[o] <= n
                       /\ n = IF how /\ doubts[o] < MaxMade THEN doubts[o] + 1 ELSE doubts[o]
    BY <1>2, Doubting, Zenon
  <2>1. order'[o] = r
    BY <1>2, Typing
  <2>2. r.id # 0 => HeldBy(o)' = 1
    BY <2>1 DEF HeldBy, Held
  <2>3. order[o].id = 0 /\ ~loc[w].sent => HeldBy(o) <= HeldBy(o)'
    <3>1. ~loc[w].sent => ~Holds(w)
      BY <1>1 DEF Holds
    <3> HIDE DEF l, label
    <3> QED
      BY <1>1, <3>1, StaysHeld
  <2>4. \/ n = MaxMade
        \/ m + Going(label) + HeldBy(o) <= made[o] + Going(pc[w]) + (n - doubts[o]) + HeldBy(o)'
    BY <1>1, <1>2, <2>2, <2>3
  <2>5. label = "idle"
    OBVIOUS
  <2> HIDE DEF m, l, label
  <2> QED
    BY <1>1, <1>2, <2>4, <2>5, CountMoves, ZenonT(60)
<1>3. CASE Fail(w)
  <2> DEFINE r == [order[o] EXCEPT !.sync = "pending_retry", !.id = loc[w].read]
             how == loc[w].read = 0 /\ (loc[w].sent \/ order[o].id # 0)
  <2>1. r \in Records /\ r.id = loc[w].read
    BY <1>1 DEF Records
  <2>2. order' = [order EXCEPT ![o] = r] /\ Doubted(o, how) /\ how \in BOOLEAN
    BY <1>3 DEF Fail, Set
  <2>3. r.id # 0 \/ how \/ (order[o].id = 0 /\ ~loc[w].sent)
    BY <2>1
  <2> HIDE DEF r, how
  <2> QED
    BY <1>2, <2>1, <2>2, <2>3
<1>4. CASE FailFails(w)
  <2> DEFINE r == order[o]
             how == loc[w].sent /\ order[o].id = 0
  <2>1. /\ order' = [order EXCEPT ![o] = r] /\ Doubted(o, how) /\ how \in BOOLEAN /\ r \in Records
        /\ r.id # 0 \/ how \/ (order[o].id = 0 /\ ~loc[w].sent)
    BY <1>1, <1>4, Typing DEF FailFails
  <2> HIDE DEF r, how
  <2> QED
    BY <1>2, <2>1
<1> QED
  BY <1>3, <1>4

\* A cancellation, its mirror and a webhook make no order and take no ids away.
LEMMA CountBeside ==
  ASSUME IInv, Counted, NEW w \in Workers, NEW o \in Orders,
         NEW label \in Labels \ Syncing, NEW l \in Locals,
         pc' = [pc EXCEPT ![w] = label], loc' = [loc EXCEPT ![w] = l], pc[w] \notin Syncing,
         pc[w] = "idle" \/ loc[w].o = o, label = "idle" \/ l.o = o,
         NEW r \in Records, order' = [order EXCEPT ![o] = r], order[o].id # 0 => r.id # 0,
         UNCHANGED <<made, doubts>>
  PROVE  Counted'
<1> DEFINE m == made[o]
           n == doubts[o]
<1>1. /\ m \in Ids /\ m \in Nat /\ n \in Ids /\ n \in Nat /\ doubts[o] <= n
      /\ made' = [made EXCEPT ![o] = m] /\ doubts' = [doubts EXCEPT ![o] = n]
      /\ order'[o] = r /\ HeldBy(o) \in {0, 1} /\ HeldBy(o)' \in {0, 1}
      /\ Going(label) = 0 /\ Going(pc[w]) = 0
  BY Standing, Undoubted, Typing DEF HeldBy, Going, Toward, Syncing
<1>2. HeldBy(o) <= HeldBy(o)'
  <2>1. ~InSync(w, o) /\ (order[o].id # 0 => order'[o].id # 0)
    BY <1>1 DEF InSync
  <2> QED
    BY <2>1, StaysHeld
<1>3. m + Going(label) + HeldBy(o) <= made[o] + Going(pc[w]) + (n - doubts[o]) + HeldBy(o)'
  BY <1>1, <1>2
<1> HIDE DEF m, n
<1> QED
  BY <1>1, <1>3, CountMoves, ZenonT(60)

LEMMA CountCancels ==
  ASSUME IInv, Counted, NEW w \in Workers, NEW o \in Orders, Cancel(w, o)
  PROVE  Counted'
<1> DEFINE r == [order[o] EXCEPT !.cancelled = TRUE]
<1>1. /\ r \in Records /\ r.id = order[o].id /\ order' = [order EXCEPT ![o] = r]
      /\ pc[w] = "idle" /\ pc[w] \notin Syncing /\ UNCHANGED <<made, doubts>>
      /\ "mirror" \in Labels \ Syncing /\ "idle" \in Labels \ Syncing
  BY Standing DEF Cancel, Set, Records, Labels, Syncing
<1>2. CASE UNCHANGED <<pc, loc>>
  <2> DEFINE l == loc[w]
  <2>1. pc' = [pc EXCEPT ![w] = "idle"] /\ loc' = [loc EXCEPT ![w] = l] /\ l \in Locals
    BY <1>1, <1>2, Typing
  <2> HIDE DEF l, r
  <2> QED
    BY <1>1, <2>1, CountBeside, ZenonT(60)
<1>3. CASE GoWith(w, "mirror", Reads(o))
  <2>1. /\ pc' = [pc EXCEPT ![w] = "mirror"] /\ loc' = [loc EXCEPT ![w] = Reads(o)]
        /\ Reads(o) \in Locals /\ Reads(o).o = o
    BY <1>3, Standing, Typing DEF GoWith, Reads, NoLocals, Locals
  <2> HIDE DEF r
  <2> QED
    BY <1>1, <2>1, CountBeside, ZenonT(60)
<1> QED
  BY <1>2, <1>3 DEF Cancel

LEMMA CountMirrors ==
  ASSUME IInv, Counted, NEW w \in Workers, NEW o \in Orders, loc[w].o = o,
         Mirror(w) \/ MirrorFails(w) \/ CourierCancels(w) \/ CancelFails(w)
  PROVE  Counted'
<1>1. /\ pc[w] \in {"mirror", "cancel"} /\ pc[w] \notin Syncing /\ UNCHANGED <<made, doubts>>
      /\ {"idle", "cancel"} \subseteq Labels \ Syncing /\ order[o] \in Records /\ loc[w] \in Locals
  BY Standing, Typing
  DEF Mirror, MirrorFails, CourierCancels, CancelFails, MirrorIs, historyVars, Syncing, Labels
<1>2. \E label \in {"idle", "cancel"}, l \in Locals, r \in Records :
        /\ GoWith(w, label, l) /\ (label = "idle" \/ l.o = o)
        /\ order' = [order EXCEPT ![o] = r] /\ r.id = order[o].id
  <2>1. ASSUME NEW status \in Mirrors
        PROVE  /\ [order[o] EXCEPT !.mirror = status] \in Records
               /\ [order[o] EXCEPT !.mirror = status].id = order[o].id
    BY <1>1 DEF Records
  <2>2. CASE Mirror(w)
    <3> DEFINE r == [order[o] EXCEPT !.mirror = "pending"]
    <3>1. r \in Records /\ r.id = order[o].id
      BY <2>1 DEF Mirrors
    <3>2. GoWith(w, "cancel", loc[w]) /\ order' = [order EXCEPT ![o] = r]
      BY <2>2 DEF Mirror, GoTo, Set
    <3> HIDE DEF r
    <3> QED
      BY <1>1, <3>1, <3>2
  <2>3. CASE MirrorFails(w)
    <3>1. GoWith(w, "idle", NoLocals) /\ NoLocals \in Locals /\ order' = [order EXCEPT ![o] = order[o]]
      BY <2>3, Typing DEF MirrorFails, Ends
    <3> QED
      BY <1>1, <3>1
  <2>4. ASSUME NEW status \in Mirrors, MirrorIs(w, status)
        PROVE  \E r \in Records : /\ GoWith(w, "idle", NoLocals)
                                  /\ order' = [order EXCEPT ![o] = r] /\ r.id = order[o].id
    <3> DEFINE r == [order[o] EXCEPT !.mirror = status]
    <3>1. r \in Records /\ r.id = order[o].id
      BY <2>1, <2>4
    <3>2. GoWith(w, "idle", NoLocals) /\ order' = [order EXCEPT ![o] = r]
      BY <2>4 DEF MirrorIs, Ends, Set
    <3> HIDE DEF r
    <3> QED
      BY <3>1, <3>2
  <2>5. CASE CourierCancels(w) \/ CancelFails(w)
    <3>1. \E status \in Mirrors : MirrorIs(w, status)
      BY <2>5 DEF CourierCancels, CancelFails, Mirrors
    <3> QED
      BY <2>4, <3>1, Typing
  <2> QED
    BY <2>2, <2>3, <2>5
<1> PICK label \in {"idle", "cancel"}, l \in Locals, r \in Records :
        /\ GoWith(w, label, l) /\ (label = "idle" \/ l.o = o)
        /\ order' = [order EXCEPT ![o] = r] /\ r.id = order[o].id
  BY <1>2
<1>3. /\ pc' = [pc EXCEPT ![w] = label] /\ loc' = [loc EXCEPT ![w] = l] /\ label \in Labels \ Syncing
      /\ order[o].id # 0 => r.id # 0
  BY <1>1 DEF GoWith
<1> QED
  BY <1>1, <1>3, CountBeside, ZenonT(60)

\* A webhook, in which no worker moves.
LEMMA CountWebhooks ==
  ASSUME IInv, Counted, NEW o \in Orders, Webhook(o)
  PROVE  Counted'
<1> PICK id \in 1 .. made[o] : order' = [order EXCEPT ![o] = [order[o] EXCEPT !.sync = "synced", !.id = id]]
  BY DEF Webhook, Set
<1>1. UNCHANGED <<made, pc, loc, doubts>> /\ order[o] \in Records /\ made[o] \in Nat
  BY Standing DEF Webhook
<1>2. \A p \in Orders : order[p].id # 0 => order'[p].id # 0
  BY <1>1, Typing DEF Records
<1>3. \A p \in Orders : MayMake(p)' = MayMake(p) /\ (Held(p) => Held(p)')
  BY <1>1, <1>2 DEF MayMake, Held, InSync
<1>4. \A p \in Orders : HeldBy(p) \in {0, 1} /\ HeldBy(p)' \in {0, 1} /\ HeldBy(p) <= HeldBy(p)'
  BY <1>3 DEF HeldBy
<1> SUFFICES ASSUME NEW p \in Orders
             PROVE  /\ IsFiniteSet(MayMake(p)')
                    /\ doubts[p] # MaxMade =>
                         made[p] + Cardinality(MayMake(p)') <= doubts[p] + HeldBy(p)'
  BY <1>1 DEF Counted
<1>5. /\ MayMake(p)' = MayMake(p) /\ IsFiniteSet(MayMake(p)) /\ Cardinality(MayMake(p)) \in Nat
      /\ doubts[p] # MaxMade => made[p] + Cardinality(MayMake(p)) <= doubts[p] + HeldBy(p)
      /\ made[p] \in Nat /\ doubts[p] \in Nat
  BY <1>3, FS_CardinalityType, Standing DEF Counted
<1> QED
  BY <1>4, <1>5

\* A crash: who could still make an order no longer can; who answered for one leaves a doubt.
LEMMA CountCrashes == ASSUME IInv, Counted, Crash PROVE Counted'
<1> DEFINE Lost(o) == /\ order[o].id = 0 /\ doubts[o] < MaxMade
                      /\ \E w \in Workers : InSync(w, o) /\ (loc[w].sent \/ pc[w] = "store")
<1>1. /\ \A w \in Workers : pc'[w] = "idle"
      /\ doubts' = [o \in Orders |-> IF Lost(o) THEN doubts[o] + 1 ELSE doubts[o]]
      /\ UNCHANGED <<order, made>>
  BY DEF Crash
<1> SUFFICES ASSUME NEW p \in Orders
             PROVE  /\ IsFiniteSet(MayMake(p)')
                    /\ doubts'[p] # MaxMade =>
                         made[p] + Cardinality(MayMake(p)') <= doubts'[p] + HeldBy(p)'
  BY <1>1 DEF Counted
<1>2. MayMake(p)' = {}
  BY <1>1 DEF MayMake
<1>3. IsFiniteSet(MayMake(p)') /\ Cardinality(MayMake(p)') = 0
  BY <1>2, FS_EmptySet
<1>4. /\ made[p] \in Nat /\ doubts[p] \in 0 .. MaxMade /\ MaxMade \in Nat
      /\ doubts'[p] = IF Lost(p) THEN doubts[p] + 1 ELSE doubts[p]
  BY <1>1, Standing, Typing DEF Ids
<1>5. /\ HeldBy(p) \in {0, 1} /\ HeldBy(p)' \in {0, 1}
      /\ HeldBy(p)' = IF order[p].id # 0 THEN 1 ELSE 0
  BY <1>1 DEF HeldBy, Held, InSync, Syncing
<1>6. /\ IsFiniteSet(MayMake(p)) /\ Cardinality(MayMake(p)) \in Nat
      /\ doubts[p] # MaxMade => made[p] + Cardinality(MayMake(p)) <= doubts[p] + HeldBy(p)
  BY FS_CardinalityType DEF Counted
<1>7. CASE Lost(p)
  <2>1. doubts[p] # MaxMade
    BY <1>4, <1>7
  <2> HIDE DEF Lost
  <2> QED
    BY <1>3, <1>4, <1>5, <1>6, <1>7, <2>1
<1>8. CASE order[p].id # 0
  <2>1. ~Lost(p)
    BY <1>8
  <2> HIDE DEF Lost
  <2> QED
    BY <1>3, <1>4, <1>5, <1>6, <1>8, <2>1
<1>9. CASE order[p].id = 0 /\ ~Lost(p) /\ doubts[p] # MaxMade
  <2>1. ASSUME NEW w \in Workers, InSync(w, p), Holds(w) PROVE w \in MayMake(p)
    <3>1. ~(loc[w].sent \/ pc[w] = "store")
      BY <1>4, <1>9, <2>1
    <3> QED
      BY <2>1, <3>1 DEF Holds, MayMake, InSync
  <2>2. HeldBy(p) = 1 => Cardinality(MayMake(p)) # 0
    <3>1. HeldBy(p) = 1 => MayMake(p) # {}
      BY <1>9, <2>1 DEF HeldBy, Held, Holds
    <3> QED
      BY <1>6, <3>1, FS_EmptySet
  <2> HIDE DEF Lost
  <2> QED
    BY <1>3, <1>4, <1>5, <1>6, <1>9, <2>2
<1>10. CASE order[p].id = 0 /\ ~Lost(p) /\ doubts[p] = MaxMade
  <2> HIDE DEF Lost
  <2> QED
    BY <1>3, <1>4, <1>10
<1> QED
  BY <1>7, <1>8, <1>9, <1>10

LEMMA CountSteps == IInv /\ Counted /\ [Next]_vars => Counted'
<1> SUFFICES ASSUME IInv, Counted, [Next]_vars PROVE Counted'
  OBVIOUS
<1>1. ASSUME NEW w \in Workers, Continue(w) PROVE Counted'
  <2>1. pc[w] # "idle"
    BY <1>1 DEF Continue, Prepare, Create, CreateFails, Search, SearchFails, Store, StoreFails,
                Fail, FailFails, Mirror, MirrorFails, CourierCancels, CancelFails
  <2>2. PICK o \in Orders : loc[w].o = o
    BY <2>1, Bearings
  <2> QED
    BY <1>1, <2>2, CountPrepares, CountCreates, CountSearches, CountStores, CountFailings,
       CountMirrors DEF Continue
<1>2. ASSUME NEW w \in Workers, NEW o \in Orders, Cancel(w, o) PROVE Counted'
  BY <1>2, CountCancels
<1>3. ASSUME NEW w \in Workers, NEW o \in Orders, NEW force \in BOOLEAN, StartSync(w, o, force)
      PROVE  Counted'
  BY <1>3, CountStarts
<1>4. ASSUME NEW o \in Orders, Webhook(o) PROVE Counted'
  BY <1>4, CountWebhooks
<1>5. CASE Crash
  BY <1>5, CountCrashes
<1>6. CASE UNCHANGED shopVars
  <2>1. UNCHANGED <<pc, loc, order, made, doubts>>
    BY <1>6 DEF shopVars, historyVars
  <2> QED
    BY <2>1 DEF Counted, MayMake, HeldBy, Held, InSync
<1>7. CASE UNCHANGED vars
  BY <1>6, <1>7 DEF vars
<1> QED
  BY <1>1, <1>2, <1>3, <1>4, <1>5, <1>6, <1>7 DEF Next

LEMMA CountAtStart == Init => Counted
<1> SUFFICES ASSUME Init, NEW o \in Orders
             PROVE  IsFiniteSet(MayMake(o)) /\ made[o] + Cardinality(MayMake(o)) <= doubts[o] + HeldBy(o)
  BY DEF Counted
<1>1. MayMake(o) = {} /\ made[o] = 0 /\ doubts[o] = 0 /\ HeldBy(o) \in {0, 1}
  BY DEF Init, MayMake, HeldBy
<1> QED
  BY <1>1, FS_EmptySet

LEMMA Invariance == Spec => [](IInv /\ Counted)
<1>1. Init => IInv /\ Counted
  BY AtStart, CountAtStart
<1>2. IInv /\ Counted /\ [Next]_vars => (IInv /\ Counted)'
  BY Steps, CountSteps
<1> QED
  BY <1>1, <1>2, PTL DEF Spec

-----------------------------------------------------------------------------
(* The theorems.                                                           *)

\* Every variable keeps its type, one login at most is under way, and a worker has a request
\* exactly while it waits for the courier (ShiprocketToken, ShiprocketSync).
THEOREM TypeCorrect == Spec => []TypeOK
<1>1. IInv => TypeOK
  BY DEF IInv
<1> QED
  BY <1>1, Invariance, PTL

\* A request that was refused is sent again with a newer token than the one refused
\* (requestWithAuth, getValidToken and invalidateToken of services/shiprocketService.js).
THEOREM NewTokenIsUsed == Spec => []RetriesWithAnother
<1>1. IInv => RetriesWithAnother
  BY DEF IInv
<1> QED
  BY <1>1, Invariance, PTL

\* The recovery of lost and refused requests makes no second courier order: each one more
\* takes a doubt, a sync begun beside another or for an order with ids, or one that failed to
\* store what the courier made or erased it; and what the admin is shown of the shipment is
\* true at the courier (syncOrderToShiprocket, performOrderCancellation,
\* buildShiprocketWebhookUpdateSet).
THEOREM ShipmentIsOneAndShown == Spec => []OneShownShipment
<1>1. IInv /\ Counted => OneShownShipment
  <2> SUFFICES ASSUME IInv, Counted PROVE OneShipment
    BY DEF IInv, OneShownShipment
  <2> SUFFICES ASSUME NEW o \in Orders PROVE made[o] <= 1 + doubts[o]
    BY DEF OneShipment
  <2>1. /\ made[o] \in 0 .. MaxMade /\ doubts[o] \in 0 .. MaxMade /\ MaxMade \in Nat
        /\ HeldBy(o) \in {0, 1}
    BY Typing DEF Ids, HeldBy
  <2>2. /\ Cardinality(MayMake(o)) \in Nat
        /\ doubts[o] # MaxMade => made[o] + Cardinality(MayMake(o)) <= doubts[o] + HeldBy(o)
    BY FS_CardinalityType DEF Counted
  <2> QED
    BY <2>1, <2>2
<1> QED
  BY <1>1, Invariance, PTL
=============================================================================
