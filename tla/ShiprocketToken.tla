---------------------------- MODULE ShiprocketToken ----------------------------
(***************************************************************************)
(* The authenticated client of the courier's API (config/shiprocket.js and *)
(* requestWithAuth): one process keeps one cached token, one login at a    *)
(* time is shared by every request that needs it, and a request that is    *)
(* answered 401 drops the cached token and is sent once more.              *)
(*                                                                         *)
(* Tokens are numbered in the order the courier issues them.  That it may  *)
(* stop accepting them early, all at once, is an assumption about it.      *)
(***************************************************************************)
EXTENDS Naturals

CONSTANTS
  Workers,
  MaxFaults   \* bound: errors, lost answers, revoked or aged tokens, crashes

ASSUME TokenBounds == MaxFaults \in Nat

VARIABLES
  token,     \* cachedToken while it is usable, else 0
  login,     \* refreshPromise: "none", or whether the courier has answered the login yet
  logins,    \* how many logins are under way
  issued,    \* external: the last token the courier issued
  revoked,   \* external: the courier accepts only tokens after this one
  call,      \* each worker's request
  faults

tokenVars == <<token, login, logins, issued, revoked, call>>

\* held: the token it is sent with; refused: the token it was answered 401 for.
NoCall == [at |-> "none", held |-> 0, refused |-> 0]

TokenInit ==
  /\ token = 0 /\ login = "none" /\ logins = 0
  /\ issued = 0 /\ revoked = 0
  /\ call = [w \in Workers |-> NoCall]

CallGoes(w, at, held) == call' = [call EXCEPT ![w].at = at, ![w].held = held]

\* getValidToken, generateToken: the cached token, or the login under way, or a new one.
Ask(w) ==
  /\ call[w].at \in {"asks", "again"}
  /\ IF token # 0
     THEN CallGoes(w, "sent", token) /\ UNCHANGED <<login, logins>>
     ELSE /\ CallGoes(w, "login", 0)
          /\ IF login = "none"
             THEN login' = "asked" /\ logins' = logins + 1
             ELSE UNCHANGED <<login, logins>>
  /\ UNCHANGED <<token, issued, revoked, faults>>

LoginGranted ==
  /\ login = "asked"
  /\ login' = "granted"
  /\ issued' = issued + 1
  /\ UNCHANGED <<token, logins, revoked, call, faults>>

\* Whoever waits for the promise goes on with its token.
LoginAnswers ==
  /\ login = "granted"
  /\ token' = issued
  /\ login' = "none" /\ logins' = logins - 1
  /\ call' = [w \in Workers |->
       IF call[w].at = "login" THEN [call[w] EXCEPT !.at = "sent", !.held = issued] ELSE call[w]]
  /\ UNCHANGED <<issued, revoked, faults>>

FailWaiting ==
  call' = [w \in Workers |->
    IF call[w].at = "login" THEN [call[w] EXCEPT !.at = "failed"] ELSE call[w]]

\* The login is refused or not answered in time: whoever waits for it fails.
LoginFails ==
  /\ login # "none"
  /\ faults < MaxFaults /\ faults' = faults + 1
  /\ token' = 0
  /\ login' = "none" /\ logins' = logins - 1
  /\ FailWaiting
  /\ UNCHANGED <<issued, revoked>>

Accepted(w) == call[w].at = "sent" /\ call[w].held > revoked

\* Mutant of Refused: the cached token is kept.
RefusedKeeps(w) ==
  /\ call[w].at = "sent" /\ ~Accepted(w)
  /\ IF call[w].refused = 0
     THEN call' = [call EXCEPT ![w] = [at |-> "again", held |-> 0, refused |-> call[w].held]]
     ELSE CallGoes(w, "failed", 0)
  /\ UNCHANGED <<token, login, logins, issued, revoked, faults>>

\* 401: invalidateToken drops the cached token, whichever it is by now, and the request is
\* sent once more.
Refused(w) ==
  /\ call[w].at = "sent" /\ ~Accepted(w)
  /\ IF call[w].refused = 0
     THEN /\ token' = 0
          /\ call' = [call EXCEPT ![w] = [at |-> "again", held |-> 0, refused |-> call[w].held]]
     ELSE CallGoes(w, "failed", 0) /\ UNCHANGED token
  /\ UNCHANGED <<login, logins, issued, revoked, faults>>

\* The cached token reaches the age at which it is renewed.
Ages ==
  /\ token # 0
  /\ faults < MaxFaults /\ faults' = faults + 1
  /\ token' = 0
  /\ UNCHANGED <<login, logins, issued, revoked, call>>

Revoke ==
  /\ revoked < issued
  /\ faults < MaxFaults /\ faults' = faults + 1
  /\ revoked' = issued
  /\ UNCHANGED <<token, login, logins, issued, call>>

\* The process dies, and with it the cached token, the login and the requests.
TokenCrash ==
  /\ token' = 0 /\ login' = "none" /\ logins' = 0
  /\ call' = [w \in Workers |-> NoCall]
  /\ UNCHANGED <<issued, revoked>>

\* A request with no further effect here: it is made, and its answer, or failure, is taken.
Calls(w) == call' = [call EXCEPT ![w] = [NoCall EXCEPT !.at = "asks"]]
EndsCall(w) == call' = [call EXCEPT ![w] = NoCall]

TokenNext ==
  \/ \E w \in Workers : Ask(w) \/ Refused(w)
  \/ LoginGranted \/ LoginAnswers \/ LoginFails \/ Ages \/ Revoke

-----------------------------------------------------------------------------
CallStates == {"none", "asks", "login", "sent", "again", "failed"}

\* Types, and that one login at most is under way.
TokenTypeOK ==
  /\ issued \in Nat /\ revoked \in 0 .. issued /\ token \in 0 .. issued
  /\ login \in {"none", "asked", "granted"}
  /\ logins = IF login = "none" THEN 0 ELSE 1
  /\ call \in [Workers -> [at : CallStates, held : 0 .. issued, refused : 0 .. issued]]
  /\ faults \in 0 .. MaxFaults

\* The second try is not sent with the token that was refused, nor with an older one:
\* whatever other requests, logins and invalidations do meanwhile.
RetriesWithAnother ==
  \A w \in Workers : call[w].at = "sent" => call[w].held > call[w].refused
=============================================================================
