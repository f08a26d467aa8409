------------------------------ MODULE WorkerKeys ------------------------------
(***************************************************************************)
(* The Worker's verifier of Access tokens (deploy/cloudflare/src/          *)
(* support.js): one key cache per isolate, filled by the requests that     *)
(* miss it.  JavaScript runs one request at a time between awaits, so a    *)
(* step here is what runs between two of them; other requests run while a  *)
(* fetch is awaited, and none of a request's own code takes time.          *)
(***************************************************************************)
EXTENDS KeyPublisher

CONSTANTS
  Requests,  \* requests in flight at once
  Forged,    \* kids in tokens that the team never published
  TTL,       \* JWKS_TTL_MS
  FLOOR,     \* FORCED_REFETCH_FLOOR_MS
  FETCH      \* the time a fetch may take: the platform's and the endpoint's,
             \* the code sets none

ASSUME WorkerAssumption ==
  /\ Kids \cap Forged = {}
  /\ TTL \in Nat \ {0} /\ FLOOR \in Nat \ {0} /\ FETCH \in Nat
  /\ Horizon \in Nat /\ Horizon > TTL + FETCH /\ Horizon > FLOOR + FETCH
  /\ UpHorizon \in Nat

VARIABLES
  cache,   \* jwksCache: the keys, and how long ago "at" and "forcedAt" were,
           \* up to the limit each is compared with
  request, \* what each request is doing
  failed,  \* how long ago a forced fetch failed, or a response without a key
           \* replaced the cache, up to FLOOR (history)
  sinceForced \* how long ago the last forced fetch began, up to FLOOR (history)

vars == <<publisher, cache, request, failed, sinceForced>>

\* No key in the response, or none cached: an empty list is cached like any
\* other, and nothing is cached when "at" is TTL.
NoKeys == {}

(***************************************************************************)
(* The states of a request.  "keys" holds what accessKeys resolved to, or  *)
(* what the response it awaits will carry.                                 *)
(***************************************************************************)
Phases == {"calling", "awaiting", "answered", "looking"}

Idle == [phase |-> "idle"]

At(phase, kid, force, spent, keys) ==
  [phase |-> phase, kid |-> kid, force |-> force, spent |-> spent, keys |-> keys]

Become(r, state) == request' = [request EXCEPT ![r] = state]

Init ==
  /\ PublisherInit
  /\ cache = [keys |-> NoKeys, at |-> TTL, forcedAt |-> FLOOR]
  /\ request = [r \in Requests |-> Idle]
  /\ failed = FLOOR
  /\ sinceForced = FLOOR

\* A token with a well-formed header arrives.
Arrive(r) ==
  /\ request[r] = Idle
  /\ \E kid \in Kids \cup Forged : Become(r, At("calling", kid, FALSE, 0, NoKeys))
  /\ UNCHANGED <<publisher, cache, failed, sinceForced>>

\* What accessKeys does before its first await: it answers from the cache, or
\* begins a fetch, and a forced one moves the floor before it is awaited.
UsesCache_Fault(force) ==
  IF force THEN cache.forcedAt < FLOOR ELSE cache.keys # NoKeys

UsesCache(force) ==
  IF force THEN cache.forcedAt < FLOOR ELSE cache.at < TTL

ForcedFloor(force) == IF force THEN [cache EXCEPT !.forcedAt = 0] ELSE cache

accessKeys(r) ==
  LET now == request[r] IN
  /\ now.phase = "calling"
  /\ IF UsesCache(now.force)
       THEN /\ Become(r, At("looking", now.kid, now.force, 0, cache.keys))
            /\ UNCHANGED <<cache, sinceForced>>
       ELSE /\ Become(r, At("awaiting", now.kid, now.force, 0, NoKeys))
            /\ cache' = ForcedFloor(now.force)
            /\ sinceForced' = IF now.force THEN 0 ELSE sinceForced
  /\ UNCHANGED <<publisher, failed>>

\* The endpoint answers with what it publishes at that moment, or, when it is
\* unwell, with a list that has no key of the team's, or with none.
Respond(r) ==
  LET now == request[r] IN
  /\ now.phase = "awaiting"
  /\ Become(r, At("answered", now.kid, now.force, now.spent,
                  IF up = Down THEN NoKeys ELSE Published))
  /\ UNCHANGED <<publisher, cache, failed, sinceForced>>

\* Or with an error, which the request fails with.
FetchFails(r) ==
  LET now == request[r] IN
  /\ now.phase = "awaiting"
  /\ up = Down
  /\ Become(r, Idle)
  /\ failed' = IF now.force THEN 0 ELSE failed
  /\ UNCHANGED <<publisher, cache, sinceForced>>

Land_Fault(r) ==
  LET now == request[r] IN
  /\ now.phase = "answered"
  /\ cache' = [keys |-> now.keys, at |-> 0, forcedAt |-> FLOOR]
  /\ Become(r, At("looking", now.kid, now.force, 0, now.keys))
  /\ failed' = IF now.keys = NoKeys THEN 0 ELSE failed
  /\ UNCHANGED <<publisher, sinceForced>>

Land_FaultNoFloor(r) ==
  LET now == request[r] IN
  /\ now.phase = "answered"
  /\ cache' = [keys |-> now.keys, at |-> 0]
  /\ Become(r, At("looking", now.kid, now.force, 0, now.keys))
  /\ failed' = IF now.keys = NoKeys THEN 0 ELSE failed
  /\ UNCHANGED <<publisher, sinceForced>>

\* The response arrives and replaces the cache, whatever has been cached since
\* the fetch began and whether or not it has a key; the floor is the one in
\* force now.
Land(r) ==
  LET now == request[r] IN
  /\ now.phase = "answered"
  /\ cache' = [keys |-> now.keys, at |-> 0, forcedAt |-> cache.forcedAt]
  /\ Become(r, At("looking", now.kid, now.force, 0, now.keys))
  /\ failed' = IF now.keys = NoKeys THEN 0 ELSE failed
  /\ UNCHANGED <<publisher, sinceForced>>

\* A response that has no list of keys replaces the cache by none, and the
\* request fails where it looks its kid up.
LandWithoutList(r) ==
  LET now == request[r] IN
  /\ now.phase = "answered" /\ now.keys = NoKeys
  /\ cache' = [keys |-> NoKeys, at |-> TTL, forcedAt |-> cache.forcedAt]
  /\ Become(r, Idle)
  /\ failed' = 0
  /\ UNCHANGED <<publisher, sinceForced>>

Look_Fault(r) ==
  LET now == request[r] IN
  /\ now.phase = "looking"
  /\ Become(r, Idle)
  /\ UNCHANGED <<publisher, cache, failed, sinceForced>>

\* The kid is looked up: a hit verifies the token (its signature and claims are
\* checked next), a miss forces one refetch, and a second miss rejects it.
Look(r) ==
  LET now == request[r] IN
  /\ now.phase = "looking"
  /\ Become(r, IF now.kid \in now.keys \/ now.force
                 THEN Idle ELSE At("calling", now.kid, TRUE, 0, NoKeys))
  /\ UNCHANGED <<publisher, cache, failed, sinceForced>>

\* Time passes while fetches are awaited, none of them for longer than FETCH.
Fetching(r) == request[r].phase \in {"awaiting", "answered"}

Tick ==
  /\ \A r \in Requests :
       request[r].phase = "idle" \/ (Fetching(r) /\ request[r].spent < FETCH)
  /\ request' = [r \in Requests |->
       IF Fetching(r) THEN [request[r] EXCEPT !.spent = @ + 1] ELSE request[r]]
  /\ cache' = [cache EXCEPT !.at = Later(@, TTL), !.forcedAt = Later(@, FLOOR)]
  /\ failed' = Later(failed, FLOOR)
  /\ sinceForced' = Later(sinceForced, FLOOR)
  /\ PublisherTick

Next ==
  \/ \E r \in Requests :
       \/ Arrive(r) \/ accessKeys(r) \/ Respond(r) \/ FetchFails(r) \/ Land(r)
       \/ LandWithoutList(r) \/ Look(r)
  \/ (Rotate \/ EndpointChanges) /\ UNCHANGED <<cache, request, failed, sinceForced>>
  \/ Tick

Spec == Init /\ [][Next]_vars

-----------------------------------------------------------------------------
(***************************************************************************)
(* Properties.                                                             *)
(***************************************************************************)

Busy == [phase : Phases, kid : Kids \cup Forged, force : BOOLEAN, spent : 0 .. FETCH,
         keys : SUBSET Kids]

\* Every variable has its type.
TypeOK ==
  /\ PublisherTypeOK
  /\ cache \in [keys : SUBSET Kids, at : 0 .. TTL, forcedAt : 0 .. FLOOR]
  /\ request \in [Requests -> {Idle} \cup Busy]
  /\ failed \in 0 .. FLOOR /\ sinceForced \in 0 .. FLOOR

InForcedFetch(r) == Fetching(r) /\ request[r].force

\* A flood of tokens with unknown kids causes one forced fetch per floor: the
\* next begins no sooner, however long the last one takes and whatever lands in
\* between (support.js:138-148).
ForcedFetchesKeepTheFloor ==
  [][\A r \in Requests :
       InForcedFetch(r)' /\ ~InForcedFetch(r) => sinceForced >= FLOOR]_vars

\* A token of a retired key is not verified once the key has been retired for
\* a TTL and the time a fetch takes, although a late response may put an older
\* key set back into the cache.
RetiredKeysRunOut ==
  \A r \in Requests :
    request[r].phase = "looking" =>
      \A kid \in request[r].keys :
        status[kid] = "retired" => age[kid] < TTL + FETCH

Rejects(r) ==
  /\ request[r].phase = "looking"
  /\ request[r].kid \notin request[r].keys
  /\ request'[r] = Idle

\* A rotation recovers: a token whose key has been published for longer than
\* the floor and a fetch is rejected only while a response is on its way or
\* has just arrived for somebody else's forced fetch, or within the floor of a
\* forced fetch that failed or of a response without a key, which is cached as
\* any other (support.js:159-162; 178-183, "Without this retry the stale cache
\* would reject every request until the TTL expired").
RotationRecovers ==
  [][\A r \in Requests :
       Rejects(r) /\ request[r].kid \in Published /\ age[request[r].kid] > FLOOR + FETCH
         => \/ \E s \in Requests : InForcedFetch(s)
            \/ cache.at = 0
            \/ failed < FLOOR]_vars
=============================================================================
