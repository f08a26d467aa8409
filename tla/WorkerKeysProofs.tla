--------------------------- MODULE WorkerKeysProofs ---------------------------
(***************************************************************************)
(* Proofs about the Worker's key cache, for any number of requests in      *)
(* flight, any keys and any times.                                         *)
(***************************************************************************)
EXTENDS WorkerKeys, TLAPS

(***************************************************************************)
(* The published keys: what a fetched key set still says of them while     *)
(* time passes and the team rotates them, and what they keep meanwhile.    *)
(* The same facts serve the proofs about the server, in AccessKeysProofs.  *)
(***************************************************************************)
\* A key set that was what the team published no longer than n ago: a key in it
\* has been retired for no longer, and one that is missing was published later.
Recent(keys, n, state, years) ==
  \A kid \in Kids :
    /\ kid \in keys /\ state[kid] = "retired" => years[kid] <= n
    /\ kid \notin keys /\ state[kid] = "published" => years[kid] <= n

PublisherInv == PublisherTypeOK /\ Published # {}

\* What is published right now is recent.
LEMMA PublishedIsRecent == Recent(Published, 0, status, age)
BY DEF Recent, Published

\* A recent set stays one for a longer time.
LEMMA RecentForLonger ==
  ASSUME NEW keys, NEW n \in Nat, NEW m \in Nat, n <= m, PublisherTypeOK, Horizon \in Nat,
         Recent(keys, n, status, age)
  PROVE  Recent(keys, m, status, age)
<1>1. \A kid \in Kids : age[kid] \in Nat
  BY DEF PublisherTypeOK
<1>2. \A kid \in Kids : age[kid] <= n => age[kid] <= m
  BY <1>1
<1>3. QED
  BY <1>2 DEF Recent

\* A rotation starts a key's age again, so that no set stops being recent.
LEMMA RecentAfterRotate ==
  ASSUME NEW keys, NEW n \in Nat, Horizon \in Nat, PublisherTypeOK, Rotate,
         Recent(keys, n, status, age)
  PROVE  Recent(keys, n, status', age')
<1>1. PICK kid \in Kids :
        /\ age' = [age EXCEPT ![kid] = 0]
        /\ status' = [status EXCEPT ![kid] = "published"]
             \/ status' = [status EXCEPT ![kid] = "retired"]
  BY DEF Rotate
<1>2. ASSUME NEW k \in Kids, k # kid PROVE status'[k] = status[k] /\ age'[k] = age[k]
  BY <1>1, <1>2 DEF PublisherTypeOK
<1>3. age'[kid] = 0
  BY <1>1 DEF PublisherTypeOK
<1>4. QED
  BY <1>2, <1>3 DEF Recent

\* A tick makes it one tick less recent.
LEMMA RecentAfterTick ==
  ASSUME NEW keys, NEW n \in Nat, Horizon \in Nat, PublisherTypeOK, PublisherTick,
         Recent(keys, n, status, age)
  PROVE  Recent(keys, n + 1, status', age')
BY DEF Recent, PublisherTypeOK, PublisherTick, Later

\* The publisher starts with its types and with a key.
LEMMA PublisherStarts ==
  ASSUME PublisherInit, Horizon \in Nat, UpHorizon \in Nat
  PROVE  PublisherInv
BY DEF PublisherInit, PublisherInv, PublisherTypeOK, Down

\* It keeps its types, and a key, whatever it does.
LEMMA PublisherGoesOn ==
  ASSUME PublisherInv, Horizon \in Nat, UpHorizon \in Nat,
         Rotate \/ EndpointChanges \/ PublisherTick
  PROVE  PublisherInv'
<1>1. CASE Rotate
  <2>1. PICK kid \in Kids :
          /\ \/ status[kid] = "future" /\ status' = [status EXCEPT ![kid] = "published"]
             \/ /\ status[kid] = "published" /\ Published # {kid}
                /\ status' = [status EXCEPT ![kid] = "retired"]
          /\ age' = [age EXCEPT ![kid] = 0]
          /\ up' = up
    BY <1>1 DEF Rotate
  <2>2. PublisherTypeOK'
    BY <2>1 DEF PublisherInv, PublisherTypeOK
  <2>3. Published' # {}
    <3>1. CASE status[kid] = "future"
      BY <2>1, <3>1 DEF PublisherInv, PublisherTypeOK, Published
    <3>2. CASE status[kid] = "published"
      <4>1. PICK k \in Published : k # kid
        BY <2>1, <3>2 DEF PublisherInv, Published
      <4>2. status'[k] = "published"
        BY <2>1, <4>1 DEF PublisherInv, PublisherTypeOK, Published
      <4>3. QED
        BY <4>1, <4>2 DEF Published
    <3>3. QED
      BY <2>1, <3>1, <3>2
  <2>4. QED
    BY <2>2, <2>3 DEF PublisherInv
<1>2. CASE EndpointChanges
  BY <1>2 DEF EndpointChanges, PublisherInv, PublisherTypeOK, Published, Down
<1>3. CASE PublisherTick
  <2>1. PublisherTypeOK'
    BY <1>3 DEF PublisherTick, PublisherInv, PublisherTypeOK, Later, Down
  <2>2. Published' = Published
    BY <1>3 DEF PublisherTick, Published
  <2>3. QED
    BY <2>1, <2>2 DEF PublisherInv
<1>4. QED
  BY <1>1, <1>2, <1>3

(***************************************************************************)
(* The inductive invariant.                                                *)
(***************************************************************************)
\* A response carries keys, as of the time its fetch has taken since, or none.
AnsweredInv ==
  \A r \in Requests : request[r].phase = "answered" =>
    \/ request[r].keys = NoKeys
    \/ Recent(request[r].keys, request[r].spent, status, age)

\* A cache that is not expired is older than its "at" says by a fetch at most,
\* or a response without a key was put there when its "at" says.
CachedInv ==
  cache.at < TTL =>
    \/ Recent(cache.keys, cache.at + FETCH, status, age)
    \/ cache.keys = NoKeys /\ failed <= cache.at

\* A request that looks a key up, or is about to force a refetch after it has,
\* does so while the cache is not expired, or has just been emptied: no time
\* passes meanwhile.
LookingInv ==
  \A r \in Requests :
    /\ \/ request[r].phase = "looking"
       \/ request[r].phase = "calling" /\ request[r].force
       => cache.at < TTL \/ (cache.keys = NoKeys /\ failed = 0)
    /\ request[r].phase = "looking" =>
         \/ request[r].keys = NoKeys
         \/ Recent(request[r].keys, TTL + FETCH - 1, status, age)

\* No response that lands takes the floor back.
FloorInv == cache.forcedAt = sinceForced
\* Whoever finds the floor in force finds the fetch that moved it under way,
\* failed since, or its answer, or a later one, in the cache.
ForcedInv ==
  cache.forcedAt < FLOOR =>
    \/ \E s \in Requests : InForcedFetch(s)
    \/ failed <= cache.forcedAt
    \/ cache.at <= cache.forcedAt

\* The second look of a request is at a response that has just landed, or at the
\* cache the floor made it use, if it has not just been emptied.
SecondLookInv ==
  \A r \in Requests : request[r].phase = "looking" /\ request[r].force =>
    \/ cache.at = 0 \/ failed = 0
    \/ cache.forcedAt < FLOOR /\ request[r].keys = cache.keys

WorkerInv ==
  /\ TypeOK /\ PublisherInv /\ AnsweredInv /\ CachedInv /\ LookingInv /\ FloorInv
  /\ ForcedInv /\ SecondLookInv

(***************************************************************************)
(* Types.                                                                  *)
(***************************************************************************)
\* What a request's state is made of, by its phase.
LEMMA RequestType ==
  ASSUME TypeOK, NEW r \in Requests
  PROVE  /\ request[r].phase \in Phases \cup {"idle"}
         /\ request[r].phase # "idle" => request[r] \in Busy
         /\ request[r].phase = "idle" => request[r] = Idle
BY DEF TypeOK, Idle, Busy, Phases

\* The state a request takes is a record of its parts.
LEMMA AtType ==
  ASSUME NEW phase \in Phases, NEW kid \in Kids \cup Forged, NEW force \in BOOLEAN,
         NEW spent \in 0 .. FETCH, NEW keys \in SUBSET Kids
  PROVE  /\ At(phase, kid, force, spent, keys) \in Busy
         /\ At(phase, kid, force, spent, keys).phase = phase
         /\ At(phase, kid, force, spent, keys).force = force
         /\ At(phase, kid, force, spent, keys).spent = spent
         /\ At(phase, kid, force, spent, keys).keys = keys
BY DEF At, Busy

\* One request takes a new state, and no other does.
LEMMA OnlyOne ==
  ASSUME TypeOK, NEW r \in Requests, NEW state, Become(r, state)
  PROVE  /\ request'[r] = state
         /\ \A s \in Requests \ {r} : request'[s] = request[s]
         /\ state \in {Idle} \cup Busy => request' \in [Requests -> {Idle} \cup Busy]
BY DEF TypeOK, Become

LEMMA WorkerStarts == Init => WorkerInv
<1> SUFFICES ASSUME Init PROVE WorkerInv
  OBVIOUS
<1>1. PublisherInv
  BY PublisherStarts, WorkerAssumption DEF Init
<1>2. TypeOK
  BY <1>1, WorkerAssumption DEF Init, TypeOK, PublisherInv, NoKeys
<1>3. \A r \in Requests : request[r].phase = "idle"
  BY DEF Init, Idle
<1>4. QED
  BY <1>1, <1>2, <1>3, WorkerAssumption
  DEF Init, WorkerInv, AnsweredInv, CachedInv, LookingInv, FloorInv, ForcedInv, SecondLookInv,
    InForcedFetch, Fetching

(***************************************************************************)
(* Steps of one request.                                                   *)
(***************************************************************************)
\* What a request's new state has to be when the cache stays as it is.
FitsIn(r, state) ==
  /\ state.phase = "answered" =>
       state.keys = NoKeys \/ Recent(state.keys, state.spent, status, age)
  /\ state.phase = "looking" \/ (state.phase = "calling" /\ state.force) =>
       cache.at < TTL \/ (cache.keys = NoKeys /\ failed = 0)
  /\ state.phase = "looking" =>
       state.keys = NoKeys \/ Recent(state.keys, TTL + FETCH - 1, status, age)
  /\ state.phase = "looking" /\ state.force =>
       cache.forcedAt < FLOOR /\ state.keys = cache.keys
  /\ \/ failed' = 0
     \/ /\ failed' = failed
        /\ InForcedFetch(r) => state.phase \in {"awaiting", "answered"} /\ state.force

LEMMA CacheKept ==
  ASSUME WorkerInv, NEW r \in Requests, NEW state \in {Idle} \cup Busy, Become(r, state),
         UNCHANGED <<publisher, cache, sinceForced>>, FitsIn(r, state)
  PROVE  WorkerInv'
<1>1. UNCHANGED <<status, age, up, cache, sinceForced>>
  BY DEF publisher
<1>2. /\ request'[r] = state
      /\ \A s \in Requests \ {r} : request'[s] = request[s]
      /\ request' \in [Requests -> {Idle} \cup Busy]
  BY OnlyOne DEF WorkerInv
<1>3. TypeOK' /\ PublisherInv'
  <2>1. failed' \in 0 .. FLOOR
    BY WorkerAssumption DEF WorkerInv, TypeOK, FitsIn
  <2>2. QED
    BY <1>1, <1>2, <2>1 DEF WorkerInv, TypeOK, PublisherInv, PublisherTypeOK, Published
<1>4. AnsweredInv'
  BY <1>1, <1>2 DEF WorkerInv, AnsweredInv, FitsIn
<1>5. CachedInv'
  <2>1. cache.at \in 0 .. TTL
    BY DEF WorkerInv, TypeOK
  <2>2. failed' = 0 \/ failed' = failed
    BY DEF FitsIn
  <2>3. QED
    BY <1>1, <2>1, <2>2, WorkerAssumption DEF WorkerInv, CachedInv
<1>6. LookingInv'
  BY <1>1, <1>2 DEF WorkerInv, LookingInv, FitsIn
<1>7. FloorInv'
  BY <1>1 DEF WorkerInv, FloorInv
<1>8. ForcedInv'
  <2>1. cache.forcedAt \in 0 .. FLOOR
    BY DEF WorkerInv, TypeOK
  <2>2. CASE failed' = 0
    BY <1>1, <2>1, <2>2 DEF ForcedInv
  <2>3. CASE failed' = failed /\ (InForcedFetch(r) =>
                                   state.phase \in {"awaiting", "answered"} /\ state.force)
    <3>1. \A s \in Requests : InForcedFetch(s) => InForcedFetch(s)'
      BY <1>2, <2>3 DEF InForcedFetch, Fetching
    <3>2. QED
      BY <1>1, <2>3, <3>1 DEF WorkerInv, ForcedInv
  <2>4. QED
    BY <2>2, <2>3 DEF FitsIn
<1>9. SecondLookInv'
  BY <1>1, <1>2 DEF WorkerInv, SecondLookInv, FitsIn
<1>10. QED
  BY <1>3, <1>4, <1>5, <1>6, <1>7, <1>8, <1>9 DEF WorkerInv

LEMMA ArriveKeeps ==
  ASSUME WorkerInv, NEW r \in Requests, Arrive(r)
  PROVE  WorkerInv'
<1>1. PICK kid \in Kids \cup Forged : Become(r, At("calling", kid, FALSE, 0, NoKeys))
  BY DEF Arrive
<1> DEFINE state == At("calling", kid, FALSE, 0, NoKeys)
<1>2. state \in Busy /\ state.phase = "calling" /\ state.force = FALSE
  <2>1. "calling" \in Phases /\ 0 \in 0 .. FETCH /\ NoKeys \in SUBSET Kids /\ FALSE \in BOOLEAN
    BY WorkerAssumption DEF Phases, NoKeys
  <2>2. QED
    BY <2>1 DEF At, Busy
<1> HIDE DEF state
<1>3. FitsIn(r, state)
  BY <1>2 DEF FitsIn, Arrive, InForcedFetch, Fetching, Idle
<1>4. UNCHANGED <<publisher, cache, sinceForced>>
  BY DEF Arrive
<1>5. QED
  BY <1>1, <1>2, <1>3, <1>4, CacheKept DEF state

LEMMA RespondKeeps ==
  ASSUME WorkerInv, NEW r \in Requests, Respond(r)
  PROVE  WorkerInv'
<1> DEFINE now == request[r]
           sent == IF up = Down THEN NoKeys ELSE Published
           state == At("answered", now.kid, now.force, now.spent, sent)
<1>1. now.phase = "awaiting" /\ Become(r, state)
  BY DEF Respond
<1>2. now \in Busy
  BY <1>1, RequestType DEF WorkerInv
<1>3. now.kid \in Kids \cup Forged /\ now.force \in BOOLEAN /\ now.spent \in 0 .. FETCH
  BY <1>2 DEF Busy
<1>4. /\ state \in Busy /\ state.phase = "answered" /\ state.force = now.force
      /\ state.spent = now.spent /\ state.keys = sent
  <2>1. "answered" \in Phases /\ sent \in SUBSET Kids
    BY DEF Phases, Published, NoKeys
  <2>2. QED
    BY <1>3, <2>1, AtType
<1>5. Recent(Published, now.spent, status, age)
  BY <1>3, PublishedIsRecent, RecentForLonger, WorkerAssumption DEF WorkerInv, TypeOK
<1> HIDE DEF state
<1>6. FitsIn(r, state)
  BY <1>1, <1>4, <1>5 DEF FitsIn, Respond, InForcedFetch, Fetching
<1>7. UNCHANGED <<publisher, cache, sinceForced>>
  BY DEF Respond
<1>8. QED
  BY <1>1, <1>4, <1>6, <1>7, CacheKept

LEMMA FetchFailsKeeps ==
  ASSUME WorkerInv, NEW r \in Requests, FetchFails(r)
  PROVE  WorkerInv'
<1>1. FitsIn(r, Idle)
  BY DEF FitsIn, FetchFails, InForcedFetch, Idle
<1>2. Become(r, Idle) /\ UNCHANGED <<publisher, cache, sinceForced>>
  BY DEF FetchFails
<1>3. QED
  BY <1>1, <1>2, CacheKept

LEMMA LookKeeps ==
  ASSUME WorkerInv, NEW r \in Requests, Look(r)
  PROVE  WorkerInv'
<1> DEFINE now == request[r]
           again == At("calling", now.kid, TRUE, 0, NoKeys)
<1>1. now.phase = "looking" /\ (Become(r, Idle) \/ Become(r, again))
  BY DEF Look
<1>2. now.kid \in Kids \cup Forged
  BY <1>1, RequestType DEF WorkerInv, Busy
<1>3. again \in Busy /\ again.phase = "calling"
  <2>1. "calling" \in Phases /\ 0 \in 0 .. FETCH /\ NoKeys \in SUBSET Kids /\ TRUE \in BOOLEAN
    BY WorkerAssumption DEF Phases, NoKeys
  <2>2. QED
    BY <1>2, <2>1 DEF At, Busy
<1> HIDE DEF again
<1>4. FitsIn(r, Idle) /\ FitsIn(r, again)
  BY <1>1, <1>3 DEF FitsIn, Look, InForcedFetch, Fetching, Idle, WorkerInv, LookingInv
<1>5. UNCHANGED <<publisher, cache, sinceForced>>
  BY DEF Look
<1>6. QED
  BY <1>1, <1>3, <1>4, <1>5, CacheKept

\* A forced fetch begins, and the floor is new now.
LEMMA ForcedFetchKeeps ==
  ASSUME WorkerInv, NEW r \in Requests, NEW state \in Busy, Become(r, state),
         state.phase = "awaiting", state.force, cache' = [cache EXCEPT !.forcedAt = 0],
         sinceForced' = 0, UNCHANGED <<publisher, failed>>
  PROVE  WorkerInv'
<1>1. UNCHANGED <<status, age, up>>
  BY DEF publisher
<1>2. /\ request'[r] = state
      /\ \A s \in Requests \ {r} : request'[s] = request[s]
      /\ request' \in [Requests -> {Idle} \cup Busy]
  BY OnlyOne DEF WorkerInv
<1>3. cache'.forcedAt = 0 /\ cache'.at = cache.at /\ cache'.keys = cache.keys
  BY DEF WorkerInv, TypeOK
<1>4. TypeOK' /\ PublisherInv'
  BY <1>1, <1>2, <1>3, WorkerAssumption
  DEF WorkerInv, TypeOK, PublisherInv, PublisherTypeOK, Published, Busy
<1>5. AnsweredInv' /\ LookingInv'
  BY <1>1, <1>2, <1>3 DEF WorkerInv, AnsweredInv, LookingInv
<1>6. CachedInv'
  BY <1>1, <1>3 DEF WorkerInv, CachedInv
<1>7. FloorInv'
  BY <1>3 DEF FloorInv
<1>8. ForcedInv'
  BY <1>2 DEF ForcedInv, InForcedFetch, Fetching
<1>9. SecondLookInv'
  BY <1>2, <1>3, WorkerAssumption DEF WorkerInv, SecondLookInv
<1>10. QED
  BY <1>4, <1>5, <1>6, <1>7, <1>8, <1>9 DEF WorkerInv

LEMMA AccessKeysKeeps ==
  ASSUME WorkerInv, NEW r \in Requests, accessKeys(r)
  PROVE  WorkerInv'
<1> DEFINE now == request[r]
           hit == At("looking", now.kid, now.force, 0, cache.keys)
           fetch == At("awaiting", now.kid, now.force, 0, NoKeys)
<1>1. now.phase = "calling" /\ UNCHANGED publisher /\ failed' = failed
  BY DEF accessKeys
<1>2. now \in Busy
  BY <1>1, RequestType DEF WorkerInv
<1>3. now.kid \in Kids \cup Forged /\ now.force \in BOOLEAN
  BY <1>2 DEF Busy
<1>4. cache.keys \in SUBSET Kids /\ cache.at \in 0 .. TTL /\ cache.forcedAt \in 0 .. FLOOR
      /\ failed \in 0 .. FLOOR
  BY DEF WorkerInv, TypeOK
<1>5. /\ hit \in Busy /\ hit.phase = "looking" /\ hit.force = now.force
      /\ hit.keys = cache.keys
  BY <1>3, <1>4, AtType, WorkerAssumption DEF Phases
<1>6. fetch \in Busy /\ fetch.phase = "awaiting" /\ fetch.force = now.force /\ fetch.spent = 0
  BY <1>3, AtType, WorkerAssumption DEF Phases, NoKeys
<1>7. CASE UsesCache(now.force)
  <2>1. Become(r, hit) /\ cache' = cache
    BY <1>7 DEF accessKeys
  <2>2. cache.at < TTL \/ (cache.keys = NoKeys /\ failed = 0)
    BY <1>1, <1>7 DEF UsesCache, WorkerInv, LookingInv
  <2>3. cache.keys = NoKeys \/ Recent(cache.keys, TTL + FETCH - 1, status, age)
    <3>1. SUFFICES ASSUME cache.keys # NoKeys
                   PROVE  Recent(cache.keys, TTL + FETCH - 1, status, age)
      OBVIOUS
    <3>2. Recent(cache.keys, cache.at + FETCH, status, age)
      BY <2>2, <3>1 DEF WorkerInv, CachedInv
    <3>3. cache.at + FETCH \in Nat /\ TTL + FETCH - 1 \in Nat
          /\ cache.at + FETCH <= TTL + FETCH - 1
      BY <1>4, <2>2, <3>1, WorkerAssumption
    <3>4. QED
      BY <3>2, <3>3, RecentForLonger, WorkerAssumption DEF WorkerInv, TypeOK
  <2>4. sinceForced' = sinceForced
    BY <1>7 DEF accessKeys
  <2> HIDE DEF hit
  <2>5. FitsIn(r, hit)
    BY <1>1, <1>5, <1>7, <2>2, <2>3 DEF FitsIn, UsesCache, InForcedFetch, Fetching
  <2>6. QED
    BY <1>1, <1>5, <2>1, <2>4, <2>5, CacheKept
<1>8. CASE ~UsesCache(now.force)
  <2>1. /\ Become(r, fetch) /\ cache' = ForcedFloor(now.force)
        /\ sinceForced' = IF now.force THEN 0 ELSE sinceForced
    BY <1>8 DEF accessKeys
  <2> HIDE DEF fetch
  <2>2. CASE now.force
    <3>1. cache' = [cache EXCEPT !.forcedAt = 0]
      BY <2>1, <2>2 DEF ForcedFloor
    <3>2. fetch.force /\ sinceForced' = 0
      BY <1>6, <2>1, <2>2
    <3>3. QED
      BY <1>1, <1>6, <2>1, <3>1, <3>2, ForcedFetchKeeps
  <2>3. CASE ~now.force
    <3>1. FitsIn(r, fetch)
      BY <1>1, <1>6, <2>3 DEF FitsIn, InForcedFetch, Fetching
    <3>2. QED
      BY <1>1, <1>6, <2>1, <2>3, <3>1, CacheKept DEF ForcedFloor
  <2>4. QED
    BY <2>2, <2>3
<1>9. QED
  BY <1>7, <1>8

LEMMA LandKeeps ==
  ASSUME WorkerInv, NEW r \in Requests, Land(r)
  PROVE  WorkerInv'
<1> DEFINE now == request[r]
           state == At("looking", now.kid, now.force, 0, now.keys)
<1>1. /\ now.phase = "answered"
      /\ Become(r, state)
      /\ cache' = [keys |-> now.keys, at |-> 0, forcedAt |-> cache.forcedAt]
      /\ failed' = (IF now.keys = NoKeys THEN 0 ELSE failed)
      /\ UNCHANGED <<status, age, up, sinceForced>>
  BY DEF Land, publisher
<1>2. now \in Busy
  BY <1>1, RequestType DEF WorkerInv
<1>3. /\ now.kid \in Kids \cup Forged /\ now.force \in BOOLEAN /\ now.spent \in 0 .. FETCH
      /\ now.keys \in SUBSET Kids
  BY <1>2 DEF Busy
<1>4. state \in Busy /\ state.phase = "looking" /\ state.keys = now.keys
  <2>1. "looking" \in Phases /\ 0 \in 0 .. FETCH
    BY WorkerAssumption DEF Phases
  <2>2. QED
    BY <1>3, <2>1, AtType
<1> HIDE DEF state
<1>5. /\ request'[r] = state
      /\ \A s \in Requests \ {r} : request'[s] = request[s]
      /\ request' \in [Requests -> {Idle} \cup Busy]
  BY <1>1, <1>4, OnlyOne DEF WorkerInv
<1>6. now.keys = NoKeys \/ Recent(now.keys, now.spent, status, age)
  BY <1>1 DEF WorkerInv, AnsweredInv
<1>7. now.keys = NoKeys \/ Recent(now.keys, FETCH, status, age)
  BY <1>3, <1>6, RecentForLonger, WorkerAssumption DEF WorkerInv, TypeOK
<1>8. now.keys = NoKeys \/ Recent(now.keys, TTL + FETCH - 1, status, age)
  <2>1. TTL + FETCH - 1 \in Nat /\ FETCH <= TTL + FETCH - 1
    BY WorkerAssumption
  <2>2. QED
    BY <1>7, <2>1, RecentForLonger, WorkerAssumption DEF WorkerInv, TypeOK
<1>9. TypeOK' /\ PublisherInv'
  BY <1>1, <1>3, <1>5, <1>6, WorkerAssumption
  DEF WorkerInv, TypeOK, PublisherInv, PublisherTypeOK, Published, Busy
<1>10. AnsweredInv'
  BY <1>1, <1>4, <1>5 DEF WorkerInv, AnsweredInv
<1>11. CachedInv'
  BY <1>1, <1>6, <1>7, WorkerAssumption DEF CachedInv
<1>12. LookingInv'
  BY <1>1, <1>4, <1>5, <1>8, WorkerAssumption DEF WorkerInv, LookingInv
<1>13. FloorInv'
  BY <1>1 DEF WorkerInv, FloorInv
<1>14. ForcedInv'
  <2>1. cache'.at = 0 /\ cache'.forcedAt = cache.forcedAt /\ cache.forcedAt \in 0 .. FLOOR
    BY <1>1 DEF WorkerInv, TypeOK
  <2>2. QED
    BY <2>1 DEF ForcedInv
<1>15. SecondLookInv'
  BY <1>1 DEF SecondLookInv
<1>16. QED
  BY <1>9, <1>10, <1>11, <1>12, <1>13, <1>14, <1>15 DEF WorkerInv

LEMMA LandWithoutListKeeps ==
  ASSUME WorkerInv, NEW r \in Requests, LandWithoutList(r)
  PROVE  WorkerInv'
<1>1. /\ Become(r, Idle)
      /\ cache' = [keys |-> NoKeys, at |-> TTL, forcedAt |-> cache.forcedAt]
      /\ failed' = 0
      /\ UNCHANGED <<status, age, up, sinceForced>>
  BY DEF LandWithoutList, publisher
<1>2. /\ request'[r] = Idle
      /\ \A s \in Requests \ {r} : request'[s] = request[s]
      /\ request' \in [Requests -> {Idle} \cup Busy]
  BY <1>1, OnlyOne DEF WorkerInv
<1>3. cache'.keys = NoKeys /\ cache'.at = TTL /\ cache'.forcedAt = cache.forcedAt
  BY <1>1
<1>4. TypeOK' /\ PublisherInv'
  BY <1>1, <1>2, WorkerAssumption
  DEF WorkerInv, TypeOK, PublisherInv, PublisherTypeOK, Published, NoKeys
<1>5. AnsweredInv' /\ LookingInv'
  BY <1>1, <1>2, <1>3 DEF WorkerInv, AnsweredInv, LookingInv, Idle
<1>6. CachedInv' /\ FloorInv'
  BY <1>1, <1>3, WorkerAssumption DEF WorkerInv, CachedInv, FloorInv
<1>7. ForcedInv' /\ SecondLookInv'
  BY <1>1, <1>3 DEF WorkerInv, TypeOK, ForcedInv, SecondLookInv
<1>8. QED
  BY <1>4, <1>5, <1>6, <1>7 DEF WorkerInv
(***************************************************************************)
(* Steps of the team and of the clock.                                     *)
(***************************************************************************)
LEMMA PublisherKeeps ==
  ASSUME WorkerInv, Rotate \/ EndpointChanges,
         UNCHANGED <<cache, request, failed, sinceForced>>
  PROVE  WorkerInv'
<1>1. PublisherInv'
  BY PublisherGoesOn, WorkerAssumption DEF WorkerInv
<1>2. ASSUME NEW keys, NEW n \in Nat, Recent(keys, n, status, age)
      PROVE  Recent(keys, n, status', age')
  BY <1>2, RecentAfterRotate, WorkerAssumption DEF WorkerInv, TypeOK, EndpointChanges
<1>3. TypeOK'
  BY <1>1 DEF WorkerInv, TypeOK, PublisherInv
<1>4. AnsweredInv'
  <2>1. \A r \in Requests : request[r].phase = "answered" => request[r].spent \in Nat
    BY RequestType, WorkerAssumption DEF WorkerInv, Busy
  <2>2. QED
    BY <1>2, <2>1 DEF WorkerInv, AnsweredInv
<1>5. CachedInv'
  <2>1. cache.at + FETCH \in Nat
    BY WorkerAssumption DEF WorkerInv, TypeOK
  <2>2. QED
    BY <1>2, <2>1 DEF WorkerInv, CachedInv
<1>6. LookingInv'
  <2>1. TTL + FETCH - 1 \in Nat
    BY WorkerAssumption
  <2>2. QED
    BY <1>2, <2>1 DEF WorkerInv, LookingInv
<1>7. FloorInv'
  BY DEF WorkerInv, FloorInv, InForcedFetch, Fetching
<1>8. ForcedInv' /\ SecondLookInv'
  BY DEF WorkerInv, ForcedInv, SecondLookInv, InForcedFetch, Fetching
<1>9. QED
  BY <1>1, <1>3, <1>4, <1>5, <1>6, <1>7, <1>8 DEF WorkerInv

LEMMA TickKeeps ==
  ASSUME WorkerInv, Tick
  PROVE  WorkerInv'
<1>1. PublisherInv'
  BY PublisherGoesOn, WorkerAssumption DEF WorkerInv, Tick
<1>2. ASSUME NEW keys, NEW n \in Nat, Recent(keys, n, status, age)
      PROVE  Recent(keys, n + 1, status', age')
  BY <1>2, RecentAfterTick, WorkerAssumption DEF WorkerInv, TypeOK, Tick
<1>3. \A r \in Requests : Fetching(r) =>
        /\ request[r] \in Busy /\ request[r].spent \in 0 .. FETCH /\ request[r].spent < FETCH
        /\ request'[r] = [request[r] EXCEPT !.spent = @ + 1]
  BY RequestType DEF WorkerInv, Tick, Fetching, Busy
<1>4. \A r \in Requests : ~Fetching(r) => request'[r] = request[r] /\ request[r] = Idle
  BY RequestType DEF WorkerInv, Tick
<1>5. ASSUME NEW r \in Requests, Fetching(r)
      PROVE  /\ request'[r] \in Busy
             /\ request'[r].phase = request[r].phase
             /\ request'[r].force = request[r].force
             /\ request'[r].keys = request[r].keys
             /\ request'[r].spent = request[r].spent + 1
  <2>1. /\ request[r] \in Busy /\ request[r].spent \in 0 .. FETCH /\ request[r].spent < FETCH
        /\ request'[r] = [request[r] EXCEPT !.spent = request[r].spent + 1]
    BY <1>3, <1>5
  <2>2. request[r].spent + 1 \in 0 .. FETCH
    BY <2>1, WorkerAssumption
  <2>3. request'[r] \in Busy
    BY <2>1, <2>2 DEF Busy
  <2>4. /\ request'[r].phase = request[r].phase /\ request'[r].keys = request[r].keys
        /\ request'[r].spent = request[r].spent + 1
    BY <2>1 DEF Busy
  <2>5. request'[r].force = request[r].force
    BY <2>1 DEF Busy
  <2>6. QED
    BY <2>3, <2>4, <2>5
<1>6. TypeOK'
  <2>1. request' \in [Requests -> {Idle} \cup Busy]
    <3>1. \A r \in Requests : request'[r] \in {Idle} \cup Busy
      BY <1>4, <1>5
    <3>2. QED
      BY <3>1 DEF Tick
  <2>2. cache' \in [keys : SUBSET Kids, at : 0 .. TTL, forcedAt : 0 .. FLOOR]
        /\ failed' \in 0 .. FLOOR /\ sinceForced' \in 0 .. FLOOR
    <3>1. ASSUME NEW limit \in Nat, NEW n \in 0 .. limit
          PROVE  Later(n, limit) \in 0 .. limit
      BY DEF Later
    <3>2. /\ cache' = [cache EXCEPT !.at = Later(cache.at, TTL),
                                    !.forcedAt = Later(cache.forcedAt, FLOOR)]
          /\ failed' = Later(failed, FLOOR) /\ sinceForced' = Later(sinceForced, FLOOR)
      BY DEF Tick
    <3>3. /\ cache \in [keys : SUBSET Kids, at : 0 .. TTL, forcedAt : 0 .. FLOOR]
          /\ failed \in 0 .. FLOOR /\ sinceForced \in 0 .. FLOOR
      BY DEF WorkerInv, TypeOK
    <3>4. /\ Later(cache.at, TTL) \in 0 .. TTL /\ Later(cache.forcedAt, FLOOR) \in 0 .. FLOOR
          /\ Later(failed, FLOOR) \in 0 .. FLOOR /\ Later(sinceForced, FLOOR) \in 0 .. FLOOR
      BY <3>1, <3>3, WorkerAssumption
    <3>5. QED
      BY <3>2, <3>3, <3>4
  <2>3. QED
    BY <1>1, <2>1, <2>2 DEF TypeOK, PublisherInv
<1>7. AnsweredInv'
  <2>1. SUFFICES ASSUME NEW r \in Requests, request'[r].phase = "answered"
                 PROVE  \/ request'[r].keys = NoKeys
                        \/ Recent(request'[r].keys, request'[r].spent, status', age')
    BY DEF AnsweredInv
  <2>2. Fetching(r)
    BY <1>4, <2>1 DEF Idle
  <2>3. request[r].phase = "answered" /\ request[r].spent \in Nat
    <3>1. request[r].spent \in 0 .. FETCH
      BY <1>3, <2>2
    <3>2. request[r].phase = "answered"
      BY <1>5, <2>1, <2>2
    <3>3. QED
      BY <3>1, <3>2, WorkerAssumption
  <2>4. request[r].keys = NoKeys \/ Recent(request[r].keys, request[r].spent, status, age)
    BY <2>3 DEF WorkerInv, AnsweredInv
  <2>5. QED
    BY <1>2, <1>5, <2>2, <2>3, <2>4
<1>8. CachedInv'
  <2>1. cache'.keys = cache.keys /\ cache'.at = Later(cache.at, TTL) /\ cache.at \in 0 .. TTL
    BY DEF Tick, WorkerInv, TypeOK
  <2>2. ASSUME cache'.at < TTL
        PROVE  cache.at < TTL /\ cache'.at + FETCH = (cache.at + FETCH) + 1
               /\ cache.at + FETCH \in Nat
    BY <2>1, <2>2, WorkerAssumption DEF Later
  <2>3. failed <= cache.at /\ cache'.at < TTL => failed' <= cache'.at
    BY <2>1, WorkerAssumption DEF Tick, Later, WorkerInv, TypeOK
  <2>4. QED
    BY <1>2, <2>1, <2>2, <2>3 DEF WorkerInv, CachedInv
<1>9. \A r \in Requests : request'[r].phase \notin {"looking", "calling"}
  BY <1>4, <1>5 DEF Idle, Fetching
<1>10. LookingInv'
  BY <1>9 DEF LookingInv
<1>11. FloorInv'
  BY DEF WorkerInv, TypeOK, FloorInv, Tick
<1>12. ForcedInv'
  <2>1. SUFFICES ASSUME cache'.forcedAt < FLOOR
                 PROVE  \/ \E s \in Requests : InForcedFetch(s)'
                        \/ failed' <= cache'.forcedAt
                        \/ cache'.at <= cache'.forcedAt
    BY DEF ForcedInv
  <2>2. /\ cache'.forcedAt = Later(cache.forcedAt, FLOOR) /\ cache.forcedAt \in 0 .. FLOOR
        /\ cache'.at = Later(cache.at, TTL) /\ cache.at \in 0 .. TTL
        /\ failed' = Later(failed, FLOOR) /\ failed \in 0 .. FLOOR
    BY DEF Tick, WorkerInv, TypeOK
  <2>3. cache.forcedAt < FLOOR /\ cache'.forcedAt = cache.forcedAt + 1
    BY <2>1, <2>2, WorkerAssumption DEF Later
  <2>4. \A s \in Requests : InForcedFetch(s) => InForcedFetch(s)'
    BY <1>5 DEF InForcedFetch, Fetching
  <2>5. CASE \E s \in Requests : InForcedFetch(s)
    BY <2>4, <2>5
  <2>6. CASE failed <= cache.forcedAt
    BY <2>2, <2>3, <2>6, WorkerAssumption DEF Later
  <2>7. CASE cache.at <= cache.forcedAt
    BY <2>2, <2>3, <2>7, WorkerAssumption DEF Later
  <2>8. QED
    BY <2>3, <2>5, <2>6, <2>7 DEF WorkerInv, ForcedInv
<1>13. SecondLookInv'
  BY <1>9 DEF SecondLookInv
<1>14. QED
  BY <1>1, <1>6, <1>7, <1>8, <1>10, <1>11, <1>12, <1>13 DEF WorkerInv

(***************************************************************************)
(* Theorems.                                                               *)
(***************************************************************************)
\* The inductive invariant holds in every reachable state.
THEOREM WorkerInvariant == Spec => []WorkerInv
<1>1. Init => WorkerInv
  BY WorkerStarts
<1>2. WorkerInv /\ [Next]_vars => WorkerInv'
  <2> SUFFICES ASSUME WorkerInv, [Next]_vars PROVE WorkerInv'
    OBVIOUS
  <2>1. ASSUME NEW r \in Requests,
               \/ Arrive(r) \/ accessKeys(r) \/ Respond(r) \/ FetchFails(r) \/ Land(r)
               \/ LandWithoutList(r) \/ Look(r)
        PROVE  WorkerInv'
    BY <2>1, ArriveKeeps, AccessKeysKeeps, RespondKeeps, FetchFailsKeeps, LandKeeps,
       LandWithoutListKeeps, LookKeeps
  <2>2. CASE (Rotate \/ EndpointChanges) /\ UNCHANGED <<cache, request, failed, sinceForced>>
    BY <2>2, PublisherKeeps
  <2>3. CASE Tick
    BY <2>3, TickKeeps
  <2>4. CASE UNCHANGED vars
    BY <2>4 DEF vars, publisher, WorkerInv, TypeOK, PublisherInv, PublisherTypeOK, Published,
      AnsweredInv, CachedInv, LookingInv, FloorInv, ForcedInv, SecondLookInv, InForcedFetch,
      Fetching
  <2>5. QED
    BY <2>1, <2>2, <2>3, <2>4 DEF Next
<1>3. QED
  BY <1>1, <1>2, PTL DEF Spec

\* Every variable keeps its type.
THEOREM WorkerTypeCorrect == Spec => []TypeOK
<1>1. WorkerInv => TypeOK
  BY DEF WorkerInv
<1>2. QED
  BY <1>1, WorkerInvariant, PTL

\* One request takes a step of its own, or the others do and time passes.
LEMMA WhoseStep ==
  ASSUME WorkerInv, Next, NEW r \in Requests, request'[r] # request[r], ~Fetching(r)
  PROVE  \/ Arrive(r) \/ accessKeys(r) \/ Respond(r) \/ FetchFails(r) \/ Land(r)
         \/ LandWithoutList(r) \/ Look(r)
<1>1. ~Tick /\ request' # request
  BY DEF Tick, WorkerInv, TypeOK
<1>2. PICK s \in Requests : Arrive(s) \/ accessKeys(s) \/ Respond(s) \/ FetchFails(s)
                             \/ Land(s) \/ LandWithoutList(s) \/ Look(s)
  BY <1>1 DEF Next
<1>3. \E state : Become(s, state)
  BY <1>2 DEF Arrive, accessKeys, Respond, FetchFails, Land, LandWithoutList, Look
<1>4. s = r
  BY <1>3 DEF Become, WorkerInv, TypeOK
<1>5. QED
  BY <1>2, <1>4

\* However many tokens with unknown kids arrive, however long a fetch takes and
\* whatever responses land in between, no forced fetch begins within the floor
\* of the last one (support.js:138-148).
THEOREM FloorTheorem == Spec => ForcedFetchesKeepTheFloor
<1> DEFINE Step == \A r \in Requests :
                     InForcedFetch(r)' /\ ~InForcedFetch(r) => sinceForced >= FLOOR
<1>1. WorkerInv /\ [Next]_vars => [Step]_vars
  <2> SUFFICES ASSUME WorkerInv, Next, NEW r \in Requests, InForcedFetch(r)', ~InForcedFetch(r)
               PROVE  sinceForced >= FLOOR
    OBVIOUS
  <2> DEFINE now == request[r]
  <2>1. ~Fetching(r)
    <3>1. SUFFICES ASSUME Fetching(r), ~now.force PROVE FALSE
      BY DEF InForcedFetch
    <3>2. now.phase \in {"awaiting", "answered"} /\ now \in Busy
      BY <3>1, RequestType DEF Fetching, WorkerInv
    <3>3. request'[r].phase \in {"awaiting", "answered"} /\ request'[r].force
      BY DEF InForcedFetch, Fetching
    <3>4. CASE Tick
      <4>1. request'[r] = [now EXCEPT !.spent = @ + 1]
        BY <3>1, <3>4 DEF Tick
      <4>2. request'[r].force = now.force
        BY <3>2, <4>1 DEF Busy
      <4>3. QED
        BY <3>1, <3>3, <4>2
    <3>5. CASE request' = request
      BY <3>1, <3>3, <3>5
    <3>6. CASE ~Tick /\ request' # request
      <4>1. PICK s \in Requests : Arrive(s) \/ accessKeys(s) \/ Respond(s) \/ FetchFails(s)
                                   \/ Land(s) \/ LandWithoutList(s) \/ Look(s)
        BY <3>6 DEF Next
      <4>2. \E state : Become(s, state)
        BY <4>1 DEF Arrive, accessKeys, Respond, FetchFails, Land, LandWithoutList, Look
      <4>3. s = r
        BY <3>1, <3>3, <4>2 DEF Become, WorkerInv, TypeOK
      <4>4. Respond(r)
        BY <3>2, <3>3, <4>1, <4>3
        DEF Arrive, accessKeys, FetchFails, Land, LandWithoutList, Look, Become, At, Idle,
          WorkerInv, TypeOK
      <4>5. request'[r].force = now.force
        BY <4>4 DEF Respond, Become, At, WorkerInv, TypeOK
      <4>6. QED
        BY <3>1, <3>3, <4>5
    <3>7. QED
      BY <3>4, <3>5, <3>6
  <2>2. request'[r] # now
    BY DEF InForcedFetch, Fetching
  <2>3. accessKeys(r)
    BY <2>1, <2>2, WhoseStep
    DEF Arrive, Respond, FetchFails, Land, LandWithoutList, Look, Become, At, Idle,
      InForcedFetch, Fetching, WorkerInv, TypeOK
  <2>4. ~UsesCache(now.force) /\ now.force
    BY <2>3 DEF accessKeys, Become, At, InForcedFetch, Fetching, WorkerInv, TypeOK
  <2>5. cache.forcedAt >= FLOOR
    BY <2>4, WorkerAssumption DEF UsesCache, WorkerInv, TypeOK
  <2>6. QED
    BY <2>5 DEF WorkerInv, FloorInv
<1>2. ForcedFetchesKeepTheFloor <=> [][Step]_vars
  BY DEF ForcedFetchesKeepTheFloor
<1>3. QED
  BY <1>1, <1>2, WorkerInvariant, PTL DEF Spec

\* A key that has been retired for a TTL and a fetch verifies no token, although
\* a late response may put an older key set back into the cache.
THEOREM RetiredKeysTheorem == Spec => []RetiredKeysRunOut
<1>1. WorkerInv => RetiredKeysRunOut
  <2> SUFFICES ASSUME WorkerInv, NEW r \in Requests, request[r].phase = "looking",
                      NEW kid \in request[r].keys, status[kid] = "retired"
               PROVE  age[kid] < TTL + FETCH
    BY DEF RetiredKeysRunOut
  <2>1. kid \in Kids
    BY RequestType DEF WorkerInv, Busy
  <2>2. age[kid] <= TTL + FETCH - 1
    BY <2>1 DEF WorkerInv, LookingInv, Recent, NoKeys
  <2>3. age[kid] \in Nat
    BY <2>1, WorkerAssumption DEF WorkerInv, TypeOK, PublisherTypeOK
  <2>4. QED
    BY <2>2, <2>3, WorkerAssumption
<1>2. QED
  BY <1>1, WorkerInvariant, PTL

\* A rejection of a token whose key is long published needs a forced fetch that
\* is under way, has just been answered, or failed within the floor, or a
\* response without a key within the floor (support.js:178-183).
THEOREM RotationTheorem == Spec => RotationRecovers
<1> DEFINE Excused == \/ \E s \in Requests : InForcedFetch(s)
                      \/ cache.at = 0
                      \/ failed < FLOOR
           Step == \A r \in Requests :
                     Rejects(r) /\ request[r].kid \in Published
                       /\ age[request[r].kid] > FLOOR + FETCH => Excused
<1>1. WorkerInv /\ [Next]_vars => [Step]_vars
  <2> SUFFICES ASSUME WorkerInv, Next, NEW r \in Requests, Rejects(r),
                      request[r].kid \in Published, age[request[r].kid] > FLOOR + FETCH,
                      cache.at # 0, ~(failed < FLOOR)
               PROVE  \E s \in Requests : InForcedFetch(s)
    OBVIOUS
  <2> DEFINE now == request[r]
  <2>1. now.phase = "looking" /\ now.kid \notin now.keys /\ request'[r] = Idle
    BY DEF Rejects
  <2>2. now \in Busy
    BY <2>1, RequestType DEF WorkerInv
  <2>3. now.force
    <3>1. SUFFICES ASSUME ~now.force PROVE FALSE
      OBVIOUS
    <3>2. now # Idle /\ request'[r] # now /\ ~Fetching(r)
      BY <2>1 DEF Idle, Fetching
    <3>3. Look(r)
      <4>1. ~Arrive(r)
        <5>1. Arrive(r) => now = Idle
          BY DEF Arrive
        <5>2. QED
          BY <2>1, <5>1 DEF Idle
      <4>2. ~accessKeys(r) /\ ~Respond(r) /\ ~FetchFails(r) /\ ~Land(r) /\ ~LandWithoutList(r)
        BY <2>1 DEF accessKeys, Respond, FetchFails, Land, LandWithoutList
      <4>3. QED
        BY <3>2, <4>1, <4>2, WhoseStep
    <3>4. Become(r, At("calling", now.kid, TRUE, 0, NoKeys))
      BY <2>1, <3>1, <3>3 DEF Look
    <3>5. request'[r].phase = "calling"
      BY <3>4 DEF Become, At, WorkerInv, TypeOK
    <3>6. QED
      BY <2>1, <3>5 DEF Idle
  <2>4. cache.forcedAt < FLOOR /\ now.keys = cache.keys
    BY <2>1, <2>3, WorkerAssumption DEF WorkerInv, SecondLookInv, TypeOK
  <2>5. /\ cache.forcedAt \in 0 .. FLOOR /\ cache.at \in 0 .. TTL /\ failed \in 0 .. FLOOR
        /\ now.kid \in Kids /\ age[now.kid] \in Nat /\ status[now.kid] = "published"
    BY WorkerAssumption DEF WorkerInv, TypeOK, PublisherTypeOK, Published
  <2>6. ~(cache.at <= cache.forcedAt)
    <3>1. SUFFICES ASSUME cache.at <= cache.forcedAt PROVE FALSE
      OBVIOUS
    <3>2. Recent(cache.keys, cache.at + FETCH, status, age)
      <4>1. cache.at < TTL
        BY <2>1, <2>5, WorkerAssumption DEF WorkerInv, LookingInv
      <4>2. ~(failed <= cache.at)
        BY <2>4, <2>5, <3>1, WorkerAssumption
      <4>3. QED
        BY <4>1, <4>2 DEF WorkerInv, CachedInv
    <3>3. age[now.kid] <= cache.at + FETCH
      BY <2>1, <2>4, <2>5, <3>2 DEF Recent
    <3>4. QED
      BY <2>4, <2>5, <3>1, <3>3, WorkerAssumption
  <2>7. ~(failed <= cache.forcedAt)
    BY <2>4, <2>5, WorkerAssumption
  <2>8. QED
    BY <2>4, <2>6, <2>7 DEF WorkerInv, ForcedInv
<1>2. RotationRecovers <=> [][Step]_vars
  BY DEF RotationRecovers
<1>3. QED
  BY <1>1, <1>2, WorkerInvariant, PTL DEF Spec
=============================================================================
