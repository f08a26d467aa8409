------------------------------ MODULE AccessKeys ------------------------------
(***************************************************************************)
(* The server's verifier of Access tokens (share-server/src/access.rs): a  *)
(* key set fetched once at startup and then by a thread of its own, every  *)
(* TTL while fetching works and every RETRY while it does not, and the     *)
(* request path that only ever reads what was last published.  Time is     *)
(* counted in ticks; a request takes none.                                 *)
(***************************************************************************)
EXTENDS KeyPublisher

CONSTANTS
  TTL,    \* JWKS_TTL
  RETRY,  \* RETRY_INTERVAL
  GRACE,  \* STALE_GRACE
  FETCH   \* FETCH_TIMEOUT

ASSUME RateAssumption ==
  /\ TTL \in Nat \ {0} /\ RETRY \in 1 .. TTL /\ GRACE \in Nat /\ FETCH \in Nat
  /\ Horizon \in Nat /\ Horizon > TTL + GRACE + 2 * FETCH
  /\ UpHorizon \in Nat /\ UpHorizon > TTL + 2 * FETCH

VARIABLES
  verifier,   \* "building" (the fetch in with_keys), "serving" or "dropped"
  held,       \* the published key set, and how long ago it was fetched
  refresher,  \* what the thread (while building: with_keys) is doing
  delivered   \* how long ago the endpoint's answer was a usable set (history)

vars == <<publisher, verifier, held, refresher, delivered>>

Never == -1

Waiting       == [kind |-> "none", keys |-> {}]
Failed        == [kind |-> "error", keys |-> {}]
Document(set) == [kind |-> "keys", keys |-> set]

Sleeping(left)          == [mode |-> "sleeping", left |-> left]
Fetching(spent, answer) == [mode |-> "fetching", spent |-> spent, answer |-> answer]
Gone                    == [mode |-> "gone"]

Init ==
  /\ PublisherInit
  /\ verifier = "building"
  /\ held = [keys |-> {}, age |-> Never]
  /\ refresher = Fetching(0, Waiting)
  /\ delivered = Never

\* The endpoint answers: what is published, or, when it is not healthy, an
\* error (or nothing within the timeout) or a set without a usable RS256 key.
Respond ==
  /\ refresher.mode = "fetching"
  /\ refresher.answer = Waiting
  /\ \E answer \in IF up = Down THEN {Failed, Document({})} ELSE {Document(Published)} :
       refresher' = Fetching(refresher.spent, answer)
  /\ UNCHANGED <<publisher, verifier, held, delivered>>

publish_FaultUnusable(answer) ==
  IF answer.kind = "keys" THEN [keys |-> answer.keys, age |-> 0] ELSE held

publish_FaultClear(answer) ==
  IF answer.keys # {} THEN [keys |-> answer.keys, age |-> 0] ELSE [held EXCEPT !.keys = {}]

publish_FaultMerge(answer) ==
  IF answer.keys # {} THEN [keys |-> answer.keys \cup held.keys, age |-> 0] ELSE held

publish_FaultUnchanged(answer) ==
  IF answer.keys \notin {{}, held.keys} THEN [keys |-> answer.keys, age |-> 0] ELSE held

\* What Shared::publish leaves: a usable set replaces the one that is held, an
\* error or an unusable set changes nothing.
publish(answer) ==
  IF answer.keys # {} THEN [keys |-> answer.keys, age |-> 0] ELSE held

Pause_Fault(healthy) == TTL

Pause(healthy) == IF healthy THEN TTL ELSE RETRY

\* At startup the thread that is to sleep may fail to spawn.
Publish ==
  /\ refresher.mode = "fetching"
  /\ refresher.answer # Waiting
  /\ LET healthy == refresher.answer.keys # {} IN
     /\ held' = publish(refresher.answer)
     /\ delivered' = IF healthy THEN 0 ELSE delivered
     /\ \/ refresher' = Sleeping(Pause(healthy))
        \/ verifier = "building" /\ refresher' = Gone
  /\ verifier' = IF verifier = "building" THEN "serving" ELSE verifier
  /\ UNCHANGED publisher

\* The refresher wakes; without a verifier it has nothing to refresh.
Wake ==
  /\ refresher.mode = "sleeping"
  /\ refresher.left = 0
  /\ refresher' = IF verifier = "dropped" THEN Gone ELSE Fetching(0, Waiting)
  /\ UNCHANGED <<publisher, verifier, held, delivered>>

Drop ==
  /\ verifier = "serving"
  /\ verifier' = "dropped"
  /\ UNCHANGED <<publisher, held, refresher, delivered>>

Aged(n) == IF n = Never THEN Never ELSE Later(n, Horizon)

\* Time passes, but neither past the end of a sleep nor past a fetch's timeout.
Tick ==
  /\ refresher.mode = "sleeping" => refresher.left > 0
  /\ refresher.mode = "fetching" => refresher.spent < FETCH
  /\ refresher' = CASE refresher.mode = "sleeping" -> Sleeping(refresher.left - 1)
                    [] refresher.mode = "fetching" ->
                         Fetching(refresher.spent + 1, refresher.answer)
                    [] refresher.mode = "gone" -> Gone
  /\ held' = [held EXCEPT !.age = Aged(held.age)]
  /\ delivered' = Aged(delivered)
  /\ PublisherTick
  /\ UNCHANGED verifier

Next ==
  \/ Respond \/ Publish \/ Wake \/ Drop \/ Tick
  \/ (Rotate \/ EndpointChanges) /\ UNCHANGED <<verifier, held, refresher, delivered>>

Spec == Init /\ [][Next]_vars

\* The clock runs, an HTTP request ends within its timeout, and the thread is
\* scheduled.
FairSpec == Spec /\ WF_vars(Tick) /\ WF_vars(Respond) /\ WF_vars(Publish) /\ WF_vars(Wake)

-----------------------------------------------------------------------------
(***************************************************************************)
(* The request path: what key() and principal() make of a token.           *)
(***************************************************************************)
usable_within(limit) == held.age # Never /\ held.age < limit

key_Fault(kid) ==
  IF kid \in held.keys
    THEN "found"
    ELSE IF usable_within(TTL) THEN "none" ELSE "unavailable"

\* "none" is the caller's problem (401), "unavailable" is ours (503).
key(kid) ==
  IF usable_within(TTL + GRACE) /\ kid \in held.keys
    THEN "found"
    ELSE IF usable_within(TTL) THEN "none" ELSE "unavailable"

\* The shape and the algorithm of a token are looked at before its key, the
\* signature, the claims and the identity in them after.
Flaws == {"no", "shape", "alg", "signature", "claims", "identity"}

principal(kid, flaw) ==
  IF flaw \in {"shape", "alg"} \/ key(kid) = "none" THEN "none"
  ELSE IF key(kid) = "unavailable" THEN "unavailable"
  ELSE IF flaw = "no" THEN "known" ELSE "none"

(***************************************************************************)
(* Properties.                                                             *)
(***************************************************************************)

Answers == {Waiting, Failed} \cup {Document(set) : set \in SUBSET Kids}

\* Every variable has its type.
TypeOK ==
  /\ PublisherTypeOK
  /\ verifier \in {"building", "serving", "dropped"}
  /\ held \in [keys : SUBSET Kids, age : {Never} \cup 0 .. Horizon]
  /\ held.keys = {} <=> held.age = Never
  /\ refresher \in {Gone} \cup {Sleeping(n) : n \in 0 .. TTL}
       \cup {Fetching(n, a) : n \in 0 .. FETCH, a \in Answers}
  /\ delivered \in {Never} \cup 0 .. Horizon

Serving == verifier = "serving"

\* A key the team has retired is no longer accepted once the grace has run out,
\* however long the endpoint is out of reach, and with no refresher at all
\* (access.rs:44-46, "The bound is what stops indefinitely").
RetiredKeysRunOut ==
  \A kid \in Kids :
    Serving /\ status[kid] = "retired" /\ age[kid] >= TTL + GRACE + FETCH
      => principal(kid, "no") # "known"

\* A good token whose key has been published for longer than a TTL is never
\* blamed on the caller: it is accepted, or the answer is "unavailable"
\* (access.rs:189-192, 336-345).
GoodTokenIsNotTheCallersFault ==
  \A kid \in Kids :
    Serving /\ status[kid] = "published" /\ age[kid] >= TTL + FETCH
      => principal(kid, "no") # "none"

\* An outage of the endpoint is no outage of ours until the grace has run out:
\* a key that was in the last usable answer stays accepted (access.rs:41-43).
OutageIsNotOurs ==
  \A kid \in Kids :
    /\ Serving
    /\ status[kid] = "published"
    /\ delivered # Never /\ delivered < TTL + GRACE
    /\ age[kid] > delivered + FETCH
    => principal(kid, "no") = "known"

\* While the endpoint answers, a rotation is picked up within the TTL and the
\* time two fetches take, in both directions: the new key is accepted and the
\* retired one no longer is (access.rs:36-39, 329-332).
RotationIsPickedUp ==
  Serving /\ refresher # Gone /\ up > TTL + 2 * FETCH =>
    \A kid \in Kids :
      /\ status[kid] = "published" /\ age[kid] > TTL + 2 * FETCH =>
           principal(kid, "no") = "known"
      /\ status[kid] = "retired" /\ age[kid] > TTL + 2 * FETCH =>
           principal(kid, "no") # "known"

\* Once the endpoint answers again, the key set is current after the retry
\* interval and the time two fetches take, not after a TTL, even when nothing
\* could be fetched before (access.rs:36-39, 363-368).
RecoversAtTheRetryRate ==
  Serving /\ refresher # Gone /\ up > RETRY + 2 * FETCH => usable_within(TTL + FETCH + 1)

\* Once the endpoint stays healthy, the set that is held becomes current again
\* and again: the refresher never gets stuck.
KeysStayFresh ==
  (<>[](up # Down /\ Serving /\ refresher # Gone)) => []<>(held.age = 0)
=============================================================================
