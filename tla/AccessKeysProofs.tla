--------------------------- MODULE AccessKeysProofs ---------------------------
(***************************************************************************)
(* Proofs about the server's key set, for any keys and any times.          *)
(***************************************************************************)
EXTENDS AccessKeys, TLAPS

(***************************************************************************)
(* The published keys: what a fetched key set still says of them while     *)
(* time passes and the team rotates them, and what they keep meanwhile.    *)
(* The same facts serve the proofs about the Worker, in WorkerKeysProofs.  *)
(***************************************************************************)
\* A key set that was what the team published no longer than n ago: a key in it
\* has been retired for no longer, and one that is missing was published later.
Recent(keys, n, state, years) ==
  \A kid \in Kids :
    /\ kid \in keys /\ state[kid] = "retired" => years[kid] <= n
    /\ kid \notin keys /\ state[kid] = "published" => years[kid] <= n

PublisherInv == PublisherTypeOK /\ Published # {}

\* What is published right now is recent.
LEMMA PublishedIsRecent == Recent(Published, 0, status, age)
BY DEF Recent, Published

\* A recent set stays one for a longer time.
LEMMA RecentForLonger ==
  ASSUME NEW keys, NEW n \in Nat, NEW m \in Nat, n <= m, PublisherTypeOK, Horizon \in Nat,
         Recent(keys, n, status, age)
  PROVE  Recent(keys, m, status, age)
<1>1. \A kid \in Kids : age[kid] \in Nat
  BY DEF PublisherTypeOK
<1>2. \A kid \in Kids : age[kid] <= n => age[kid] <= m
  BY <1>1
<1>3. QED
  BY <1>2 DEF Recent

\* Any set is recent beyond the horizon.
LEMMA RecentBeyondHorizon ==
  ASSUME NEW keys, NEW n \in Nat, NEW state, NEW years \in [Kids -> 0 .. Horizon],
         Horizon \in Nat, Horizon <= n
  PROVE  Recent(keys, n, state, years)
BY DEF Recent

\* A rotation starts a key's age again, so that no set stops being recent.
LEMMA RecentAfterRotate ==
  ASSUME NEW keys, NEW n \in Nat, Horizon \in Nat, PublisherTypeOK, Rotate,
         Recent(keys, n, status, age)
  PROVE  Recent(keys, n, status', age')
<1>1. PICK kid \in Kids :
        /\ age' = [age EXCEPT ![kid] = 0]
        /\ status' = [status EXCEPT ![kid] = "published"]
             \/ status' = [status EXCEPT ![kid] = "retired"]
  BY DEF Rotate
<1>2. ASSUME NEW k \in Kids, k # kid PROVE status'[k] = status[k] /\ age'[k] = age[k]
  BY <1>1, <1>2 DEF PublisherTypeOK
<1>3. age'[kid] = 0
  BY <1>1 DEF PublisherTypeOK
<1>4. QED
  BY <1>2, <1>3 DEF Recent

\* A tick makes it one tick less recent.
LEMMA RecentAfterTick ==
  ASSUME NEW keys, NEW n \in Nat, Horizon \in Nat, PublisherTypeOK, PublisherTick,
         Recent(keys, n, status, age)
  PROVE  Recent(keys, n + 1, status', age')
BY DEF Recent, PublisherTypeOK, PublisherTick, Later

\* The publisher starts with its types and with a key.
LEMMA PublisherStarts ==
  ASSUME PublisherInit, Horizon \in Nat, UpHorizon \in Nat
  PROVE  PublisherInv
BY DEF PublisherInit, PublisherInv, PublisherTypeOK, Down

\* It keeps its types, and a key, whatever it does.
LEMMA PublisherGoesOn ==
  ASSUME PublisherInv, Horizon \in Nat, UpHorizon \in Nat,
         Rotate \/ EndpointChanges \/ PublisherTick
  PROVE  PublisherInv'
<1>1. CASE Rotate
  <2>1. PICK kid \in Kids :
          /\ \/ status[kid] = "future" /\ status' = [status EXCEPT ![kid] = "published"]
             \/ /\ status[kid] = "published" /\ Published # {kid}
                /\ status' = [status EXCEPT ![kid] = "retired"]
          /\ age' = [age EXCEPT ![kid] = 0]
          /\ up' = up
    BY <1>1 DEF Rotate
  <2>2. PublisherTypeOK'
    BY <2>1 DEF PublisherInv, PublisherTypeOK
  <2>3. Published' # {}
    <3>1. CASE status[kid] = "future"
      BY <2>1, <3>1 DEF PublisherInv, PublisherTypeOK, Published
    <3>2. CASE status[kid] = "published"
      <4>1. PICK k \in Published : k # kid
        BY <2>1, <3>2 DEF PublisherInv, Published
      <4>2. status'[k] = "published"
        BY <2>1, <4>1 DEF PublisherInv, PublisherTypeOK, Published
      <4>3. QED
        BY <4>1, <4>2 DEF Published
    <3>3. QED
      BY <2>1, <3>1, <3>2
  <2>4. QED
    BY <2>2, <2>3 DEF PublisherInv
<1>2. CASE EndpointChanges
  BY <1>2 DEF EndpointChanges, PublisherInv, PublisherTypeOK, Published, Down
<1>3. CASE PublisherTick
  <2>1. PublisherTypeOK'
    BY <1>3 DEF PublisherTick, PublisherInv, PublisherTypeOK, Later, Down
  <2>2. Published' = Published
    BY <1>3 DEF PublisherTick, Published
  <2>3. QED
    BY <2>1, <2>2 DEF PublisherInv
<1>4. QED
  BY <1>1, <1>2, <1>3

(***************************************************************************)
(* The inductive invariant.                                                *)
(***************************************************************************)
\* A usable answer is as old as the fetch at most.
AnswerInv ==
  refresher.mode = "fetching" /\ refresher.answer.keys # {} =>
    Recent(refresher.answer.keys, refresher.spent, status, age)

\* The published set is older than its age by a fetch at most.
HeldInv ==
  /\ held.age = delivered
  /\ held.age # Never => Recent(held.keys, held.age + FETCH, status, age)

\* The endpoint has answered, but with nothing usable.
Refused == refresher.answer # Waiting /\ refresher.answer.keys = {}

\* The time until the next usable answer is published, if the endpoint answers
\* every fetch that is still to be answered.
Due ==
  IF refresher.mode = "sleeping" THEN refresher.left + FETCH
  ELSE (FETCH - refresher.spent) + (IF Refused THEN RETRY + FETCH ELSE 0)

UpFor == IF up = Down THEN 0 ELSE up

\* The refresher is in time for the set it holds, or has been retrying since the
\* endpoint came back; only the fetch at startup has no earlier one to be late by.
DueInv ==
  refresher # Gone =>
    \/ held.age # Never /\ held.age + Due <= TTL + FETCH
    \/ UpFor + Due <= RETRY + 2 * FETCH
    \/ verifier = "building" /\ refresher.mode = "fetching" /\ ~Refused

AccessInv == TypeOK /\ PublisherInv /\ AnswerInv /\ HeldInv /\ DueInv

(***************************************************************************)
(* Types.                                                                  *)
(***************************************************************************)
LEMMA AnswerType ==
  ASSUME NEW answer \in Answers
  PROVE  answer.keys \in SUBSET Kids /\ (answer = Waiting => answer.keys = {})
BY DEF Answers, Waiting, Failed, Document

\* What the refresher's state is made of, by its mode.
LEMMA RefresherType ==
  ASSUME TypeOK
  PROVE  /\ refresher.mode \in {"sleeping", "fetching", "gone"}
         /\ refresher.mode = "sleeping" =>
              refresher = Sleeping(refresher.left) /\ refresher.left \in 0 .. TTL
         /\ refresher.mode = "fetching" =>
              /\ refresher = Fetching(refresher.spent, refresher.answer)
              /\ refresher.spent \in 0 .. FETCH /\ refresher.answer \in Answers
         /\ refresher.mode = "gone" <=> refresher = Gone
<1>1. CASE refresher = Gone
  BY <1>1 DEF Gone
<1>2. CASE \E n \in 0 .. TTL : refresher = Sleeping(n)
  BY <1>2 DEF Sleeping, Gone
<1>3. CASE \E n \in 0 .. FETCH, a \in Answers : refresher = Fetching(n, a)
  BY <1>3 DEF Fetching, Gone
<1>4. QED
  BY <1>1, <1>2, <1>3 DEF TypeOK

\* A sleep and a fetch are states of the refresher, told apart by their mode.
LEMMA RefresherStates ==
  /\ \A n : Sleeping(n).mode = "sleeping" /\ Sleeping(n).left = n /\ Sleeping(n) # Gone
  /\ \A n, a : /\ Fetching(n, a).mode = "fetching" /\ Fetching(n, a).spent = n
               /\ Fetching(n, a).answer = a /\ Fetching(n, a) # Gone
  /\ Gone.mode = "gone"
BY DEF Sleeping, Fetching, Gone

\* The two times in the invariant are natural numbers.
LEMMA DueType ==
  ASSUME TypeOK, refresher # Gone
  PROVE  Due \in Nat /\ UpFor \in Nat
<1>1. UpFor \in Nat
  BY RateAssumption DEF UpFor, TypeOK, PublisherTypeOK, Down
<1>2. CASE refresher.mode = "sleeping"
  <2>1. refresher.left \in 0 .. TTL
    BY <1>2, RefresherType
  <2>2. QED
    BY <1>1, <1>2, <2>1, RateAssumption DEF Due
<1>3. CASE refresher.mode = "fetching"
  <2>1. FETCH - refresher.spent \in Nat
    BY <1>3, RefresherType, RateAssumption
  <2>2. RETRY + FETCH \in Nat
    BY RateAssumption
  <2>3. QED
    <3>1. Due = (FETCH - refresher.spent) + (IF Refused THEN RETRY + FETCH ELSE 0)
      BY <1>3 DEF Due
    <3>2. QED
      BY <1>1, <2>1, <2>2, <3>1
<1>4. QED
  BY <1>1, <1>2, <1>3, RefresherType

\* A sum stays within its limit when neither part grows.
LEMMA InTime ==
  ASSUME NEW a \in Nat, NEW b \in Nat, NEW c \in Nat, NEW d \in Nat,
         c <= a, d <= b, a + b <= RETRY + 2 * FETCH
  PROVE  c + d <= RETRY + 2 * FETCH
BY RateAssumption

LEMMA AccessStarts == Init => AccessInv
<1> SUFFICES ASSUME Init PROVE AccessInv
  OBVIOUS
<1>1. PublisherInv
  BY PublisherStarts, RateAssumption DEF Init
<1>2. refresher.mode = "fetching" /\ refresher.answer = Waiting /\ refresher # Gone
  BY RefresherStates DEF Init
<1>3. refresher \in {Fetching(n, a) : n \in 0 .. FETCH, a \in Answers}
  BY RateAssumption DEF Init, Answers
<1>4. TypeOK
  BY <1>1, <1>3 DEF Init, TypeOK, PublisherInv
<1>5. AnswerInv /\ HeldInv
  BY <1>2 DEF Init, AnswerInv, HeldInv, Waiting
<1>6. DueInv
  BY <1>2 DEF Init, DueInv, Refused
<1>7. QED
  BY <1>1, <1>4, <1>5, <1>6 DEF AccessInv

(***************************************************************************)
(* The steps of the refresher.                                             *)
(***************************************************************************)
LEMMA RespondKeeps ==
  ASSUME AccessInv, Respond
  PROVE  AccessInv'
<1>1. PICK answer \in IF up = Down THEN {Failed, Document({})} ELSE {Document(Published)} :
        refresher' = Fetching(refresher.spent, answer)
  BY DEF Respond
<1>2. /\ refresher.mode = "fetching" /\ refresher.answer = Waiting
      /\ UNCHANGED <<status, age, up, verifier, held, delivered>>
  BY DEF Respond, publisher
<1>3. refresher.spent \in 0 .. FETCH /\ refresher # Gone
  BY <1>2, RefresherType, RefresherStates DEF AccessInv
<1>4. /\ refresher'.mode = "fetching" /\ refresher'.spent = refresher.spent
      /\ refresher'.answer = answer /\ refresher' # Gone
  BY <1>1, RefresherStates
<1>5. answer \in Answers /\ answer # Waiting
  <2>1. Published \in SUBSET Kids /\ {} \in SUBSET Kids
    BY DEF Published
  <2>2. QED
    BY <1>1, <2>1 DEF Answers, Waiting, Failed, Document
<1>6. up = Down => answer.keys = {}
  BY <1>1 DEF Failed, Document
<1>7. up # Down => answer.keys = Published
  BY <1>1 DEF Document
<1>8. TypeOK' /\ PublisherInv'
  BY <1>1, <1>2, <1>3, <1>5 DEF AccessInv, TypeOK, PublisherInv, PublisherTypeOK, Published
<1>9. AnswerInv'
  <2>1. SUFFICES ASSUME answer.keys # {}
                 PROVE  Recent(answer.keys, refresher.spent, status, age)
    BY <1>2, <1>4 DEF AnswerInv
  <2>2. answer.keys = Published
    BY <1>6, <1>7, <2>1
  <2>3. QED
    BY <1>3, <2>2, PublishedIsRecent, RecentForLonger, RateAssumption DEF AccessInv, TypeOK
<1>10. HeldInv'
  BY <1>2 DEF AccessInv, HeldInv
<1>11. DueInv'
  <2>1. ~Refused
    BY <1>2 DEF Refused
  <2>2. Due = FETCH - refresher.spent
    BY <1>2, <2>1, <1>3, RateAssumption DEF Due
  <2>3. CASE up = Down
    <3>1. Refused' /\ UpFor' = 0
      BY <1>2, <1>4, <1>5, <1>6, <2>3 DEF Refused, UpFor
    <3>2. Due' = (FETCH - refresher.spent) + (RETRY + FETCH)
      BY <1>4, <3>1 DEF Due
    <3>3. UpFor' + Due' <= RETRY + 2 * FETCH
      BY <1>3, <3>1, <3>2, RateAssumption
    <3>4. QED
      BY <3>3 DEF DueInv
  <2>4. CASE up # Down
    <3>1. answer.keys # {}
      BY <1>7, <2>4 DEF AccessInv, PublisherInv
    <3>2. ~Refused'
      BY <1>4, <3>1 DEF Refused
    <3>3. Due' = Due /\ UpFor' = UpFor
      BY <1>2, <1>3, <1>4, <2>2, <3>2, RateAssumption DEF Due, UpFor
    <3>4. QED
      BY <1>2, <1>3, <1>4, <3>2, <3>3 DEF AccessInv, DueInv
  <2>5. QED
    BY <2>3, <2>4
<1>12. QED
  BY <1>8, <1>9, <1>10, <1>11 DEF AccessInv

LEMMA PublishKeeps ==
  ASSUME AccessInv, Publish
  PROVE  AccessInv'
<1> DEFINE answer == refresher.answer
           healthy == answer.keys # {}
<1>1. /\ refresher.mode = "fetching" /\ answer # Waiting
      /\ held' = publish(answer)
      /\ delivered' = IF healthy THEN 0 ELSE delivered
      /\ refresher' = Sleeping(Pause(healthy)) \/ refresher' = Gone
      /\ verifier' = IF verifier = "building" THEN "serving" ELSE verifier
      /\ UNCHANGED <<status, age, up>>
  BY DEF Publish, publisher
<1>2. answer \in Answers /\ refresher.spent \in 0 .. FETCH /\ refresher # Gone
  BY <1>1, RefresherType, RefresherStates DEF AccessInv
<1>3. answer.keys \in SUBSET Kids
  BY <1>2, AnswerType
<1>4. Pause(healthy) \in 0 .. TTL
  BY RateAssumption DEF Pause
<1>5. healthy => held'.keys = answer.keys /\ held'.age = 0
  BY <1>1 DEF publish
<1>6. ~healthy => held' = held
  BY <1>1 DEF publish
<1>7. TypeOK' /\ PublisherInv'
  <2>1. /\ held' \in [keys : SUBSET Kids, age : {Never} \cup 0 .. Horizon]
        /\ held'.keys = {} <=> held'.age = Never
        /\ delivered' \in {Never} \cup 0 .. Horizon
    BY <1>1, <1>3, RateAssumption DEF publish, AccessInv, TypeOK, Never
  <2>2. refresher' \in {Gone} \cup {Sleeping(n) : n \in 0 .. TTL}
    BY <1>1, <1>4
  <2>3. verifier' \in {"building", "serving", "dropped"}
    BY <1>1 DEF AccessInv, TypeOK
  <2>4. QED
    BY <1>1, <2>1, <2>2, <2>3 DEF AccessInv, TypeOK, PublisherInv, PublisherTypeOK, Published
<1>8. AnswerInv'
  BY <1>1, RefresherStates DEF AnswerInv
<1>9. HeldInv'
  <2>1. CASE healthy
    <3>1. Recent(answer.keys, refresher.spent, status, age)
      BY <1>1, <2>1 DEF AccessInv, AnswerInv
    <3>2. Recent(answer.keys, 0 + FETCH, status, age)
      BY <1>2, <3>1, RecentForLonger, RateAssumption DEF AccessInv, TypeOK
    <3>3. QED
      BY <1>1, <1>5, <2>1, <3>2 DEF HeldInv
  <2>2. CASE ~healthy
    BY <1>1, <1>6, <2>2 DEF AccessInv, HeldInv
  <2>3. QED
    BY <2>1, <2>2
<1>10. DueInv'
  <2>1. SUFFICES ASSUME refresher' # Gone
                 PROVE  \/ held'.age # Never /\ held'.age + Due' <= TTL + FETCH
                        \/ UpFor' + Due' <= RETRY + 2 * FETCH
    BY DEF DueInv
  <2>2. Due' = Pause(healthy) + FETCH
    BY <1>1, <2>1, RefresherStates DEF Due
  <2>3. CASE healthy
    BY <1>5, <2>2, <2>3, RateAssumption DEF Pause, Never
  <2>4. CASE ~healthy
    <3>1. Refused
      BY <1>1, <2>4 DEF Refused
    <3>2. Due = (FETCH - refresher.spent) + (RETRY + FETCH) /\ Due' = RETRY + FETCH
      BY <1>1, <2>2, <2>4, <3>1 DEF Due, Pause
    <3>3. Due' <= Due /\ Due \in Nat /\ Due' \in Nat
      BY <1>2, <3>2, RateAssumption
    <3>4. UpFor' = UpFor /\ UpFor \in Nat
      BY <1>1, <1>2, DueType DEF UpFor, AccessInv
    <3>5. \/ held.age # Never /\ held.age + Due <= TTL + FETCH
          \/ UpFor + Due <= RETRY + 2 * FETCH
      BY <1>2, <3>1 DEF AccessInv, DueInv
    <3>6. held.age # Never => held.age \in Nat
      BY RateAssumption DEF AccessInv, TypeOK
    <3>7. QED
      <4>1. CASE held.age # Never /\ held.age + Due <= TTL + FETCH
        BY <1>6, <2>4, <3>3, <3>6, <4>1, RateAssumption
      <4>2. CASE UpFor + Due <= RETRY + 2 * FETCH
        BY <3>3, <3>4, <4>2, InTime
      <4>3. QED
        BY <3>5, <4>1, <4>2
  <2>5. QED
    BY <2>3, <2>4
<1>11. QED
  BY <1>7, <1>8, <1>9, <1>10 DEF AccessInv

LEMMA WakeKeeps ==
  ASSUME AccessInv, Wake
  PROVE  AccessInv'
<1>1. /\ refresher.mode = "sleeping" /\ refresher.left = 0
      /\ refresher' = Gone \/ refresher' = Fetching(0, Waiting)
      /\ UNCHANGED <<status, age, up, verifier, held, delivered>>
  BY DEF Wake, publisher
<1>2. refresher # Gone
  BY <1>1, RefresherStates
<1>3. TypeOK' /\ PublisherInv'
  <2>1. refresher' \in {Gone} \cup {Fetching(n, a) : n \in 0 .. FETCH, a \in Answers}
    BY <1>1, RateAssumption DEF Answers
  <2>2. QED
    BY <1>1, <2>1 DEF AccessInv, TypeOK, PublisherInv, PublisherTypeOK, Published
<1>4. AnswerInv' /\ HeldInv'
  BY <1>1, RefresherStates DEF AccessInv, AnswerInv, HeldInv, Waiting
<1>5. DueInv'
  <2>1. SUFFICES ASSUME refresher' # Gone
                 PROVE  \/ held'.age # Never /\ held'.age + Due' <= TTL + FETCH
                        \/ UpFor' + Due' <= RETRY + 2 * FETCH
    BY DEF DueInv
  <2>2. refresher' = Fetching(0, Waiting)
    BY <1>1, <2>1
  <2>3. ~Refused'
    BY <2>2, RefresherStates DEF Refused
  <2>4. Due' = (FETCH - 0) + 0 /\ Due = 0 + FETCH
    BY <1>1, <2>2, <2>3, RefresherStates DEF Due
  <2>5. Due' = Due /\ UpFor' = UpFor
    BY <1>1, <2>4, RateAssumption DEF UpFor
  <2>6. QED
    BY <1>1, <1>2, <2>5 DEF AccessInv, DueInv
<1>6. QED
  BY <1>3, <1>4, <1>5 DEF AccessInv

LEMMA DropKeeps ==
  ASSUME AccessInv, Drop
  PROVE  AccessInv'
BY DEF Drop, publisher, AccessInv, TypeOK, PublisherInv, PublisherTypeOK, Published,
  AnswerInv, HeldInv, DueInv, Due, Refused, UpFor

(***************************************************************************)
(* The steps of the team and of the clock.                                 *)
(***************************************************************************)
LEMMA PublisherKeeps ==
  ASSUME AccessInv, Rotate \/ EndpointChanges,
         UNCHANGED <<verifier, held, refresher, delivered>>
  PROVE  AccessInv'
<1>1. PublisherInv'
  BY PublisherGoesOn, RateAssumption DEF AccessInv
<1>2. ASSUME NEW keys, NEW n \in Nat, Recent(keys, n, status, age)
      PROVE  Recent(keys, n, status', age')
  BY <1>2, RecentAfterRotate, RateAssumption DEF AccessInv, TypeOK, EndpointChanges
<1>3. TypeOK'
  BY <1>1 DEF AccessInv, TypeOK, PublisherInv
<1>4. AnswerInv'
  <2>1. refresher.mode = "fetching" => refresher.spent \in Nat
    BY RefresherType, RateAssumption DEF AccessInv
  <2>2. QED
    BY <1>2, <2>1 DEF AccessInv, AnswerInv
<1>5. HeldInv'
  <2>1. held.age # Never => held.age + FETCH \in Nat
    BY RateAssumption DEF AccessInv, TypeOK
  <2>2. QED
    BY <1>2, <2>1 DEF AccessInv, HeldInv
<1>6. DueInv'
  <2>1. SUFFICES ASSUME refresher # Gone PROVE DueInv'
    BY DEF DueInv
  <2>2. Due' = Due /\ (Refused' <=> Refused)
    BY DEF Due, Refused
  <2>3. UpFor' <= UpFor /\ UpFor' \in Nat /\ UpFor \in Nat /\ Due \in Nat
    <3>1. UpFor \in Nat /\ Due \in Nat
      BY <2>1, DueType DEF AccessInv
    <3>2. CASE Rotate
      BY <3>1, <3>2 DEF Rotate, UpFor
    <3>3. CASE EndpointChanges
      <4>1. UpFor' = 0
        BY <3>3 DEF EndpointChanges, UpFor, Down
      <4>2. QED
        BY <3>1, <4>1
    <3>4. QED
      BY <3>1, <3>2, <3>3
  <2>4. UpFor + Due <= RETRY + 2 * FETCH => UpFor' + Due' <= RETRY + 2 * FETCH
    BY <2>2, <2>3, InTime
  <2>5. QED
    BY <2>1, <2>2, <2>4 DEF AccessInv, DueInv
<1>7. QED
  BY <1>1, <1>3, <1>4, <1>5, <1>6 DEF AccessInv

LEMMA TickKeeps ==
  ASSUME AccessInv, Tick
  PROVE  AccessInv'
<1>1. PublisherInv'
  BY PublisherGoesOn, RateAssumption DEF AccessInv, Tick
<1>2. ASSUME NEW keys, NEW n \in Nat, Recent(keys, n, status, age)
      PROVE  Recent(keys, n + 1, status', age')
  BY <1>2, RecentAfterTick, RateAssumption DEF AccessInv, TypeOK, Tick
<1>3. /\ held' = [held EXCEPT !.age = Aged(held.age)]
      /\ delivered' = Aged(delivered) /\ verifier' = verifier
  BY DEF Tick
<1>4. /\ held \in [keys : SUBSET Kids, age : {Never} \cup 0 .. Horizon]
      /\ delivered \in {Never} \cup 0 .. Horizon
      /\ held.keys = {} <=> held.age = Never
  BY DEF AccessInv, TypeOK
<1>5. held'.keys = held.keys /\ held'.age = Aged(held.age)
  BY <1>3, <1>4
<1>6. ASSUME NEW n \in {Never} \cup 0 .. Horizon
      PROVE  /\ Aged(n) \in {Never} \cup 0 .. Horizon
             /\ Aged(n) = Never <=> n = Never
             /\ n # Never /\ n < Horizon => Aged(n) = n + 1
             /\ n = Horizon => Aged(n) = Horizon
             /\ n # Never => Aged(n) <= n + 1
  BY RateAssumption DEF Aged, Never, Later
<1>7. /\ refresher' \in {Gone} \cup {Sleeping(n) : n \in 0 .. TTL}
           \cup {Fetching(n, a) : n \in 0 .. FETCH, a \in Answers}
      /\ AnswerInv'
      /\ refresher' # Gone =>
           /\ refresher # Gone /\ Due' = Due - 1
           /\ refresher.mode = "fetching" /\ ~Refused =>
                refresher'.mode = "fetching" /\ ~Refused'
  <2>1. CASE refresher.mode = "sleeping"
    <3>1. refresher.left \in 0 .. TTL /\ refresher.left > 0 /\ refresher # Gone
      BY <2>1, RefresherType DEF AccessInv, Tick
    <3>2. refresher' = Sleeping(refresher.left - 1)
      BY <2>1 DEF Tick
    <3>3. /\ refresher' \in {Sleeping(n) : n \in 0 .. TTL}
          /\ refresher'.mode = "sleeping" /\ refresher'.left = refresher.left - 1
      BY <3>1, <3>2, RefresherStates, RateAssumption
    <3>4. AnswerInv'
      BY <3>3 DEF AnswerInv
    <3>5. Due' = Due - 1
      BY <2>1, <3>1, <3>3, RateAssumption DEF Due
    <3>6. QED
      BY <2>1, <3>1, <3>3, <3>4, <3>5
  <2>2. CASE refresher.mode = "fetching"
    <3>1. /\ refresher.spent \in 0 .. FETCH /\ refresher.spent < FETCH
          /\ refresher.answer \in Answers /\ refresher # Gone
      BY <2>2, RefresherType DEF AccessInv, Tick
    <3>2. refresher' = Fetching(refresher.spent + 1, refresher.answer)
      BY <2>2 DEF Tick
    <3>3. /\ refresher'.mode = "fetching" /\ refresher'.spent = refresher.spent + 1
          /\ refresher'.answer = refresher.answer
      BY <3>2, RefresherStates
    <3>4. refresher.spent \in Nat /\ refresher.spent + 1 \in 0 .. FETCH
      BY <3>1, RateAssumption
    <3>5. refresher' \in {Fetching(n, a) : n \in 0 .. FETCH, a \in Answers}
      BY <3>1, <3>2, <3>4
    <3>6. AnswerInv'
      BY <1>2, <2>2, <3>3, <3>4 DEF AccessInv, AnswerInv
    <3>7. Refused' <=> Refused
      BY <3>3 DEF Refused
    <3>8. Due' = Due - 1
      <4>1. RETRY + FETCH \in Nat
        BY RateAssumption
      <4>2. Due = (FETCH - refresher.spent) + (IF Refused THEN RETRY + FETCH ELSE 0)
        BY <2>2 DEF Due
      <4>3. Due' = (FETCH - (refresher.spent + 1)) + (IF Refused THEN RETRY + FETCH ELSE 0)
        BY <3>3, <3>7 DEF Due
      <4>4. QED
        BY <3>4, <4>1, <4>2, <4>3, RateAssumption
    <3>9. QED
      BY <2>2, <3>1, <3>3, <3>5, <3>6, <3>7, <3>8
  <2>3. CASE refresher.mode = "gone"
    <3>1. refresher' = Gone
      BY <2>3, RefresherStates DEF Tick
    <3>2. QED
      BY <3>1, RefresherStates DEF AnswerInv
  <2>4. QED
    BY <2>1, <2>2, <2>3, RefresherType DEF AccessInv
<1>8. TypeOK'
  <2>1. held' \in [keys : SUBSET Kids, age : {Never} \cup 0 .. Horizon]
    BY <1>3, <1>4, <1>6
  <2>2. /\ held'.keys = {} <=> held'.age = Never
        /\ delivered' \in {Never} \cup 0 .. Horizon
    <3>1. held.age \in {Never} \cup 0 .. Horizon
      BY <1>4
    <3>2. held'.age = Never <=> held.age = Never
      BY <1>5, <1>6, <3>1
    <3>3. Aged(delivered) \in {Never} \cup 0 .. Horizon
      BY <1>4, <1>6
    <3>4. QED
      BY <1>3, <1>4, <1>5, <3>2, <3>3
  <2>3. verifier' \in {"building", "serving", "dropped"}
    BY <1>3 DEF AccessInv, TypeOK
  <2>4. QED
    BY <1>1, <1>7, <2>1, <2>2, <2>3 DEF TypeOK, PublisherInv
<1>9. HeldInv'
  <2>1. held'.age = delivered'
    BY <1>3, <1>5 DEF AccessInv, HeldInv
  <2>2. SUFFICES ASSUME held'.age # Never
                 PROVE  Recent(held'.keys, held'.age + FETCH, status', age')
    BY <2>1 DEF HeldInv
  <2>3. held.age # Never /\ held.age \in 0 .. Horizon
    BY <1>4, <1>5, <1>6, <2>2
  <2>4. CASE held.age < Horizon
    <3>1. Recent(held.keys, held.age + FETCH, status, age)
      BY <2>3 DEF AccessInv, HeldInv
    <3>2. held.age + FETCH \in Nat /\ held'.age + FETCH = (held.age + FETCH) + 1
      BY <1>5, <1>6, <2>3, <2>4, RateAssumption
    <3>3. QED
      BY <1>2, <1>5, <3>1, <3>2
  <2>5. CASE held.age = Horizon
    <3>1. held'.age = Horizon /\ Horizon + FETCH \in Nat /\ Horizon <= Horizon + FETCH
      BY <1>5, <1>6, <2>3, <2>5, RateAssumption
    <3>2. age' \in [Kids -> 0 .. Horizon]
      BY <1>1 DEF PublisherInv, PublisherTypeOK
    <3>3. QED
      BY <3>1, <3>2, RecentBeyondHorizon, RateAssumption
  <2>6. QED
    BY <2>3, <2>4, <2>5, RateAssumption
<1>10. DueInv'
  <2>1. SUFFICES ASSUME refresher' # Gone PROVE DueInv'
    BY DEF DueInv
  <2>2. refresher # Gone /\ Due \in Nat /\ UpFor \in Nat
    BY <1>7, <2>1, DueType DEF AccessInv
  <2>3. Due' = Due - 1
    BY <1>7, <2>1
  <2>4. UpFor' <= UpFor + 1 /\ UpFor' \in Nat
    BY RateAssumption DEF UpFor, Tick, PublisherTick, Later, AccessInv, TypeOK, PublisherTypeOK, Down
  <2>5. CASE held.age # Never /\ held.age + Due <= TTL + FETCH
    <3>1. held.age \in Nat /\ held'.age # Never /\ held'.age \in Nat /\ held'.age <= held.age + 1
      BY <1>4, <1>5, <1>6, <2>5, RateAssumption DEF Never
    <3>2. held'.age + Due' <= TTL + FETCH
      BY <2>2, <2>3, <2>5, <3>1, RateAssumption
    <3>3. QED
      BY <3>1, <3>2 DEF DueInv
  <2>6. CASE UpFor + Due <= RETRY + 2 * FETCH
    <3>1. \A u, v, d \in Nat : v <= u + 1 /\ u + d <= RETRY + 2 * FETCH =>
            v + (d - 1) <= RETRY + 2 * FETCH
      BY RateAssumption
    <3>2. UpFor' + Due' <= RETRY + 2 * FETCH
      BY <2>2, <2>3, <2>4, <2>6, <3>1
    <3>3. QED
      BY <3>2 DEF DueInv
  <2>7. CASE verifier = "building" /\ refresher.mode = "fetching" /\ ~Refused
    BY <1>3, <1>7, <2>1, <2>7 DEF DueInv
  <2>8. QED
    BY <2>2, <2>5, <2>6, <2>7 DEF AccessInv, DueInv
<1>11. QED
  BY <1>1, <1>7, <1>8, <1>9, <1>10 DEF AccessInv

(***************************************************************************)
(* Theorems.                                                               *)
(***************************************************************************)
\* The inductive invariant holds in every reachable state.
THEOREM AccessInvariant == Spec => []AccessInv
<1>1. Init => AccessInv
  BY AccessStarts
<1>2. AccessInv /\ [Next]_vars => AccessInv'
  <2> SUFFICES ASSUME AccessInv, [Next]_vars PROVE AccessInv'
    OBVIOUS
  <2>1. CASE Respond
    BY <2>1, RespondKeeps
  <2>2. CASE Publish
    BY <2>2, PublishKeeps
  <2>3. CASE Wake
    BY <2>3, WakeKeeps
  <2>4. CASE Drop
    BY <2>4, DropKeeps
  <2>5. CASE Tick
    BY <2>5, TickKeeps
  <2>6. CASE (Rotate \/ EndpointChanges) /\ UNCHANGED <<verifier, held, refresher, delivered>>
    BY <2>6, PublisherKeeps
  <2>7. CASE UNCHANGED vars
    BY <2>7 DEF vars, publisher, AccessInv, TypeOK, PublisherInv, PublisherTypeOK, Published,
      AnswerInv, HeldInv, DueInv, Due, Refused, UpFor
  <2>8. QED
    BY <2>1, <2>2, <2>3, <2>4, <2>5, <2>6, <2>7 DEF Next
<1>3. QED
  BY <1>1, <1>2, PTL DEF Spec

\* Every variable keeps its type.
THEOREM AccessTypeCorrect == Spec => []TypeOK
<1>1. AccessInv => TypeOK
  BY DEF AccessInv
<1>2. QED
  BY <1>1, AccessInvariant, PTL

\* What the request path answers, by the key set that is held.
LEMMA Answered ==
  ASSUME NEW kid
  PROVE  /\ principal(kid, "no") = "known" <=>
              held.age # Never /\ held.age < TTL + GRACE /\ kid \in held.keys
         /\ principal(kid, "no") = "none" =>
              /\ held.age # Never /\ held.age < TTL
              /\ ~(held.age < TTL + GRACE /\ kid \in held.keys)
BY DEF principal, key, usable_within

\* What the key set that is held says of a key.
LEMMA HeldKey ==
  ASSUME AccessInv, NEW kid \in Kids, held.age # Never
  PROVE  /\ held.age \in Nat /\ age[kid] \in Nat
         /\ status[kid] = "retired" /\ kid \in held.keys => age[kid] <= held.age + FETCH
         /\ status[kid] = "published" /\ kid \notin held.keys => age[kid] <= held.age + FETCH
<1>1. held.age \in Nat /\ age[kid] \in Nat
  BY RateAssumption DEF AccessInv, TypeOK, PublisherTypeOK
<1>2. Recent(held.keys, held.age + FETCH, status, age)
  BY DEF AccessInv, HeldInv
<1>3. QED
  BY <1>1, <1>2 DEF Recent

\* A retired key is no longer accepted once the grace has run out, whatever the
\* endpoint answers and with no refresher at all (access.rs:44-46).
THEOREM RetiredKeysTheorem == Spec => []RetiredKeysRunOut
<1>1. AccessInv => RetiredKeysRunOut
  <2> SUFFICES ASSUME AccessInv, NEW kid \in Kids, status[kid] = "retired",
                      age[kid] >= TTL + GRACE + FETCH, principal(kid, "no") = "known"
               PROVE  FALSE
    BY DEF RetiredKeysRunOut
  <2>1. held.age # Never /\ held.age < TTL + GRACE /\ kid \in held.keys
    BY Answered
  <2>2. held.age \in Nat /\ age[kid] \in Nat /\ age[kid] <= held.age + FETCH
    BY <2>1, HeldKey
  <2>3. QED
    BY <2>1, <2>2, RateAssumption
<1>2. QED
  BY <1>1, AccessInvariant, PTL

\* A good token whose key has been published for longer than a TTL is accepted or
\* answered "unavailable", never blamed on the caller (access.rs:189-192, 336-345).
THEOREM GoodTokenTheorem == Spec => []GoodTokenIsNotTheCallersFault
<1>1. AccessInv => GoodTokenIsNotTheCallersFault
  <2> SUFFICES ASSUME AccessInv, NEW kid \in Kids, status[kid] = "published",
                      age[kid] >= TTL + FETCH, principal(kid, "no") = "none"
               PROVE  FALSE
    BY DEF GoodTokenIsNotTheCallersFault
  <2>1. /\ held.age # Never /\ held.age < TTL
        /\ ~(held.age < TTL + GRACE /\ kid \in held.keys)
    BY Answered
  <2>2. held.age \in Nat /\ age[kid] \in Nat
        /\ (kid \notin held.keys => age[kid] <= held.age + FETCH)
    BY <2>1, HeldKey
  <2>3. kid \notin held.keys
    BY <2>1, <2>2, RateAssumption
  <2>4. QED
    BY <2>1, <2>2, <2>3, RateAssumption
<1>2. QED
  BY <1>1, AccessInvariant, PTL

\* An outage of the endpoint is none of ours until the grace has run out
\* (access.rs:41-43).
THEOREM OutageTheorem == Spec => []OutageIsNotOurs
<1>1. AccessInv => OutageIsNotOurs
  <2> SUFFICES ASSUME AccessInv, NEW kid \in Kids, status[kid] = "published",
                      delivered # Never, delivered < TTL + GRACE, age[kid] > delivered + FETCH
               PROVE  principal(kid, "no") = "known"
    BY DEF OutageIsNotOurs
  <2>1. held.age = delivered
    BY DEF AccessInv, HeldInv
  <2>2. kid \in held.keys
    BY <2>1, HeldKey, RateAssumption
  <2>3. QED
    BY <2>1, <2>2, Answered
<1>2. QED
  BY <1>1, AccessInvariant, PTL

\* An endpoint that has answered for long enough has been heard.
LEMMA HeardInTime ==
  ASSUME AccessInv, Serving, refresher # Gone, up > RETRY + 2 * FETCH
  PROVE  held.age # Never /\ held.age \in Nat /\ held.age <= TTL + FETCH
<1>1. Due \in Nat /\ UpFor \in Nat
  BY DueType DEF AccessInv
<1>2. up \in Nat /\ UpFor = up
  <2>1. up \in 0 .. UpHorizon \cup {Down}
    BY DEF AccessInv, TypeOK, PublisherTypeOK
  <2>2. up # Down
    BY RateAssumption DEF Down
  <2>3. QED
    BY <2>1, <2>2, RateAssumption DEF UpFor
<1>3. ~(UpFor + Due <= RETRY + 2 * FETCH)
  BY <1>1, <1>2, RateAssumption
<1>4. held.age # Never /\ held.age + Due <= TTL + FETCH
  BY <1>3 DEF AccessInv, DueInv, Serving
<1>5. held.age \in Nat
  BY <1>4, RateAssumption DEF AccessInv, TypeOK
<1>6. QED
  BY <1>1, <1>4, <1>5, RateAssumption

\* Once the endpoint answers again, the set is current after the retry interval
\* and two fetches, not after a TTL (access.rs:36-39, 363-368).
THEOREM RecoveryTheorem == Spec => []RecoversAtTheRetryRate
<1>1. AccessInv => RecoversAtTheRetryRate
  <2> SUFFICES ASSUME AccessInv, Serving, refresher # Gone, up > RETRY + 2 * FETCH
               PROVE  held.age # Never /\ held.age < TTL + FETCH + 1
    BY DEF RecoversAtTheRetryRate, usable_within
  <2>1. QED
    BY HeardInTime, RateAssumption
<1>2. QED
  BY <1>1, AccessInvariant, PTL

\* While the endpoint answers, a rotation is picked up in both directions, when
\* the grace is longer than a fetch (access.rs:36-39, 329-332).
THEOREM RotationTheorem ==
  ASSUME FETCH < GRACE
  PROVE  Spec => []RotationIsPickedUp
<1>1. AccessInv => RotationIsPickedUp
  <2> SUFFICES ASSUME AccessInv, Serving, refresher # Gone,
                      up > TTL + 2 * FETCH, NEW kid \in Kids, age[kid] > TTL + 2 * FETCH
               PROVE  /\ status[kid] = "published" => principal(kid, "no") = "known"
                      /\ status[kid] = "retired" => principal(kid, "no") # "known"
    BY DEF RotationIsPickedUp
  <2>1. up > RETRY + 2 * FETCH
    <3>1. up \in Int
      BY RateAssumption DEF AccessInv, TypeOK, PublisherTypeOK, Down
    <3>2. QED
      BY <3>1, RateAssumption
  <2>2. held.age # Never /\ held.age \in Nat /\ held.age <= TTL + FETCH
    BY <2>1, HeardInTime
  <2>3. held.age < TTL + GRACE
    BY <2>2, RateAssumption
  <2>4. age[kid] \in Nat /\ ~(age[kid] <= held.age + FETCH)
    BY <2>2, HeldKey, RateAssumption
  <2>5. CASE status[kid] = "published"
    BY <2>2, <2>3, <2>4, <2>5, HeldKey, Answered
  <2>6. CASE status[kid] = "retired"
    BY <2>2, <2>4, <2>6, HeldKey, Answered
  <2>7. QED
    BY <2>5, <2>6
<1>2. QED
  BY <1>1, AccessInvariant, PTL
=============================================================================
