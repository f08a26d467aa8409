----------------------------- MODULE KeyPublisher -----------------------------
(***************************************************************************)
(* The Access team's key endpoint, as the two hosts of the service use it  *)
(* (an external service): signing keys are published and retired, and the  *)
(* endpoint is at times out of reach or serves nothing usable.             *)
(***************************************************************************)
EXTENDS Integers

CONSTANTS
  Kids,      \* key ids the team will ever use
  Horizon,   \* where the ages of keys stop counting
  UpHorizon  \* where the time the endpoint has been healthy stops counting

VARIABLES
  status,  \* whether each key is yet to come, published or retired
  age,     \* how long it has been published, or retired
  up       \* how long the endpoint has been healthy, or Down

publisher == <<status, age, up>>

Down == -1

Published == {kid \in Kids : status[kid] = "published"}

PublisherInit ==
  /\ status \in [Kids -> {"future", "published"}]
  /\ Published # {}
  /\ age = [kid \in Kids |-> IF status[kid] = "published" THEN Horizon ELSE 0]
  /\ up \in {Down, UpHorizon}

\* Elapsed time, counted up to a limit.
Later(n, limit) == IF n < limit THEN n + 1 ELSE n

PublisherTick ==
  /\ age' = [kid \in Kids |-> IF status[kid] = "future" THEN 0 ELSE Later(age[kid], Horizon)]
  /\ up' = IF up = Down THEN Down ELSE Later(up, UpHorizon)
  /\ UNCHANGED status

\* A key is published for the first time, or withdrawn for good; the team
\* always has one.
Rotate ==
  \E kid \in Kids :
    /\ \/ status[kid] = "future" /\ status' = [status EXCEPT ![kid] = "published"]
       \/ /\ status[kid] = "published" /\ Published # {kid}
          /\ status' = [status EXCEPT ![kid] = "retired"]
    /\ age' = [age EXCEPT ![kid] = 0]
    /\ UNCHANGED up

EndpointChanges ==
  /\ up' = IF up = Down THEN 0 ELSE Down
  /\ UNCHANGED <<status, age>>

PublisherTypeOK ==
  /\ status \in [Kids -> {"future", "published", "retired"}]
  /\ age \in [Kids -> 0 .. Horizon]
  /\ up \in 0 .. UpHorizon \cup {Down}
=============================================================================
