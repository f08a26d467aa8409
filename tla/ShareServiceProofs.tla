-------------------------- MODULE ShareServiceProofs --------------------------
(***************************************************************************)
(* Proofs about ShareService, for any set of principals, sessions,         *)
(* documents, teams, policies and handlers.                                *)
(***************************************************************************)
EXTENDS ShareService, SequenceTheorems, TLAPS

USE StoreAssumption, CoreAssumption, ServiceAssumption

(***************************************************************************)
(* The team recorded on an object is a sequence, whatever is cut off it.   *)
(***************************************************************************)
LEMMA StoredTeamType ==
  ASSUME NEW doc \in Docs, NEW team \in RecordedTeams
  PROVE  StoredTeam(doc, team) \in Seq(Nat) \cup {NoTeam}
<1> DEFINE room == AttrRoom[doc] - TeamNameBytes
<1>1. room \in Int
  BY DEF TeamNameBytes
<1>2. CASE team = NoTeam \/ room <= 0
  BY <1>2 DEF StoredTeam
<1>3. CASE ~(team = NoTeam \/ room <= 0)
  <2>1. team \in Seq(Nat)
    BY <1>3 DEF RecordedTeams
  <2>2. CASE Len(team) <= room
    BY <1>3, <2>1, <2>2 DEF StoredTeam
  <2>3. CASE ~(Len(team) <= room)
    <3>1. Len(team) \in Nat /\ \A i \in 1 .. room : team[i] \in Nat
      BY <1>1, <2>1, <2>3
    <3>2. SubSeq(team, 1, room) \in Seq(Nat)
      BY <1>1, <3>1, SubSeqProperties
    <3>3. QED
      BY <1>3, <2>3, <3>2 DEF StoredTeam
  <2>4. QED
    BY <2>2, <2>3
<1>4. QED
  BY <1>2, <1>3

\* The key of a request is one of the service's keys (plan.rs decide, KeyOf).
LEMMA KeyOfType ==
  ASSUME NEW request \in Requests
  PROVE  KeyOf(request) \in Keys
BY DEF Requests, PublishRequests, TargetedRequests, KeyOf, Key, Keys

(***************************************************************************)
(* decide() answers with a refusal of a known status or with a plan.       *)
(***************************************************************************)
LEMMA PreconditionType ==
  ASSUME NEW ifMatch \in IfMatches, NEW object \in StoredObjects,
         precondition(ifMatch, Facts(object)) # NotMet
  PROVE  precondition(ifMatch, Facts(object)) \in Preconditions
<1> DEFINE facts == Facts(object)
<1>1. Exists(facts) => facts.version \in Versions
  BY DEF StoredObjects, Facts, Exists, NoVersion, content_version, Versions
<1>2. CASE ifMatch.kind = "none"
  BY <1>2 DEF precondition, Preconditions
<1>3. CASE ifMatch.kind # "none"
  <2>1. precondition(ifMatch, facts) = IfVersion(facts.version) /\ Exists(facts)
    BY <1>3 DEF precondition, Matches
  <2>2. QED
    BY <1>1, <2>1 DEF Preconditions
<1>4. QED
  BY <1>2, <1>3

\* What decide() answers is a rejection the handlers answer with, or a plan of a kind they execute.
LEMMA DecideType ==
  ASSUME NEW pol \in Policies, NEW request \in Requests, NEW object \in StoredObjects
  PROVE  LET plan == decide(pol, request, Facts(object)) IN
         \/ plan.kind = "Reject" /\ plan.status \in {403, 404, 412}
         \/ request \in PublishRequests /\ plan \in WritePlans
         \/ request \in TargetedRequests /\ plan \in {ReadObject, DeleteObject}
<1> DEFINE facts == Facts(object)
           plan  == decide(pol, request, facts)
           pre   == precondition(request.ifMatch, facts)
<1>1. CASE ~Allowed(pol, request, facts)
  BY <1>1 DEF decide, Reject
<1>2. CASE Allowed(pol, request, facts) /\ request.op = "publish"
  <2>1. request \in PublishRequests /\ request.ifMatch \in IfMatches /\ request.who \in Principals
    BY <1>2 DEF Requests, PublishRequests, TargetedRequests
  <2>2. team_of(pol, request.who) \in RecordedTeams
    BY <2>1 DEF team_of, Policies, RecordedTeams
  <2>3. CASE pre = NotMet
    BY <1>2, <2>3 DEF decide, PlanFor, Reject
  <2>4. CASE pre # NotMet
    <3>1. plan = WriteObject(pre, team_of(pol, request.who))
      BY <1>2, <2>4 DEF decide, PlanFor
    <3>2. pre \in Preconditions
      BY <2>1, <2>4, PreconditionType
    <3>3. QED
      BY <2>1, <2>2, <3>1, <3>2 DEF WriteObject, WritePlans
  <2>5. QED
    BY <2>3, <2>4
<1>3. CASE Allowed(pol, request, facts) /\ request.op # "publish"
  BY <1>3 DEF decide, PlanFor, Reject, Requests, PublishRequests
<1>4. QED
  BY <1>1, <1>2, <1>3

(***************************************************************************)
(* What decide() plans is what the inductive invariant asks of a plan.     *)
(***************************************************************************)
LEMMA DecideWrites ==
  ASSUME policy \in Policies, NEW request \in Requests, NEW object \in StoredObjects,
         NEW plan, plan = decide(policy, request, Facts(object))
  PROVE  /\ plan.kind = "WriteObject"  => PlannedWrite(policy, request, plan, Exists(Facts(object)))
         /\ plan.kind = "DeleteObject" => PlannedDelete(policy, request)
<1> DEFINE facts == Facts(object)
           pre   == precondition(request.ifMatch, facts)
<1>1. CASE ~Allowed(policy, request, facts)
  BY <1>1 DEF decide, Reject
<1>2. CASE Allowed(policy, request, facts) /\ request.op = "publish"
  <2>1. policy.rule # "ReadOnlyMirror"
    BY <1>2 DEF Allowed, authorize, MayWrite
  <2>2. CASE pre = NotMet
    BY <1>2, <2>2 DEF decide, PlanFor, Reject
  <2>3. CASE pre # NotMet
    <3>1. plan = WriteObject(pre, team_of(policy, request.who))
      BY <1>2, <2>3 DEF decide, PlanFor
    <3>2. plan.kind = "WriteObject" /\ plan.precondition = pre
      BY <3>1 DEF WriteObject
    <3>3. plan.team \in {NoTeam, policy.member[request.who]}
      BY <3>1 DEF WriteObject, team_of
    <3>4. ~Exists(facts) => pre = IfAbsent
      BY <2>3 DEF precondition, Matches
    <3>5. request.ifMatch.kind # "none" =>
            pre.kind = "IfVersion"
            /\ (request.ifMatch.kind = "tags" => pre.version \in request.ifMatch.tags)
      BY <2>3 DEF precondition, Matches, IfVersion
    <3>6. QED
      BY <1>2, <2>1, <3>2, <3>3, <3>4, <3>5 DEF PlannedWrite
  <2>4. QED
    BY <2>2, <2>3
<1>3. CASE Allowed(policy, request, facts) /\ request.op = "read"
  BY <1>3 DEF decide, PlanFor, Reject, ReadObject
<1>4. CASE Allowed(policy, request, facts) /\ request.op = "delete"
  <2>1. policy.rule # "ReadOnlyMirror" /\ request.owner = request.who
    BY <1>4 DEF Allowed, authorize, MayWrite, KeyOf, Key
  <2>2. QED
    BY <1>4, <2>1 DEF decide, PlanFor, Reject, DeleteObject, PlannedDelete
<1>5. QED
  BY <1>1, <1>2, <1>3, <1>4 DEF Requests, PublishRequests, TargetedRequests

\* A read that is not answered 403 is one by somebody who may receive the
\* object, given that the team on it is the one its owner's policy entry names.
LEMMA DecideReads ==
  ASSUME policy \in Policies, NEW request \in Requests, NEW object \in StoredObjects,
         object.team \in {NoTeam, policy.member[KeyOf(request).owner]},
         request.op = "read",
         decide(policy, request, Facts(object)) # Reject(403)
  PROVE  MayReceive(policy, request.who, KeyOf(request).owner)
<1>1. Allowed(policy, request, Facts(object))
  BY DEF decide
<1>2. MayRead(policy, request.who, KeyOf(request).owner, object.team)
  BY <1>1 DEF Allowed, authorize, Facts
<1>3. QED
  BY <1>2 DEF MayRead, MayReceive, Teammates

-----------------------------------------------------------------------------
(***************************************************************************)
(* Type correctness.                                                       *)
(***************************************************************************)
LEMMA TypeInit == Init => TypeOK
<1> SUFFICES ASSUME Init PROVE TypeOK
  OBVIOUS
<1>1. RecordedTeams \subseteq Seq(Nat) \cup {NoTeam}
  BY DEF RecordedTeams
<1>2. [body : Docs, team : RecordedTeams] \cup {Absent} \subseteq StoredObjects
  BY <1>1 DEF StoredObjects, Absent
<1>3. objects \in [Keys -> StoredObjects]
  BY <1>2 DEF Init
<1>4. QED
  BY <1>3 DEF Init, TypeOK, HandlerStates

\* A handler whose plan is being executed has a request of the plan's kind.
LEMMA PlannedType ==
  ASSUME TypeOK, NEW h \in Handlers, handler[h].phase = "planned"
  PROVE  /\ handler[h].request \in Requests
         /\ handler[h].plan.kind = "WriteObject" =>
              handler[h].request \in PublishRequests /\ handler[h].plan \in WritePlans
         /\ handler[h].plan.kind # "WriteObject" => handler[h].request \in TargetedRequests
<1>1. \/ /\ handler[h].request \in PublishRequests
         /\ handler[h].plan \in WritePlans
      \/ /\ handler[h].request \in TargetedRequests
         /\ handler[h].plan \in {ReadObject, DeleteObject}
  BY DEF TypeOK, HandlerStates, Idle
<1>2. QED
  BY <1>1 DEF Requests, WritePlans, ReadObject, DeleteObject

\* What the store calls leave behind.
LEMMA PutType ==
  ASSUME TypeOK, NEW h \in Handlers, Executing(h, "WriteObject"), Put(h)
  PROVE  objects' \in [Keys -> StoredObjects]
<1> DEFINE request == handler[h].request
           plan    == handler[h].plan
<1>1. request \in PublishRequests /\ request \in Requests /\ plan \in WritePlans
  BY PlannedType DEF Executing
<1>2. request.body \in Docs /\ plan.team \in RecordedTeams
  BY <1>1 DEF PublishRequests, WritePlans
<1>3. [body |-> request.body, team |-> StoredTeam(request.body, plan.team)] \in StoredObjects
  BY <1>2, StoredTeamType DEF StoredObjects
<1>4. QED
  BY <1>1, <1>3, KeyOfType DEF Put, TypeOK

\* A delete leaves stored objects, or none, at every key.
LEMMA RemoveType ==
  ASSUME TypeOK, NEW h \in Handlers, Remove(h)
  PROVE  objects' \in [Keys -> StoredObjects]
BY DEF Remove, TypeOK, Absent, StoredObjects

\* An answer to a request is a handler state.
LEMMA AnsweredType ==
  ASSUME NEW request \in Requests, NEW status \in Statuses, NEW received \in StoredObjects
  PROVE  Answered(request, status, received) \in HandlerStates
<1>1. request.op \in {"publish", "read", "delete"} /\ request.who \in Principals
  BY DEF Requests, PublishRequests, TargetedRequests
<1>2. Answered(request, status, received) \in
        [phase : {"answered"}, op : {"publish", "read", "delete"}, who : Principals,
         key : Keys, status : Statuses, received : StoredObjects]
  BY <1>1, KeyOfType DEF Answered
<1>3. QED
  BY <1>2 DEF HandlerStates

\* Answering the request of one handler leaves every handler in a state of its type.
LEMMA AnswerType ==
  ASSUME TypeOK, NEW h \in Handlers, handler[h].phase = "planned",
         NEW status \in Statuses, NEW received \in StoredObjects,
         Answer(h, status, received)
  PROVE  handler' \in [Handlers -> HandlerStates]
<1>1. Answered(handler[h].request, status, received) \in HandlerStates
  BY PlannedType, AnsweredType
<1>2. QED
  BY <1>1 DEF Answer, TypeOK

\* No object is one of the things a key may hold.
LEMMA AbsentType == Absent \in StoredObjects
BY DEF Absent, StoredObjects

\* Every step of the service preserves the types.
LEMMA TypeStep == TypeOK /\ [Next]_vars => TypeOK'
<1> SUFFICES ASSUME TypeOK, [Next]_vars PROVE TypeOK'
  OBVIOUS
<1>1. ASSUME NEW h \in Handlers, Refuse(h) PROVE TypeOK'
  <2>1. PICK op \in {"publish", "read", "delete"}, credential \in Credentials,
             body \in Bodies, session \in Sessions :
          LET status == Refusal(op, credential, body, session) IN
          status # 0 /\ handler' = [handler EXCEPT ![h] = Refused(status)]
    BY <1>1 DEF Refuse
  <2>2. Refusal(op, credential, body, session) \in Statuses \cup {0}
    BY DEF Refusal, Credentials, Statuses
  <2>3. Refused(Refusal(op, credential, body, session)) \in HandlerStates
    BY <2>1, <2>2 DEF Refused, HandlerStates
  <2>4. QED
    BY <1>1, <2>1, <2>3 DEF Refuse, TypeOK
<1>2. ASSUME NEW h \in Handlers, NEW request \in Requests, HeadFails(h, request)
      PROVE  TypeOK'
  <2>1. Answered(request, 503, Absent) \in HandlerStates
    BY AnsweredType, AbsentType DEF Statuses
  <2>2. QED
    BY <1>2, <2>1 DEF HeadFails, TypeOK
<1>3. ASSUME NEW h \in Handlers, NEW request \in Requests, Decide(h, request)
      PROVE  TypeOK'
  <2> DEFINE object == objects[KeyOf(request)]
             plan   == decide(policy, request, Facts(object))
             found  == Exists(Facts(object))
  <2>1. policy \in Policies /\ object \in StoredObjects
    BY KeyOfType DEF TypeOK
  <2>2. CASE plan.kind = "Reject"
    <3>1. plan.status \in Statuses
      BY <2>1, <2>2, DecideType DEF WritePlans, ReadObject, DeleteObject, Statuses
    <3>2. Answered(request, plan.status, Absent) \in HandlerStates
      BY <3>1, AnsweredType, AbsentType
    <3>3. QED
      BY <1>3, <2>2, <3>2 DEF Decide, TypeOK
  <2>3. CASE plan.kind # "Reject"
    <3>1. \/ request \in PublishRequests /\ plan \in WritePlans
          \/ request \in TargetedRequests /\ plan \in {ReadObject, DeleteObject}
      BY <2>1, <2>3, DecideType
    <3>2. found \in BOOLEAN
      BY DEF Exists
    <3>3. Planned(request, plan, found) \in HandlerStates
      BY <3>1, <3>2 DEF Planned, HandlerStates
    <3>4. QED
      BY <1>3, <2>3, <3>3 DEF Decide, TypeOK
  <2>4. QED
    BY <2>2, <2>3
<1>4. ASSUME NEW h \in Handlers, ExecuteRead(h) PROVE TypeOK'
  <2>1. handler[h].phase = "planned" /\ objects[KeyOf(handler[h].request)] \in StoredObjects
    BY <1>4, PlannedType, KeyOfType DEF ExecuteRead, Executing, TypeOK
  <2>2. \A object : (IF object = Absent THEN 404 ELSE 200) \in Statuses
    BY DEF Statuses
  <2>3. handler' \in [Handlers -> HandlerStates]
    BY <1>4, <2>1, <2>2, AnswerType DEF ExecuteRead
  <2>4. QED
    BY <1>4, <2>3 DEF ExecuteRead, TypeOK
<1>5. ASSUME NEW h \in Handlers, ExecuteWrite(h) PROVE TypeOK'
  <2>1. (IF handler[h].plan.precondition = IfAbsent THEN 201 ELSE 200) \in Statuses
    BY DEF Statuses
  <2>2. handler' \in [Handlers -> HandlerStates]
    BY <1>5, <2>1, AnswerType, AbsentType DEF ExecuteWrite, Executing
  <2>3. QED
    BY <1>5, <2>2, PutType DEF ExecuteWrite, TypeOK
<1>6. ASSUME NEW h \in Handlers, ExecuteWriteFailsPrecondition(h) PROVE TypeOK'
  <2>1. handler' \in [Handlers -> HandlerStates]
    BY <1>6, AnswerType, AbsentType DEF ExecuteWriteFailsPrecondition, Executing, Statuses
  <2>2. QED
    BY <1>6, <2>1 DEF ExecuteWriteFailsPrecondition, TypeOK
<1>7. ASSUME NEW h \in Handlers, ExecuteDelete(h) PROVE TypeOK'
  <2>1. handler' \in [Handlers -> HandlerStates]
    BY <1>7, AnswerType, AbsentType DEF ExecuteDelete, Executing, Statuses
  <2>2. QED
    BY <1>7, <2>1, RemoveType DEF ExecuteDelete, TypeOK
<1>8. ASSUME NEW h \in Handlers, ExecuteFails(h) PROVE TypeOK'
  <2>1. objects' \in [Keys -> StoredObjects]
    BY <1>8, PutType, RemoveType DEF ExecuteFails, TypeOK
  <2>2. handler' \in [Handlers -> HandlerStates]
    BY <1>8, AnswerType, AbsentType DEF ExecuteFails, Statuses
  <2>3. QED
    BY <1>8, <2>1, <2>2 DEF ExecuteFails, TypeOK
<1>9. ASSUME NEW h \in Handlers, Finish(h) PROVE TypeOK'
  BY <1>9 DEF Finish, TypeOK, HandlerStates
<1>10. CASE UNCHANGED vars
  BY <1>10 DEF vars, TypeOK
<1>11. QED
  BY <1>1, <1>2, <1>3, <1>4, <1>5, <1>6, <1>7, <1>8, <1>9, <1>10 DEF Next

\* Every variable keeps its type.
THEOREM TypeCorrect == Spec => []TypeOK
BY TypeInit, TypeStep, PTL DEF Spec

-----------------------------------------------------------------------------
(***************************************************************************)
(* Writes.  A plan made from one HEAD is executed later, so the invariant  *)
(* says what every planned write still carries: the owner's permission and *)
(* the condition that stands for what the HEAD saw.                        *)
(***************************************************************************)
LEMMA WriteInit == Init => WriteInv
<1>1. Init => \A h \in Handlers : WritePlanHolds(policy, handler[h])
  BY DEF Init, WritePlanHolds, Idle
<1>2. QED
  BY <1>1, TypeInit DEF WriteInv

\* An action preserves WriteInv when the one state it gives a handler is not a
\* plan, or is a plan that holds.
LEMMA WriteFrame ==
  ASSUME WriteInv, TypeOK', policy' = policy,
         NEW h \in Handlers, NEW STATE state, WritePlanHolds(policy, state),
         handler' = [handler EXCEPT ![h] = state]
  PROVE  WriteInv'
<1>1. ASSUME NEW i \in Handlers PROVE WritePlanHolds(policy, handler'[i])
  BY DEF TypeOK, WriteInv
<1>2. QED
  BY <1>1 DEF WriteInv

\* An answered request has no plan left to hold.
LEMMA AnswerIsNoPlan ==
  ASSUME NEW pol, NEW request, NEW status, NEW received
  PROVE  WritePlanHolds(pol, Answered(request, status, received))
BY DEF WritePlanHolds, Answered

\* Every step of the service preserves WriteInv.
LEMMA WriteStep == WriteInv /\ [Next]_vars => WriteInv'
<1> SUFFICES ASSUME WriteInv, [Next]_vars PROVE WriteInv'
  OBVIOUS
<1> USE TypeStep DEF WriteInv
<1>1. ASSUME NEW h \in Handlers, Refuse(h) PROVE WriteInv'
  <2>1. PICK status : handler' = [handler EXCEPT ![h] = Refused(status)]
    BY <1>1 DEF Refuse
  <2>2. WritePlanHolds(policy, Refused(status))
    BY DEF WritePlanHolds, Refused
  <2>3. QED
    BY <1>1, <2>1, <2>2, WriteFrame DEF Refuse
<1>2. ASSUME NEW h \in Handlers, NEW request \in Requests, HeadFails(h, request)
      PROVE  WriteInv'
  BY <1>2, WriteFrame, AnswerIsNoPlan DEF HeadFails
<1>3. ASSUME NEW h \in Handlers, NEW request \in Requests, Decide(h, request)
      PROVE  WriteInv'
  <2> DEFINE object == objects[KeyOf(request)]
             plan   == decide(policy, request, Facts(object))
             found  == Exists(Facts(object))
  <2>1. policy \in Policies /\ object \in StoredObjects
    BY KeyOfType DEF TypeOK
  <2>2. WritePlanHolds(policy, Planned(request, plan, found))
    BY <2>1, DecideWrites DEF WritePlanHolds, Planned
  <2>3. \/ handler' = [handler EXCEPT ![h] = Answered(request, plan.status, Absent)]
        \/ handler' = [handler EXCEPT ![h] = Planned(request, plan, found)]
    BY <1>3 DEF Decide
  <2>4. QED
    BY <1>3, <2>2, <2>3, WriteFrame, AnswerIsNoPlan DEF Decide
<1>4. ASSUME NEW h \in Handlers, NEW status, NEW received,
             Answer(h, status, received), UNCHANGED policy
      PROVE  WriteInv'
  BY <1>4, WriteFrame, AnswerIsNoPlan DEF Answer
<1>5. ASSUME NEW h \in Handlers, Finish(h) PROVE WriteInv'
  <2>1. WritePlanHolds(policy, Idle)
    BY DEF WritePlanHolds, Idle
  <2>2. QED
    BY <1>5, <2>1, WriteFrame DEF Finish
<1>6. CASE UNCHANGED vars
  BY <1>6 DEF vars
<1>7. QED
  BY <1>1, <1>2, <1>3, <1>4, <1>5, <1>6 DEF Next, ExecuteRead, ExecuteWrite,
     ExecuteWriteFailsPrecondition, ExecuteDelete, ExecuteFails

\* In every reachable state, what a planned write or delete promised when it was
\* decided still holds (http.rs publish and remove, between HEAD and execution).
THEOREM WriteInvariant == Spec => []WriteInv
BY WriteInit, WriteStep, PTL DEF Spec

\* The facts of a planned write or delete.
LEMMA PlannedFacts ==
  ASSUME WriteInv, NEW h \in Handlers
  PROVE  /\ Executing(h, "WriteObject") =>
              /\ PlannedWrite(policy, handler[h].request, handler[h].plan, handler[h].found)
              /\ KeyOf(handler[h].request).owner = handler[h].request.who
         /\ Executing(h, "DeleteObject") =>
              /\ policy.rule # "ReadOnlyMirror"
              /\ KeyOf(handler[h].request).owner = handler[h].request.who
<1>1. Executing(h, "WriteObject") => handler[h].request.op = "publish"
  BY PlannedType DEF WriteInv, Executing, PublishRequests
<1>2. QED
  BY <1>1 DEF WriteInv, WritePlanHolds, Executing, PlannedDelete, KeyOf, Key

\* A handler that answers a planned request is the one that acts.
LEMMA AnsweringActs ==
  ASSUME TypeOK, NEW h \in Handlers, handler[h].phase = "planned",
         NEW status, NEW received, Answer(h, status, received)
  PROVE  Acts(h) /\ handler'[h].status = status
BY DEF Acts, Answer, Answered, TypeOK

\* A step that changes an object executes a write or a delete of its owner.
LEMMA OwnerWritesLemma == WriteInv /\ Next => OwnerWritesStep
<1> SUFFICES ASSUME WriteInv, Next, NEW key \in Keys, objects'[key] # objects[key]
    PROVE  /\ policy.rule # "ReadOnlyMirror"
           /\ \E h \in Handlers : Acts(h) /\ handler[h].request.who = key.owner
  BY DEF OwnerWritesStep
<1>1. TypeOK
  BY DEF WriteInv
<1>2. PICK h \in Handlers :
        \/ ExecuteWrite(h)
        \/ ExecuteDelete(h)
        \/ ExecuteFails(h)
  BY DEF Next, Refuse, HeadFails, Decide, ExecuteRead, ExecuteWriteFailsPrecondition, Finish
<1>3. handler[h].phase = "planned" /\ \E status, received : Answer(h, status, received)
  BY <1>2 DEF ExecuteWrite, ExecuteDelete, ExecuteFails, Executing
<1>4. Acts(h)
  BY <1>1, <1>3, AnsweringActs
<1>5. \/ Executing(h, "WriteObject") /\ Put(h)
      \/ Executing(h, "DeleteObject") /\ Remove(h)
  BY <1>2 DEF ExecuteWrite, ExecuteDelete, ExecuteFails
<1>6. key = KeyOf(handler[h].request)
  BY <1>1, <1>5 DEF Put, Remove, TypeOK
<1>7. QED
  BY <1>4, <1>5, <1>6, PlannedFacts DEF PlannedWrite

\* No step of any handler changes an object of somebody else's prefix, or any
\* object of a read-only mirror (plan.rs decide).
THEOREM OwnerWritesTheorem == Spec => OnlyOwnerWrites
<1>1. WriteInv /\ [Next]_vars => [OwnerWritesStep]_vars
  BY OwnerWritesLemma
<1>2. QED
  BY <1>1, WriteInvariant, PTL DEF Spec, OnlyOwnerWrites

(***************************************************************************)
(* A publish that takes effect went through the store's own check, in the  *)
(* same step.                                                              *)
(***************************************************************************)
LEMMA EffectIsPut ==
  ASSUME WriteInv, Next, NEW h \in Handlers, PublishTakesEffect(h)
  PROVE  Met(handler[h].plan.precondition, objects[KeyOf(handler[h].request)])
<1>1. TypeOK /\ handler[h].phase = "planned" /\ handler'[h] # handler[h]
  BY DEF WriteInv, PublishTakesEffect, Acts
<1>2. PICK i \in Handlers :
        \/ Refuse(i)
        \/ \E request \in Requests : HeadFails(i, request) \/ Decide(i, request)
        \/ ExecuteRead(i)
        \/ ExecuteWrite(i)
        \/ ExecuteWriteFailsPrecondition(i)
        \/ ExecuteDelete(i)
        \/ ExecuteFails(i)
        \/ Finish(i)
  BY DEF Next
<1>3. \E state : handler' = [handler EXCEPT ![i] = state]
  BY <1>2 DEF Refuse, HeadFails, Decide, ExecuteRead, ExecuteWrite,
     ExecuteWriteFailsPrecondition, ExecuteDelete, ExecuteFails, Finish, Answer
<1>4. i = h
  BY <1>1, <1>3 DEF TypeOK
<1>5. \/ ExecuteWrite(h)
      \/ ExecuteWriteFailsPrecondition(h)
      \/ ExecuteFails(h)
  BY <1>1, <1>2, <1>4 DEF PublishTakesEffect, Refuse, HeadFails, Decide, ExecuteRead,
     ExecuteDelete, Finish, Executing, Idle
<1>6. CASE ExecuteWrite(h)
  BY <1>6 DEF ExecuteWrite, Put
<1>7. CASE ExecuteWriteFailsPrecondition(h)
  <2>1. handler'[h].status = 412 /\ objects' = objects
    BY <1>1, <1>7, AnsweringActs DEF ExecuteWriteFailsPrecondition
  <2>2. QED
    BY <2>1 DEF PublishTakesEffect
<1>8. CASE ExecuteFails(h)
  <2>1. handler'[h].status = 503
    BY <1>1, <1>8, AnsweringActs DEF ExecuteFails
  <2>2. objects' # objects
    BY <2>1 DEF PublishTakesEffect
  <2>3. QED
    BY <1>8, <2>2 DEF ExecuteFails, PublishTakesEffect, Executing, Put
<1>9. QED
  BY <1>5, <1>6, <1>7, <1>8

\* A conditional publish is one atomic compare-and-swap against a version the
\* caller named, however long after its HEAD it runs (plan.rs:160-164).
THEOREM CompareAndSwapTheorem == Spec => ConditionalPublishIsCompareAndSwap
<1>1. ASSUME WriteInv, Next, NEW h \in Handlers, PublishTakesEffect(h),
             handler[h].request.ifMatch.kind # "none"
      PROVE  LET request == handler[h].request
                 object  == objects[KeyOf(request)]
             IN /\ Exists(Facts(object))
                /\ request.ifMatch.kind = "tags" =>
                     content_version(object.body) \in request.ifMatch.tags
  <2>1. Executing(h, "WriteObject")
    BY <1>1 DEF PublishTakesEffect
  <2>2. PlannedWrite(policy, handler[h].request, handler[h].plan, handler[h].found)
    BY <1>1, <2>1, PlannedFacts
  <2>3. Met(handler[h].plan.precondition, objects[KeyOf(handler[h].request)])
    BY <1>1, EffectIsPut
  <2>4. QED
    BY <1>1, <2>2, <2>3 DEF PlannedWrite, Met, precondition_holds, Facts, Exists
<1>2. WriteInv /\ [Next]_vars => [CompareAndSwapStep]_vars
  BY <1>1 DEF CompareAndSwapStep
<1>3. QED
  BY <1>2, WriteInvariant, PTL DEF Spec, ConditionalPublishIsCompareAndSwap

\* A create never replaces an object (plan.rs:166-169).
THEOREM CreateTheorem == Spec => CreateReplacesNothing
<1>1. ASSUME WriteInv, Next, NEW h \in Handlers, PublishTakesEffect(h), ~handler[h].found
      PROVE  ~Exists(Facts(objects[KeyOf(handler[h].request)]))
  <2>1. PlannedWrite(policy, handler[h].request, handler[h].plan, handler[h].found)
    BY <1>1, PlannedFacts DEF PublishTakesEffect
  <2>2. Met(IfAbsent, objects[KeyOf(handler[h].request)])
    BY <1>1, <2>1, EffectIsPut DEF PlannedWrite
  <2>3. QED
    BY <2>2 DEF Met, precondition_holds, IfAbsent, Exists, Facts
<1>2. WriteInv /\ [Next]_vars => [CreateStep]_vars
  BY <1>1 DEF CreateStep
<1>3. QED
  BY <1>2, WriteInvariant, PTL DEF Spec, CreateReplacesNothing

-----------------------------------------------------------------------------
(***************************************************************************)
(* Reads.  Who may receive an object depends on the team recorded on it,   *)
(* so the invariant needs the recorded team to be the policy's: TeamsFit.  *)
(***************************************************************************)
LEMMA TeamRecordedWhole ==
  ASSUME TeamsFit, NEW doc \in Docs, NEW team \in RecordedTeams
  PROVE  StoredTeam(doc, team) \in {NoTeam, team}
<1>1. CASE team = NoTeam
  BY <1>1 DEF StoredTeam
<1>2. CASE team \in Teams
  <2>1. Len(team) \in Nat /\ AttrRoom[doc] \in Nat
    BY <1>2
  <2>2. \/ AttrRoom[doc] - TeamNameBytes <= 0
        \/ Len(team) <= AttrRoom[doc] - TeamNameBytes
    BY <1>2, <2>1 DEF TeamsFit, TeamNameBytes
  <2>3. QED
    BY <2>2 DEF StoredTeam
<1>3. QED
  BY <1>1, <1>2 DEF RecordedTeams

LEMMA ReadInit == Init => ReadInv
<1> SUFFICES ASSUME Init PROVE ReadInv
  OBVIOUS
<1>1. TeamComesFromPolicy
  BY DEF Init, PublishedBefore, TeamComesFromPolicy, Absent
<1>2. QED
  BY <1>1 DEF Init, ReadInv, ReadPlanHolds, AnswerHolds, Idle

\* The team on every object stays the policy's, whichever store call a step makes.
LEMMA TeamStep ==
  ASSUME TeamsFit, WriteInv, TeamComesFromPolicy, UNCHANGED policy, NEW h \in Handlers,
         \/ UNCHANGED objects
         \/ Executing(h, "WriteObject") /\ Put(h)
         \/ Executing(h, "DeleteObject") /\ Remove(h)
  PROVE  TeamComesFromPolicy'
<1>1. TypeOK
  BY DEF WriteInv
<1>2. CASE UNCHANGED objects
  BY <1>2 DEF TeamComesFromPolicy
<1>3. CASE Executing(h, "WriteObject") /\ Put(h)
  <2> DEFINE request == handler[h].request
             plan    == handler[h].plan
  <2>1. PlannedWrite(policy, request, plan, handler[h].found) /\ KeyOf(request).owner = request.who
    BY <1>3, PlannedFacts
  <2>2. request.body \in Docs /\ plan.team \in RecordedTeams
    BY <1>1, <1>3, PlannedType DEF Executing, PublishRequests, WritePlans
  <2>3. StoredTeam(request.body, plan.team) \in {NoTeam, policy.member[KeyOf(request).owner]}
    BY <2>1, <2>2, TeamRecordedWhole DEF PlannedWrite
  <2>4. QED
    BY <1>1, <1>3, <2>3 DEF Put, TypeOK, TeamComesFromPolicy
<1>4. CASE Executing(h, "DeleteObject") /\ Remove(h)
  BY <1>1, <1>4 DEF Remove, Absent, TypeOK, TeamComesFromPolicy
<1>5. QED
  BY <1>2, <1>3, <1>4

\* The same frame as WriteFrame, for what the invariant says of reads.
LEMMA ReadFrame ==
  ASSUME TypeOK, ReadInv, TeamComesFromPolicy', policy' = policy,
         NEW h \in Handlers, NEW STATE state,
         ReadPlanHolds(policy, state), AnswerHolds(policy, state),
         handler' = [handler EXCEPT ![h] = state]
  PROVE  ReadInv'
<1>1. ASSUME NEW i \in Handlers
      PROVE  ReadPlanHolds(policy, handler'[i]) /\ AnswerHolds(policy, handler'[i])
  BY DEF TypeOK, ReadInv
<1>2. QED
  BY <1>1 DEF ReadInv

\* Only a read is planned as a read.
LEMMA DecideKinds ==
  ASSUME NEW pol \in Policies, NEW request \in Requests, NEW object \in StoredObjects,
         decide(pol, request, Facts(object)).kind = "ReadObject"
  PROVE  request.op = "read"
BY DEF decide, PlanFor, Reject, WriteObject, DeleteObject

LEMMA PlannedReads ==
  ASSUME WriteInv, NEW h \in Handlers, handler[h].phase = "planned",
         handler[h].request.op = "read"
  PROVE  handler[h].plan.kind = "ReadObject"
<1>1. \/ handler[h].request \in PublishRequests
      \/ handler[h].plan \in {ReadObject, DeleteObject}
  BY DEF WriteInv, TypeOK, HandlerStates, Idle
<1>2. handler[h].plan # DeleteObject
  BY DEF WriteInv, WritePlanHolds, PlannedDelete, DeleteObject
<1>3. QED
  BY <1>1, <1>2 DEF PublishRequests, ReadObject

\* A handler state for an answer that gives nothing away.
LEMMA EmptyAnswer ==
  ASSUME NEW pol, NEW request, NEW status,
         request.op = "read" =>
           MayReceive(pol, request.who, KeyOf(request).owner) \/ status \in {403, 503}
  PROVE  /\ ReadPlanHolds(pol, Answered(request, status, Absent))
         /\ AnswerHolds(pol, Answered(request, status, Absent))
BY DEF ReadPlanHolds, AnswerHolds, Answered

LEMMA ReadStep == TeamsFit /\ WriteInv /\ ReadInv /\ [Next]_vars => ReadInv'
<1> SUFFICES ASSUME TeamsFit, WriteInv, ReadInv, [Next]_vars PROVE ReadInv'
  OBVIOUS
<1>1. TypeOK /\ TeamComesFromPolicy
  BY DEF WriteInv, ReadInv
<1>2. ASSUME NEW h \in Handlers, UNCHANGED <<policy, objects>>, NEW STATE state,
             ReadPlanHolds(policy, state), AnswerHolds(policy, state),
             handler' = [handler EXCEPT ![h] = state]
      PROVE  ReadInv'
  BY <1>1, <1>2, TeamStep, ReadFrame
<1>3. ASSUME NEW h \in Handlers, Refuse(h) PROVE ReadInv'
  <2>1. PICK status : handler' = [handler EXCEPT ![h] = Refused(status)]
    BY <1>3 DEF Refuse
  <2>2. ReadPlanHolds(policy, Refused(status)) /\ AnswerHolds(policy, Refused(status))
    BY DEF ReadPlanHolds, AnswerHolds, Refused
  <2>3. QED
    BY <1>2, <1>3, <2>1, <2>2 DEF Refuse
<1>4. ASSUME NEW h \in Handlers, NEW request \in Requests, HeadFails(h, request)
      PROVE  ReadInv'
  <2>1. /\ ReadPlanHolds(policy, Answered(request, 503, Absent))
        /\ AnswerHolds(policy, Answered(request, 503, Absent))
    BY EmptyAnswer
  <2>2. QED
    BY <1>2, <1>4, <2>1 DEF HeadFails
<1>5. ASSUME NEW h \in Handlers, NEW request \in Requests, Decide(h, request)
      PROVE  ReadInv'
  <2> DEFINE object == objects[KeyOf(request)]
             plan   == decide(policy, request, Facts(object))
             found  == Exists(Facts(object))
             refusal == Answered(request, plan.status, Absent)
             planned == Planned(request, plan, found)
  <2>1. /\ policy \in Policies
        /\ object \in StoredObjects
        /\ object.team \in {NoTeam, policy.member[KeyOf(request).owner]}
    BY <1>1, KeyOfType DEF TypeOK, TeamComesFromPolicy
  <2>2. request.op = "read" =>
          MayReceive(policy, request.who, KeyOf(request).owner) \/ plan = Reject(403)
    BY <2>1, DecideReads
  <2>3. CASE plan.kind = "Reject"
    <3>1. ReadPlanHolds(policy, refusal) /\ AnswerHolds(policy, refusal)
      BY <2>2, EmptyAnswer DEF Reject
    <3>2. QED
      BY <1>2, <1>5, <2>3, <3>1 DEF Decide
  <2>4. CASE plan.kind # "Reject"
    <3>1. plan.kind = "ReadObject" => request.op = "read"
      BY <2>1, DecideKinds
    <3>2. request.op = "read" => KeyOf(request).owner = request.owner
      BY DEF KeyOf, Key
    <3>3. ReadPlanHolds(policy, planned) /\ AnswerHolds(policy, planned)
      BY <2>2, <2>4, <3>1, <3>2 DEF ReadPlanHolds, AnswerHolds, Planned, Reject
    <3>4. QED
      BY <1>2, <1>5, <2>4, <3>3 DEF Decide
  <2>5. QED
    BY <2>3, <2>4
<1>6. ASSUME NEW h \in Handlers, ExecuteRead(h) PROVE ReadInv'
  <2> DEFINE object == objects[KeyOf(handler[h].request)]
  <2>1. PICK status : Answer(h, status, object)
    BY <1>6 DEF ExecuteRead
  <2>2. handler[h].request.op = "read"
        /\ MayReceive(policy, handler[h].request.who, KeyOf(handler[h].request).owner)
    BY <1>6 DEF ExecuteRead, Executing, ReadInv, ReadPlanHolds, KeyOf, Key
  <2>3. /\ ReadPlanHolds(policy, Answered(handler[h].request, status, object))
        /\ AnswerHolds(policy, Answered(handler[h].request, status, object))
    BY <2>2 DEF ReadPlanHolds, AnswerHolds, Answered
  <2>4. QED
    BY <1>2, <1>6, <2>1, <2>3 DEF ExecuteRead, Answer
<1>7. ASSUME NEW h \in Handlers, NEW status, Answer(h, status, Absent), UNCHANGED policy,
             handler[h].phase = "planned",
             \/ UNCHANGED objects
             \/ Executing(h, "WriteObject") /\ Put(h)
             \/ Executing(h, "DeleteObject") /\ Remove(h),
             handler[h].plan.kind = "ReadObject" => status = 503
      PROVE  ReadInv'
  <2>1. handler[h].request.op = "read" => handler[h].plan.kind = "ReadObject"
    BY <1>1, <1>7, PlannedReads
  <2>2. TeamComesFromPolicy'
    BY <1>1, <1>7, TeamStep
  <2>3. /\ ReadPlanHolds(policy, Answered(handler[h].request, status, Absent))
        /\ AnswerHolds(policy, Answered(handler[h].request, status, Absent))
    BY <1>7, <2>1, EmptyAnswer
  <2>4. QED
    BY <1>1, <1>7, <2>2, <2>3, ReadFrame DEF Answer
<1>8. ASSUME NEW h \in Handlers, Finish(h) PROVE ReadInv'
  <2>1. ReadPlanHolds(policy, Idle) /\ AnswerHolds(policy, Idle)
    BY DEF ReadPlanHolds, AnswerHolds, Idle
  <2>2. QED
    BY <1>2, <1>8, <2>1 DEF Finish
<1>9. CASE UNCHANGED vars
  BY <1>9 DEF vars, ReadInv, TeamComesFromPolicy
<1>10. ASSUME NEW h \in Handlers, ExecuteWrite(h) \/ ExecuteWriteFailsPrecondition(h)
                                 \/ ExecuteDelete(h) \/ ExecuteFails(h)
       PROVE  ReadInv'
  BY <1>7, <1>10 DEF ExecuteWrite, ExecuteWriteFailsPrecondition, ExecuteDelete,
     ExecuteFails, Executing
<1>11. QED
  BY <1>3, <1>4, <1>5, <1>6, <1>8, <1>9, <1>10 DEF Next

\* In every reachable state, under TeamsFit, planned reads and answers stay in the team.
LEMMA ReadInvariant == ASSUME TeamsFit PROVE Spec => []ReadInv
<1>1. TeamsFit
  OBVIOUS
<1>2. WriteInv /\ ReadInv /\ [Next]_vars => ReadInv'
  BY <1>1, ReadStep
<1>3. QED
  BY <1>2, ReadInit, WriteInvariant, PTL DEF Spec

\* A transcript is received only by its owner and the owner's team, provided a
\* team name is never cut short by the attribute budget (policy.rs TeamScoped).
THEOREM ReadStaysInTeamTheorem == ASSUME TeamsFit PROVE Spec => []ReadStaysInTeam
<1>1. ReadInv => ReadStaysInTeam
  BY DEF ReadInv, AnswerHolds, MayReceive, ReadStaysInTeam
<1>2. QED
  BY <1>1, ReadInvariant, PTL

\* Under the same condition an outsider's read is refused whatever the store
\* holds, in the same way (plan.rs:99-101).
THEOREM OutsiderLearnsNothingTheorem == ASSUME TeamsFit PROVE Spec => []OutsiderLearnsNothing
<1>1. ReadInv => OutsiderLearnsNothing
  BY DEF ReadInv, AnswerHolds, MayReceive, OutsiderLearnsNothing
<1>2. QED
  BY <1>1, ReadInvariant, PTL
=============================================================================
