----------------------------- MODULE ShareService -----------------------------
(***************************************************************************)
(* The HTTP half of the share service: handlers that serve publish, read   *)
(* and delete requests concurrently.  A handler makes two store calls, a   *)
(* HEAD it decides on and the call that executes the plan, and any other   *)
(* handler (of this process, or of another one over the same bucket) may   *)
(* run in between.                                                         *)
(*                                                                         *)
(* The store is one that makes each call atomic: S3, R2 or the in-memory   *)
(* one.  FsStore models the one that does not.                             *)
(***************************************************************************)
EXTENDS ShareCore

CONSTANTS
  Handlers,   \* requests in flight at once, over all server processes
  Configured  \* the policies to consider

ASSUME ServiceAssumption == Configured \subseteq Policies

VARIABLES
  policy,   \* the configured policy, fixed when the process starts
  objects,  \* what the store holds at each key
  handler   \* what each handler is doing

vars == <<policy, objects, handler>>

(***************************************************************************)
(* Requests that name a key: those decide() is asked about.                *)
(***************************************************************************)
PublishRequests ==
  [op : {"publish"}, who : Principals, session : PlainSessions,
   ifMatch : IfMatches, body : Docs]

TargetedRequests ==
  [op : {"read", "delete"}, who : Principals, owner : Principals,
   session : PlainSessions]

Requests == PublishRequests \cup TargetedRequests

(***************************************************************************)
(* The refusals before any store access, in their order: the router's      *)
(* backstop against a body beyond its limit, what the identity check made  *)
(* of the headers, then the size (one byte above the limit, which the      *)
(* backstop lets through) and the shape of a published body, then the      *)
(* path.  0 when there is none.                                            *)
(***************************************************************************)
Credentials == {"known", "none", "unverifiable"}

Bodies == {"document", "unbounded", "oversized", "not_a_document"}

Refusal(op, credential, body, session) ==
  IF op = "publish" /\ body = "unbounded" THEN 413
  ELSE CASE credential = "none"         -> 401
         [] credential = "unverifiable" -> 503
         [] credential = "known" ->
              IF op = "publish" /\ body = "oversized" THEN 413
              ELSE IF op = "publish" /\ body = "not_a_document" THEN 400
              ELSE IF session \notin PlainSessions THEN 400 ELSE 0

(***************************************************************************)
(* Handler states.  "found" is whether the HEAD found an object, and       *)
(* "received" is what a successful read sent back.                         *)
(***************************************************************************)
Idle == [phase |-> "idle"]

Refused(status) == [phase |-> "refused", status |-> status]

Planned(request, plan, found) ==
  [phase |-> "planned", request |-> request, plan |-> plan, found |-> found]

Answered(request, status, received) ==
  [phase |-> "answered", op |-> request.op, who |-> request.who,
   key |-> KeyOf(request), status |-> status, received |-> received]

Answer(h, status, received) ==
  handler' = [handler EXCEPT ![h] = Answered(handler[h].request, status, received)]

Executing(h, kind) == handler[h].phase = "planned" /\ handler[h].plan.kind = kind

(***************************************************************************)
(* Initially the store may hold what was published before: under this      *)
(* membership, or before teams were recorded.                              *)
(***************************************************************************)
PublishedBefore(owner) ==
  [body : Docs, team : {NoTeam, policy.member[owner]}] \cup {Absent}

Init ==
  /\ policy \in Configured
  /\ objects \in [Keys -> [body : Docs, team : RecordedTeams] \cup {Absent}]
  /\ \A key \in Keys : objects[key] \in PublishedBefore(key.owner)
  /\ handler = [h \in Handlers |-> Idle]

(***************************************************************************)
(* A request arrives: it is refused at once, its HEAD fails, or it is      *)
(* decided from what the HEAD saw.                                         *)
(***************************************************************************)
Refuse(h) ==
  /\ handler[h] = Idle
  /\ \E op \in {"publish", "read", "delete"}, credential \in Credentials,
        body \in Bodies, session \in Sessions :
       LET status == Refusal(op, credential, body, session) IN
       /\ status # 0
       /\ handler' = [handler EXCEPT ![h] = Refused(status)]
  /\ UNCHANGED <<policy, objects>>

HeadFails(h, request) ==
  /\ handler[h] = Idle
  /\ handler' = [handler EXCEPT ![h] = Answered(request, 503, Absent)]
  /\ UNCHANGED <<policy, objects>>

Decide(h, request) ==
  /\ handler[h] = Idle
  /\ LET facts == Facts(objects[KeyOf(request)])
         plan  == decide(policy, request, facts)
     IN handler' = [handler EXCEPT ![h] =
          IF plan.kind = "Reject" THEN Answered(request, plan.status, Absent)
                                  ELSE Planned(request, plan, Exists(facts))]
  /\ UNCHANGED <<policy, objects>>

(***************************************************************************)
(* The plan is executed by one call of the store.                          *)
(***************************************************************************)
Met(pre, object) == precondition_holds(pre, Facts(object).version)

Put(h) ==
  LET request == handler[h].request
      plan    == handler[h].plan
      key     == KeyOf(request)
  IN /\ Met(plan.precondition, objects[key])
     /\ objects' = [objects EXCEPT ![key] =
          [body |-> request.body, team |-> StoredTeam(request.body, plan.team)]]

Remove(h) == objects' = [objects EXCEPT ![KeyOf(handler[h].request)] = Absent]

ExecuteRead(h) ==
  /\ Executing(h, "ReadObject")
  /\ LET object == objects[KeyOf(handler[h].request)] IN
     Answer(h, IF object = Absent THEN 404 ELSE 200, object)
  /\ UNCHANGED <<policy, objects>>

ExecuteWrite(h) ==
  /\ Executing(h, "WriteObject")
  /\ Put(h)
  /\ Answer(h, IF handler[h].plan.precondition = IfAbsent THEN 201 ELSE 200, Absent)
  /\ UNCHANGED policy

ExecuteWriteFailsPrecondition(h) ==
  /\ Executing(h, "WriteObject")
  /\ ~Met(handler[h].plan.precondition, objects[KeyOf(handler[h].request)])
  /\ Answer(h, 412, Absent)
  /\ UNCHANGED <<policy, objects>>

ExecuteDelete(h) ==
  /\ Executing(h, "DeleteObject")
  /\ Remove(h)
  /\ Answer(h, 204, Absent)
  /\ UNCHANGED policy

\* The store fails: nothing was done, or (a networked store) it was done and
\* the reply was lost.  The caller is told 503 either way.
ExecuteFails(h) ==
  /\ handler[h].phase = "planned"
  /\ \/ UNCHANGED objects
     \/ Executing(h, "WriteObject") /\ Put(h)
     \/ Executing(h, "DeleteObject") /\ Remove(h)
  /\ Answer(h, 503, Absent)
  /\ UNCHANGED policy

\* The answer is sent and the handler is free for another request.
Finish(h) ==
  /\ handler[h].phase \in {"refused", "answered"}
  /\ handler' = [handler EXCEPT ![h] = Idle]
  /\ UNCHANGED <<policy, objects>>

Next ==
  \E h \in Handlers :
    \/ Refuse(h)
    \/ \E request \in Requests : HeadFails(h, request) \/ Decide(h, request)
    \/ ExecuteRead(h)
    \/ ExecuteWrite(h)
    \/ ExecuteWriteFailsPrecondition(h)
    \/ ExecuteDelete(h)
    \/ ExecuteFails(h)
    \/ Finish(h)

Spec == Init /\ [][Next]_vars

-----------------------------------------------------------------------------
(***************************************************************************)
(* Properties.                                                             *)
(***************************************************************************)
WritePlans ==
  [kind : {"WriteObject"}, precondition : Preconditions, team : RecordedTeams]

Statuses == {200, 201, 204, 400, 401, 403, 404, 412, 413, 503}

StoredObjects == [body : Docs \cup {NoDoc}, team : Seq(Nat) \cup {NoTeam}]

HandlerStates ==
  {Idle}
  \cup [phase : {"refused"}, status : Statuses]
  \cup [phase : {"planned"}, request : PublishRequests, plan : WritePlans, found : BOOLEAN]
  \cup [phase : {"planned"}, request : TargetedRequests,
        plan : {ReadObject, DeleteObject}, found : BOOLEAN]
  \cup [phase : {"answered"}, op : {"publish", "read", "delete"}, who : Principals,
        key : Keys, status : Statuses, received : StoredObjects]

\* Every variable has its type: a handler's record is one that the handlers
\* of http.rs can build.
TypeOK ==
  /\ policy \in Configured
  /\ objects \in [Keys -> StoredObjects]
  /\ handler \in [Handlers -> HandlerStates]

\* The handler a step belongs to when the step executes a plan.
Acts(h) == handler[h].phase = "planned" /\ handler'[h] # handler[h]

OwnerWritesStep ==
  \A key \in Keys : objects'[key] # objects[key] =>
    /\ policy.rule # "ReadOnlyMirror"
    /\ \E h \in Handlers : Acts(h) /\ handler[h].request.who = key.owner

\* An object changes only by a request of its owner, and never under a
\* read-only policy, whatever was decided, and whatever changed between the
\* HEAD and the write (plan.rs decide, http.rs publish and remove).
OnlyOwnerWrites == [][OwnerWritesStep]_vars

\* The publish of h takes effect in this step: it is acknowledged, or it
\* changes the store and the acknowledgement is lost.
PublishTakesEffect(h) ==
  /\ Executing(h, "WriteObject")
  /\ Acts(h)
  /\ objects' # objects \/ handler'[h].status \in {200, 201}

CompareAndSwapStep ==
  \A h \in Handlers : PublishTakesEffect(h) =>
    LET request == handler[h].request
        object  == objects[KeyOf(request)]
    IN /\ request.ifMatch.kind # "none" => Exists(Facts(object))
       /\ request.ifMatch.kind = "tags" =>
            content_version(object.body) \in request.ifMatch.tags

\* A publish with If-Match replaces one of the versions the caller named (any
\* version for "*"): never a newer one, and it never creates an object
\* (plan.rs:160-164, "a conditional update must never silently become an
\* unconditional create").
ConditionalPublishIsCompareAndSwap == [][CompareAndSwapStep]_vars

CreateStep ==
  \A h \in Handlers : PublishTakesEffect(h) /\ ~handler[h].found =>
    ~Exists(Facts(objects[KeyOf(handler[h].request)]))

\* A publish that was authorized as a create destroys nothing: another create
\* of the same key that got there first survives (plan.rs:166-169).
CreateReplacesNothing == [][CreateStep]_vars

\* Whether a caller and an owner are on one team.
Teammates(pol, who, owner) ==
  pol.member[who] # NoTeam /\ pol.member[who] = pol.member[owner]

\* Under TeamScoped a transcript reaches only its owner and the owner's
\* teammates, although the read was decided on a HEAD of what may since have
\* been deleted and published again (policy.rs TeamScoped, http.rs read).
ReadStaysInTeam ==
  \A h \in Handlers :
    (policy.rule = "TeamScoped" /\ handler[h].phase = "answered" /\ handler[h].received # Absent)
      => \/ handler[h].who = handler[h].key.owner
         \/ Teammates(policy, handler[h].who, handler[h].key.owner)

\* A caller outside the owner's team cannot tell whether a transcript exists:
\* a read is answered 403 (or 503 in an outage) whatever the store holds
\* (plan.rs:99-101).
OutsiderLearnsNothing ==
  \A h \in Handlers :
    /\ policy.rule = "TeamScoped"
    /\ handler[h].phase = "answered"
    /\ handler[h].op = "read"
    /\ handler[h].who # handler[h].key.owner
    /\ ~Teammates(policy, handler[h].who, handler[h].key.owner)
    => handler[h].status \in {403, 503}

\* The team on an object is the one the policy gives its owner, or none: the
\* document does not influence it (plan.rs:74-76, http.rs:111-112).
TeamComesFromPolicy ==
  \A key \in Keys : objects[key].team \in {NoTeam, policy.member[key.owner]}

-----------------------------------------------------------------------------
(***************************************************************************)
(* The inductive invariant behind these properties: what a plan made from  *)
(* a HEAD still promises when it is executed, however late.                *)
(***************************************************************************)
MayReceive(pol, who, owner) ==
  pol.rule = "TeamScoped" => who = owner \/ Teammates(pol, who, owner)

\* A write keeps the condition the caller stated, and is planned only for the
\* owner of the key it writes.
PlannedWrite(pol, request, plan, found) ==
  /\ pol.rule # "ReadOnlyMirror"
  /\ ~found => plan.precondition = IfAbsent
  /\ request.ifMatch.kind # "none" =>
       /\ plan.precondition.kind = "IfVersion"
       /\ request.ifMatch.kind = "tags" => plan.precondition.version \in request.ifMatch.tags
  /\ plan.team \in {NoTeam, pol.member[request.who]}

PlannedDelete(pol, request) ==
  /\ request.op = "delete"
  /\ pol.rule # "ReadOnlyMirror"
  /\ request.owner = request.who

WritePlanHolds(pol, state) ==
  state.phase = "planned" =>
    /\ state.plan.kind = "WriteObject" =>
         PlannedWrite(pol, state.request, state.plan, state.found)
    /\ state.plan.kind = "DeleteObject" => PlannedDelete(pol, state.request)

\* A read is planned only for somebody who may receive the object.
ReadPlanHolds(pol, state) ==
  state.phase = "planned" /\ state.plan.kind = "ReadObject" =>
    /\ state.request.op = "read"
    /\ MayReceive(pol, state.request.who, state.request.owner)

\* What has been answered: bodies only to those who may receive them, and
\* nothing but refusals to those who may not.
AnswerHolds(pol, state) ==
  state.phase = "answered" =>
    \/ MayReceive(pol, state.who, state.key.owner)
    \/ state.received = Absent /\ (state.op = "read" => state.status \in {403, 503})

WriteInv == TypeOK /\ \A h \in Handlers : WritePlanHolds(policy, handler[h])

ReadInv ==
  /\ TeamComesFromPolicy
  /\ \A h \in Handlers : ReadPlanHolds(policy, handler[h]) /\ AnswerHolds(policy, handler[h])

\* No document's attributes leave room for a part of a team's name only: then
\* a team is recorded whole or not at all.
TeamsFit ==
  \A doc \in Docs, team \in Teams :
    \/ AttrRoom[doc] <= TeamNameBytes
    \/ AttrRoom[doc] >= TeamNameBytes + Len(team)
=============================================================================
