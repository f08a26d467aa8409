------------------------------ MODULE ShareCore ------------------------------
(***************************************************************************)
(* The pure core of the share service (share-core): keys, policies and     *)
(* decide(), which turns one request and the facts of one HEAD into a      *)
(* plan.  Nothing here has state; ShareService executes the plans.         *)
(***************************************************************************)
EXTENDS ObjectStore, Sequences

CONSTANTS
  Principals,    \* ids of authenticated callers
  Sessions,      \* session ids a caller may name
  PlainSessions, \* those that are a plain path segment
  Teams,         \* team names, as sequences of bytes
  NoTeam,        \* no team configured, or none recorded on the object
  AttrRoom       \* attribute bytes each document's own attributes leave free

ASSUME CoreAssumption ==
  /\ PlainSessions \subseteq Sessions
  /\ Teams \subseteq Seq(Nat)
  /\ NoTeam \notin Teams
  /\ AttrRoom \in [Docs -> Nat]

(***************************************************************************)
(* Keys and objects.                                                       *)
(***************************************************************************)
Key(owner, session) == [owner |-> owner, session |-> session]

Keys == [owner : Principals, session : PlainSessions]

\* Attributes other than the team play no part in any decision.
Absent == [body |-> NoDoc, team |-> NoTeam]

RecordedTeams == Teams \cup {NoTeam}

\* What a HEAD tells the host; NoVersion means the object does not exist.
Facts(object) == [version |-> content_version(object.body), team |-> object.team]

Exists(facts) == facts.version # NoVersion

(***************************************************************************)
(* Attrs::set for the team, the last attribute of an object.  Attributes   *)
(* share one byte budget: a value that does not fit is cut to what is      *)
(* left, and is dropped when its own name leaves nothing.                  *)
(***************************************************************************)
TeamNameBytes == 4

StoredTeam(doc, team) ==
  LET room == AttrRoom[doc] - TeamNameBytes IN
  IF team = NoTeam \/ room <= 0
    THEN NoTeam
    ELSE IF Len(team) <= room THEN team ELSE SubSeq(team, 1, room)

(***************************************************************************)
(* The policies a deployment can configure.  TeamScoped comes with the     *)
(* team of each member; the other two look at nothing but the key.         *)
(***************************************************************************)
NoMembers == [p \in Principals |-> NoTeam]

Policies ==
  [rule : {"OwnerPrefix", "ReadOnlyMirror"}, member : {NoMembers}]
  \cup [rule : {"TeamScoped"}, member : [Principals -> RecordedTeams]]

MayRead_Fault(policy, who, owner, team) ==
  policy.rule = "TeamScoped" => policy.member[who] = team \/ owner = who

\* An object with no recorded team is readable only by its owner.
MayRead(policy, who, owner, team) ==
  policy.rule = "TeamScoped" =>
    \/ policy.member[who] = team /\ team # NoTeam
    \/ owner = who

MayWrite_Fault(policy, who, owner) == policy.rule # "ReadOnlyMirror"

MayWrite(policy, who, owner) == policy.rule # "ReadOnlyMirror" /\ owner = who

authorize(policy, who, action, owner, team) ==
  IF action = "read" THEN MayRead(policy, who, owner, team)
                     ELSE MayWrite(policy, who, owner)

\* The team to record on what a principal publishes.
team_of(policy, who) ==
  IF policy.rule = "TeamScoped" THEN policy.member[who] ELSE NoTeam

\* How a listing is scoped: the owner whose prefix is listed, or everyone's,
\* and whether the policy must decide each entry.
Scopes == {"Mine", "Everyone"}

list_scope_Fault(policy, scope) == [mine |-> scope = "Mine", authorize_each |-> FALSE]

list_scope(policy, scope) ==
  [mine |-> scope = "Mine",
   authorize_each |-> scope = "Everyone" /\ policy.rule = "TeamScoped"]

(***************************************************************************)
(* If-Match: not sent (or blank), "*", or a list of entity tags; and the   *)
(* store precondition it becomes.                                          *)
(***************************************************************************)
NoIfMatch   == [kind |-> "none", tags |-> {}]
AnyTag      == [kind |-> "star", tags |-> {}]
TagList(ts) == [kind |-> "tags", tags |-> ts]

IfMatches == {NoIfMatch, AnyTag} \cup {TagList(ts) : ts \in SUBSET Versions}

NotMet == [kind |-> "NotMet", version |-> NoVersion]

Matches(ifMatch, facts) ==
  Exists(facts) /\ (ifMatch.kind = "star" \/ facts.version \in ifMatch.tags)

precondition_FaultCheckOnly(ifMatch, facts) ==
  IF ifMatch.kind = "none"
    THEN IF Exists(facts) THEN Unconditional ELSE IfAbsent
    ELSE IF Matches(ifMatch, facts) THEN Unconditional ELSE NotMet

precondition_FaultCreate(ifMatch, facts) ==
  IF ifMatch.kind = "none"
    THEN Unconditional
    ELSE IF Matches(ifMatch, facts) THEN IfVersion(facts.version) ELSE NotMet

precondition(ifMatch, facts) ==
  IF ifMatch.kind = "none"
    THEN IF Exists(facts) THEN Unconditional ELSE IfAbsent
    ELSE IF Matches(ifMatch, facts) THEN IfVersion(facts.version) ELSE NotMet

(***************************************************************************)
(* decide.  A publish carries [op, who, session, ifMatch, body], a read or *)
(* a delete [op, who, owner, session]: the owner of a publish is never     *)
(* supplied, it is the caller.                                             *)
(***************************************************************************)
Reject(status)         == [kind |-> "Reject", status |-> status]
ReadObject             == [kind |-> "ReadObject"]
WriteObject(pre, team) == [kind |-> "WriteObject", precondition |-> pre, team |-> team]
DeleteObject           == [kind |-> "DeleteObject"]

KeyOf(request) ==
  Key(IF request.op = "publish" THEN request.who ELSE request.owner, request.session)

PlanFor_Fault(policy, request, facts) ==
  IF request.op = "publish"
    THEN WriteObject(precondition(request.ifMatch, facts), team_of(policy, request.who))
    ELSE IF ~Exists(facts) THEN Reject(404)
         ELSE IF request.op = "read" THEN ReadObject ELSE DeleteObject

\* What decide answers once the policy has allowed the request.
PlanFor(policy, request, facts) ==
  IF request.op = "publish"
    THEN LET pre == precondition(request.ifMatch, facts) IN
         IF pre = NotMet THEN Reject(412)
                         ELSE WriteObject(pre, team_of(policy, request.who))
    ELSE IF ~Exists(facts) THEN Reject(404)
         ELSE IF request.op = "read" THEN ReadObject ELSE DeleteObject

Allowed(policy, request, facts) ==
  authorize(policy, request.who, request.op, KeyOf(request).owner, facts.team)

decide_Fault(policy, request, facts) ==
  IF request.op # "publish" /\ ~Exists(facts)
    THEN Reject(404)
    ELSE IF ~Allowed(policy, request, facts)
      THEN Reject(403)
      ELSE PlanFor(policy, request, facts)

\* The policy is asked before existence is reported.  A session that is not a
\* plain segment names no key and never gets this far (400).
decide(policy, request, facts) ==
  IF ~Allowed(policy, request, facts)
    THEN Reject(403)
    ELSE PlanFor(policy, request, facts)
=============================================================================
