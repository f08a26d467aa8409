----------------------------- MODULE AtomicStore -----------------------------
(***************************************************************************)
(* What a store promises the callers of put and delete for one object:     *)
(* each call takes effect at one moment between its invocation and its     *)
(* return, its precondition holds at that moment, and a call that is       *)
(* refused or fails has no effect.  A store that is at times unable to     *)
(* tell an object's version judges by a token instead that no document     *)
(* has; without such tokens the precondition is that of the object.  The   *)
(* in-memory store (one lock around each call) and S3 (If-Match and        *)
(* If-None-Match) have none; what FsStore implements is checked there.     *)
(***************************************************************************)
EXTENDS ObjectStore

CONSTANTS
  Clients,
  OtherTokens  \* what may be taken for the version of an object, and that no
               \* document has; a caller who was told one may name it

VARIABLES
  object,  \* the document stored, or NoDoc
  call     \* the put or delete each client has in progress

vars == <<object, call>>

Conditions == Preconditions \cup {IfVersion(token) : token \in OtherTokens}

Requests ==
  [op : {"put"}, pre : Conditions, doc : Docs]
  \cup [op : {"delete"}, pre : Conditions \ {IfAbsent}, doc : {NoDoc}]

NoCall == [phase |-> "idle"]

Pending(request) == [phase |-> "pending", request |-> request]

Done(request, outcome) == [phase |-> "done", request |-> request, outcome |-> outcome]

Init ==
  /\ object \in Docs \cup {NoDoc}
  /\ call = [c \in Clients |-> NoCall]

Invoke(c) ==
  /\ call[c] = NoCall
  /\ \E request \in Requests : call' = [call EXCEPT ![c] = Pending(request)]
  /\ UNCHANGED object

\* What may be found to be the version of the object.
Apparent == {content_version(object)} \cup IF object = NoDoc THEN {} ELSE OtherTokens

\* The one moment at which a call changes the store.  A delete leaves NoDoc.
TakeEffect(c) ==
  /\ call[c].phase = "pending"
  /\ LET request == call[c].request IN
     /\ \E version \in Apparent : precondition_holds(request.pre, version)
     /\ object' = request.doc
     /\ call' = [call EXCEPT ![c] = Done(request, "ok")]

Refuse(c) ==
  /\ call[c].phase = "pending"
  /\ \E version \in Apparent : ~precondition_holds(call[c].request.pre, version)
  /\ call' = [call EXCEPT ![c] = Done(call[c].request, "PreconditionFailed")]
  /\ UNCHANGED object

Fail(c) ==
  /\ call[c].phase = "pending"
  /\ call' = [call EXCEPT ![c] = Done(call[c].request, "Backend")]
  /\ UNCHANGED object

Return(c) ==
  /\ call[c].phase = "done"
  /\ call' = [call EXCEPT ![c] = NoCall]
  /\ UNCHANGED object

\* A process that ends takes its calls with it.
Abandon(gone) ==
  /\ call' = [c \in Clients |-> IF c \in gone THEN NoCall ELSE call[c]]
  /\ UNCHANGED object

Next ==
  \/ \E c \in Clients : Invoke(c) \/ TakeEffect(c) \/ Refuse(c) \/ Fail(c) \/ Return(c)
  \/ \E gone \in SUBSET Clients : Abandon(gone)

Spec == Init /\ [][Next]_vars
=============================================================================
