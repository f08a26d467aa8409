----------------------------- MODULE ObjectStore -----------------------------
(***************************************************************************)
(* What every object store of share-store has in common: the version of a  *)
(* body, and the preconditions of a conditional write.                     *)
(*                                                                         *)
(* In every module, a definition whose name has _Fault in it is a          *)
(* plausible slip in the one it precedes.  No specification uses it: the   *)
(* runs substitute it to show that a property notices.                     *)
(***************************************************************************)
EXTENDS Integers

CONSTANTS
  Docs,   \* Simple documents: the bodies of objects
  NoDoc   \* the body of an absent object

ASSUME StoreAssumption == NoDoc \notin Docs

\* The version is a digest of the body alone: an identical rewrite keeps it.
\* Two bodies that collide in the 64-bit digest are not modelled.
content_version(doc) == [digest |-> doc]

Versions == [digest : Docs]

\* No version, because there is no object.
NoVersion == content_version(NoDoc)

Unconditional      == [kind |-> "None",      version |-> NoVersion]
IfAbsent           == [kind |-> "IfAbsent",  version |-> NoVersion]
IfVersion(version) == [kind |-> "IfVersion", version |-> version]

Preconditions == {Unconditional, IfAbsent} \cup {IfVersion(v) : v \in Versions}

precondition_holds_Fault(pre, current) ==
  pre.kind = "IfVersion" => current = pre.version

\* Whether a write may go ahead, given the version the store holds.
precondition_holds(pre, current) ==
  CASE pre.kind = "None"      -> TRUE
    [] pre.kind = "IfAbsent"  -> current = NoVersion
    [] pre.kind = "IfVersion" -> current # NoVersion /\ current = pre.version
=============================================================================
