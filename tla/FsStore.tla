------------------------------- MODULE FsStore -------------------------------
(***************************************************************************)
(* The directory-backed store (share-store/src/filesystem.rs), one system  *)
(* call per step, for one key.  An object is two files, the body and a     *)
(* sidecar whose first line is the version.  put and delete run under a    *)
(* lock of their process; get and head take none.                          *)
(***************************************************************************)
EXTENDS ObjectStore

CONSTANTS
  Clients,     \* threads that call the store, in any of the processes
  Processes,   \* server processes over the directory
  ProcessOf,   \* the process of each client
  Nobody,      \* the owner of a free lock
  Partial,     \* a body file that is created and not yet fully written
  Faults       \* which of "io", "sidecar" and "crash" may happen: a system
               \* call fails, the sidecar cannot be written or removed, or a
               \* process ends

ASSUME FsAssumption ==
  /\ Nobody \notin Clients
  /\ Partial \notin Docs \cup {NoDoc}
  /\ ProcessOf \in [Clients -> Processes]
  /\ Faults \subseteq {"io", "sidecar", "crash"}

VARIABLES
  body,     \* the object's file: a document, or NoDoc when there is none
  sidecar,  \* the version in the sidecar; Unknown when missing or empty
  staged,   \* the staging file of each client's write
  lock,     \* the mutation lock of each process
  pc,       \* the next system call of each client
  call,     \* its call: the operation, the precondition and the body
  got,      \* the body a get has read
  seen,     \* the version a get, a head or a precondition check has read
  outcome,  \* what its call returns
  torn      \* whether a write stopped between the two files and none was
            \* completed since (history)

vars == <<body, sidecar, staged, lock, pc, call, got, seen, outcome, torn>>

files == <<body, sidecar, staged, torn>>

Unknown == [digest |-> "unknown"]

(***************************************************************************)
(* The calls.  A version a caller names is one it was once given.          *)
(***************************************************************************)
FsPreconditions == Preconditions \cup {IfVersion(Unknown)}

Mutations ==
  [op : {"put"}, pre : FsPreconditions, doc : Docs]
  \cup [op : {"delete"}, pre : FsPreconditions \ {IfAbsent}, doc : {NoDoc}]

Reads == [op : {"get", "head"}, pre : {Unconditional}, doc : {NoDoc}]

NoCall == [op |-> "none", pre |-> Unconditional, doc |-> NoDoc]

Mutates(c) == call[c].op \in {"put", "delete"}

\* The name a write stages its body under: the same for no two writes.
staging_Fault(c) == CHOOSE any \in Clients : TRUE

staging(c) == c

Init ==
  /\ body \in Docs \cup {NoDoc}
  /\ sidecar = IF body = NoDoc THEN Unknown ELSE content_version(body)
  /\ staged = [c \in Clients |-> NoDoc]
  /\ lock = [p \in Processes |-> Nobody]
  /\ pc = [c \in Clients |-> "idle"]
  /\ call = [c \in Clients |-> NoCall]
  /\ got = [c \in Clients |-> NoDoc]
  /\ seen = [c \in Clients |-> NoVersion]
  /\ outcome = [c \in Clients |-> "none"]
  /\ torn = FALSE

Goto(c, label) == pc' = [pc EXCEPT ![c] = label]

Finish(c, result) ==
  /\ Goto(c, "return")
  /\ outcome' = [outcome EXCEPT ![c] = result]

Invoke(c) ==
  /\ pc[c] = "idle"
  /\ \E request \in Mutations \cup Reads :
       /\ call' = [call EXCEPT ![c] = request]
       /\ Goto(c, CASE request.op = "get"  -> "read"
                    [] request.op = "head" -> "stat"
                    [] OTHER               -> "lock")
  /\ UNCHANGED <<files, lock, got, seen, outcome>>

\* Only an IfAbsent put skips the check: the link will be its check.
Lock(c) ==
  /\ pc[c] = "lock"
  /\ lock[ProcessOf[c]] = Nobody
  /\ lock' = [lock EXCEPT ![ProcessOf[c]] = c]
  /\ Goto(c, IF call[c].op = "put" /\ call[c].pre = IfAbsent THEN "create" ELSE "stat")
  /\ UNCHANGED <<files, call, got, seen, outcome>>

(***************************************************************************)
(* Reading: the body (get), then meta_at, which is a stat of the body and  *)
(* a read of the sidecar.                                                  *)
(***************************************************************************)
ReadBody(c) ==
  /\ pc[c] = "read"
  /\ IF body = NoDoc
       THEN Finish(c, "absent") /\ UNCHANGED got
       ELSE Goto(c, "stat") /\ got' = [got EXCEPT ![c] = body] /\ UNCHANGED outcome
  /\ UNCHANGED <<files, lock, call, seen>>

\* meta_at is complete: a read returns, a mutation goes on if it may.
Decided(c, version) ==
  /\ seen' = [seen EXCEPT ![c] = version]
  /\ IF ~Mutates(c)
       THEN Finish(c, IF version = NoVersion THEN "absent" ELSE "ok")
       ELSE IF precondition_holds(call[c].pre, version)
         THEN Goto(c, IF call[c].op = "put" THEN "create" ELSE "unlink") /\ UNCHANGED outcome
         ELSE Finish(c, "PreconditionFailed")

Stat(c) ==
  /\ pc[c] = "stat"
  /\ IF body = NoDoc
       THEN Decided(c, NoVersion)
       ELSE Goto(c, "sidecar") /\ UNCHANGED <<seen, outcome>>
  /\ UNCHANGED <<files, lock, call, got>>

\* A sidecar that cannot be read is taken for one that holds no version:
\* read_sidecar swallows the error.
Legible == {sidecar} \cup IF "io" \in Faults THEN {Unknown} ELSE {}

ReadSidecar(c) ==
  /\ pc[c] = "sidecar"
  /\ \E version \in Legible : Decided(c, version)
  /\ UNCHANGED <<files, lock, call, got>>

(***************************************************************************)
(* put: stage the body, move it into place, then rewrite the sidecar.      *)
(***************************************************************************)
Create(c) ==
  /\ pc[c] = "create"
  /\ staged' = [staged EXCEPT ![staging(c)] = Partial]
  /\ Goto(c, "fill")
  /\ UNCHANGED <<body, sidecar, torn, lock, call, got, seen, outcome>>

Fill(c) ==
  /\ pc[c] = "fill"
  /\ staged' = [staged EXCEPT ![staging(c)] = call[c].doc]
  /\ Goto(c, "install")
  /\ UNCHANGED <<body, sidecar, torn, lock, call, got, seen, outcome>>

Install_Fault(c) ==
  /\ pc[c] = "install"
  /\ staged' = [staged EXCEPT ![staging(c)] = NoDoc]
  /\ body' = staged[staging(c)] /\ Goto(c, "truncate") /\ UNCHANGED outcome
  /\ UNCHANGED <<sidecar, torn, lock, call, got, seen>>

\* hard_link refuses to replace a file; rename replaces it.  The staging name
\* is gone after either.
Install(c) ==
  /\ pc[c] = "install"
  /\ staged' = [staged EXCEPT ![staging(c)] = NoDoc]
  /\ IF call[c].pre = IfAbsent /\ body # NoDoc
       THEN Finish(c, "PreconditionFailed") /\ UNCHANGED body
       ELSE body' = staged[staging(c)] /\ Goto(c, "truncate") /\ UNCHANGED outcome
  /\ UNCHANGED <<sidecar, torn, lock, call, got, seen>>

\* fs::write of the sidecar: the file is emptied, then written.
Truncate(c) ==
  /\ pc[c] = "truncate"
  /\ sidecar' = Unknown
  /\ Goto(c, "record")
  /\ UNCHANGED <<body, staged, torn, lock, call, got, seen, outcome>>

Record_Fault(c) ==
  /\ pc[c] = "record"
  /\ sidecar' = seen[c]
  /\ torn' = FALSE
  /\ Finish(c, "ok")
  /\ UNCHANGED <<body, staged, lock, call, got, seen>>

Record(c) ==
  /\ pc[c] = "record"
  /\ sidecar' = content_version(call[c].doc)
  /\ torn' = FALSE
  /\ Finish(c, "ok")
  /\ UNCHANGED <<body, staged, lock, call, got, seen>>

(***************************************************************************)
(* delete: the body goes first, then the sidecar.                          *)
(***************************************************************************)
Unlink(c) ==
  /\ pc[c] = "unlink"
  /\ body' = NoDoc
  /\ Goto(c, "forget")
  /\ UNCHANGED <<sidecar, staged, torn, lock, call, got, seen, outcome>>

Forget(c) ==
  /\ pc[c] = "forget"
  /\ sidecar' = Unknown
  /\ torn' = FALSE
  /\ Finish(c, "ok")
  /\ UNCHANGED <<body, staged, lock, call, got, seen>>

\* The guard is dropped on every way out.
Return(c) ==
  /\ pc[c] = "return"
  /\ lock' = IF Mutates(c) THEN [lock EXCEPT ![ProcessOf[c]] = Nobody] ELSE lock
  /\ Goto(c, "idle")
  /\ call' = [call EXCEPT ![c] = NoCall]
  /\ got' = [got EXCEPT ![c] = NoDoc]
  /\ seen' = [seen EXCEPT ![c] = NoVersion]
  /\ outcome' = [outcome EXCEPT ![c] = "none"]
  /\ UNCHANGED files

(***************************************************************************)
(* Failures: a system call that fails before the object has changed, the   *)
(* sidecar that cannot be written or removed after it has, and the end of  *)
(* a process, whose staging files nobody will look at again.               *)
(***************************************************************************)
IOFails(c) ==
  /\ "io" \in Faults
  /\ pc[c] \in {"read", "stat", "create", "fill", "install", "unlink"}
  /\ Finish(c, "Backend")
  /\ UNCHANGED <<files, lock, call, got, seen>>

\* Between its two files.
Changing(c) == pc[c] \in {"truncate", "record", "forget"}

\* A sidecar that delete cannot remove is left, and delete still succeeds.
SidecarFails(c) ==
  /\ "sidecar" \in Faults
  /\ Changing(c)
  /\ Finish(c, IF pc[c] = "forget" THEN "ok" ELSE "Backend")
  /\ torn' = TRUE
  /\ UNCHANGED <<body, sidecar, staged, lock, call, got, seen>>

Crash(p) ==
  LET Restarted(f, value) == [c \in Clients |-> IF ProcessOf[c] = p THEN value ELSE f[c]]
  IN
  /\ "crash" \in Faults
  /\ lock' = [lock EXCEPT ![p] = Nobody]
  /\ pc' = Restarted(pc, "idle")
  /\ call' = Restarted(call, NoCall)
  /\ got' = Restarted(got, NoDoc)
  /\ seen' = Restarted(seen, NoVersion)
  /\ outcome' = Restarted(outcome, "none")
  /\ staged' = Restarted(staged, NoDoc)
  /\ torn' = (torn \/ \E c \in Clients : ProcessOf[c] = p /\ Changing(c))
  /\ UNCHANGED <<body, sidecar>>

Proceed(c) ==
  \/ ReadBody(c) \/ Stat(c) \/ ReadSidecar(c)
  \/ Create(c) \/ Fill(c) \/ Install(c) \/ Truncate(c) \/ Record(c)
  \/ Unlink(c) \/ Forget(c)
  \/ Return(c)

Next ==
  \/ \E c \in Clients : Invoke(c) \/ Lock(c) \/ Proceed(c) \/ IOFails(c) \/ SidecarFails(c)
  \/ \E p \in Processes : Crash(p)

Spec == Init /\ [][Next]_vars

-----------------------------------------------------------------------------
(***************************************************************************)
(* Properties.                                                             *)
(***************************************************************************)
Labels ==
  {"idle", "lock", "read", "stat", "sidecar", "create", "fill", "install",
   "truncate", "record", "unlink", "forget", "return"}

Bodies == Docs \cup {NoDoc, Partial}

SeenVersions == Versions \cup {NoVersion, Unknown}

\* Every variable has its type.
TypeOK ==
  /\ body \in Bodies
  /\ sidecar \in Versions \cup {Unknown}
  /\ staged \in [Clients -> Bodies]
  /\ lock \in [Processes -> Clients \cup {Nobody}]
  /\ pc \in [Clients -> Labels]
  /\ call \in [Clients -> Mutations \cup Reads \cup {NoCall}]
  /\ got \in [Clients -> Bodies]
  /\ seen \in [Clients -> SeenVersions]
  /\ outcome \in [Clients -> {"none", "ok", "absent", "PreconditionFailed", "Backend"}]
  /\ torn \in BOOLEAN

\* Whoever looks while no mutation is in progress finds the version of the
\* body that is there, and no sidecar where there is none, unless a write was
\* cut off between the two files: by a crash, or by a sidecar that could not be
\* written or removed.  The stale version this leaves lasts no longer than to
\* the next put or delete that completes (filesystem.rs:48-57, the promise of
\* the lock within one process).
Describes(version, doc) ==
  version = IF doc = NoDoc THEN Unknown ELSE content_version(doc)

QuietMeansDescribed ==
  (\A p \in Processes : lock[p] = Nobody) /\ ~torn => Describes(sidecar, body)

\* No reader is given a half-written body, from whichever process, and
\* whatever failed (filesystem.rs:224-227, "Write-then-rename so a reader never
\* sees a half-written object").
ReadersSeeWholeBodies == body # Partial /\ \A c \in Clients : got[c] # Partial

\* A create replaces nothing, even when another process is writing and whatever
\* crashed before: the one guarantee that holds across processes
\* (filesystem.rs:198-201).
CreateReplacesNothing ==
  [][\A c \in Clients :
       (call[c].pre = IfAbsent /\ pc[c] = "install" /\ pc'[c] = "truncate")
         => body = NoDoc /\ body' = call[c].doc]_vars

\* What a get returns belongs together: a version that it names is that of the
\* body.  (That it may name none, "unknown", is documented of read_sidecar.)
GetDescribesItsBody ==
  \A c \in Clients :
    call[c].op = "get" /\ pc[c] = "return" /\ outcome[c] = "ok"
      => seen[c] \in {Unknown, content_version(got[c])}

(***************************************************************************)
(* Within one process put and delete are the atomic calls of AtomicStore:  *)
(* they take effect when the body is moved into place or removed.          *)
(***************************************************************************)
AbstractCall(c) ==
  IF pc[c] = "idle" \/ ~Mutates(c)
    THEN [phase |-> "idle"]
    ELSE CASE pc[c] \in {"truncate", "record", "forget"} ->
                [phase |-> "done", request |-> call[c], outcome |-> "ok"]
           [] pc[c] = "return" ->
                [phase |-> "done", request |-> call[c], outcome |-> outcome[c]]
           [] OTHER ->
                [phase |-> "pending", request |-> call[c]]

Atomic == INSTANCE AtomicStore WITH
  OtherTokens <- {Unknown},
  object <- body, call <- [c \in Clients |-> AbstractCall(c)]

\* Within one process put and delete take effect at one moment and only on the
\* version they name, or fail and change nothing, whichever system call fails
\* and whenever the process ends: but for a write that is cut off between the
\* two files, and until the next one that completes, when the sidecar may still
\* hold the version of an earlier body (filesystem.rs:189-195, "a real
\* compare-and-swap").  A sidecar that cannot be read costs this: a write that
\* names the right version may be refused, one that names "unknown" granted.
MutationsAreAtomic ==
  Atomic!Init /\ [][torn \/ torn' \/ Atomic!Next]_(Atomic!vars)

-----------------------------------------------------------------------------
(***************************************************************************)
(* The inductive invariants behind these properties.                       *)
(***************************************************************************)

\* Where a call can be, and what a write has staged when it is installed.
CallHolds(c) ==
  /\ pc[c] = "read" => call[c].op = "get"
  /\ pc[c] \in {"create", "fill", "install", "truncate", "record"} => call[c].op = "put"
  /\ pc[c] \in {"unlink", "forget"} => call[c].op = "delete"
  /\ pc[c] = "lock" => Mutates(c)
  /\ pc[c] = "install" => staged[c] = call[c].doc

StagingInv == TypeOK /\ ReadersSeeWholeBodies /\ \A c \in Clients : CallHolds(c)

\* A mutation holds the lock of its process from "lock" until it returns.
Critical(c) == Mutates(c) /\ pc[c] \notin {"idle", "lock"}

LockInv ==
  /\ \A c \in Clients : Critical(c) <=> lock[ProcessOf[c]] = c
  /\ \A p \in Processes, c \in Clients : lock[p] = c => ProcessOf[c] = p

\* What the holder of the lock knows of the two files.
Granted(c) ==
  \/ precondition_holds(call[c].pre, content_version(body))
  \/ body # NoDoc /\ precondition_holds(call[c].pre, Unknown)

HolderKnows(c) ==
  /\ Mutates(c) /\ pc[c] = "sidecar" => body # NoDoc
  /\ ~torn /\ pc[c] \in {"create", "fill", "install"} => call[c].pre = IfAbsent \/ Granted(c)
  /\ ~torn /\ pc[c] = "unlink" => Granted(c)
  /\ pc[c] \in {"truncate", "record"} => body = call[c].doc
  /\ pc[c] = "forget" => body = NoDoc

DescribedInv ==
  /\ \A c \in Clients : HolderKnows(c)
  /\ (\A c \in Clients : ~Changing(c)) /\ ~torn => Describes(sidecar, body)

FsInv == StagingInv /\ LockInv /\ DescribedInv

\* One server process over the directory.
OneProcess == \A c, d \in Clients : ProcessOf[c] = ProcessOf[d]
=============================================================================
