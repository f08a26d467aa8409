---------------------------- MODULE FsStoreProofs ----------------------------
(***************************************************************************)
(* Proofs about the directory-backed store, for any number of threads,     *)
(* processes and documents.                                                *)
(***************************************************************************)
EXTENDS FsStore, TLAPS

(***************************************************************************)
(* Types, whole bodies, and where a call can be.                           *)
(***************************************************************************)

\* No document is mistaken for no document, or for half of one.
LEMMA DocsAreWhole ==
  /\ NoDoc \notin Docs /\ Partial \notin Docs /\ Partial # NoDoc
  /\ \A v \in Versions : v # NoVersion
BY StoreAssumption, FsAssumption DEF Versions, NoVersion, content_version

\* The kinds of calls.
LEMMA CallKinds ==
  ASSUME NEW request \in Mutations \cup Reads \cup {NoCall}
  PROVE  /\ request.op \in {"put", "delete", "get", "head", "none"}
         /\ request.op = "put" => request.doc \in Docs
         /\ request.op = "put" => request.pre \in FsPreconditions
         /\ request.op = "delete" => request.doc = NoDoc
         /\ request.op = "delete" => request.pre \in FsPreconditions /\ request.pre # IfAbsent
         /\ request.op \in {"put", "delete"} => request \in Mutations
BY DEF Mutations, Reads, NoCall, Unconditional

\* The versions a call can see.
LEMMA VersionTypes ==
  /\ \A doc \in Docs : content_version(doc) \in Versions
  /\ Versions \subseteq SeenVersions
  /\ NoVersion \in SeenVersions /\ Unknown \in SeenVersions
BY DEF Versions, content_version, SeenVersions

\* Initially nothing is staged and nobody calls.
LEMMA StagingInit == Init => StagingInv
<1> SUFFICES ASSUME Init PROVE StagingInv
  OBVIOUS
<1>1. TypeOK
  BY DEF Init, TypeOK, Bodies, Labels, SeenVersions, Versions, content_version
<1>2. ReadersSeeWholeBodies
  BY DocsAreWhole DEF Init, ReadersSeeWholeBodies
<1>3. \A c \in Clients : CallHolds(c)
  BY DEF Init, CallHolds
<1>4. QED
  BY <1>1, <1>2, <1>3 DEF StagingInv

\* What a step of c leaves alone of the other clients, and of its own call.
LEMMA ProceedFrame ==
  ASSUME TypeOK, NEW c \in Clients,
         Lock(c) \/ Proceed(c) \/ IOFails(c) \/ SidecarFails(c),
         NEW d \in Clients, d # c
  PROVE  /\ pc'[d] = pc[d] /\ call'[d] = call[d] /\ outcome'[d] = outcome[d]
         /\ staged'[d] = staged[d] /\ got'[d] = got[d]
BY DEF TypeOK, Lock, Proceed, IOFails, SidecarFails, ReadBody, Stat, ReadSidecar, Decided,
       Create, Fill, Install, Truncate, Record, Unlink, Forget, Return, Goto, Finish, files, staging

\* Every step preserves the types.
LEMMA TypeStep == StagingInv /\ [Next]_vars => TypeOK'
<1> SUFFICES ASSUME StagingInv, [Next]_vars PROVE TypeOK'
  OBVIOUS
<1> USE DEF StagingInv, TypeOK
<1>1. ASSUME NEW c \in Clients, Invoke(c) PROVE TypeOK'
  BY <1>1 DEF Invoke, Goto, files, Labels
<1>2. ASSUME NEW c \in Clients, Lock(c) PROVE TypeOK'
  BY <1>2, CallKinds, VersionTypes, FsAssumption DEF Lock, Goto, files, Bodies, Labels,
     SeenVersions, CallHolds
<1>3. ASSUME NEW c \in Clients, ReadBody(c) PROVE TypeOK'
  BY <1>3, CallKinds, VersionTypes, FsAssumption DEF ReadBody, Finish, Goto, files,
     Bodies, Labels, SeenVersions, CallHolds
<1>4. ASSUME NEW c \in Clients, Stat(c) PROVE TypeOK'
  BY <1>4, CallKinds, VersionTypes, FsAssumption DEF Stat, Decided, Finish, Goto, files,
     Bodies, Labels, SeenVersions, CallHolds
<1>5. ASSUME NEW c \in Clients, ReadSidecar(c) PROVE TypeOK'
  <2>1. PICK version \in Legible : Decided(c, version)
    BY <1>5 DEF ReadSidecar
  <2>2. version \in SeenVersions
    BY DEF Legible, SeenVersions
  <2>3. QED
    BY <1>5, <2>1, <2>2 DEF ReadSidecar, Decided, Finish, Goto, files, Labels
<1>6. ASSUME NEW c \in Clients, Create(c) PROVE TypeOK'
  BY <1>6, CallKinds, VersionTypes, FsAssumption DEF Create, staging, Goto, Bodies,
     Labels, SeenVersions, CallHolds
<1>7. ASSUME NEW c \in Clients, Fill(c) PROVE TypeOK'
  BY <1>7, CallKinds, VersionTypes, FsAssumption DEF Fill, staging, Goto, Bodies, Labels,
     SeenVersions, CallHolds
<1>8. ASSUME NEW c \in Clients, Install(c) PROVE TypeOK'
  BY <1>8, CallKinds, VersionTypes, FsAssumption DEF Install, staging, Finish, Goto,
     Bodies, Labels, SeenVersions, CallHolds
<1>9. ASSUME NEW c \in Clients, Truncate(c) PROVE TypeOK'
  BY <1>9, CallKinds, VersionTypes, FsAssumption DEF Truncate, Goto, Bodies, Labels,
     SeenVersions, CallHolds
<1>10. ASSUME NEW c \in Clients, Record(c) PROVE TypeOK'
  BY <1>10, CallKinds, VersionTypes, FsAssumption DEF Record, Finish, Goto, Bodies,
     Labels, SeenVersions, CallHolds
<1>11. ASSUME NEW c \in Clients, Unlink(c) PROVE TypeOK'
  BY <1>11, CallKinds, VersionTypes, FsAssumption DEF Unlink, Goto, Bodies, Labels,
     SeenVersions, CallHolds
<1>12. ASSUME NEW c \in Clients, Forget(c) PROVE TypeOK'
  BY <1>12, CallKinds, VersionTypes, FsAssumption DEF Forget, Finish, Goto, Bodies,
     Labels, SeenVersions, CallHolds
<1>13. ASSUME NEW c \in Clients, Return(c) PROVE TypeOK'
  BY <1>13, CallKinds, VersionTypes, FsAssumption DEF Return, Goto, files, Bodies, Labels,
     SeenVersions, CallHolds
<1>14. ASSUME NEW c \in Clients, IOFails(c) PROVE TypeOK'
  BY <1>14, CallKinds, VersionTypes, FsAssumption DEF IOFails, Finish, Goto, files,
     Bodies, Labels, SeenVersions, CallHolds
<1>15. ASSUME NEW c \in Clients, SidecarFails(c) PROVE TypeOK'
  BY <1>15, CallKinds, VersionTypes, FsAssumption DEF SidecarFails, Finish, Goto, files,
     Bodies, Labels, SeenVersions, CallHolds
<1>16. ASSUME NEW p \in Processes, Crash(p) PROVE TypeOK'
  BY <1>16 DEF Crash, Bodies, Labels, SeenVersions
<1>17. CASE UNCHANGED vars
  BY <1>17 DEF vars
<1>18. QED
  BY <1>1, <1>2, <1>3, <1>4, <1>5, <1>6, <1>7, <1>8, <1>9, <1>10, <1>11, <1>12, <1>13,
     <1>14, <1>15, <1>16, <1>17 DEF Next, Proceed

\* Every step keeps bodies whole: what is installed was staged in full by the same
\* call, whichever process it runs in.
LEMMA WholeStep == StagingInv /\ [Next]_vars => ReadersSeeWholeBodies'
<1> SUFFICES ASSUME StagingInv, [Next]_vars PROVE ReadersSeeWholeBodies'
  OBVIOUS
<1> USE DEF StagingInv, TypeOK
<1>1. ASSUME NEW c \in Clients, Invoke(c) PROVE ReadersSeeWholeBodies'
  BY <1>1, DocsAreWhole, CallKinds DEF Invoke, Goto, files, ReadersSeeWholeBodies, CallHolds
<1>2. ASSUME NEW c \in Clients, Lock(c) PROVE ReadersSeeWholeBodies'
  BY <1>2, DocsAreWhole, CallKinds DEF Lock, Goto, files, ReadersSeeWholeBodies, CallHolds
<1>3. ASSUME NEW c \in Clients, ReadBody(c) PROVE ReadersSeeWholeBodies'
  BY <1>3, DocsAreWhole, CallKinds DEF ReadBody, Finish, Goto, files,
     ReadersSeeWholeBodies, CallHolds
<1>4. ASSUME NEW c \in Clients, Stat(c) PROVE ReadersSeeWholeBodies'
  BY <1>4, DocsAreWhole, CallKinds DEF Stat, Decided, Finish, Goto, files,
     ReadersSeeWholeBodies, CallHolds
<1>5. ASSUME NEW c \in Clients, ReadSidecar(c) PROVE ReadersSeeWholeBodies'
  BY <1>5, DocsAreWhole, CallKinds DEF ReadSidecar, Decided, Finish, Goto, files,
     ReadersSeeWholeBodies, CallHolds
<1>6. ASSUME NEW c \in Clients, Create(c) PROVE ReadersSeeWholeBodies'
  BY <1>6, DocsAreWhole, CallKinds DEF Create, staging, Goto, ReadersSeeWholeBodies, CallHolds
<1>7. ASSUME NEW c \in Clients, Fill(c) PROVE ReadersSeeWholeBodies'
  BY <1>7, DocsAreWhole, CallKinds DEF Fill, staging, Goto, ReadersSeeWholeBodies, CallHolds
<1>8. ASSUME NEW c \in Clients, Install(c) PROVE ReadersSeeWholeBodies'
  BY <1>8, DocsAreWhole, CallKinds DEF Install, staging, Finish, Goto,
     ReadersSeeWholeBodies, CallHolds
<1>9. ASSUME NEW c \in Clients, Truncate(c) PROVE ReadersSeeWholeBodies'
  BY <1>9, DocsAreWhole, CallKinds DEF Truncate, Goto, ReadersSeeWholeBodies, CallHolds
<1>10. ASSUME NEW c \in Clients, Record(c) PROVE ReadersSeeWholeBodies'
  BY <1>10, DocsAreWhole, CallKinds DEF Record, Finish, Goto, ReadersSeeWholeBodies, CallHolds
<1>11. ASSUME NEW c \in Clients, Unlink(c) PROVE ReadersSeeWholeBodies'
  BY <1>11, DocsAreWhole, CallKinds DEF Unlink, Goto, ReadersSeeWholeBodies, CallHolds
<1>12. ASSUME NEW c \in Clients, Forget(c) PROVE ReadersSeeWholeBodies'
  BY <1>12, DocsAreWhole, CallKinds DEF Forget, Finish, Goto, ReadersSeeWholeBodies, CallHolds
<1>13. ASSUME NEW c \in Clients, Return(c) PROVE ReadersSeeWholeBodies'
  BY <1>13, DocsAreWhole, CallKinds DEF Return, Goto, files, ReadersSeeWholeBodies, CallHolds
<1>14. ASSUME NEW c \in Clients, IOFails(c) PROVE ReadersSeeWholeBodies'
  BY <1>14, DocsAreWhole, CallKinds DEF IOFails, Finish, Goto, files,
     ReadersSeeWholeBodies, CallHolds
<1>15. ASSUME NEW c \in Clients, SidecarFails(c) PROVE ReadersSeeWholeBodies'
  BY <1>15, DocsAreWhole, CallKinds DEF SidecarFails, Finish, Goto, files,
     ReadersSeeWholeBodies, CallHolds
<1>16. ASSUME NEW p \in Processes, Crash(p) PROVE ReadersSeeWholeBodies'
  BY <1>16, DocsAreWhole, CallKinds DEF Crash, ReadersSeeWholeBodies
<1>17. CASE UNCHANGED vars
  BY <1>17 DEF vars, ReadersSeeWholeBodies
<1>18. QED
  BY <1>1, <1>2, <1>3, <1>4, <1>5, <1>6, <1>7, <1>8, <1>9, <1>10, <1>11, <1>12, <1>13,
     <1>14, <1>15, <1>16, <1>17 DEF Next, Proceed

\* Every step keeps each call where its kind may be, with its own document staged.
LEMMA CallStep == StagingInv /\ [Next]_vars => (\A c \in Clients : CallHolds(c))'
<1> SUFFICES ASSUME StagingInv, [Next]_vars, NEW d \in Clients PROVE CallHolds(d)'
  OBVIOUS
<1> USE DEF StagingInv, TypeOK, CallHolds, Mutates
<1>1. ASSUME NEW c \in Clients, Invoke(c) PROVE CallHolds(d)'
  <2>1. PICK request \in Mutations \cup Reads :
          /\ call' = [call EXCEPT ![c] = request]
          /\ Goto(c, CASE request.op = "get"  -> "read"
                       [] request.op = "head" -> "stat"
                       [] OTHER               -> "lock")
    BY <1>1 DEF Invoke
  <2>2. pc'[c] \in {"read", "stat", "lock"} /\ call'[c] = request
    BY <2>1 DEF Goto
  <2>3. /\ pc'[c] = "lock" => request.op \in {"put", "delete"}
        /\ pc'[c] = "read" => request.op = "get"
    BY <2>1 DEF Goto, Mutations, Reads
  <2>4. CASE d = c
    BY <2>2, <2>3, <2>4
  <2>5. CASE d # c
    BY <1>1, <2>1, <2>5 DEF Invoke, Goto, files
  <2>6. QED
    BY <2>4, <2>5
<1>2. ASSUME NEW c \in Clients, Lock(c) PROVE CallHolds(d)'
  BY <1>2, CallKinds DEF Lock, Goto, files, Labels
<1>3. ASSUME NEW c \in Clients, ReadBody(c) PROVE CallHolds(d)'
  BY <1>3, CallKinds DEF ReadBody, Finish, Goto, files, Labels
<1>4. ASSUME NEW c \in Clients, Stat(c) PROVE CallHolds(d)'
  BY <1>4, CallKinds DEF Stat, Decided, Finish, Goto, files, Labels
<1>5. ASSUME NEW c \in Clients, ReadSidecar(c) PROVE CallHolds(d)'
  BY <1>5, CallKinds DEF ReadSidecar, Decided, Finish, Goto, files, Labels
<1>6. ASSUME NEW c \in Clients, Create(c) PROVE CallHolds(d)'
  BY <1>6, CallKinds DEF Create, staging, Goto, Labels
<1>7. ASSUME NEW c \in Clients, Fill(c) PROVE CallHolds(d)'
  BY <1>7, CallKinds DEF Fill, staging, Goto, Labels
<1>8. ASSUME NEW c \in Clients, Install(c) PROVE CallHolds(d)'
  BY <1>8, CallKinds DEF Install, staging, Finish, Goto, Labels
<1>9. ASSUME NEW c \in Clients, Truncate(c) PROVE CallHolds(d)'
  BY <1>9, CallKinds DEF Truncate, Goto, Labels
<1>10. ASSUME NEW c \in Clients, Record(c) PROVE CallHolds(d)'
  BY <1>10, CallKinds DEF Record, Finish, Goto, Labels
<1>11. ASSUME NEW c \in Clients, Unlink(c) PROVE CallHolds(d)'
  BY <1>11, CallKinds DEF Unlink, Goto, Labels
<1>12. ASSUME NEW c \in Clients, Forget(c) PROVE CallHolds(d)'
  BY <1>12, CallKinds DEF Forget, Finish, Goto, Labels
<1>13. ASSUME NEW c \in Clients, Return(c) PROVE CallHolds(d)'
  BY <1>13, CallKinds DEF Return, Goto, files, Labels
<1>14. ASSUME NEW c \in Clients, IOFails(c) PROVE CallHolds(d)'
  BY <1>14, CallKinds DEF IOFails, Finish, Goto, files, Labels
<1>15. ASSUME NEW c \in Clients, SidecarFails(c) PROVE CallHolds(d)'
  BY <1>15, CallKinds DEF SidecarFails, Finish, Goto, files, Labels
<1>16. ASSUME NEW p \in Processes, Crash(p) PROVE CallHolds(d)'
  BY <1>16, CallKinds DEF Crash, NoCall
<1>17. CASE UNCHANGED vars
  BY <1>17 DEF vars
<1>18. QED
  BY <1>1, <1>2, <1>3, <1>4, <1>5, <1>6, <1>7, <1>8, <1>9, <1>10, <1>11, <1>12, <1>13,
     <1>14, <1>15, <1>16, <1>17 DEF Next, Proceed

\* In every reachable state of any number of threads and processes, whatever
\* fails and whoever crashes, calls are where their kinds may be, and bodies
\* are whole (filesystem.rs put, get, delete).
THEOREM StagingInvariant == Spec => []StagingInv
<1>1. Init => StagingInv
  BY StagingInit
<1>2. StagingInv /\ [Next]_vars => StagingInv'
  BY TypeStep, WholeStep, CallStep DEF StagingInv
<1>3. QED
  BY <1>1, <1>2, PTL DEF Spec

\* Every variable keeps its type (filesystem.rs, the two files and the lock).
THEOREM FsTypeCorrect == Spec => []TypeOK
<1>1. StagingInv => TypeOK
  BY DEF StagingInv
<1>2. QED
  BY <1>1, StagingInvariant, PTL

\* No reader is given a half-written body, whatever crashed or failed, in any
\* number of processes over one directory (filesystem.rs:224-227).
THEOREM WholeBodiesTheorem == Spec => []ReadersSeeWholeBodies
<1>1. StagingInv => ReadersSeeWholeBodies
  BY DEF StagingInv
<1>2. QED
  BY <1>1, StagingInvariant, PTL

\* A create replaces nothing and installs its own document, whatever other
\* processes do and whoever crashed before (filesystem.rs:198-201).
THEOREM FsCreateTheorem == Spec => CreateReplacesNothing
<1> DEFINE Installs(c) == call[c].pre = IfAbsent /\ pc[c] = "install" /\ pc'[c] = "truncate"
           Step == \A c \in Clients : Installs(c) => body = NoDoc /\ body' = call[c].doc
<1>1. ASSUME StagingInv, [Next]_vars PROVE Step
  <2> SUFFICES ASSUME NEW c \in Clients, Installs(c) PROVE body = NoDoc /\ body' = call[c].doc
    BY DEF Step
  <2>1. Install(c)
    BY <1>1 DEF StagingInv, TypeOK, Next, Invoke, Lock, Proceed, IOFails, SidecarFails, Crash,
       ReadBody, Stat, ReadSidecar, Decided, Create, Fill, Install, Truncate, Record, Unlink,
       Forget, Return, Goto, Finish, vars
  <2>2. QED
    BY <1>1, <2>1 DEF StagingInv, TypeOK, CallHolds, Install, Finish, Goto, staging
<1>2. QED
  BY <1>1, StagingInvariant, PTL DEF Spec, CreateReplacesNothing

(***************************************************************************)
(* The lock.  A mutation is between "lock" and its return exactly while it *)
(* holds the lock of its process.                                          *)
(***************************************************************************)
LEMMA LockInit == Init => LockInv
BY FsAssumption DEF Init, LockInv, Critical, Mutates, NoCall

\* Every step keeps the lock with the mutation that is under way, crashes included.
LEMMA LockStep == StagingInv /\ LockInv /\ [Next]_vars => LockInv'
<1> SUFFICES ASSUME StagingInv, LockInv, [Next]_vars PROVE LockInv'
  OBVIOUS
<1> USE FsAssumption DEF StagingInv, TypeOK, LockInv, Critical, Mutates
<1>1. ASSUME NEW c \in Clients, Invoke(c) PROVE LockInv'
  BY <1>1, CallKinds DEF Invoke, Goto, files, CallHolds, Labels
<1>2. ASSUME NEW c \in Clients, Lock(c) PROVE LockInv'
  BY <1>2, CallKinds DEF Lock, Goto, files, CallHolds, Labels
<1>3. ASSUME NEW c \in Clients, ReadBody(c) PROVE LockInv'
  BY <1>3, CallKinds DEF ReadBody, Finish, Goto, files, CallHolds, Labels
<1>4. ASSUME NEW c \in Clients, Stat(c) PROVE LockInv'
  BY <1>4, CallKinds DEF Stat, Decided, Finish, Goto, files, CallHolds, Labels
<1>5. ASSUME NEW c \in Clients, ReadSidecar(c) PROVE LockInv'
  BY <1>5, CallKinds DEF ReadSidecar, Decided, Finish, Goto, files, CallHolds, Labels
<1>6. ASSUME NEW c \in Clients, Create(c) PROVE LockInv'
  BY <1>6, CallKinds DEF Create, staging, Goto, CallHolds, Labels
<1>7. ASSUME NEW c \in Clients, Fill(c) PROVE LockInv'
  BY <1>7, CallKinds DEF Fill, staging, Goto, CallHolds, Labels
<1>8. ASSUME NEW c \in Clients, Install(c) PROVE LockInv'
  BY <1>8, CallKinds DEF Install, staging, Finish, Goto, CallHolds, Labels
<1>9. ASSUME NEW c \in Clients, Truncate(c) PROVE LockInv'
  BY <1>9, CallKinds DEF Truncate, Goto, CallHolds, Labels
<1>10. ASSUME NEW c \in Clients, Record(c) PROVE LockInv'
  BY <1>10, CallKinds DEF Record, Finish, Goto, CallHolds, Labels
<1>11. ASSUME NEW c \in Clients, Unlink(c) PROVE LockInv'
  BY <1>11, CallKinds DEF Unlink, Goto, CallHolds, Labels
<1>12. ASSUME NEW c \in Clients, Forget(c) PROVE LockInv'
  BY <1>12, CallKinds DEF Forget, Finish, Goto, CallHolds, Labels
<1>13. ASSUME NEW c \in Clients, Return(c) PROVE LockInv'
  BY <1>13, CallKinds DEF Return, Goto, files, CallHolds, Labels
<1>14. ASSUME NEW c \in Clients, IOFails(c) PROVE LockInv'
  BY <1>14, CallKinds DEF IOFails, Finish, Goto, files, CallHolds, Labels
<1>15. ASSUME NEW c \in Clients, SidecarFails(c) PROVE LockInv'
  BY <1>15, CallKinds DEF SidecarFails, Changing, Finish, Goto, CallHolds, Labels
<1>16. ASSUME NEW p \in Processes, Crash(p) PROVE LockInv'
  BY <1>16, CallKinds DEF Crash, NoCall
<1>17. CASE UNCHANGED vars
  BY <1>17 DEF vars
<1>18. QED
  BY <1>1, <1>2, <1>3, <1>4, <1>5, <1>6, <1>7, <1>8, <1>9, <1>10, <1>11, <1>12, <1>13,
     <1>14, <1>15, <1>16, <1>17 DEF Next, Proceed

\* In every reachable state the lock of a process is held by the mutation that
\* is between its checks and its return (filesystem.rs locked).
THEOREM LockInvariant == Spec => [](StagingInv /\ LockInv)
<1>1. Init => StagingInv /\ LockInv
  BY StagingInit, LockInit
<1>2. StagingInv /\ LockInv /\ [Next]_vars => (StagingInv /\ LockInv)'
  BY TypeStep, WholeStep, CallStep, LockStep DEF StagingInv
<1>3. QED
  BY <1>1, <1>2, PTL DEF Spec

(***************************************************************************)
(* One process.  Whoever holds the lock is the only one who changes the    *)
(* two files, so what it has found out is still so.                        *)
(***************************************************************************)
\* A call past the lock is one that holds it.
LEMMA InCritical ==
  ASSUME StagingInv, NEW c \in Clients,
         \/ pc[c] \in {"create", "fill", "install", "truncate", "record", "unlink", "forget"}
         \/ Mutates(c) /\ pc[c] \in {"stat", "sidecar", "return"}
  PROVE  Critical(c)
BY DEF StagingInv, CallHolds, Critical, Mutates

\* Two mutations of one process are never past the lock at once.
LEMMA Exclusion ==
  ASSUME OneProcess, LockInv, NEW c \in Clients, NEW d \in Clients, Critical(c), Critical(d)
  PROVE  c = d
BY DEF OneProcess, LockInv

\* Initially the sidecar describes the body.
LEMMA DescribedInit == Init => DescribedInv
BY DEF Init, DescribedInv, HolderKnows, Describes, Changing, Mutates, NoCall

\* What a mutation that reads the sidecar goes by, when no write was cut off:
\* the version of the body, or "unknown".
LEMMA SidecarTells ==
  ASSUME OneProcess, FsInv, ~torn, NEW c \in Clients, Mutates(c), pc[c] = "sidecar",
         NEW version \in Legible
  PROVE  /\ body # NoDoc
         /\ version \in {content_version(body), Unknown}
<1>1. body # NoDoc
  BY DEF FsInv, DescribedInv, HolderKnows
<1>2. \A d \in Clients : ~Changing(d)
  BY InCritical, Exclusion DEF FsInv, Changing
<1>3. sidecar = content_version(body)
  BY <1>1, <1>2 DEF FsInv, DescribedInv, Describes
<1>4. QED
  BY <1>1, <1>3 DEF Legible

\* Every step of one process keeps what the holder of the lock knows, and the
\* sidecar in step with the body whenever nobody is between the two and no write
\* was cut off there.
LEMMA DescribedStep ==
  ASSUME OneProcess PROVE FsInv /\ [Next]_vars => DescribedInv'
<1> SUFFICES ASSUME FsInv, [Next]_vars PROVE DescribedInv'
  OBVIOUS
<1> USE DEF FsInv, StagingInv, TypeOK, DescribedInv, HolderKnows, Granted, Changing, Mutates
<1>1. ASSUME NEW c \in Clients, Invoke(c) PROVE DescribedInv'
  <2>1. PICK request \in Mutations \cup Reads :
          /\ call' = [call EXCEPT ![c] = request]
          /\ Goto(c, CASE request.op = "get"  -> "read"
                       [] request.op = "head" -> "stat"
                       [] OTHER               -> "lock")
    BY <1>1 DEF Invoke
  <2>2. pc[c] = "idle" /\ pc'[c] \in {"read", "stat", "lock"}
    BY <1>1, <2>1 DEF Invoke, Goto
  <2>3. \A d \in Clients : d # c => pc'[d] = pc[d] /\ call'[d] = call[d]
    BY <2>1 DEF Goto
  <2>4. body' = body /\ sidecar' = sidecar /\ torn' = torn
    BY <1>1 DEF Invoke, files
  <2>5. QED
    BY <2>2, <2>3, <2>4 DEF Describes
<1>2. ASSUME NEW c \in Clients, Lock(c) PROVE DescribedInv'
  BY <1>2 DEF Lock, Goto, files, CallHolds
<1>3. ASSUME NEW c \in Clients, ReadBody(c) PROVE DescribedInv'
  BY <1>3 DEF ReadBody, Finish, Goto, files, CallHolds
<1>4. ASSUME NEW c \in Clients, Stat(c) PROVE DescribedInv'
  BY <1>4 DEF Stat, Decided, Finish, Goto, files, CallHolds, content_version, NoVersion
<1>5. ASSUME NEW c \in Clients, ReadSidecar(c) PROVE DescribedInv'
  <2>1. PICK version \in Legible : Decided(c, version)
    BY <1>5 DEF ReadSidecar
  <2>2. ~torn /\ Mutates(c) /\ precondition_holds(call[c].pre, version) => Granted(c)
    BY <1>5, SidecarTells DEF ReadSidecar
  <2>3. QED
    BY <1>5, <2>1, <2>2 DEF ReadSidecar, Decided, Finish, Goto, files
<1>6. ASSUME NEW c \in Clients, Create(c) PROVE DescribedInv'
  BY <1>6 DEF Create, staging, Goto, CallHolds
<1>7. ASSUME NEW c \in Clients, Fill(c) PROVE DescribedInv'
  BY <1>7 DEF Fill, staging, Goto, CallHolds
<1>8. ASSUME NEW c \in Clients, Install(c) PROVE DescribedInv'
  <2>1. \A d \in Clients : d # c => ~Critical(d)
    BY <1>8, InCritical, Exclusion DEF Install
  <2>2. \A d \in Clients : d # c => HolderKnows(d)'
    BY <1>8, <2>1, InCritical DEF Install, staging, Finish, Goto
  <2>3. HolderKnows(c)'
    BY <1>8 DEF Install, staging, Finish, Goto, CallHolds
  <2>4. QED
    BY <1>8, <2>2, <2>3 DEF Install, staging, Finish, Goto
<1>9. ASSUME NEW c \in Clients, Truncate(c) PROVE DescribedInv'
  BY <1>9 DEF Truncate, Goto, CallHolds
<1>10. ASSUME NEW c \in Clients, Record(c) PROVE DescribedInv'
  <2>1. \A d \in Clients : d # c => ~Critical(d)
    BY <1>10, InCritical, Exclusion DEF Record
  <2>2. \A d \in Clients : d # c => HolderKnows(d)'
    BY <1>10, <2>1, InCritical DEF Record, Finish, Goto
  <2>3. HolderKnows(c)'
    BY <1>10 DEF Record, Finish, Goto
  <2>4. Describes(sidecar, body)'
    BY <1>10, CallKinds, DocsAreWhole DEF Record, CallHolds, Describes
  <2>5. QED
    BY <2>2, <2>3, <2>4
<1>11. ASSUME NEW c \in Clients, Unlink(c) PROVE DescribedInv'
  <2>1. \A d \in Clients : d # c => ~Critical(d)
    BY <1>11, InCritical, Exclusion DEF Unlink
  <2>2. \A d \in Clients : d # c => HolderKnows(d)'
    BY <1>11, <2>1, InCritical DEF Unlink, Goto
  <2>3. HolderKnows(c)'
    BY <1>11 DEF Unlink, Goto, CallHolds
  <2>4. QED
    BY <1>11, <2>2, <2>3 DEF Unlink, Goto
<1>12. ASSUME NEW c \in Clients, Forget(c) PROVE DescribedInv'
  <2>1. \A d \in Clients : d # c => ~Critical(d)
    BY <1>12, InCritical, Exclusion DEF Forget
  <2>2. \A d \in Clients : d # c => HolderKnows(d)'
    BY <1>12, <2>1, InCritical DEF Forget, Finish, Goto
  <2>3. HolderKnows(c)'
    BY <1>12 DEF Forget, Finish, Goto
  <2>4. Describes(sidecar, body)'
    BY <1>12 DEF Forget, Describes
  <2>5. QED
    BY <2>2, <2>3, <2>4
<1>13. ASSUME NEW c \in Clients, Return(c) PROVE DescribedInv'
  BY <1>13 DEF Return, Goto, files, CallHolds
<1>14. ASSUME NEW c \in Clients, IOFails(c) PROVE DescribedInv'
  BY <1>14 DEF IOFails, Finish, Goto, files, CallHolds
<1>15. ASSUME NEW c \in Clients, SidecarFails(c) PROVE DescribedInv'
  BY <1>15 DEF SidecarFails, Finish, Goto, CallHolds
<1>16. ASSUME NEW p \in Processes, Crash(p) PROVE DescribedInv'
  <2>1. \A c \in Clients : ProcessOf[c] = p => HolderKnows(c)'
    BY <1>16 DEF Crash, NoCall
  <2>2. \A c \in Clients : ProcessOf[c] # p => HolderKnows(c)'
    BY <1>16 DEF Crash
  <2>3. (\A c \in Clients : ~Changing(c))' /\ ~torn' => \A c \in Clients : ~Changing(c)
    BY <1>16 DEF Crash
  <2>4. QED
    BY <1>16, <2>1, <2>2, <2>3 DEF Crash, Describes
<1>17. CASE UNCHANGED vars
  BY <1>17 DEF vars, Describes
<1>18. QED
  BY <1>1, <1>2, <1>3, <1>4, <1>5, <1>6, <1>7, <1>8, <1>9, <1>10, <1>11, <1>12, <1>13,
     <1>14, <1>15, <1>16, <1>17 DEF Next, Proceed

\* In every reachable state of one process all of the invariants hold.
LEMMA FsInvariant == ASSUME OneProcess PROVE Spec => []FsInv
<1>1. Init => FsInv
  BY StagingInit, LockInit, DescribedInit DEF FsInv
<1>2. FsInv /\ [Next]_vars => FsInv'
  BY TypeStep, WholeStep, CallStep, LockStep, DescribedStep DEF FsInv, StagingInv
<1>3. QED
  BY <1>1, <1>2, PTL DEF Spec

\* Within one process, whatever fails and whenever it ends, the sidecar
\* describes the body whenever no mutation is in progress, but from a write that
\* was cut off between the two files to the next one that completes
\* (filesystem.rs:48-57 and 189-195).
THEOREM QuietTheorem ==
  ASSUME OneProcess PROVE Spec => []QuietMeansDescribed
<1>1. FsInv => QuietMeansDescribed
  <2> SUFFICES ASSUME FsInv, ~torn, \A p \in Processes : lock[p] = Nobody
               PROVE  Describes(sidecar, body)
    BY DEF QuietMeansDescribed
  <2>1. \A c \in Clients : ~Critical(c)
    BY FsAssumption DEF FsInv, LockInv
  <2>2. \A c \in Clients : ~Changing(c)
    BY <2>1, InCritical DEF Changing, FsInv
  <2>3. QED
    BY <2>2 DEF FsInv, DescribedInv
<1>2. QED
  BY <1>1, FsInvariant, PTL

(***************************************************************************)
(* put and delete of one process implement the atomic store.               *)
(***************************************************************************)

\* A step of c changes the abstract call of c alone.
LEMMA AbstractFrame ==
  ASSUME NEW c \in Clients, NEW state, AbstractCall(c)' = state,
         \A d \in Clients : d # c =>
           pc'[d] = pc[d] /\ call'[d] = call[d] /\ outcome'[d] = outcome[d]
  PROVE  [d \in Clients |-> AbstractCall(d)]' =
           [[d \in Clients |-> AbstractCall(d)] EXCEPT ![c] = state]
<1>1. \A d \in Clients : d # c => AbstractCall(d)' = AbstractCall(d)
  BY DEF AbstractCall, Mutates
<1>2. QED
  BY <1>1

\* A step that leaves the body and the abstract call of c alone is a stutter.
LEMMA AbstractStutter ==
  ASSUME NEW c \in Clients, AbstractCall(c)' = AbstractCall(c), body' = body,
         \A d \in Clients : d # c =>
           pc'[d] = pc[d] /\ call'[d] = call[d] /\ outcome'[d] = outcome[d]
  PROVE  UNCHANGED Atomic!vars
<1>1. \A d \in Clients : AbstractCall(d)' = AbstractCall(d)
  BY DEF AbstractCall, Mutates
<1>2. QED
  BY <1>1 DEF Atomic!vars

\* The store starts as the atomic store does.
LEMMA RefinementInit == Init => Atomic!Init
BY DEF Init, Atomic!Init, AbstractCall, Atomic!NoCall

\* Both modules judge a precondition alike.
LEMMA SamePrecondition ==
  ASSUME NEW pre, NEW version
  PROVE  Atomic!precondition_holds(pre, version) = precondition_holds(pre, version)
BY DEF Atomic!precondition_holds, precondition_holds, Atomic!content_version, content_version,
   Atomic!NoVersion, NoVersion

\* What may be found to be the version of the object: that of the body, or
\* "unknown" where there is one.
LEMMA ApparentVersions ==
  /\ content_version(body) \in Atomic!Apparent
  /\ body # NoDoc => Unknown \in Atomic!Apparent
BY DEF Atomic!Apparent, Atomic!content_version, content_version

\* A pending call whose precondition holds takes effect.
LEMMA AbstractTakeEffect ==
  ASSUME NEW c \in Clients, AbstractCall(c) = Atomic!Pending(call[c]),
         AbstractCall(c)' = Atomic!Done(call[c], "ok"), Granted(c), body' = call[c].doc,
         \A d \in Clients : d # c =>
           pc'[d] = pc[d] /\ call'[d] = call[d] /\ outcome'[d] = outcome[d]
  PROVE  Atomic!Next
<1> DEFINE abstract == [d \in Clients |-> AbstractCall(d)]
<1>1. abstract' = [abstract EXCEPT ![c] = Atomic!Done(call[c], "ok")]
  BY AbstractFrame
<1>2. abstract[c] = Atomic!Pending(call[c])
  OBVIOUS
<1>3. abstract[c].phase = "pending" /\ abstract[c].request = call[c]
  BY <1>2 DEF Atomic!Pending
<1> HIDE DEF abstract
<1>4. \E version \in Atomic!Apparent : Atomic!precondition_holds(call[c].pre, version)
  BY SamePrecondition, ApparentVersions DEF Granted
<1>5. Atomic!TakeEffect(c)
  BY <1>1, <1>3, <1>4 DEF Atomic!TakeEffect, abstract
<1>6. QED
  BY <1>5 DEF Atomic!Next

\* A pending call is refused when its precondition does not hold.
LEMMA AbstractRefuse ==
  ASSUME NEW c \in Clients, AbstractCall(c) = Atomic!Pending(call[c]),
         AbstractCall(c)' = Atomic!Done(call[c], "PreconditionFailed"),
         NEW version \in Atomic!Apparent, ~precondition_holds(call[c].pre, version),
         body' = body,
         \A d \in Clients : d # c =>
           pc'[d] = pc[d] /\ call'[d] = call[d] /\ outcome'[d] = outcome[d]
  PROVE  Atomic!Next
<1> DEFINE abstract == [d \in Clients |-> AbstractCall(d)]
<1>1. abstract' = [abstract EXCEPT ![c] = Atomic!Done(call[c], "PreconditionFailed")]
  BY AbstractFrame
<1>2. abstract[c] = Atomic!Pending(call[c])
  OBVIOUS
<1>3. abstract[c].phase = "pending" /\ abstract[c].request = call[c]
  BY <1>2 DEF Atomic!Pending
<1> HIDE DEF abstract
<1>4. Atomic!Refuse(c)
  BY <1>1, <1>3, SamePrecondition DEF Atomic!Refuse, abstract
<1>5. QED
  BY <1>4 DEF Atomic!Next

\* A pending call fails without effect.
LEMMA AbstractFail ==
  ASSUME NEW c \in Clients, AbstractCall(c) = Atomic!Pending(call[c]),
         AbstractCall(c)' = Atomic!Done(call[c], "Backend"),
         body' = body,
         \A d \in Clients : d # c =>
           pc'[d] = pc[d] /\ call'[d] = call[d] /\ outcome'[d] = outcome[d]
  PROVE  Atomic!Next
<1> DEFINE abstract == [d \in Clients |-> AbstractCall(d)]
<1>1. abstract' = [abstract EXCEPT ![c] = Atomic!Done(call[c], "Backend")]
  BY AbstractFrame
<1>2. abstract[c] = Atomic!Pending(call[c])
  OBVIOUS
<1>3. abstract[c].phase = "pending" /\ abstract[c].request = call[c]
  BY <1>2 DEF Atomic!Pending
<1> HIDE DEF abstract
<1>4. Atomic!Fail(c)
  BY <1>1, <1>3 DEF Atomic!Fail, abstract
<1>5. QED
  BY <1>4 DEF Atomic!Next

\* A put or a delete begins.
LEMMA AbstractInvoke ==
  ASSUME NEW c \in Clients, NEW request \in Mutations, AbstractCall(c) = Atomic!NoCall,
         AbstractCall(c)' = Atomic!Pending(request), body' = body,
         \A d \in Clients : d # c =>
           pc'[d] = pc[d] /\ call'[d] = call[d] /\ outcome'[d] = outcome[d]
  PROVE  Atomic!Next
<1> DEFINE abstract == [d \in Clients |-> AbstractCall(d)]
<1>1. abstract' = [abstract EXCEPT ![c] = Atomic!Pending(request)]
  BY AbstractFrame
<1>2. abstract[c] = Atomic!NoCall
  OBVIOUS
<1>3. request \in Atomic!Requests
  BY DEF Mutations, FsPreconditions, Atomic!Requests, Atomic!Conditions, Preconditions,
     Atomic!Preconditions, Unconditional, Atomic!Unconditional, IfAbsent, Atomic!IfAbsent,
     IfVersion, Atomic!IfVersion, Versions, Atomic!Versions, NoVersion, Atomic!NoVersion,
     content_version, Atomic!content_version
<1> HIDE DEF abstract
<1>4. Atomic!Invoke(c)
  BY <1>1, <1>2, <1>3 DEF Atomic!Invoke, abstract
<1>5. QED
  BY <1>4 DEF Atomic!Next

\* A completed call returns.
LEMMA AbstractReturn ==
  ASSUME NEW c \in Clients, NEW result, AbstractCall(c) = Atomic!Done(call[c], result),
         AbstractCall(c)' = Atomic!NoCall, body' = body,
         \A d \in Clients : d # c =>
           pc'[d] = pc[d] /\ call'[d] = call[d] /\ outcome'[d] = outcome[d]
  PROVE  Atomic!Next
<1> DEFINE abstract == [d \in Clients |-> AbstractCall(d)]
<1>1. abstract' = [abstract EXCEPT ![c] = Atomic!NoCall]
  BY AbstractFrame
<1>2. abstract[c].phase = "done"
  BY DEF Atomic!Done
<1> HIDE DEF abstract
<1>3. Atomic!Return(c)
  BY <1>1, <1>2 DEF Atomic!Return, abstract
<1>4. QED
  BY <1>3 DEF Atomic!Next

\* A process ends, with no write between the two files.
LEMMA AbstractAbandon ==
  ASSUME NEW p \in Processes, Crash(p)
  PROVE  Atomic!Next
<1> DEFINE abstract == [c \in Clients |-> AbstractCall(c)]
           gone == {c \in Clients : ProcessOf[c] = p}
<1>1. \A c \in Clients : ProcessOf[c] = p => AbstractCall(c)' = Atomic!NoCall
  BY DEF Crash, AbstractCall, Atomic!NoCall
<1>2. \A c \in Clients : ProcessOf[c] # p => AbstractCall(c)' = AbstractCall(c)
  BY DEF Crash, AbstractCall, Mutates
<1>3. abstract' = [c \in Clients |-> IF c \in gone THEN Atomic!NoCall ELSE abstract[c]]
  BY <1>1, <1>2
<1>4. body' = body
  BY DEF Crash
<1> HIDE DEF abstract, gone
<1>5. Atomic!Abandon(gone)
  BY <1>3, <1>4 DEF Atomic!Abandon, abstract
<1>6. gone \in SUBSET Clients
  BY DEF gone
<1>7. QED
  BY <1>5, <1>6 DEF Atomic!Next

\* Every step of the store is a step of the atomic store, or changes nothing of
\* what its callers can tell, while no write is cut off between the two files.
LEMMA RefinementStep ==
  ASSUME OneProcess, FsInv, [Next]_vars, ~torn, ~torn'
  PROVE  Atomic!Next \/ UNCHANGED Atomic!vars
<1> DEFINE Goal == Atomic!Next \/ UNCHANGED Atomic!vars
           Pending(c) == Atomic!Pending(call[c])
           Others(c) == \A d \in Clients : d # c =>
                          pc'[d] = pc[d] /\ call'[d] = call[d] /\ outcome'[d] = outcome[d]
<1> USE DEF FsInv, StagingInv, TypeOK
<1>0. ASSUME NEW c \in Clients, Lock(c) \/ Proceed(c) \/ IOFails(c) PROVE Others(c)
  BY <1>0, ProceedFrame
<1>1. ASSUME NEW c \in Clients, Invoke(c) PROVE Goal
  <2>1. PICK request \in Mutations \cup Reads :
          /\ call' = [call EXCEPT ![c] = request]
          /\ Goto(c, CASE request.op = "get"  -> "read"
                       [] request.op = "head" -> "stat"
                       [] OTHER               -> "lock")
    BY <1>1 DEF Invoke
  <2>2. pc[c] = "idle" /\ call'[c] = request /\ pc'[c] \in {"read", "stat", "lock"}
    BY <1>1, <2>1 DEF Invoke, Goto
  <2>3. Others(c) /\ body' = body
    BY <1>1, <2>1 DEF Invoke, Goto, files
  <2>4. AbstractCall(c) = Atomic!NoCall
    BY <2>2 DEF AbstractCall, Atomic!NoCall
  <2>5. CASE request \in Mutations
    <3>1. AbstractCall(c)' = Atomic!Pending(request)
      BY <2>2, <2>5 DEF AbstractCall, Mutates, Mutations, Atomic!Pending
    <3>2. QED
      BY <2>3, <2>4, <2>5, <3>1, AbstractInvoke
  <2>6. CASE request \in Reads
    <3>1. AbstractCall(c)' = AbstractCall(c)
      BY <2>2, <2>4, <2>6 DEF AbstractCall, Mutates, Reads, Atomic!NoCall
    <3>2. QED
      BY <2>3, <3>1, AbstractStutter
  <2>7. QED
    BY <2>1, <2>5, <2>6
<1>2. ASSUME NEW c \in Clients, Lock(c) PROVE Goal
  <2>1. AbstractCall(c)' = AbstractCall(c) /\ body' = body
    BY <1>2 DEF Lock, Goto, files, AbstractCall, Mutates, CallHolds
  <2>2. QED
    BY <1>0, <1>2, <2>1, AbstractStutter DEF Proceed
<1>3. ASSUME NEW c \in Clients, ReadBody(c) PROVE Goal
  <2>1. AbstractCall(c)' = AbstractCall(c) /\ body' = body
    BY <1>3 DEF ReadBody, Finish, Goto, files, AbstractCall, Mutates, CallHolds
  <2>2. QED
    BY <1>0, <1>3, <2>1, AbstractStutter DEF Proceed
<1>4. ASSUME NEW c \in Clients, Create(c) PROVE Goal
  <2>1. AbstractCall(c)' = AbstractCall(c) /\ body' = body
    BY <1>4 DEF Create, staging, Goto, AbstractCall, Mutates, CallHolds
  <2>2. QED
    BY <1>0, <1>4, <2>1, AbstractStutter DEF Proceed
<1>5. ASSUME NEW c \in Clients, Fill(c) PROVE Goal
  <2>1. AbstractCall(c)' = AbstractCall(c) /\ body' = body
    BY <1>5 DEF Fill, staging, Goto, AbstractCall, Mutates, CallHolds
  <2>2. QED
    BY <1>0, <1>5, <2>1, AbstractStutter DEF Proceed
<1>6. ASSUME NEW c \in Clients, Truncate(c) PROVE Goal
  <2>1. AbstractCall(c)' = AbstractCall(c) /\ body' = body
    BY <1>6 DEF Truncate, Goto, AbstractCall, Mutates, CallHolds
  <2>2. QED
    BY <1>0, <1>6, <2>1, AbstractStutter DEF Proceed
<1>7. ASSUME NEW c \in Clients, Record(c) PROVE Goal
  <2>1. AbstractCall(c)' = AbstractCall(c) /\ body' = body
    BY <1>7 DEF Record, Finish, Goto, AbstractCall, Mutates, CallHolds
  <2>2. QED
    BY <1>0, <1>7, <2>1, AbstractStutter DEF Proceed
<1>8. ASSUME NEW c \in Clients, Forget(c) PROVE Goal
  <2>1. AbstractCall(c)' = AbstractCall(c) /\ body' = body
    BY <1>8 DEF Forget, Finish, Goto, AbstractCall, Mutates, CallHolds
  <2>2. QED
    BY <1>0, <1>8, <2>1, AbstractStutter DEF Proceed
<1>9. ASSUME NEW c \in Clients, Stat(c) PROVE Goal
  <2>1. Others(c) /\ body' = body
    BY <1>0, <1>9 DEF Proceed, Stat, files
  <2>2. CASE ~Mutates(c) \/ body # NoDoc
    <3>1. AbstractCall(c)' = AbstractCall(c)
      BY <1>9, <2>2 DEF Stat, Decided, Finish, Goto, files, AbstractCall, Mutates
    <3>2. QED
      BY <2>1, <3>1, AbstractStutter
  <2>3. ASSUME Mutates(c), body = NoDoc PROVE Goal
    <3>1. NoVersion = content_version(body)
      BY <1>9, <2>3 DEF NoVersion
    <3>2. AbstractCall(c) = Pending(c)
      BY <1>9, <2>3 DEF Stat, AbstractCall, Atomic!Pending
    <3>3. CASE precondition_holds(call[c].pre, NoVersion)
      <4>1. AbstractCall(c)' = AbstractCall(c)
        BY <1>9, <2>3, <3>1, <3>3 DEF Stat, Decided, Finish, Goto, files, AbstractCall, Mutates
      <4>2. QED
        BY <2>1, <4>1, AbstractStutter
    <3>4. CASE ~precondition_holds(call[c].pre, NoVersion)
      <4>1. AbstractCall(c)' = Atomic!Done(call[c], "PreconditionFailed")
        BY <1>9, <2>3, <3>1, <3>4 DEF Stat, Decided, Finish, Goto, files,
           AbstractCall, Mutates, Atomic!Done
      <4>2. QED
        BY <2>1, <3>1, <3>2, <3>4, <4>1, AbstractRefuse, ApparentVersions
    <3>5. QED
      BY <3>3, <3>4
  <2>4. QED
    BY <2>2, <2>3
<1>10. ASSUME NEW c \in Clients, ReadSidecar(c) PROVE Goal
  <2>1. Others(c) /\ body' = body
    BY <1>0, <1>10 DEF Proceed, ReadSidecar, files
  <2>0. PICK version \in Legible : Decided(c, version)
    BY <1>10 DEF ReadSidecar
  <2>2. CASE ~Mutates(c)
    <3>1. AbstractCall(c)' = AbstractCall(c)
      BY <1>10, <2>0, <2>2 DEF ReadSidecar, Decided, Finish, Goto, files, AbstractCall, Mutates
    <3>2. QED
      BY <2>1, <3>1, AbstractStutter
  <2>3. ASSUME Mutates(c) PROVE Goal
    <3>1. version \in Atomic!Apparent
      BY <1>10, <2>3, SidecarTells, ApparentVersions DEF ReadSidecar
    <3>2. AbstractCall(c) = Pending(c)
      BY <1>10, <2>3 DEF ReadSidecar, AbstractCall, Atomic!Pending
    <3>3. CASE precondition_holds(call[c].pre, version)
      <4>1. AbstractCall(c)' = AbstractCall(c)
        BY <1>10, <2>0, <2>3, <3>3 DEF ReadSidecar, Decided, Finish, Goto, files,
           AbstractCall, Mutates
      <4>2. QED
        BY <2>1, <4>1, AbstractStutter
    <3>4. CASE ~precondition_holds(call[c].pre, version)
      <4>1. AbstractCall(c)' = Atomic!Done(call[c], "PreconditionFailed")
        BY <1>10, <2>0, <2>3, <3>4 DEF ReadSidecar, Decided, Finish, Goto, files,
           AbstractCall, Mutates, Atomic!Done
      <4>2. QED
        BY <2>1, <3>1, <3>2, <3>4, <4>1, AbstractRefuse
    <3>5. QED
      BY <3>3, <3>4
  <2>4. QED
    BY <2>2, <2>3
<1>11. ASSUME NEW c \in Clients, Install(c) PROVE Goal
  <2>1. AbstractCall(c) = Pending(c)
    BY <1>11 DEF Install, AbstractCall, Mutates, CallHolds, Atomic!Pending
  <2>2. CASE call[c].pre = IfAbsent /\ body # NoDoc
    <3>1. AbstractCall(c)' = Atomic!Done(call[c], "PreconditionFailed") /\ body' = body
      BY <1>11, <2>2 DEF Install, staging, Finish, Goto, AbstractCall, Mutates,
         CallHolds, Atomic!Done
    <3>2. ~precondition_holds(call[c].pre, content_version(body))
      BY <2>2 DEF precondition_holds, IfAbsent, NoVersion, content_version
    <3>3. QED
      BY <1>0, <1>11, <2>1, <3>1, <3>2, AbstractRefuse, ApparentVersions DEF Proceed
  <2>3. CASE ~(call[c].pre = IfAbsent /\ body # NoDoc)
    <3>1. AbstractCall(c)' = Atomic!Done(call[c], "ok") /\ body' = call[c].doc
      BY <1>11, <2>3 DEF Install, staging, Finish, Goto, AbstractCall, Mutates,
         CallHolds, Atomic!Done
    <3>2. Granted(c)
      <4>1. CASE call[c].pre = IfAbsent
        BY <2>3, <4>1 DEF Granted, precondition_holds, IfAbsent, NoVersion
      <4>2. CASE call[c].pre # IfAbsent
        BY <1>11, <4>2 DEF Install, DescribedInv, HolderKnows
      <4>3. QED
        BY <4>1, <4>2
    <3>3. QED
      BY <1>0, <1>11, <2>1, <3>1, <3>2, AbstractTakeEffect DEF Proceed
  <2>4. QED
    BY <2>2, <2>3
<1>12. ASSUME NEW c \in Clients, Unlink(c) PROVE Goal
  <2>1. AbstractCall(c) = Pending(c)
    BY <1>12 DEF Unlink, AbstractCall, Mutates, CallHolds, Atomic!Pending
  <2>2. AbstractCall(c)' = Atomic!Done(call[c], "ok") /\ body' = call[c].doc
    BY <1>12, CallKinds DEF Unlink, Goto, AbstractCall, Mutates, CallHolds, Atomic!Done
  <2>3. Granted(c)
    BY <1>12 DEF Unlink, DescribedInv, HolderKnows
  <2>4. QED
    BY <1>0, <1>12, <2>1, <2>2, <2>3, AbstractTakeEffect DEF Proceed
<1>13. ASSUME NEW c \in Clients, Return(c) PROVE Goal
  <2>1. AbstractCall(c)' = Atomic!NoCall /\ body' = body
    BY <1>13 DEF Return, Goto, files, AbstractCall, Atomic!NoCall
  <2>2. CASE Mutates(c)
    <3>1. AbstractCall(c) = Atomic!Done(call[c], outcome[c])
      BY <1>13, <2>2 DEF Return, AbstractCall, Atomic!Done
    <3>2. QED
      BY <1>0, <1>13, <2>1, <3>1, AbstractReturn DEF Proceed
  <2>3. CASE ~Mutates(c)
    <3>1. AbstractCall(c) = Atomic!NoCall
      BY <2>3 DEF AbstractCall, Atomic!NoCall
    <3>2. QED
      BY <1>0, <1>13, <2>1, <3>1, AbstractStutter DEF Proceed
  <2>4. QED
    BY <2>2, <2>3
<1>14. ASSUME NEW c \in Clients, IOFails(c) PROVE Goal
  <2>1. body' = body
    BY <1>14 DEF IOFails, files
  <2>2. CASE Mutates(c)
    <3>1. AbstractCall(c) = Pending(c)
      BY <1>14, <2>2 DEF IOFails, AbstractCall, Atomic!Pending
    <3>2. AbstractCall(c)' = Atomic!Done(call[c], "Backend")
      BY <1>14, <2>2 DEF IOFails, Finish, Goto, files, AbstractCall, Mutates, Atomic!Done
    <3>3. QED
      BY <1>0, <1>14, <2>1, <3>1, <3>2, AbstractFail
  <2>3. CASE ~Mutates(c)
    <3>1. AbstractCall(c)' = AbstractCall(c)
      BY <1>14, <2>3 DEF IOFails, Finish, Goto, files, AbstractCall, Mutates
    <3>2. QED
      BY <1>0, <1>14, <2>1, <3>1, AbstractStutter
  <2>4. QED
    BY <2>2, <2>3
<1>15. ~(\E c \in Clients : SidecarFails(c))
  BY DEF SidecarFails
<1>16. ASSUME NEW p \in Processes, Crash(p) PROVE Goal
  BY <1>16, AbstractAbandon
<1>17. CASE UNCHANGED vars
  BY <1>17 DEF vars, Atomic!vars, AbstractCall, Mutates
<1>18. QED
  BY <1>1, <1>2, <1>3, <1>4, <1>5, <1>6, <1>7, <1>8, <1>9, <1>10, <1>11, <1>12, <1>13,
     <1>14, <1>15, <1>16, <1>17 DEF Next, Proceed

\* Within one process, whichever system call fails and whenever the process
\* ends, put and delete are the conditional calls of AtomicStore, one system
\* call at a time, but from a write that was cut off between the two files to
\* the next one that completes (filesystem.rs:189-195, "a real
\* compare-and-swap").
THEOREM RefinementTheorem ==
  ASSUME OneProcess PROVE Spec => MutationsAreAtomic
<1>1. Init => Atomic!Init
  BY RefinementInit
<1>2. FsInv /\ [Next]_vars => [torn \/ torn' \/ Atomic!Next]_(Atomic!vars)
  BY RefinementStep
<1>3. QED
  BY <1>1, <1>2, FsInvariant, PTL DEF Spec, MutationsAreAtomic
=============================================================================
