------------------------------ MODULE SearchCache ------------------------------
(***************************************************************************)
(* The search cache: several runs of the command, of several releases,     *)
(* over one SQLite file, while sessions are written and deleted.           *)
(*                                                                         *)
(* A run lists the sessions, opens the file, asks every session's store    *)
(* for a change cursor, takes the rows whose cursor still matches, parses  *)
(* what is left, stores what it parsed and drops the rows of the sessions  *)
(* it did not list.                                                        *)
(***************************************************************************)
EXTENDS Naturals, FiniteSets, Functions

CONSTANTS Runs,       \* the runs of the command
          Releases,   \* the releases of the crate they may be of
          Sessions,   \* the sessions, by key
          Docs,       \* what a session may hold
          MaxEdits    \* bound: how often sessions are written or deleted

ASSUME EditsAssumption == MaxEdits \in Nat

VARIABLES
  shared,    \* the sessions of the share store, whose cursor is a version (fixed)
  store,     \* what each session holds, and its cursor
  edits,     \* how many edits there have been: the clock of the local stores
  writer,    \* meta: the release whose rows the file has, a set of at most one
  rows,      \* docs: the row of each session, a set of at most one
  release,   \* of each run
  run,       \* what each run is doing
  past,      \* the cursors each session has had (history)
  blurred,   \* the sessions of which a cursor stood for two documents (history)
  mixed      \* the runs beside which another release had the file open (history)

sessions == <<shared, store, edits, past, blurred>>
vars == <<sessions, writer, rows, release, run, mixed>>

Gone == {}
Held(doc, cursor) == {[doc |-> doc, cursor |-> cursor]}
Present == {s \in Sessions : store[s] # Gone}

NoCursor == <<>>   \* the store cannot say
Row(doc, cursor, r) == [doc |-> doc, cursor |-> cursor, by |-> r]

\* found: the sessions listed.  scoped: those asked for.  cursor: theirs.
\* index: their documents, fresh where parsed.  left: those yet to parse.
\* stale: the rows to drop.  seen: what each session has held since it was
\* listed (history).
Idle == [pc |-> "start", found |-> {}, scoped |-> {},
         cursor |-> [s \in Sessions |-> NoCursor], index |-> [s \in Sessions |-> {}],
         left |-> {}, stale |-> {},
         seen |-> [s \in Sessions |-> {}]]
Ended == [Idle EXCEPT !.pc = "ended"]
Entry(doc, by, fresh) == [doc |-> doc, by |-> by, fresh |-> fresh]

At(pcs) == {r \in Runs : run[r].pc \in pcs}
Active == Runs \ At({"start", "ended"})
Indexing == Active \ At({"stored", "pruning"})
Opened == Active \ At({"opening"})
Becomes(r, state) == run' = [run EXCEPT ![r] = state]

Init ==
  /\ shared \in SUBSET Sessions
  /\ store \in [Sessions -> {Gone} \cup {Held(d, <<d>>) : d \in Docs}]
  /\ edits = 0
  /\ past = [s \in Sessions |-> {h.cursor : h \in store[s]}] /\ blurred = {}
  /\ writer = {} /\ rows = [s \in Sessions |-> {}]
  /\ release \in [Runs -> Releases]
  /\ run = [r \in Runs |-> Idle]
  /\ mixed = {}

(***************************************************************************)
(* The sessions.  A local store's cursor moves with the time of an edit,   *)
(* but not with one it does not cover: OpenCode's is the time of the last  *)
(* message, fx's and Grok's one file of several.  The cursor of a shared   *)
(* transcript is the version of its content, and comes back with it.       *)
(***************************************************************************)
Sees(state, s, doc) == [state EXCEPT !.seen = [state.seen EXCEPT ![s] = @ \cup {doc}]]

Write(s, doc, cursor) ==
  /\ edits < MaxEdits /\ edits' = edits + 1
  /\ \A h \in store[s] : h.doc # doc
  /\ store' = [store EXCEPT ![s] = Held(doc, cursor)]
  /\ past' = [past EXCEPT ![s] = @ \cup {cursor}]
  /\ blurred' = IF cursor \in past[s] THEN blurred \cup {s} ELSE blurred
  /\ run' = [r \in Runs |-> IF r \in Indexing THEN Sees(run[r], s, doc) ELSE run[r]]
  /\ UNCHANGED <<shared, writer, rows, release, mixed>>

Edit(s, doc) == Write(s, doc, IF s \in shared THEN <<doc>> ELSE <<"edit", edits>>)
EditInPlace(s, doc) ==
  /\ s \notin shared
  /\ \E h \in store[s] : Write(s, doc, h.cursor)
Delete(s) ==
  /\ s \in Present
  /\ edits < MaxEdits /\ edits' = edits + 1
  /\ store' = [store EXCEPT ![s] = Gone]
  /\ UNCHANGED <<shared, past, blurred, writer, rows, release, run, mixed>>

(***************************************************************************)
(* Listing (discover_with_spinner).  A run that names the share store      *)
(* lists that store alone, and fails when it does not answer; any other    *)
(* run lists every store, and does without the share store when that does  *)
(* not answer.  A listing carries the cursors of shared transcripts.       *)
(***************************************************************************)
Cursor(s) == IF store[s] = Gone THEN NoCursor ELSE (CHOOSE h \in store[s] : TRUE).cursor
List(r, found) ==
  /\ run[r].pc = "start"
  /\ \E scoped \in SUBSET found :
       Becomes(r, [Idle EXCEPT !.pc = "opening", !.found = found, !.scoped = scoped,
                     !.cursor = [s \in Sessions |-> IF s \in found \cap shared
                                                    THEN Cursor(s) ELSE NoCursor],
                     !.seen = [s \in Sessions |-> {h.doc : h \in store[s]}]])
  /\ UNCHANGED <<shared, store, edits, past, blurred, writer, rows, release, mixed>>

ListAll(r) == List(r, Present)
ListWithoutShare(r) == List(r, Present \ shared)
ListNamedShare(r) == List(r, Present \cap shared)

(***************************************************************************)
(* Opening the file (Cache::open): three statements, each a transaction of *)
(* its own.  Rows of another release go before its mark does.              *)
(***************************************************************************)
Beside(r) == {q \in Opened : release[q] # release[r]}
ReadWriter(r) ==
  /\ run[r].pc = "opening"
  /\ Becomes(r, [run[r] EXCEPT !.pc = IF writer = {release[r]} THEN "open" ELSE "emptying"])
  /\ mixed' = IF Beside(r) = {} THEN mixed ELSE mixed \cup Beside(r) \cup {r}
  /\ UNCHANGED <<sessions, writer, rows, release>>

\* The mutation that leaves another release's rows under its own mark.
EmptyRows_Fault(r) ==
  /\ run[r].pc = "emptying"
  /\ Becomes(r, [run[r] EXCEPT !.pc = "stamping"])
  /\ UNCHANGED <<sessions, writer, rows, release, mixed>>

EmptyRows(r) ==
  /\ run[r].pc = "emptying"
  /\ rows' = [s \in Sessions |-> {}]
  /\ Becomes(r, [run[r] EXCEPT !.pc = "stamping"])
  /\ UNCHANGED <<sessions, writer, release, mixed>>

Stamp(r) ==
  /\ run[r].pc = "stamping"
  /\ writer' = {release[r]}
  /\ Becomes(r, [run[r] EXCEPT !.pc = "open"])
  /\ UNCHANGED <<sessions, rows, release, mixed>>

(***************************************************************************)
(* Indexing (build_index).                                                 *)
(***************************************************************************)
\* The local stores are asked for cursors; any store may have no answer.
Fingerprints(r) ==
  /\ run[r].pc = "open"
  /\ \E mute \in SUBSET run[r].scoped :
       Becomes(r, [run[r] EXCEPT !.pc = "asked",
                     !.cursor = [s \in Sessions |->
                        IF s \notin run[r].scoped \/ s \in mute THEN NoCursor
                        ELSE IF s \in shared THEN run[r].cursor[s] ELSE Cursor(s)]])
  /\ UNCHANGED <<sessions, writer, rows, release, mixed>>

\* get_raw: the row under the session's key, if its cursor is the session's.
\* The mutation that lets what nobody can tell apart match.
Hit_Fault(s, cursor) == {row \in rows[s] : row.cursor = cursor}

Hit(s, cursor) == {row \in rows[s] : cursor # NoCursor /\ row.cursor = cursor}

\* A row that does not read back (of another release, or cut short) is as
\* good as none.
LookUp(r) ==
  LET hits == {s \in run[r].scoped : Hit(s, run[r].cursor[s]) # {}}
  IN /\ run[r].pc = "asked"
     /\ \E thawed \in SUBSET hits :
          Becomes(r, [run[r] EXCEPT !.pc = "reading", !.left = run[r].scoped \ thawed,
                        !.index = [s \in Sessions |->
                           IF s \in thawed
                           THEN {Entry(row.doc, row.by, FALSE) : row \in Hit(s, run[r].cursor[s])}
                           ELSE {}]])
     /\ UNCHANGED <<sessions, writer, rows, release, mixed>>

\* One of the workers parses a session; one that is gone is left out.
Parse(r, s) ==
  /\ run[r].pc = "reading" /\ s \in run[r].left
  /\ Becomes(r, [run[r] EXCEPT !.left = @ \ {s},
                     !.index = [@ EXCEPT ![s] = {Entry(h.doc, r, TRUE) : h \in store[s]}]])
  /\ UNCHANGED <<sessions, writer, rows, release, mixed>>

\* put_many: what was parsed, under the cursor read before.  The index is done.
Fresh(r, s) == {e \in run[r].index[s] : e.fresh}
PutMany(r) ==
  /\ run[r].pc = "reading" /\ run[r].left = {}
  /\ rows' = [s \in Sessions |-> IF Fresh(r, s) = {} THEN rows[s]
                                  ELSE {Row(e.doc, run[r].cursor[s], r) : e \in Fresh(r, s)}]
  /\ Becomes(r, [Idle EXCEPT !.pc = "stored", !.found = run[r].found])
  /\ UNCHANGED <<sessions, writer, release, mixed>>

\* retain: the rows to drop are read, and then dropped whatever they hold.
FindStale(r) ==
  /\ run[r].pc = "stored"
  /\ Becomes(r, [Idle EXCEPT !.pc = "pruning",
                   !.stale = {s \in Sessions : rows[s] # {} /\ s \notin run[r].found}])
  /\ UNCHANGED <<sessions, writer, rows, release, mixed>>
DropStale(r) ==
  /\ run[r].pc = "pruning"
  /\ rows' = [s \in Sessions |-> IF s \in run[r].stale THEN {} ELSE rows[s]]
  /\ Becomes(r, Ended)
  /\ UNCHANGED <<sessions, writer, release, mixed>>

\* A run ends early: it is killed, or a statement fails, and it goes on
\* without the file.
Stop(r) ==
  /\ r \in Active
  /\ Becomes(r, Ended)
  /\ UNCHANGED <<sessions, writer, rows, release, mixed>>

RunStep(r) == \/ ListAll(r) \/ ListWithoutShare(r) \/ ListNamedShare(r)
              \/ ReadWriter(r) \/ EmptyRows(r) \/ Stamp(r)
              \/ Fingerprints(r) \/ LookUp(r) \/ (\E s \in Sessions : Parse(r, s))
              \/ PutMany(r) \/ FindStale(r) \/ DropStale(r) \/ Stop(r)
SessionStep(s) == (\E d \in Docs : Edit(s, d) \/ EditInPlace(s, d)) \/ Delete(s)

Next == (\E r \in Runs : RunStep(r)) \/ (\E s \in Sessions : SessionStep(s))

Spec == Init /\ [][Next]_vars

(***************************************************************************)
(* Properties.                                                             *)
(***************************************************************************)
Cursors == {NoCursor} \cup {<<d>> : d \in Docs} \cup {<<"edit", n>> : n \in 0 .. MaxEdits}
Pcs == {"start", "opening", "emptying", "stamping", "open", "asked", "reading",
        "stored", "pruning", "ended"}
Copies == [doc : Docs, cursor : Cursors]
Rows == [doc : Docs, cursor : Cursors, by : Runs]
Entries == [doc : Docs, by : Runs, fresh : BOOLEAN]
RunStates == [pc : Pcs, found : SUBSET Sessions, scoped : SUBSET Sessions,
              cursor : [Sessions -> Cursors], index : [Sessions -> SUBSET Entries],
              left : SUBSET Sessions, stale : SUBSET Sessions,
              seen : [Sessions -> SUBSET Docs]]

\* A run is in one of its states, and the file and the stores hold what runs
\* and editors put there.
TypeOK ==
  /\ shared \subseteq Sessions
  /\ store \in [Sessions -> SUBSET Copies]
  /\ edits \in 0 .. MaxEdits
  /\ writer \subseteq Releases
  /\ rows \in [Sessions -> SUBSET Rows]
  /\ release \in [Runs -> Releases]
  /\ run \in [Runs -> RunStates]
  /\ mixed \subseteq Runs
  /\ past \in [Sessions -> SUBSET Cursors]

\* What a run indexes is what the session held at some time since the run
\* listed it, also when another run parsed it long ago, against a cursor it
\* had read before that: unless a cursor of the session has stood for two of
\* its documents (an edit the cursor does not cover, or a version that came
\* back).
IndexIsCurrent ==
  \A r \in Runs : \A s \in Sessions \ blurred :
    \A e \in run[r].index[s] : e.doc \in run[r].seen[s]

\* A run is served no document that another release extracted, unless that
\* release had the file open beside a different one: rows do not name the
\* release that wrote them, and it goes on writing.
OwnReleaseUnlessMixed ==
  \A r \in Runs : \A s \in Sessions :
    \A e \in run[r].index[s] : e.by \notin mixed => release[e.by] = release[r]

(***************************************************************************)
(* Why: the releases that were never beside another one.                   *)
(***************************************************************************)
\* Runs of two releases that are open together are marked.
MixedInv == \A r, q \in Opened : release[r] # release[q] => r \in mixed
\* The mark is that of any unmarked run past its opening, and of the run that
\* stored any row, and no run past emptying the rows finds one of another.
WriterInv == \A r \in Opened \ mixed :
               run[r].pc \notin {"emptying", "stamping"} => writer = {release[r]}
RowsInv == \A s \in Sessions : \A row \in rows[s] : row.by \notin mixed =>
             /\ writer = {release[row.by]}
             /\ \A r \in Opened : run[r].pc # "emptying" => release[row.by] = release[r]
ReleaseInv == TypeOK /\ MixedInv /\ WriterInv /\ RowsInv /\ OwnReleaseUnlessMixed

(***************************************************************************)
(* Why: a cursor that never stood for two documents leads back to the time *)
(* the document it is stored with was read, or to one after it.            *)
(***************************************************************************)
Known(s) == past[s] \cup {NoCursor}
HeldInv == \A s \in Sessions : \A h \in store[s] :
  h.cursor \in past[s] /\ h.cursor # NoCursor /\ \A k \in store[s] : k = h
KnownInv == \A s \in Sessions : /\ \A row \in rows[s] : row.cursor \in Known(s)
                                /\ \A r \in Runs : run[r].cursor[s] \in Known(s)
QuietInv == \A r \in Runs : run[r].pc # "reading" => \A s \in Sessions : run[r].index[s] = {}
\* What was stored or parsed under a session's present cursor is what it holds.
StoreInv == \A s \in Sessions \ blurred : \A h \in store[s] :
  /\ \A row \in rows[s] : row.cursor = h.cursor => row.doc = h.doc
  /\ \A r \in Indexing : h.doc \in run[r].seen[s]
  /\ \A r \in Indexing : run[r].cursor[s] = h.cursor => \A e \in Fresh(r, s) : e.doc = h.doc
\* What was stored or parsed under the cursor a run has read, that run has seen.
SeenInv == \A s \in Sessions \ blurred : \A r \in Indexing : run[r].cursor[s] # NoCursor =>
  /\ \A row \in rows[s] : row.cursor = run[r].cursor[s] => row.doc \in run[r].seen[s]
  /\ \A q \in Indexing : run[q].cursor[s] = run[r].cursor[s]
                         => \A e \in Fresh(q, s) : e.doc \in run[r].seen[s]
CurrentInv == TypeOK /\ HeldInv /\ KnownInv /\ QuietInv /\ StoreInv /\ SeenInv /\ IndexIsCurrent
=============================================================================
