--------------------------- MODULE SearchCacheProofs ---------------------------
(***************************************************************************)
(* Proofs about the search cache, for any number of runs, releases,        *)
(* sessions, documents and edits.                                          *)
(***************************************************************************)
EXTENDS SearchCache, TLAPS

(***************************************************************************)
(* Types.                                                                  *)
(***************************************************************************)
\* The states a run begins and ends in.
LEMMA RestingStates ==
  /\ Idle \in RunStates /\ Ended \in RunStates
  /\ Idle.pc = "start" /\ Ended.pc = "ended"
  /\ \A s \in Sessions : /\ Idle.cursor[s] = NoCursor /\ Ended.cursor[s] = NoCursor
                         /\ Idle.index[s] = {} /\ Ended.index[s] = {}
BY DEF Idle, Ended, RunStates, Pcs, Cursors, NoCursor

\* The cursor of a session that is there is one of its.
LEMMA CursorType ==
  ASSUME TypeOK, NEW s \in Sessions
  PROVE  /\ Cursor(s) \in Cursors
         /\ store[s] # Gone => \E h \in store[s] : Cursor(s) = h.cursor
<1> DEFINE h == CHOOSE h \in store[s] : TRUE
<1>1. NoCursor \in Cursors
  BY DEF Cursors
<1>2. store[s] \subseteq Copies
  BY DEF TypeOK
<1>3. ASSUME store[s] # Gone PROVE h \in store[s] /\ Cursor(s) = h.cursor
  BY <1>3 DEF Gone, Cursor
<1>4. ASSUME store[s] = Gone PROVE Cursor(s) = NoCursor
  BY <1>4 DEF Cursor
<1> HIDE DEF h
<1>5. \A k \in Copies : k.cursor \in Cursors
  BY DEF Copies
<1>6. QED
  BY <1>1, <1>2, <1>3, <1>4, <1>5

\* Every variable keeps its type.
LEMMA TypeInit == Init => TypeOK
<1> SUFFICES ASSUME Init PROVE TypeOK
  OBVIOUS
<1>1. \A d \in Docs : Held(d, <<d>>) \subseteq Copies
  BY DEF Held, Copies, Cursors
<1>2. \A S \in {Gone} \cup {Held(d, <<d>>) : d \in Docs} : S \subseteq Copies
  BY <1>1 DEF Gone
<1>3. store \in [Sessions -> SUBSET Copies]
  <2>1. store \in [Sessions -> {Gone} \cup {Held(d, <<d>>) : d \in Docs}]
    BY DEF Init
  <2>2. QED
    BY <1>2, <2>1
<1>4. past \in [Sessions -> SUBSET Cursors]
  <2>1. \A s \in Sessions : {h.cursor : h \in store[s]} \subseteq Cursors
    BY <1>3 DEF Copies
  <2>2. QED
    BY <2>1 DEF Init
<1>5. QED
  BY <1>3, <1>4, RestingStates, EditsAssumption DEF Init, TypeOK

\* A run takes a new state, and no other run does.
LEMMA OneRun ==
  ASSUME TypeOK, NEW r \in Runs, NEW state \in RunStates, Becomes(r, state)
  PROVE  /\ run' \in [Runs -> RunStates] /\ run'[r] = state
         /\ \A q \in Runs \ {r} : run'[q] = run[q]
BY DEF TypeOK, Becomes

\* The states the actions build are states, and hold what was put there.
LEMMA PcState ==
  ASSUME NEW state \in RunStates, NEW pc \in Pcs
  PROVE  /\ [state EXCEPT !.pc = pc] \in RunStates
         /\ [state EXCEPT !.pc = pc].pc = pc
         /\ [state EXCEPT !.pc = pc].cursor = state.cursor
         /\ [state EXCEPT !.pc = pc].index = state.index
         /\ [state EXCEPT !.pc = pc].seen = state.seen
BY DEF RunStates

LEMMA SeenState ==
  ASSUME NEW state \in RunStates, NEW seen \in [Sessions -> SUBSET Docs]
  PROVE  /\ [state EXCEPT !.seen = seen] \in RunStates
         /\ [state EXCEPT !.seen = seen].pc = state.pc
         /\ [state EXCEPT !.seen = seen].cursor = state.cursor
         /\ [state EXCEPT !.seen = seen].index = state.index
         /\ [state EXCEPT !.seen = seen].seen = seen
BY DEF RunStates

ListedState(found, scoped, cursor, seen) ==
  [Idle EXCEPT !.pc = "opening", !.found = found, !.scoped = scoped,
               !.cursor = cursor, !.seen = seen]
LEMMA ListedFields ==
  ASSUME NEW found \in SUBSET Sessions, NEW scoped \in SUBSET found,
         NEW cursor \in [Sessions -> Cursors], NEW seen \in [Sessions -> SUBSET Docs]
  PROVE  LET state == ListedState(found, scoped, cursor, seen)
         IN /\ state \in RunStates /\ state.pc = "opening" /\ state.cursor = cursor
            /\ state.seen = seen /\ \A s \in Sessions : state.index[s] = {}
BY DEF ListedState, RunStates, Idle, Pcs

AskedState(state, cursor) == [state EXCEPT !.pc = "asked", !.cursor = cursor]
LEMMA AskedFields ==
  ASSUME NEW state \in RunStates, NEW cursor \in [Sessions -> Cursors]
  PROVE  LET asked == AskedState(state, cursor)
         IN /\ asked \in RunStates /\ asked.pc = "asked" /\ asked.cursor = cursor
            /\ asked.index = state.index /\ asked.seen = state.seen
BY DEF AskedState, RunStates, Pcs

ReadingState(state, left, index) == [state EXCEPT !.pc = "reading", !.left = left, !.index = index]
LEMMA ReadingFields ==
  ASSUME NEW state \in RunStates, NEW left \in SUBSET Sessions,
         NEW index \in [Sessions -> SUBSET Entries]
  PROVE  LET reading == ReadingState(state, left, index)
         IN /\ reading \in RunStates /\ reading.pc = "reading" /\ reading.index = index
            /\ reading.cursor = state.cursor /\ reading.seen = state.seen
BY DEF ReadingState, RunStates, Pcs

ParsedState(state, left, index) == [state EXCEPT !.left = left, !.index = index]
LEMMA ParsedFields ==
  ASSUME NEW state \in RunStates, NEW left \in SUBSET Sessions,
         NEW index \in [Sessions -> SUBSET Entries]
  PROVE  LET parsed == ParsedState(state, left, index)
         IN /\ parsed \in RunStates /\ parsed.pc = state.pc /\ parsed.index = index
            /\ parsed.cursor = state.cursor /\ parsed.seen = state.seen
BY DEF ParsedState, RunStates

StoredState(found) == [Idle EXCEPT !.pc = "stored", !.found = found]
PruningState(stale) == [Idle EXCEPT !.pc = "pruning", !.stale = stale]
LEMMA LastFields ==
  ASSUME NEW some \in SUBSET Sessions
  PROVE  /\ StoredState(some) \in RunStates /\ PruningState(some) \in RunStates
         /\ StoredState(some).pc = "stored" /\ PruningState(some).pc = "pruning"
         /\ \A s \in Sessions : /\ StoredState(some).cursor[s] = NoCursor
                                /\ StoredState(some).index[s] = {}
                                /\ PruningState(some).cursor[s] = NoCursor
                                /\ PruningState(some).index[s] = {}
BY DEF StoredState, PruningState, RunStates, Idle, Pcs, Cursors

(***************************************************************************)
(* What each action makes of its run.                                      *)
(***************************************************************************)
LEMMA ListStep ==
  ASSUME TypeOK, NEW r \in Runs, NEW found \in SUBSET Sessions, List(r, found)
  PROVE  /\ run' \in [Runs -> RunStates] /\ run[r].pc = "start" /\ run'[r].pc = "opening"
         /\ \A s \in Sessions : /\ run'[r].index[s] = {}
                                /\ run'[r].cursor[s] \in {NoCursor, Cursor(s)}
                                /\ run'[r].seen[s] = {h.doc : h \in store[s]}
         /\ \A q \in Runs \ {r} : run'[q] = run[q]
<1> DEFINE cursor == [s \in Sessions |-> IF s \in found \cap shared THEN Cursor(s) ELSE NoCursor]
           held == [s \in Sessions |-> {h.doc : h \in store[s]}]
<1>1. PICK scoped \in SUBSET found : Becomes(r, ListedState(found, scoped, cursor, held))
  BY DEF List, ListedState
<1>2. cursor \in [Sessions -> Cursors]
  BY CursorType DEF Cursors
<1>3. held \in [Sessions -> SUBSET Docs]
  BY DEF TypeOK, Copies
<1>4. \A s \in Sessions : cursor[s] \in {NoCursor, Cursor(s)} /\ held[s] = {h.doc : h \in store[s]}
  OBVIOUS
<1> HIDE DEF cursor, held
<1> DEFINE state == ListedState(found, scoped, cursor, held)
<1>5. /\ state \in RunStates /\ state.pc = "opening" /\ state.cursor = cursor
      /\ state.seen = held /\ \A s \in Sessions : state.index[s] = {}
  BY <1>2, <1>3, ListedFields
<1>6. Becomes(r, state)
  BY <1>1
<1> HIDE DEF state
<1>7. run' \in [Runs -> RunStates] /\ run'[r] = state /\ \A q \in Runs \ {r} : run'[q] = run[q]
  BY <1>5, <1>6, OneRun
<1>8. QED
  BY <1>4, <1>5, <1>7 DEF List

LEMMA FingerprintsStep ==
  ASSUME TypeOK, NEW r \in Runs, Fingerprints(r)
  PROVE  /\ run' \in [Runs -> RunStates] /\ run[r].pc = "open" /\ run'[r].pc = "asked"
         /\ run'[r].index = run[r].index /\ run'[r].seen = run[r].seen
         /\ \A s \in Sessions : run'[r].cursor[s] \in {NoCursor, run[r].cursor[s], Cursor(s)}
         /\ \A q \in Runs \ {r} : run'[q] = run[q]
<1>1. PICK mute \in SUBSET run[r].scoped :
        Becomes(r, AskedState(run[r], [s \in Sessions |->
                        IF s \notin run[r].scoped \/ s \in mute THEN NoCursor
                        ELSE IF s \in shared THEN run[r].cursor[s] ELSE Cursor(s)]))
  BY DEF Fingerprints, AskedState
<1> DEFINE cursor == [s \in Sessions |->
                        IF s \notin run[r].scoped \/ s \in mute THEN NoCursor
                        ELSE IF s \in shared THEN run[r].cursor[s] ELSE Cursor(s)]
<1>2. \A s \in Sessions : NoCursor \in Cursors /\ run[r].cursor[s] \in Cursors
  BY DEF TypeOK, RunStates, Cursors
<1>3. cursor \in [Sessions -> Cursors]
  BY <1>2, CursorType
<1>4. \A s \in Sessions : cursor[s] \in {NoCursor, run[r].cursor[s], Cursor(s)}
  OBVIOUS
<1>5. Becomes(r, AskedState(run[r], cursor))
  BY <1>1
<1> HIDE DEF cursor
<1>6. run[r] \in RunStates
  BY DEF TypeOK
<1>7. QED
  BY <1>3, <1>4, <1>5, <1>6, AskedFields, OneRun DEF Fingerprints

LEMMA LookUpStep ==
  ASSUME TypeOK, NEW r \in Runs, LookUp(r)
  PROVE  /\ run' \in [Runs -> RunStates] /\ run[r].pc = "asked" /\ run'[r].pc = "reading"
         /\ run'[r].cursor = run[r].cursor /\ run'[r].seen = run[r].seen
         /\ \A s \in Sessions : \A e \in run'[r].index[s] :
              \E row \in Hit(s, run[r].cursor[s]) : e = Entry(row.doc, row.by, FALSE)
         /\ \A q \in Runs \ {r} : run'[q] = run[q]
<1>1. PICK thawed \in SUBSET run[r].scoped :
        Becomes(r, ReadingState(run[r], run[r].scoped \ thawed, [s \in Sessions |->
                       IF s \in thawed
                       THEN {Entry(row.doc, row.by, FALSE) : row \in Hit(s, run[r].cursor[s])}
                       ELSE {}]))
  BY DEF LookUp, ReadingState
<1> DEFINE index == [s \in Sessions |->
                       IF s \in thawed
                       THEN {Entry(row.doc, row.by, FALSE) : row \in Hit(s, run[r].cursor[s])}
                       ELSE {}]
           left == run[r].scoped \ thawed
<1>2. \A s \in Sessions : \A row \in Hit(s, run[r].cursor[s]) : Entry(row.doc, row.by, FALSE) \in Entries
  BY DEF TypeOK, Entries, Entry, Hit, Rows
<1>3. index \in [Sessions -> SUBSET Entries]
  BY <1>2
<1>4. \A s \in Sessions : \A e \in index[s] :
        \E row \in Hit(s, run[r].cursor[s]) : e = Entry(row.doc, row.by, FALSE)
  OBVIOUS
<1>5. Becomes(r, ReadingState(run[r], left, index))
  BY <1>1
<1>6. left \in SUBSET Sessions /\ run[r] \in RunStates
  BY DEF TypeOK, RunStates
<1> HIDE DEF index, left
<1> DEFINE state == ReadingState(run[r], left, index)
<1>7. /\ state \in RunStates /\ state.pc = "reading" /\ state.index = index
      /\ state.cursor = run[r].cursor /\ state.seen = run[r].seen
  BY <1>3, <1>6, ReadingFields
<1> HIDE DEF state
<1>8. run' \in [Runs -> RunStates] /\ run'[r] = state /\ \A q \in Runs \ {r} : run'[q] = run[q]
  BY <1>5, <1>7, OneRun DEF state
<1>9. QED
  BY <1>4, <1>7, <1>8 DEF LookUp

LEMMA ParseStep ==
  ASSUME TypeOK, NEW r \in Runs, NEW s \in Sessions, Parse(r, s)
  PROVE  /\ run' \in [Runs -> RunStates] /\ run[r].pc = "reading" /\ run'[r].pc = "reading"
         /\ run'[r].cursor = run[r].cursor /\ run'[r].seen = run[r].seen
         /\ run'[r].index[s] = {Entry(h.doc, r, TRUE) : h \in store[s]}
         /\ \A x \in Sessions \ {s} : run'[r].index[x] = run[r].index[x]
         /\ \A q \in Runs \ {r} : run'[q] = run[q]
<1> DEFINE parsed == {Entry(h.doc, r, TRUE) : h \in store[s]}
           index == [run[r].index EXCEPT ![s] = parsed]
<1>1. Becomes(r, ParsedState(run[r], run[r].left \ {s}, index))
  BY DEF Parse, ParsedState
<1>2. run[r] \in RunStates /\ run[r].index \in [Sessions -> SUBSET Entries]
      /\ run[r].left \ {s} \in SUBSET Sessions
  BY DEF TypeOK, RunStates
<1>3. parsed \in SUBSET Entries
  <2>1. \A h \in store[s] : h.doc \in Docs
    BY DEF TypeOK, Copies
  <2>2. \A d \in Docs : Entry(d, r, TRUE) \in Entries
    BY DEF Entries, Entry
  <2>3. QED
    BY <2>1, <2>2
<1> HIDE DEF parsed
<1>4. /\ index \in [Sessions -> SUBSET Entries] /\ index[s] = parsed
      /\ \A x \in Sessions \ {s} : index[x] = run[r].index[x]
  BY <1>2, <1>3
<1> DEFINE state == ParsedState(run[r], run[r].left \ {s}, index)
<1>5. Becomes(r, state)
  BY <1>1
<1> HIDE DEF index
<1>6. /\ state \in RunStates /\ state.pc = run[r].pc /\ state.index = index
      /\ state.cursor = run[r].cursor /\ state.seen = run[r].seen
  BY <1>2, <1>4, ParsedFields
<1> HIDE DEF state
<1>7. run' \in [Runs -> RunStates] /\ run'[r] = state /\ \A q \in Runs \ {r} : run'[q] = run[q]
  BY <1>5, <1>6, OneRun
<1>8. QED
  BY <1>4, <1>6, <1>7 DEF Parse, parsed

LEMMA OpenStep ==
  ASSUME TypeOK, NEW r \in Runs, ReadWriter(r) \/ EmptyRows(r) \/ Stamp(r)
  PROVE  /\ run' \in [Runs -> RunStates] /\ run'[r].index = run[r].index
         /\ run'[r].cursor = run[r].cursor /\ run'[r].seen = run[r].seen
         /\ ReadWriter(r) => /\ run[r].pc = "opening"
                             /\ run'[r].pc = IF writer = {release[r]} THEN "open" ELSE "emptying"
         /\ EmptyRows(r) => run[r].pc = "emptying" /\ run'[r].pc = "stamping"
         /\ Stamp(r) => run[r].pc = "stamping" /\ run'[r].pc = "open"
         /\ \A q \in Runs \ {r} : run'[q] = run[q]
<1>1. ASSUME NEW pc \in Pcs, Becomes(r, [run[r] EXCEPT !.pc = pc])
      PROVE  /\ run' \in [Runs -> RunStates] /\ run'[r].pc = pc
             /\ run'[r].index = run[r].index /\ run'[r].cursor = run[r].cursor
             /\ run'[r].seen = run[r].seen /\ \A q \in Runs \ {r} : run'[q] = run[q]
  <2> DEFINE state == [run[r] EXCEPT !.pc = pc]
  <2>1. /\ state \in RunStates /\ state.pc = pc /\ state.cursor = run[r].cursor
        /\ state.index = run[r].index /\ state.seen = run[r].seen
    BY PcState DEF TypeOK
  <2>2. Becomes(r, state)
    BY <1>1
  <2> HIDE DEF state
  <2>3. run' \in [Runs -> RunStates] /\ run'[r] = state /\ \A q \in Runs \ {r} : run'[q] = run[q]
    BY <2>1, <2>2, OneRun
  <2>4. QED
    BY <2>1, <2>3
<1>2. {"opening", "emptying", "stamping", "open"} \subseteq Pcs
  BY DEF Pcs
<1>3. CASE ReadWriter(r)
  <2> DEFINE pc == IF writer = {release[r]} THEN "open" ELSE "emptying"
  <2>1. pc \in Pcs /\ Becomes(r, [run[r] EXCEPT !.pc = pc])
    BY <1>2, <1>3 DEF ReadWriter
  <2>2. run[r].pc = "opening"
    BY <1>3 DEF ReadWriter
  <2> HIDE DEF pc
  <2>3. QED
    BY <1>1, <2>1, <2>2 DEF EmptyRows, Stamp, pc
<1>4. CASE EmptyRows(r)
  BY <1>1, <1>2, <1>4 DEF ReadWriter, EmptyRows, Stamp
<1>5. CASE Stamp(r)
  BY <1>1, <1>2, <1>5 DEF ReadWriter, EmptyRows, Stamp
<1>6. QED
  BY <1>3, <1>4, <1>5

LEMMA LastStep ==
  ASSUME TypeOK, NEW r \in Runs, PutMany(r) \/ FindStale(r) \/ DropStale(r) \/ Stop(r)
  PROVE  /\ run' \in [Runs -> RunStates] /\ run'[r].pc \in {"stored", "pruning", "ended"}
         /\ PutMany(r) => run[r].pc = "reading" /\ run'[r].pc = "stored"
         /\ \A s \in Sessions : run'[r].index[s] = {} /\ run'[r].cursor[s] = NoCursor
         /\ run[r].pc \in {"stored", "pruning"} \/ run'[r].pc \in {"stored", "ended"}
         /\ run'[r].pc # "ended" => run[r].pc \in {"reading", "stored"}
         /\ \A q \in Runs \ {r} : run'[q] = run[q]
<1>1. run[r].found \in SUBSET Sessions
  BY DEF TypeOK, RunStates
<1>2. CASE PutMany(r)
  <2>1. Becomes(r, StoredState(run[r].found)) /\ run[r].pc = "reading"
    BY <1>2 DEF PutMany, StoredState
  <2>2. QED
    BY <1>1, <1>2, <2>1, LastFields, OneRun DEF FindStale
<1>3. CASE FindStale(r)
  <2>1. PICK stale \in SUBSET Sessions : Becomes(r, PruningState(stale))
    BY <1>3 DEF FindStale, PruningState
  <2>2. QED
    BY <1>3, <2>1, LastFields, OneRun DEF FindStale, PutMany
<1>4. CASE DropStale(r) \/ Stop(r)
  <2>1. Becomes(r, Ended) /\ run[r].pc \notin {"start", "ended"}
    BY <1>4 DEF DropStale, Stop, Active, At
  <2>2. run'[r] = Ended /\ run' \in [Runs -> RunStates] /\ \A q \in Runs \ {r} : run'[q] = run[q]
    BY <2>1, RestingStates, OneRun
  <2>3. ~ PutMany(r)
    <3>1. ASSUME PutMany(r) PROVE FALSE
      <4>1. run'[r] = StoredState(run[r].found)
        BY <1>1, <3>1, OneRun, LastFields DEF PutMany, StoredState
      <4>2. QED
        BY <1>1, <2>2, <4>1, LastFields, RestingStates
    <3>2. QED
      BY <3>1
  <2>4. QED
    BY <2>2, <2>3, RestingStates
<1>5. QED
  BY <1>2, <1>3, <1>4

LEMMA WriteStep ==
  ASSUME TypeOK, NEW s \in Sessions, NEW doc \in Docs, NEW cursor, Write(s, doc, cursor)
  PROVE  /\ run' \in [Runs -> RunStates]
         /\ \A r \in Runs :
              /\ run'[r].pc = run[r].pc /\ run'[r].cursor = run[r].cursor
              /\ run'[r].index = run[r].index
              /\ \A x \in Sessions : run[r].seen[x] \subseteq run'[r].seen[x]
              /\ r \in Indexing => doc \in run'[r].seen[s]
<1>0. \A r \in Runs : run'[r] = IF r \in Indexing THEN Sees(run[r], s, doc) ELSE run[r]
  BY DEF Write
<1> SUFFICES ASSUME NEW r \in Runs
             PROVE  /\ run'[r] \in RunStates
                    /\ run'[r].pc = run[r].pc /\ run'[r].cursor = run[r].cursor
                    /\ run'[r].index = run[r].index
                    /\ \A x \in Sessions : run[r].seen[x] \subseteq run'[r].seen[x]
                    /\ r \in Indexing => doc \in run'[r].seen[s]
  BY DEF Write
<1> DEFINE seen == [run[r].seen EXCEPT ![s] = @ \cup {doc}]
<1>1. run[r] \in RunStates /\ run[r].seen \in [Sessions -> SUBSET Docs]
  BY DEF TypeOK, RunStates
<1>2. /\ seen \in [Sessions -> SUBSET Docs] /\ doc \in seen[s]
      /\ \A x \in Sessions : run[r].seen[x] \subseteq seen[x]
  BY <1>1
<1>3. Sees(run[r], s, doc) = [run[r] EXCEPT !.seen = seen]
  BY DEF Sees
<1> HIDE DEF seen
<1> DEFINE state == [run[r] EXCEPT !.seen = seen]
<1>4. /\ state \in RunStates /\ state.pc = run[r].pc /\ state.cursor = run[r].cursor
      /\ state.index = run[r].index /\ state.seen = seen
  BY <1>1, <1>2, SeenState
<1>5. run'[r] = IF r \in Indexing THEN state ELSE run[r]
  BY <1>0, <1>3
<1> HIDE DEF state
<1>6. QED
  BY <1>1, <1>2, <1>4, <1>5

LEMMA TypeStep == TypeOK /\ [Next]_vars => TypeOK'
<1> SUFFICES ASSUME TypeOK, [Next]_vars PROVE TypeOK'
  OBVIOUS
<1>1. ASSUME NEW s \in Sessions, SessionStep(s) PROVE TypeOK'
  <2>1. ASSUME NEW d \in Docs, NEW c \in Cursors, Write(s, d, c) PROVE TypeOK'
    <3>1. Held(d, c) \subseteq Copies
      BY DEF Held, Copies
    <3>2. edits' \in 0 .. MaxEdits
      BY <2>1, EditsAssumption DEF Write, TypeOK
    <3>3. run' \in [Runs -> RunStates]
      BY <2>1, WriteStep
    <3>4. QED
      BY <2>1, <3>1, <3>2, <3>3 DEF Write, TypeOK
  <2>2. ASSUME NEW d \in Docs, Edit(s, d) PROVE TypeOK'
    <3>1. <<d>> \in Cursors /\ <<"edit", edits>> \in Cursors
      BY DEF Cursors, TypeOK
    <3>2. QED
      BY <2>1, <2>2, <3>1 DEF Edit
  <2>3. ASSUME NEW d \in Docs, EditInPlace(s, d) PROVE TypeOK'
    <3>1. PICK h \in store[s] : Write(s, d, h.cursor)
      BY <2>3 DEF EditInPlace
    <3>2. h.cursor \in Cursors
      BY DEF TypeOK, Copies
    <3>3. QED
      BY <2>1, <3>1, <3>2
  <2>4. CASE Delete(s)
    BY <2>4, EditsAssumption DEF Delete, Gone, TypeOK
  <2>5. QED
    BY <1>1, <2>2, <2>3, <2>4 DEF SessionStep
<1>2. ASSUME NEW r \in Runs, RunStep(r) PROVE TypeOK'
  <2>1. ASSUME NEW found \in SUBSET Sessions, List(r, found) PROVE TypeOK'
    BY <2>1, ListStep DEF List, TypeOK
  <2>2. CASE ReadWriter(r)
    BY <2>2, OpenStep DEF ReadWriter, sessions, TypeOK, Beside, Opened, Active
  <2>3. CASE EmptyRows(r) \/ Stamp(r)
    BY <2>3, OpenStep DEF EmptyRows, Stamp, sessions, TypeOK
  <2>4. CASE Fingerprints(r)
    BY <2>4, FingerprintsStep DEF Fingerprints, sessions, TypeOK
  <2>5. CASE LookUp(r)
    BY <2>5, LookUpStep DEF LookUp, sessions, TypeOK
  <2>6. ASSUME NEW s \in Sessions, Parse(r, s) PROVE TypeOK'
    BY <2>6, ParseStep DEF Parse, sessions, TypeOK
  <2>7. CASE PutMany(r)
    <3>1. \A s \in Sessions : \A e \in Fresh(r, s) : Row(e.doc, run[r].cursor[s], r) \in Rows
      BY DEF Fresh, Row, Rows, RunStates, Entries, TypeOK
    <3>2. rows' \in [Sessions -> SUBSET Rows]
      BY <2>7, <3>1 DEF PutMany, TypeOK
    <3>3. QED
      BY <2>7, <3>2, LastStep DEF PutMany, sessions, TypeOK
  <2>8. CASE FindStale(r) \/ DropStale(r) \/ Stop(r)
    BY <2>8, LastStep DEF FindStale, DropStale, Stop, sessions, TypeOK
  <2>9. QED
    BY <1>2, <2>1, <2>2, <2>3, <2>4, <2>5, <2>6, <2>7, <2>8
    DEF RunStep, ListAll, ListWithoutShare, ListNamedShare, Present
<1>3. CASE UNCHANGED vars
  BY <1>3 DEF vars, sessions, TypeOK
<1>4. QED
  BY <1>1, <1>2, <1>3 DEF Next

\* The file, the stores and every run keep their types, whatever fails.
THEOREM CacheTypeCorrect == Spec => []TypeOK
<1>1. QED
  BY TypeInit, TypeStep, PTL DEF Spec

(***************************************************************************)
(* Releases: a run that no other release was open beside is served what    *)
(* its own release extracted, and what it stores is served to no other.    *)
(***************************************************************************)
LEMMA OpenedAreRuns == Opened \subseteq Runs /\ Indexing \subseteq Runs
BY DEF Opened, Indexing, Active

LEMMA IndexingPcs == \A r \in Runs : r \in Indexing <=> run[r].pc \notin {"start", "ended", "stored", "pruning"}
BY DEF Indexing, Active, At

LEMMA ReleaseInit == Init => ReleaseInv
<1> SUFFICES ASSUME Init PROVE ReleaseInv
  OBVIOUS
<1>1. TypeOK
  BY TypeInit
<1>2. \A r \in Runs : run[r] = Idle
  BY DEF Init
<1>3. Opened = {}
  BY <1>2, RestingStates DEF Opened, Active, At
<1>4. QED
  BY <1>1, <1>2, <1>3, RestingStates
  DEF Init, ReleaseInv, MixedInv, WriterInv, RowsInv, OwnReleaseUnlessMixed

\* A step in which no run opens the file, gets past its opening, or stores a
\* row leaves the releases where they are.
LEMMA ReleaseFrame ==
  ASSUME ReleaseInv, TypeOK', release' = release, writer' = writer, mixed' = mixed,
         \A s \in Sessions : rows'[s] \subseteq rows[s],
         \A r \in Runs : /\ run'[r].pc \notin {"start", "ended", "opening"} =>
                              /\ run[r].pc \notin {"start", "ended", "opening", "emptying", "stamping"}
                                 \/ run'[r].pc = run[r].pc
                              /\ run[r].pc \notin {"start", "ended", "opening"}
                         /\ \A s \in Sessions : \A e \in run'[r].index[s] :
                              e.by \in mixed \/ release[e.by] = release[r]
  PROVE  ReleaseInv'
<1>1. Opened' \subseteq Opened
  BY DEF Opened, Active, At
<1>2. \A r \in Opened' : run[r].pc \in {"emptying", "stamping"} => run'[r].pc = run[r].pc
  BY DEF Opened, Active, At
<1>3. MixedInv'
  BY <1>1 DEF ReleaseInv, MixedInv
<1>4. WriterInv'
  BY <1>1, <1>2 DEF ReleaseInv, WriterInv
<1>5. RowsInv'
  BY <1>1, <1>2 DEF ReleaseInv, RowsInv
<1>6. OwnReleaseUnlessMixed'
  BY DEF OwnReleaseUnlessMixed
<1>7. QED
  BY <1>3, <1>4, <1>5, <1>6 DEF ReleaseInv

LEMMA ReleaseStep == ReleaseInv /\ [Next]_vars => ReleaseInv'
<1> SUFFICES ASSUME ReleaseInv, [Next]_vars PROVE ReleaseInv'
  OBVIOUS
<1>0. TypeOK /\ TypeOK'
  BY TypeStep DEF ReleaseInv
<1>a. \A r \in Runs : \A s \in Sessions : \A e \in run[r].index[s] :
        e.by \in mixed \/ release[e.by] = release[r]
  BY DEF ReleaseInv, OwnReleaseUnlessMixed
<1>1. ASSUME NEW s \in Sessions, SessionStep(s) PROVE ReleaseInv'
  <2>1. ASSUME NEW d \in Docs, NEW c, Write(s, d, c) PROVE ReleaseInv'
    <3>1. \A r \in Runs : run'[r].pc = run[r].pc /\ run'[r].index = run[r].index
      BY <1>0, <2>1, WriteStep
    <3>2. release' = release /\ writer' = writer /\ mixed' = mixed /\ rows' = rows
      BY <2>1 DEF Write
    <3>3. QED
      BY <1>0, <1>a, <3>1, <3>2, ReleaseFrame
  <2>2. CASE Delete(s)
    <3>1. release' = release /\ writer' = writer /\ mixed' = mixed /\ rows' = rows /\ run' = run
      BY <2>2 DEF Delete
    <3>2. QED
      BY <1>0, <1>a, <3>1, ReleaseFrame
  <2>3. QED
    BY <1>1, <2>1, <2>2 DEF SessionStep, Edit, EditInPlace
<1>2. ASSUME NEW r \in Runs, RunStep(r) PROVE ReleaseInv'
  <2>1. ASSUME NEW found \in SUBSET Sessions, List(r, found) PROVE ReleaseInv'
    <3>1. release' = release /\ writer' = writer /\ mixed' = mixed /\ rows' = rows
      BY <2>1 DEF List
    <3>2. QED
      BY <1>0, <1>a, <2>1, <3>1, ListStep, ReleaseFrame
  <2>2. CASE ReadWriter(r)
    <3>1. /\ run[r].pc = "opening"
          /\ run'[r].pc = IF writer = {release[r]} THEN "open" ELSE "emptying"
          /\ \A q \in Runs : run'[q].index = run[q].index
          /\ \A q \in Runs \ {r} : run'[q] = run[q]
      BY <1>0, <2>2, OpenStep
    <3>2. release' = release /\ writer' = writer /\ rows' = rows /\ mixed \subseteq mixed'
      BY <2>2 DEF ReadWriter
    <3>3. Opened' = Opened \cup {r} /\ r \notin Opened
      BY <3>1 DEF Opened, Active, At
    <3>4. \A q \in Opened : release[q] # release[r] => q \in mixed' /\ r \in mixed'
      BY <2>2 DEF ReadWriter, Beside
    <3>5. MixedInv'
      BY <3>2, <3>3, <3>4 DEF ReleaseInv, MixedInv
    <3>6. WriterInv'
      <4> SUFFICES ASSUME NEW q \in Opened', q \notin mixed', run'[q].pc \notin {"emptying", "stamping"}
                   PROVE  writer = {release[q]}
        BY <3>2 DEF WriterInv
      <4>1. CASE q = r
        BY <3>1, <4>1
      <4>2. CASE q # r
        BY <3>1, <3>2, <3>3, <4>2, OpenedAreRuns DEF ReleaseInv, WriterInv
      <4>3. QED
        BY <4>1, <4>2
    <3>7. RowsInv'
      <4> SUFFICES ASSUME NEW s \in Sessions, NEW row \in rows[s], row.by \notin mixed'
                   PROVE  /\ writer = {release[row.by]}
                          /\ \A q \in Opened' : run'[q].pc # "emptying" => release[row.by] = release[q]
        BY <3>2 DEF RowsInv
      <4>1. /\ writer = {release[row.by]}
            /\ \A q \in Opened : run[q].pc # "emptying" => release[row.by] = release[q]
        BY <3>2 DEF ReleaseInv, RowsInv
      <4>2. run'[r].pc # "emptying" => release[row.by] = release[r]
        BY <3>1, <4>1
      <4>3. QED
        BY <3>1, <3>3, <4>1, <4>2, OpenedAreRuns
    <3>8. OwnReleaseUnlessMixed'
      BY <3>1, <3>2 DEF ReleaseInv, OwnReleaseUnlessMixed
    <3>9. QED
      BY <1>0, <3>5, <3>6, <3>7, <3>8 DEF ReleaseInv
  <2>3. CASE EmptyRows(r) \/ Stamp(r)
    <3>1. /\ EmptyRows(r) => run[r].pc = "emptying" /\ run'[r].pc = "stamping"
          /\ Stamp(r) => run[r].pc = "stamping" /\ run'[r].pc = "open"
          /\ \A q \in Runs : run'[q].index = run[q].index
          /\ \A q \in Runs \ {r} : run'[q] = run[q]
      BY <1>0, <2>3, OpenStep
    <3>2. release' = release /\ mixed' = mixed
      BY <2>3 DEF EmptyRows, Stamp
    <3>3. Opened' = Opened /\ r \in Opened
      BY <2>3, <3>1 DEF Opened, Active, At
    <3>4. MixedInv'
      BY <3>2, <3>3 DEF ReleaseInv, MixedInv
    <3>5. OwnReleaseUnlessMixed'
      BY <3>1, <3>2 DEF ReleaseInv, OwnReleaseUnlessMixed
    <3>6. CASE EmptyRows(r)
      <4>1. writer' = writer /\ \A s \in Sessions : rows'[s] = {}
        BY <3>6 DEF EmptyRows
      <4>2. WriterInv'
        <5> SUFFICES ASSUME NEW q \in Opened, q \notin mixed, run'[q].pc \notin {"emptying", "stamping"}
                     PROVE  writer = {release[q]}
          BY <3>2, <3>3, <4>1 DEF WriterInv
        <5>1. q # r /\ run'[q] = run[q]
          BY <3>1, <3>6, OpenedAreRuns
        <5>2. QED
          BY <5>1 DEF ReleaseInv, WriterInv
      <4>3. RowsInv'
        BY <4>1 DEF RowsInv
      <4>4. QED
        BY <1>0, <3>4, <3>5, <4>2, <4>3 DEF ReleaseInv
    <3>7. CASE Stamp(r)
      <4>1. writer' = {release[r]} /\ rows' = rows
        BY <3>7 DEF Stamp
      <4>2. \A q \in Opened \ mixed : release[q] = release[r]
        BY <3>3 DEF ReleaseInv, MixedInv
      <4>3. WriterInv'
        BY <3>2, <3>3, <4>1, <4>2 DEF WriterInv
      <4>4. RowsInv'
        <5> SUFFICES ASSUME NEW s \in Sessions, NEW row \in rows[s], row.by \notin mixed
                     PROVE  /\ {release[r]} = {release[row.by]}
                            /\ \A q \in Opened : run'[q].pc # "emptying" => release[row.by] = release[q]
          BY <3>2, <3>3, <4>1 DEF RowsInv
        <5>1. \A q \in Opened : run[q].pc # "emptying" => release[row.by] = release[q]
          BY DEF ReleaseInv, RowsInv
        <5>2. \A q \in Opened : run'[q].pc # "emptying" => run[q].pc # "emptying"
          BY <3>1, <3>7, OpenedAreRuns
        <5>3. QED
          BY <3>1, <3>3, <3>7, <5>1, <5>2
      <4>5. QED
        BY <1>0, <3>4, <3>5, <4>3, <4>4 DEF ReleaseInv
    <3>8. QED
      BY <2>3, <3>6, <3>7
  <2>4. CASE Fingerprints(r)
    <3>1. release' = release /\ writer' = writer /\ mixed' = mixed /\ rows' = rows
      BY <2>4 DEF Fingerprints
    <3>2. QED
      BY <1>0, <1>a, <2>4, <3>1, FingerprintsStep, ReleaseFrame
  <2>5. CASE LookUp(r)
    <3>1. release' = release /\ writer' = writer /\ mixed' = mixed /\ rows' = rows
      BY <2>5 DEF LookUp
    <3>2. /\ run[r].pc = "asked" /\ run'[r].pc = "reading"
          /\ \A s \in Sessions : \A e \in run'[r].index[s] :
               \E row \in rows[s] : e = Entry(row.doc, row.by, FALSE)
          /\ \A q \in Runs \ {r} : run'[q] = run[q]
      BY <1>0, <2>5, LookUpStep DEF Hit
    <3>3. r \in Opened
      BY <3>2 DEF Opened, Active, At
    <3>4. \A s \in Sessions : \A row \in rows[s] : row.by \in mixed \/ release[row.by] = release[r]
      BY <3>2, <3>3 DEF ReleaseInv, RowsInv
    <3>5. \A s \in Sessions : \A e \in run'[r].index[s] : e.by \in mixed \/ release[e.by] = release[r]
      BY <3>2, <3>4 DEF Entry
    <3>6. QED
      BY <1>0, <1>a, <3>1, <3>2, <3>5, ReleaseFrame
  <2>6. ASSUME NEW s \in Sessions, Parse(r, s) PROVE ReleaseInv'
    <3>1. release' = release /\ writer' = writer /\ mixed' = mixed /\ rows' = rows
      BY <2>6 DEF Parse
    <3>2. /\ run[r].pc = "reading" /\ run'[r].pc = "reading"
          /\ run'[r].index[s] = {Entry(h.doc, r, TRUE) : h \in store[s]}
          /\ \A x \in Sessions \ {s} : run'[r].index[x] = run[r].index[x]
          /\ \A q \in Runs \ {r} : run'[q] = run[q]
      BY <1>0, <2>6, ParseStep
    <3>3. \A x \in Sessions : \A e \in run'[r].index[x] : e.by \in mixed \/ release[e.by] = release[r]
      BY <1>a, <3>2 DEF Entry
    <3>4. QED
      BY <1>0, <1>a, <3>1, <3>2, <3>3, ReleaseFrame
  <2>7. CASE PutMany(r)
    <3>1. release' = release /\ writer' = writer /\ mixed' = mixed
      BY <2>7 DEF PutMany
    <3>2. /\ run[r].pc = "reading" /\ run'[r].pc = "stored"
          /\ \A s \in Sessions : run'[r].index[s] = {}
          /\ \A q \in Runs \ {r} : run'[q] = run[q]
      BY <1>0, <2>7, LastStep DEF PutMany
    <3>3. Opened' = Opened /\ r \in Opened
      BY <3>2 DEF Opened, Active, At
    <3>4. \A s \in Sessions : \A row \in rows'[s] : row \in rows[s] \/ row.by = r
      BY <2>7 DEF PutMany, Row
    <3>5. MixedInv'
      BY <3>1, <3>3 DEF ReleaseInv, MixedInv
    <3>6. WriterInv'
      <4>1. \A q \in Opened : run'[q].pc \notin {"emptying", "stamping"}
              => run[q].pc \notin {"emptying", "stamping"}
        BY <3>2, OpenedAreRuns
      <4>2. QED
        BY <3>1, <3>3, <4>1 DEF ReleaseInv, WriterInv
    <3>7. r \notin mixed => /\ writer = {release[r]}
                           /\ \A q \in Opened : release[q] = release[r]
      BY <3>2, <3>3 DEF ReleaseInv, WriterInv, MixedInv
    <3>8. RowsInv'
      <4> SUFFICES ASSUME NEW s \in Sessions, NEW row \in rows'[s], row.by \notin mixed
                   PROVE  /\ writer = {release[row.by]}
                          /\ \A q \in Opened : run'[q].pc # "emptying" => release[row.by] = release[q]
        BY <3>1, <3>3 DEF RowsInv
      <4>1. CASE row.by = r
        BY <3>7, <4>1
      <4>2. CASE row \in rows[s]
        <5>1. \A q \in Opened : run'[q].pc # "emptying" => run[q].pc # "emptying"
          BY <3>2, OpenedAreRuns
        <5>2. QED
          BY <4>2, <5>1 DEF ReleaseInv, RowsInv
      <4>3. QED
        BY <3>4, <4>1, <4>2
    <3>9. OwnReleaseUnlessMixed'
      BY <3>1, <3>2 DEF ReleaseInv, OwnReleaseUnlessMixed
    <3>10. QED
      BY <1>0, <3>5, <3>6, <3>8, <3>9 DEF ReleaseInv
  <2>8. CASE FindStale(r) \/ DropStale(r) \/ Stop(r)
    <3>1. release' = release /\ writer' = writer /\ mixed' = mixed
      BY <2>8 DEF FindStale, DropStale, Stop
    <3>2. \A s \in Sessions : rows'[s] \subseteq rows[s]
      BY <2>8 DEF FindStale, DropStale, Stop
    <3>3. /\ run'[r].pc \in {"stored", "pruning", "ended"}
          /\ run'[r].pc # "ended" => run[r].pc \in {"reading", "stored"}
          /\ \A s \in Sessions : run'[r].index[s] = {}
          /\ \A q \in Runs \ {r} : run'[q] = run[q]
      BY <1>0, <2>8, LastStep
    <3>4. QED
      BY <1>0, <1>a, <3>1, <3>2, <3>3, ReleaseFrame
  <2>9. QED
    BY <1>0, <1>2, <2>1, <2>2, <2>3, <2>4, <2>5, <2>6, <2>7, <2>8
    DEF RunStep, ListAll, ListWithoutShare, ListNamedShare, Present, TypeOK
<1>3. CASE UNCHANGED vars
  <2>1. release' = release /\ writer' = writer /\ mixed' = mixed /\ rows' = rows /\ run' = run
    BY <1>3 DEF vars
  <2>2. QED
    BY <1>0, <1>a, <2>1, ReleaseFrame
<1>4. QED
  BY <1>1, <1>2, <1>3 DEF Next

\* Releases that never have the file open together never see each other's
\* documents.
THEOREM OwnReleaseTheorem == Spec => []OwnReleaseUnlessMixed
<1>1. ReleaseInv => OwnReleaseUnlessMixed
  BY DEF ReleaseInv
<1>2. QED
  BY <1>1, ReleaseInit, ReleaseStep, PTL DEF Spec

(***************************************************************************)
(* Freshness: what a matching cursor serves is no older than the run.      *)
(***************************************************************************)
LEMMA CurrentInit == Init => CurrentInv
<1> SUFFICES ASSUME Init PROVE CurrentInv
  OBVIOUS
<1>1. TypeOK
  BY TypeInit
<1>2. \A r \in Runs : run[r] = Idle
  BY DEF Init
<1>3. Indexing = {}
  BY <1>2, RestingStates DEF Indexing, Active, At
<1>4. \A s \in Sessions : store[s] = Gone \/ \E d \in Docs : store[s] = Held(d, <<d>>)
  BY DEF Init
<1>5. HeldInv
  <2> SUFFICES ASSUME NEW s \in Sessions, NEW h \in store[s]
               PROVE  h.cursor \in past[s] /\ h.cursor # NoCursor /\ \A k \in store[s] : k = h
    BY DEF HeldInv
  <2>1. PICK d \in Docs : store[s] = Held(d, <<d>>)
    BY <1>4 DEF Gone
  <2>2. store[s] = {h} /\ h.cursor = <<d>>
    BY <2>1 DEF Held
  <2>3. past[s] = {k.cursor : k \in store[s]}
    BY DEF Init
  <2>4. QED
    BY <2>2, <2>3 DEF NoCursor
<1>6. KnownInv /\ QuietInv
  BY <1>2, RestingStates DEF Init, KnownInv, QuietInv, Known
<1>7. StoreInv /\ SeenInv
  BY <1>3 DEF Init, StoreInv, SeenInv
<1>8. IndexIsCurrent
  BY <1>2, RestingStates DEF IndexIsCurrent
<1>9. QED
  BY <1>1, <1>5, <1>6, <1>7, <1>8 DEF CurrentInv

\* A session's cursor is one it has had, and leads to what the session holds.
LEMMA CursorKnown ==
  ASSUME TypeOK, HeldInv, NEW s \in Sessions
  PROVE  /\ Cursor(s) \in Known(s)
         /\ Cursor(s) # NoCursor => \E h \in store[s] : h.cursor = Cursor(s)
BY CursorType DEF HeldInv, Known, Cursor, Gone

\* A step in which a run that has indexed nothing reads cursors, if it does
\* anything: none are read but those the sessions have now, and rows may go.
LEMMA AskFrame ==
  ASSUME CurrentInv, TypeOK', NEW r \in Runs,
         store' = store, past' = past, blurred' = blurred,
         \A s \in Sessions : rows'[s] \subseteq rows[s],
         \A q \in Runs \ {r} : run'[q] = run[q],
         \A s \in Sessions :
           /\ run'[r].index[s] = {}
           /\ \/ run'[r].cursor[s] \in {NoCursor, Cursor(s)}
              \/ r \in Indexing /\ run'[r].cursor[s] = run[r].cursor[s]
           /\ r \in Indexing' /\ s \notin blurred => \A h \in store[s] : h.doc \in run'[r].seen[s]
           /\ r \in Indexing /\ r \in Indexing' => run[r].seen[s] \subseteq run'[r].seen[s]
  PROVE  CurrentInv'
<1>0. TypeOK /\ HeldInv /\ KnownInv /\ QuietInv /\ StoreInv /\ SeenInv /\ IndexIsCurrent
  BY DEF CurrentInv
<1>1. Indexing' \subseteq Indexing \cup {r}
  BY DEF Indexing, Active, At
<1>2. HeldInv'
  BY <1>0 DEF HeldInv
<1>a. KnownInv'
  <2> SUFFICES ASSUME NEW s \in Sessions
               PROVE  /\ \A row \in rows'[s] : row.cursor \in Known(s)
                      /\ \A q \in Runs : run'[q].cursor[s] \in Known(s)
    BY DEF KnownInv, Known
  <2>1. Cursor(s) \in Known(s) /\ NoCursor \in Known(s)
    BY <1>0, CursorKnown DEF Known
  <2>2. \A q \in Runs : run[q].cursor[s] \in Known(s)
    BY <1>0 DEF KnownInv
  <2>3. run'[r].cursor[s] \in Known(s)
    BY <2>1, <2>2
  <2>4. \A row \in rows'[s] : row.cursor \in Known(s)
    BY <1>0 DEF KnownInv
  <2>5. QED
    BY <2>2, <2>3, <2>4
<1>b. QuietInv'
  BY <1>0 DEF QuietInv
<1>3. \A s \in Sessions : Fresh(r, s)' = {} /\ \A q \in Runs \ {r} : Fresh(q, s)' = Fresh(q, s)
  BY DEF Fresh
<1>c. \A q \in Runs \ {r} : q \in Indexing' <=> q \in Indexing
  BY DEF Indexing, Active, At
<1>4. StoreInv'
  <2> SUFFICES ASSUME NEW s \in Sessions, s \notin blurred, NEW h \in store[s]
               PROVE  /\ \A row \in rows'[s] : row.cursor = h.cursor => row.doc = h.doc
                      /\ \A q \in Indexing' : h.doc \in run'[q].seen[s]
                      /\ \A q \in Indexing' : run'[q].cursor[s] = h.cursor => \A e \in Fresh(q, s)' : e.doc = h.doc
    BY DEF StoreInv
  <2>1. \A row \in rows'[s] : row.cursor = h.cursor => row.doc = h.doc
    BY <1>0 DEF StoreInv
  <2>2. ASSUME NEW q \in Indexing'
        PROVE  /\ h.doc \in run'[q].seen[s]
               /\ run'[q].cursor[s] = h.cursor => \A e \in Fresh(q, s)' : e.doc = h.doc
    <3>1. CASE q = r
      BY <1>3, <3>1
    <3>2. CASE q # r
      <4>1. q \in Indexing /\ q \in Runs \ {r}
        BY <1>1, <3>2, OpenedAreRuns
      <4>2. /\ h.doc \in run[q].seen[s]
            /\ run[q].cursor[s] = h.cursor => \A e \in Fresh(q, s) : e.doc = h.doc
        BY <1>0, <4>1 DEF StoreInv
      <4>3. run'[q] = run[q] /\ Fresh(q, s)' = Fresh(q, s)
        BY <1>3, <4>1
      <4>4. QED
        BY <4>2, <4>3
    <3>3. QED
      BY <3>1, <3>2
  <2>3. QED
    BY <2>1, <2>2
<1>5. SeenInv'
  <2> SUFFICES ASSUME NEW s \in Sessions, s \notin blurred, NEW q \in Indexing', run'[q].cursor[s] # NoCursor
               PROVE  /\ \A row \in rows'[s] : row.cursor = run'[q].cursor[s] => row.doc \in run'[q].seen[s]
                      /\ \A p \in Indexing' : run'[p].cursor[s] = run'[q].cursor[s]
                           => \A e \in Fresh(p, s)' : e.doc \in run'[q].seen[s]
    BY DEF SeenInv
  <2>1. ASSUME NEW p \in Indexing', NEW e \in Fresh(p, s)'
        PROVE  /\ p \in Indexing /\ e \in Fresh(p, s) /\ run'[p] = run[p]
    BY <1>1, <1>3, <2>1, OpenedAreRuns
  <2>2. CASE q \in Indexing /\ run'[q].cursor[s] = run[q].cursor[s]
    <3>1. run[q].seen[s] \subseteq run'[q].seen[s]
      BY <2>2, OpenedAreRuns
    <3>2. /\ \A row \in rows[s] : row.cursor = run[q].cursor[s] => row.doc \in run[q].seen[s]
          /\ \A p \in Indexing : run[p].cursor[s] = run[q].cursor[s]
                => \A e \in Fresh(p, s) : e.doc \in run[q].seen[s]
      BY <1>0, <2>2 DEF SeenInv
    <3>3. \A row \in rows'[s] : row \in rows[s]
      OBVIOUS
    <3>4. QED
      BY <2>1, <2>2, <3>1, <3>2, <3>3
  <2>3. CASE q = r /\ run'[r].cursor[s] = Cursor(s)
    <3>1. PICK h \in store[s] : h.cursor = run'[r].cursor[s]
      BY <1>0, <2>3, CursorKnown
    <3>2. h.doc \in run'[r].seen[s]
      BY <2>3
    <3>3. /\ \A row \in rows[s] : row.cursor = h.cursor => row.doc = h.doc
          /\ \A p \in Indexing : run[p].cursor[s] = h.cursor
                => \A e \in Fresh(p, s) : e.doc = h.doc
      BY <1>0 DEF StoreInv
    <3>4. \A row \in rows'[s] : row \in rows[s]
      OBVIOUS
    <3>5. QED
      BY <2>1, <2>3, <3>1, <3>2, <3>3, <3>4
  <2>4. QED
    BY <1>1, <2>2, <2>3, OpenedAreRuns
<1>6. IndexIsCurrent'
  BY <1>0 DEF IndexIsCurrent
<1>7. QED
  BY <1>2, <1>a, <1>b, <1>4, <1>5, <1>6 DEF CurrentInv

LEMMA CurrentStep == CurrentInv /\ [Next]_vars => CurrentInv'
<1> SUFFICES ASSUME CurrentInv, [Next]_vars PROVE CurrentInv'
  OBVIOUS
<1>0. TypeOK /\ TypeOK'
  BY TypeStep DEF CurrentInv
<1>a. HeldInv /\ KnownInv /\ QuietInv /\ StoreInv /\ SeenInv /\ IndexIsCurrent
  BY DEF CurrentInv
<1>b. \A s \in Sessions : \A h \in store[s] : \A r \in Indexing : s \notin blurred => h.doc \in run[r].seen[s]
  BY <1>a DEF StoreInv
<1>1. ASSUME NEW s \in Sessions, SessionStep(s) PROVE CurrentInv'
  <2>1. ASSUME NEW d \in Docs, NEW c, c # NoCursor, Write(s, d, c) PROVE CurrentInv'
    <3>1. /\ store' = [store EXCEPT ![s] = Held(d, c)]
          /\ past' = [past EXCEPT ![s] = @ \cup {c}]
          /\ blurred' = IF c \in past[s] THEN blurred \cup {s} ELSE blurred
          /\ rows' = rows
      BY <2>1 DEF Write
    <3>2. \A r \in Runs :
            /\ run'[r].pc = run[r].pc /\ run'[r].cursor = run[r].cursor
            /\ run'[r].index = run[r].index
            /\ \A x \in Sessions : run[r].seen[x] \subseteq run'[r].seen[x]
            /\ r \in Indexing => d \in run'[r].seen[s]
      BY <1>0, <2>1, WriteStep
    <3>3. Indexing' = Indexing
      BY <3>2 DEF Indexing, Active, At
    <3>4. \A x \in Sessions : \A r \in Runs : Fresh(r, x)' = Fresh(r, x)
      BY <3>2 DEF Fresh
    <3>5. /\ \A x \in Sessions : x # s => store'[x] = store[x] /\ past'[x] = past[x]
          /\ past'[s] = past[s] \cup {c}
      BY <1>0, <3>1 DEF TypeOK
    <3>6. \A h \in store'[s] : h.cursor = c /\ h.doc = d /\ \A k \in store'[s] : k = h
      <4>1. store'[s] = {[doc |-> d, cursor |-> c]}
        BY <1>0, <3>1 DEF TypeOK, Held
      <4>2. QED
        BY <4>1
    <3>7. HeldInv'
      <4> SUFFICES ASSUME NEW x \in Sessions, NEW h \in store'[x]
                   PROVE  h.cursor \in past'[x] /\ h.cursor # NoCursor /\ \A k \in store'[x] : k = h
        BY DEF HeldInv
      <4>1. CASE x = s
        BY <2>1, <3>5, <3>6, <4>1
      <4>2. CASE x # s
        BY <1>a, <3>5, <4>2 DEF HeldInv
      <4>3. QED
        BY <4>1, <4>2
    <3>a. KnownInv'
      <4> SUFFICES ASSUME NEW x \in Sessions
                   PROVE  /\ \A row \in rows[x] : row.cursor \in past'[x] \cup {NoCursor}
                          /\ \A q \in Runs : run[q].cursor[x] \in past'[x] \cup {NoCursor}
        BY <3>1, <3>2 DEF KnownInv, Known
      <4>1. \A y : y \in past[x] => y \in past'[x]
        BY <3>5
      <4>2. QED
        BY <1>a, <4>1 DEF KnownInv, Known
    <3>b. QuietInv'
      BY <1>a, <3>2 DEF QuietInv
    <3>8. StoreInv'
      <4> SUFFICES ASSUME NEW x \in Sessions, x \notin blurred', NEW h \in store'[x]
                   PROVE  /\ \A row \in rows[x] : row.cursor = h.cursor => row.doc = h.doc
                          /\ \A q \in Indexing : h.doc \in run'[q].seen[x]
                          /\ \A q \in Indexing : run[q].cursor[x] = h.cursor => \A e \in Fresh(q, x) : e.doc = h.doc
        <5>1. \A q \in Indexing : /\ run'[q].cursor = run[q].cursor
                                   /\ \A y \in Sessions : Fresh(q, y)' = Fresh(q, y)
          BY <3>2, <3>4, OpenedAreRuns
        <5>2. QED
          BY <3>1, <3>3, <5>1 DEF StoreInv
      <4>1. CASE x = s
        <5>1. c \notin past[s] /\ c # NoCursor
          BY <2>1, <3>1, <4>1
        <5>2. /\ \A row \in rows[s] : row.cursor # c
              /\ \A q \in Runs : run[q].cursor[s] # c
          BY <1>a, <5>1 DEF KnownInv, Known
        <5>3. h.cursor = c /\ h.doc = d
          BY <3>6, <4>1
        <5>4. QED
          BY <3>2, <4>1, <5>2, <5>3, OpenedAreRuns
      <4>2. CASE x # s
        <5>1. h \in store[x] /\ x \notin blurred
          BY <3>1, <3>5, <4>2
        <5>2. \A q \in Indexing : run[q].seen[x] \subseteq run'[q].seen[x]
          BY <3>2, OpenedAreRuns
        <5>3. QED
          BY <1>a, <5>1, <5>2 DEF StoreInv
      <4>3. QED
        BY <4>1, <4>2
    <3>9. SeenInv'
      BY <1>a, <3>1, <3>2, <3>3, <3>4, OpenedAreRuns DEF SeenInv
    <3>10. IndexIsCurrent'
      BY <1>a, <3>1, <3>2 DEF IndexIsCurrent
    <3>11. QED
      BY <1>0, <3>7, <3>a, <3>b, <3>8, <3>9, <3>10 DEF CurrentInv
  <2>2. CASE Delete(s)
    <3>1. /\ run' = run /\ rows' = rows /\ past' = past /\ blurred' = blurred
          /\ \A x \in Sessions : store'[x] \subseteq store[x] /\ (store'[x] = store[x] \/ store'[x] = {})
      BY <1>0, <2>2 DEF Delete, TypeOK, Gone
    <3>2. Indexing' = Indexing /\ \A x \in Sessions : \A q \in Runs : Fresh(q, x)' = Fresh(q, x)
      BY <3>1 DEF Indexing, Active, At, Fresh
    <3>3. HeldInv' /\ KnownInv' /\ QuietInv'
      BY <1>a, <3>1 DEF HeldInv, KnownInv, QuietInv, Known
    <3>4. StoreInv'
      BY <1>a, <3>1, <3>2, OpenedAreRuns DEF StoreInv
    <3>5. SeenInv'
      BY <1>a, <3>1, <3>2, OpenedAreRuns DEF SeenInv
    <3>6. IndexIsCurrent'
      BY <1>a, <3>1 DEF IndexIsCurrent
    <3>7. QED
      BY <1>0, <3>3, <3>4, <3>5, <3>6 DEF CurrentInv
  <2>3. ASSUME NEW d \in Docs, Edit(s, d) PROVE CurrentInv'
    <3>1. <<d>> # NoCursor /\ <<"edit", edits>> # NoCursor
      BY DEF NoCursor
    <3>2. QED
      BY <2>1, <2>3, <3>1 DEF Edit
  <2>4. ASSUME NEW d \in Docs, EditInPlace(s, d) PROVE CurrentInv'
    <3>1. PICK h \in store[s] : Write(s, d, h.cursor)
      BY <2>4 DEF EditInPlace
    <3>2. h.cursor # NoCursor
      BY <1>a DEF HeldInv
    <3>3. QED
      BY <2>1, <3>1, <3>2
  <2>5. QED
    BY <1>1, <2>2, <2>3, <2>4 DEF SessionStep
<1>2. ASSUME NEW r \in Runs, RunStep(r) PROVE CurrentInv'
  <2>1. ASSUME NEW found \in SUBSET Sessions, List(r, found) PROVE CurrentInv'
    <3>1. store' = store /\ past' = past /\ blurred' = blurred /\ rows' = rows
      BY <2>1 DEF List
    <3>2. /\ run[r].pc = "start"
          /\ \A s \in Sessions : /\ run'[r].index[s] = {}
                                 /\ run'[r].cursor[s] \in {NoCursor, Cursor(s)}
                                 /\ run'[r].seen[s] = {h.doc : h \in store[s]}
          /\ \A q \in Runs \ {r} : run'[q] = run[q]
      BY <1>0, <2>1, ListStep
    <3>3. r \notin Indexing
      BY <3>2, IndexingPcs
    <3>4. QED
      BY <1>0, <3>1, <3>2, <3>3, AskFrame
  <2>2. CASE ReadWriter(r) \/ EmptyRows(r) \/ Stamp(r)
    <3>1. store' = store /\ past' = past /\ blurred' = blurred
      BY <2>2 DEF ReadWriter, EmptyRows, Stamp, sessions
    <3>2. \A s \in Sessions : rows'[s] \subseteq rows[s]
      BY <2>2 DEF ReadWriter, EmptyRows, Stamp
    <3>3. /\ run[r].pc \in {"opening", "emptying", "stamping"}
          /\ run'[r].index = run[r].index
          /\ run'[r].cursor = run[r].cursor /\ run'[r].seen = run[r].seen
          /\ \A q \in Runs \ {r} : run'[q] = run[q]
      BY <1>0, <2>2, OpenStep
    <3>4. r \in Indexing
      BY <3>3, IndexingPcs
    <3>5. \A s \in Sessions : run'[r].index[s] = {}
      BY <1>a, <3>3 DEF QuietInv
    <3>6. QED
      BY <1>0, <1>b, <3>1, <3>2, <3>3, <3>4, <3>5, AskFrame
  <2>4. CASE Fingerprints(r)
    <3>1. store' = store /\ past' = past /\ blurred' = blurred /\ rows' = rows
      BY <2>4 DEF Fingerprints, sessions
    <3>2. /\ run[r].pc = "open" /\ run'[r].index = run[r].index /\ run'[r].seen = run[r].seen
          /\ \A s \in Sessions : run'[r].cursor[s] \in {NoCursor, run[r].cursor[s], Cursor(s)}
          /\ \A q \in Runs \ {r} : run'[q] = run[q]
      BY <1>0, <2>4, FingerprintsStep
    <3>3. r \in Indexing
      BY <3>2, IndexingPcs
    <3>4. \A s \in Sessions : run'[r].index[s] = {}
      BY <1>a, <3>2 DEF QuietInv
    <3>5. QED
      BY <1>0, <1>b, <3>1, <3>2, <3>3, <3>4, AskFrame
  <2>5. CASE LookUp(r)
    <3>1. store' = store /\ past' = past /\ blurred' = blurred /\ rows' = rows
      BY <2>5 DEF LookUp, sessions
    <3>2. /\ run[r].pc = "asked" /\ run'[r].pc = "reading"
          /\ run'[r].cursor = run[r].cursor /\ run'[r].seen = run[r].seen
          /\ \A s \in Sessions : \A e \in run'[r].index[s] :
               \E row \in Hit(s, run[r].cursor[s]) : e = Entry(row.doc, row.by, FALSE)
          /\ \A q \in Runs \ {r} : run'[q] = run[q]
      BY <1>0, <2>5, LookUpStep
    <3>3. r \in Indexing /\ Indexing' = Indexing
      BY <3>2, IndexingPcs DEF Indexing, Active, At
    <3>4. \A s \in Sessions : \A e \in run'[r].index[s] :
            \E row \in rows[s] : /\ run[r].cursor[s] # NoCursor /\ row.cursor = run[r].cursor[s]
                                 /\ e.doc = row.doc /\ e.fresh = FALSE
      BY <3>2 DEF Hit, Entry
    <3>5. \A s \in Sessions : Fresh(r, s)' = {} /\ \A q \in Runs \ {r} : Fresh(q, s)' = Fresh(q, s)
      BY <3>2, <3>4 DEF Fresh
    <3>6. HeldInv' /\ KnownInv' /\ QuietInv'
      BY <1>a, <3>1, <3>2 DEF HeldInv, KnownInv, QuietInv, Known
    <3>7. \A q \in Runs : run'[q].cursor = run[q].cursor /\ run'[q].seen = run[q].seen
      BY <3>2
    <3>8. StoreInv'
      BY <1>a, <3>1, <3>3, <3>5, <3>7, OpenedAreRuns DEF StoreInv
    <3>9. SeenInv'
      BY <1>a, <3>1, <3>3, <3>5, <3>7, OpenedAreRuns DEF SeenInv
    <3>10. \A s \in Sessions \ blurred : \A e \in run'[r].index[s] : e.doc \in run[r].seen[s]
      BY <1>a, <3>3, <3>4 DEF SeenInv
    <3>11. IndexIsCurrent'
      BY <1>a, <3>1, <3>2, <3>10 DEF IndexIsCurrent
    <3>12. QED
      BY <1>0, <3>6, <3>8, <3>9, <3>11 DEF CurrentInv
  <2>6. ASSUME NEW s \in Sessions, Parse(r, s) PROVE CurrentInv'
    <3>1. store' = store /\ past' = past /\ blurred' = blurred /\ rows' = rows
      BY <2>6 DEF Parse, sessions
    <3>2. /\ run[r].pc = "reading" /\ run'[r].pc = "reading"
          /\ run'[r].cursor = run[r].cursor /\ run'[r].seen = run[r].seen
          /\ run'[r].index[s] = {Entry(h.doc, r, TRUE) : h \in store[s]}
          /\ \A x \in Sessions \ {s} : run'[r].index[x] = run[r].index[x]
          /\ \A q \in Runs \ {r} : run'[q] = run[q]
      BY <1>0, <2>6, ParseStep
    <3>3. r \in Indexing /\ Indexing' = Indexing
      BY <3>2, IndexingPcs DEF Indexing, Active, At
    <3>4. \A e \in run'[r].index[s] : \E h \in store[s] : e.doc = h.doc
      BY <3>2 DEF Entry
    <3>5. \A e \in Fresh(r, s)' : \E h \in store[s] : e.doc = h.doc
      BY <3>4 DEF Fresh
    <3>6. \A q \in Runs, x \in Sessions : q # r \/ x # s => Fresh(q, x)' = Fresh(q, x)
      BY <3>2 DEF Fresh
    <3>7. \A q \in Runs : run'[q].cursor = run[q].cursor /\ run'[q].seen = run[q].seen
      BY <3>2
    <3>8. HeldInv' /\ KnownInv' /\ QuietInv'
      BY <1>a, <3>1, <3>2 DEF HeldInv, KnownInv, QuietInv, Known
    <3>9. \A h \in store[s] : \A q \in Indexing : s \notin blurred => h.doc \in run[q].seen[s]
      BY DEF CurrentInv, StoreInv
    <3>10. \A h, k \in store[s] : h = k
      BY <1>a DEF HeldInv
    <3>11. StoreInv'
      <4> SUFFICES ASSUME NEW x \in Sessions, x \notin blurred, NEW h \in store[x]
                   PROVE  /\ \A row \in rows[x] : row.cursor = h.cursor => row.doc = h.doc
                          /\ \A q \in Indexing : h.doc \in run[q].seen[x]
                          /\ \A q \in Indexing : run[q].cursor[x] = h.cursor => \A e \in Fresh(q, x)' : e.doc = h.doc
        BY <3>1, <3>3, <3>7, OpenedAreRuns DEF StoreInv
      <4>1. ASSUME NEW q \in Indexing, run[q].cursor[x] = h.cursor, NEW e \in Fresh(q, x)'
            PROVE  e.doc = h.doc
        <5>1. CASE q = r /\ x = s
          BY <3>5, <3>10, <4>1, <5>1
        <5>2. CASE ~(q = r /\ x = s)
          BY <1>a, <3>6, <4>1, <5>2, OpenedAreRuns DEF StoreInv
        <5>3. QED
          BY <5>1, <5>2
      <4>2. QED
        BY <1>a, <4>1 DEF StoreInv
    <3>12. SeenInv'
      <4> SUFFICES ASSUME NEW x \in Sessions, x \notin blurred, NEW q \in Indexing, run[q].cursor[x] # NoCursor
                   PROVE  /\ \A row \in rows[x] : row.cursor = run[q].cursor[x] => row.doc \in run[q].seen[x]
                          /\ \A p \in Indexing : run[p].cursor[x] = run[q].cursor[x]
                               => \A e \in Fresh(p, x)' : e.doc \in run[q].seen[x]
        BY <3>1, <3>3, <3>7, OpenedAreRuns DEF SeenInv
      <4>1. ASSUME NEW p \in Indexing, run[p].cursor[x] = run[q].cursor[x], NEW e \in Fresh(p, x)'
            PROVE  e.doc \in run[q].seen[x]
        <5>1. CASE p = r /\ x = s
          BY <3>5, <3>9, <4>1, <5>1
        <5>2. CASE ~(p = r /\ x = s)
          BY <1>a, <3>6, <4>1, <5>2, OpenedAreRuns DEF SeenInv
        <5>3. QED
          BY <5>1, <5>2
      <4>2. QED
        BY <1>a, <4>1 DEF SeenInv
    <3>13. IndexIsCurrent'
      <4> SUFFICES ASSUME NEW q \in Runs, NEW x \in Sessions, x \notin blurred, NEW e \in run'[q].index[x]
                   PROVE  e.doc \in run[q].seen[x]
        BY <3>1, <3>7 DEF IndexIsCurrent
      <4>1. CASE q = r /\ x = s
        BY <3>3, <3>4, <3>9, <4>1
      <4>2. CASE ~(q = r /\ x = s)
        BY <1>a, <3>2, <4>2 DEF IndexIsCurrent
      <4>3. QED
        BY <4>1, <4>2
    <3>14. QED
      BY <1>0, <3>8, <3>11, <3>12, <3>13 DEF CurrentInv
  <2>7. CASE PutMany(r)
    <3>1. store' = store /\ past' = past /\ blurred' = blurred
      BY <2>7 DEF PutMany, sessions
    <3>2. /\ run[r].pc = "reading" /\ run'[r].pc = "stored"
          /\ \A s \in Sessions : run'[r].index[s] = {} /\ run'[r].cursor[s] = NoCursor
          /\ \A q \in Runs \ {r} : run'[q] = run[q]
      BY <1>0, <2>7, LastStep
    <3>3. r \in Indexing
      BY <3>2, IndexingPcs
    <3>4. Indexing' = Indexing \ {r}
      BY <3>2 DEF Indexing, Active, At
    <3>5. \A s \in Sessions : \A row \in rows'[s] :
            \/ row \in rows[s]
            \/ \E e \in Fresh(r, s) : row.doc = e.doc /\ row.cursor = run[r].cursor[s]
      BY <2>7 DEF PutMany, Row
    <3>6. \A s \in Sessions : \A q \in Runs \ {r} : Fresh(q, s)' = Fresh(q, s)
      BY <3>2 DEF Fresh
    <3>7. HeldInv' /\ QuietInv'
      BY <1>a, <3>1, <3>2 DEF HeldInv, QuietInv
    <3>a. KnownInv'
      <4> SUFFICES ASSUME NEW s \in Sessions
                   PROVE  /\ \A row \in rows'[s] : row.cursor \in Known(s)
                          /\ \A q \in Runs : run'[q].cursor[s] \in Known(s)
        BY <3>1 DEF KnownInv, Known
      <4>1. \A row \in rows'[s] : row.cursor \in Known(s)
        BY <1>a, <3>5 DEF KnownInv
      <4>2. NoCursor \in Known(s)
        BY DEF Known
      <4>3. QED
        BY <1>a, <3>2, <4>1, <4>2 DEF KnownInv
    <3>8. StoreInv'
      <4> SUFFICES ASSUME NEW s \in Sessions, s \notin blurred, NEW h \in store[s]
                   PROVE  /\ \A row \in rows'[s] : row.cursor = h.cursor => row.doc = h.doc
                          /\ \A q \in Indexing \ {r} : h.doc \in run[q].seen[s]
                          /\ \A q \in Indexing \ {r} : run[q].cursor[s] = h.cursor => \A e \in Fresh(q, s) : e.doc = h.doc
        BY <3>1, <3>2, <3>4, <3>6, OpenedAreRuns DEF StoreInv
      <4>1. QED
        BY <1>a, <3>3, <3>5 DEF StoreInv
    <3>9. SeenInv'
      <4> SUFFICES ASSUME NEW s \in Sessions, s \notin blurred,
                          NEW q \in Indexing \ {r}, run[q].cursor[s] # NoCursor
                   PROVE  /\ \A row \in rows'[s] : row.cursor = run[q].cursor[s] => row.doc \in run[q].seen[s]
                          /\ \A p \in Indexing \ {r} : run[p].cursor[s] = run[q].cursor[s]
                               => \A e \in Fresh(p, s) : e.doc \in run[q].seen[s]
        BY <3>1, <3>2, <3>4, <3>6, OpenedAreRuns DEF SeenInv
      <4>1. QED
        BY <1>a, <3>3, <3>5 DEF SeenInv
    <3>10. IndexIsCurrent'
      BY <1>a, <3>1, <3>2 DEF IndexIsCurrent
    <3>11. QED
      BY <1>0, <3>7, <3>a, <3>8, <3>9, <3>10 DEF CurrentInv
  <2>8. CASE FindStale(r) \/ DropStale(r) \/ Stop(r)
    <3>1. store' = store /\ past' = past /\ blurred' = blurred
      BY <2>8 DEF FindStale, DropStale, Stop, sessions
    <3>2. \A s \in Sessions : rows'[s] \subseteq rows[s]
      BY <2>8 DEF FindStale, DropStale, Stop
    <3>3. /\ run'[r].pc \in {"stored", "pruning", "ended"}
          /\ \A s \in Sessions : run'[r].index[s] = {} /\ run'[r].cursor[s] = NoCursor
          /\ \A q \in Runs \ {r} : run'[q] = run[q]
      BY <1>0, <2>8, LastStep
    <3>4. r \notin Indexing'
      BY <3>3 DEF Indexing, Active, At
    <3>5. QED
      BY <1>0, <1>b, <3>1, <3>2, <3>3, <3>4, AskFrame
  <2>9. QED
    BY <1>0, <1>2, <2>1, <2>2, <2>4, <2>5, <2>6, <2>7, <2>8
    DEF RunStep, ListAll, ListWithoutShare, ListNamedShare, Present, TypeOK
<1>3. CASE UNCHANGED vars
  <2>1. store' = store /\ past' = past /\ blurred' = blurred /\ rows' = rows /\ run' = run
    BY <1>3 DEF vars, sessions
  <2>2. Indexing' = Indexing /\ \A x \in Sessions : \A q \in Runs : Fresh(q, x)' = Fresh(q, x)
    BY <2>1 DEF Indexing, Active, At, Fresh
  <2>3. HeldInv' /\ KnownInv' /\ QuietInv' /\ IndexIsCurrent'
    BY <1>a, <2>1 DEF HeldInv, KnownInv, QuietInv, Known, IndexIsCurrent
  <2>4. StoreInv' /\ SeenInv'
    BY <1>a, <2>1, <2>2, OpenedAreRuns DEF StoreInv, SeenInv
  <2>5. QED
    BY <1>0, <2>3, <2>4 DEF CurrentInv
<1>4. QED
  BY <1>1, <1>2, <1>3 DEF Next

\* What a run indexes is what the session held at some time since the run
\* listed it, unless a cursor of the session stood for two of its documents.
THEOREM IndexIsCurrentTheorem == Spec => []IndexIsCurrent
<1>1. CurrentInv => IndexIsCurrent
  BY DEF CurrentInv
<1>2. QED
  BY <1>1, CurrentInit, CurrentStep, PTL DEF Spec
=============================================================================
