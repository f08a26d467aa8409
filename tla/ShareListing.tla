----------------------------- MODULE ShareListing -----------------------------
(***************************************************************************)
(* A listing of the share service: the page loop of http.rs over a store   *)
(* that others keep publishing to and deleting from.  The in-memory store  *)
(* answers a page at one moment; S3 lists keys and then asks for the       *)
(* attributes of one after another; the filesystem walks the owners'       *)
(* directories and then reads one sidecar after another.                   *)
(***************************************************************************)
EXTENDS ShareCore, FiniteSets

CONSTANTS
  Caller,     \* who lists
  Order,      \* what may be in the bucket, in lexicographic order
  Strays,     \* the members of Order that are not keys of the service
  PageSize,   \* limits.page_size
  Configured, \* the policies to consider
  Republished \* the owners who publish and delete while the listing runs

ASSUME ListingAssumption ==
  /\ PageSize \in Nat \ {0}
  /\ Order \in Seq(Keys \cup Strays)
  /\ \A i, j \in 1 .. Len(Order) : Order[i] = Order[j] => i = j
  /\ \A key \in Keys : \E i \in 1 .. Len(Order) : Order[i] = key
  /\ Strays \cap Keys = {}
  /\ Configured \subseteq Policies
  /\ Caller \in Principals /\ Republished \subseteq Principals

VARIABLES
  policy,
  plan,     \* what decide answered: whose prefix, and authorize_each
  backend,  \* "memory", "s3" or "filesystem"
  objects,  \* what the store holds at each key
  phase,    \* of the listing: "paging", "walking", "heading", "done", "failed"
  cursor,   \* the rank the current page begins after
  page,     \* the page the store is putting together
  entries,  \* what http.rs has collected for the answer
  always    \* the keys the caller could read ever since it asked, so far as
            \* the store could read them too (history)

vars == <<policy, plan, backend, objects, phase, cursor, page, entries, always>>
asked == <<policy, plan, backend>>

Ranks == 1 .. Len(Order)

\* owners: directories still to be walked.  found: the ranks LIST or the walk
\* returned, those not looked at yet.  kept: the objects of the page, with the
\* team each had when it was looked at.  last: S3's last_seen.  truncated:
\* whether S3 said that more keys follow.
NoPage == [owners |-> {}, found |-> {}, kept |-> <<>>, last |-> 0, truncated |-> FALSE]

Below(S, i) == Cardinality({j \in S : j < i})

Least(S) == CHOOSE i \in S : \A j \in S : i <= j
FirstOf(S, n) == {i \in S : Below(S, i) < n}

\* The members of a finite set of numbers, from the least on.
InOrder(S) == [n \in 1 .. Cardinality(S) |-> CHOOSE i \in S : Below(S, i) = n - 1]

Meta(i) == [rank |-> i, team |-> objects[Order[i]].team]
Bare(i) == [rank |-> i, team |-> NoTeam]

Rank(key) == CHOOSE i \in Ranks : Order[i] = key
InScope(key) == plan.mine => key.owner = Caller

MayList(key, team) == MayRead(policy, Caller, key.owner, team)
Readable(key) == objects[key] # Absent /\ MayList(key, objects[key].team)

(***************************************************************************)
(* What the store has to offer after the cursor, under the prefix.  A      *)
(* stray name is under no owner's prefix.                                  *)
(***************************************************************************)
Matching_Fault ==
  {i \in Ranks : i >= cursor /\
     IF Order[i] \in Strays THEN ~plan.mine
                            ELSE objects[Order[i]] # Absent /\ InScope(Order[i])}

Matching ==
  {i \in Ranks : i > cursor /\
     IF Order[i] \in Strays THEN ~plan.mine
                            ELSE objects[Order[i]] # Absent /\ InScope(Order[i])}

MatchingKeys == {i \in Matching : Order[i] \in Keys}

(***************************************************************************)
(* Publishes and deletes of others, while the listing is under way.  Teams *)
(* recorded before were recorded under whatever members were configured    *)
(* then.  In the filesystem a rewrite empties the sidecar for a moment.    *)
(***************************************************************************)
Objects == [body : Docs, team : RecordedTeams] \cup {Absent}

Init ==
  /\ policy \in Configured
  /\ plan \in {list_scope(policy, scope) : scope \in Scopes}
  /\ backend \in {"memory", "s3", "filesystem"}
  /\ objects \in [Keys -> Objects]
  /\ \A key \in Keys : key.owner \notin Republished /\ objects[key] # Absent =>
       objects[key].team = team_of(policy, key.owner)
  /\ phase = "paging"
  /\ cursor = 0
  /\ page = NoPage
  /\ entries = <<>>
  /\ always = {key \in Keys : Readable(key) /\ InScope(key)}

OthersWrite ==
  /\ phase \in {"paging", "walking", "heading"}
  /\ \E key \in Keys :
       /\ key.owner \in Republished
       /\ \/ \E doc \in Docs :
               objects' = [objects EXCEPT ![key] =
                 [body |-> doc, team |-> StoredTeam(doc, team_of(policy, key.owner))]]
          \/ objects' = [objects EXCEPT ![key] = Absent]
          \/ /\ backend = "filesystem" /\ objects[key] # Absent
             /\ objects' = [objects EXCEPT ![key].team = NoTeam]
  /\ UNCHANGED <<asked, phase, cursor, page, entries>>
  /\ always' = {key \in always : Readable(key)'}

(***************************************************************************)
(* The loop of http.rs: a page's objects are added, those the policy would *)
(* deny on read left out, and its cursor, if any, asks for the next page.  *)
(***************************************************************************)
Denied(meta) == plan.authorize_each /\ ~ MayList(Order[meta.rank], meta.team)

Shown(kept) ==
  LET shown[n \in 0 .. Len(kept)] ==
        IF n = 0 THEN <<>>
        ELSE IF Denied(kept[n]) THEN shown[n - 1] ELSE Append(shown[n - 1], kept[n])
  IN shown[Len(kept)]

NoCursor == 0

Answer(kept, next) ==
  /\ entries' = entries \o Shown(kept)
  /\ phase' = IF next = NoCursor THEN "done" ELSE "paging"
  /\ cursor' = next
  /\ page' = NoPage
  /\ UNCHANGED <<asked, objects, always>>

\* The page of the in-memory and filesystem stores: one object more than the
\* limit says that a page follows, and is not part of this one.
Truncated(kept) ==
  IF Len(kept) > PageSize
    THEN Answer(SubSeq(kept, 1, PageSize), kept[PageSize].rank)
    ELSE Answer(kept, NoCursor)

\* InMemory::list holds the lock from beginning to end.
MemoryPage ==
  /\ phase = "paging" /\ backend = "memory"
  /\ LET first == InOrder(FirstOf(MatchingKeys, PageSize + 1))
     IN Truncated([n \in DOMAIN first |-> Meta(first[n])])

(***************************************************************************)
(* Filesystem::list.                                                       *)
(***************************************************************************)
StartWalk ==
  /\ phase = "paging" /\ backend = "filesystem"
  /\ phase' = "walking"
  /\ page' = [NoPage EXCEPT !.owners = Principals]
  /\ UNCHANGED <<asked, objects, cursor, entries, always>>

\* The walk itself filters nothing: prefix and cursor are applied afterwards.
WalkOwner ==
  /\ phase = "walking"
  /\ \E owner \in page.owners :
       page' = [page EXCEPT !.owners = @ \ {owner},
                            !.found = @ \cup {i \in MatchingKeys : Order[i].owner = owner}]
  /\ phase' = IF page'.owners = {} THEN "heading" ELSE "walking"
  /\ UNCHANGED <<asked, objects, cursor, entries, always>>

EnoughRead_Fault == FALSE

\* One object more than fits a page tells that another follows.
EnoughRead == Len(page.kept) > PageSize

\* Attributes of the next name; one that is gone by now is left out, and one
\* whose sidecar cannot be read, whatever the error, has none.
ReadNextSidecar ==
  /\ phase = "heading" /\ backend = "filesystem"
  /\ page.found # {} /\ ~EnoughRead
  /\ LET i == Least(page.found)
         Looked(kept) == [page EXCEPT !.found = @ \ {i}, !.kept = kept]
     IN \/ /\ page' = Looked(IF objects[Order[i]] = Absent THEN page.kept
                                                           ELSE Append(page.kept, Meta(i)))
           /\ UNCHANGED always
        \/ /\ objects[Order[i]] # Absent
           /\ page' = Looked(Append(page.kept, Bare(i)))
           /\ always' = IF MayList(Order[i], NoTeam) THEN always ELSE always \ {Order[i]}
  /\ UNCHANGED <<asked, objects, phase, cursor, entries>>

FinishWalk ==
  /\ phase = "heading" /\ backend = "filesystem"
  /\ page.found = {} \/ EnoughRead
  /\ Truncated(page.kept)

(***************************************************************************)
(* S3::list.  LIST may return fewer keys than it was asked for, and says   *)
(* whether more follow; it returns at least one if there is one.           *)
(***************************************************************************)
ListKeys ==
  /\ phase = "paging" /\ backend = "s3"
  /\ \E n \in 1 .. PageSize + 1 :
       page' = [NoPage EXCEPT !.found = FirstOf(Matching, n),
                              !.truncated = Cardinality(Matching) > n]
  /\ phase' = "heading"
  /\ UNCHANGED <<asked, objects, cursor, entries, always>>

Skipped(i) == Order[i] \in Strays \/ objects[Order[i]] = Absent

LastSeen_Fault(i) ==
  IF ~Skipped(i) THEN i ELSE IF page.last = NoCursor THEN cursor ELSE page.last

\* The cursor moves over what is skipped as well.
LastSeen(i) == i

\* A name that is no key is skipped, and an object that went away underneath
\* (a 404, or a 403 standing for one).
HeadNext ==
  /\ phase = "heading" /\ backend = "s3"
  /\ page.found # {} /\ Len(page.kept) < PageSize
  /\ LET i == Least(page.found) IN
     page' = [page EXCEPT
       !.found = @ \ {i},
       !.last  = LastSeen(i),
       !.kept  = IF Skipped(i) THEN @ ELSE Append(@, Meta(i))]
  /\ UNCHANGED <<asked, objects, phase, cursor, entries, always>>

More_Fault == Len(page.kept) = PageSize

\* Whether more remains is the service's answer, or what was not looked at.
More == page.truncated \/ page.found # {}

FinishHeads ==
  /\ phase = "heading" /\ backend = "s3"
  /\ page.found = {} \/ Len(page.kept) = PageSize
  /\ Answer(page.kept, IF More THEN page.last ELSE NoCursor)

\* An error of the store ends the listing with an error, not a short answer:
\* any but that of a sidecar, see ReadNextSidecar.
StoreFails ==
  /\ phase \in {"paging", "walking", "heading"}
  /\ phase' = "failed"
  /\ page' = NoPage
  /\ entries' = <<>>
  /\ UNCHANGED <<asked, objects, cursor, always>>

ListerSteps ==
  \/ MemoryPage
  \/ StartWalk \/ WalkOwner \/ ReadNextSidecar \/ FinishWalk
  \/ ListKeys \/ HeadNext \/ FinishHeads

Next == ListerSteps \/ StoreFails \/ OthersWrite

\* The handler's task is polled until it answers, whatever the others do.
Spec == Init /\ [][Next]_vars /\ WF_vars(ListerSteps)
-----------------------------------------------------------------------------
\* A team is recorded whole, cut to the room there is, or not at all.
CutTeams == Seq(Nat) \cup {NoTeam}
Metas == [rank : Ranks, team : CutTeams]
Pages == [owners : SUBSET Principals, found : SUBSET Ranks, kept : Seq(Metas),
          last : 0 .. Len(Order), truncated : BOOLEAN]

TypeOK ==
  /\ policy \in Configured
  /\ plan \in [mine : BOOLEAN, authorize_each : BOOLEAN]
  /\ backend \in {"memory", "s3", "filesystem"}
  /\ objects \in [Keys -> [body : Docs, team : CutTeams] \cup {Absent}]
  /\ phase \in {"paging", "walking", "heading", "done", "failed"}
  /\ cursor \in 0 .. Len(Order)
  /\ page \in Pages /\ Len(page.kept) <= PageSize + 1
  /\ entries \in Seq(Metas)
  /\ always \subseteq Keys

\* A complete answer holds every object that the caller could read from the
\* request to the answer, whatever else was published, deleted or skipped
\* meanwhile: s3.rs is careful not to "silently lose the tail".  The one object
\* that may be missing is a teammate's whose sidecar the filesystem could not
\* read: it passes for one of no team (filesystem.rs:109-115).
NothingStableIsLost ==
  phase = "done" =>
    \A key \in always : \E n \in 1 .. Len(entries) : entries[n].rank = Rank(key)

\* Pages are put together in the order of the keys, and no object is listed
\* twice, though it is deleted and published again between two pages.
ListedOnceInOrder ==
  \A m, n \in 1 .. Len(entries) : m < n => entries[m].rank < entries[n].rank

\* An entry shows attributes its caller may read: those of an object a GET
\* would have answered when the store looked at it.  authorize_each is what
\* sees to it where no prefix does.
ListingShowsWhatReadAllows ==
  \A n \in 1 .. Len(entries) : LET key == Order[entries[n].rank] IN
    MayList(key, entries[n].team) /\ InScope(key)

\* However the others go on publishing and deleting, the listing ends.
ListingEnds == <>(phase \in {"done", "failed"})
=============================================================================
