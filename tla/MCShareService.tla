---------------------------- MODULE MCShareService ----------------------------
(***************************************************************************)
(* Small instances of ShareService.                                        *)
(***************************************************************************)
EXTENDS ShareService, TLC

CONSTANTS alice, bob, d1, d2

MCNoTeam == <<>>

\* Team <<1, 2>> begins with the whole name of team <<1>>.
MCTeams == {<<1>>, <<1, 2>>}

TeamScoped(member) == [rule |-> "TeamScoped", member |-> member]

\* Every rule; under TeamScoped the two principals are on one team, on teams
\* of which one is a prefix of the other, or one of them is on none.
MCConfigured ==
  [rule : {"OwnerPrefix", "ReadOnlyMirror"}, member : {NoMembers}]
  \cup {TeamScoped([p \in Principals |-> <<1, 2>>]),
        TeamScoped([p \in Principals |-> IF p = alice THEN <<1, 2>> ELSE <<1>>]),
        TeamScoped([p \in Principals |-> IF p = alice THEN <<1, 2>> ELSE NoTeam])}

\* The attributes of d1 leave plenty of room for the team, those of d2 none.
MCRoomAmpleOrNone == [d \in Docs |-> IF d = d1 THEN 100 ELSE 3]

\* Those of d2 leave room for the attribute's name and one byte more.
MCRoomTight == [d \in Docs |-> IF d = d1 THEN 100 ELSE 5]

MCSymmetry == Permutations(Handlers)
=============================================================================
