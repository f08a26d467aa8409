---------------------------- MODULE MCShareListing ----------------------------
(* Two owners with two sessions each, and a stray name between them.       *)
EXTENDS ShareListing

CONSTANTS alice, bob, early, late, avatar

MCTeams      == {<<1>>}
MCAttrRoom   == [doc \in Docs |-> 10]
MCOrder      == <<Key(alice, early), Key(alice, late), avatar, Key(bob, early), Key(bob, late)>>
MCConfigured ==
  {[rule |-> "OwnerPrefix", member |-> NoMembers],
   [rule |-> "TeamScoped", member |-> [p \in Principals |-> <<1>>]]}
=============================================================================
