----------------------------- MODULE LinearHistory -----------------------------
(***************************************************************************)
(* What undo and redo promise: the states that were there, in order, and   *)
(* one of them shown.  A change forgets what was undone; of the past no    *)
(* more than Depth states are remembered.                                  *)
(***************************************************************************)
EXTENDS Naturals, Sequences

CONSTANT Depth

VARIABLES states, at
history == <<states, at>>

Newest(s) == IF Len(s) <= Depth + 1 THEN s ELSE SubSeq(s, Len(s) - Depth, Len(s))

Init == Len(states) = 1 /\ at = 1

\* The new state is the one shown next, whatever it is but the present one.
Change ==
  /\ at' = Len(states') /\ states'[at'] # states[at]
  /\ states' = Newest(Append(SubSeq(states, 1, at), states'[at']))
Back == at > 1 /\ at' = at - 1 /\ UNCHANGED states
Forward == at < Len(states) /\ at' = at + 1 /\ UNCHANGED states

Spec == Init /\ [][Change \/ Back \/ Forward]_history
===============================================================================
