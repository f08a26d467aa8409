------------------------------ MODULE MCFsStore ------------------------------
(***************************************************************************)
(* Small instances of FsStore.                                             *)
(***************************************************************************)
EXTENDS FsStore, TLC

CONSTANTS c1, c2, p1, p2

\* One server process, as the store is meant to be used.
MCOneProcess == [c \in Clients |-> p1]

\* Two server processes over one directory.
MCTwoProcesses == [c \in Clients |-> IF c = c1 THEN p1 ELSE p2]

\* Documents are interchangeable.
MCSymmetry == Permutations(Docs)
=============================================================================
