----------------------------- MODULE MCMemList ------------------------------
(***************************************************************************)
(* Values for the constants of MemList.  The list has two slots, so that   *)
(* it can be over its capacity (three counted entries) with one address to *)
(* spare for a block that is obtained and not listed.                      *)
(***************************************************************************)
EXTENDS MemList, TLC

CONSTANTS p1, p2, p3, p4, fd1, fd2, f1

MCBytes == {1, 2}

MCFileSize == [f \in File |-> 1]

\* Addresses and descriptors are interchangeable: no definition tells two of
\* them apart but by what they are in use for.
Symmetry == Permutations(Ptr) \union Permutations(Fd)

=============================================================================
