------------------------------- MODULE Ledger -------------------------------
(***************************************************************************)
(* What the memory list of the shell (sys/mem_list.c) promises about the   *)
(* memory the user obtained with `allocate`, without saying how: blocks    *)
(* are held, most of the held blocks are listed, and a command changes the *)
(* standing of one block at a time.                                        *)
(*                                                                         *)
(* The list does not promise to know every held block.  A block is spilled *)
(* when the list is over its capacity, and forgotten when it is taken off  *)
(* the list without being given back.  What it does promise is that a      *)
(* listed block is held, and that a block is only given back by way of its *)
(* listing.                                                                *)
(***************************************************************************)
EXTENDS Naturals

CONSTANTS
    Block,     \* every address a block may be at
    Capacity   \* number of listings the list has room for

VARIABLES
    held,      \* blocks the process holds
    listed,    \* blocks the list knows
    entries    \* number of listings

vars == <<held, listed, entries>>

Init ==
    /\ held = {}
    /\ listed = {}
    /\ entries = 0

\* A block is obtained and listed.
Acquire(b) ==
    /\ b \notin held
    /\ entries <= Capacity
    /\ held' = held \union {b}
    /\ listed' = listed \union {b}
    /\ entries' = entries + 1

\* A block is obtained and, the list being over capacity, not listed.
Spill(b) ==
    /\ b \notin held
    /\ entries > Capacity
    /\ held' = held \union {b}
    /\ UNCHANGED <<listed, entries>>

\* A listed block is given back together with its listing.
Release(b) ==
    /\ b \in listed \intersect held
    /\ held' = held \ {b}
    /\ listed' = listed \ {b}
    /\ entries' = entries - 1

\* A listing is dropped and its block kept.
Forget(b) ==
    /\ b \in listed \intersect held
    /\ listed' = listed \ {b}
    /\ entries' = entries - 1
    /\ UNCHANGED held

Next ==
    \E b \in Block : Acquire(b) \/ Spill(b) \/ Release(b) \/ Forget(b)

Spec == Init /\ [][Next]_vars

=============================================================================
