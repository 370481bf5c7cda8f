------------------------------- MODULE Turns --------------------------------
(***************************************************************************)
(* What cooperative tasks that each write N times should look like from    *)
(* outside: nobody writes again before everybody has caught up, and the    *)
(* run is over when, and only when, everybody has written N times.  If the *)
(* runs are not all called from the same place, one may break off.         *)
(***************************************************************************)
EXTENDS Naturals

CONSTANTS Task, N

VARIABLES
    done,       \* how often each task has written in this run
    active,     \* a run is going on
    steady      \* all runs have been called from the same place

vars == <<done, active, steady>>

Init ==
    /\ done = [t \in Task |-> 0]
    /\ active = FALSE
    /\ steady = TRUE

Begin ==
    /\ ~ active
    /\ active' = TRUE
    /\ done' = [t \in Task |-> 0]
    /\ steady' \in {steady, FALSE}

Turn(t) ==
    /\ active
    /\ done[t] < N
    /\ \A u \in Task : done[t] <= done[u]
    /\ done' = [done EXCEPT ![t] = @ + 1]
    /\ UNCHANGED <<active, steady>>

End ==
    /\ active
    /\ \A t \in Task : done[t] = N
    /\ active' = FALSE
    /\ UNCHANGED <<done, steady>>

BreakOff ==
    /\ active /\ ~ steady
    /\ active' = FALSE
    /\ UNCHANGED <<done, steady>>

Next == Begin \/ End \/ BreakOff \/ \E t \in Task : Turn(t)

Spec == Init /\ [][Next]_vars /\ WF_vars(End \/ \E t \in Task : Turn(t))

=============================================================================
