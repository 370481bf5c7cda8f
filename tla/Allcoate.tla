------------------------------ MODULE Allcoate ------------------------------
(***************************************************************************)
(* The `allcoate` command (libs/allcoate.c): MAX tasks in one stack, which *)
(* switch by overwriting the frame pointer and the return address of the   *)
(* function they are in.                                                   *)
(*                                                                         *)
(* A context is the frame pointer and return address that kwrite finds in  *)
(* its frame: they are the same every time a task writes, because every    *)
(* kwrite of a task is called from the same frame, and they are the same   *)
(* in the next run if the command is called at the same depth of the       *)
(* stack.  So a context is a task and a depth.  The stack pointer is not   *)
(* part of it, so frames stay intact until their function returns.         *)
(*                                                                         *)
(* The shell calls the command from parser, or from parser called by       *)
(* parser when it had to look for new libraries first: the depth differs.  *)
(***************************************************************************)
EXTENDS RunQueue

CONSTANTS
    ITERATIONS,  \* how often each task writes
    Depth        \* the depths of the stack the command is called at

ASSUME ConstantsAssumption ==
    /\ MAX >= 2
    /\ ITERATIONS \in Nat \ {0}

VARIABLES
    processes,   \* the tasks whose flag is set: they have not been called yet
    i,           \* the counter in the frame of each task, -1 if it has none
    caller,      \* the task whose kyield called this one
    running,     \* the task that executes
    depth,       \* the depth of this call of the command
    written,     \* history: how often each task has written in this run
    steady,      \* history: the command has always been called at this depth
    pc

vars == <<queue, processes, i, caller, running, depth, written, steady, pc>>

Task == 0 .. MAX - 1        \* t1 is 0, t2 is 1, ...

Context == [task : Task, depth : Depth]

TypeOK ==
    /\ addr_array \in [0 .. MAX - 1 -> Context]
    /\ front \in Int /\ rear \in Int /\ itemCount \in Int
    /\ processes \subseteq Task \ {0}
    /\ i \in [Task -> -1 .. ITERATIONS]
    /\ caller \in [Task -> Task]
    /\ running \in Task
    /\ depth \in Depth
    /\ written \in [Task -> 0 .. ITERATIONS]
    /\ steady \in BOOLEAN
    /\ pc \in {"idle", "while", "kyield", "wild"}

Init ==
    /\ depth \in Depth
    /\ QueueInit([task |-> 0, depth |-> depth])
    /\ processes = {}
    /\ i = [t \in Task |-> -1]
    /\ caller = [t \in Task |-> 0]
    /\ running = 0
    /\ written = [t \in Task |-> 0]
    /\ steady = TRUE
    /\ pc = "idle"

-----------------------------------------------------------------------------

\* init_all_proc, and the call of t1.
__start(d) ==
    /\ pc = "idle"
    /\ depth' = d
    /\ steady' = (steady /\ d = depth)
    /\ processes' = Task \ {0}
    /\ i' = [t \in Task |-> IF t = 0 THEN ITERATIONS ELSE -1]
    /\ running' = 0
    /\ written' = [t \in Task |-> 0]
    /\ pc' = "while"
    /\ UNCHANGED <<queue, caller>>

\* Variant: the counter is not tested.
kwrite_untested ==
    /\ pc = "while"
    /\ i' = [i EXCEPT ![running] = @ - 1]
    /\ written' = [written EXCEPT ![running] = @ + 1]
    /\ insert([task |-> running, depth |-> depth])
    /\ pc' = "kyield"
    /\ UNCHANGED <<processes, caller, running, depth, steady>>

\* The running task writes, and kyield queues its context.
kwrite ==
    /\ pc = "while" /\ i[running] > 0
    /\ i' = [i EXCEPT ![running] = @ - 1]
    /\ written' = [written EXCEPT ![running] = @ + 1]
    /\ insert([task |-> running, depth |-> depth])
    /\ pc' = "kyield"
    /\ UNCHANGED <<processes, caller, running, depth, steady>>

\* Variant: kyield calls the last task that has not been called.
ptr_last(t) ==
    /\ pc = "kyield" /\ t \in processes /\ \A u \in processes : t >= u
    /\ processes' = processes \ {t}
    /\ i' = [i EXCEPT ![t] = ITERATIONS]
    /\ caller' = [caller EXCEPT ![t] = running]
    /\ running' = t
    /\ pc' = "while"
    /\ UNCHANGED <<queue, depth, written, steady>>

\* kyield calls the first task that has not been called.
ptr(t) ==
    /\ pc = "kyield" /\ t \in processes /\ \A u \in processes : t <= u
    /\ processes' = processes \ {t}
    /\ i' = [i EXCEPT ![t] = ITERATIONS]
    /\ caller' = [caller EXCEPT ![t] = running]
    /\ running' = t
    /\ pc' = "while"
    /\ UNCHANGED <<queue, depth, written, steady>>

\* The context is that of a frame of this call.
InStack(c) == c.depth = depth /\ i[c.task] >= 0

\* Variant: kyield jumps without calling anyone first.
jump_to_early ==
    /\ pc = "kyield"
    /\ removeData
    /\ IF InStack(peek)
         THEN running' = peek.task /\ pc' = "while"
         ELSE pc' = "wild" /\ UNCHANGED running
    /\ UNCHANGED <<processes, i, caller, depth, written, steady>>

\* When all have been called kyield takes the next context and jumps to it.
jump_to ==
    /\ pc = "kyield" /\ processes = {}
    /\ removeData
    /\ IF InStack(peek)
         THEN running' = peek.task /\ pc' = "while"
         ELSE pc' = "wild" /\ UNCHANGED running
    /\ UNCHANGED <<processes, i, caller, depth, written, steady>>

\* A task called by kyield returns into that kyield, t1 into __start.
return ==
    /\ pc = "while" /\ i[running] = 0
    /\ i' = [i EXCEPT ![running] = -1]
    /\ IF running = 0
         THEN pc' = "idle" /\ UNCHANGED running
         ELSE pc' = "kyield" /\ running' = caller[running]
    /\ UNCHANGED <<queue, processes, caller, depth, written, steady>>

Run == kwrite \/ jump_to \/ return \/ \E t \in Task : ptr(t)

Next == Run \/ \E d \in Depth : __start(d)

Spec == Init /\ [][Next]_vars /\ WF_vars(Run)

-----------------------------------------------------------------------------

\* removeData never finds the queue empty, and no context is lost or doubled
\* although insert drops what a full queue has no room for.
QueueSound ==
    /\ RingOK
    /\ pc = "kyield" /\ processes = {} => itemCount > 0
    /\ \A j, k \in 1 .. itemCount : Contents[j] = Contents[k] => j = k

\* A run leaves the queue as it was before the first run, or leaves in it the
\* other tasks, in their order; a run that finds them there uses them up.
Residue ==
    pc = "idle" =>
        \/ itemCount = 0
        \/ /\ itemCount = MAX - 1
           /\ \A k \in 1 .. MAX - 1 : Contents[k].task = k

\* From outside, a run of tasks that take turns, as often as ITERATIONS says, and
\* that ends, unless the command was called at another depth before.
Outside == INSTANCE Turns WITH Task <- Task, N <- ITERATIONS, done <- written,
                               active <- pc \in {"while", "kyield"}

TakesTurns == Outside!Spec

=============================================================================
