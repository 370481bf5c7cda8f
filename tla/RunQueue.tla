------------------------------ MODULE RunQueue ------------------------------
(***************************************************************************)
(* The queue of saved contexts that the task switchers share: a ring of    *)
(* MAX slots (libs/allcoate.c, and again in libs/switch/kernel.c and       *)
(* test/switch).  The ring is static: it keeps its content from one call   *)
(* of the command to the next.                                             *)
(***************************************************************************)
EXTENDS Integers, Sequences

CONSTANT MAX    \* slots of addr_array

ASSUME MAXAssumption == MAX \in Nat \ {0}

VARIABLES addr_array, front, rear, itemCount

queue == <<addr_array, front, rear, itemCount>>

QueueInit(data) ==
    /\ addr_array = [k \in 0 .. MAX - 1 |-> data]
    /\ front = 0
    /\ rear = -1
    /\ itemCount = 0

isFull == itemCount = MAX

\* Variant: rear goes back to the first slot one step late.
insert_late(data) ==
    IF isFull THEN UNCHANGED queue
    ELSE LET slot == (IF rear = MAX THEN -1 ELSE rear) + 1 IN
         /\ addr_array' = [addr_array EXCEPT ![slot] = data]
         /\ rear' = slot
         /\ itemCount' = itemCount + 1
         /\ UNCHANGED front

\* A full queue drops what is inserted.
insert(data) ==
    IF isFull THEN UNCHANGED queue
    ELSE LET slot == (IF rear = MAX - 1 THEN -1 ELSE rear) + 1 IN
         /\ addr_array' = [addr_array EXCEPT ![slot] = data]
         /\ rear' = slot
         /\ itemCount' = itemCount + 1
         /\ UNCHANGED front

\* The queue is not asked whether it is empty.
removeData ==
    /\ front' = IF front + 1 = MAX THEN 0 ELSE front + 1
    /\ itemCount' = itemCount - 1
    /\ UNCHANGED <<addr_array, rear>>

peek == addr_array[front]

-----------------------------------------------------------------------------

\* front, rear and itemCount agree about which slots are in use.
RingOK ==
    /\ front \in 0 .. MAX - 1
    /\ rear \in -1 .. MAX - 1
    /\ itemCount \in 0 .. MAX
    /\ (front + itemCount) % MAX = (rear + 1) % MAX

\* The queue the ring stands for, from the front on.
Contents == [k \in 1 .. itemCount |-> addr_array[(front + k - 1) % MAX]]

=============================================================================
