--------------------------- MODULE AllcoateProofs ---------------------------
(***************************************************************************)
(* What the task switcher keeps to, for every number of tasks, every       *)
(* number of iterations and every sequence of runs, and that the tasks     *)
(* take turns.                                                             *)
(***************************************************************************)
EXTENDS Allcoate, TLAPS

USE ConstantsAssumption, MAXAssumption DEF ConstantsAssumption, MAXAssumption

-----------------------------------------------------------------------------
(* The ring, counted from its front.                                       *)

\* x modulo MAX, for the numbers that arise.
Wrap(x) == IF x < MAX THEN x ELSE x - MAX

\* The context at place k of the queue.
At(k) == addr_array[Wrap(front + k - 1)]

Ring ==
    /\ front \in 0 .. MAX - 1
    /\ rear \in -1 .. MAX - 1
    /\ itemCount \in 0 .. MAX
    /\ Wrap(rear + 1) = Wrap(front + itemCount)

\* The queue holds c tasks in a row, from task h on.
InRow(h, c) ==
    /\ itemCount = c
    /\ \A k \in 1 .. c : At(k).task = Wrap(h + k - 1)

-----------------------------------------------------------------------------
(* The invariant.  A run is a fresh one (b = 0) if it finds the queue      *)
(* empty; if it finds there what another run has left (b = 1) the task     *)
(* after the first is ahead of it.                                         *)

\* Some tasks have not been called yet; each has been called by the one before.
Calling(b) ==
    /\ pc \in {"while", "kyield"}
    /\ processes = {t \in Task : t > running}
    /\ \A t \in Task : t > 0 /\ t <= running => caller[t] = t - 1
    /\ \A t \in Task :
          /\ written[t] = IF t < running \/ (t = running /\ pc = "kyield") THEN 1 ELSE 0
          /\ i[t] = IF t <= running THEN ITERATIONS - written[t] ELSE -1
    /\ b = 0 => InRow(0, IF pc = "while" THEN running ELSE running + 1)
    /\ b = 1 => InRow(1, IF pc = "while" /\ running = 0 THEN MAX - 1 ELSE MAX)

\* The place of a task in a round.
Rank(b, t) == IF t >= b THEN t - b ELSE t - b + MAX

\* All have been called: the tasks before the next one are one ahead of the others.
Ahead(b, next) ==
    \A t \in Task :
        written[t] = IF Rank(b, t) < Rank(b, next) THEN written[next] + 1
                                                   ELSE written[next]

Turning(b) ==
    /\ pc \in {"while", "kyield"}
    /\ processes = {}
    /\ \A t \in Task : t > 0 => caller[t] = t - 1
    /\ \A t \in Task : i[t] = ITERATIONS - written[t]
    /\ pc = "while" => Ahead(b, running) /\ InRow(Wrap(running + 1), MAX - 1)
    /\ pc = "kyield" => Ahead(b, peek.task) /\ InRow(peek.task, MAX)

\* All have written, and return one after another, each into the one before.
Returning ==
    /\ pc \in {"while", "kyield"}
    /\ processes = {}
    /\ \A t \in Task : t > 0 => caller[t] = t - 1
    /\ \A t \in Task : written[t] = ITERATIONS
    /\ LET left == IF pc = "while" THEN running ELSE running + 1
           done(t) == t > 0 /\ IF pc = "while" THEN t < left \/ left = 0 ELSE t <= left
       IN  /\ left \in Task
           /\ \A t \in Task : i[t] = IF done(t) THEN -1 ELSE 0
           /\ IF left = 0 THEN itemCount = 0 ELSE InRow(Wrap(left + 1), MAX - left)

\* The depths of the queued contexts.
Steady == steady => \A k \in 1 .. itemCount : At(k).depth = depth

IInv ==
    /\ TypeOK /\ Ring /\ Steady
    /\ \/ pc = "idle" /\ (itemCount = 0 \/ InRow(1, MAX - 1))
       \/ \E b \in {0, 1} : Calling(b) \/ Turning(b)
       \/ Returning
       \/ pc = "wild" /\ \E h \in Task : InRow(h, itemCount)

-----------------------------------------------------------------------------
(* The operations of the ring.                                             *)

LEMMA WrapMod ==
    ASSUME NEW x \in 0 .. MAX + MAX - 1
    PROVE  x % MAX = Wrap(x) /\ Wrap(x) \in 0 .. MAX - 1
<1>1. CASE x < MAX
  BY <1>1 DEF Wrap
<1>2. CASE x >= MAX
  BY <1>2 DEF Wrap
<1> QED
  BY <1>1, <1>2

LEMMA WrapFirst ==
    ASSUME NEW x \in 0 .. MAX - 1
    PROVE  Wrap(x + 1 - 1) = x
  BY DEF Wrap

\* Different places are different slots.
LEMMA WrapInjective ==
    ASSUME NEW h \in 0 .. MAX - 1, NEW j \in 1 .. MAX, NEW k \in 1 .. MAX,
           Wrap(h + j - 1) = Wrap(h + k - 1)
    PROVE  j = k
  BY DEF Wrap

\* Place k from the task after h is place k + 1 from h.
LEMMA WrapNext ==
    ASSUME NEW h \in 0 .. MAX - 1, NEW k \in 1 .. MAX - 1
    PROVE  /\ Wrap(h + 1) \in 0 .. MAX - 1
           /\ Wrap(Wrap(h + 1) + k - 1) = Wrap(h + (k + 1) - 1)
  BY DEF Wrap

LEMMA RingSound ==
    ASSUME Ring
    PROVE  RingOK
<1>1. front + itemCount \in 0 .. MAX + MAX - 1 /\ rear + 1 \in 0 .. MAX + MAX - 1
  BY DEF Ring
<1> QED
  BY <1>1, WrapMod DEF Ring, RingOK

LEMMA ContentsAt ==
    ASSUME Ring, NEW k \in 1 .. itemCount
    PROVE  Contents[k] = At(k)
<1>1. front + k - 1 \in 0 .. MAX + MAX - 1
  BY DEF Ring
<1>2. (front + k - 1) % MAX = Wrap(front + k - 1)
  BY <1>1, WrapMod
<1> QED
  BY <1>2 DEF Contents, At

LEMMA InsertRing ==
    ASSUME Ring, addr_array \in [0 .. MAX - 1 -> Context], itemCount # MAX,
           NEW d \in Context, insert(d)
    PROVE  /\ Ring' /\ addr_array' \in [0 .. MAX - 1 -> Context]
           /\ itemCount' = itemCount + 1
           /\ \A k \in 1 .. itemCount : At(k)' = At(k)
           /\ \A k : k = itemCount + 1 => At(k)' = d
<1> DEFINE slot == (IF rear = MAX - 1 THEN -1 ELSE rear) + 1
<1>1. /\ addr_array' = [addr_array EXCEPT ![slot] = d]
      /\ rear' = slot /\ itemCount' = itemCount + 1 /\ front' = front
  BY DEF insert, isFull
<1>2. slot \in 0 .. MAX - 1 /\ slot = Wrap(front + itemCount) /\ slot = Wrap(rear + 1)
  BY DEF Ring, Wrap
<1>3. Ring'
  BY <1>1, <1>2 DEF Ring, Wrap
<1>4. addr_array' \in [0 .. MAX - 1 -> Context]
  BY <1>1, <1>2
<1> HIDE DEF slot
<1>5. ASSUME NEW k \in 1 .. itemCount
      PROVE  At(k)' = At(k)
  <2>1. Wrap(front + k - 1) \in 0 .. MAX - 1 /\ Wrap(front + k - 1) # slot
    BY <1>2 DEF Ring, Wrap
  <2> QED
    BY <1>1, <2>1 DEF At
<1>6. ASSUME NEW k, k = itemCount + 1
      PROVE  At(k)' = d
  <2>1. Wrap(front + k - 1) = slot
    BY <1>2, <1>6 DEF Ring, Wrap
  <2> QED
    BY <1>1, <1>2, <2>1 DEF At
<1> QED
  BY <1>1, <1>3, <1>4, <1>5, <1>6

LEMMA RemoveRing ==
    ASSUME Ring, itemCount > 0, removeData
    PROVE  /\ Ring' /\ addr_array' = addr_array
           /\ itemCount' = itemCount - 1
           /\ \A k \in 1 .. itemCount - 1 : At(k)' = At(k + 1)
<1>1. /\ front' = Wrap(front + 1) /\ itemCount' = itemCount - 1
      /\ addr_array' = addr_array /\ rear' = rear
  BY DEF removeData, Ring, Wrap
<1>2. Ring'
  BY <1>1 DEF Ring, Wrap
<1>3. ASSUME NEW k \in 1 .. itemCount - 1
      PROVE  At(k)' = At(k + 1)
  <2>1. Wrap(Wrap(front + 1) + k - 1) = Wrap(front + (k + 1) - 1)
    BY WrapNext DEF Ring
  <2> QED
    BY <1>1, <2>1 DEF At
<1> QED
  BY <1>1, <1>2, <1>3

LEMMA PeekIsFirst ==
    ASSUME Ring
    PROVE  peek = At(1)
<1>1. Wrap(front + 1 - 1) = front
  BY DEF Ring, Wrap
<1> QED
  BY <1>1 DEF peek, At

\* What an insertion and a removal make of tasks in a row.
LEMMA InsertInRow ==
    ASSUME Ring, addr_array \in [0 .. MAX - 1 -> Context],
           NEW h \in Task, NEW c \in 0 .. MAX - 1, InRow(h, c),
           NEW d \in Context, d.task = Wrap(h + c), insert(d)
    PROVE  /\ itemCount' = c + 1
           /\ \A k \in 1 .. c + 1 : At(k)'.task = Wrap(h + k - 1)
<1>1. itemCount = c /\ itemCount # MAX /\ \A k \in 1 .. c : At(k).task = Wrap(h + k - 1)
  BY DEF InRow
<1>2. /\ itemCount' = c + 1
      /\ \A k \in 1 .. c : At(k)' = At(k)
      /\ \A k : k = c + 1 => At(k)' = d
  BY <1>1, InsertRing
<1>3. ASSUME NEW k \in 1 .. c + 1
      PROVE  At(k)'.task = Wrap(h + k - 1)
  <2>1. CASE k \in 1 .. c
    BY <1>1, <1>2, <2>1
  <2>2. CASE k = c + 1
    <3>1. h + k - 1 = h + c
      BY <2>2 DEF Task
    <3> QED
      BY <1>2, <2>2, <3>1
  <2> QED
    BY <2>1, <2>2
<1> QED
  BY <1>2, <1>3

LEMMA RemoveInRow ==
    ASSUME Ring, NEW h \in Task, NEW c \in 1 .. MAX, InRow(h, c), removeData
    PROVE  /\ itemCount' = c - 1
           /\ \A k \in 1 .. c - 1 : At(k)'.task = Wrap(Wrap(h + 1) + k - 1)
<1>1. itemCount = c /\ itemCount > 0 /\ \A k \in 1 .. c : At(k).task = Wrap(h + k - 1)
  BY DEF InRow
<1>2. itemCount' = c - 1 /\ \A k \in 1 .. c - 1 : At(k)' = At(k + 1)
  BY <1>1, RemoveRing
<1>3. ASSUME NEW k \in 1 .. c - 1
      PROVE  At(k)'.task = Wrap(Wrap(h + 1) + k - 1)
  <2>1. k \in 1 .. MAX - 1 /\ k + 1 \in 1 .. c
    OBVIOUS
  <2>2. Wrap(Wrap(h + 1) + k - 1) = Wrap(h + (k + 1) - 1)
    BY <2>1, WrapNext DEF Task
  <2> QED
    BY <1>1, <1>2, <2>1, <2>2
<1> QED
  BY <1>2, <1>3

\* The depths are right after an insertion and a removal if they were before.
LEMMA InsertSteady ==
    ASSUME Ring, addr_array \in [0 .. MAX - 1 -> Context], Steady,
           NEW d \in Context, d.depth = depth, insert(d),
           UNCHANGED <<depth, steady>>
    PROVE  Steady'
<1>1. CASE itemCount = MAX
  BY <1>1 DEF insert, isFull, queue, Steady, At
<1>2. CASE itemCount # MAX
  <2>1. /\ itemCount' = itemCount + 1
        /\ \A k \in 1 .. itemCount : At(k)' = At(k)
        /\ \A k : k = itemCount + 1 => At(k)' = d
    BY <1>2, InsertRing
  <2>2. \A k \in 1 .. itemCount' : k \in 1 .. itemCount \/ k = itemCount + 1
    BY <2>1 DEF Ring
  <2>3. ASSUME steady', NEW k \in 1 .. itemCount'
        PROVE  At(k)'.depth = depth'
    <3>1. CASE k \in 1 .. itemCount
      BY <2>1, <2>3, <3>1 DEF Steady
    <3>2. CASE k = itemCount + 1
      BY <2>1, <3>2
    <3> QED
      BY <2>2, <3>1, <3>2
  <2> QED
    BY <2>3 DEF Steady
<1> QED
  BY <1>1, <1>2

LEMMA RemoveSteady ==
    ASSUME Ring, itemCount > 0, Steady, removeData, UNCHANGED <<depth, steady>>
    PROVE  Steady'
<1>1. itemCount' = itemCount - 1 /\ \A k \in 1 .. itemCount - 1 : At(k)' = At(k + 1)
  BY RemoveRing
<1>2. \A k \in 1 .. itemCount - 1 : k + 1 \in 1 .. itemCount
  BY DEF Ring
<1> QED
  BY <1>1, <1>2 DEF Steady

-----------------------------------------------------------------------------
(* What the invariant says.                                                *)

\* Where a run is.
LEMMA RunStates ==
    ASSUME IInv, pc \in {"while", "kyield"}
    PROVE  (\E b \in {0, 1} : Calling(b) \/ Turning(b)) \/ Returning
  BY DEF IInv

LEMMA AlwaysInRow ==
    ASSUME IInv
    PROVE  \E h \in Task : InRow(h, itemCount)
<1>1. 0 \in Task /\ 1 \in Task /\ running \in Task /\ itemCount \in 0 .. MAX
  BY DEF Task, IInv, TypeOK, Ring
<1>2. CASE itemCount = 0
  BY <1>1, <1>2 DEF InRow
<1>3. CASE \E h \in Task : \E c : InRow(h, c)
  BY <1>3 DEF InRow
<1>4. CASE pc = "wild"
  BY <1>4 DEF IInv, Calling, Turning, Returning
<1>5. CASE pc = "idle"
  <2>1. itemCount = 0 \/ InRow(1, MAX - 1)
    BY <1>5 DEF IInv, Calling, Turning, Returning
  <2> QED
    BY <2>1, <1>1, <1>2, <1>3
<1>6. ASSUME NEW b \in {0, 1}, Calling(b)
      PROVE  \E h \in Task : \E c : InRow(h, c)
  BY <1>1, <1>6 DEF Calling
<1>7. ASSUME NEW t \in Task
      PROVE  Wrap(t + 1) \in Task
  BY DEF Task, Wrap
<1>8. ASSUME NEW b \in {0, 1}, Turning(b)
      PROVE  \E h \in Task : \E c : InRow(h, c)
  <2>1. CASE pc = "while"
    BY <1>1, <1>7, <1>8, <2>1 DEF Turning
  <2>2. CASE pc = "kyield"
    <3>1. peek \in Context
      BY DEF IInv, TypeOK, Ring, peek
    <3>2. peek.task \in Task
      BY <3>1 DEF Context
    <3> QED
      BY <1>8, <2>2, <3>2 DEF Turning
  <2> QED
    BY <1>8, <2>1, <2>2 DEF Turning
<1>9. CASE Returning
  <2> DEFINE left == IF pc = "while" THEN running ELSE running + 1
  <2>1. left \in Task /\ IF left = 0 THEN itemCount = 0 ELSE InRow(Wrap(left + 1), MAX - left)
    BY <1>9 DEF Returning
  <2> QED
    BY <2>1, <1>2, <1>3, <1>7
<1> QED
  BY <1>3, <1>4, <1>5, <1>6, <1>8, <1>9 DEF IInv

\* When all have been called the queue is not empty, and its first context is that
\* of a task that has not returned.
LEMMA JumpSound ==
    ASSUME IInv, pc = "kyield", processes = {}
    PROVE  itemCount > 0 /\ peek \in Context /\ i[peek.task] >= 0
<1>1. running \in Task /\ \A t \in Task : written[t] \in 0 .. ITERATIONS
  BY DEF IInv, TypeOK
<1>2. peek \in Context /\ peek.task \in Task
  BY DEF IInv, TypeOK, Ring, peek, Context
<1>3. ASSUME NEW b \in {0, 1}, Calling(b)
      PROVE  itemCount > 0 /\ i[peek.task] >= 0
  <2>1. running = MAX - 1
    <3>1. ~ \E t \in Task : t > running
      BY <1>3 DEF Calling
    <3>2. ~ (running + 1 \in Task)
      BY <1>1, <3>1 DEF Task
    <3> QED
      BY <1>1, <3>2 DEF Task
  <2>2. itemCount = MAX
    BY <1>3, <2>1 DEF Calling, InRow
  <2>3. i[peek.task] = ITERATIONS - written[peek.task]
    BY <1>2, <1>3, <2>1 DEF Calling, Task
  <2> QED
    BY <1>1, <1>2, <2>2, <2>3
<1>4. ASSUME NEW b \in {0, 1}, Turning(b)
      PROVE  itemCount > 0 /\ i[peek.task] >= 0
  <2>1. itemCount = MAX /\ i[peek.task] = ITERATIONS - written[peek.task]
    BY <1>2, <1>4 DEF Turning, InRow
  <2> QED
    BY <1>1, <1>2, <2>1
<1>5. CASE Returning
  <2> DEFINE left == running + 1
  <2>1. /\ left \in Task /\ InRow(Wrap(left + 1), MAX - left)
        /\ \A t \in Task : i[t] = IF t > 0 /\ t <= left THEN -1 ELSE 0
    BY <1>1, <1>5 DEF Returning, Task
  <2>2. itemCount = MAX - left /\ itemCount > 0
    BY <2>1 DEF InRow, Task
  <2>3. At(1).task = Wrap(Wrap(left + 1) + 1 - 1)
    BY <2>1, <2>2 DEF InRow, Ring, IInv
  <2>4. peek.task = Wrap(left + 1)
    BY <2>1, <2>3, PeekIsFirst DEF IInv, Task, Wrap
  <2>5. peek.task = 0 \/ peek.task > left
    BY <2>1, <2>4 DEF Task, Wrap
  <2>6. ~ (peek.task > 0 /\ peek.task <= left)
    BY <1>2, <2>1, <2>5 DEF Task
  <2>7. i[peek.task] = 0
    BY <1>2, <2>1, <2>6
  <2> QED
    BY <1>2, <2>2, <2>7
<1> QED
  BY <1>2, <1>3, <1>4, <1>5, RunStates

LEMMA InvSound ==
    ASSUME IInv
    PROVE  QueueSound /\ Residue
<1>1. Ring /\ itemCount \in 0 .. MAX
  BY DEF IInv, Ring
<1>2. ASSUME NEW j \in 1 .. itemCount, NEW k \in 1 .. itemCount, Contents[j] = Contents[k]
      PROVE  j = k
  <2>1. PICK h \in Task : InRow(h, itemCount)
    BY AlwaysInRow
  <2>2. At(j).task = Wrap(h + j - 1) /\ At(k).task = Wrap(h + k - 1) /\ At(j) = At(k)
    BY <1>1, <1>2, <2>1, ContentsAt DEF InRow
  <2>3. h \in 0 .. MAX - 1 /\ j \in 1 .. MAX /\ k \in 1 .. MAX
    BY <1>1 DEF Task
  <2> QED
    BY <2>2, <2>3, WrapInjective
<1>3. QueueSound
  BY <1>1, <1>2, RingSound, JumpSound DEF QueueSound
<1>4. ASSUME pc = "idle", itemCount # 0
      PROVE  itemCount = MAX - 1 /\ \A k \in 1 .. MAX - 1 : Contents[k].task = k
  <2>1. InRow(1, MAX - 1)
    BY <1>4 DEF IInv, Calling, Turning, Returning
  <2>2. \A k \in 1 .. MAX - 1 : Wrap(1 + k - 1) = k
    BY DEF Wrap
  <2> QED
    BY <1>1, <2>1, <2>2, ContentsAt DEF InRow
<1> QED
  BY <1>3, <1>4 DEF Residue

-----------------------------------------------------------------------------
(* The steps.                                                              *)

LEMMA InitInv == Init => IInv
<1> SUFFICES ASSUME Init
             PROVE  IInv
  OBVIOUS
<1>1. /\ front = 0 /\ rear = -1 /\ itemCount = 0 /\ pc = "idle"
      /\ addr_array = [k \in 0 .. MAX - 1 |-> [task |-> 0, depth |-> depth]]
  BY DEF Init, QueueInit
<1>2. 0 \in Task /\ depth \in Depth
  BY DEF Init, Task
<1>3. addr_array \in [0 .. MAX - 1 -> Context]
  BY <1>1, <1>2 DEF Context
<1>4. /\ processes \subseteq Task \ {0} /\ running \in Task
      /\ front \in Int /\ rear \in Int /\ itemCount \in Int
  BY <1>1, <1>2 DEF Init
<1>5. /\ i \in [Task -> -1 .. ITERATIONS] /\ written \in [Task -> 0 .. ITERATIONS]
      /\ caller \in [Task -> Task]
  BY <1>2 DEF Init
<1>6. TypeOK
  <2>1. steady \in BOOLEAN
    BY DEF Init
  <2> QED
    BY <1>1, <1>2, <1>3, <1>4, <1>5, <2>1 DEF TypeOK
<1>7. Ring /\ Steady
  BY <1>1 DEF Ring, Steady, Wrap
<1> QED
  BY <1>1, <1>6, <1>7 DEF IInv

LEMMA StartInv ==
    ASSUME IInv, NEW d \in Depth, __start(d)
    PROVE  IInv'
<1>1. /\ pc = "idle" /\ running' = 0 /\ depth' = d /\ steady' = (steady /\ d = depth)
      /\ i' = [t \in Task |-> IF t = 0 THEN ITERATIONS ELSE -1]
      /\ written' = [t \in Task |-> 0] /\ pc' = "while" /\ processes' = Task \ {0}
      /\ UNCHANGED <<addr_array, front, rear, itemCount, caller>>
  BY DEF __start, queue
<1>2. 0 \in Task
  BY DEF Task
<1>3. TypeOK'
  <2>1. steady' \in BOOLEAN
    BY <1>1
  <2>2. i' \in [Task -> -1 .. ITERATIONS] /\ written' \in [Task -> 0 .. ITERATIONS]
    BY <1>1
  <2> QED
    BY <1>1, <1>2, <2>1, <2>2 DEF IInv, TypeOK
<1>4. Ring'
  BY <1>1 DEF IInv, Ring
<1>5. Steady'
  <2>1. steady' => steady /\ depth' = depth
    BY <1>1
  <2> QED
    BY <1>1, <2>1 DEF IInv, Steady, At
<1>6. itemCount = 0 \/ InRow(1, MAX - 1)
  BY <1>1 DEF IInv, Calling, Turning, Returning
<1>7. ASSUME NEW b \in {0, 1}, b = 0 => itemCount = 0, b = 1 => InRow(1, MAX - 1)
      PROVE  Calling(b)'
  <2>1. processes' = {t \in Task : t > running'}
    BY <1>1 DEF Task
  <2>2. \A t \in Task : ~ (t > 0 /\ t <= running') /\ ~ t < running' /\ (t <= running' <=> t = 0)
    BY <1>1 DEF Task
  <2>3. \A t \in Task :
           /\ written'[t] = IF t < running' \/ (t = running' /\ pc' = "kyield") THEN 1 ELSE 0
           /\ i'[t] = IF t <= running' THEN ITERATIONS - written'[t] ELSE -1
    BY <1>1, <2>2
  <2>4. b = 0 => InRow(0, IF pc = "while" THEN running ELSE running + 1)'
    BY <1>1, <1>7 DEF InRow
  <2>5. b = 1 => InRow(1, IF pc = "while" /\ running = 0 THEN MAX - 1 ELSE MAX)'
    BY <1>1, <1>7 DEF InRow, At
  <2> QED
    BY <1>1, <2>1, <2>2, <2>3, <2>4, <2>5 DEF Calling
<1>8. Calling(0)' \/ Calling(1)'
  BY <1>6, <1>7
<1> QED
  BY <1>3, <1>4, <1>5, <1>8 DEF IInv

\* What a write does to the queue while the tasks are called: a fresh run fills it,
\* another finds it full after its first write.
LEMMA CallingWrites ==
    ASSUME IInv, NEW b \in {0, 1}, Calling(b), kwrite
    PROVE  Calling(b)'
<1>1. /\ pc = "while" /\ pc' = "kyield"
      /\ i' = [i EXCEPT ![running] = @ - 1]
      /\ written' = [written EXCEPT ![running] = @ + 1]
      /\ insert([task |-> running, depth |-> depth])
      /\ UNCHANGED <<processes, caller, running, depth, steady>>
  BY DEF kwrite
<1>2. /\ running \in Task /\ [task |-> running, depth |-> depth] \in Context
      /\ i \in [Task -> -1 .. ITERATIONS] /\ written \in [Task -> 0 .. ITERATIONS]
      /\ Ring /\ addr_array \in [0 .. MAX - 1 -> Context]
  BY DEF IInv, TypeOK, Context
<1>3. processes' = {t \in Task : t > running'}
  BY <1>1 DEF Calling
<1>4. \A t \in Task : t > 0 /\ t <= running' => caller'[t] = t - 1
  BY <1>1 DEF Calling
<1>5. ASSUME NEW t \in Task
      PROVE  /\ written'[t] = IF t < running' \/ (t = running' /\ pc' = "kyield") THEN 1 ELSE 0
             /\ i'[t] = IF t <= running' THEN ITERATIONS - written'[t] ELSE -1
  <2>1. written[t] = (IF t < running THEN 1 ELSE 0)
    BY <1>1 DEF Calling
  <2>2. i[t] = IF t <= running THEN ITERATIONS - written[t] ELSE -1
    BY DEF Calling
  <2>3. CASE t = running
    BY <1>1, <1>2, <2>1, <2>2, <2>3 DEF Task
  <2>4. CASE t # running
    BY <1>1, <1>2, <2>1, <2>2, <2>4 DEF Task
  <2> QED
    BY <2>3, <2>4
<1>6. ASSUME b = 0
      PROVE  InRow(0, IF pc = "while" THEN running ELSE running + 1)'
  <2>1. InRow(0, running)
    BY <1>1, <1>6 DEF Calling
  <2>2. 0 \in Task /\ running \in 0 .. MAX - 1 /\ Wrap(0 + running) = running
    BY <1>2 DEF Task, Wrap
  <2>3. /\ itemCount' = running + 1
        /\ \A k \in 1 .. running + 1 : At(k)'.task = Wrap(0 + k - 1)
    BY <1>1, <1>2, <2>1, <2>2, InsertInRow
  <2> QED
    BY <1>1, <2>3 DEF InRow
<1>7. ASSUME b = 1
      PROVE  InRow(1, IF pc = "while" /\ running = 0 THEN MAX - 1 ELSE MAX)'
  <2>1. CASE running = 0
    <3>1. InRow(1, MAX - 1)
      BY <1>1, <1>7, <2>1 DEF Calling
    <3>2. 1 \in Task /\ MAX - 1 \in 0 .. MAX - 1 /\ Wrap(1 + (MAX - 1)) = 0 /\ MAX - 1 + 1 = MAX
      BY DEF Task, Wrap
    <3>3. itemCount' = MAX /\ \A k \in 1 .. MAX : At(k)'.task = Wrap(1 + k - 1)
      BY <1>1, <1>2, <2>1, <3>1, <3>2, InsertInRow
    <3> QED
      BY <1>1, <3>3 DEF InRow
  <2>2. CASE running # 0
    <3>1. InRow(1, MAX)
      BY <1>1, <1>7, <2>2 DEF Calling
    <3>2. itemCount = MAX /\ UNCHANGED queue
      BY <1>1, <3>1 DEF InRow, insert, isFull
    <3> QED
      BY <1>1, <3>1, <3>2 DEF InRow, At, queue
  <2> QED
    BY <2>1, <2>2
<1> QED
  BY <1>1, <1>3, <1>4, <1>5, <1>6, <1>7 DEF Calling

\* The write of a task whose turn it is puts the next one first.
LEMMA TurningWrites ==
    ASSUME IInv, NEW b \in {0, 1}, Turning(b), kwrite
    PROVE  Turning(b)'
<1>1. /\ pc = "while" /\ pc' = "kyield"
      /\ i' = [i EXCEPT ![running] = @ - 1]
      /\ written' = [written EXCEPT ![running] = @ + 1]
      /\ insert([task |-> running, depth |-> depth])
      /\ UNCHANGED <<processes, caller, running, depth, steady>>
  BY DEF kwrite
<1>2. /\ running \in Task /\ [task |-> running, depth |-> depth] \in Context
      /\ i \in [Task -> -1 .. ITERATIONS] /\ written \in [Task -> 0 .. ITERATIONS]
      /\ Ring /\ addr_array \in [0 .. MAX - 1 -> Context]
  BY DEF IInv, TypeOK, Context
<1> DEFINE next == Wrap(running + 1)
<1>3. InRow(next, MAX - 1) /\ Ahead(b, running)
  BY <1>1 DEF Turning
<1>4. /\ next \in Task /\ MAX - 1 \in 0 .. MAX - 1 /\ MAX - 1 + 1 = MAX
      /\ Wrap(next + (MAX - 1)) = running /\ Wrap(next + 1 - 1) = next
  BY <1>2 DEF Task, Wrap
<1>5. itemCount' = MAX /\ \A k \in 1 .. MAX : At(k)'.task = Wrap(next + k - 1)
  <2> HIDE DEF next
  <2> QED
    BY <1>1, <1>2, <1>3, <1>4, InsertInRow
<1>6. Ring' /\ \A k : k = 1 => At(k)' = peek'
  <2>1. itemCount # MAX
    BY <1>3, <1>2 DEF InRow
  <2>2. Ring'
    BY <1>1, <1>2, <2>1, InsertRing
  <2>3. front' \in 0 .. MAX - 1 /\ Wrap(front' + 1 - 1) = front'
    <3>1. front' \in 0 .. MAX - 1
      BY <2>2 DEF Ring
    <3> QED
      BY <3>1, WrapFirst
  <2> QED
    BY <2>2, <2>3 DEF At, peek
<1>7. peek'.task = next
  <2> HIDE DEF next
  <2> QED
    BY <1>4, <1>5, <1>6
<1>8. \A t \in Task : i'[t] = ITERATIONS - written'[t]
  BY <1>1, <1>2 DEF Turning
<1>9. ASSUME NEW t \in Task
      PROVE  written'[t] = IF Rank(b, t) < Rank(b, next) THEN written'[next] + 1
                                                         ELSE written'[next]
  <2>1. /\ written[t] = IF Rank(b, t) < Rank(b, running) THEN written[running] + 1
                                                         ELSE written[running]
        /\ written[next] = IF Rank(b, next) < Rank(b, running) THEN written[running] + 1
                                                               ELSE written[running]
    BY <1>3, <1>4 DEF Ahead
  <2>2. /\ written'[t] = IF t = running THEN written[t] + 1 ELSE written[t]
        /\ written'[next] = IF next = running THEN written[next] + 1 ELSE written[next]
    BY <1>1, <1>2, <1>4
  <2>3. /\ Rank(b, next) = IF Rank(b, running) = MAX - 1 THEN 0 ELSE Rank(b, running) + 1
        /\ Rank(b, running) \in 0 .. MAX - 1 /\ Rank(b, t) \in 0 .. MAX - 1
        /\ t = running <=> Rank(b, t) = Rank(b, running)
        /\ next # running
    BY <1>2 DEF Rank, Wrap, Task
  <2>4. written[running] \in Nat
    BY <1>2
  <2> HIDE DEF next
  <2> QED
    BY <2>1, <2>2, <2>3, <2>4
<1> QED
  <2>1. Ahead(b, peek.task)'
    BY <1>7, <1>9 DEF Ahead
  <2>2. InRow(peek.task, MAX)'
    BY <1>5, <1>7 DEF InRow
  <2> QED
    BY <1>1, <1>8, <2>1, <2>2 DEF Turning

LEMMA KwriteInv ==
    ASSUME IInv, kwrite
    PROVE  IInv'
<1>1. /\ pc = "while" /\ pc' = "kyield" /\ i[running] > 0
      /\ i' = [i EXCEPT ![running] = @ - 1]
      /\ written' = [written EXCEPT ![running] = @ + 1]
      /\ insert([task |-> running, depth |-> depth])
      /\ UNCHANGED <<processes, caller, running, depth, steady>>
  BY DEF kwrite
<1>2. /\ running \in Task /\ [task |-> running, depth |-> depth] \in Context
      /\ i \in [Task -> -1 .. ITERATIONS] /\ written \in [Task -> 0 .. ITERATIONS]
      /\ Ring /\ addr_array \in [0 .. MAX - 1 -> Context] /\ Steady
  BY DEF IInv, TypeOK, Context
<1>3. (\E b \in {0, 1} : Calling(b) \/ Turning(b)) /\ i[running] = ITERATIONS - written[running]
  <2>1. ~ Returning
    BY <1>1, <1>2 DEF Returning
  <2>2. PICK b \in {0, 1} : Calling(b) \/ Turning(b)
    BY <1>1, <2>1, RunStates
  <2>3. running <= running
    BY <1>2 DEF Task
  <2>4. i[running] = ITERATIONS - written[running]
    BY <1>2, <2>2, <2>3 DEF Calling, Turning
  <2> QED
    BY <2>2, <2>4
<1>4. Ring' /\ addr_array' \in [0 .. MAX - 1 -> Context]
  <2>1. CASE itemCount = MAX
    BY <1>1, <1>2, <2>1 DEF insert, isFull, queue, Ring
  <2>2. CASE itemCount # MAX
    BY <1>1, <1>2, <2>2, InsertRing
  <2> QED
    BY <2>1, <2>2
<1>5. i' \in [Task -> -1 .. ITERATIONS] /\ written' \in [Task -> 0 .. ITERATIONS]
  <2>1. i[running] - 1 \in -1 .. ITERATIONS /\ written[running] + 1 \in 0 .. ITERATIONS
    BY <1>1, <1>2, <1>3
  <2> QED
    BY <1>1, <1>2, <2>1
<1>6. TypeOK'
  <2>1. front' \in Int /\ rear' \in Int /\ itemCount' \in Int
    BY <1>4 DEF Ring
  <2>2. /\ processes' \subseteq Task \ {0} /\ caller' \in [Task -> Task]
        /\ running' \in Task /\ depth' \in Depth /\ steady' \in BOOLEAN
    BY <1>1 DEF IInv, TypeOK
  <2> QED
    BY <1>1, <1>4, <1>5, <2>1, <2>2 DEF TypeOK
<1>7. Steady'
  BY <1>1, <1>2, InsertSteady
<1> QED
  BY <1>3, <1>4, <1>6, <1>7, CallingWrites, TurningWrites DEF IInv

\* The task that is called is the one after the task that calls.
LEMMA PtrInv ==
    ASSUME IInv, NEW t \in Task, ptr(t)
    PROVE  IInv'
<1>1. /\ pc = "kyield" /\ t \in processes /\ \A u \in processes : t <= u
      /\ processes' = processes \ {t} /\ i' = [i EXCEPT ![t] = ITERATIONS]
      /\ caller' = [caller EXCEPT ![t] = running] /\ running' = t /\ pc' = "while"
      /\ UNCHANGED <<addr_array, front, rear, itemCount, depth, written, steady>>
  BY DEF ptr, queue
<1>2. /\ running \in Task /\ i \in [Task -> -1 .. ITERATIONS]
      /\ caller \in [Task -> Task] /\ written \in [Task -> 0 .. ITERATIONS]
  BY DEF IInv, TypeOK
<1>3. PICK b \in {0, 1} : Calling(b)
  BY <1>1, RunStates DEF Turning, Returning
<1>4. t = running + 1
  <2>1. t > running
    BY <1>1, <1>3 DEF Calling
  <2>2. running + 1 \in processes
    BY <1>2, <1>3, <2>1 DEF Calling, Task
  <2> QED
    BY <1>1, <1>2, <2>1, <2>2 DEF Task
<1>5. ASSUME NEW u \in Task
      PROVE  /\ u < t <=> u < running \/ u = running
             /\ u # t => (u <= running <=> u <= t)
             /\ u > running /\ u # t <=> u > t
  <2>1. u \in Int /\ running \in Int /\ t = running + 1
    BY <1>2, <1>4 DEF Task
  <2> QED
    BY <2>1
<1>6. TypeOK'
  <2>1. i' \in [Task -> -1 .. ITERATIONS] /\ caller' \in [Task -> Task]
    BY <1>1, <1>2
  <2> QED
    BY <1>1, <2>1 DEF IInv, TypeOK
<1>7. Ring' /\ Steady'
  BY <1>1 DEF IInv, Ring, Steady, At
<1>8. Calling(b)'
  <2>1. processes' = {u \in Task : u > running'}
    <3>1. processes' = {u \in Task : u > running} \ {t}
      BY <1>1, <1>3 DEF Calling
    <3>2. \A u \in Task : u > running /\ u # t <=> u > t
      BY <1>5
    <3>3. running' = t
      BY <1>1
    <3> QED
      BY <3>1, <3>2, <3>3
  <2>2. ASSUME NEW u \in Task, u > 0, u <= running'
        PROVE  caller'[u] = u - 1
    <3>1. CASE u = t
      BY <1>1, <1>2, <1>4, <3>1 DEF Task
    <3>2. CASE u # t
      <4>1. u <= running
        BY <1>1, <1>5, <2>2, <3>2
      <4> QED
        BY <1>1, <1>2, <1>3, <2>2, <3>2, <4>1 DEF Calling
    <3> QED
      BY <3>1, <3>2
  <2>3. ASSUME NEW u \in Task
        PROVE  /\ written'[u] = IF u < running' \/ (u = running' /\ pc' = "kyield") THEN 1 ELSE 0
               /\ i'[u] = IF u <= running' THEN ITERATIONS - written'[u] ELSE -1
    <3>1. /\ written[u] = IF u < running \/ (u = running /\ pc = "kyield") THEN 1 ELSE 0
          /\ i[u] = IF u <= running THEN ITERATIONS - written[u] ELSE -1
      BY <1>3 DEF Calling
    <3>2. /\ (u < running \/ (u = running /\ pc = "kyield")) <=> u < running'
          /\ ~ (u = running' /\ pc' = "kyield")
      BY <1>1, <1>5
    <3>3. written'[u] = IF u < running' \/ (u = running' /\ pc' = "kyield") THEN 1 ELSE 0
      BY <1>1, <3>1, <3>2
    <3>4. CASE u = t
      <4>1. i'[u] = ITERATIONS /\ written'[u] = 0 /\ u <= running'
        BY <1>1, <1>2, <3>3, <3>4 DEF Task
      <4> QED
        BY <3>3, <4>1
    <3>5. CASE u # t
      <4>1. i'[u] = i[u] /\ (u <= running <=> u <= running')
        BY <1>1, <1>2, <1>5, <3>5
      <4> QED
        BY <1>1, <3>1, <3>3, <4>1
    <3> QED
      BY <3>4, <3>5
  <2>4. b = 0 => InRow(0, IF pc = "while" THEN running ELSE running + 1)'
    BY <1>1, <1>3, <1>4 DEF Calling, InRow, At
  <2>5. b = 1 => InRow(1, IF pc = "while" /\ running = 0 THEN MAX - 1 ELSE MAX)'
    <3>1. running' # 0
      BY <1>1, <1>2, <1>4 DEF Task
    <3>2. b = 1 => InRow(1, MAX)
      BY <1>1, <1>3 DEF Calling
    <3> QED
      BY <1>1, <3>1, <3>2 DEF InRow, At
  <2> QED
    BY <1>1, <2>1, <2>2, <2>3, <2>4, <2>5 DEF Calling
<1> QED
  BY <1>6, <1>7, <1>8 DEF IInv

\* When all have been called they take turns.
LEMMA CallingDone ==
    ASSUME IInv, NEW b \in {0, 1}, Calling(b), pc = "kyield", processes = {}
    PROVE  Turning(b)
<1>1. running \in Task /\ Ring /\ b \in Task
  BY DEF IInv, TypeOK, Task
<1>2. running = MAX - 1
  <2>1. ~ \E t \in Task : t > running
    BY DEF Calling
  <2>2. ~ (running + 1 \in Task)
    BY <1>1, <2>1 DEF Task
  <2> QED
    BY <1>1, <2>2 DEF Task
<1>3. \A t \in Task : t <= running /\ (t < running \/ t = running)
  BY <1>2 DEF Task
<1>4. /\ \A t \in Task : t > 0 => caller[t] = t - 1
      /\ \A t \in Task : written[t] = 1 /\ i[t] = ITERATIONS - written[t]
  BY <1>3 DEF Calling
<1>5. InRow(b, MAX)
  BY <1>2 DEF Calling
<1>6. peek.task = b
  <2>1. At(1).task = Wrap(b + 1 - 1) /\ Wrap(b + 1 - 1) = b
    BY <1>5 DEF InRow, Wrap
  <2> QED
    BY <1>1, <2>1, PeekIsFirst
<1>7. Ahead(b, peek.task)
  <2>1. ASSUME NEW t \in Task
        PROVE  ~ Rank(b, t) < Rank(b, b)
    BY DEF Rank, Task
  <2> QED
    BY <1>1, <1>4, <1>6, <2>1 DEF Ahead
<1> QED
  BY <1>4, <1>5, <1>6, <1>7 DEF Turning

\* The jump from a kyield to the first context.
LEMMA JumpInv ==
    ASSUME IInv, jump_to
    PROVE  IInv'
<1>1. /\ pc = "kyield" /\ processes = {} /\ removeData
      /\ UNCHANGED <<processes, i, caller, depth, written, steady>>
      /\ \/ InStack(peek) /\ running' = peek.task /\ pc' = "while"
         \/ pc' = "wild" /\ running' = running
  BY DEF jump_to
<1> DEFINE h == peek.task
<1>2. /\ itemCount > 0 /\ h \in Task /\ Ring /\ Steady
      /\ running \in Task /\ addr_array \in [0 .. MAX - 1 -> Context]
  BY <1>1, JumpSound DEF IInv, TypeOK, Context
<1>3. /\ Ring' /\ addr_array' = addr_array /\ Steady'
  BY <1>1, <1>2, RemoveRing, RemoveSteady
<1>4. TypeOK'
  <2>1. front' \in Int /\ rear' \in Int /\ itemCount' \in Int
    BY <1>3 DEF Ring
  <2>2. running' \in Task /\ pc' \in {"idle", "while", "kyield", "wild"}
    BY <1>1, <1>2
  <2> QED
    BY <1>1, <1>3, <2>1, <2>2 DEF IInv, TypeOK
<1>5. CASE \E b \in {0, 1} : Calling(b) \/ Turning(b)
  <2>1. PICK b \in {0, 1} : Turning(b)
    BY <1>1, <1>5, CallingDone
  <2>2. InRow(h, MAX) /\ Ahead(b, h)
    BY <1>1, <2>1 DEF Turning
  <2>3. /\ itemCount' = MAX - 1
        /\ \A k \in 1 .. MAX - 1 : At(k)'.task = Wrap(Wrap(h + 1) + k - 1)
    <3> HIDE DEF h
    <3> QED
      BY <1>1, <1>2, <2>2, RemoveInRow
  <2>4. Wrap(h + 1) \in Task
    BY <1>2 DEF Task, Wrap
  <2>5. CASE pc' = "while" /\ running' = h
    <3>1. InRow(Wrap(running + 1), MAX - 1)'
      BY <2>3, <2>5 DEF InRow
    <3>2. Ahead(b, running)'
      BY <1>1, <2>2, <2>5 DEF Ahead
    <3>3. Turning(b)'
      BY <1>1, <2>1, <2>5, <3>1, <3>2 DEF Turning
    <3> QED
      BY <1>3, <1>4, <3>3 DEF IInv
  <2>6. CASE pc' = "wild"
    <3>1. \E g \in Task : InRow(g, itemCount)'
      BY <2>3, <2>4 DEF InRow
    <3> QED
      BY <1>3, <1>4, <2>6, <3>1 DEF IInv
  <2> QED
    BY <1>1, <2>5, <2>6
<1>6. CASE Returning
  <2> DEFINE left == running + 1
  <2>1. /\ left \in Task /\ left # 0
        /\ InRow(Wrap(left + 1), MAX - left)
        /\ \A t \in Task : i[t] = IF t > 0 /\ t <= left THEN -1 ELSE 0
        /\ \A t \in Task : t > 0 => caller[t] = t - 1
        /\ \A t \in Task : written[t] = ITERATIONS
    BY <1>1, <1>2, <1>6 DEF Returning, Task
  <2>2. h = Wrap(left + 1) /\ MAX - left \in 1 .. MAX
    <3>1. /\ MAX - left \in 1 .. MAX /\ 1 \in 1 .. MAX - left
          /\ Wrap(left + 1) \in Task /\ Wrap(Wrap(left + 1) + 1 - 1) = Wrap(left + 1)
      BY <2>1 DEF Task, Wrap
    <3>2. At(1).task = Wrap(left + 1)
      BY <2>1, <3>1 DEF InRow
    <3> QED
      BY <1>2, <3>1, <3>2, PeekIsFirst
  <2>3. /\ itemCount' = MAX - left - 1
        /\ \A k \in 1 .. MAX - left - 1 : At(k)'.task = Wrap(Wrap(h + 1) + k - 1)
    <3> HIDE DEF h, left
    <3> QED
      BY <1>1, <1>2, <2>1, <2>2, RemoveInRow
  <2>4. Wrap(h + 1) \in Task
    BY <1>2 DEF Task, Wrap
  <2>5. CASE pc' = "while" /\ running' = h
    <3>1. /\ h = 0 => itemCount' = 0
          /\ h # 0 => h = left + 1 /\ MAX - left - 1 = MAX - h
      BY <2>1, <2>2, <2>3 DEF Task, Wrap
    <3>2. IF running' = 0 THEN itemCount' = 0 ELSE InRow(Wrap(running + 1), MAX - running)'
      BY <2>3, <2>5, <3>1 DEF InRow
    <3>3. ASSUME NEW t \in Task
          PROVE  i'[t] = IF t > 0 /\ (t < running' \/ running' = 0) THEN -1 ELSE 0
      <4>1. t > 0 /\ t <= left <=> t > 0 /\ (t < h \/ h = 0)
        BY <2>1, <2>2 DEF Task, Wrap
      <4> QED
        BY <1>1, <2>1, <2>5, <4>1
    <3>4. Returning'
      BY <1>1, <1>2, <2>1, <2>5, <3>2, <3>3 DEF Returning
    <3> QED
      BY <1>3, <1>4, <3>4 DEF IInv
  <2>6. CASE pc' = "wild"
    <3>1. \E g \in Task : InRow(g, itemCount)'
      BY <2>3, <2>4 DEF InRow
    <3> QED
      BY <1>3, <1>4, <2>6, <3>1 DEF IInv
  <2> QED
    BY <1>1, <2>5, <2>6
<1> QED
  BY <1>1, <1>5, <1>6, RunStates

\* A task whose turn it is and that has written its last was the first of a round,
\* and everybody has written as often.
LEMMA TurningDone ==
    ASSUME IInv, NEW b \in {0, 1}, Turning(b), pc = "while", i[running] = 0
    PROVE  running = b /\ \A t \in Task : written[t] = ITERATIONS
<1>1. running \in Task /\ b \in Task /\ \A t \in Task : written[t] \in 0 .. ITERATIONS
  <2>1. running \in Task /\ written \in [Task -> 0 .. ITERATIONS]
    BY DEF IInv, TypeOK
  <2>2. b \in Task
    BY DEF Task
  <2> QED
    BY <2>1, <2>2
<1>2. written[running] = ITERATIONS
  <2>1. i[running] = ITERATIONS - written[running]
    BY <1>1 DEF Turning
  <2> QED
    BY <1>1, <2>1
<1>3. ASSUME NEW t \in Task
      PROVE  ~ Rank(b, t) < Rank(b, running) /\ written[t] = ITERATIONS
  <2>1. written[t] = IF Rank(b, t) < Rank(b, running) THEN written[running] + 1
                                                      ELSE written[running]
    BY DEF Turning, Ahead
  <2>2. CASE Rank(b, t) < Rank(b, running)
    <3>1. written[t] = ITERATIONS + 1 /\ written[t] \in 0 .. ITERATIONS
      BY <1>1, <1>2, <2>1, <2>2
    <3> QED
      BY <3>1
  <2>3. CASE ~ Rank(b, t) < Rank(b, running)
    BY <1>2, <2>1, <2>3
  <2> QED
    BY <2>2, <2>3
<1>4. running = b
  <2>1. ~ Rank(b, b) < Rank(b, running)
    BY <1>1, <1>3
  <2> QED
    BY <1>1, <2>1 DEF Rank, Task
<1> QED
  BY <1>3, <1>4

\* A task that returns finds a run that is over for all.
LEMMA ReturnStates ==
    ASSUME IInv, return
    PROVE  (running = 0 /\ InRow(1, MAX - 1) /\ \A t \in Task : written[t] = ITERATIONS)
              \/ Returning
<1>1. pc = "while" /\ i[running] = 0 /\ running \in Task
  BY DEF return, IInv, TypeOK
<1>2. ASSUME NEW b \in {0, 1}, Calling(b)
      PROVE  FALSE
  <2>1. running <= running /\ ~ running < running
    BY <1>1 DEF Task
  <2>2. written[running] = 0 /\ i[running] = ITERATIONS - written[running]
    BY <1>1, <1>2, <2>1 DEF Calling
  <2> QED
    BY <1>1, <2>2
<1>3. ASSUME NEW b \in {0, 1}, Turning(b)
      PROVE  (running = 0 /\ InRow(1, MAX - 1) /\ \A t \in Task : written[t] = ITERATIONS)
                \/ Returning
  <2>1. /\ running = b /\ \A t \in Task : written[t] = ITERATIONS
        /\ InRow(Wrap(running + 1), MAX - 1)
        /\ processes = {} /\ \A t \in Task : t > 0 => caller[t] = t - 1
        /\ \A t \in Task : i[t] = ITERATIONS - written[t]
    BY <1>1, <1>3, TurningDone DEF Turning
  <2>2. CASE b = 0
    <3>1. Wrap(0 + 1) = 1
      BY DEF Wrap
    <3> QED
      BY <2>1, <2>2, <3>1
  <2>3. CASE b = 1
    <3>1. \A t \in Task : i[t] = IF t > 0 /\ (t < running \/ running = 0) THEN -1 ELSE 0
      BY <2>1, <2>3 DEF Task
    <3> QED
      BY <1>1, <2>1, <2>3, <3>1 DEF Returning
  <2> QED
    BY <2>2, <2>3
<1> QED
  BY <1>1, <1>2, <1>3, RunStates

LEMMA ReturnInv ==
    ASSUME IInv, return
    PROVE  IInv'
<1>1. /\ pc = "while" /\ i[running] = 0 /\ i' = [i EXCEPT ![running] = -1]
      /\ UNCHANGED <<addr_array, front, rear, itemCount>>
      /\ UNCHANGED <<processes, caller, depth, written, steady>>
      /\ IF running = 0 THEN pc' = "idle" /\ running' = running
                        ELSE pc' = "kyield" /\ running' = caller[running]
  BY DEF return, queue
<1>2. /\ running \in Task /\ i \in [Task -> -1 .. ITERATIONS]
      /\ caller \in [Task -> Task]
  BY DEF IInv, TypeOK
<1>3. TypeOK'
  <2>1. i' \in [Task -> -1 .. ITERATIONS]
    BY <1>1, <1>2
  <2>2. running' \in Task /\ pc' \in {"idle", "kyield"}
    BY <1>1, <1>2
  <2> QED
    BY <1>1, <2>1, <2>2 DEF IInv, TypeOK
<1>4. Ring' /\ Steady'
  BY <1>1 DEF IInv, Ring, Steady, At
<1>5. CASE running = 0
  <2>1. itemCount = 0 \/ InRow(1, MAX - 1)
    BY <1>1, <1>5, ReturnStates DEF Returning
  <2>2. itemCount' = 0 \/ InRow(1, MAX - 1)'
    BY <1>1, <2>1 DEF InRow, At
  <2> QED
    BY <1>1, <1>3, <1>4, <1>5, <2>2 DEF IInv
<1>6. CASE running # 0
  <2>1. /\ processes = {} /\ \A t \in Task : t > 0 => caller[t] = t - 1
        /\ \A t \in Task : written[t] = ITERATIONS
        /\ \A t \in Task : i[t] = IF t > 0 /\ (t < running \/ running = 0) THEN -1 ELSE 0
        /\ InRow(Wrap(running + 1), MAX - running)
    BY <1>1, <1>6, ReturnStates DEF Returning
  <2>2. pc' = "kyield" /\ running' = running - 1 /\ running' + 1 = running
    BY <1>1, <1>2, <1>6, <2>1 DEF Task
  <2>3. ASSUME NEW t \in Task
        PROVE  i'[t] = IF t > 0 /\ t <= running THEN -1 ELSE 0
    <3>1. CASE t = running
      <4>1. t > 0 /\ t <= running
        BY <1>2, <1>6, <3>1 DEF Task
      <4> QED
        BY <1>1, <1>2, <3>1, <4>1
    <3>2. CASE t # running
      <4>1. t < running <=> t <= running
        BY <1>2, <3>2 DEF Task
      <4> QED
        BY <1>1, <1>2, <1>6, <2>1, <3>2, <4>1
    <3> QED
      BY <3>1, <3>2
  <2>4. Returning'
    <3>1. itemCount' = MAX - running /\ \A k \in 1 .. MAX - running : At(k)'.task = Wrap(Wrap(running + 1) + k - 1)
      BY <1>1, <2>1 DEF InRow, At
    <3>2. InRow(Wrap((running + 1) + 1), MAX - (running + 1))'
      BY <2>2, <3>1 DEF InRow
    <3> QED
      BY <1>1, <1>2, <1>6, <2>1, <2>2, <2>3, <3>2 DEF Returning
  <2> QED
    BY <1>3, <1>4, <2>4 DEF IInv
<1> QED
  BY <1>5, <1>6

LEMMA NextInv == IInv /\ [Next]_vars => IInv'
<1> SUFFICES ASSUME IInv, [Next]_vars
             PROVE  IInv'
  OBVIOUS
<1>1. CASE Run
  BY <1>1, KwriteInv, JumpInv, ReturnInv, PtrInv DEF Run
<1>2. CASE \E d \in Depth : __start(d)
  BY <1>2, StartInv
<1>3. CASE UNCHANGED vars
  <2>1. /\ UNCHANGED <<addr_array, front, rear, itemCount>>
        /\ UNCHANGED <<processes, i, caller, running, depth, written, steady, pc>>
    BY <1>3 DEF vars, queue
  <2>2. TypeOK' /\ Ring' /\ Steady'
    BY <2>1 DEF IInv, TypeOK, Ring, Steady, At
  <2>3. \A h, c : InRow(h, c) => InRow(h, c)'
    BY <2>1 DEF InRow, At
  <2> QED
    BY <2>1, <2>2 DEF IInv, InRow, At, Calling, Turning, Returning, Ahead, peek
<1> QED
  BY <1>1, <1>2, <1>3 DEF Next

LEMMA InvCorrect == Spec => []IInv
  BY InitInv, NextInv, PTL DEF Spec

-----------------------------------------------------------------------------
(* The refinement.                                                         *)

\* Whoever writes has written as little as anybody.
LEMMA WriterIsBehind ==
    ASSUME IInv, kwrite
    PROVE  /\ running \in Task /\ written[running] < ITERATIONS
           /\ \A u \in Task : written[running] <= written[u]
<1>1. pc = "while" /\ i[running] > 0
  BY DEF kwrite
<1>2. running \in Task /\ i \in [Task -> -1 .. ITERATIONS] /\ written \in [Task -> 0 .. ITERATIONS]
  BY DEF IInv, TypeOK
<1>3. ~ Returning
  BY <1>1, <1>2 DEF Returning
<1>4. ASSUME NEW b \in {0, 1}, Calling(b)
      PROVE  written[running] = 0
  <2>1. ~ running < running
    BY <1>2 DEF Task
  <2> QED
    BY <1>1, <1>2, <1>4, <2>1 DEF Calling
<1>5. ASSUME NEW b \in {0, 1}, Turning(b)
      PROVE  /\ i[running] = ITERATIONS - written[running]
             /\ \A u \in Task : written[running] <= written[u]
  <2>1. i[running] = ITERATIONS - written[running]
    BY <1>2, <1>5 DEF Turning
  <2>2. ASSUME NEW u \in Task
        PROVE  written[running] <= written[u]
    <3>1. written[u] \in {written[running], written[running] + 1}
      BY <1>1, <1>5 DEF Turning, Ahead
    <3> QED
      BY <1>2, <3>1
  <2> QED
    BY <2>1, <2>2
<1>6. CASE \E b \in {0, 1} : Calling(b)
  <2>1. \A u \in Task : written[u] \in 0 .. ITERATIONS
    BY <1>2
  <2> QED
    BY <1>2, <1>4, <1>6, <2>1
<1>7. CASE \E b \in {0, 1} : Turning(b)
  <2>1. /\ i[running] = ITERATIONS - written[running] /\ written[running] \in 0 .. ITERATIONS
        /\ \A u \in Task : written[running] <= written[u]
    BY <1>2, <1>5, <1>7
  <2>2. written[running] < ITERATIONS
    BY <1>1, <2>1
  <2> QED
    BY <1>2, <2>1, <2>2
<1> QED
  BY <1>1, <1>3, <1>6, <1>7, RunStates

\* If the command has always been called at one depth no context is of another.
LEMMA SteadyJump ==
    ASSUME IInv, pc = "kyield", processes = {}, steady
    PROVE  InStack(peek)
<1>1. itemCount > 0 /\ i[peek.task] >= 0 /\ Ring
  BY JumpSound DEF IInv
<1>2. 1 \in 1 .. itemCount
  BY <1>1 DEF Ring
<1>3. peek.depth = depth
  BY <1>1, <1>2, PeekIsFirst DEF IInv, Steady
<1> QED
  BY <1>1, <1>3 DEF InStack

LEMMA NextRefines ==
    ASSUME IInv, [Next]_vars
    PROVE  [Outside!Next]_(Outside!vars)
<1> USE DEF Outside!vars
<1>1. CASE kwrite
  <2>1. /\ running \in Task /\ written[running] < ITERATIONS
        /\ \A u \in Task : written[running] <= written[u]
    BY <1>1, WriterIsBehind
  <2>2. /\ pc = "while" /\ pc' = "kyield" /\ steady' = steady
        /\ written' = [written EXCEPT ![running] = @ + 1]
    BY <1>1 DEF kwrite
  <2>3. Outside!Turn(running)
    BY <2>1, <2>2 DEF Outside!Turn
  <2> QED
    BY <2>1, <2>3 DEF Outside!Next
<1>2. CASE jump_to
  <2>1. /\ pc = "kyield" /\ processes = {} /\ UNCHANGED <<written, steady>>
        /\ (InStack(peek) /\ pc' = "while") \/ (~ InStack(peek) /\ pc' = "wild")
    BY <1>2 DEF jump_to
  <2>2. CASE pc' = "while"
    BY <2>1, <2>2
  <2>3. CASE ~ InStack(peek) /\ pc' = "wild"
    <3>1. ~ steady
      BY <2>1, <2>3, SteadyJump
    <3> QED
      BY <2>1, <2>3, <3>1 DEF Outside!Next, Outside!BreakOff
  <2> QED
    BY <2>1, <2>2, <2>3
<1>3. CASE return
  <2>1. pc = "while" /\ UNCHANGED <<written, steady>>
    BY <1>3 DEF return
  <2>2. CASE running = 0
    <3>1. \A t \in Task : written[t] = ITERATIONS
      BY <1>3, ReturnStates DEF Returning
    <3>2. pc' = "idle"
      BY <1>3, <2>2 DEF return
    <3> QED
      BY <2>1, <3>1, <3>2 DEF Outside!Next, Outside!End
  <2>3. CASE running # 0
    BY <1>3, <2>1, <2>3 DEF return
  <2> QED
    BY <2>2, <2>3
<1>4. CASE \E t \in Task : ptr(t)
  BY <1>4 DEF ptr
<1>5. CASE \E d \in Depth : __start(d)
  <2>1. /\ pc = "idle" /\ pc' = "while" /\ written' = [t \in Task |-> 0]
        /\ \E d : steady' = (steady /\ d = depth)
    BY <1>5 DEF __start
  <2>2. steady' \in {steady, FALSE}
    <3>1. steady \in BOOLEAN
      BY DEF IInv, TypeOK
    <3> QED
      BY <2>1, <3>1
  <2> QED
    BY <2>1, <2>2 DEF Outside!Next, Outside!Begin
<1>6. CASE UNCHANGED vars
  BY <1>6 DEF vars
<1> QED
  BY <1>1, <1>2, <1>3, <1>4, <1>5, <1>6 DEF Next, Run

-----------------------------------------------------------------------------

\* For every number of tasks and of iterations and every sequence of runs: the
\* tasks that have been called, their counters and the task that runs are as the
\* code takes them to be (__start, kyield).
THEOREM AllcoateTypeCorrect == Spec => []TypeOK
  BY InvCorrect, PTL DEF IInv

\* removeData never finds the queue empty, and no context is lost or doubled,
\* although insert drops what a full queue has no room for (insert, removeData).
THEOREM QueueStaysSound == Spec => []QueueSound
  BY InvCorrect, InvSound, PTL

\* A run leaves the queue empty, or leaves in it all tasks but the first in their
\* order (kyield, __start).
THEOREM RunsLeaveResidue == Spec => []Residue
  BY InvCorrect, InvSound, PTL

\* Every run is one of tasks that take turns: nobody writes again before everybody
\* has caught up, a run is over only when all have written ITERATIONS times, and one
\* breaks off only if the command was called at another depth before.
THEOREM StepsOfTurns ==
    Spec => Outside!Init /\ [][Outside!Next]_(Outside!vars)
<1>1. Init => Outside!Init
  BY DEF Init, Outside!Init
<1>2. IInv /\ [Next]_vars => [Outside!Next]_(Outside!vars)
  BY NextRefines
<1> QED
  BY <1>1, <1>2, InvCorrect, PTL DEF Spec

=============================================================================
