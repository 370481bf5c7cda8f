-------------------------- MODULE CommandLineProofs --------------------------
(***************************************************************************)
(* What the line editor, its history and the splitting into words keep to, *)
(* for every alphabet, every size of the buffer and of cmd and any number  *)
(* of lines.                                                               *)
(***************************************************************************)
EXTENDS CommandLine, NumberLemmas, FiniteSetTheorems, SequenceTheorems, TLAPS

USE ConstantsAssumption DEF ConstantsAssumption

-----------------------------------------------------------------------------
(* Strings in the buffer.                                                  *)

Buffer == [0 .. LINE - 1 -> Byte]

\* The first NUL of a buffer that has one.
LEMMA EndOf ==
    ASSUME NEW s \in Buffer, NEW E, E = {k \in DOMAIN s : s[k] = NUL}, E # {}
    PROVE  /\ Min(E) \in 0 .. LINE - 1
           /\ s[Min(E)] = NUL
           /\ \A k \in 0 .. Min(E) - 1 : s[k] # NUL
<1>1. DOMAIN s = 0 .. LINE - 1
  BY DEF Buffer
<1>2. E \subseteq Nat
  BY <1>1
<1>3. Min(E) \in E /\ \A x \in E : Min(E) <= x
  BY <1>2, MinIs
<1>4. ASSUME NEW k \in 0 .. Min(E) - 1
      PROVE  s[k] # NUL
  <2>1. k \in 0 .. LINE - 1 /\ ~ (Min(E) <= k)
    BY <1>1, <1>2, <1>3
  <2> QED
    BY <1>1, <1>3, <2>1
<1> QED
  BY <1>1, <1>3, <1>4

LEMMA EndIs ==
    ASSUME NEW s \in Buffer, NEW E, E = {k \in DOMAIN s : s[k] = NUL},
           NEW e \in 0 .. LINE - 1, s[e] = NUL, \A k \in 0 .. e - 1 : s[k] # NUL
    PROVE  E # {} /\ Min(E) = e
<1>1. e \in E
  BY DEF Buffer
<1>2. /\ Min(E) \in 0 .. LINE - 1
      /\ s[Min(E)] = NUL
      /\ \A k \in 0 .. Min(E) - 1 : s[k] # NUL
  BY <1>1, EndOf
<1>3. ~ (Min(E) < e) /\ ~ (e < Min(E))
  BY <1>2
<1> QED
  BY <1>1, <1>2, <1>3

\* Between a character inside a set and a later one outside lies a last one inside.
LEMMA Boundary ==
    ASSUME NEW t, NEW D, NEW i \in Nat, NEW j \in Nat, i < j, t[i] \notin D, t[j] \in D
    PROVE  \E k \in i .. j - 1 : t[k] \notin D /\ t[k + 1] \in D
<1> DEFINE S == {x \in i + 1 .. j : t[x] \in D}
<1>1. S \subseteq Nat /\ j \in S
  OBVIOUS
<1>2. PICK m \in S : \A x \in S : m <= x
  <2> HIDE DEF S
  <2> QED
    BY <1>1, LeastNumber
<1>3. m \in i + 1 .. j /\ t[m] \in D
  BY <1>2
<1>4. t[m - 1] \notin D
  <2>1. CASE m = i + 1
    BY <2>1
  <2>2. CASE m # i + 1
    <3>1. m - 1 \in i + 1 .. j /\ ~ (m <= m - 1)
      BY <1>3, <2>2
    <3> QED
      BY <1>2, <3>1
  <2> QED
    BY <2>1, <2>2
<1>5. m - 1 \in i .. j - 1 /\ (m - 1) + 1 = m
  BY <1>3
<1> QED
  BY <1>3, <1>4, <1>5

-----------------------------------------------------------------------------
(* The invariant.                                                          *)

\* A line without words.
Wordless(s) == \A k \in DOMAIN s : s[k] \in Delim

\* The links stay among the nodes, and once there is a line UP leaves the first.
Linked ==
    /\ \A i \in 0 .. n : next[i] \in 1 .. n \union {NULL} /\ prev[i] \in 0 .. n \union {NULL}
    /\ n >= 1 => next[0] # NULL

\* Up to the cursor the buffer holds the line of the user.
Echoed ==
    pc = "input" /\ ~ recalled =>
        /\ Len(shown) = index
        /\ \A k \in 1 .. index : string[k - 1] = shown[k]

\* As long as nothing is typed, the buffer holds what is left of the last line.
Fresh == pc = "input" /\ ~ typed /\ n >= 1 => Ends # {} /\ Text = name

\* A line that was entered ends in the buffer.
Entered == pc = "parse" => Ends # {}

IInv ==
    /\ TypeOK /\ Linked /\ Echoed /\ Fresh /\ Entered
    /\ EchoFaithful /\ OverrunNeedsCause

\* What OverrunNeedsCause asks for.
Cause ==
    \/ Len(shown) >= LINE - 1
    \/ Cardinality(Words(shown)) >= ARGS
    \/ recalled
    \/ typed /\ Ends = {}

LEMMA InitHolds == Init => IInv
<1> SUFFICES ASSUME Init PROVE IInv
  OBVIOUS
<1>1. shown \in Seq(Visible) /\ name \in Seq(Visible) /\ Len(shown) = 0
  BY EmptySeq DEF Init
<1>2. string \in [0 .. LINE - 1 -> Byte]
  BY DEF Init, Byte
<1>3. recalled = FALSE /\ typed = FALSE /\ pc = "input" /\ name = <<>>
  BY DEF Init
<1>4. /\ index = 0 /\ n = 0 /\ actual_node = 0
      /\ next \in [Node -> Node \union {NULL}] /\ prev \in [Node -> Node \union {NULL}]
      /\ next[0] = NULL /\ prev[0] = NULL
  BY DEF Init, Node
<1>5. TypeOK
  <2>1. recalled \in BOOLEAN /\ typed \in BOOLEAN
    BY <1>3
  <2>2. index \in 0 .. LINE /\ n \in Node /\ actual_node \in 0 .. n
    BY <1>4 DEF Node
  <2> QED
    BY <1>1, <1>2, <1>3, <1>4, <2>1, <2>2 DEF TypeOK
<1>6. Linked
  BY <1>4 DEF Linked, NULL
<1>7. Echoed
  BY <1>1, <1>4 DEF Echoed
<1>8. Fresh /\ Entered /\ EchoFaithful /\ OverrunNeedsCause
  <2>1. ~ (n >= 1)
    BY <1>4
  <2> QED
    BY <1>3, <2>1 DEF Fresh, Entered, EchoFaithful, OverrunNeedsCause
<1> QED
  BY <1>5, <1>6, <1>7, <1>8 DEF IInv

\* What no key changes but RETURN.
LEMMA LineKept ==
    ASSUME IInv, UNCHANGED links
    PROVE  Linked'
BY DEF IInv, Linked, links

\* Running over the buffer, with a cause.
LEMMA OverrunStep ==
    ASSUME IInv, Overrun, Cause
    PROVE  IInv'
<1>1. pc' = "overrun" /\ UNCHANGED <<string, index, n, next, prev, actual_node,
                                      shown, recalled, typed, name>>
  BY DEF Overrun, links, ghosts
<1>2. TypeOK'
  BY <1>1 DEF IInv, TypeOK
<1>3. Linked'
  BY <1>1, LineKept DEF links
<1>4. Echoed' /\ Fresh' /\ Entered' /\ EchoFaithful'
  BY <1>1 DEF Echoed, Fresh, Entered, EchoFaithful
<1>5. Cause'
  BY <1>1 DEF Cause, Words, Ends
<1>6. OverrunNeedsCause'
  BY <1>5 DEF OverrunNeedsCause, Cause
<1> QED
  BY <1>2, <1>3, <1>4, <1>6 DEF IInv

LEMMA KeyStep ==
    ASSUME IInv, NEW c \in Char \union {Blank}, key(c)
    PROVE  IInv'
<1>1. TypeOK /\ Echoed /\ pc = "input"
  BY DEF IInv, key
<1>2. string \in [0 .. LINE - 1 -> Byte] /\ index \in 0 .. LINE
      /\ shown \in Seq(Visible) /\ Len(shown) \in Nat
  BY <1>1, LenProperties DEF TypeOK
<1>3. CASE index = LINE /\ Overrun
  <2>1. CASE ~ recalled
    <3>1. Len(shown) = LINE
      BY <1>1, <1>3, <2>1 DEF Echoed
    <3> QED
      BY <1>3, <3>1, OverrunStep DEF Cause
  <2>2. CASE recalled
    BY <1>3, <2>2, OverrunStep DEF Cause
  <2> QED
    BY <2>1, <2>2
<1>4. CASE index < LINE /\ ~ (index = LINE /\ Overrun)
  <2>1. /\ string' = [string EXCEPT ![index] = c]
        /\ index' = index + 1
        /\ shown' = IF recalled THEN shown ELSE Append(shown, c)
        /\ UNCHANGED <<n, next, prev, actual_node, pc, recalled, name>>
    BY <1>4 DEF key, links
  <2>2. typed' = TRUE
    BY <1>4 DEF key
  <2>3. index' \in 0 .. LINE
    BY <1>2, <1>4, <2>1
  <2>4. string' \in [0 .. LINE - 1 -> Byte]
    BY <1>2, <2>1 DEF Byte
  <2>5. shown' \in Seq(Visible)
    <3>1. c \in Visible
      BY DEF Visible, Byte
    <3> QED
      BY <1>2, <2>1, <3>1, AppendProperties
  <2>6. TypeOK'
    <3>1. typed' \in BOOLEAN /\ recalled' \in BOOLEAN
      BY <1>1, <2>1, <2>2 DEF TypeOK
    <3> QED
      BY <1>1, <2>1, <2>3, <2>4, <2>5, <3>1 DEF TypeOK
  <2>7. Linked'
    BY <2>1, LineKept DEF links
  <2>8. Echoed'
    <3> SUFFICES ASSUME ~ recalled
                 PROVE  /\ Len(shown') = index'
                        /\ \A k \in 1 .. index' : string'[k - 1] = shown'[k]
      BY <2>1 DEF Echoed
    <3>1. Len(shown) = index /\ \A k \in 1 .. index : string[k - 1] = shown[k]
      BY <1>1 DEF Echoed
    <3>2. /\ Len(shown') = index + 1
          /\ \A k \in 1 .. index : shown'[k] = shown[k]
          /\ shown'[index + 1] = c
      BY <1>2, <2>1, <3>1, AppendProperties
    <3>3. \A k \in 1 .. index : string'[k - 1] = string[k - 1]
      BY <1>2, <2>1
    <3>4. string'[index] = c
      BY <1>2, <1>4, <2>1
    <3>5. ASSUME NEW k \in 1 .. index'
          PROVE  string'[k - 1] = shown'[k]
      <4>1. k \in 1 .. index \/ k = index + 1
        BY <1>2, <2>1
      <4> QED
        BY <1>2, <3>1, <3>2, <3>3, <3>4, <4>1
    <3> QED
      BY <2>1, <3>2, <3>5
  <2>9. Fresh' /\ Entered' /\ EchoFaithful' /\ OverrunNeedsCause'
    BY <1>1, <2>1, <2>2 DEF Fresh, Entered, EchoFaithful, OverrunNeedsCause
  <2> QED
    BY <2>6, <2>7, <2>8, <2>9 DEF IInv
<1> QED
  BY <1>3, <1>4 DEF key

LEMMA BackspaceStep ==
    ASSUME IInv, backspace
    PROVE  IInv'
<1>1. TypeOK /\ Echoed /\ pc = "input"
  BY DEF IInv, backspace
<1>2. index \in 0 .. LINE /\ index >= 1
      /\ shown \in Seq(Visible) /\ Len(shown) \in Nat
  BY <1>1, LenProperties DEF TypeOK, backspace
<1>3. /\ index' = index - 1
      /\ shown' = IF recalled THEN shown ELSE SubSeq(shown, 1, Len(shown) - 1)
      /\ UNCHANGED <<string, n, next, prev, actual_node, pc, recalled, name>>
  BY DEF backspace, links
<1>4. typed' = TRUE
  BY DEF backspace
<1>5. ASSUME ~ recalled
      PROVE  /\ shown' \in Seq(Visible)
             /\ Len(shown') = index - 1
             /\ \A k \in 1 .. index - 1 : shown'[k] = shown[k]
  <2>1. Len(shown) = index
    BY <1>1, <1>5 DEF Echoed
  <2>2. shown' = SubSeq(shown, 1, index - 1)
    BY <1>3, <1>5, <2>1
  <2>3. \A k \in 1 .. index - 1 : shown[k] \in Visible
    BY <1>2, <2>1, ElementOfSeq
  <2> QED
    BY <1>2, <2>1, <2>2, <2>3, SubSeqProperties
<1>6. TypeOK'
  <2>1. typed' \in BOOLEAN /\ recalled' \in BOOLEAN
    BY <1>1, <1>3, <1>4 DEF TypeOK
  <2>2. shown' \in Seq(Visible)
    BY <1>2, <1>3, <1>5
  <2>3. index' \in 0 .. LINE
    BY <1>2, <1>3
  <2> QED
    BY <1>1, <1>3, <2>1, <2>2, <2>3 DEF TypeOK
<1>7. Linked'
  BY <1>3, LineKept DEF links
<1>8. Echoed'
  <2> SUFFICES ASSUME ~ recalled
               PROVE  /\ Len(shown') = index'
                      /\ \A k \in 1 .. index' : string'[k - 1] = shown'[k]
    BY <1>3 DEF Echoed
  <2>1. \A k \in 1 .. index : string[k - 1] = shown[k]
    BY <1>1 DEF Echoed
  <2>2. ASSUME NEW k \in 1 .. index - 1
        PROVE  string'[k - 1] = shown'[k]
    <3>1. k \in 1 .. index
      BY <1>2
    <3> QED
      BY <1>3, <1>5, <2>1, <3>1
  <2> QED
    BY <1>3, <1>5, <2>2
<1>9. Fresh' /\ Entered' /\ EchoFaithful' /\ OverrunNeedsCause'
  BY <1>1, <1>3, <1>4 DEF Fresh, Entered, EchoFaithful, OverrunNeedsCause
<1> QED
  BY <1>6, <1>7, <1>8, <1>9 DEF IInv

-----------------------------------------------------------------------------
(* The history.                                                            *)

LEMMA MoveStep ==
    ASSUME IInv, pc = "input", NEW node \in 0 .. n, move(node)
    PROVE  IInv'
<1>1. TypeOK /\ Fresh
  BY DEF IInv
<1>2. /\ n \in Nat /\ actual_node \in 0 .. n /\ string \in Buffer
      /\ name \in Seq(Visible) /\ typed \in BOOLEAN
  BY <1>1 DEF TypeOK, Node, Buffer
<1>3. CASE (node # 0 \/ actual_node # 0) /\ Ends = {} /\ Overrun
  <2>1. n >= 1
    BY <1>2, <1>3
  <2>2. typed
    BY <1>1, <1>3, <2>1 DEF Fresh
  <2> QED
    BY <1>3, <2>2, OverrunStep DEF Cause
<1>4. CASE /\ node = 0 \/ Ends # {}
           /\ actual_node' = node
           /\ recall(node)
  <2>1. UNCHANGED <<n, next, prev, pc>>
    BY <1>4 DEF recall, links
  <2>2. ASSUME node = 0
        PROVE  /\ string' \in Buffer /\ index' = 0 /\ index' \in 0 .. LINE
               /\ Ends' # {} /\ Text' = name'
               /\ shown' \in Seq(Visible) /\ name' \in Seq(Visible) /\ Len(shown') = index'
               /\ recalled' = FALSE /\ typed' = FALSE
    <3>1. /\ string' = [string EXCEPT ![0] = NUL] /\ index' = 0
          /\ shown' = <<>> /\ name' = <<>>
      BY <1>4, <2>2 DEF recall
    <3>2. recalled' = FALSE /\ typed' = FALSE
      BY <1>4, <2>2 DEF recall
    <3>3. string' \in Buffer /\ string'[0] = NUL
      BY <1>2, <3>1 DEF Buffer, Byte
    <3>4. 0 \in 0 .. LINE - 1 /\ \A k \in 0 .. 0 - 1 : string'[k] # NUL
      OBVIOUS
    <3>5. Ends' = {k \in DOMAIN string' : string'[k] = NUL}
      BY DEF Ends
    <3>6. Ends' # {} /\ Min(Ends') = 0
      BY <3>3, <3>4, <3>5, EndIs
    <3>7. Text' = name'
      BY <3>1, <3>6 DEF Text, strlen
    <3> QED
      BY <3>1, <3>2, <3>3, <3>6, <3>7, EmptySeq
  <2>3. ASSUME node # 0
        PROVE  /\ string' \in Buffer /\ index' = strlen /\ index' \in 0 .. LINE /\ UNCHANGED string
               /\ ~ typed => Ends # {} /\ Text = name /\ Len(name) = strlen
               /\ UNCHANGED name
               /\ shown' = IF typed THEN <<>> ELSE name
    <3>1. UNCHANGED string /\ index' = strlen /\ Ends # {} /\ n >= 1
          /\ UNCHANGED name /\ shown' = IF typed THEN <<>> ELSE name
      BY <1>2, <1>4, <2>3 DEF recall
    <3>2. strlen \in 0 .. LINE - 1
      BY <1>2, <3>1, EndOf DEF Ends, strlen
    <3>3. ~ typed => Text = name
      BY <1>1, <3>1 DEF Fresh
    <3>4. Text = name => Len(name) = strlen
      <4>1. DOMAIN Text = 1 .. strlen
        BY DEF Text
      <4> QED
        BY <1>2, <3>2, <4>1, LenProperties
    <3> QED
      BY <1>2, <3>1, <3>2, <3>3, <3>4
  <2>4. ASSUME node # 0
        PROVE  UNCHANGED typed /\ recalled' = typed
    BY <1>4, <2>4 DEF recall
  <2>5. TypeOK'
    <3>1. recalled' \in BOOLEAN /\ typed' \in BOOLEAN
      BY <1>2, <2>2, <2>4
    <3>2. shown' \in Seq(Visible) /\ name' \in Seq(Visible)
      <4>1. CASE node = 0
        BY <2>2, <4>1
      <4>2. CASE node # 0
        BY <1>2, <2>3, <4>2, EmptySeq
      <4> QED
        BY <4>1, <4>2
    <3>3. string' \in [0 .. LINE - 1 -> Byte] /\ index' \in 0 .. LINE
      BY <2>2, <2>3 DEF Buffer
    <3> QED
      BY <1>1, <1>4, <2>1, <3>1, <3>2, <3>3 DEF TypeOK
  <2>6. Linked'
    BY <2>1, LineKept DEF links
  <2>7. Entered' /\ EchoFaithful' /\ OverrunNeedsCause'
    BY <2>1 DEF Entered, EchoFaithful, OverrunNeedsCause
  <2>8. Echoed'
    <3>1. CASE node = 0
      BY <2>2, <3>1 DEF Echoed
    <3>2. ASSUME node # 0, ~ typed
          PROVE  Len(shown') = index' /\ \A k \in 1 .. index' : string'[k - 1] = shown'[k]
      <4>1. shown' = Text /\ index' = strlen /\ UNCHANGED string /\ Len(shown') = strlen
        BY <2>3, <3>2
      <4> QED
        BY <4>1 DEF Text
    <3> QED
      BY <2>4, <3>1, <3>2 DEF Echoed
  <2>9. Fresh'
    <3>1. CASE node = 0
      BY <2>2, <3>1 DEF Fresh
    <3>2. CASE node # 0
      <4>1. Ends' = Ends /\ Text' = Text
        BY <2>3, <3>2 DEF Ends, Text, strlen
      <4> QED
        BY <2>3, <2>4, <3>2, <4>1 DEF Fresh
    <3> QED
      BY <3>1, <3>2
  <2> QED
    BY <2>5, <2>6, <2>7, <2>8, <2>9 DEF IInv
<1> QED
  BY <1>3, <1>4 DEF move

LEMMA UpStep ==
    ASSUME IInv, up
    PROVE  IInv'
<1> DEFINE node == IF next[actual_node] # NULL THEN next[actual_node] ELSE actual_node
<1>1. actual_node \in 0 .. n /\ n \in Nat /\ next[actual_node] \in 1 .. n \union {NULL}
  BY DEF IInv, TypeOK, Linked, Node
<1>2. node \in 0 .. n
  BY <1>1
<1>3. pc = "input" /\ move(node)
  BY DEF up
<1> HIDE DEF node
<1> QED
  BY <1>2, <1>3, MoveStep

LEMMA DownStep ==
    ASSUME IInv, down
    PROVE  IInv'
<1> DEFINE node == IF prev[actual_node] # NULL THEN prev[actual_node] ELSE actual_node
<1>1. actual_node \in 0 .. n /\ n \in Nat /\ prev[actual_node] \in 0 .. n \union {NULL}
  BY DEF IInv, TypeOK, Linked, Node
<1>2. node \in 0 .. n
  BY <1>1
<1>3. pc = "input" /\ move(node)
  BY DEF down
<1> HIDE DEF node
<1> QED
  BY <1>2, <1>3, MoveStep

\* A new node behind the current one.
LEMMA InsertKeeps ==
    ASSUME IInv, n < MaxLines, insert_after
    PROVE  /\ n' = n + 1 /\ n' \in Node
           /\ next' \in [Node -> Node \union {NULL}]
           /\ prev' \in [Node -> Node \union {NULL}]
           /\ actual_node \in 0 .. n'
           /\ Linked'
<1>1. /\ n \in 0 .. MaxLines /\ actual_node \in 0 .. n
      /\ next \in [Node -> Node \union {NULL}]
      /\ prev \in [Node -> Node \union {NULL}]
      /\ Node = 0 .. MaxLines
  BY DEF IInv, TypeOK, Node
<1>2. /\ \A i \in 0 .. n : next[i] \in 1 .. n \union {NULL} /\ prev[i] \in 0 .. n \union {NULL}
      /\ n >= 1 => next[0] # NULL
  BY DEF IInv, Linked
<1> DEFINE after == next[actual_node]
<1>3. n' = n + 1 /\ n + 1 \in Node /\ after \in 1 .. n \union {NULL} /\ after \in Node \union {NULL}
  BY <1>1, <1>2 DEF insert_after
<1>4. /\ next' = [next EXCEPT ![n + 1] = after, ![actual_node] = n + 1]
      /\ prev' = [i \in Node |-> CASE i = n + 1 -> actual_node
                                     [] i = after -> n + 1
                                     [] OTHER     -> prev[i]]
  BY DEF insert_after
<1>5. /\ next' \in [Node -> Node \union {NULL}]
      /\ prev' \in [Node -> Node \union {NULL}]
  <2>1. actual_node \in Node
    BY <1>1
  <2>2. next' \in [Node -> Node \union {NULL}]
    BY <1>1, <1>3, <1>4
  <2>3. prev' \in [Node -> Node \union {NULL}]
    BY <1>1, <1>3, <1>4, <2>1
  <2> QED
    BY <2>2, <2>3
<1>6. ASSUME NEW i \in 0 .. n'
      PROVE  next'[i] \in 1 .. n' \union {NULL} /\ prev'[i] \in 0 .. n' \union {NULL}
  <2>1. i \in Node /\ i \in 0 .. n + 1 /\ (i = n + 1 \/ i \in 0 .. n)
    BY <1>1, <1>3
  <2>2. next'[i] \in {after, n + 1, next[i]} /\ (i = n + 1 => next'[i] \in {after, n + 1})
    BY <1>1, <1>3, <1>4, <2>1
  <2>3. prev'[i] \in {actual_node, n + 1, prev[i]} /\ (i = n + 1 => prev'[i] = actual_node)
    <3>1. prev'[i] = CASE i = n + 1 -> actual_node
                       [] i = after -> n + 1
                       [] OTHER     -> prev[i]
      BY <1>4, <2>1
    <3>2. after # n + 1
      BY <1>1, <1>3 DEF NULL
    <3> HIDE DEF after
    <3>3. CASE i = n + 1
      BY <3>1, <3>2, <3>3
    <3>4. CASE i # n + 1 /\ i = after
      BY <3>1, <3>4
    <3>5. CASE i # n + 1 /\ i # after
      BY <3>1, <3>5
    <3> QED
      BY <3>3, <3>4, <3>5
  <2> HIDE DEF after
  <2>4. next'[i] \in 1 .. n + 1 \union {NULL}
    BY <1>1, <1>2, <1>3, <2>1, <2>2
  <2>5. prev'[i] \in 0 .. n + 1 \union {NULL}
    BY <1>1, <1>2, <1>3, <2>1, <2>3
  <2> QED
    BY <1>3, <2>4, <2>5
<1>7. next'[0] # NULL
  <2>1. CASE actual_node = 0
    <3>1. next'[0] = n + 1
      BY <1>1, <1>3, <1>4, <2>1
    <3> QED
      BY <1>1, <3>1 DEF NULL
  <2>2. CASE actual_node # 0
    <3>1. n >= 1 /\ next'[0] = next[0]
      BY <1>1, <1>3, <1>4, <2>2
    <3> QED
      BY <1>2, <3>1
  <2> QED
    BY <2>1, <2>2
<1>8. actual_node \in 0 .. n'
  BY <1>1, <1>3
<1> HIDE DEF after
<1> QED
  BY <1>3, <1>5, <1>6, <1>7, <1>8 DEF Linked, insert_after

\* The line that RETURN or a 0 makes of the buffer.
LEMMA LineEnds ==
    ASSUME string \in Buffer, index \in 0 .. LINE, index + 1 < LINE, NEW c \in {NL, NUL},
           string' = [string EXCEPT ![index] = c, ![index + 1] = NUL]
    PROVE  /\ string' \in Buffer
           /\ \A k \in 0 .. index - 1 : string'[k] = string[k]
           /\ string'[index] = c /\ string'[index + 1] = NUL
           /\ Ends' # {} /\ strlen' \in 0 .. index + 1
           /\ strlen' = index + 1 => c = NL
           /\ \A k \in 0 .. strlen' - 1 : string'[k] # NUL
           /\ string'[strlen'] = NUL
<1>1. string' \in Buffer
  BY DEF Buffer, Byte
<1>2. \A k \in 0 .. index - 1 : string'[k] = string[k]
  BY DEF Buffer
<1>3. string'[index] = c /\ string'[index + 1] = NUL
  BY DEF Buffer
<1>4. Ends' = {k \in DOMAIN string' : string'[k] = NUL}
  BY DEF Ends
<1>5. index + 1 \in Ends'
  BY <1>1, <1>3, <1>4 DEF Buffer
<1>6. /\ Min(Ends') \in 0 .. LINE - 1
      /\ string'[Min(Ends')] = NUL
      /\ \A k \in 0 .. Min(Ends') - 1 : string'[k] # NUL
  BY <1>1, <1>4, <1>5, EndOf, ZenonT(30)
<1>7. strlen' = Min(Ends')
  BY DEF strlen
<1>8. strlen' \in 0 .. index + 1
  <2>1. ~ (index + 1 \in 0 .. strlen' - 1)
    BY <1>3, <1>6, <1>7
  <2> QED
    BY <1>6, <1>7, <2>1
<1>9. ASSUME strlen' = index + 1
      PROVE  c = NL
  <2>1. index \in 0 .. strlen' - 1
    BY <1>9
  <2> QED
    BY <1>3, <1>6, <1>7, <2>1
<1> QED
  BY <1>1, <1>2, <1>3, <1>5, <1>6, <1>7, <1>8, <1>9

LEMMA EnterStep ==
    ASSUME IInv, NEW c \in {NL, NUL}, enter(c)
    PROVE  IInv'
<1>1. TypeOK /\ Echoed /\ pc = "input" /\ n < MaxLines
  BY DEF IInv, enter
<1>2. /\ string \in Buffer /\ index \in 0 .. LINE
      /\ shown \in Seq(Visible) /\ Len(shown) \in Nat
      /\ name \in Seq(Visible)
  BY <1>1, LenProperties DEF TypeOK, Buffer
<1>3. CASE index + 1 >= LINE /\ Overrun
  <2>1. CASE ~ recalled
    <3>1. Len(shown) >= LINE - 1
      BY <1>1, <1>2, <1>3, <2>1 DEF Echoed
    <3> QED
      BY <1>3, <3>1, OverrunStep DEF Cause
  <2>2. CASE recalled
    BY <1>3, <2>2, OverrunStep DEF Cause
  <2> QED
    BY <2>1, <2>2
<1>4. CASE /\ index + 1 < LINE
           /\ string' = [string EXCEPT ![index] = c, ![index + 1] = NUL]
           /\ shown' = IF recalled \/ c = NUL THEN shown ELSE Append(shown, c)
           /\ insert_after
           /\ pc' = "parse"
           /\ UNCHANGED <<index, actual_node, recalled, typed, name>>
  <2>1. /\ string' \in Buffer
        /\ \A k \in 0 .. index - 1 : string'[k] = string[k]
        /\ string'[index] = c /\ string'[index + 1] = NUL
        /\ Ends' # {} /\ strlen' \in 0 .. index + 1
        /\ strlen' = index + 1 => c = NL
        /\ \A k \in 0 .. strlen' - 1 : string'[k] # NUL
        /\ string'[strlen'] = NUL
    BY <1>2, <1>4, LineEnds
  <2>2. /\ n' = n + 1 /\ n' \in Node
        /\ next' \in [Node -> Node \union {NULL}]
        /\ prev' \in [Node -> Node \union {NULL}]
        /\ actual_node \in 0 .. n'
        /\ Linked'
    BY <1>1, <1>4, InsertKeeps
  <2>3. TypeOK'
    <3>1. recalled' \in BOOLEAN /\ typed' \in BOOLEAN
      BY <1>1, <1>4 DEF TypeOK
    <3>2. Append(shown, NL) \in Seq(Visible)
      BY <1>2, AppendProperties DEF Visible, Byte
    <3>3. shown' \in Seq(Visible)
      BY <1>2, <1>4, <3>2
    <3>4. string' \in [0 .. LINE - 1 -> Byte]
      BY <2>1 DEF Buffer
    <3> QED
      BY <1>1, <1>2, <1>4, <2>2, <3>1, <3>3, <3>4 DEF TypeOK
  <2>5. Echoed' /\ Fresh' /\ OverrunNeedsCause'
    BY <1>4 DEF Echoed, Fresh, OverrunNeedsCause
  <2>6. EchoFaithful'
    <3> SUFFICES ASSUME ~ recalled
                 PROVE  Ends' # {} /\ Text' = shown'
      BY <1>4 DEF EchoFaithful
    <3>1. Len(shown) = index /\ \A k \in 1 .. index : string[k - 1] = shown[k]
      BY <1>1 DEF Echoed
    <3>2. \A k \in 1 .. index : string'[k - 1] = shown[k]
      <4>1. ASSUME NEW k \in 1 .. index
            PROVE  string'[k - 1] = shown[k]
        <5>1. k - 1 \in 0 .. index - 1
          BY <1>2
        <5> QED
          BY <2>1, <3>1, <5>1
      <4> QED
        BY <4>1
    <3>3. \A k \in 0 .. index - 1 : string'[k] # NUL
      <4>1. ASSUME NEW k \in 0 .. index - 1
            PROVE  string'[k] # NUL
        <5>1. k + 1 \in 1 .. index /\ (k + 1) - 1 = k
          BY <1>2
        <5>2. shown[k + 1] \in Visible
          BY <1>2, <3>1, <5>1, ElementOfSeq
        <5>3. shown[k + 1] # NUL
          BY <5>2 DEF Visible
        <5> QED
          BY <3>2, <5>1, <5>3
      <4> QED
        BY <4>1
    <3>4. strlen' >= index
      BY <1>2, <2>1, <3>3
    <3>5. Text' = [k \in 1 .. strlen' |-> string'[k - 1]]
      BY DEF Text
    <3>6. CASE c = NUL
      <4>1. strlen' = index
        BY <1>2, <2>1, <3>4, <3>6
      <4>2. shown' = shown /\ shown = [k \in 1 .. index |-> shown[k]]
        BY <1>2, <1>4, <3>1, <3>6, LenProperties
      <4>3. [k \in 1 .. index |-> string'[k - 1]] = [k \in 1 .. index |-> shown[k]]
        BY <3>2
      <4> QED
        BY <2>1, <3>5, <4>1, <4>2, <4>3
    <3>7. CASE c = NL
      <4>1. strlen' = index + 1
        BY <1>2, <2>1, <3>4, <3>7
      <4>2. shown' = Append(shown, NL)
        BY <1>4, <3>7
      <4>3. /\ shown' \in Seq(Visible) /\ Len(shown') = index + 1
            /\ \A k \in 1 .. index : shown'[k] = shown[k]
            /\ shown'[index + 1] = NL
        <5>1. NL \in Visible
          BY DEF Visible, Byte
        <5> QED
          BY <1>2, <3>1, <4>2, <5>1, AppendProperties
      <4>4. ASSUME NEW k \in 1 .. index + 1
            PROVE  string'[k - 1] = shown'[k]
        <5>1. k \in 1 .. index \/ k = index + 1
          BY <1>2
        <5> QED
          BY <1>2, <2>1, <3>2, <3>7, <4>3, <5>1
      <4>5. shown' = [k \in 1 .. index + 1 |-> shown'[k]]
        BY <4>3, LenProperties
      <4> QED
        BY <2>1, <3>5, <4>1, <4>4, <4>5
    <3> QED
      BY <3>6, <3>7
  <2>7. Entered'
    BY <2>1 DEF Entered
  <2> QED
    BY <2>2, <2>3, <2>5, <2>6, <2>7 DEF IInv
<1> QED
  BY <1>3, <1>4 DEF enter

-----------------------------------------------------------------------------
(* The words.                                                              *)

\* The line that get_tokens finds in the buffer.
LEMMA LineIs ==
    ASSUME IInv, pc = "parse"
    PROVE  /\ string \in Buffer /\ strlen \in 0 .. LINE - 1 /\ string[strlen] = NUL
           /\ \A k \in 0 .. strlen - 1 : string[k] # NUL
           /\ Text \in Seq(Visible) /\ Len(Text) = strlen /\ DOMAIN Text = 1 .. strlen
           /\ \A k \in 1 .. strlen : Text[k] = string[k - 1]
<1>1. string \in Buffer /\ Ends # {}
  BY DEF IInv, TypeOK, Entered, Buffer
<1>2. /\ strlen \in 0 .. LINE - 1 /\ string[strlen] = NUL
      /\ \A k \in 0 .. strlen - 1 : string[k] # NUL
  BY <1>1, EndOf DEF Ends, strlen
<1>3. \A k \in 1 .. strlen : string[k - 1] \in Visible
  <2>1. ASSUME NEW k \in 1 .. strlen
        PROVE  k - 1 \in 0 .. LINE - 1 /\ k - 1 \in 0 .. strlen - 1
    BY <1>2
  <2> QED
    BY <1>1, <1>2, <2>1 DEF Buffer, Visible
<1>4. Text = [k \in 1 .. strlen |-> string[k - 1]]
  BY DEF Text
<1>5. Text \in [1 .. strlen -> Visible] /\ strlen \in Nat
  BY <1>2, <1>3, <1>4
<1>6. Text \in Seq(Visible)
  BY <1>5, SeqDef
<1>7. DOMAIN Text = 1 .. strlen /\ Len(Text) = strlen
  <2>1. DOMAIN Text = 1 .. strlen
    BY <1>4
  <2>2. Len(Text) \in Nat /\ DOMAIN Text = 1 .. Len(Text)
    BY <1>6, LenProperties
  <2> QED
    BY <1>5, <2>1, <2>2
<1> QED
  BY <1>1, <1>2, <1>4, <1>6, <1>7

\* A line without words is left as it is; of the others the first word is left,
\* ended by a NUL, and whatever begins a later word is behind that.
LEMMA WordsOfLine ==
    ASSUME IInv, pc = "parse"
    PROVE  \/ FirstWord = Text /\ Wordless(Text) /\ Starts = {} /\ strtok = string
           \/ \E m \in 1 .. strlen :
                 /\ FirstWord = SubSeq(Text, 1, m) /\ Text[m] \notin Delim
                 /\ \A i, j \in 1 .. m : i < j /\ Text[i] \notin Delim => Text[j] \notin Delim
                 /\ strtok[m] = NUL /\ \A k \in 0 .. m - 1 : strtok[k] = string[k]
                 /\ Starts # {}
                 /\ \A first, second \in Starts : first < second => second > m
<1>1. /\ string \in Buffer /\ strlen \in 0 .. LINE - 1 /\ string[strlen] = NUL
      /\ DOMAIN Text = 1 .. strlen
      /\ \A k \in 1 .. strlen : Text[k] = string[k - 1]
  BY LineIs
<1> DEFINE ends == {k \in 1 .. strlen : /\ Text[k] \notin Delim
                                        /\ k = strlen \/ Text[k + 1] \in Delim}
<1>2. FirstWord = IF ends = {} THEN Text ELSE SubSeq(Text, 1, Min(ends))
  BY DEF FirstWord
<1>3. ASSUME NEW i \in 1 .. strlen, NEW j \in 1 .. strlen, i < j,
             Text[i] \notin Delim, Text[j] \in Delim
      PROVE  \E k \in ends : i <= k /\ k < j
  <2>1. i \in Nat /\ j \in Nat /\ strlen \in Nat
    BY <1>1
  <2>2. PICK k \in i .. j - 1 : Text[k] \notin Delim /\ Text[k + 1] \in Delim
    BY <1>3, <2>1, Boundary
  <2>3. k \in 1 .. strlen /\ i <= k /\ k < j
    BY <2>1, <2>2
  <2> QED
    BY <2>2, <2>3
<1>4. CASE ends = {}
  <2>1. ASSUME NEW k \in 1 .. strlen
        PROVE  Text[k] \in Delim
    <3>1. strlen \in 1 .. strlen /\ k <= strlen
      BY <1>1
    <3>2. Text[strlen] \in Delim
      BY <1>4, <3>1
    <3>3. k = strlen \/ k < strlen
      BY <1>1, <3>1
    <3> HIDE DEF ends
    <3> QED
      BY <1>3, <1>4, <3>1, <3>2, <3>3
  <2>2. Wordless(Text)
    BY <1>1, <2>1 DEF Wordless
  <2>3. ASSUME NEW k \in 0 .. strlen - 1
        PROVE  IsDelim(k)
    <3>1. k + 1 \in 1 .. strlen /\ (k + 1) - 1 = k
      BY <1>1
    <3> QED
      BY <1>1, <2>1, <3>1 DEF IsDelim
  <2>4. Starts = {}
    BY <2>3 DEF Starts
  <2>5. strtok = string
    <3>1. ASSUME NEW k \in DOMAIN string
          PROVE  strtok[k] = string[k]
      <4>1. k \in 1 .. strlen - 1 => k - 1 \in 0 .. strlen - 1
        BY <1>1
      <4> QED
        BY <2>3, <4>1 DEF strtok
    <3>2. DOMAIN strtok = DOMAIN string /\ strtok = [k \in DOMAIN string |-> strtok[k]]
      BY DEF strtok
    <3>3. string = [k \in DOMAIN string |-> string[k]]
      BY <1>1 DEF Buffer
    <3> QED
      BY <3>1, <3>2, <3>3
  <2> QED
    BY <1>2, <1>4, <2>2, <2>4, <2>5
<1>5. CASE ends # {}
  <2> DEFINE m == Min(ends)
  <2>1. ends \subseteq Nat
    BY <1>1
  <2>2. m \in ends /\ \A k \in ends : m <= k
    <3> HIDE DEF ends
    <3> QED
      BY <1>5, <2>1, MinIs
  <2>3. m \in 1 .. strlen /\ Text[m] \notin Delim /\ (m = strlen \/ Text[m + 1] \in Delim)
    BY <2>2
  <2>4. FirstWord = SubSeq(Text, 1, m)
    BY <1>2, <1>5
  <2> HIDE DEF m
  <2>5. ASSUME NEW i \in 1 .. m, NEW j \in 1 .. m, i < j, Text[i] \notin Delim
        PROVE  Text[j] \notin Delim
    <3> SUFFICES ASSUME Text[j] \in Delim
                 PROVE  FALSE
      OBVIOUS
    <3>1. i \in 1 .. strlen /\ j \in 1 .. strlen /\ j <= m
      BY <1>1, <2>3
    <3>2. PICK k \in ends : i <= k /\ k < j
      <4> HIDE DEF ends
      <4> QED
        BY <1>3, <2>5, <3>1
    <3>3. k \in Nat /\ m <= k /\ m \in Nat
      BY <2>1, <2>2, <2>3, <3>2
    <3> HIDE DEF ends
    <3> QED
      BY <3>1, <3>2, <3>3
  <2>6. strtok[m] = NUL
    <3>1. CASE m = strlen
      BY <1>1, <3>1 DEF strtok, Buffer
    <3>2. CASE m # strlen
      <4>1. m \in 1 .. strlen - 1 /\ m \in DOMAIN string
        BY <1>1, <2>3, <3>2 DEF Buffer
      <4>2. m + 1 \in 1 .. strlen /\ (m + 1) - 1 = m
        BY <1>1, <2>3, <4>1
      <4>3. IsDelim(m) /\ ~ IsDelim(m - 1)
        BY <1>1, <2>3, <3>2, <4>2 DEF IsDelim
      <4> QED
        BY <4>1, <4>3 DEF strtok
    <3> QED
      BY <3>1, <3>2
  <2>7. ASSUME NEW k \in 0 .. m - 1
        PROVE  strtok[k] = string[k]
    <3>1. k \in DOMAIN string
      BY <1>1, <2>3 DEF Buffer
    <3>2. ASSUME k \in 1 .. strlen - 1, IsDelim(k), ~ IsDelim(k - 1)
          PROVE  FALSE
      <4>1. k \in 1 .. strlen /\ k + 1 \in 1 .. strlen /\ (k + 1) - 1 = k
        BY <1>1, <3>2
      <4>2. Text[k] \notin Delim /\ Text[k + 1] \in Delim
        BY <1>1, <3>2, <4>1 DEF IsDelim
      <4>3. k \in ends
        BY <4>1, <4>2
      <4>4. m <= k /\ m \in Int
        BY <2>2, <2>3, <4>3
      <4> QED
        BY <4>4
    <3> QED
      BY <3>1, <3>2 DEF strtok
  <2>8. Starts # {}
    <3> DEFINE S == {x \in 1 .. strlen : Text[x] \notin Delim}
    <3>1. S \subseteq Nat /\ m \in S
      BY <1>1, <2>3
    <3>2. PICK x \in S : \A y \in S : x <= y
      <4> HIDE DEF S
      <4> QED
        BY <3>1, LeastNumber
    <3>3. x \in 1 .. strlen /\ Text[x] \notin Delim /\ x - 1 \in 0 .. strlen - 1
      BY <1>1, <3>2
    <3>4. ~ IsDelim(x - 1)
      BY <1>1, <3>3 DEF IsDelim
    <3>5. CASE x - 1 = 0
      BY <3>3, <3>4, <3>5 DEF Starts
    <3>6. CASE x - 1 # 0
      <4>1. x - 1 \in 1 .. strlen /\ ~ (x <= x - 1)
        BY <1>1, <3>3, <3>6
      <4>2. x - 1 \notin S
        BY <3>2, <4>1
      <4>3. Text[x - 1] \in Delim
        BY <4>1, <4>2
      <4>4. IsDelim((x - 1) - 1)
        BY <1>1, <4>1, <4>3 DEF IsDelim
      <4> QED
        BY <3>3, <3>4, <4>4 DEF Starts
    <3> QED
      BY <3>5, <3>6
  <2>9. ASSUME NEW first \in Starts, NEW second \in Starts, first < second
        PROVE  second > m
    <3>1. /\ first \in 0 .. strlen - 1 /\ ~ IsDelim(first)
          /\ second \in 0 .. strlen - 1 /\ ~ IsDelim(second)
          /\ second = 0 \/ IsDelim(second - 1)
      BY <2>9 DEF Starts
    <3>2. /\ first + 1 \in 1 .. strlen /\ second \in 1 .. strlen
          /\ (first + 1) - 1 = first /\ second - 1 # first
      BY <1>1, <2>9, <3>1
    <3>3. Text[first + 1] \notin Delim /\ Text[second] \in Delim
      BY <1>1, <2>9, <3>1, <3>2 DEF IsDelim
    <3>4. first + 1 < second
      <4>1. first + 1 # second
        BY <3>3
      <4> QED
        BY <1>1, <2>9, <3>1, <4>1
    <3>5. PICK k \in ends : k < second
      <4> HIDE DEF ends
      <4> QED
        BY <1>3, <3>2, <3>3, <3>4
    <3>6. m <= k /\ k \in Nat /\ m \in Nat /\ second \in Nat
      BY <2>1, <2>2, <2>3, <3>2, <3>5
    <3> HIDE DEF ends
    <3> QED
      BY <3>5, <3>6
  <2> QED
    BY <2>3, <2>4, <2>5, <2>6, <2>7, <2>8, <2>9
<1> QED
  BY <1>4, <1>5

\* A command that moves its first argument leaves what is before it alone.
LEMMA ShiftedKeeps ==
    ASSUME NEW b \in Buffer, NEW from \in 0 .. LINE - 1, NEW e \in from .. LINE - 1, b[e] = NUL
    PROVE  /\ shifted(b, from) \in Buffer
           /\ \A k \in 0 .. from - 1 : shifted(b, from)[k] = b[k]
<1> DEFINE S == {k \in DOMAIN b : k >= from /\ b[k] = NUL}
           end == Min(S)
<1>1. S \subseteq Nat /\ e \in S
  BY DEF Buffer
<1>2. end \in S
  <2> HIDE DEF S
  <2> QED
    BY <1>1, MinIs
<1>3. end \in from .. LINE - 1
  <2> HIDE DEF end
  <2> QED
    BY <1>2 DEF Buffer
<1>4. shifted(b, from) = [k \in DOMAIN b |-> IF k \in from .. end - 1 THEN b[k + 1] ELSE b[k]]
  BY DEF shifted
<1> HIDE DEF end
<1>5. ASSUME NEW k \in 0 .. LINE - 1
      PROVE  (IF k \in from .. end - 1 THEN b[k + 1] ELSE b[k]) \in Byte
  <2>1. k \in from .. end - 1 => k + 1 \in 0 .. LINE - 1
    BY <1>3
  <2> QED
    BY <2>1 DEF Buffer
<1>6. shifted(b, from) \in Buffer
  BY <1>4, <1>5 DEF Buffer
<1>7. ASSUME NEW k \in 0 .. from - 1
      PROVE  shifted(b, from)[k] = b[k]
  <2>1. k \in DOMAIN b /\ k \notin from .. end - 1
    BY <1>3 DEF Buffer
  <2> QED
    BY <1>4, <2>1
<1> QED
  BY <1>6, <1>7

\* What the next line starts from: the first word, in whichever way the buffer
\* came to hold it.
LEMMA FirstWordLeft ==
    ASSUME IInv, pc = "parse",
           string' = strtok \/ \E first, second \in Starts :
                                 first < second /\ string' = shifted(strtok, second)
    PROVE  /\ string' \in Buffer /\ Ends' # {} /\ Text' = FirstWord
           /\ FirstWord \in Seq(Visible)
<1>1. /\ string \in Buffer /\ strlen \in 0 .. LINE - 1 /\ string[strlen] = NUL
      /\ \A k \in 0 .. strlen - 1 : string[k] # NUL
      /\ Text \in Seq(Visible) /\ Len(Text) = strlen /\ DOMAIN Text = 1 .. strlen
      /\ \A k \in 1 .. strlen : Text[k] = string[k - 1]
  BY LineIs
<1>2. strtok \in Buffer /\ strtok[strlen] = NUL
  BY <1>1 DEF strtok, Buffer, Byte
<1>3. Ends' = {k \in DOMAIN string' : string'[k] = NUL}
  BY DEF Ends
<1>4. CASE FirstWord = Text /\ Wordless(Text) /\ Starts = {} /\ strtok = string
  <2>1. string' = string
    BY <1>4
  <2>2. Ends' = Ends /\ Text' = Text
    BY <2>1 DEF Ends, strlen, Text
  <2>3. Ends # {}
    BY DEF IInv, Entered
  <2> QED
    BY <1>1, <1>4, <2>1, <2>2, <2>3
<1>5. ASSUME NEW m \in 1 .. strlen,
             FirstWord = SubSeq(Text, 1, m), Text[m] \notin Delim,
             \A i, j \in 1 .. m : i < j /\ Text[i] \notin Delim => Text[j] \notin Delim,
             strtok[m] = NUL, \A k \in 0 .. m - 1 : strtok[k] = string[k],
             Starts # {},
             \A first, second \in Starts : first < second => second > m
      PROVE  /\ string' \in Buffer /\ Ends' # {} /\ Text' = FirstWord
             /\ FirstWord \in Seq(Visible)
  <2>1. string' \in Buffer /\ \A k \in 0 .. m : string'[k] = strtok[k]
    <3>1. CASE string' = strtok
      BY <1>2, <3>1
    <3>2. CASE \E first, second \in Starts : first < second /\ string' = shifted(strtok, second)
      <4>1. PICK first \in Starts, second \in Starts :
                    first < second /\ string' = shifted(strtok, second)
        BY <3>2
      <4>2. second > m /\ second \in 0 .. strlen - 1
        BY <1>5, <4>1 DEF Starts
      <4>3. second \in 0 .. LINE - 1 /\ strlen \in second .. LINE - 1
        BY <1>1, <4>2
      <4>4. /\ shifted(strtok, second) \in Buffer
            /\ \A k \in 0 .. second - 1 : shifted(strtok, second)[k] = strtok[k]
        BY <1>2, <4>3, ShiftedKeeps
      <4>5. \A k \in 0 .. m : k \in 0 .. second - 1
        BY <1>1, <4>2
      <4> QED
        BY <4>1, <4>4, <4>5
    <3> QED
      BY <3>1, <3>2
  <2>2. m \in 0 .. LINE - 1 /\ m \in Nat
    BY <1>1
  <2>3. string'[m] = NUL /\ \A k \in 0 .. m - 1 : string'[k] = string[k]
    <3>1. m \in 0 .. m /\ \A k \in 0 .. m - 1 : k \in 0 .. m
      BY <2>2
    <3> QED
      BY <1>5, <2>1, <3>1
  <2>4. \A k \in 0 .. m - 1 : string'[k] # NUL
    <3>1. \A k \in 0 .. m - 1 : k \in 0 .. strlen - 1
      BY <1>1
    <3> QED
      BY <1>1, <2>3, <3>1
  <2>5. Ends' # {} /\ Min(Ends') = m
    BY <1>3, <2>1, <2>2, <2>3, <2>4, EndIs
  <2>6. strlen' = m
    BY <2>5 DEF strlen
  <2>7. \A k \in 1 .. m : k \in 1 .. strlen /\ k - 1 \in 0 .. m - 1 /\ 1 + k - 1 = k
    BY <1>1
  <2>8. \A k \in 1 .. m : Text[k] \in Visible
    BY <1>1, <2>7, ElementOfSeq
  <2>9. /\ FirstWord \in Seq(Visible) /\ Len(FirstWord) = m
        /\ \A k \in 1 .. m : FirstWord[k] = Text[k]
    <3>1. /\ SubSeq(Text, 1, m) \in Seq(Visible)
          /\ Len(SubSeq(Text, 1, m)) = IF 1 <= m THEN m - 1 + 1 ELSE 0
          /\ \A k \in 1 .. m - 1 + 1 : SubSeq(Text, 1, m)[k] = Text[1 + k - 1]
      BY <2>2, <2>8, SubSeqProperties
    <3>2. 1 <= m /\ m - 1 + 1 = m
      BY <2>2
    <3> QED
      BY <1>5, <2>7, <3>1, <3>2
  <2>10. Text' = FirstWord
    <3>1. Text' = [k \in 1 .. m |-> string'[k - 1]]
      BY <2>6 DEF Text
    <3>2. FirstWord = [k \in 1 .. m |-> FirstWord[k]]
      BY <2>9, LenProperties
    <3>3. ASSUME NEW k \in 1 .. m
          PROVE  string'[k - 1] = FirstWord[k]
      BY <1>1, <2>3, <2>7, <2>9
    <3> QED
      BY <3>1, <3>2, <3>3
  <2> QED
    BY <2>1, <2>5, <2>9, <2>10
<1> QED
  BY <1>4, <1>5, WordsOfLine

\* What it takes for the words of a line not to fit into cmd.
LEMMA TooManyWords ==
    ASSUME IInv, pc = "parse", Cardinality(Starts) >= ARGS
    PROVE  Cause
<1>1. /\ string \in Buffer /\ strlen \in 0 .. LINE - 1 /\ DOMAIN Text = 1 .. strlen
      /\ \A k \in 1 .. strlen : Text[k] = string[k - 1]
  BY LineIs
<1>2. IsFiniteSet(Starts) /\ Cardinality(Starts) \in Nat
  <2>1. Starts \in SUBSET (0 .. strlen - 1) /\ 0 \in Int /\ strlen - 1 \in Int
    BY <1>1 DEF Starts
  <2>2. IsFiniteSet(0 .. strlen - 1)
    BY <2>1, FS_Interval
  <2> QED
    BY <2>1, <2>2, FS_Subset, FS_CardinalityType
<1>3. CASE ~ recalled
  <2> DEFINE S == Words(shown)
             f == [k \in Starts |-> k + 1]
  <2>1. Text = shown
    BY <1>3 DEF IInv, EchoFaithful
  <2>2. IsFiniteSet(S) /\ Cardinality(S) \in Nat
    <3>1. S \in SUBSET (1 .. strlen) /\ strlen \in Int /\ 1 \in Int
      BY <1>1, <2>1 DEF Words
    <3>2. IsFiniteSet(1 .. strlen)
      BY <3>1, FS_Interval
    <3> HIDE DEF S
    <3> QED
      BY <3>1, <3>2, FS_Subset, FS_CardinalityType
  <2>3. ASSUME NEW k \in Starts
        PROVE  k \in Int /\ k + 1 \in S
    <3>1. k \in 0 .. strlen - 1 /\ ~ IsDelim(k) /\ (k = 0 \/ IsDelim(k - 1))
      BY DEF Starts
    <3>2. k + 1 \in 1 .. strlen /\ (k + 1) - 1 = k /\ (k # 0 => k \in 1 .. strlen) /\ k \in Int
      BY <1>1, <3>1
    <3>3. /\ k + 1 \in DOMAIN shown /\ shown[k + 1] \notin Delim
          /\ k + 1 = 1 \/ shown[(k + 1) - 1] \in Delim
      BY <1>1, <2>1, <3>1, <3>2 DEF IsDelim
    <3> QED
      BY <3>2, <3>3 DEF Words
  <2>4. f \in Injection(Starts, S)
    <3> HIDE DEF S
    <3>1. f \in [Starts -> S]
      BY <2>3
    <3>2. \A i, j \in Starts : f[i] = f[j] => i = j
      BY <2>3
    <3> QED
      BY <3>1, <3>2 DEF Injection, IsInjective
  <2>5. Cardinality(Starts) <= Cardinality(S)
    <3> HIDE DEF S, f
    <3> QED
      BY <2>2, <2>4, FS_Injection
  <2>6. Cardinality(S) >= ARGS
    <3> HIDE DEF S
    <3> QED
      BY <1>2, <2>2, <2>5
  <2> QED
    BY <2>6 DEF Cause
<1> QED
  BY <1>3 DEF Cause

LEMMA ParseStep ==
    ASSUME IInv, parse
    PROVE  IInv'
<1>1. TypeOK /\ pc = "parse"
  BY DEF IInv, parse
<1>2. CASE Cardinality(Starts) >= ARGS /\ Overrun
  BY <1>1, <1>2, TooManyWords, OverrunStep
<1>3. CASE /\ Cardinality(Starts) < ARGS
           /\ \/ string' = strtok
              \/ \E first, second \in Starts :
                    /\ first < second
                    /\ \A k \in Starts : k <= first \/ k >= second
                    /\ \A k \in Starts : k >= first
                    /\ string' = shifted(strtok, second)
           /\ name' = FirstWord
           /\ pc' = "input"
           /\ NewLine
           /\ UNCHANGED <<links, actual_node>>
  <2>1. string' = strtok \/ \E first, second \in Starts :
                                first < second /\ string' = shifted(strtok, second)
    BY <1>3
  <2>2. /\ string' \in Buffer /\ Ends' # {} /\ Text' = name'
        /\ name' \in Seq(Visible)
    BY <1>1, <1>3, <2>1, FirstWordLeft
  <2>3. /\ index' = 0 /\ shown' = <<>> /\ recalled' = FALSE /\ typed' = FALSE
        /\ UNCHANGED <<n, next, prev, actual_node>>
    BY <1>3 DEF NewLine, links
  <2>4. TypeOK'
    <3>1. recalled' \in BOOLEAN /\ typed' \in BOOLEAN
      BY <2>3
    <3>2. shown' \in Seq(Visible)
      BY <2>3, EmptySeq
    <3>3. index' \in 0 .. LINE /\ string' \in [0 .. LINE - 1 -> Byte]
      BY <2>2, <2>3 DEF Buffer
    <3> QED
      BY <1>1, <1>3, <2>2, <2>3, <3>1, <3>2, <3>3 DEF TypeOK
  <2>5. Linked'
    BY <2>3 DEF IInv, Linked
  <2>6. Echoed'
    <3>1. Len(shown') = 0
      BY <2>3, EmptySeq
    <3> QED
      BY <2>3, <3>1 DEF Echoed
  <2>7. Fresh' /\ Entered' /\ EchoFaithful' /\ OverrunNeedsCause'
    BY <1>3, <2>2, <2>3 DEF Fresh, Entered, EchoFaithful, OverrunNeedsCause
  <2> QED
    BY <2>4, <2>5, <2>6, <2>7 DEF IInv
<1> QED
  BY <1>2, <1>3 DEF parse

-----------------------------------------------------------------------------
(* The theorems.                                                           *)

LEMMA NextKeepsInv ==
    ASSUME IInv, [Next]_vars
    PROVE  IInv'
<1>1. CASE \E c \in Char \union {Blank} : key(c)
  BY <1>1, KeyStep
<1>2. CASE \E c \in {NL, NUL} : enter(c)
  BY <1>2, EnterStep
<1>3. CASE backspace
  BY <1>3, BackspaceStep
<1>4. CASE up
  BY <1>4, UpStep
<1>5. CASE down
  BY <1>5, DownStep
<1>6. CASE parse
  BY <1>6, ParseStep
<1>7. CASE UNCHANGED vars
  <2>1. UNCHANGED <<string, index, n, next, prev, actual_node, pc, shown, recalled, typed, name>>
    BY <1>7 DEF vars, links, ghosts
  <2>2. Linked'
    BY <2>1, LineKept DEF links
  <2>3. Ends' = Ends /\ strlen' = strlen /\ Text' = Text /\ Starts' = Starts
        /\ IsDelim(strlen - 1)' = IsDelim(strlen - 1)
    BY <2>1 DEF Ends, strlen, Text, Starts, IsDelim
  <2>4. TypeOK' /\ Echoed'
    BY <2>1 DEF IInv, TypeOK, Echoed
  <2>5. Fresh' /\ Entered' /\ EchoFaithful' /\ OverrunNeedsCause'
    BY <2>1, <2>3 DEF IInv, Fresh, Entered, EchoFaithful, OverrunNeedsCause, Words
  <2> QED
    BY <2>2, <2>4, <2>5 DEF IInv
<1> QED
  BY <1>1, <1>2, <1>3, <1>4, <1>5, <1>6, <1>7 DEF Next

LEMMA InvCorrect == Spec => []IInv
<1>1. IInv /\ [Next]_vars => IInv'
  BY NextKeepsInv
<1> QED
  BY <1>1, InitHolds, PTL DEF Spec

\* The editor stays in its buffer and the history among its nodes, whatever is
\* typed and however long it is (input, insert_after).
THEOREM CommandLineTypeCorrect == Spec => []TypeOK
<1>1. IInv => TypeOK
  BY DEF IInv
<1> QED
  BY <1>1, InvCorrect, PTL

\* For every buffer: the line that is executed is the one the user has put together,
\* whatever was deleted from it or is left of earlier lines (input).
THEOREM LinesAreEchoed == Spec => []EchoFaithful
<1>1. IInv => EchoFaithful
  BY DEF IInv
<1> QED
  BY <1>1, InvCorrect, PTL

\* For every size of the buffer and of cmd: what runs over them is a line that is
\* itself too long or has too many words, or comes after UP or DOWN behind other
\* keys (input, get_tokens).
THEOREM OverrunsAreCaused == Spec => []OverrunNeedsCause
<1>1. IInv => OverrunNeedsCause
  BY DEF IInv
<1> QED
  BY <1>1, InvCorrect, PTL

\* For every line: as long as no other key is used, UP brings back the last command
\* up to the end of its first word (get_tokens, print_type, input).
THEOREM UpBringsBackName == Spec => RecallsName
<1>1. ASSUME IInv, up, pc' = "input", n > 0, ~ typed
      PROVE  Text' = name /\ index' = Len(name)
  <2> DEFINE node == IF next[actual_node] # NULL THEN next[actual_node] ELSE actual_node
  <2>1. /\ actual_node \in 0 .. n /\ n \in Nat
        /\ next[actual_node] \in 1 .. n \union {NULL} /\ next[0] # NULL
    BY <1>1 DEF IInv, TypeOK, Linked, Node
  <2>2. node # 0
    BY <2>1
  <2>3. pc = "input" /\ move(node)
    BY <1>1 DEF up
  <2> HIDE DEF node
  <2>4. UNCHANGED string /\ index' = strlen
    BY <1>1, <2>2, <2>3 DEF move, recall, Overrun
  <2>5. Ends # {} /\ Text = name /\ string \in Buffer /\ name \in Seq(Visible)
    BY <1>1, <2>1, <2>3 DEF IInv, Fresh, TypeOK, Buffer
  <2>6. strlen \in 0 .. LINE - 1
    BY <2>5, EndOf DEF Ends, strlen
  <2>7. Len(name) = strlen
    <3>1. DOMAIN name = 1 .. strlen
      BY <2>5 DEF Text
    <3> QED
      BY <2>5, <2>6, <3>1, LenProperties
  <2>8. Text' = Text
    BY <2>4 DEF Text, strlen, Ends
  <2> QED
    BY <2>4, <2>5, <2>7, <2>8
<1>2. IInv /\ [Next]_vars =>
        [up /\ pc' = "input" /\ n > 0 /\ ~ typed
            => Text' = name /\ index' = Len(name)]_vars
  BY <1>1
<1> QED
  BY <1>2, InvCorrect, PTL DEF Spec, RecallsName

-----------------------------------------------------------------------------
(* The list is a history.                                                  *)

\* f is the order of the nodes, and the links agree with it both ways.
Order(f) ==
    /\ f \in [1 .. n + 1 -> 0 .. n]
    /\ f[1] = 0
    /\ \A k \in 1 .. n : next[f[k]] = f[k + 1] /\ prev[f[k + 1]] = f[k]
    /\ next[f[n + 1]] = NULL /\ prev[0] = NULL
    /\ \A j, k \in 1 .. n + 1 : f[j] = f[k] => j = k
    /\ \A i \in 0 .. n : \E k \in 1 .. n + 1 : f[k] = i

HInv == IInv /\ Order(Chain)

\* f follows the links nx through m + 1 nodes.
Follows(f, m, nx) ==
    /\ f \in [1 .. m + 1 -> 0 .. m]
    /\ f[1] = 0
    /\ \A k \in 1 .. m : nx[f[k]] = f[k + 1]

\* There is one order: two would part at some node, but its link leads to one.
LEMMA OneOrder ==
    ASSUME NEW m \in Nat, NEW nx, NEW f, Follows(f, m, nx), NEW g, Follows(g, m, nx)
    PROVE  f = g
<1>0. /\ f \in [1 .. m + 1 -> 0 .. m] /\ f[1] = 0 /\ \A k \in 1 .. m : nx[f[k]] = f[k + 1]
      /\ g \in [1 .. m + 1 -> 0 .. m] /\ g[1] = 0 /\ \A k \in 1 .. m : nx[g[k]] = g[k + 1]
  BY DEF Follows
<1> DEFINE S == {k \in 1 .. m + 1 : f[k] # g[k]}
<1>1. ASSUME S # {}
      PROVE  FALSE
  <2>1. S \subseteq Nat
    OBVIOUS
  <2>2. PICK k \in S : \A x \in S : k <= x
    <3> HIDE DEF S
    <3> QED
      BY <1>1, <2>1, LeastNumber
  <2>3. k \in 1 .. m + 1 /\ f[k] # g[k] /\ k # 1
    BY <1>0, <2>2
  <2>4. k - 1 \in 1 .. m /\ (k - 1) + 1 = k /\ k - 1 \in 1 .. m + 1 /\ ~ (k <= k - 1)
    BY <2>3
  <2>5. f[k - 1] = g[k - 1]
    BY <2>2, <2>4
  <2> QED
    BY <1>0, <2>3, <2>4, <2>5
<1>2. \A k \in 1 .. m + 1 : f[k] = g[k]
  BY <1>1
<1> QED
  BY <1>0, <1>2

LEMMA ChainIs ==
    ASSUME n \in Nat, NEW f, Order(f)
    PROVE  Chain = f
<1>1. Follows(f, n, next)
  BY DEF Order, Follows
<1>2. Follows(Chain, n, next)
  BY <1>1 DEF Chain, Follows
<1> QED
  BY <1>1, <1>2, OneOrder

LEMMA ChainIsNext ==
    ASSUME n' \in Nat, NEW f, Follows(f, n', next')
    PROVE  Chain' = f
<1>1. Follows(Chain', n', next')
  BY DEF Chain, Follows
<1> QED
  BY <1>1, OneOrder

\* Where the user is.
LEMMA CursorIs ==
    ASSUME HInv
    PROVE  /\ n \in Nat /\ actual_node \in 0 .. n
           /\ Cursor \in 1 .. n + 1 /\ Chain[Cursor] = actual_node
           /\ \A k \in 1 .. n + 1 : Chain[k] = actual_node => k = Cursor
<1>1. n \in Nat /\ actual_node \in 0 .. n
  BY DEF HInv, IInv, TypeOK, Node
<1>2. /\ \A i \in 0 .. n : \E k \in 1 .. n + 1 : Chain[k] = i
      /\ \A j, k \in 1 .. n + 1 : Chain[j] = Chain[k] => j = k
  BY DEF HInv, Order
<1>3. \E k \in 1 .. n + 1 : Chain[k] = actual_node
  BY <1>1, <1>2
<1>4. Cursor \in 1 .. n + 1 /\ Chain[Cursor] = actual_node
  BY <1>3 DEF Cursor
<1> QED
  BY <1>1, <1>2, <1>4

\* A sequence with an element put in behind the first c.
Inserted(s, c, e) ==
    [k \in 1 .. Len(s) + 1 |-> IF k <= c THEN s[k] ELSE IF k = c + 1 THEN e ELSE s[k - 1]]

LEMMA InsertAtIs ==
    ASSUME NEW S, NEW s \in Seq(S), NEW c \in 1 .. Len(s), NEW e \in S
    PROVE  SubSeq(s, 1, (c + 1) - 1) \o <<e>> \o SubSeq(s, c + 1, Len(s)) = Inserted(s, c, e)
<1> DEFINE a == SubSeq(s, 1, c)
           b == SubSeq(s, c + 1, Len(s))
           t == (a \o <<e>>) \o b
<1>1. Len(s) \in Nat /\ c \in Nat /\ (c + 1) - 1 = c /\ c + 1 \in Int /\ Len(s) \in Int
  BY LenProperties
<1>2. \A k \in 1 .. Len(s) : s[k] \in S
  BY ElementOfSeq
<1>3. (\A k \in 1 .. c : s[k] \in S) /\ (\A k \in c + 1 .. Len(s) : s[k] \in S)
  BY <1>1, <1>2
<1>4. /\ a \in Seq(S)
      /\ Len(a) = IF 1 <= c THEN c - 1 + 1 ELSE 0
      /\ \A k \in 1 .. c - 1 + 1 : a[k] = s[1 + k - 1]
  BY <1>1, <1>3, SubSeqProperties
<1>5. /\ b \in Seq(S)
      /\ Len(b) = IF c + 1 <= Len(s) THEN Len(s) - (c + 1) + 1 ELSE 0
      /\ \A k \in 1 .. Len(s) - (c + 1) + 1 : b[k] = s[c + 1 + k - 1]
  BY <1>1, <1>3, SubSeqProperties
<1>6. <<e>> \in Seq(S) /\ Len(<<e>>) = 1 /\ <<e>>[1] = e
  OBVIOUS
<1> HIDE DEF a, b
<1>7. /\ Len(a) = c /\ Len(b) = Len(s) - c
      /\ \A k \in 1 .. c : a[k] = s[k]
      /\ \A k \in 1 .. Len(s) - c : b[k] = s[c + k]
  <2>1. Len(a) = c /\ c - 1 + 1 = c
    BY <1>1, <1>4
  <2>2. Len(b) = Len(s) - c /\ Len(s) - (c + 1) + 1 = Len(s) - c
    BY <1>1, <1>5
  <2>3. ASSUME NEW k \in 1 .. c
        PROVE  a[k] = s[k]
    <3>1. k \in 1 .. c - 1 + 1 /\ 1 + k - 1 = k
      BY <2>1
    <3> QED
      BY <1>4, <3>1
  <2>4. ASSUME NEW k \in 1 .. Len(s) - c
        PROVE  b[k] = s[c + k]
    <3>1. k \in 1 .. Len(s) - (c + 1) + 1 /\ c + 1 + k - 1 = c + k
      BY <1>1, <2>2
    <3> QED
      BY <1>5, <3>1
  <2> QED
    BY <2>1, <2>2, <2>3, <2>4
<1>8. /\ a \o <<e>> \in Seq(S)
      /\ Len(a \o <<e>>) = c + 1
      /\ \A k \in 1 .. c + 1 : (a \o <<e>>)[k] = IF k <= c THEN s[k] ELSE e
  <2>1. /\ a \o <<e>> \in Seq(S)
        /\ Len(a \o <<e>>) = Len(a) + Len(<<e>>)
        /\ \A k \in 1 .. Len(a) + Len(<<e>>) :
              (a \o <<e>>)[k] = IF k <= Len(a) THEN a[k] ELSE <<e>>[k - Len(a)]
    BY <1>4, <1>6, ConcatProperties
  <2>2. \A k \in 1 .. c + 1 : k \in 1 .. c \/ (~ (k <= c) /\ k - c = 1)
    BY <1>1
  <2> QED
    BY <1>1, <1>6, <1>7, <2>1, <2>2
<1>9. /\ t \in Seq(S) /\ Len(t) = Len(s) + 1
      /\ \A k \in 1 .. Len(s) + 1 : t[k] = IF k <= c + 1 THEN (a \o <<e>>)[k] ELSE b[k - (c + 1)]
  <2> DEFINE d == a \o <<e>>
  <2> HIDE DEF d
  <2>1. d \in Seq(S) /\ Len(d) = c + 1
    BY <1>8 DEF d
  <2>2. /\ d \o b \in Seq(S)
        /\ Len(d \o b) = Len(d) + Len(b)
        /\ \A k \in 1 .. Len(d) + Len(b) :
              (d \o b)[k] = IF k <= Len(d) THEN d[k] ELSE b[k - Len(d)]
    BY <1>5, <2>1, ConcatProperties, ZenonT(30)
  <2>3. Len(d) + Len(b) = Len(s) + 1
    BY <1>1, <1>7, <2>1
  <2> QED
    BY <2>1, <2>2, <2>3 DEF d
<1>10. ASSUME NEW k \in 1 .. Len(s) + 1
       PROVE  t[k] = IF k <= c THEN s[k] ELSE IF k = c + 1 THEN e ELSE s[k - 1]
  <2> HIDE DEF t
  <2>1. CASE k <= c + 1
    <3>1. k \in 1 .. c + 1 /\ (k <= c \/ k = c + 1) /\ (k = c + 1 => ~ (k <= c))
      BY <1>1, <2>1
    <3>2. t[k] = (a \o <<e>>)[k]
      BY <1>9, <2>1
    <3>3. (a \o <<e>>)[k] = IF k <= c THEN s[k] ELSE e
      BY <1>8, <3>1
    <3> QED
      BY <3>1, <3>2, <3>3
  <2>2. CASE ~ (k <= c + 1)
    <3>1. k - (c + 1) \in 1 .. Len(s) - c /\ c + (k - (c + 1)) = k - 1 /\ ~ (k <= c) /\ k # c + 1
      BY <1>1, <2>2
    <3> QED
      BY <1>7, <1>9, <2>2, <3>1
  <2> QED
    BY <2>1, <2>2
<1>11. t = [k \in 1 .. Len(s) + 1 |-> t[k]]
  <2> HIDE DEF t
  <2> QED
    BY <1>9, LenProperties
<1>12. t = Inserted(s, c, e)
  <2> HIDE DEF t
  <2> QED
    BY <1>10, <1>11 DEF Inserted
<1> QED
  BY <1>1, <1>12 DEF a, b

LEMMA ChainType ==
    ASSUME HInv
    PROVE  Chain \in Seq(Node) /\ Len(Chain) = n + 1 /\ Chain \in [1 .. n + 1 -> 0 .. n]
<1>1. n \in Nat /\ n \in 0 .. MaxLines /\ Chain \in [1 .. n + 1 -> 0 .. n]
  BY DEF HInv, IInv, TypeOK, Node, Order
<1>2. \A i \in 0 .. n : i \in Node
  BY <1>1 DEF Node
<1>3. Chain \in [1 .. n + 1 -> Node] /\ n + 1 \in Nat
  BY <1>1, <1>2
<1>4. Chain \in Seq(Node)
  BY <1>3, SeqDef
<1>5. Len(Chain) \in Nat /\ DOMAIN Chain = 1 .. Len(Chain) /\ DOMAIN Chain = 1 .. n + 1
  BY <1>1, <1>4, LenProperties
<1> QED
  BY <1>1, <1>3, <1>4, <1>5

\* The new node comes behind the cursor in the order, and the links agree.
LEMMA InsertOrders ==
    ASSUME HInv, n < MaxLines, insert_after
    PROVE  /\ n' = n + 1
           /\ Chain' = Inserted(Chain, Cursor, n + 1)
           /\ Order(Chain)'
<1> DEFINE f == Chain
           c == Cursor
           after == next[actual_node]
           h == Inserted(Chain, Cursor, n + 1)
<1>1. n \in Nat /\ actual_node \in 0 .. n /\ c \in 1 .. n + 1 /\ f[c] = actual_node
      /\ \A k \in 1 .. n + 1 : f[k] = actual_node => k = c
  BY CursorIs
<1>2. /\ f \in [1 .. n + 1 -> 0 .. n] /\ f[1] = 0
      /\ \A k \in 1 .. n : next[f[k]] = f[k + 1] /\ prev[f[k + 1]] = f[k]
      /\ next[f[n + 1]] = NULL /\ prev[0] = NULL
      /\ \A j, k \in 1 .. n + 1 : f[j] = f[k] => j = k
      /\ \A i \in 0 .. n : \E k \in 1 .. n + 1 : f[k] = i
  BY DEF HInv, Order
<1>3. /\ n' = n + 1 /\ n + 1 \in Node /\ \A i \in 0 .. n : i \in Node /\ i # n + 1
      /\ next \in [Node -> Node \union {NULL}]
  BY <1>1 DEF HInv, IInv, TypeOK, insert_after, Node
<1>4. /\ next' = [next EXCEPT ![n + 1] = after, ![actual_node] = n + 1]
      /\ prev' = [i \in Node |-> CASE i = n + 1 -> actual_node
                                     [] i = after -> n + 1
                                     [] OTHER     -> prev[i]]
  BY DEF insert_after
<1>5. Len(f) = n + 1
  BY ChainType
<1>6. h = [k \in 1 .. n + 2 |-> IF k <= c THEN f[k] ELSE IF k = c + 1 THEN n + 1 ELSE f[k - 1]]
  <2>1. (n + 1) + 1 = n + 2
    BY <1>1
  <2> QED
    BY <1>5, <2>1 DEF Inserted
<1>7. /\ c <= n => after = f[c + 1] /\ c + 1 \in 1 .. n + 1
      /\ c = n + 1 => after = NULL
  <2> HIDE DEF f, c
  <2>1. ASSUME c <= n
        PROVE  after = f[c + 1] /\ c + 1 \in 1 .. n + 1
    <3>1. c \in 1 .. n /\ c + 1 \in 1 .. n + 1
      BY <1>1, <2>1
    <3>2. next[f[c]] = f[c + 1]
      BY <1>2, <3>1
    <3> QED
      BY <1>1, <3>1, <3>2
  <2>2. ASSUME c = n + 1
        PROVE  after = NULL
    BY <1>1, <1>2, <2>2
  <2> QED
    BY <2>1, <2>2
<1> HIDE DEF f, c, after, h
\* What the links of one node become.
<1>8. /\ next'[n + 1] = after /\ next'[actual_node] = n + 1
      /\ \A i \in 0 .. n : i # actual_node => next'[i] = next[i]
  BY <1>1, <1>3, <1>4
<1>9. ASSUME NEW i \in 0 .. n, i # after
      PROVE  prev'[i] = prev[i]
  <2>1. i \in Node /\ i # n + 1
    BY <1>3
  <2>2. prev'[i] = CASE i = n + 1 -> actual_node
                     [] i = after -> n + 1
                     [] OTHER     -> prev[i]
    BY <1>4, <2>1
  <2> QED
    BY <1>9, <2>1, <2>2
<1>10. prev'[n + 1] = actual_node
  <2>1. after # n + 1
    <3>1. c <= n \/ c = n + 1
      BY <1>1
    <3>2. CASE c <= n
      BY <1>2, <1>3, <1>7, <3>2
    <3>3. CASE c = n + 1
      BY <1>1, <1>7, <3>3 DEF NULL
    <3> QED
      BY <3>1, <3>2, <3>3
  <2>2. prev'[n + 1] = CASE n + 1 = n + 1 -> actual_node
                         [] n + 1 = after -> n + 1
                         [] OTHER         -> prev[n + 1]
    BY <1>3, <1>4
  <2> QED
    BY <2>1, <2>2
<1>11. c <= n => prev'[after] = n + 1
  <2> SUFFICES ASSUME c <= n
               PROVE  prev'[after] = n + 1
    OBVIOUS
  <2>1. after \in 0 .. n /\ after \in Node /\ after # n + 1
    BY <1>2, <1>3, <1>7
  <2>2. prev'[after] = CASE after = n + 1 -> actual_node
                         [] after = after -> n + 1
                         [] OTHER         -> prev[after]
    BY <1>4, <2>1
  <2> QED
    BY <2>1, <2>2
\* What is in the order.
<1>12. /\ \A k \in 1 .. n + 2 : k <= c => h[k] = f[k] /\ k \in 1 .. n + 1
       /\ h[c + 1] = n + 1 /\ c + 1 \in 1 .. n + 2
       /\ \A k \in 1 .. n + 2 : k > c + 1 => h[k] = f[k - 1] /\ k - 1 \in 1 .. n + 1 /\ k - 1 > c
  <2>1. ASSUME NEW k \in 1 .. n + 2, k <= c
        PROVE  h[k] = f[k] /\ k \in 1 .. n + 1
    BY <1>1, <1>6, <2>1
  <2>2. c + 1 \in 1 .. n + 2 /\ ~ (c + 1 <= c)
    BY <1>1
  <2>3. h[c + 1] = n + 1
    BY <1>6, <2>2
  <2>4. ASSUME NEW k \in 1 .. n + 2, k > c + 1
        PROVE  h[k] = f[k - 1] /\ k - 1 \in 1 .. n + 1 /\ k - 1 > c
    <3>1. ~ (k <= c) /\ k # c + 1 /\ k - 1 \in 1 .. n + 1 /\ k - 1 > c
      BY <1>1, <2>4
    <3> QED
      BY <1>6, <3>1
  <2> QED
    BY <2>1, <2>2, <2>3, <2>4
<1>13. ASSUME NEW k \in 1 .. n + 2
       PROVE  k <= c \/ k = c + 1 \/ k > c + 1
  BY <1>1
<1>14. h \in [1 .. n + 2 -> 0 .. n + 1] /\ h[1] = 0
  <2>1. ASSUME NEW k \in 1 .. n + 2
        PROVE  h[k] \in 0 .. n + 1
    <3>1. \A i \in 0 .. n : i \in 0 .. n + 1
      BY <1>1
    <3>2. n + 1 \in 0 .. n + 1
      BY <1>1
    <3>3. CASE k <= c
      BY <1>2, <1>12, <3>1, <3>3
    <3>4. CASE k = c + 1
      BY <1>12, <3>2, <3>4
    <3>5. CASE k > c + 1
      BY <1>2, <1>12, <3>1, <3>5
    <3> QED
      BY <1>13, <3>3, <3>4, <3>5
  <2>2. 1 \in 1 .. n + 2 /\ 1 <= c
    BY <1>1
  <2>3. h[1] = 0
    BY <1>2, <1>12, <2>2
  <2> QED
    BY <1>6, <2>1, <2>3
<1>15. ASSUME NEW k \in 1 .. n + 1
       PROVE  next'[h[k]] = h[k + 1] /\ prev'[h[k + 1]] = h[k]
  <2>1. k \in 1 .. n + 2 /\ k + 1 \in 1 .. n + 2 /\ (k < c \/ k = c \/ k = c + 1 \/ k > c + 1)
    BY <1>1
  <2>2. CASE k < c
    <3>1. k <= c /\ k + 1 <= c /\ k \in 1 .. n /\ k + 1 \in 1 .. n + 1 /\ k # c /\ k + 1 # c + 1
      BY <1>1, <2>2
    <3>2. h[k] = f[k] /\ h[k + 1] = f[k + 1]
      BY <1>12, <2>1, <3>1
    <3>3. f[k] # actual_node /\ f[k] \in 0 .. n
      <4>1. k \in 1 .. n + 1
        BY <1>1, <3>1
      <4> QED
        BY <1>1, <1>2, <3>1, <4>1
    <3>4. f[k + 1] # after /\ f[k + 1] \in 0 .. n
      <4>1. f[k + 1] \in 0 .. n
        BY <1>2, <3>1
      <4>2. c <= n \/ c = n + 1
        BY <1>1
      <4>3. CASE c <= n
        BY <1>2, <1>7, <3>1, <4>3
      <4>4. CASE c = n + 1
        BY <1>7, <4>1, <4>4 DEF NULL
      <4> QED
        BY <4>1, <4>2, <4>3, <4>4
    <3> QED
      BY <1>2, <1>8, <1>9, <3>1, <3>2, <3>3, <3>4
  <2>3. CASE k = c
    <3>1. h[k] = actual_node /\ h[k + 1] = n + 1
      BY <1>1, <1>12, <2>1, <2>3
    <3> QED
      BY <1>8, <1>10, <3>1
  <2>4. CASE k = c + 1
    <3>1. c <= n /\ k + 1 > c + 1 /\ (k + 1) - 1 = c + 1
      BY <1>1, <2>4
    <3>2. h[k] = n + 1 /\ h[k + 1] = f[c + 1] /\ after = f[c + 1]
      BY <1>7, <1>12, <2>1, <2>4, <3>1
    <3> QED
      BY <1>8, <1>11, <3>1, <3>2
  <2>5. CASE k > c + 1
    <3>1. /\ c <= n /\ k + 1 > c + 1 /\ (k + 1) - 1 = k /\ (k - 1) + 1 = k
          /\ k - 1 \in 1 .. n /\ k - 1 # c /\ k # c + 1 /\ k - 1 \in 1 .. n + 1
      BY <1>1, <2>5
    <3>2. h[k] = f[k - 1] /\ h[k + 1] = f[k]
      BY <1>12, <2>1, <2>5, <3>1
    <3>3. f[k - 1] # actual_node /\ f[k - 1] \in 0 .. n
      BY <1>1, <1>2, <3>1
    <3>4. f[k] # after /\ f[k] \in 0 .. n
      BY <1>2, <1>7, <3>1
    <3>5. next[f[k - 1]] = f[k] /\ prev[f[k]] = f[k - 1]
      BY <1>2, <3>1
    <3> QED
      BY <1>8, <1>9, <3>2, <3>3, <3>4, <3>5
  <2> QED
    BY <2>1, <2>2, <2>3, <2>4, <2>5
<1>16. next'[h[n + 2]] = NULL
  <2>1. n + 2 \in 1 .. n + 2 /\ (n + 2 = c + 1 \/ n + 2 > c + 1) /\ (n + 2) - 1 = n + 1
    BY <1>1
  <2>2. CASE n + 2 = c + 1
    <3>1. c = n + 1
      BY <1>1, <2>2
    <3>2. h[n + 2] = n + 1
      BY <1>12, <2>2
    <3> QED
      BY <1>7, <1>8, <3>1, <3>2
  <2>3. CASE n + 2 > c + 1
    <3>1. h[n + 2] = f[n + 1] /\ n + 1 \in 1 .. n + 1 /\ n + 1 # c
      BY <1>1, <1>12, <2>1, <2>3
    <3>2. f[n + 1] # actual_node /\ f[n + 1] \in 0 .. n
      BY <1>1, <1>2, <3>1
    <3> QED
      BY <1>2, <1>8, <3>1, <3>2
  <2> QED
    BY <2>1, <2>2, <2>3
<1>17. prev'[0] = NULL
  <2>1. 0 \in 0 .. n /\ 1 \in 1 .. n + 1 /\ 1 # c + 1
    BY <1>1
  <2>2. after # 0
    <3>1. c <= n \/ c = n + 1
      BY <1>1
    <3>2. CASE c <= n
      BY <1>2, <1>7, <2>1, <3>2
    <3>3. CASE c = n + 1
      BY <1>7, <3>3 DEF NULL
    <3> QED
      BY <3>1, <3>2, <3>3
  <2> QED
    BY <1>2, <1>9, <2>1, <2>2
<1>18. ASSUME NEW j \in 1 .. n + 2, NEW k \in 1 .. n + 2, h[j] = h[k]
       PROVE  j = k
  <2>1. \A i \in 1 .. n + 1 : f[i] \in 0 .. n /\ f[i] # n + 1
    BY <1>2, <1>3
  <2>2. ASSUME NEW i \in 1 .. n + 2
        PROVE  i # c + 1 => \E g \in 1 .. n + 1 :
                  /\ h[i] = f[g]
                  /\ (i <= c /\ g = i) \/ (g = i - 1 /\ g > c)
    <3>1. CASE i <= c
      BY <1>12, <3>1
    <3>2. CASE i > c + 1
      BY <1>12, <3>2
    <3> QED
      BY <1>13, <3>1, <3>2
  <2>3. CASE j = c + 1
    BY <1>12, <1>18, <2>1, <2>2, <2>3
  <2>4. CASE k = c + 1
    BY <1>12, <1>18, <2>1, <2>2, <2>4
  <2>5. CASE j # c + 1 /\ k # c + 1
    <3>1. PICK a \in 1 .. n + 1 : h[j] = f[a] /\ ((j <= c /\ a = j) \/ (a = j - 1 /\ a > c))
      BY <2>2, <2>5
    <3>2. PICK b \in 1 .. n + 1 : h[k] = f[b] /\ ((k <= c /\ b = k) \/ (b = k - 1 /\ b > c))
      BY <2>2, <2>5
    <3>3. a = b
      <4>1. f[a] = f[b]
        BY <1>18, <3>1, <3>2
      <4> QED
        BY <1>2, <4>1
    <3> QED
      BY <1>1, <3>1, <3>2, <3>3
  <2> QED
    BY <2>3, <2>4, <2>5
<1>19. ASSUME NEW i \in 0 .. n + 1
       PROVE  \E k \in 1 .. n + 2 : h[k] = i
  <2>1. CASE i = n + 1
    BY <1>12, <2>1
  <2>2. CASE i # n + 1
    <3>1. i \in 0 .. n
      BY <1>1, <2>2
    <3>2. PICK g \in 1 .. n + 1 : f[g] = i
      BY <1>2, <3>1
    <3>3. CASE g <= c
      <4>1. g \in 1 .. n + 2
        BY <1>1
      <4> QED
        BY <1>12, <3>2, <3>3, <4>1
    <3>4. CASE ~ (g <= c)
      <4>1. g + 1 \in 1 .. n + 2 /\ g + 1 > c + 1 /\ (g + 1) - 1 = g
        BY <1>1, <3>4
      <4> QED
        BY <1>12, <3>2, <4>1
    <3> QED
      BY <3>3, <3>4
  <2> QED
    BY <2>1, <2>2
<1>20. n' \in Nat /\ n' + 1 = n + 2
  BY <1>1, <1>3
<1>21. Follows(h, n', next')
  BY <1>3, <1>14, <1>15, <1>20 DEF Follows
<1>22. Chain' = h
  BY <1>20, <1>21, ChainIsNext
<1>23. Order(Chain)'
  <2>1. /\ h \in [1 .. n' + 1 -> 0 .. n'] /\ h[1] = 0
        /\ \A k \in 1 .. n' : next'[h[k]] = h[k + 1] /\ prev'[h[k + 1]] = h[k]
        /\ next'[h[n' + 1]] = NULL /\ prev'[0] = NULL
    BY <1>3, <1>14, <1>15, <1>16, <1>17, <1>20
  <2>2. /\ \A j, k \in 1 .. n' + 1 : h[j] = h[k] => j = k
        /\ \A i \in 0 .. n' : \E k \in 1 .. n' + 1 : h[k] = i
    BY <1>3, <1>18, <1>19, <1>20
  <2> QED
    BY <1>22, <2>1, <2>2 DEF Order
<1> QED
  BY <1>3, <1>22, <1>23 DEF h

\* The first node alone is in order.
LEMMA InitOrders ==
    ASSUME Init
    PROVE  Order(Chain) /\ Chain = <<0>> /\ Cursor = 1
<1> DEFINE f == [k \in 1 .. 1 |-> 0]
<1>1. n = 0 /\ n + 1 = 1 /\ actual_node = 0 /\ 0 \in Node
  BY DEF Init, Node
<1>2. next[0] = NULL /\ prev[0] = NULL
  BY <1>1 DEF Init
<1>3. f \in [1 .. 1 -> 0 .. 0] /\ f[1] = 0
  OBVIOUS
<1>4. Order(f)
  BY <1>1, <1>2, <1>3 DEF Order
<1>5. Chain = f
  BY <1>1, <1>4, ChainIs
<1>6. f = <<0>>
  OBVIOUS
<1>7. Cursor \in 1 .. 1
  <2>1. \E k \in 1 .. n + 1 : Chain[k] = actual_node
    BY <1>1, <1>3, <1>5
  <2> QED
    BY <1>1, <2>1 DEF Cursor
<1> QED
  BY <1>4, <1>5, <1>6, <1>7

\* What the history is made of does not change.
LEMMA ListKept ==
    ASSUME HInv, UNCHANGED links
    PROVE  Chain' = Chain /\ Order(Chain)' /\ (actual_node' = actual_node => Cursor' = Cursor)
<1>1. n' = n /\ next' = next /\ prev' = prev
  BY DEF links
<1>2. Chain' = Chain
  BY <1>1 DEF Chain
<1> QED
  BY <1>1, <1>2 DEF HInv, Order, Cursor

\* A cursor that moves to a neighbour, or stays.
LEMMA CursorMoves ==
    ASSUME HInv, UNCHANGED links, NEW k \in 1 .. n + 1, actual_node' = Chain[k]
    PROVE  Cursor' = k
<1>1. n' = n /\ Chain' = Chain
  BY ListKept DEF links
<1>2. /\ \A i, j \in 1 .. n + 1 : Chain[i] = Chain[j] => i = j
  BY DEF HInv, Order
<1>3. Cursor' \in 1 .. n + 1 /\ Chain[Cursor'] = actual_node'
  <2>1. \E j \in 1 .. n' + 1 : Chain'[j] = actual_node'
    BY <1>1
  <2>2. Cursor' \in 1 .. n' + 1 /\ Chain'[Cursor'] = actual_node'
    BY <2>1 DEF Cursor
  <2> QED
    BY <1>1, <2>2
<1> QED
  BY <1>2, <1>3

LEMMA UpMoves ==
    ASSUME HInv, up
    PROVE  UNCHANGED links /\ [Abstract!Forward]_(Abstract!vars)
<1>1. UNCHANGED links
  BY DEF up, move, recall, Overrun
<1>2. Chain' = Chain /\ (actual_node' = actual_node => Cursor' = Cursor)
  BY <1>1, ListKept
<1>3. CASE actual_node' = actual_node
  BY <1>1, <1>2, <1>3 DEF Abstract!vars
<1>4. CASE actual_node' # actual_node
  <2>1. next[actual_node] # NULL /\ actual_node' = next[actual_node]
    BY <1>4 DEF up, move, Overrun
  <2>2. n \in Nat /\ Cursor \in 1 .. n + 1 /\ Chain[Cursor] = actual_node
    BY CursorIs
  <2>3. /\ \A k \in 1 .. n : next[Chain[k]] = Chain[k + 1]
        /\ next[Chain[n + 1]] = NULL
    BY DEF HInv, Order
  <2>4. Cursor # n + 1
    BY <2>1, <2>2, <2>3
  <2>5. Cursor \in 1 .. n /\ Cursor + 1 \in 1 .. n + 1 /\ Cursor < n + 1
    BY <2>2, <2>4
  <2>6. actual_node' = Chain[Cursor + 1]
    BY <2>1, <2>2, <2>3, <2>5
  <2>7. Cursor' = Cursor + 1
    BY <1>1, <2>5, <2>6, CursorMoves
  <2>8. Len(Chain) = n + 1
    BY ChainType
  <2> QED
    BY <1>1, <1>2, <2>5, <2>7, <2>8 DEF Abstract!Forward
<1> QED
  BY <1>1, <1>3, <1>4

LEMMA DownMoves ==
    ASSUME HInv, down
    PROVE  UNCHANGED links /\ [Abstract!Back]_(Abstract!vars)
<1>1. UNCHANGED links
  BY DEF down, move, recall, Overrun
<1>2. Chain' = Chain /\ (actual_node' = actual_node => Cursor' = Cursor)
  BY <1>1, ListKept
<1>3. CASE actual_node' = actual_node
  BY <1>1, <1>2, <1>3 DEF Abstract!vars
<1>4. CASE actual_node' # actual_node
  <2>1. prev[actual_node] # NULL /\ actual_node' = prev[actual_node]
    BY <1>4 DEF down, move, Overrun
  <2>2. n \in Nat /\ Cursor \in 1 .. n + 1 /\ Chain[Cursor] = actual_node
    BY CursorIs
  <2>3. /\ \A k \in 1 .. n : prev[Chain[k + 1]] = Chain[k]
        /\ prev[0] = NULL /\ Chain[1] = 0
    BY DEF HInv, Order
  <2>4. Cursor # 1
    BY <2>1, <2>2, <2>3
  <2>5. Cursor - 1 \in 1 .. n /\ (Cursor - 1) + 1 = Cursor /\ Cursor - 1 \in 1 .. n + 1 /\ Cursor > 1
    BY <2>2, <2>4
  <2>6. actual_node' = Chain[Cursor - 1]
    BY <2>1, <2>2, <2>3, <2>5
  <2>7. Cursor' = Cursor - 1
    BY <1>1, <2>5, <2>6, CursorMoves
  <2> QED
    BY <1>1, <1>2, <2>5, <2>7 DEF Abstract!Back
<1> QED
  BY <1>1, <1>3, <1>4

LEMMA EnterAdds ==
    ASSUME HInv, NEW c \in {NL, NUL}, enter(c)
    PROVE  Order(Chain)' /\ [\E l \in Node : Abstract!Enter(l)]_(Abstract!vars)
<1>1. CASE Overrun
  <2>1. UNCHANGED links /\ actual_node' = actual_node
    BY <1>1 DEF Overrun
  <2> QED
    BY <2>1, ListKept DEF Abstract!vars
<1>2. CASE n < MaxLines /\ insert_after /\ actual_node' = actual_node
  <2>1. n' = n + 1 /\ Chain' = Inserted(Chain, Cursor, n + 1) /\ Order(Chain)'
    BY <1>2, InsertOrders
  <2>2. /\ n \in Nat /\ Cursor \in 1 .. n + 1 /\ Chain[Cursor] = actual_node
        /\ Chain \in Seq(Node) /\ Len(Chain) = n + 1 /\ Chain \in [1 .. n + 1 -> 0 .. n]
    BY CursorIs, ChainType
  <2>3. n + 1 \in Node
    BY <1>2, <2>2 DEF Node
  <2>4. Chain' = SubSeq(Chain, 1, (Cursor + 1) - 1) \o <<n + 1>> \o SubSeq(Chain, Cursor + 1, Len(Chain))
    <3>1. Cursor \in 1 .. Len(Chain) /\ Chain \in Seq(Node)
      BY <2>2
    <3>2. SubSeq(Chain, 1, (Cursor + 1) - 1) \o <<n + 1>> \o SubSeq(Chain, Cursor + 1, Len(Chain))
            = Inserted(Chain, Cursor, n + 1)
      BY <2>3, <3>1, InsertAtIs, ZenonT(30)
    <3> QED
      BY <2>1, <3>2
  <2>5. Cursor' = Cursor
    <3>1. /\ Cursor \in 1 .. n' + 1 /\ Cursor \in 1 .. Len(Chain) + 1 /\ Cursor <= Cursor
      BY <2>1, <2>2
    <3>2. Chain'[Cursor] = actual_node'
      BY <1>2, <2>1, <2>2, <3>1 DEF Inserted
    <3>3. \A j, k \in 1 .. n' + 1 : Chain'[j] = Chain'[k] => j = k
      BY <2>1 DEF Order
    <3>4. Cursor' \in 1 .. n' + 1 /\ Chain'[Cursor'] = actual_node'
      BY <3>1, <3>2 DEF Cursor
    <3> QED
      BY <3>1, <3>2, <3>3, <3>4
  <2>6. ~ Abstract!Contains(Chain, n + 1)
    <3>1. \A i \in 1 .. n + 1 : Chain[i] # n + 1
      BY <2>2
    <3> QED
      BY <2>2, <3>1 DEF Abstract!Contains
  <2>7. Abstract!Enter(n + 1)
    <3>1. Chain' = Abstract!InsertAt(Chain, Cursor + 1, n + 1)
      BY <2>4 DEF Abstract!InsertAt
    <3> QED
      BY <2>5, <2>6, <3>1 DEF Abstract!Enter
  <2> QED
    BY <2>1, <2>3, <2>7
<1> QED
  BY <1>1, <1>2 DEF enter

LEMMA NextIsHistory ==
    ASSUME HInv, [Next]_vars
    PROVE  HInv' /\ [Abstract!Next]_(Abstract!vars)
<1>1. IInv'
  BY NextKeepsInv DEF HInv
<1>2. CASE up
  <2>1. UNCHANGED links /\ [Abstract!Forward]_(Abstract!vars)
    BY <1>2, UpMoves
  <2> QED
    BY <1>1, <2>1, ListKept DEF HInv, Abstract!Next
<1>3. CASE down
  <2>1. UNCHANGED links /\ [Abstract!Back]_(Abstract!vars)
    BY <1>3, DownMoves
  <2> QED
    BY <1>1, <2>1, ListKept DEF HInv, Abstract!Next
<1>4. CASE \E c \in {NL, NUL} : enter(c)
  <2>1. Order(Chain)' /\ [\E l \in Node : Abstract!Enter(l)]_(Abstract!vars)
    BY <1>4, EnterAdds
  <2> QED
    BY <1>1, <2>1 DEF HInv, Abstract!Next
<1>5. CASE \/ \E c \in Char \union {Blank} : key(c)
           \/ backspace \/ parse \/ UNCHANGED vars
  <2>1. UNCHANGED links /\ actual_node' = actual_node
    BY <1>5 DEF key, backspace, parse, vars, Overrun
  <2> QED
    BY <1>1, <2>1, ListKept DEF HInv, Abstract!vars
<1> QED
  BY <1>2, <1>3, <1>4, <1>5 DEF Next

\* For any number of lines: the linked list is a history.  Each line is put behind
\* the one the user is at and none is lost, the links agree both ways, and UP and
\* DOWN move by one entry or stay (insert_after, generate_list, input).
THEOREM ListIsHistory == Spec => KeepsHistory
<1>1. Init => HInv /\ Abstract!Init
  <2> SUFFICES ASSUME Init
               PROVE  HInv /\ Abstract!Init
    OBVIOUS
  <2>1. 0 \in Node
    BY DEF Node
  <2> QED
    BY <2>1, InitHolds, InitOrders DEF HInv, Abstract!Init
<1>2. HInv /\ [Next]_vars => HInv' /\ [Abstract!Next]_(Abstract!vars)
  BY NextIsHistory
<1> QED
  BY <1>1, <1>2, PTL DEF Spec, KeepsHistory, Abstract!Spec

==============================================================================
