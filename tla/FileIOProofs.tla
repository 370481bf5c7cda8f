---------------------------- MODULE FileIOProofs ----------------------------
(***************************************************************************)
(* What read and write keep to, for every memory, every disk and whatever  *)
(* others do to the file, and the step of the transfer each step is.       *)
(***************************************************************************)
EXTENDS FileIO, SequenceTheorems, TLAPS

USE ConstantsAssumption DEF ConstantsAssumption

-----------------------------------------------------------------------------
(* Contents of files.                                                      *)

LEMMA ContentIsSeq ==
    ASSUME NEW s
    PROVE  s \in Content <=> s \in Seq(Byte) /\ Len(s) <= MaxLen
<1>1. ASSUME s \in Content
      PROVE  s \in Seq(Byte) /\ Len(s) <= MaxLen
  <2>1. PICK n \in 0 .. MaxLen : s \in [1 .. n -> Byte]
    BY <1>1 DEF Content, SeqOf
  <2>2. n \in Nat /\ n <= MaxLen
    BY <2>1
  <2> QED
    BY <2>1, <2>2, SeqDef, LenProperties
<1>2. ASSUME s \in Seq(Byte), Len(s) <= MaxLen
      PROVE  s \in Content
  <2>1. Len(s) \in 0 .. MaxLen /\ s \in [1 .. Len(s) -> Byte]
    BY <1>2, LenProperties
  <2> QED
    BY <2>1 DEF Content, SeqOf
<1> QED
  BY <1>1, <1>2

LEMMA LengthType ==
    ASSUME NEW f \in Content \union {NoFile}
    PROVE  /\ Length(f) \in Count
           /\ f # NoFile => f \in Seq(Byte) /\ Length(f) = Len(f)
  BY ContentIsSeq, LenProperties DEF Length, Count

LEMMA EmptyContent ==
    <<>> \in Content /\ <<>> # NoFile /\ Length(<<>>) = 0
<1>1. <<>> \in Seq(Byte) /\ Len(<<>>) = 0
  BY EmptySeq
<1>2. Len(<<>>) <= MaxLen
  BY <1>1
<1>3. <<>> \in Content
  BY <1>1, <1>2, ContentIsSeq
<1>4. <<>> # NoFile
  BY <1>1
<1> QED
  BY <1>1, <1>3, <1>4 DEF Length

\* What a command can ask for.
LEMMA RequestType ==
    ASSUME NEW r \in Request
    PROVE  /\ r.dir \in {"read", "write"}
           /\ r.at \in 1 .. MemSize + 1
           /\ r.n \in Count \union {LEERCOMPLETO}
           /\ r.n = LEERCOMPLETO => r.dir = "read"
<1>1. CASE r \in ReadRequest
  BY <1>1 DEF ReadRequest, Count
<1>2. CASE r \in WriteRequest
  <2>1. r.dir = "write" /\ r.at \in 1 .. MemSize + 1 /\ r.n \in 0 .. MaxLen
    BY <1>2 DEF WriteRequest
  <2>2. r.n # LEERCOMPLETO
    BY <2>1 DEF LEERCOMPLETO
  <2> QED
    BY <2>1, <2>2 DEF Count
<1> QED
  BY <1>1, <1>2 DEF Request

\* The lesser of two numbers.
LEMMA MinOfTwo ==
    ASSUME NEW m \in Nat, NEW n \in Nat
    PROVE  /\ Min({m, n}) \in {m, n}
           /\ Min({m, n}) <= m /\ Min({m, n}) <= n
<1>1. \E x \in {m, n} : \A y \in {m, n} : x <= y
  OBVIOUS
<1> QED
  BY <1>1 DEF Min

\* A number of the set that no other exceeds.
LEMMA MaxIs ==
    ASSUME NEW S, NEW m \in S, \A n \in S : m >= n
    PROVE  Max(S) \in S /\ \A n \in S : Max(S) >= n
  BY DEF Max

-----------------------------------------------------------------------------
(* The invariant.                                                          *)

\* The library has a request as long as the block it points to says so, and an
\* open file is not removed.
Held ==
    /\ pc \in {"stat", "open", "transfer"} => cb = Zeroed
    /\ df => file # NoFile
    /\ pc = "transfer" => df
    /\ queued => cb.error = "inprogress"
    /\ pc = "wait" /\ cb.error = "inprogress" => queued
    /\ pc = "wait" => req.async

\* What the command is to move is what it was asked for, or what stat saw.
Asked ==
    /\ pc = "stat" => req.dir = "read"
    /\ pc \in {"open", "transfer", "wait"} =>
          tam = IF req.n = LEERCOMPLETO THEN size ELSE req.n

\* Since stat the file has had as much as the command can count on, and what the
\* library answered is within it.
Watched ==
    req.n = LEERCOMPLETO =>
      /\ pc \in {"open", "transfer"} \/ (pc = "wait" /\ queued) =>
            low <= size /\ low <= Length(file)
      /\ pc = "wait" /\ ~ queued /\ Mapped(size) /\ cb.return # Failed =>
            cb.return \in low .. size

\* Until something has been moved nothing has been said, and what read keeps of its
\* transfer is what the transfer moved.
Kept ==
    /\ pc \in {"stat", "open", "transfer"} \/ (pc = "wait" /\ queued) => moved = Failed
    /\ pc \in {"stat", "open", "transfer", "wait"} => told = "none"
    /\ pc = "wait" /\ ~ queued /\ req.dir = "read" => cb.return = moved
    /\ pc = "close" /\ req.dir = "read" => nleidos = moved

\* What the block says when it is done is what was moved, unless the request was
\* refused: then the descriptor is closed and the block as it was made.
Judged ==
    pc = "wait" /\ ~ queued =>
        IF df THEN cb.return = moved
              ELSE req.dir = "write" /\ moved = Failed /\ cb.return = 0

IInv == TypeOK /\ Held /\ Asked /\ Watched /\ Kept /\ Judged /\ WholeFile /\ ToldRight

-----------------------------------------------------------------------------
(* What a system call moves.                                               *)

\* A read moves what was asked for, what the file has or what there is room for,
\* whichever is the least.
LEMMA ReadMoves ==
    ASSUME TypeOK, file # NoFile, req.dir = "read", NEW k, Moves(k)
    PROVE  /\ k \in Count /\ k <= tam /\ k <= Len(file) /\ k <= MemSize
           /\ mem' \in [1 .. MemSize -> Byte]
           /\ \A n \in Count : n <= tam /\ n <= Len(file) /\ Mapped(n) => n <= k
<1> DEFINE S == Movable \union {0}
<1>1. /\ req.at \in 1 .. MemSize + 1 /\ tam \in Count
      /\ file \in Seq(Byte) /\ Len(file) \in Count
  BY LengthType, RequestType DEF TypeOK
<1>2. S = {n \in 0 .. tam : n <= MemSize + 1 - req.at /\ n <= Len(file)}
  BY <1>1 DEF Movable, Mapped, Count
<1>3. k \in S /\ \A n \in S : k >= n
  <2> DEFINE room == MemSize + 1 - req.at
             length == Len(file)
  <2>1. tam \in Nat /\ room \in Nat /\ length \in Nat
    BY <1>1 DEF Count
  <2>2. \A n : n \in S <=> n \in Nat /\ n <= tam /\ n <= room /\ n <= length
    BY <1>2, <2>1
  <2>3. k = Max(S)
    BY DEF Moves
  <2> HIDE DEF S, room, length
  <2>4. ASSUME NEW m \in {tam, room, length}, m <= tam, m <= room, m <= length
        PROVE  k \in S /\ \A n \in S : k >= n
    <3>1. m \in S
      BY <2>1, <2>2, <2>4
    <3>2. \A n \in S : m >= n
      BY <2>1, <2>2, <2>4
    <3> QED
      BY <2>3, <3>1, <3>2, MaxIs
  <2>5. CASE tam <= room /\ tam <= length
    BY <2>1, <2>4, <2>5
  <2>6. CASE room <= tam /\ room <= length
    BY <2>1, <2>4, <2>6
  <2>7. CASE length <= tam /\ length <= room
    BY <2>1, <2>4, <2>7
  <2> QED
    BY <2>1, <2>5, <2>6, <2>7
<1>4. /\ k \in Count /\ k <= tam /\ k <= Len(file) /\ k <= MemSize + 1 - req.at
      /\ k <= MemSize
      /\ \A n \in Count : n <= tam /\ n <= Len(file) /\ Mapped(n) => n <= k
  <2>1. /\ tam \in 0 .. MaxLen /\ req.at \in Nat \ {0}
        /\ k \in 0 .. tam /\ k <= MemSize + 1 - req.at /\ k <= Len(file)
    BY <1>1, <1>2, <1>3 DEF Count
  <2>2. k \in Count /\ k <= tam /\ k <= MemSize
    BY <2>1 DEF Count
  <2>3. ASSUME NEW n \in Count, n <= tam, n <= Len(file), Mapped(n)
        PROVE  n <= k
    <3>1. n \in 0 .. tam /\ n <= MemSize + 1 - req.at
      BY <2>1, <2>3 DEF Count, Mapped
    <3>2. n \in S
      BY <3>1, <2>3, <1>2
    <3> QED
      BY <3>1, <3>2, <1>3, <2>1
  <2> QED
    BY <2>1, <2>2, <2>3
<1>5. mem' \in [1 .. MemSize -> Byte]
  <2>1. mem' = [a \in DOMAIN mem |->
                  IF a \in req.at .. req.at + k - 1 THEN file[a - req.at + 1]
                                                     ELSE mem[a]]
    BY DEF Moves
  <2>2. mem \in [1 .. MemSize -> Byte]
    BY DEF TypeOK
  <2>3. ASSUME NEW a \in req.at .. req.at + k - 1
        PROVE  file[a - req.at + 1] \in Byte
    <3>1. a - req.at + 1 \in 1 .. Len(file)
      BY <1>1, <1>4 DEF Count
    <3> QED
      BY <1>1, <3>1, ElementOfSeq
  <2> QED
    BY <2>1, <2>2, <2>3
<1> QED
  BY <1>4, <1>5

\* A write moves no more than there is, to a file that there is.
LEMMA WriteMoves ==
    ASSUME TypeOK, file # NoFile, req.dir = "write", NEW k, Moves(k)
    PROVE  /\ k \in Count /\ k <= tam /\ k <= MemSize
           /\ file' \in Content
<1> DEFINE block == SubSeq(mem, req.at, req.at + k - 1)
           rest == SubSeq(file, k + 1, Len(file))
<1>1. /\ req.at \in 1 .. MemSize + 1 /\ tam \in Count
      /\ file \in Seq(Byte) /\ Len(file) \in Count
      /\ mem \in Seq(Byte) /\ Len(mem) = MemSize
  <2>1. mem \in [1 .. MemSize -> Byte]
    BY DEF TypeOK
  <2>2. mem \in Seq(Byte) /\ Len(mem) = MemSize
    BY <2>1, SeqDef, LenProperties
  <2> QED
    BY <2>2, LengthType, RequestType DEF TypeOK
<1>2. /\ k \in 0 .. tam /\ req.at + k - 1 <= MemSize
      /\ k <= MaxLen - (IF req.over THEN 0 ELSE Len(file))
      /\ file' = IF req.over THEN block \o rest ELSE file \o block
  <2>1. req.dir # "read"
    OBVIOUS
  <2>2. file' = IF req.over THEN block \o rest ELSE file \o block
    BY <2>1 DEF Moves
  <2>3. k \in Movable \/ (k = 0 /\ tam = 0)
    BY <2>1 DEF Moves
  <2>4. CASE k \in Movable
    BY <1>1, <2>2, <2>4 DEF Movable, Mapped, Count
  <2>5. CASE k = 0 /\ tam = 0
    BY <1>1, <2>2, <2>5 DEF Count
  <2> QED
    BY <2>3, <2>4, <2>5
<1>3. block \in Seq(Byte) /\ Len(block) = k
  <2>1. /\ req.at \in Int /\ req.at + k - 1 \in Int /\ k \in Nat
        /\ \A i \in req.at .. req.at + k - 1 : i \in 1 .. Len(mem)
    BY <1>1, <1>2 DEF Count
  <2>2. \A i \in req.at .. req.at + k - 1 : mem[i] \in Byte
    BY <1>1, <2>1, ElementOfSeq
  <2>3. /\ block \in Seq(Byte)
        /\ Len(block) = IF req.at <= req.at + k - 1
                          THEN req.at + k - 1 - req.at + 1 ELSE 0
    BY <2>1, <2>2, SubSeqProperties
  <2> QED
    BY <2>1, <2>3
<1>4. rest \in Seq(Byte) /\ Len(rest) = IF k < Len(file) THEN Len(file) - k ELSE 0
  <2>1. /\ k + 1 \in Int /\ Len(file) \in Int /\ k \in Nat
        /\ \A i \in k + 1 .. Len(file) : i \in 1 .. Len(file)
    BY <1>1, <1>2 DEF Count
  <2>2. \A i \in k + 1 .. Len(file) : file[i] \in Byte
    BY <1>1, <2>1, ElementOfSeq
  <2>3. /\ rest \in Seq(Byte)
        /\ Len(rest) = IF k + 1 <= Len(file) THEN Len(file) - (k + 1) + 1 ELSE 0
    BY <2>1, <2>2, SubSeqProperties
  <2> QED
    BY <2>1, <2>3
<1>5. file' \in Seq(Byte) /\ Len(file') <= MaxLen
  <2> HIDE DEF block, rest
  <2>1. CASE req.over
    <3>1. file' \in Seq(Byte) /\ Len(file') = Len(block) + Len(rest)
      BY <1>2, <1>3, <1>4, <2>1, ConcatProperties
    <3> QED
      BY <1>1, <1>2, <1>3, <1>4, <2>1, <3>1 DEF Count
  <2>2. CASE ~ req.over
    <3>1. file' \in Seq(Byte) /\ Len(file') = Len(file) + Len(block)
      BY <1>1, <1>2, <1>3, <2>2, ConcatProperties
    <3> QED
      BY <1>1, <1>2, <1>3, <2>2, <3>1 DEF Count
  <2> QED
    BY <2>1, <2>2
<1>6. file' \in Content
  BY <1>5, ContentIsSeq
<1> QED
  <2>1. k \in Count /\ k <= tam /\ k <= MemSize
    BY <1>1, <1>2 DEF Count
  <2> QED
    BY <2>1, <1>6

\* What every system call on a file keeps.
LEMMA SyscallKeeps ==
    ASSUME TypeOK, file # NoFile, NEW k, syscall(k)
    PROVE  /\ k \in Count \union {Failed}
           /\ file' \in Content /\ file' # NoFile
           /\ mem' \in [1 .. MemSize -> Byte]
           /\ req.dir = "read" => file' = file
<1>1. file \in Content /\ mem \in [1 .. MemSize -> Byte]
  BY DEF TypeOK
<1>2. req.dir \in {"read", "write"}
  BY RequestType DEF TypeOK
<1>3. CASE k = Failed /\ UNCHANGED <<file, mem>>
  BY <1>1, <1>3
<1>4. CASE Moves(k) /\ req.dir = "read"
  <2>1. file' = file
    BY <1>4 DEF Moves
  <2> QED
    BY <1>1, <1>4, <2>1, ReadMoves
<1>5. CASE Moves(k) /\ req.dir = "write"
  <2>1. mem' = mem
    BY <1>5 DEF Moves
  <2>2. file' \in Content /\ k \in Count
    BY <1>5, WriteMoves
  <2>3. file' # NoFile
    BY <2>2, ContentIsSeq
  <2> QED
    BY <1>1, <1>5, <2>1, <2>2, <2>3
<1> QED
  BY <1>2, <1>3, <1>4, <1>5 DEF syscall

\* A read without a count that has room returns no more than stat saw and no less
\* than the file has had since.
LEMMA WholeRead ==
    ASSUME IInv, req.n = LEERCOMPLETO, pc \in {"transfer", "wait"}, queued \/ pc = "transfer",
           NEW k, syscall(k), k # Failed, Mapped(size)
    PROVE  k \in low .. size
<1>1. file # NoFile /\ low <= size /\ low <= Length(file) /\ tam = size
  BY DEF IInv, TypeOK, Held, Asked, Watched
<1>2. req.dir = "read" /\ req.at \in 1 .. MemSize + 1
  BY RequestType DEF IInv, TypeOK
<1>3. Moves(k)
  BY DEF syscall
<1>4. /\ k \in Count /\ k <= tam
      /\ \A n \in Count : n <= tam /\ n <= Len(file) /\ Mapped(n) => n <= k
  BY <1>1, <1>2, <1>3, ReadMoves DEF IInv
<1>5. low \in Count /\ size \in Count /\ Length(file) = Len(file)
  BY <1>1, LengthType DEF IInv, TypeOK
<1>6. Mapped(low)
  BY <1>1, <1>2, <1>5 DEF Mapped, Count
<1> QED
  BY <1>1, <1>4, <1>5, <1>6 DEF Count

-----------------------------------------------------------------------------
(* The steps.                                                              *)

USE DEF ghosts, said

LEMMA InitInv == Init => IInv
<1> SUFFICES ASSUME Init
             PROVE  IInv
  OBVIOUS
<1>1. cb \in [error : {"none", "inprogress", "io"}, return : Count \union {Failed}]
  BY DEF Init, Zeroed, Count
<1>2. df \in BOOLEAN /\ queued \in BOOLEAN /\ ~ df /\ ~ queued
  BY DEF Init
<1>3. tam \in Count /\ size \in Count /\ low \in Count /\ Failed \in Count \union {Failed}
  BY DEF Init, Count
<1>4. TypeOK
  BY <1>1, <1>2, <1>3 DEF Init, TypeOK
<1>5. Held /\ Asked /\ Watched /\ Kept /\ WholeFile
  BY <1>2 DEF Init, Held, Asked, Watched, Kept, WholeFile
<1>6. Judged /\ ToldRight
  BY DEF Init, Judged, ToldRight
<1> QED
  BY <1>4, <1>5, <1>6 DEF IInv

LEMMA ChangeInv ==
    ASSUME IInv, NEW f \in Content \union {NoFile}, Change(f)
    PROVE  IInv'
<1>1. low' \in Count /\ low' <= low /\ low' <= Length(f)
  <2>1. low \in Count /\ Length(f) \in Count
    BY LengthType DEF IInv, TypeOK
  <2> QED
    BY <2>1, MinOfTwo DEF Change, Count
<1>2. TypeOK'
  BY <1>1 DEF IInv, TypeOK, Change
<1>3. Held' /\ Asked' /\ Kept'
  BY DEF IInv, TypeOK, Held, Asked, Kept, Change
<1>4. Watched' /\ WholeFile'
  BY <1>1 DEF IInv, TypeOK, Watched, WholeFile, Change, Mapped, Count
<1>5. Judged' /\ ToldRight'
  BY DEF IInv, Judged, ToldRight, Change
<1> QED
  BY <1>2, <1>3, <1>4, <1>5 DEF IInv

LEMMA CommandInv ==
    ASSUME IInv, NEW r \in Request, command(r)
    PROVE  IInv'
<1>1. /\ r.dir \in {"read", "write"} /\ r.n \in Count \union {LEERCOMPLETO}
      /\ r.n = LEERCOMPLETO => r.dir = "read"
  BY RequestType
<1>2. TypeOK'
  BY <1>1 DEF IInv, TypeOK, command, Zeroed, Count, Failed, LEERCOMPLETO
<1>3. Held' /\ Asked' /\ Watched' /\ Kept' /\ WholeFile'
  BY <1>1 DEF IInv, TypeOK, Held, Asked, Watched, Kept, WholeFile, command, Zeroed
<1>4. Judged' /\ ToldRight'
  BY DEF Judged, ToldRight, command
<1> QED
  BY <1>2, <1>3, <1>4 DEF IInv

LEMMA StatInv ==
    ASSUME IInv, stat
    PROVE  IInv'
<1>1. file # NoFile => Len(file) \in Count /\ Length(file) = Len(file)
  BY LengthType DEF IInv, TypeOK
<1>2. req.n \in Count \union {LEERCOMPLETO}
  BY RequestType DEF IInv, TypeOK
<1>3. TypeOK'
  BY <1>1, <1>2 DEF IInv, TypeOK, stat, Return
<1>4. Held' /\ Asked' /\ Watched' /\ Kept' /\ WholeFile'
  BY <1>1 DEF IInv, TypeOK, Held, Asked, Watched, Kept, WholeFile, stat, Return, Count
<1>5. Judged' /\ ToldRight'
  BY DEF IInv, Kept, Judged, ToldRight, stat, Return
<1> QED
  BY <1>3, <1>4, <1>5 DEF IInv

LEMMA OpenInv ==
    ASSUME IInv, open
    PROVE  IInv'
<1>1. req.dir \in {"read", "write"} /\ (req.n = LEERCOMPLETO => req.dir = "read")
  BY RequestType DEF IInv, TypeOK
<1>2. TypeOK'
  BY EmptyContent DEF IInv, TypeOK, open, Return
<1>3. Held' /\ Asked' /\ Watched' /\ Kept' /\ WholeFile'
  BY <1>1, EmptyContent DEF IInv, TypeOK, Held, Asked, Watched, Kept, WholeFile, open, Return
<1>4. Judged' /\ ToldRight'
  BY DEF IInv, Kept, Judged, ToldRight, open, Return
<1> QED
  BY <1>2, <1>3, <1>4 DEF IInv

LEMMA ReadInv ==
    ASSUME IInv, read
    PROVE  IInv'
<1>1. PICK k \in Count \union {Failed} : syscall(k) /\ Return(k) /\ moved' = k
  BY DEF read
<1>2. pc = "transfer" /\ df /\ file # NoFile
  BY DEF IInv, Held, read
<1>3. /\ file' \in Content /\ mem' \in [1 .. MemSize -> Byte] /\ file' # NoFile
  BY <1>1, <1>2, SyscallKeeps DEF IInv
<1>4. TypeOK'
  BY <1>1, <1>2, <1>3 DEF IInv, TypeOK, read, Return
<1>5. Held' /\ Asked' /\ Watched' /\ Kept'
  BY <1>1, <1>2, <1>3 DEF IInv, TypeOK, Held, Asked, Watched, Kept, read, Return
<1>6. WholeFile'
  BY <1>1, <1>2, WholeRead DEF WholeFile, read, Return, Mapped
<1>7. Judged' /\ ToldRight'
  BY <1>1 DEF IInv, Kept, Judged, ToldRight, read, Return
<1> QED
  BY <1>4, <1>5, <1>6, <1>7 DEF IInv

LEMMA WriteInv ==
    ASSUME IInv, write
    PROVE  IInv'
<1>1. PICK k \in Count \union {Failed} : syscall(k) /\ moved' = k
  BY DEF write
<1>2. /\ pc = "transfer" /\ df /\ file # NoFile
      /\ req.dir = "write" /\ req.n # LEERCOMPLETO
  BY RequestType DEF IInv, TypeOK, Held, write
<1>3. /\ file' \in Content /\ mem' \in [1 .. MemSize -> Byte] /\ file' # NoFile
  BY <1>1, <1>2, SyscallKeeps DEF IInv
<1>4. TypeOK'
  BY <1>1, <1>2, <1>3 DEF IInv, TypeOK, write
<1>5. Held' /\ Asked' /\ Watched' /\ Kept' /\ WholeFile'
  BY <1>1, <1>2, <1>3
  DEF IInv, TypeOK, Held, Asked, Watched, Kept, WholeFile, write
<1>6. Judged' /\ ToldRight'
  BY DEF IInv, Kept, Judged, ToldRight, write
<1> QED
  BY <1>4, <1>5, <1>6 DEF IInv

LEMMA EnqueueInv ==
    ASSUME IInv, enqueue
    PROVE  IInv'
<1>1. /\ pc = "transfer" /\ df = TRUE /\ file # NoFile /\ cb = Zeroed /\ queued = FALSE
      /\ req.n = LEERCOMPLETO => req.dir = "read"
  BY RequestType DEF IInv, TypeOK, Held, enqueue
<1>2. TypeOK'
  <2>1. /\ df \in BOOLEAN /\ nleidos \in Count \union {Failed}
        /\ cb \in [error : {"none", "inprogress", "io"}, return : Count \union {Failed}]
    BY DEF IInv, TypeOK
  <2>2. /\ queued' \in BOOLEAN /\ df' \in BOOLEAN
        /\ queued' => pc' = "wait" /\ df'
    <3>1. CASE queued' = TRUE /\ pc' = "wait" /\ df' = df
      BY <1>1, <3>1
    <3>2. CASE pc' = "close" /\ df' = df /\ queued' = queued
      BY <1>1, <3>2
    <3>3. CASE pc' = "wait" /\ df' = FALSE /\ queued' = queued
      BY <1>1, <3>3
    <3> QED
      BY <3>1, <3>2, <3>3 DEF enqueue, Return
  <2>3. cb' \in [error : {"none", "inprogress", "io"}, return : Count \union {Failed}]
    BY <2>1 DEF enqueue
  <2>4. pc' \in {"wait", "close"} /\ nleidos' \in Count \union {Failed}
    BY <2>1 DEF enqueue, Return
  <2> QED
    BY <2>2, <2>3, <2>4 DEF IInv, TypeOK, enqueue
<1>3. Asked' /\ req' = req
  BY <1>1 DEF IInv, Asked, enqueue, Return
<1>4. ASSUME queued' = TRUE, cb' = [cb EXCEPT !.error = "inprogress"], pc' = "wait",
             UNCHANGED <<df, nleidos>>
      PROVE  Held' /\ Watched' /\ Kept' /\ WholeFile'
  <2>1. cb'.error = "inprogress"
    BY <1>1, <1>4 DEF Zeroed
  <2> QED
    BY <1>1, <1>4, <2>1 DEF IInv, Held, Watched, Kept, WholeFile, enqueue
<1>5. ASSUME Return(Failed), UNCHANGED <<df, cb, queued>>
      PROVE  Held' /\ Watched' /\ Kept' /\ WholeFile'
  BY <1>1, <1>5 DEF IInv, Held, Watched, Kept, WholeFile, enqueue, Return
<1>6. ASSUME req.dir = "write", df' = FALSE, pc' = "wait",
             UNCHANGED <<cb, queued, nleidos>>
      PROVE  Held' /\ Watched' /\ Kept' /\ WholeFile'
  BY <1>1, <1>6 DEF IInv, Held, Watched, Kept, WholeFile, enqueue, Zeroed
<1>7. Held' /\ Watched' /\ Kept' /\ WholeFile'
  BY <1>4, <1>5, <1>6 DEF enqueue
<1>8. Judged' /\ ToldRight'
  <2>1. told' = "none" /\ moved' = Failed
    BY <1>1 DEF IInv, Kept, enqueue
  <2>2. pc' = "wait" /\ ~ queued' => df' = FALSE /\ cb' = Zeroed /\ req'.dir = "write"
    BY <1>1 DEF enqueue, Return
  <2> QED
    BY <2>1, <2>2 DEF Judged, ToldRight, Zeroed
<1> QED
  BY <1>2, <1>3, <1>7, <1>8 DEF IInv

LEMMA CompleteInv ==
    ASSUME IInv, complete
    PROVE  IInv'
<1>1. PICK k \in Count \union {Failed} :
         /\ syscall(k) /\ moved' = k
         /\ cb' = [error |-> IF k = Failed THEN "io" ELSE "none", return |-> k]
  BY DEF complete
<1>2. pc = "wait" /\ queued /\ df /\ file # NoFile
  BY DEF IInv, TypeOK, Held, complete
<1>3. /\ file' \in Content /\ mem' \in [1 .. MemSize -> Byte] /\ file' # NoFile
  BY <1>1, <1>2, SyscallKeeps DEF IInv
<1>4. TypeOK'
  BY <1>1, <1>2, <1>3 DEF IInv, TypeOK, complete
<1>5. Held' /\ Asked' /\ Kept' /\ WholeFile'
  BY <1>1, <1>2, <1>3 DEF IInv, TypeOK, Held, Asked, Kept, WholeFile, complete
<1>6. Watched'
  BY <1>1, <1>2, WholeRead DEF Watched, complete, Mapped
<1>7. Judged' /\ ToldRight'
  BY <1>1, <1>2 DEF Judged, ToldRight, complete
<1> QED
  BY <1>4, <1>5, <1>6, <1>7 DEF IInv

LEMMA WaitInv ==
    ASSUME IInv, wait
    PROVE  IInv'
<1>1. pc = "wait" /\ ~ queued
  BY DEF IInv, Held, wait
<1>2. TypeOK'
  BY <1>1 DEF IInv, TypeOK, wait, Return, Verdict
<1>3. Held' /\ Asked' /\ Watched' /\ Kept'
  BY <1>1 DEF IInv, TypeOK, Held, Asked, Watched, Kept, wait, Return
<1>4. WholeFile'
  BY <1>1 DEF IInv, Watched, WholeFile, wait, Return, Mapped
<1>5. Judged' /\ ToldRight'
  BY <1>1 DEF IInv, TypeOK, Judged, ToldRight, wait, Return, Verdict, Failed
<1> QED
  BY <1>2, <1>3, <1>4, <1>5 DEF IInv

LEMMA CloseInv ==
    ASSUME IInv, close
    PROVE  IInv'
<1>1. req.n \in Count \union {LEERCOMPLETO} /\ (req.n = LEERCOMPLETO => req.dir = "read")
  BY RequestType DEF IInv, TypeOK
<1>2. answer' \in Count \union {Failed}
  BY <1>1 DEF IInv, TypeOK, close, Failed, LEERCOMPLETO
<1>3. TypeOK'
  BY <1>2 DEF IInv, TypeOK, close
<1>4. Held' /\ Asked' /\ Watched' /\ Kept' /\ WholeFile'
  BY DEF IInv, TypeOK, Held, Asked, Watched, Kept, WholeFile, Mapped, close
<1>5. Judged' /\ ToldRight'
  BY DEF Judged, ToldRight, close
<1> QED
  BY <1>3, <1>4, <1>5 DEF IInv

LEMMA NextInv == IInv /\ [Next]_vars => IInv'
<1> SUFFICES ASSUME IInv, [Next]_vars
             PROVE  IInv'
  OBVIOUS
<1>1. CASE Shell
  BY <1>1, StatInv, OpenInv, ReadInv, WriteInv, EnqueueInv, WaitInv, CloseInv DEF Shell
<1>2. CASE complete
  BY <1>2, CompleteInv
<1>3. CASE \E r \in Request : command(r)
  BY <1>3, CommandInv
<1>4. CASE \E f \in Content \union {NoFile} : Change(f)
  BY <1>4, ChangeInv
<1>5. CASE UNCHANGED vars
  BY <1>5 DEF IInv, TypeOK, Held, Asked, Watched, Kept, Judged, WholeFile, ToldRight, Mapped,
              vars
<1> QED
  BY <1>1, <1>2, <1>3, <1>4, <1>5 DEF Next

LEMMA InvCorrect == Spec => []IInv
  BY InitInv, NextInv, PTL DEF Spec

-----------------------------------------------------------------------------

\* While the library has a request the command that made it is still waiting and
\* its descriptor is open, for every size of memory and disk (read_async,
\* write_async).
THEOREM FileIOTypeCorrect == Spec => []TypeOK
  BY InvCorrect, PTL DEF IInv

\* A read without a count returns no more than stat saw and no less than the file
\* has had since, whoever writes to it meanwhile and however long the library takes
\* (LeerFichero, read_async).
THEOREM ReadsWholeFile == Spec => []WholeFile
  BY InvCorrect, PTL DEF IInv

\* What a command calls a success has been carried out and what it calls an error has
\* not, but for the write whose request was refused: that one is called a success and
\* closes its descriptor twice (read_async, write_async).
THEOREM TellsRight == Spec => []ToldRight
  BY InvCorrect, PTL DEF IInv

-----------------------------------------------------------------------------
(* The refinement.                                                         *)

LEMMA PhaseIs ==
    ASSUME TypeOK
    PROVE  /\ pc = "prompt" => Phase = "idle" /\ Told = told
           /\ pc \in {"stat", "open"} => Phase = "asked" /\ Told = told
           /\ pc = "transfer" \/ (pc = "wait" /\ cb.error = "inprogress") =>
                 /\ Phase = IF req.dir = "write" THEN "ready" ELSE "asked"
                 /\ Told = told
           /\ pc = "wait" /\ cb.error # "inprogress" =>
                 Phase = "moved" /\ Told = Verdict
           /\ pc = "close" => Phase = "moved" /\ Told = told
  BY DEF Phase, Told, Answered

LEMMA PhaseIsNext ==
    ASSUME TypeOK'
    PROVE  /\ pc' = "prompt" => Phase' = "idle" /\ Told' = told'
           /\ pc' \in {"stat", "open"} => Phase' = "asked" /\ Told' = told'
           /\ pc' = "transfer" \/ (pc' = "wait" /\ cb'.error = "inprogress") =>
                 /\ Phase' = IF req'.dir = "write" THEN "ready" ELSE "asked"
                 /\ Told' = told'
           /\ pc' = "wait" /\ cb'.error # "inprogress" =>
                 Phase' = "moved" /\ Told' = Verdict'
           /\ pc' = "close" => Phase' = "moved" /\ Told' = told'
  BY DEF Phase, Told, Answered

\* A system call on the open file of an unanswered command is the transfer, or
\* its failure.
LEMMA SyscallTransfers ==
    ASSUME IInv, file # NoFile,
           pc = "transfer" \/ (pc = "wait" /\ cb.error = "inprogress"),
           NEW k, syscall(k), req' = req, answer' = answer, moved' = k,
           Phase' = "moved",
           Told' = IF ~ req.async THEN "none" ELSE IF k = Failed THEN "Error" ELSE "Success"
    PROVE  Abstract!Serve
<1>1. /\ Phase = IF req.dir = "write" THEN "ready" ELSE "asked"
      /\ req.dir \in {"read", "write"}
      /\ mem \in [1 .. MemSize -> Byte]
      /\ tam = IF req.n = LEERCOMPLETO THEN size ELSE req.n
  BY PhaseIs, RequestType DEF IInv, TypeOK, Asked
<1>2. CASE k = Failed /\ UNCHANGED <<file, mem>>
  BY <1>1, <1>2 DEF Abstract!Serve, Abstract!Fail, Abstract!Failed, Failed
<1>3. CASE Moves(k)
  <2>1. k \in Count /\ k <= tam /\ k <= MemSize
    BY <1>1, <1>3, ReadMoves, WriteMoves DEF IInv
  <2>0. Told' = IF req.async THEN "Success" ELSE "none"
    BY <2>1 DEF Count, Failed
  <2>2. k \in 0 .. Len(mem)
    <3>1. Len(mem) = MemSize
      BY <1>1, LenProperties, SeqDef
    <3> QED
      BY <2>1, <3>1 DEF Count
  <2>3. req.n = LEERCOMPLETO \/ k <= req.n
    BY <1>1, <2>1
  <2>4. CASE req.dir = "read"
    <3>1. file' = file
      BY <1>3, <2>4 DEF Moves
    <3>2. mem' = [a \in DOMAIN mem |->
                    IF a - req.at \in 0 .. k - 1 THEN file[a - req.at + 1] ELSE mem[a]]
      <4>1. req.at \in Int /\ k \in Int /\ DOMAIN mem \subseteq Int
        BY <1>1, <2>1, RequestType DEF IInv, TypeOK, Count
      <4>2. \A a \in DOMAIN mem :
               a \in req.at .. req.at + k - 1 <=> a - req.at \in 0 .. k - 1
        BY <4>1
      <4> QED
        BY <1>3, <2>4, <4>2 DEF Moves
    <3> QED
      BY <1>1, <2>0, <2>2, <2>3, <2>4, <3>1, <3>2 DEF Abstract!Serve, Abstract!Move
  <2>5. CASE req.dir = "write"
    <3>1. /\ mem' = mem
          /\ file' = IF req.over
                      THEN SubSeq(mem, req.at, req.at + k - 1) \o SubSeq(file, k + 1, Len(file))
                      ELSE file \o SubSeq(mem, req.at, req.at + k - 1)
      BY <1>3, <2>5 DEF Moves
    <3> QED
      BY <1>1, <2>0, <2>2, <2>3, <2>5, <3>1 DEF Abstract!Serve, Abstract!Move, Abstract!Block
  <2> QED
    BY <1>1, <2>4, <2>5
<1> QED
  BY <1>2, <1>3 DEF syscall

\* Nothing is moved, and what is said of it fits.
LEMMA Fails ==
    ASSUME Phase \in {"asked", "ready"}, Phase' = "moved", moved' = Failed,
           UNCHANGED <<file, mem, req, answer>>,
           \/ Told' = "none"
           \/ Told' = "Success" /\ req.async /\ Phase = "ready"
    PROVE  [Abstract!Next]_(Abstract!vars)
  BY DEF Abstract!Next, Abstract!Serve, Abstract!Fail, Abstract!Failed, Failed

LEMMA ShellRefines ==
    ASSUME IInv, IInv', Shell
    PROVE  [Abstract!Next]_(Abstract!vars)
<1>1. TypeOK /\ TypeOK' /\ req.dir \in {"read", "write"}
  BY RequestType DEF IInv, TypeOK
<1>2. CASE stat
  <2>1. /\ pc = "stat" /\ UNCHANGED <<file, mem, req, answer, told, moved>>
        /\ Phase = "asked" /\ Told = told /\ told = "none" /\ moved = Failed
    BY <1>1, <1>2, PhaseIs DEF stat, IInv, Kept
  <2>2. CASE pc' = "open"
    BY <1>1, <2>1, <2>2, PhaseIsNext DEF Abstract!vars
  <2>3. CASE pc' = "close"
    BY <1>1, <2>1, <2>3, PhaseIsNext, Fails
  <2> QED
    BY <1>2, <2>2, <2>3 DEF stat, Return
<1>3. CASE open
  <2>1. /\ pc = "open" /\ UNCHANGED <<mem, req, answer, told, moved>>
        /\ Phase = "asked" /\ Told = told /\ told = "none" /\ moved = Failed
    BY <1>1, <1>3, PhaseIs DEF open, IInv, Kept
  <2>2. CASE /\ pc' = "transfer"
             /\ file' = IF req.dir = "write" /\ (req.over \/ file = NoFile)
                          THEN <<>> ELSE file
    <3>1. /\ Phase' = IF req.dir = "write" THEN "ready" ELSE "asked"
          /\ Told' = told
      BY <1>1, <2>1, <2>2, PhaseIsNext
    <3>2. CASE req.dir = "read"
      BY <2>1, <2>2, <3>1, <3>2 DEF Abstract!vars
    <3>3. CASE req.dir = "write"
      BY <2>1, <2>2, <3>1, <3>3 DEF Abstract!Next, Abstract!Serve, Abstract!Prepare
    <3> QED
      BY <1>1, <3>2, <3>3
  <2>3. CASE pc' = "close" /\ file' = file
    BY <1>1, <2>1, <2>3, PhaseIsNext, Fails
  <2> QED
    BY <1>3, <2>2, <2>3 DEF open, Return
<1>4. ASSUME NEW k, syscall(k), moved' = k, pc = "transfer", pc' = "close", ~ req.async,
             UNCHANGED <<req, answer, told>>
      PROVE  Abstract!Serve
  <2>1. file # NoFile /\ told = "none"
    BY <1>4 DEF IInv, Held, Kept
  <2>2. Phase' = "moved" /\ Told' = "none"
    BY <1>1, <1>4, <2>1, PhaseIsNext
  <2> QED
    BY <1>4, <2>1, <2>2, SyscallTransfers
<1>5. CASE read
  BY <1>4, <1>5 DEF read, Return, Abstract!Next
<1>6. CASE write
  BY <1>4, <1>6 DEF write, Abstract!Next
<1>7. CASE enqueue
  <2>1. /\ pc = "transfer" /\ UNCHANGED <<req, mem, file, answer, told, moved>>
        /\ Phase = IF req.dir = "write" THEN "ready" ELSE "asked"
        /\ Told = told /\ told = "none" /\ moved = Failed
        /\ cb = Zeroed /\ req.async
    BY <1>1, <1>7, PhaseIs DEF enqueue, IInv, Held, Kept
  <2>2. CASE cb' = [cb EXCEPT !.error = "inprogress"] /\ pc' = "wait"
    <3>1. cb'.error = "inprogress"
      BY <2>1, <2>2 DEF Zeroed
    <3>2. Phase' = Phase /\ Told' = Told
      BY <1>1, <2>1, <2>2, <3>1, PhaseIsNext
    <3> QED
      BY <2>1, <3>2 DEF Abstract!vars
  <2>3. CASE pc' = "close"
    BY <1>1, <2>1, <2>3, PhaseIsNext, Fails
  <2>4. CASE req.dir = "write" /\ pc' = "wait" /\ cb' = cb
    <3>1. Phase' = "moved" /\ Told' = "Success"
      BY <1>1, <2>1, <2>4, PhaseIsNext DEF Zeroed, Verdict, Failed
    <3> QED
      BY <2>1, <2>4, <3>1, Fails
  <2> QED
    BY <1>7, <2>2, <2>3, <2>4 DEF enqueue, Return
<1>8. CASE wait
  <2>1. Phase = "moved" /\ Told = Verdict
    BY <1>1, <1>8, PhaseIs DEF wait
  <2>2. Phase' = "moved" /\ Told' = Verdict
    BY <1>1, <1>8, PhaseIsNext DEF wait, Return
  <2> QED
    BY <1>8, <2>1, <2>2 DEF wait, Abstract!vars
<1>9. CASE close
  <2>1. Phase = "moved" /\ Told = told /\ (req.dir = "read" => nleidos = moved)
    BY <1>1, <1>9, PhaseIs DEF close, IInv, Kept
  <2>2. Phase' = "idle" /\ Told' = told
    BY <1>1, <1>9, PhaseIsNext DEF close
  <2> QED
    BY <1>9, <2>1, <2>2 DEF close, Abstract!Next, Abstract!Serve, Abstract!Reply
<1> QED
  BY <1>2, <1>3, <1>5, <1>6, <1>7, <1>8, <1>9 DEF Shell

\* Each step of the commands, of the library and of others is a step of a transfer,
\* or changes nothing that a transfer is about.
LEMMA NextRefines ==
    ASSUME IInv, IInv', [Next]_vars
    PROVE  [Abstract!Next]_(Abstract!vars)
<1>1. TypeOK /\ TypeOK'
  BY DEF IInv
<1>2. CASE Shell
  BY <1>2, ShellRefines
<1>3. CASE complete
  <2>1. PICK k \in Count \union {Failed} :
           /\ syscall(k) /\ moved' = k
           /\ cb' = [error |-> IF k = Failed THEN "io" ELSE "none", return |-> k]
    BY <1>3 DEF complete
  <2>2. /\ pc = "wait" /\ cb.error = "inprogress" /\ pc' = pc /\ req' = req
        /\ file # NoFile /\ answer' = answer
    BY <1>3 DEF complete, IInv, TypeOK, Held
  <2>3. cb'.error # "inprogress" /\ cb'.return = k
    BY <2>1
  <2>4. /\ Phase' = "moved"
        /\ Told' = IF k = Failed THEN "Error" ELSE "Success"
    BY <1>1, <2>2, <2>3, PhaseIsNext DEF Verdict
  <2>5. req.async
    BY <2>2 DEF IInv, Held
  <2> QED
    BY <2>1, <2>2, <2>4, <2>5, SyscallTransfers DEF Abstract!Next, Abstract!Serve
<1>4. CASE \E r \in Request : command(r)
  <2>1. PICK r \in Request : command(r)
    BY <1>4
  <2>2. Phase = "idle"
    BY <1>1, <2>1, PhaseIs DEF command
  <2>3. Phase' = "asked" /\ Told' = "none"
    BY <1>1, <2>1, PhaseIsNext DEF command
  <2>4. Abstract!Ask(r)
    BY <2>1, <2>2, <2>3 DEF command, Abstract!Ask, Abstract!Failed, Failed
  <2> QED
    BY <2>4 DEF Abstract!Next
<1>5. CASE \E f \in Content \union {NoFile} : Change(f)
  <2>1. PICK f \in Content \union {NoFile} : Change(f)
    BY <1>5
  <2>2. Phase' = Phase /\ Told' = Told
    BY <2>1 DEF Change, Phase, Told, Verdict, Answered
  <2>3. Abstract!Change
    BY <2>1, <2>2 DEF Change, Abstract!Change
  <2> QED
    BY <2>3 DEF Abstract!Next
<1>6. CASE UNCHANGED vars
  BY <1>6 DEF vars, Abstract!vars, Phase, Told, Verdict, Answered
<1> QED
  BY <1>2, <1>3, <1>4, <1>5, <1>6 DEF Next

\* Every behaviour of the commands starts as a transfer does and takes the steps of
\* one after another: nothing is moved but by the one step between a command and its
\* answer; read answers with what that step moved, write with what it was asked for,
\* and what is called an error has moved nothing (read_async, write_async,
\* LeerFichero, write_to_file).
THEOREM StepsOfTransfer ==
    Spec => Abstract!Init /\ [][Abstract!Next]_(Abstract!vars)
<1>1. Init => Abstract!Init
  <2> SUFFICES ASSUME Init
               PROVE  Abstract!Init
    OBVIOUS
  <2>1. Phase = "idle" /\ Told = "none"
    BY InitInv, PhaseIs DEF Init, IInv
  <2> QED
    BY <2>1 DEF Init, Abstract!Init, Abstract!Failed, Failed
<1>2. IInv /\ IInv' /\ [Next]_vars => [Abstract!Next]_(Abstract!vars)
  BY NextRefines
<1> QED
  BY <1>1, <1>2, InvCorrect, PTL DEF Spec

=============================================================================
