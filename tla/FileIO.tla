------------------------------- MODULE FileIO -------------------------------
(***************************************************************************)
(* The commands read and write (libs/need_lrt/read.c, write.c) between a   *)
(* file that others change meanwhile and the memory of the shell.  With    *)
(* -async the request is given to the C library, which carries it out on a *)
(* thread of its own, while the command polls its control block.           *)
(*                                                                         *)
(* A command of the wrong form, and a write of five words or more with     *)
(* neither -o nor -async, leave everything as it is.                       *)
(*                                                                         *)
(* What a command says counts as well: read says how much was read, write  *)
(* says how much it was asked to write, whatever became of it, and with    *)
(* -async both say first whether the request was a success.                *)
(***************************************************************************)
EXTENDS Integers, Sequences, SequencesExt

CONSTANTS
    Byte,
    NoFile,     \* there is no file
    MemSize,    \* bytes of memory; the addresses behind it are not mapped
    MaxLen      \* bytes the disk has for the file

ASSUME ConstantsAssumption ==
    /\ MemSize \in Nat /\ MaxLen \in Nat
    /\ NoFile \notin Seq(Byte)

VARIABLES
    file,       \* what the file holds
    mem,
    req,        \* the command
    pc,
    tam,        \* how much it is to move
    df,         \* its descriptor is open
    cb,         \* the control block, on the stack of the command
    queued,     \* external: the library has a request that points to cb
    nleidos,    \* what the transfer returned, if the command keeps it
    told,       \* what the command says of its request: "Success" or "Error"
    answer,     \* the count it says it has read or written
    size, low,  \* history: the length of the file as stat saw it, and the
                \* least one since
    moved       \* history: what the transfer moved, or Failed

ghosts == <<size, low, moved>>
said == <<told, answer>>
vars == <<file, mem, req, pc, tam, df, cb, queued, nleidos, said, ghosts>>

Content == SeqOf(Byte, MaxLen)

LEERCOMPLETO == -1
Failed == -1

\* read fich addr [cont] [-async]
ReadRequest ==
    [dir : {"read"}, at : 1 .. MemSize + 1, n : {LEERCOMPLETO} \union 0 .. MaxLen,
     async : BOOLEAN, over : {FALSE}]

\* write fich addr cont [-o] [-async]
WriteRequest ==
    [dir : {"write"}, at : 1 .. MemSize + 1, n : 0 .. MaxLen,
     async : BOOLEAN, over : BOOLEAN]

Request == ReadRequest \union WriteRequest

Count == 0 .. MaxLen

\* While the library has a request the command that made it has not returned and
\* its descriptor is open; a command leaves neither behind.
TypeOK ==
    /\ queued => pc = "wait" /\ df
    /\ pc = "prompt" => ~ df
    /\ file \in Content \union {NoFile}
    /\ mem \in [1 .. MemSize -> Byte]
    /\ req \in Request
    /\ pc \in {"prompt", "stat", "open", "transfer", "wait", "close"}
    /\ tam \in Count
    /\ df \in BOOLEAN /\ queued \in BOOLEAN
    /\ cb \in [error : {"none", "inprogress", "io"}, return : Count \union {Failed}]
    /\ nleidos \in Count \union {Failed}
    /\ told \in {"none", "Success", "Error"} /\ answer \in Count \union {Failed}
    /\ size \in Count /\ low \in Count /\ moved \in Count \union {Failed}

Zeroed == [error |-> "none", return |-> 0]

Init ==
    /\ file \in Content \union {NoFile}
    /\ mem \in [1 .. MemSize -> Byte]
    /\ req \in Request /\ pc = "prompt"
    /\ tam = 0 /\ df = FALSE /\ cb = Zeroed /\ queued = FALSE /\ nleidos = Failed
    /\ told = "none" /\ answer = Failed
    /\ size = 0 /\ low = 0 /\ moved = Failed

Length(f) == IF f = NoFile THEN 0 ELSE Len(f)

-----------------------------------------------------------------------------
(* Others.  Once the command has it open, a file that is removed is no     *)
(* longer anybody else's, and what becomes of it is not modelled.          *)

Change(f) ==
    /\ f = NoFile => ~ df
    /\ file' = f
    /\ low' = Min({low, Length(f)})
    /\ UNCHANGED <<mem, req, pc, tam, df, cb, queued, nleidos, said, size, moved>>

-----------------------------------------------------------------------------
(* The transfer, in the system call of the command or of the library.      *)

Mapped(k) == req.at + k - 1 <= MemSize

\* A read is cut short by the end of the file or of the memory, a write by the
\* end of the disk or of the memory.
Movable ==
    {k \in 1 .. tam :
        /\ Mapped(k)
        /\ req.dir = "read" => k <= Len(file)
        /\ req.dir = "write" => k <= MaxLen - (IF req.over THEN 0 ELSE Len(file))}

Moves(k) ==
    IF req.dir = "read"
      THEN /\ k = Max(Movable \union {0})
           /\ k = 0 => tam = 0 \/ file = <<>>
           /\ mem' = [a \in DOMAIN mem |->
                        IF a \in req.at .. req.at + k - 1 THEN file[a - req.at + 1]
                                                           ELSE mem[a]]
           /\ UNCHANGED file
      ELSE /\ k \in Movable \/ (k = 0 /\ tam = 0)
           /\ LET block == SubSeq(mem, req.at, req.at + k - 1) IN
              file' = IF req.over THEN block \o SubSeq(file, k + 1, Len(file))
                                  ELSE file \o block
           /\ UNCHANGED mem

\* The call returns k, or fails; a failure moves nothing.
syscall(k) == Moves(k) \/ (k = Failed /\ UNCHANGED <<file, mem>>)

\* External: the thread of the library.
complete ==
    /\ queued
    /\ queued' = FALSE
    /\ \E k \in Count \union {Failed} :
          /\ syscall(k)
          /\ ~ df => k = Failed
          /\ moved' = k
          /\ cb' = [error |-> IF k = Failed THEN "io" ELSE "none", return |-> k]
    /\ UNCHANGED <<req, pc, tam, df, nleidos, said, size, low>>

-----------------------------------------------------------------------------
(* The commands.                                                           *)

command(r) ==
    /\ pc = "prompt"
    /\ req' = r
    /\ pc' = IF r.dir = "read" THEN "stat" ELSE "open"
    /\ tam' = IF r.dir = "read" THEN 0 ELSE r.n
    /\ cb' = Zeroed /\ nleidos' = Failed /\ told' = "none" /\ answer' = Failed
    /\ size' = 0 /\ low' = 0 /\ moved' = Failed
    /\ UNCHANGED <<file, mem, df, queued>>

Return(r) == nleidos' = r /\ pc' = "close"

\* Variant: LEERCOMPLETO, as a size, is more than any file has.
stat_unsized ==
    /\ pc = "stat"
    /\ \/ /\ file # NoFile
          /\ tam' = IF req.n = LEERCOMPLETO THEN MaxLen ELSE req.n
          /\ size' = Len(file) /\ low' = Len(file)
          /\ pc' = "open"
          /\ UNCHANGED nleidos
       \/ Return(Failed) /\ UNCHANGED <<tam, size, low>>
    /\ UNCHANGED <<file, mem, req, df, cb, queued, said, moved>>

\* How much there is to read, before the file is opened.
stat ==
    /\ pc = "stat"
    /\ \/ /\ file # NoFile
          /\ tam' = IF req.n = LEERCOMPLETO THEN Len(file) ELSE req.n
          /\ size' = Len(file) /\ low' = Len(file)
          /\ pc' = "open"
          /\ UNCHANGED nleidos
       \/ Return(Failed) /\ UNCHANGED <<tam, size, low>>
    /\ UNCHANGED <<file, mem, req, df, cb, queued, said, moved>>

\* Variant: O_TRUNC and O_APPEND are mixed up.
open_swapped ==
    /\ pc = "open"
    /\ \/ /\ req.dir = "read" => file # NoFile
          /\ file' = IF req.dir = "write" /\ (~ req.over \/ file = NoFile) THEN <<>> ELSE file
          /\ df' = TRUE
          /\ pc' = "transfer"
          /\ UNCHANGED nleidos
       \/ Return(Failed) /\ UNCHANGED <<file, df>>
    /\ UNCHANGED <<mem, req, tam, cb, queued, said, ghosts>>

\* O_RDONLY, or O_CREAT with O_TRUNC or O_APPEND.
open ==
    /\ pc = "open"
    /\ \/ /\ req.dir = "read" => file # NoFile
          /\ file' = IF req.dir = "write" /\ (req.over \/ file = NoFile) THEN <<>> ELSE file
          /\ df' = TRUE
          /\ pc' = "transfer"
          /\ UNCHANGED nleidos
       \/ Return(Failed) /\ UNCHANGED <<file, df>>
    /\ UNCHANGED <<mem, req, tam, cb, queued, said, ghosts>>

\* LeerFichero
read ==
    /\ pc = "transfer" /\ ~ req.async /\ req.dir = "read"
    /\ \E k \in Count \union {Failed} : syscall(k) /\ Return(k) /\ moved' = k
    /\ UNCHANGED <<req, tam, df, cb, queued, said, size, low>>

\* write_to_file does not look at what write returns.
write ==
    /\ pc = "transfer" /\ ~ req.async /\ req.dir = "write"
    /\ \E k \in Count \union {Failed} : syscall(k) /\ moved' = k
    /\ pc' = "close"
    /\ UNCHANGED <<req, tam, df, cb, queued, nleidos, said, size, low>>

\* Variant: the request is not waited for.
enqueue_only ==
    /\ pc = "transfer" /\ req.async
    /\ queued' = TRUE
    /\ cb' = [cb EXCEPT !.error = "inprogress"]
    /\ Return(0)
    /\ UNCHANGED <<file, mem, req, tam, df, said, ghosts>>

\* aio_read(&cb) or aio_write(&cb).  If it fails, read gives up, and write polls
\* a block that nobody will change.
enqueue ==
    /\ pc = "transfer" /\ req.async
    /\ \/ /\ queued' = TRUE
          /\ cb' = [cb EXCEPT !.error = "inprogress"]
          /\ pc' = "wait"
          /\ UNCHANGED <<df, nleidos>>
       \/ /\ req.dir = "read"
          /\ Return(Failed)
          /\ UNCHANGED <<df, cb, queued>>
       \/ /\ req.dir = "write"
          /\ df' = FALSE
          /\ pc' = "wait"
          /\ UNCHANGED <<cb, queued, nleidos>>
    /\ UNCHANGED <<file, mem, req, tam, said, ghosts>>

\* Variant: a count of 0 is the failure.
Verdict_count == IF cb.return = 0 THEN "Error" ELSE "Success"

Verdict == IF cb.return = Failed THEN "Error" ELSE "Success"

\* aio_error(&cb) is polled until the request is done, and aio_return(&cb) judged.
wait ==
    /\ pc = "wait" /\ cb.error # "inprogress"
    /\ told' = Verdict
    /\ Return(cb.return)
    /\ UNCHANGED <<file, mem, req, tam, df, cb, queued, answer, ghosts>>

\* The descriptor is closed, or closed again: that does no harm, for the shell has
\* opened nothing in between.  Then the command says how much it has read, or how
\* much it was to write.
close ==
    /\ pc = "close"
    /\ df' = FALSE
    /\ answer' = IF req.dir = "read" THEN nleidos ELSE req.n
    /\ pc' = "prompt"
    /\ UNCHANGED <<file, mem, req, tam, cb, queued, nleidos, told, ghosts>>

-----------------------------------------------------------------------------

Shell == stat \/ open \/ read \/ write \/ enqueue \/ wait \/ close

Next ==
    \/ Shell \/ complete
    \/ \E r \in Request : command(r)
    \/ \E f \in Content \union {NoFile} : Change(f)

Spec == Init /\ [][Next]_vars /\ WF_vars(Shell) /\ WF_vars(complete)

-----------------------------------------------------------------------------

\* A read without a count that has room returns no more bytes than stat saw and
\* no fewer than the file had ever since, whoever wrote to it meanwhile.
WholeFile ==
    pc = "close" /\ req.n = LEERCOMPLETO /\ nleidos # Failed /\ Mapped(size)
        => nleidos \in low .. size

Answered == pc = "close" \/ (pc = "wait" /\ cb.error # "inprogress")

\* What the command says of its request, and how far its transfer has come.
Told == IF pc = "wait" /\ Answered THEN Verdict ELSE told

Phase == CASE pc = "prompt" -> "idle"
           [] Answered -> "moved"
           [] ~ Answered /\ pc \in {"transfer", "wait"} /\ req.dir = "write" -> "ready"
           [] OTHER -> "asked"

Abstract == INSTANCE Transfer
                WITH Whole <- LEERCOMPLETO, phase <- Phase, told <- Told

\* With -async as without, each command is one transfer, and each is answered:
\* read with what was moved, write with what was asked for (read_async,
\* write_async, LeerFichero, write_to_file).
OneTransfer == Abstract!Spec

\* What a command calls a success has been carried out and what it calls an error
\* has not, with one exception: a write whose request was refused is called a
\* success, and it closes its descriptor for the second time (write.c:32-52).
ToldRight ==
    pc = "close" /\ told # "none" =>
        /\ told = "Success" <=> moved # Failed \/ ~ df
        /\ ~ df => req.dir = "write" /\ moved = Failed

=============================================================================
