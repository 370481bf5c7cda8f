------------------------------ MODULE Transfer ------------------------------
(***************************************************************************)
(* What the commands read and write promise, with -async or without: one   *)
(* transfer between a file and memory, at one moment between the command   *)
(* and its answer, and nothing is moved at any other time.  The answer of  *)
(* read is what that transfer moved.  The answer of write is only what it  *)
(* was asked for, whether that was moved, less or nothing.  With -async    *)
(* the command also tells whether the transfer was a success; what has     *)
(* been moved is one, but write may call one what never came about.        *)
(***************************************************************************)
EXTENDS Integers, Sequences

CONSTANTS
    Content,    \* what a file can hold
    NoFile,     \* there is no file
    Request,    \* what a command can ask for
    Whole       \* the count of a read that asks for all there is

Failed == -1

VARIABLES
    file, mem, phase, req,
    moved,      \* what the transfer has moved, or Failed
    told,       \* what is said of it
    answer      \* the count that is said to have been moved

vars == <<file, mem, phase, req, moved, told, answer>>

Init ==
    /\ file \in Content \union {NoFile}
    /\ phase = "idle" /\ moved = Failed /\ told = "none" /\ answer = Failed
    /\ req \in Request

\* Somebody else changes the file, at any moment.
Change ==
    /\ file' \in Content \union {NoFile}
    /\ UNCHANGED <<mem, phase, req, moved, told, answer>>

Ask(r) ==
    /\ phase = "idle"
    /\ phase' = "asked" /\ req' = r
    /\ moved' = Failed /\ told' = "none" /\ answer' = Failed
    /\ UNCHANGED <<file, mem>>

\* To write, the file is created, or emptied if it is to be overwritten.
Prepare ==
    /\ phase = "asked" /\ req.dir = "write"
    /\ file' = IF req.over \/ file = NoFile THEN <<>> ELSE file
    /\ phase' = "ready"
    /\ UNCHANGED <<mem, req, moved, told, answer>>

Block(k) == SubSeq(mem, req.at, req.at + k - 1)

\* The first k bytes of the file, or of the block of memory.
Move(k) ==
    /\ req.n = Whole \/ k <= req.n
    /\ moved' = k
    /\ told' = IF req.async THEN "Success" ELSE "none"
    /\ phase' = "moved"
    /\ UNCHANGED <<req, answer>>
    /\ \/ /\ phase = "asked" /\ req.dir = "read"
          /\ mem' = [a \in DOMAIN mem |->
                       IF a - req.at \in 0 .. k - 1 THEN file[a - req.at + 1] ELSE mem[a]]
          /\ UNCHANGED file
       \/ /\ phase = "ready"
          /\ file' = IF req.over THEN Block(k) \o SubSeq(file, k + 1, Len(file))
                                 ELSE file \o Block(k)
          /\ UNCHANGED mem

\* Nothing is moved, and if anything is said of it, it is that; but for the write
\* that could not even be queued.
Fail ==
    /\ phase \in {"asked", "ready"}
    /\ moved' = Failed
    /\ \/ told' = "none"
       \/ told' = "Error" /\ req.async
       \/ told' = "Success" /\ req.async /\ phase = "ready"
    /\ phase' = "moved"
    /\ UNCHANGED <<file, mem, req, answer>>

Reply ==
    /\ phase = "moved"
    /\ answer' = IF req.dir = "read" THEN moved ELSE req.n
    /\ phase' = "idle"
    /\ UNCHANGED <<file, mem, req, moved, told>>

Serve == Prepare \/ Fail \/ Reply \/ \E k \in 0 .. Len(mem) : Move(k)

Next == Change \/ Serve \/ \E r \in Request : Ask(r)

Spec == Init /\ [][Next]_vars /\ WF_vars(Serve)

=============================================================================
