------------------------------ MODULE Listing ------------------------------
(***************************************************************************)
(* The commands list (libs/need_deps/list.c) and query (libs/query.c), on  *)
(* the tree and in the process of delete.  list -r is the walk of          *)
(* sys/recursive2.c with query_file as its callback, and that walk ends    *)
(* the shell (err) if errno is set at its end.                             *)
(*                                                                         *)
(* query_file clears errno when it succeeds: getpwuid and getgrgid of the  *)
(* C library do.  An operand is one name as glob returns it; a command     *)
(* with several operands is as many commands.                              *)
(***************************************************************************)
EXTENDS Delete

CONSTANT Hidden     \* the paths whose last name begins with a dot

ASSUME HiddenAssumption == Hidden \subseteq Path

VARIABLES
    lpc,            \* where list is
    operand,        \* what it lists
    walks,          \* the calls of walk_recur and their streams
    fn,             \* the entry being handled
    res,            \* WALK_BADIO in the first of the calls
    errno,          \* errno is not 0
    listed,         \* history: what this command has listed
    warned,         \* history: the walk has warned of something
    lmeddled,       \* history: what others did during this command
    gone            \* history: they removed something

errors == <<res, errno, warned>>
lghosts == <<lmeddled, gone>>
lvars == <<lpc, operand, walks, fn, errors, listed, lghosts>>
allvars == <<vars, lvars>>

NoPath == <<>>

Walk == [name : Path, dir : Path, unread : SUBSET Path, due : SUBSET Path]

ListTypeOK ==
    /\ TypeOK
    /\ lpc \in {"prompt", "opendir", "readdir", "query_file", "exited"}
    /\ operand \in Path \union {NoPath} /\ fn \in Path \union {NoPath}
    /\ lpc # "prompt" => operand \in Path
    /\ walks \in Seq(Walk)
    /\ Len(walks) + Len(frames) + leaked <= MaxFds
    /\ res \in BOOLEAN /\ errno \in BOOLEAN /\ warned \in BOOLEAN
    /\ listed \subseteq Path
    /\ lmeddled \in 0 .. MaxMeddle /\ gone \in BOOLEAN

\* No command reads what list left in its variables.
Fresh ==
    /\ operand' = NoPath /\ fn' = NoPath
    /\ res' = FALSE /\ errno' = FALSE /\ warned' = FALSE
    /\ listed' = {} /\ lmeddled' = 0 /\ gone' = FALSE

ListInit ==
    /\ Init
    /\ lpc = "prompt" /\ operand = NoPath
    /\ walks = <<>> /\ fn = NoPath
    /\ res = FALSE /\ errno = FALSE /\ warned = FALSE
    /\ listed = {} /\ lmeddled = 0 /\ gone = FALSE

-----------------------------------------------------------------------------
(* Others, and delete.                                                     *)

WalkMeddle ==
    IF lpc = "prompt" THEN UNCHANGED lmeddled
    ELSE lmeddled < MaxMeddle /\ lmeddled' = lmeddled + 1

Adopt(p, k) ==
    /\ lpc # "exited"
    /\ Make(p, k)
    /\ \A i \in DOMAIN walks : walks[i].dir # p /\ walks[i].name # p
    /\ walks' = [i \in DOMAIN walks |->
                   IF walks[i].dir # Parent(p) THEN walks[i]
                   ELSE [walks[i] EXCEPT !.unread = @ \union {p}]]
    /\ WalkMeddle
    /\ UNCHANGED <<lpc, operand, fn, errors, listed, gone>>

Lose(p) ==
    /\ lpc # "exited"
    /\ Unmake(p)
    /\ walks' = [i \in DOMAIN walks |-> [walks[i] EXCEPT !.due = @ \ {p}]]
    /\ WalkMeddle
    /\ gone' = (gone \/ lpc # "prompt")
    /\ UNCHANGED <<lpc, operand, fn, errors, listed>>

Deleting ==
    /\ lpc = "prompt"
    /\ Shell \/ \E p \in Path, r \in BOOLEAN : delete(p, r)
    /\ UNCHANGED lvars

-----------------------------------------------------------------------------
(* The command (__start, query, wildcard, isDirectory).                    *)

\* delete has nothing to say of what happens during a list.
NotDeleting ==
    /\ path' = (CHOOSE q \in Path : TRUE) /\ target' = path'
    /\ said' = FALSE /\ before' = leaked /\ easy' = FALSE /\ meddled' = 0

\* lstat finds p: a link by which the walk came here is still there.
Looks(p) ==
    /\ kind[p] # "none" /\ ~ Denied(p)
    /\ \A i \in DOMAIN walks : Led(walks[i]) => kind[walks[i].name] = "link"

\* A name that glob does not find is a message.
wildcard(p) == Looks(p)

isDirectory(p) == Looks(p) /\ Looks(Where(p)) /\ kind[Where(p)] = "dir"

\* list -r of a directory, or of a link to one.
list(p) ==
    /\ pc = "prompt" /\ lpc = "prompt"
    /\ wildcard(p) /\ isDirectory(p)
    /\ operand' = p /\ fn' = p
    /\ lpc' = "opendir"
    /\ NotDeleting
    /\ UNCHANGED <<tree, streams, pc, walks, errors, listed, lghosts>>

\* Without -r, and in query, query_file is all there is: it prints, and leaves
\* errno to a walk that will clear it.
query(p) ==
    /\ pc = "prompt" /\ lpc = "prompt"
    /\ wildcard(p)
    /\ UNCHANGED allvars

\* An entry that is not found leaves errno set; any other leaves it cleared.
query_file ==
    /\ lpc = "query_file"
    /\ \/ /\ ~ Looks(fn)
          /\ errno' = TRUE /\ warned' = TRUE
          /\ UNCHANGED listed
       \/ /\ Looks(fn)
          /\ errno' = FALSE
          /\ listed' = listed \union {fn}
          /\ UNCHANGED warned
    /\ lpc' = "readdir"
    /\ UNCHANGED <<operand, walks, fn, res, lghosts>>

-----------------------------------------------------------------------------
(* The walk (walk_recur, recursive).                                       *)

Here == walks[Len(walks)]

\* No stream left, no permission, or no directory any more: the walk of p fails.
WalkOpens(p) ==
    /\ isDirectory(p)
    /\ mode[Where(p)] # "unreadable" /\ Len(walks) + leaked < MaxFds

\* Variant: the result of a nested walk counts.
walk_opendir_strict ==
    /\ lpc = "opendir"
    /\ \/ /\ WalkOpens(fn)
          /\ walks' = Append(walks, [name |-> fn, dir |-> Where(fn),
                                     unread |-> Entries(Where(fn)),
                                     due |-> Entries(Where(fn))])
          /\ errno' = FALSE
          /\ lpc' = "readdir"
          /\ UNCHANGED <<warned, res>>
       \/ /\ ~ WalkOpens(fn)
          /\ warned' = TRUE
          /\ errno' = TRUE
          /\ res' = TRUE
          /\ lpc' = IF walks = <<>> THEN "exited" ELSE "query_file"
          /\ UNCHANGED walks
    /\ UNCHANGED <<operand, fn, listed, lghosts>>

\* The walk of a directory that cannot be opened is over; what it returns counts
\* for the operand only.
walk_opendir ==
    /\ lpc = "opendir"
    /\ \/ /\ WalkOpens(fn)
          /\ walks' = Append(walks, [name |-> fn, dir |-> Where(fn),
                                     unread |-> Entries(Where(fn)),
                                     due |-> Entries(Where(fn))])
          /\ errno' = FALSE
          /\ lpc' = "readdir"
          /\ UNCHANGED warned
       \/ /\ ~ WalkOpens(fn)
          /\ warned' = TRUE
          /\ errno' = TRUE
          /\ lpc' = IF walks = <<>> THEN "exited" ELSE "query_file"
          /\ UNCHANGED walks
    /\ UNCHANGED <<operand, fn, res, listed, lghosts>>

Skip(e) ==
    walks' = Append(Front(walks), [Here EXCEPT !.unread = @ \ {e}, !.due = @ \ {e}])

\* Variant: a hidden entry ends the walk of its directory.
walk_readdir_break(e) ==
    /\ lpc = "readdir" /\ e \in Here.unread
    /\ \/ /\ e \in Hidden
          /\ walks' = Append(Front(walks), [Here EXCEPT !.unread = {}, !.due = {}])
          /\ UNCHANGED <<lpc, fn, errors>>
       \/ /\ e \notin Hidden /\ Looks(e) /\ kind[e] = "link"
          /\ Skip(e)
          /\ UNCHANGED <<lpc, fn, errors>>
       \/ /\ e \notin Hidden /\ Looks(e) /\ kind[e] # "link"
          /\ Skip(e)
          /\ fn' = e
          /\ lpc' = IF kind[e] = "dir" THEN "opendir" ELSE "query_file"
          /\ UNCHANGED errors
    /\ UNCHANGED <<operand, listed, lghosts>>

\* The next entry: hidden, not found by lstat, a link, or to be handled.
walk_readdir(e) ==
    /\ lpc = "readdir" /\ e \in Here.unread
    /\ Skip(e)
    /\ \/ /\ e \in Hidden
          /\ UNCHANGED <<lpc, fn, errors>>
       \/ /\ e \notin Hidden /\ ~ Looks(e)
          /\ res' = (res \/ Len(walks) = 1) /\ errno' = TRUE /\ warned' = TRUE
          /\ UNCHANGED <<lpc, fn>>
       \/ /\ e \notin Hidden /\ Looks(e) /\ kind[e] = "link"
          /\ UNCHANGED <<lpc, fn, errors>>
       \/ /\ e \notin Hidden /\ Looks(e) /\ kind[e] # "link"
          /\ fn' = e
          /\ lpc' = IF kind[e] = "dir" THEN "opendir" ELSE "query_file"
          /\ UNCHANGED errors
    /\ UNCHANGED <<operand, listed, lghosts>>

\* A nested walk is followed by func on its directory, the first one by the end
\* of the command, or of the shell.
walk_closedir ==
    /\ lpc = "readdir" /\ Here.due = {}
    /\ walks' = Front(walks)
    /\ \/ /\ Len(walks) > 1
          /\ fn' = Here.name
          /\ lpc' = "query_file"
          /\ UNCHANGED <<operand, errors, listed, lghosts>>
       \/ /\ Len(walks) = 1 /\ (res \/ errno)
          /\ lpc' = "exited"
          /\ UNCHANGED <<operand, fn, errors, listed, lghosts>>
       \/ /\ Len(walks) = 1 /\ ~ res /\ ~ errno
          /\ lpc' = "prompt"
          /\ Fresh

Listing ==
    /\ \/ query_file \/ walk_opendir \/ walk_closedir
       \/ \E e \in Path : walk_readdir(e)
    /\ UNCHANGED vars

-----------------------------------------------------------------------------

ListNext ==
    \/ Deleting \/ Listing
    \/ \E p \in Path : list(p) \/ query(p)
    \/ \E p \in Path, k \in Kind : Adopt(p, k)
    \/ \E p \in Path : Lose(p)

ListSpec == ListInit /\ [][ListNext]_allvars /\ WF_allvars(Deleting /\ pc # "prompt")
                                             /\ WF_allvars(Listing)

-----------------------------------------------------------------------------

\* What a walk of p comes across: no links, nothing hidden, and nothing below it.
Reached(p) ==
    {q \in Below(p) : /\ q # p /\ kind[q] # "link"
                     /\ \A h \in Hidden : IsPrefix(h, q) => Len(h) <= Len(p)}

Closed == {"unreadable", "unsearchable"}

Fits(p) ==
    \A d \in Reached(p) \union {p} :
        kind[d] = "dir" => mode[d] \notin Closed /\ leaked + Len(d) - Len(p) < MaxFds

\* list ends the shell ("IO error") only if something was removed under it, no
\* stream was left for the operand itself, or the operand itself cannot be read or
\* searched; a directory further down that cannot be opened, or whose entries
\* cannot be looked at, does not, whatever readdir returns next.
ListFatal ==
    lpc = "exited" => gone \/ leaked = MaxFds \/ mode[Where(operand)] \in Closed

\* list -r of a tree that nobody disturbs lists each entry once, and a directory
\* behind its contents; in the end all that is neither hidden nor a link is listed,
\* unless the walk warns of a directory that it may not read or search, or that
\* is too deep for the streams left.
ListsAll ==
    /\ [](lpc = "query_file" /\ lmeddled = 0 =>
            fn \notin listed /\ (~ warned => Reached(fn) \subseteq listed))
    /\ [][/\ walks # <<>> /\ lpc' = "prompt" /\ lmeddled = 0
          /\ (Fits(Where(operand)) \/ ~ warned)
          => listed = Reached(Where(operand))]_allvars

\* Every command ends, delete too.
CommandEnds ==
    pc # "prompt" \/ lpc # "prompt" ~> pc = "prompt" /\ lpc \in {"prompt", "exited"}

=============================================================================
