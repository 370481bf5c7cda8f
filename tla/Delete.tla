------------------------------- MODULE Delete -------------------------------
(***************************************************************************)
(* The command delete (libs/delete.c): a file, an empty directory, or with *)
(* -r a whole tree, while others make and remove entries of that tree.     *)
(*                                                                         *)
(* delete_recursive is a recursion with one directory stream per level.    *)
(* It returns early, and leaves the stream open, when an entry cannot be   *)
(* deleted; the caller takes no notice and tries to remove the directory.  *)
(* The streams left open stay with the shell, in whose process every       *)
(* command runs, and there are only so many.                               *)
(*                                                                         *)
(* stat and opendir follow a symbolic link, unlink and rmdir do not.  An   *)
(* entry is known here by the directory it really lies in; a call          *)
(* remembers too by which path it came to its directory.                   *)
(***************************************************************************)
EXTENDS Integers, Sequences, SequencesExt

CONSTANTS
    Path,       \* the paths there may be: sequences of names
    Links,      \* bound: those that may be symbolic links
    to,         \* where each of these leads
    Modes,      \* what the shell may not do with each path: one of these
    MaxFds,     \* descriptors left for directory streams
    MaxMeddle   \* bound: what others do during one command

Parent(p) == SubSeq(p, 1, Len(p) - 1)

\* A stuck path cannot be removed (the mode of its directory, a mount), an
\* unreadable directory not opened, the entries of an unsearchable one not reached.
Mode == {"open", "stuck", "unreadable", "unsearchable"}

\* With a path there is that of its directory.
ASSUME ConstantsAssumption ==
    /\ Path \subseteq Seq(STRING) \ {<<>>} /\ Path # {}
    /\ \A p \in Path : Len(p) > 1 => Parent(p) \in Path
    /\ Links \subseteq Path /\ to \in [Links -> Path \ Links]
    /\ Modes \subseteq [Path -> Mode]
    /\ MaxFds \in Nat
    /\ MaxMeddle \in Nat

VARIABLES
    kind,       \* what each path is
    mode,       \* what the shell may not do with it
    frames,     \* the calls of delete_recursive and their streams
    leaked,     \* streams left open by calls that have returned
    pc,
    path,       \* the path being handled
    said,       \* history: this command printed a message
    target,     \* history: what this command is to remove
    before,     \* history: leaked when this command began
    easy,       \* history: nothing stood in the way of this command
    meddled     \* history: what others did during this command

tree == <<kind, mode>>
streams == <<frames, leaked>>
ghosts == <<target, before, easy, meddled>>
vars == <<tree, streams, pc, path, said, ghosts>>

Kind == {"file", "dir", "link"}

\* A call: the path of its directory, and that directory.
Frame == [name : Path, dir : Path, unread : SUBSET (Path \X Kind), due : SUBSET Path]

TypeOK ==
    /\ kind \in [Path -> Kind \union {"none"}]
    /\ \A p \in Path : kind[p] = "link" => p \in Links
    /\ mode \in Modes
    /\ frames \in Seq(Frame)
    /\ leaked \in Nat /\ before \in Nat
    /\ Len(frames) + leaked <= MaxFds
    /\ pc \in {"prompt", "opendir", "readdir", "directory_empty", "unlink", "rmdir"}
    /\ path \in Path /\ target \in Path
    /\ said \in BOOLEAN /\ easy \in BOOLEAN
    /\ meddled \in 0 .. MaxMeddle

\* Everything lies in a directory, the first names in the current one.
IsTree(k) == \A p \in Path : k[p] # "none" /\ Len(p) > 1 => k[Parent(p)] = "dir"

Init ==
    /\ kind \in {k \in [Path -> Kind \union {"none"}] :
                   IsTree(k) /\ \A p \in Path : k[p] = "link" => p \in Links}
    /\ mode \in Modes
    /\ frames = <<>> /\ leaked = 0
    /\ pc = "prompt" /\ path = (CHOOSE q \in Path : TRUE) /\ target = path
    /\ said = FALSE /\ before = 0 /\ easy = FALSE /\ meddled = 0

\* No stream has to return p any more.
NotDue(p) == [i \in DOMAIN frames |-> [frames[i] EXCEPT !.due = @ \ {p}]]

Entries(d) == {p \in Path : Parent(p) = d /\ kind[p] # "none"}

Below(d) == {p \in Path : IsPrefix(d, p) /\ kind[p] # "none"}

Where(p) == IF kind[p] = "link" THEN to[p] ELSE p

Denied(p) == \E d \in Path : IsStrictPrefix(d, p) /\ mode[d] = "unsearchable"

\* A call that came to its directory by a link.
Led(f) == f.name # f.dir

-----------------------------------------------------------------------------
(* Others.                                                                 *)

Meddle ==
    /\ IF pc = "prompt" THEN UNCHANGED meddled
                        ELSE meddled < MaxMeddle /\ meddled' = meddled + 1
    /\ UNCHANGED <<mode, leaked, pc, path, said, target, before, easy>>

\* A stream that is open may return a new entry or not.  Nobody makes anew the
\* directory, or the link to it, that a stream is open on.
Make(p, k) ==
    /\ kind[p] = "none" /\ (k = "link" => p \in Links)
    /\ Len(p) > 1 => kind[Parent(p)] = "dir"
    /\ \A i \in DOMAIN frames : frames[i].dir # p /\ frames[i].name # p
    /\ kind' = [kind EXCEPT ![p] = k]
    /\ frames' = [i \in DOMAIN frames |->
                    IF frames[i].dir # Parent(p) THEN frames[i]
                    ELSE [frames[i] EXCEPT !.unread = @ \union {<<p, k>>}]]
    /\ Meddle

\* It may return an entry that is gone, with the type it had.
Unmake(p) ==
    /\ kind[p] # "none" /\ Entries(p) = {}
    /\ kind' = [kind EXCEPT ![p] = "none"]
    /\ frames' = NotDue(p)
    /\ Meddle

-----------------------------------------------------------------------------
(* The command (__start).                                                  *)

FreeFd == Len(frames) + leaked < MaxFds

Top == frames[Len(frames)]

\* lstat finds p: a link by which a call came here is still there.
Found(p) ==
    /\ kind[p] # "none" /\ ~ Denied(p)
    /\ \A i \in DOMAIN frames : Led(frames[i]) => kind[frames[i].name] = "link"

\* stat finds p, and what p leads to if it is a link.
Leads(p) == Found(p) /\ Found(Where(p))

Opens(p) ==
    /\ Leads(p) /\ kind[Where(p)] = "dir"
    /\ mode[Where(p)] # "unreadable" /\ FreeFd

\* All below p is open, and there are streams enough for its levels.
Easy(p) ==
    /\ \A q \in Below(p) : mode[q] = "open"
    /\ \A d \in Below(p) : kind[d] = "dir" => leaked + Len(d) - Len(p) < MaxFds

delete(p, r) ==
    /\ pc = "prompt"
    /\ path' = p /\ target' = p
    /\ before' = leaked /\ meddled' = 0
    /\ easy' = (r /\ kind[p] = "dir" /\ Found(p) /\ Easy(p))
    /\ \/ /\ Leads(p) /\ r /\ kind[Where(p)] = "dir"
          /\ pc' = "opendir" /\ said' = FALSE
       \/ /\ Leads(p) /\ ~ r /\ kind[Where(p)] = "dir"
          /\ pc' = "directory_empty" /\ said' = FALSE
       \/ /\ Leads(p) /\ ~ r /\ kind[Where(p)] = "file"
          /\ pc' = "unlink" /\ said' = FALSE
       \/ /\ ~ Leads(p) \/ (r /\ kind[Where(p)] = "file")
          /\ pc' = "prompt" /\ said' = TRUE
    /\ UNCHANGED <<tree, streams>>

\* Back in the caller, which goes on reading, or at the end of the command.
Resume == pc' = IF frames = <<>> THEN "prompt" ELSE "readdir"

\* Variant: the caller goes on with the directory above.
GiveUp_parent ==
    /\ said' = TRUE
    /\ IF frames = <<>>
         THEN pc' = "prompt" /\ UNCHANGED <<streams, path>>
         ELSE /\ frames' = Front(frames)
              /\ leaked' = leaked + 1
              /\ path' = Parent(Top.name)
              /\ pc' = "rmdir"
    /\ UNCHANGED <<tree, ghosts>>

\* An early return: the stream stays open, and the caller goes on to remove the
\* directory this call was to empty.
GiveUp ==
    /\ said' = TRUE
    /\ IF frames = <<>>
         THEN pc' = "prompt" /\ UNCHANGED <<streams, path>>
         ELSE /\ frames' = Front(frames)
              /\ leaked' = leaked + 1
              /\ path' = Top.name
              /\ pc' = "rmdir"
    /\ UNCHANGED <<tree, ghosts>>

-----------------------------------------------------------------------------
(* The recursion (delete_recursive).                                       *)

opendir ==
    /\ pc = "opendir"
    /\ \/ /\ Opens(path)
          /\ frames' = Append(frames, [name |-> path, dir |-> Where(path),
                                       unread |-> {<<p, kind[p]>> : p \in Entries(Where(path))},
                                       due |-> Entries(Where(path))])
          /\ pc' = "readdir"
          /\ UNCHANGED said
       \/ /\ ~ Opens(path)
          /\ said' = TRUE
          /\ pc' = "rmdir"
          /\ UNCHANGED frames
    /\ UNCHANGED <<tree, leaked, path, ghosts>>

\* Variant: "..", which readdir returns too, is not skipped.
readdir_dotdot(e) ==
    /\ pc = "readdir"
    /\ e \in Top.unread \union {<<Parent(Top.dir), "dir">>}
    /\ frames' = Append(Front(frames),
                        [Top EXCEPT !.unread = {x \in @ : x[1] # e[1]},
                                    !.due = @ \ {e[1]}])
    /\ path' = e[1]
    /\ pc' = IF e[2] = "dir" THEN "directory_empty" ELSE "unlink"
    /\ UNCHANGED <<tree, leaked, said, ghosts>>

readdir(e) ==
    /\ pc = "readdir"
    /\ e \in Top.unread
    /\ frames' = Append(Front(frames),
                        [Top EXCEPT !.unread = {x \in @ : x[1] # e[1]},
                                    !.due = @ \ {e[1]}])
    /\ path' = e[1]
    /\ pc' = IF e[2] = "dir" THEN "directory_empty" ELSE "unlink"
    /\ UNCHANGED <<tree, leaked, said, ghosts>>

\* Variant: the stream is not closed.
closedir_forgotten ==
    /\ pc = "readdir"
    /\ Top.due = {}
    /\ frames' = Front(frames)
    /\ leaked' = leaked + 1
    /\ path' = Top.name
    /\ pc' = "rmdir"
    /\ UNCHANGED <<tree, said, ghosts>>

closedir ==
    /\ pc = "readdir"
    /\ Top.due = {}
    /\ frames' = Front(frames)
    /\ path' = Top.name
    /\ pc' = "rmdir"
    /\ UNCHANGED <<tree, leaked, said, ghosts>>

\* Variant: one entry too many counts as none.
IsEmpty_off(p) ==
    /\ Opens(p)
    /\ \A e, f \in Entries(Where(p)) : e = f

\* A directory that cannot be opened counts as not empty.
IsEmpty(p) == Opens(p) /\ Entries(Where(p)) = {}

\* At the top, a directory that is not empty is left to delete -r.
directory_empty ==
    /\ pc = "directory_empty"
    /\ \/ IsEmpty(path) /\ pc' = "rmdir" /\ UNCHANGED said
       \/ ~ IsEmpty(path) /\ frames # <<>> /\ pc' = "opendir" /\ UNCHANGED said
       \/ ~ IsEmpty(path) /\ frames = <<>> /\ pc' = "prompt" /\ said' = TRUE
    /\ UNCHANGED <<tree, streams, path, ghosts>>

Unlinks(p) == Found(p) /\ kind[p] # "dir" /\ mode[p] # "stuck"

unlink ==
    /\ pc = "unlink"
    /\ \/ /\ Unlinks(path)
          /\ kind' = [kind EXCEPT ![path] = "none"]
          /\ frames' = NotDue(path)
          /\ Resume
          /\ UNCHANGED <<mode, leaked, path, said, ghosts>>
       \/ ~ Unlinks(path) /\ GiveUp

Removable(p) == Found(p) /\ kind[p] = "dir" /\ Entries(p) = {} /\ mode[p] # "stuck"

\* Variant: the directory is emptied once more.
rmdir_again ==
    /\ pc = "rmdir"
    /\ \/ /\ Removable(path)
          /\ kind' = [kind EXCEPT ![path] = "none"]
          /\ frames' = NotDue(path)
          /\ Resume
          /\ UNCHANGED <<mode, leaked, path, said, ghosts>>
       \/ /\ ~ Removable(path)
          /\ pc' = "opendir"
          /\ said' = TRUE
          /\ UNCHANGED <<tree, streams, path, ghosts>>

rmdir ==
    /\ pc = "rmdir"
    /\ \/ /\ Removable(path)
          /\ kind' = [kind EXCEPT ![path] = "none"]
          /\ frames' = NotDue(path)
          /\ Resume
          /\ UNCHANGED <<mode, leaked, path, said, ghosts>>
       \/ ~ Removable(path) /\ GiveUp

-----------------------------------------------------------------------------

Shell ==
    \/ opendir \/ closedir \/ directory_empty \/ unlink \/ rmdir
    \/ \E e \in Path \X Kind : readdir(e)

Next ==
    \/ \E p \in Path, r \in BOOLEAN : delete(p, r)
    \/ \E p \in Path, k \in Kind : Make(p, k)
    \/ \E p \in Path : Unmake(p)
    \/ Shell

\* delete on its own; Listing has it together with the other commands on files.
Spec == Init /\ [][Next]_vars /\ WF_vars(Shell)

-----------------------------------------------------------------------------

\* delete -r of a directory, not of a link to one, of whose tree all is open, which
\* nobody disturbs and for whose levels there are streams, removes all of it,
\* links too, without a message.
Complete ==
    [][pc # "prompt" /\ pc' = "prompt" /\ easy /\ meddled = 0
          => ~ said' /\ Below(path)' = {}]_vars

\* A command that leaves a stream open has said that something went wrong.
NoSilentLeak == leaked # before => said

\* The command is led out of its tree only by the path it was given, when that is
\* a link, or by what others put in place of a directory.  Whatever fails and
\* whatever they do, it removes nothing but what lies at or below its path, or
\* below a directory to which a link has led it.
OnlyBelow ==
    /\ [](\A i \in DOMAIN frames :
            Led(frames[i]) => (i = 1 /\ frames[i].name = target) \/ meddled > 0)
    /\ [][\A p \in Path : kind[p] # "none" /\ kind'[p] = "none" /\ pc' # pc
             => \/ IsPrefix(target, p)
                \/ \E i \in DOMAIN frames :
                      Led(frames[i]) /\ IsStrictPrefix(frames[i].dir, p)]_vars

=============================================================================
