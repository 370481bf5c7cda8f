------------------------------- MODULE Loader -------------------------------
(***************************************************************************)
(* How the shell finds its commands.  Every command is a library below     *)
(* lib_dir.  At the start, and whenever a command is unknown and lib_dir   *)
(* has changed, the shell walks the directory (sys/recursive2.c) and loads *)
(* what it does not have yet (sys/libloader.c); parser (shell.c) looks the *)
(* command up in the modules loaded.                                       *)
(*                                                                         *)
(* Meanwhile somebody runs build.sh: libraries are removed, created and    *)
(* completed while the shell walks.  The file system is the other process  *)
(* of this module; only its times are seconds.                             *)
(*                                                                         *)
(* opendir and dlopen may fail for want of a descriptor, opendir and lstat *)
(* for want of a permission.  A directory keeps its mode while the shell   *)
(* runs, and the commands leave the shell more or fewer descriptors.       *)
(***************************************************************************)
EXTENDS Integers, Sequences

CONSTANTS
    File, NoFile,  \* the libraries there may be, and none of them
    Subdir, Top,   \* the directories below lib_dir, and lib_dir itself
    dirOf,         \* where a library is
    Name,          \* commands, each the base name of a library without ".so"
    nameOf,        \* the command a library provides
    strlen,        \* the length of a name
    MAX_MODULES,   \* slots of lib (libloader.h: 128)
    Modes,         \* what the modes of the directories may be
    Fds,           \* how many descriptors the shell may have left
    Built,         \* the seconds lib_dir may have been changed in last at the start
    MaxClock       \* bound: the seconds that pass

ASSUME ConstantsAssumption ==
    /\ Top \notin Subdir
    /\ Subdir \intersect File = {}
    /\ NoFile \notin File
    /\ dirOf \in [File -> Subdir \union {Top}]
    /\ Name # {}
    /\ nameOf \in [File -> Name]
    /\ strlen \in [Name -> Nat \ {0}]
    /\ MAX_MODULES \in Nat
    /\ Modes \subseteq [Subdir \union {Top} -> {"open", "unreadable", "unsearchable"}]
    /\ Fds \subseteq Nat
    /\ Built \subseteq {0, 1}
    /\ MaxClock \in Nat

VARIABLES
    file,           \* the state of each library on disk: "useless" is complete,
                    \* but dlopen does not take it or it has no __start
    mode,           \* of each directory: "unsearchable" has r but no x
    clock,          \* the time, in seconds
    st_mtime,       \* of lib_dir
    fresh,          \* history: completed since the last walk began
    vanished,       \* history: something was removed during the last walk
    fds,            \* the descriptors the shell has left when it is not walking
    lib,            \* the modules loaded
    kept,           \* libraries that are open but have no __start
    stale,          \* length of what a failed load left in the id of the next slot
    last_modified,
    pc,             \* where the shell is
    cmd,            \* the command it is parsing
    func,           \* the function the walk calls on what it finds
    dname,          \* the directory it is reading
    ahead,          \* what each open directory held when it was opened
    returned,       \* what readdir has returned of the open directories
    fn,             \* the library found, while func is called on it
    res,            \* an entry of lib_dir could not be stat'ed
    errno           \* errno is not 0

disk == <<file, mode, clock, st_mtime, fresh, vanished>>
registry == <<lib, kept, stale, last_modified>>
walk == <<dname, ahead, returned, fn, res, errno>>
vars == <<disk, registry, walk, pc, cmd, func, fds>>

Dir == Subdir \union {Top}

\* The shell is gone: by err(1), by a signal, or by writing past lib.
Stopped == {"exited", "killed", "overrun"}

TypeOK ==
    /\ file \in [File -> {"absent", "partial", "whole", "useless"}]
    /\ mode \in Modes /\ fds \in Fds
    /\ clock \in Nat /\ st_mtime \in Nat /\ last_modified \in Nat
    /\ fresh \subseteq File /\ vanished \in BOOLEAN
    /\ lib \in Seq([file : File, clean : BOOLEAN])
    /\ kept \subseteq File /\ stale \in Nat
    /\ pc \in {"opendir", "readdir", "call", "stamp", "prompt", "parse"} \union Stopped
    /\ cmd \in Name /\ func \in {"load_lib", "add_lib"}
    /\ dname \in Dir
    /\ ahead \in [Dir -> SUBSET (File \union Subdir)]
    /\ returned \subseteq File \union Subdir
    /\ fn \in File \union {NoFile} /\ (pc = "call" => fn \in File)
    /\ res \in BOOLEAN /\ errno \in BOOLEAN

\* main calls load_all_libs before anything else.
Init ==
    /\ file \in [File -> {"absent", "partial", "whole", "useless"}]
    /\ mode \in Modes /\ fds \in Fds
    /\ clock = 1 /\ st_mtime \in Built /\ last_modified = 0
    /\ fresh = {} /\ vanished = FALSE
    /\ lib = <<>> /\ kept = {} /\ stale = 0
    /\ pc = "opendir" /\ func = "load_lib"
    /\ cmd = (CHOOSE n \in Name : TRUE) /\ fn = NoFile
    /\ dname = Top /\ ahead = [d \in Dir |-> {}] /\ returned = {}
    /\ res = FALSE /\ errno = FALSE

Present == {f \in File : file[f] # "absent"}

Entries(d) ==
    {f \in Present : dirOf[f] = d} \union (IF d = Top THEN Subdir ELSE {})

-----------------------------------------------------------------------------
(* The build, and time.                                                    *)

Touch(f) == st_mtime' = IF dirOf[f] = Top THEN clock ELSE st_mtime

Tick ==
    /\ clock < MaxClock
    /\ clock' = clock + 1
    /\ UNCHANGED <<file, st_mtime, fresh, vanished>>

Remove(f) ==
    /\ file[f] # "absent"
    /\ file' = [file EXCEPT ![f] = "absent"]
    /\ Touch(f)
    /\ fresh' = fresh \ {f}
    /\ vanished' = (vanished \/ pc \in {"readdir", "call"})
    /\ UNCHANGED clock

Create(f) ==
    /\ file[f] = "absent"
    /\ file' = [file EXCEPT ![f] = "partial"]
    /\ Touch(f)
    /\ UNCHANGED <<clock, fresh, vanished>>

\* Writing the rest of a file leaves the time of its directory as it is.
Complete(f) ==
    /\ file[f] = "partial"
    /\ \E s \in {"whole", "useless"} : file' = [file EXCEPT ![f] = s]
    /\ fresh' = fresh \union {f}
    /\ UNCHANGED <<clock, st_mtime, vanished>>

Disk ==
    /\ \/ Tick
       \/ \E f \in File : Remove(f) \/ Create(f) \/ Complete(f)
    /\ pc \notin Stopped
    /\ UNCHANGED <<mode, registry, walk, pc, cmd, func, fds>>

-----------------------------------------------------------------------------
(* The modules loaded (sys/libloader.c).                                   *)

\* The slots whose id is the name n: strncpy copies no 0, so what a longer
\* name left in the slot stays behind the new one.
Slots(n) == {i \in DOMAIN lib : nameOf[lib[i].file] = n /\ lib[i].clean}

\* Variant: a directory of the same second counts as changed.
is_modified_or_same == st_mtime >= last_modified

is_modified == st_mtime > last_modified

\* dlopen goes by the path of what it has opened before it looks at the disk.
Opened(f) == f \in kept \/ \E i \in DOMAIN lib : lib[i].file = f

\* A walk has one directory open, or two, each with a descriptor; dlopen needs one
\* more as long as it reads the library.
Streams == IF dname = Top THEN 1 ELSE 2

Out == fds <= Streams

Longest(m, n) == IF m > n THEN m ELSE n

Loads(f) ==
    /\ f \notin kept
    /\ Opened(f) \/ (file[f] = "whole" /\ ~ Out)
    /\ lib' = Append(lib, [file |-> f, clean |-> stale <= strlen[nameOf[f]]])
    /\ stale' = 0
    /\ UNCHANGED <<kept, errno>>

\* Variant: a library that cannot be loaded counts as an input error.
dlopen_fails_strict(f) ==
    /\ ~ Opened(f) /\ (file[f] # "whole" \/ Out)
    /\ errno' = TRUE
    /\ UNCHANGED kept

\* The system call that fails sets errno; what the library lacks may or may not.
dlopen_fails(f) ==
    /\ ~ Opened(f) /\ (file[f] # "whole" \/ Out)
    /\ \/ errno' = (errno \/ file[f] = "absent" \/ Out)
       \/ errno' = TRUE /\ file[f] = "useless"
    /\ UNCHANGED kept

\* The library stays open, whatever becomes of the file.
dlsym_fails(f) ==
    /\ f \in kept \/ (~ Opened(f) /\ file[f] = "useless" /\ ~ Out)
    /\ kept' = kept \union {f}
    /\ UNCHANGED errno

load_lib(f) ==
    \/ /\ Len(lib) >= MAX_MODULES
       /\ pc' = "overrun"
       /\ UNCHANGED <<lib, kept, stale, errno>>
    \/ /\ Len(lib) < MAX_MODULES
       /\ Loads(f)
       /\ pc' = "readdir"
    \/ /\ Len(lib) < MAX_MODULES
       /\ dlopen_fails(f) \/ dlsym_fails(f)
       /\ stale' = Longest(stale, strlen[nameOf[f]])
       /\ pc' = "readdir"
       /\ UNCHANGED lib
    \/ /\ Len(lib) < MAX_MODULES
       /\ ~ Opened(f) /\ file[f] = "partial" /\ ~ Out   \* SIGBUS in a truncated segment
       /\ pc' = "killed"
       /\ UNCHANGED <<lib, kept, stale, errno>>

\* Variant: the ids are compared as far as the new name goes.
add_lib_prefix(f) ==
    \/ /\ \E i \in DOMAIN lib : strlen[nameOf[lib[i].file]] >= strlen[nameOf[f]]
       /\ pc' = "readdir"
       /\ UNCHANGED <<lib, kept, stale, errno>>
    \/ load_lib(f)

\* strncpy leaves tmp without its 0 as well, over what the stack held: the
\* comparison may fail for a module that is loaded.
add_lib(f) ==
    \/ /\ Slots(nameOf[f]) # {}
       /\ pc' = "readdir"
       /\ UNCHANGED <<lib, kept, stale, errno>>
    \/ load_lib(f)

call ==
    /\ pc = "call"
    /\ \/ func = "load_lib" /\ load_lib(fn)
       \/ func = "add_lib" /\ add_lib(fn)
    /\ fn' = NoFile
    /\ UNCHANGED <<disk, last_modified, dname, ahead, returned, res, cmd, func, fds>>

\* Variant: the time of the walk instead of that of the directory.
set_modified_time_now ==
    /\ pc = "stamp"
    /\ last_modified' = clock
    /\ pc' = IF func = "load_lib" THEN "prompt" ELSE "parse"
    /\ UNCHANGED <<disk, lib, kept, stale, walk, cmd, func, fds>>

set_modified_time ==
    /\ pc = "stamp"
    /\ last_modified' = st_mtime
    /\ pc' = IF func = "load_lib" THEN "prompt" ELSE "parse"
    /\ UNCHANGED <<disk, lib, kept, stale, walk, cmd, func, fds>>

-----------------------------------------------------------------------------
(* The walk (sys/recursive2.c).                                            *)

opendir ==
    /\ pc = "opendir"
    /\ fresh' = {} /\ vanished' = FALSE
    /\ dname' = Top /\ returned' = {} /\ res' = FALSE
    /\ \/ /\ fds > 0 /\ mode[Top] # "unreadable"
          /\ ahead' = [ahead EXCEPT ![Top] = Entries(Top)]
          /\ errno' = FALSE
          /\ pc' = "readdir"
       \/ /\ fds = 0 \/ mode[Top] = "unreadable"
          /\ errno' = TRUE
          /\ pc' = "exited"
          /\ UNCHANGED ahead
    /\ UNCHANGED <<file, mode, clock, st_mtime, registry, fn, cmd, func, fds>>

\* An entry that was there when the directory was opened is returned even if it
\* is gone; one that came later may be returned.
MayReturn(e) == e \notin returned /\ e \in ahead[dname] \union Entries(dname)

\* lstat finds it.
Found(e) == mode[dname] # "unsearchable" /\ (e \in File => file[e] # "absent")

\* Variant: func is called on what was found before.
readdir_file_last(f) ==
    /\ pc = "readdir" /\ dirOf[f] = dname /\ MayReturn(f)
    /\ Found(f)
    /\ returned' = returned \union {f}
    /\ pc' = "call"
    /\ UNCHANGED <<disk, registry, dname, ahead, fn, res, errno, cmd, func, fds>>

\* The file is passed to func.
readdir_file(f) ==
    /\ pc = "readdir" /\ dirOf[f] = dname /\ MayReturn(f)
    /\ Found(f)
    /\ returned' = returned \union {f}
    /\ fn' = f
    /\ pc' = "call"
    /\ UNCHANGED <<disk, registry, dname, ahead, res, errno, cmd, func, fds>>

\* lstat fails.  The result of a nested walk is thrown away, but errno stays.
readdir_lost(e) ==
    /\ pc = "readdir" /\ MayReturn(e)
    /\ IF e \in Subdir THEN dname = Top ELSE dirOf[e] = dname
    /\ ~ Found(e)
    /\ returned' = returned \union {e}
    /\ res' = (res \/ dname = Top)
    /\ errno' = TRUE
    /\ UNCHANGED <<disk, registry, dname, ahead, fn, pc, cmd, func, fds>>

\* A nested walk clears errno, unless it cannot open its directory; that it could
\* not is thrown away, but errno stays.
readdir_dir(d) ==
    /\ pc = "readdir" /\ dname = Top /\ d \notin returned
    /\ Found(d)
    /\ returned' = returned \union {d}
    /\ \/ /\ mode[d] # "unreadable" /\ ~ Out
          /\ dname' = d
          /\ ahead' = [ahead EXCEPT ![d] = Entries(d)]
          /\ errno' = FALSE
       \/ /\ mode[d] = "unreadable" \/ Out
          /\ errno' = TRUE
          /\ UNCHANGED <<dname, ahead>>
    /\ UNCHANGED <<disk, registry, fn, res, pc, cmd, func, fds>>

AtEnd == ahead[dname] \intersect (Present \union Subdir) \subseteq returned

closedir_nested ==
    /\ pc = "readdir" /\ dname \in Subdir /\ AtEnd
    /\ dname' = Top
    /\ ahead' = [ahead EXCEPT ![dname] = {}]
    /\ returned' = {e \in returned : e \in Subdir \/ dirOf[e] # dname}
    /\ UNCHANGED <<disk, registry, fn, res, errno, pc, cmd, func, fds>>

closedir_top ==
    /\ pc = "readdir" /\ dname = Top /\ AtEnd
    /\ pc' = IF res \/ errno THEN "exited" ELSE "stamp"
    /\ ahead' = [ahead EXCEPT ![Top] = {}]
    /\ returned' = {}
    /\ UNCHANGED <<disk, registry, dname, fn, res, errno, cmd, func, fds>>

-----------------------------------------------------------------------------
(* The command line (shell.c).                                             *)

input ==
    /\ pc = "prompt"
    /\ cmd' \in Name
    /\ pc' = "parse"
    /\ UNCHANGED <<disk, registry, walk, func, fds>>

\* lib[i].function(size, cmd).  What the command does to errno is of no account:
\* nothing but the end of a walk looks at it, and opendir has cleared it by then.
\* But a command may leave descriptors open, as mmap does, or close them.
dispatch ==
    /\ pc = "parse" /\ Slots(cmd) # {}
    /\ fds' \in Fds
    /\ pc' = "prompt"
    /\ UNCHANGED <<disk, registry, walk, cmd, func>>

\* Variant: everything is unloaded and loaded again, as load_all_libs does.
search_all_libs ==
    /\ pc = "parse" /\ Slots(cmd) = {} /\ is_modified
    /\ pc' = "opendir"
    /\ func' = "add_lib"
    /\ lib' = <<>>
    /\ UNCHANGED <<disk, kept, stale, last_modified, walk, cmd, fds>>

search_new_libs ==
    /\ pc = "parse" /\ Slots(cmd) = {} /\ is_modified
    /\ pc' = "opendir"
    /\ func' = "add_lib"
    /\ UNCHANGED <<disk, registry, walk, cmd, fds>>

not_found ==
    /\ pc = "parse" /\ Slots(cmd) = {} /\ ~ is_modified
    /\ pc' = "prompt"
    /\ UNCHANGED <<disk, registry, walk, cmd, func, fds>>

-----------------------------------------------------------------------------

Walk ==
    \/ opendir \/ call \/ closedir_nested \/ closedir_top \/ set_modified_time
    \/ \E f \in File : readdir_file(f)
    \/ \E d \in Subdir : readdir_dir(d)
    \/ \E e \in File \union Subdir : readdir_lost(e)

Shell == Walk \/ dispatch \/ search_new_libs \/ not_found

Next == Disk \/ input \/ Shell

Spec == Init /\ [][Next]_vars

\* The user need not type and the build need not go on; the shell runs.
FairSpec == Spec /\ WF_vars(Shell)

-----------------------------------------------------------------------------
(* What the shell gets right.                                              *)

Known(f) == \E i \in DOMAIN lib : nameOf[lib[i].file] = nameOf[f]

\* A walk of two directories with a library to read takes three descriptors.
Needed == 3

\* The library lies where the walk may fail without ending the shell: below lib_dir,
\* in a directory that cannot be read or with no descriptor left to read it, and
\* the walk of another directory clears errno (recursive2.c:22).
Forgiven(f) ==
    /\ dirOf[f] # Top
    /\ mode[dirOf[f]] # "open" \/ fds < Needed
    /\ fds > 1 /\ \E d \in Subdir \ {dirOf[f]} : mode[d] # "unreadable"

\* A walk that the shell survives has loaded every library that was complete when
\* it began, in whatever order readdir returned it and whatever the build did
\* meanwhile, but for one that is open without a __start, and one that another
\* directory made the walk forget.
NothingOverlooked ==
    pc = "stamp" =>
        \A f \in File : file[f] = "whole" /\ f \notin fresh
                           => Known(f) \/ f \in kept \/ Forgiven(f)

Cause ==
    \/ vanished
    \/ fds < Needed
    \/ \E d \in Dir : mode[d] # "open"
    \/ \E f \in File : file[f] = "useless"

\* A walk ends the shell ("IO error") only if something was removed under it, if
\* descriptors are short, if a directory cannot be read, or for a complete library
\* that lacks something; a build that only adds libraries, complete or not, does not
\* end it.
FatalOnlyForCause == pc = "exited" => Cause

\* The module a command runs stays the same, whatever is loaded later.
FirstSlot(n, i) == i \in Slots(n) /\ \A j \in Slots(n) : i <= j

DispatchStable ==
    [][\A n \in Name : \A i \in DOMAIN lib : FirstSlot(n, i) => FirstSlot(n, i)']_vars

\* The stamp never runs ahead of the directory, so a change in a later second
\* than that of the last walk is always noticed.
StampBehind == last_modified <= st_mtime /\ st_mtime <= clock

\* parser calls itself as long as the directory keeps changing, but every
\* command is answered once it does not (or the shell is gone).
Answered == pc # "prompt" ~> pc \in {"prompt"} \union Stopped

-----------------------------------------------------------------------------
(* What its messages say, and is not always so.                            *)

\* parser is about to say "Command not found" (shell.c:52).
SaysNotFound == pc = "parse" /\ Slots(cmd) = {} /\ ~ is_modified

\* No module of that name has been loaded then.
NotFoundMeansNotLoaded ==
    SaysNotFound => \A i \in DOMAIN lib : nameOf[lib[i].file] # cmd

\* No complete library of that name lies in lib_dir then.
NotFoundMeansAbsent ==
    SaysNotFound =>
        \A f \in File : nameOf[f] = cmd /\ dirOf[f] = Top /\ ~ Known(f)
                           => file[f] # "whole"

=============================================================================
