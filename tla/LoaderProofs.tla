---------------------------- MODULE LoaderProofs ----------------------------
(***************************************************************************)
(* Proofs about Loader, for every set of libraries, directories and names  *)
(* and every size of the registry.                                         *)
(*                                                                         *)
(* The walk is the difficult part: a library that was complete when it     *)
(* began is either known or still ahead of the walk, which reads two       *)
(* directories at a time and forgets what it returned of one when it       *)
(* closes it.                                                              *)
(***************************************************************************)
EXTENDS Loader, TLAPS

Walking == pc \in {"readdir", "call"}

\* What the walk keeps about the directories it has open.
OpenDirs ==
    /\ pc \in {"opendir", "stamp", "prompt", "parse"} =>
          \A d \in Dir : ahead[d] = {}
    /\ Walking =>
          /\ Subdir \subseteq ahead[Top]
          /\ \A d \in Subdir : d # dname => ahead[d] = {}
          /\ dname \in Subdir => dname \in returned
          /\ \A f \in returned \intersect File : dirOf[f] \in {Top, dname}
          /\ pc = "call" => dirOf[fn] = dname

\* An error has a cause, and only a removal lets the walk meet a library that is not
\* there.
ErrorsHaveCause ==
    Walking =>
        /\ res \/ errno => Cause
        /\ \A d \in Dir : \A f \in ahead[d] \intersect File :
              file[f] = "absent" => vanished
        /\ pc = "call" /\ file[fn] = "absent" => vanished

\* The walk has still to come to f, or is at it.
Pending(f) ==
    \/ pc = "call" /\ fn = f
    \/ f \in ahead[dirOf[f]] \ returned /\ dirOf[f] \in {Top, dname}
    \/ dirOf[f] \in Subdir \ returned

\* The walk could not read f: it knows and will fail, or another directory will make
\* it forget.
Lost(f) ==
    \/ res
    \/ errno /\ fds < 2
    \/ /\ dirOf[f] \in Subdir \intersect returned
       /\ mode[dirOf[f]] # "open" \/ fds < Needed
       /\ errno \/ Forgiven(f)

Accounted(f) == Known(f) \/ f \in kept \/ Pending(f) \/ Lost(f)

NothingSkipped ==
    Walking => \A f \in File : file[f] = "whole" /\ f \notin fresh => Accounted(f)

IInv ==
    /\ TypeOK
    /\ OpenDirs
    /\ ErrorsHaveCause
    /\ NothingSkipped
    /\ NothingOverlooked
    /\ FatalOnlyForCause

-----------------------------------------------------------------------------
(* Types.                                                                  *)

LEMMA InitTypeOK == Init => TypeOK
<1> SUFFICES ASSUME Init
             PROVE  TypeOK
  OBVIOUS
<1>1. cmd \in Name
  BY ConstantsAssumption DEF Init
<1>2. lib \in Seq([file : File, clean : BOOLEAN])
  BY DEF Init
<1>3. /\ clock = 1 /\ st_mtime \in {0, 1} /\ last_modified = 0 /\ stale = 0
      /\ file \in [File -> {"absent", "partial", "whole", "useless"}]
      /\ mode \in Modes /\ fds \in Fds /\ kept = {}
      /\ fresh = {} /\ vanished = FALSE /\ res = FALSE /\ errno = FALSE
      /\ pc = "opendir" /\ func = "load_lib" /\ fn = NoFile
      /\ dname = Top /\ ahead = [d \in Dir |-> {}] /\ returned = {}
  BY ConstantsAssumption DEF Init
<1>4. clock \in Nat /\ st_mtime \in Nat /\ last_modified \in Nat /\ stale \in Nat
  BY <1>3
<1>5. ahead \in [Dir -> SUBSET (File \union Subdir)] /\ dname \in Dir
  BY <1>3 DEF Dir
<1> QED
  BY <1>1, <1>2, <1>3, <1>4, <1>5 DEF TypeOK

LEMMA DiskTypeOK == TypeOK /\ Disk => TypeOK'
<1> SUFFICES ASSUME TypeOK, Disk
             PROVE  TypeOK'
  OBVIOUS
<1> USE DEF TypeOK, registry, walk
<1>1. CASE Tick
  BY <1>1 DEF Disk, Tick
<1>2. ASSUME NEW f \in File, Remove(f)
      PROVE  TypeOK'
  BY <1>2 DEF Disk, Remove, Touch
<1>3. ASSUME NEW f \in File, Create(f)
      PROVE  TypeOK'
  BY <1>3 DEF Disk, Create, Touch
<1>4. ASSUME NEW f \in File, Complete(f)
      PROVE  TypeOK'
  BY <1>4 DEF Disk, Complete
<1> QED
  BY <1>1, <1>2, <1>3, <1>4 DEF Disk

\* What load_lib may do, in one formula.
LEMMA LoadShape ==
    ASSUME TypeOK, NEW f \in File, load_lib(f)
    PROVE  /\ pc' \in {"readdir", "overrun", "killed"}
           /\ stale' \in Nat
           /\ errno' \in BOOLEAN
           /\ kept' \subseteq File /\ kept \subseteq kept'
           /\ \/ /\ lib' = Append(lib, [file |-> f, clean |-> stale <= strlen[nameOf[f]]])
                 /\ UNCHANGED errno
              \/ /\ UNCHANGED lib
                 /\ pc' = "readdir" => file[f] # "whole" \/ f \in kept' \/ (Out /\ errno')
                 /\ errno' # errno => file[f] \in {"absent", "useless"} \/ Out
<1>1. /\ strlen[nameOf[f]] \in Nat /\ stale \in Nat /\ errno \in BOOLEAN
      /\ kept \subseteq File
  BY ConstantsAssumption DEF TypeOK
<1>2. Longest(stale, strlen[nameOf[f]]) \in Nat
  BY <1>1 DEF Longest
<1>3. CASE /\ pc' \in {"overrun", "killed"}
           /\ UNCHANGED <<lib, kept, stale, errno>>
  BY <1>1, <1>3
<1>4. CASE Loads(f) /\ pc' = "readdir"
  BY <1>1, <1>4 DEF Loads
<1>5. CASE /\ dlopen_fails(f) \/ dlsym_fails(f)
           /\ stale' = Longest(stale, strlen[nameOf[f]])
           /\ pc' = "readdir" /\ UNCHANGED lib
  <2>1. CASE dlopen_fails(f)
    <3>1. errno' \in BOOLEAN /\ kept' = kept
      BY <1>1, <2>1 DEF dlopen_fails
    <3>2. file[f] # "whole" \/ (Out /\ errno')
      BY <2>1 DEF dlopen_fails
    <3>3. errno' # errno => file[f] \in {"absent", "useless"} \/ Out
      <4>1. CASE errno' = (errno \/ file[f] = "absent" \/ Out)
        BY <1>1, <4>1, Zenon
      <4>2. CASE file[f] = "useless"
        BY <4>2
      <4> QED
        BY <2>1, <4>1, <4>2 DEF dlopen_fails
    <3> QED
      BY <1>1, <1>2, <1>5, <3>1, <3>2, <3>3
  <2>2. CASE dlsym_fails(f)
    <3>1. kept' = kept \union {f} /\ errno' = errno
      BY <2>2 DEF dlsym_fails
    <3> QED
      BY <1>1, <1>2, <1>5, <3>1
  <2> QED
    BY <1>5, <2>1, <2>2
<1> QED
  BY <1>3, <1>4, <1>5 DEF load_lib

LEMMA CallTypeOK == TypeOK /\ call => TypeOK'
<1> SUFFICES ASSUME TypeOK, call
             PROVE  TypeOK'
  OBVIOUS
<1> DEFINE module == [file |-> fn, clean |-> stale <= strlen[nameOf[fn]]]
<1>1. fn \in File /\ fn' = NoFile
  BY DEF TypeOK, call
<1>2. /\ lib \in Seq([file : File, clean : BOOLEAN]) /\ stale \in Nat /\ errno \in BOOLEAN
      /\ kept \subseteq File
  BY DEF TypeOK
<1>3. module \in [file : File, clean : BOOLEAN]
  <2>1. (stale <= strlen[nameOf[fn]]) \in BOOLEAN
    OBVIOUS
  <2> QED
    BY <1>1, <2>1, Zenon
<1>4. /\ pc' \in {"readdir", "overrun", "killed"}
      /\ stale' \in Nat
      /\ errno' \in BOOLEAN
      /\ kept' \subseteq File
      /\ lib' = Append(lib, module) \/ lib' = lib
  <2>1. CASE load_lib(fn)
    <3> HIDE DEF module
    <3>1. /\ pc' \in {"readdir", "overrun", "killed"}
          /\ stale' \in Nat
          /\ errno' \in BOOLEAN
          /\ kept' \subseteq File
          /\ lib' = Append(lib, module) \/ lib' = lib
      BY <1>1, <2>1, LoadShape, Zenon DEF module
    <3> QED
      BY <3>1
  <2>2. CASE pc' = "readdir" /\ UNCHANGED <<lib, kept, stale, errno>>
    BY <1>2, <2>2
  <2> QED
    BY <2>1, <2>2 DEF call, add_lib
<1>5. lib' \in Seq([file : File, clean : BOOLEAN])
  <2> DEFINE Modules == [file : File, clean : BOOLEAN]
  <2>1. lib \in Seq(Modules) /\ module \in Modules
    BY <1>2, <1>3
  <2> HIDE DEF module, Modules
  <2>2. lib' \in Seq(Modules)
    BY <1>4, <2>1
  <2> QED
    BY <2>2 DEF Modules
<1> HIDE DEF module
<1> QED
  BY <1>1, <1>4, <1>5 DEF TypeOK, call, disk, Stopped

LEMMA WalkTypeOK ==
    ASSUME TypeOK,
           \/ opendir \/ closedir_nested \/ closedir_top \/ set_modified_time
           \/ \E f \in File : readdir_file(f)
           \/ \E d \in Subdir : readdir_dir(d)
           \/ \E e \in File \union Subdir : readdir_lost(e)
    PROVE  TypeOK'
<1> USE DEF TypeOK, disk, registry, Stopped
<1>1. \A d \in Dir : Entries(d) \in SUBSET (File \union Subdir)
  BY DEF Entries, Present
<1>2. Top \in Dir /\ Subdir \subseteq Dir
  BY DEF Dir
<1>3. CASE opendir
  BY <1>1, <1>2, <1>3 DEF opendir
<1>4. CASE closedir_nested
  <2>1. ahead' \in [Dir -> SUBSET (File \union Subdir)] /\ dname' \in Dir
    BY <1>2, <1>4 DEF closedir_nested
  <2> QED
    BY <1>4, <2>1 DEF closedir_nested
<1>5. CASE closedir_top
  <2>1. ahead' \in [Dir -> SUBSET (File \union Subdir)]
    BY <1>2, <1>5 DEF closedir_top
  <2> QED
    BY <1>5, <2>1 DEF closedir_top
<1>6. CASE set_modified_time
  BY <1>6 DEF set_modified_time, walk
<1>7. ASSUME NEW f \in File, readdir_file(f)
      PROVE  TypeOK'
  BY <1>7 DEF readdir_file
<1>9. ASSUME NEW e \in File \union Subdir, readdir_lost(e)
      PROVE  TypeOK'
  BY <1>9 DEF readdir_lost
<1>8. ASSUME NEW d \in Subdir, readdir_dir(d)
      PROVE  TypeOK'
  <2>1. ahead' \in [Dir -> SUBSET (File \union Subdir)] /\ dname' \in Dir
    BY <1>1, <1>2, <1>8 DEF readdir_dir
  <2> QED
    BY <1>8, <2>1 DEF readdir_dir
<1> QED
  BY <1>3, <1>4, <1>5, <1>6, <1>7, <1>8, <1>9

LEMMA PromptTypeOK ==
    ASSUME TypeOK, input \/ dispatch \/ search_new_libs \/ not_found
    PROVE  TypeOK'
BY DEF TypeOK, input, dispatch, search_new_libs, not_found, disk, registry, walk

LEMMA NextTypeOK == TypeOK /\ [Next]_vars => TypeOK'
<1> SUFFICES ASSUME TypeOK, [Next]_vars
             PROVE  TypeOK'
  OBVIOUS
<1>1. CASE UNCHANGED vars
  BY <1>1 DEF TypeOK, vars, disk, registry, walk
<1>2. CASE Next
  BY <1>2, DiskTypeOK, CallTypeOK, WalkTypeOK, PromptTypeOK
     DEF Next, Shell, Walk
<1> QED
  BY <1>1, <1>2

\* Every variable has its type (Loader).
THEOREM TypeCorrect == Spec => []TypeOK
BY InitTypeOK, NextTypeOK, PTL DEF Spec

-----------------------------------------------------------------------------
(* The modules loaded only grow.                                           *)

LEMMA LibGrows ==
    ASSUME TypeOK, [Next]_vars
    PROVE  lib' = lib \/ \E m : lib' = Append(lib, m)
<1>1. ASSUME call
      PROVE  lib' = lib \/ \E m : lib' = Append(lib, m)
  <2>1. fn \in File
    BY <1>1 DEF TypeOK, call
  <2>2. CASE load_lib(fn)
    <3>1. \/ UNCHANGED lib
          \/ lib' = Append(lib, [file |-> fn, clean |-> stale <= strlen[nameOf[fn]]])
      BY <2>1, <2>2, LoadShape
    <3> QED
      BY <3>1
  <2>3. CASE UNCHANGED lib
    BY <2>3
  <2> QED
    BY <1>1, <2>2, <2>3 DEF call, add_lib
<1>2. ASSUME ~ call
      PROVE  UNCHANGED lib
  BY <1>2 DEF Next, Disk, Shell, Walk, vars, registry, opendir, closedir_nested,
     closedir_top, set_modified_time, readdir_file, readdir_lost, readdir_dir,
     input, dispatch, search_new_libs, not_found
<1> QED
  BY <1>1, <1>2

LEMMA SlotsStay ==
    ASSUME TypeOK, [Next]_vars
    PROVE  /\ DOMAIN lib \subseteq DOMAIN lib'
           /\ \A i \in DOMAIN lib : lib'[i] = lib[i]
           /\ \A i \in DOMAIN lib, j \in DOMAIN lib' : j \notin DOMAIN lib => i <= j
<1> DEFINE Modules == [file : File, clean : BOOLEAN]
<1>1. lib \in Seq(Modules) /\ lib' \in Seq(Modules)
  BY NextTypeOK DEF TypeOK
<1> HIDE DEF Modules
<1>2. CASE lib' = lib
  BY <1>2
<1>3. ASSUME NEW m, lib' = Append(lib, m)
      PROVE  /\ DOMAIN lib' = 1 .. Len(lib) + 1
             /\ \A i \in DOMAIN lib : lib'[i] = lib[i]
  BY <1>1, <1>3
<1>4. DOMAIN lib = 1 .. Len(lib) /\ Len(lib) \in Nat
  BY <1>1
<1> QED
  BY <1>2, <1>3, <1>4, LibGrows

LEMMA KnownStays ==
    ASSUME TypeOK, [Next]_vars
    PROVE  \A f \in File : Known(f) => Known(f)'
BY SlotsStay DEF Known

\* The module a command runs is never replaced: a later one of that name goes
\* to a later slot, and parser takes the first (libloader.c, shell.c).
THEOREM FirstModuleRuns == Spec => DispatchStable
<1>1. TypeOK /\ [Next]_vars =>
         \A n \in Name : \A i \in DOMAIN lib : FirstSlot(n, i) => FirstSlot(n, i)'
  <2> SUFFICES ASSUME TypeOK, [Next]_vars,
                      NEW n \in Name, NEW i \in DOMAIN lib, FirstSlot(n, i)
               PROVE  FirstSlot(n, i)'
    OBVIOUS
  <2>1. i \in Slots(n)'
    BY SlotsStay DEF FirstSlot, Slots
  <2>2. ASSUME NEW j \in Slots(n)'
        PROVE  i <= j
    <3>1. j \in DOMAIN lib'
      BY DEF Slots
    <3>2. CASE j \in DOMAIN lib
      BY <3>1, <3>2, SlotsStay DEF FirstSlot, Slots
    <3> QED
      BY <3>1, <3>2, SlotsStay
  <2> QED
    BY <2>1, <2>2 DEF FirstSlot
<1> QED
  BY <1>1, InitTypeOK, NextTypeOK, PTL DEF Spec, DispatchStable

-----------------------------------------------------------------------------
(* The time of the directory.                                              *)

LEMMA NextStamp == TypeOK /\ StampBehind /\ [Next]_vars => StampBehind'
<1> SUFFICES ASSUME TypeOK, StampBehind, [Next]_vars
             PROVE  StampBehind'
  OBVIOUS
<1> USE DEF TypeOK, StampBehind
<1>1. CASE Disk
  <2>1. clock' \in {clock, clock + 1} /\ st_mtime' \in {st_mtime, clock}
    BY <1>1 DEF Disk, Tick, Remove, Create, Complete, Touch
  <2>2. last_modified' = last_modified /\ (st_mtime' = st_mtime \/ clock' = clock)
    BY <1>1 DEF Disk, Tick, Remove, Create, Complete, Touch, registry
  <2> QED
    BY <2>1, <2>2
<1>2. CASE set_modified_time
  BY <1>2 DEF set_modified_time, disk
<1>3. CASE UNCHANGED <<clock, st_mtime, last_modified>>
  BY <1>3
<1> QED
  BY <1>1, <1>2, <1>3 DEF Next, Shell, Walk, vars, disk, registry, opendir, call,
     closedir_nested, closedir_top, readdir_file, readdir_lost, readdir_dir,
     input, dispatch, search_new_libs, not_found

\* What the shell remembers as the time of lib_dir is never later than that time
\* (set_modified_time), so a change in a later second is noticed.
THEOREM StampNeverAhead == Spec => []StampBehind
<1>1. Init => StampBehind
  BY ConstantsAssumption DEF Init, StampBehind
<1> QED
  BY <1>1, InitTypeOK, NextTypeOK, NextStamp, PTL DEF Spec

-----------------------------------------------------------------------------
(* The walk: what each step of it keeps of the invariant.                  *)

WalkInv == OpenDirs /\ ErrorsHaveCause /\ NothingSkipped
PromptInv == NothingOverlooked /\ FatalOnlyForCause

LEMMA Places ==
    /\ Top \notin Subdir
    /\ \A f \in File : f \notin Subdir /\ dirOf[f] \in Subdir \union {Top}
BY ConstantsAssumption

LEMMA InitIInv == Init => IInv
<1> SUFFICES ASSUME Init
             PROVE  IInv
  OBVIOUS
<1>1. pc = "opendir" /\ ahead = [d \in Dir |-> {}]
  BY DEF Init
<1> QED
  BY <1>1, InitTypeOK DEF IInv, OpenDirs, ErrorsHaveCause, NothingSkipped,
     NothingOverlooked, FatalOnlyForCause, Walking

\* Removals excuse what they take away, and what is completed is fresh.
LEMMA DiskKeeps == IInv /\ Disk => (WalkInv /\ PromptInv)'
<1> SUFFICES ASSUME IInv, Disk
             PROVE  (WalkInv /\ PromptInv)'
  OBVIOUS
<1>1. /\ UNCHANGED <<mode, fds, kept, lib, dname, ahead, returned, fn, res, errno, pc>>
      /\ pc # "exited"
  BY DEF Disk, registry, walk, Stopped
<1>2. /\ vanished => vanished'
      /\ \A f \in File : file'[f] = "absent" /\ file[f] # "absent" /\ Walking => vanished'
      /\ \A f \in File : file[f] = "useless" /\ file'[f] # "useless" /\ Walking => vanished'
      /\ \A f \in File : file'[f] = "whole" /\ f \notin fresh' => file[f] = "whole" /\ f \notin fresh
  <2> USE DEF IInv, TypeOK
  <2>1. CASE Tick
    BY <2>1 DEF Tick
  <2>2. ASSUME NEW f \in File, Remove(f)
        PROVE  <1>2!:
    BY <2>2 DEF Remove, Walking
  <2>3. ASSUME NEW f \in File, Create(f)
        PROVE  <1>2!:
    BY <2>3 DEF Create
  <2>4. ASSUME NEW f \in File, Complete(f)
        PROVE  <1>2!:
    BY <2>4 DEF Complete
  <2> QED
    BY <2>1, <2>2, <2>3, <2>4 DEF Disk
<1>3. OpenDirs'
  BY <1>1 DEF IInv, OpenDirs, Walking
<1>4. ErrorsHaveCause'
  <2> SUFFICES ASSUME Walking
               PROVE  ErrorsHaveCause'
    BY <1>1 DEF ErrorsHaveCause, Walking
  <2>1. Cause => Cause'
    BY <1>1, <1>2 DEF Cause
  <2> QED
    BY <1>1, <1>2, <2>1 DEF IInv, TypeOK, ErrorsHaveCause, Walking
<1>5. NothingSkipped'
  BY <1>1, <1>2 DEF IInv, NothingSkipped, Walking, Accounted, Known, Pending, Lost, Forgiven
<1>6. PromptInv'
  BY <1>1, <1>2 DEF IInv, PromptInv, NothingOverlooked, FatalOnlyForCause, Known, Forgiven
<1> QED
  BY <1>3, <1>4, <1>5, <1>6 DEF WalkInv

\* Everything is pending when the walk begins.
LEMMA OpendirKeeps == IInv /\ opendir => (WalkInv /\ PromptInv)'
<1> SUFFICES ASSUME IInv, opendir
             PROVE  (WalkInv /\ PromptInv)'
  OBVIOUS
<1>1. /\ pc = "opendir" /\ fresh' = {} /\ returned' = {} /\ dname' = Top
      /\ res' = FALSE /\ UNCHANGED <<file, mode, fds, kept, lib, fn>>
  BY DEF opendir, registry
<1>2. CASE pc' = "exited" /\ (fds = 0 \/ mode[Top] = "unreadable")
  <2>1. Cause'
    BY <1>1, <1>2 DEF Cause, Needed, Dir
  <2> QED
    BY <1>2, <2>1 DEF WalkInv, PromptInv, OpenDirs, ErrorsHaveCause, NothingSkipped,
       NothingOverlooked, FatalOnlyForCause, Walking
<1>3. CASE /\ pc' = "readdir" /\ errno' = FALSE
           /\ ahead' = [ahead EXCEPT ![Top] = Entries(Top)]
  <2>1. /\ ahead'[Top] = Entries(Top)
        /\ \A d \in Subdir : ahead'[d] = {}
    BY <1>1, <1>3, Places DEF IInv, TypeOK, OpenDirs, Dir
  <2>2. /\ Subdir \subseteq Entries(Top)
        /\ \A f \in File : f \in Entries(Top) <=> file[f] # "absent" /\ dirOf[f] = Top
    BY Places DEF Entries, Present
  <2>3. OpenDirs'
    BY <1>1, <1>3, <2>1, <2>2, Places DEF OpenDirs, Walking
  <2>4. ErrorsHaveCause'
    BY <1>1, <1>3, <2>1, <2>2 DEF ErrorsHaveCause, Walking, Dir
  <2>5. NothingSkipped'
    BY <1>1, <2>1, <2>2, Places DEF NothingSkipped, Accounted, Pending
  <2>6. PromptInv'
    BY <1>3 DEF PromptInv, NothingOverlooked, FatalOnlyForCause
  <2> QED
    BY <2>3, <2>4, <2>5, <2>6 DEF WalkInv
<1> QED
  BY <1>2, <1>3 DEF opendir

\* What is returned is given to func or lost.
LEMMA ReaddirFileKeeps ==
    ASSUME IInv, NEW f \in File, readdir_file(f)
    PROVE  (WalkInv /\ PromptInv)'
<1>1. /\ pc = "readdir" /\ pc' = "call" /\ fn' = f
      /\ dirOf[f] = dname /\ file[f] # "absent"
      /\ returned' = returned \union {f}
      /\ UNCHANGED <<file, mode, fds, fresh, vanished, lib, kept, dname, ahead, res, errno>>
  BY DEF readdir_file, Found, disk, registry
<1>2. OpenDirs'
  BY <1>1, Places DEF IInv, OpenDirs, Walking
<1>3. ErrorsHaveCause'
  BY <1>1 DEF IInv, ErrorsHaveCause, Walking, Cause
<1>4. NothingSkipped'
  BY <1>1, Places DEF IInv, NothingSkipped, Walking, Accounted, Pending, Known, Lost, Forgiven
<1>5. PromptInv'
  BY <1>1 DEF PromptInv, NothingOverlooked, FatalOnlyForCause
<1> QED
  BY <1>2, <1>3, <1>4, <1>5 DEF WalkInv

LEMMA ReaddirLostKeeps ==
    ASSUME IInv, NEW e \in File \union Subdir, readdir_lost(e)
    PROVE  (WalkInv /\ PromptInv)'
<1>1. /\ pc = "readdir" /\ pc' = "readdir"
      /\ IF e \in Subdir THEN dname = Top ELSE dirOf[e] = dname
      /\ returned' = returned \union {e}
      /\ res' = (res \/ dname = Top) /\ errno' = TRUE
      /\ UNCHANGED <<file, mode, fds, fresh, vanished, lib, kept, dname, ahead, fn>>
  BY DEF readdir_lost, disk, registry
<1>2. \/ mode[dname] = "unsearchable"
      \/ e \in File /\ file[e] = "absent" /\ vanished
  <2>1. CASE mode[dname] # "unsearchable"
    <3>1. e \in File /\ file[e] = "absent"
      BY <2>1 DEF readdir_lost, Found
    <3>2. e \in ahead[dname]
      BY <3>1, Places DEF readdir_lost, MayReturn, Entries, Present
    <3> QED
      BY <1>1, <3>1, <3>2 DEF IInv, TypeOK, ErrorsHaveCause, Walking
  <2> QED
    BY <2>1
<1>3. OpenDirs'
  BY <1>1, Places DEF IInv, OpenDirs, Walking
<1>4. ErrorsHaveCause'
  <2>1. dname \in Dir
    BY DEF IInv, TypeOK
  <2>2. Cause
    BY <1>2, <2>1 DEF Cause
  <2> QED
    BY <1>1, <2>2 DEF IInv, ErrorsHaveCause, Walking, Cause
<1>5. NothingSkipped'
  <2> SUFFICES ASSUME NEW f \in File, file[f] = "whole", f \notin fresh
               PROVE  Accounted(f)'
    BY <1>1 DEF NothingSkipped
  <2>1. CASE dname = Top
    BY <1>1, <2>1 DEF Accounted, Lost
  <2>2. CASE dname # Top /\ f = e
    <3>1. dname \in Subdir /\ dname \in returned /\ dirOf[f] = dname /\ mode[dname] = "unsearchable"
      BY <1>1, <1>2, <2>2, Places DEF IInv, TypeOK, OpenDirs, Walking, Dir
    <3> QED
      BY <1>1, <2>2, <3>1 DEF Accounted, Lost
  <2>3. CASE dname # Top /\ f # e
    <3>1. Accounted(f)
      BY <1>1 DEF IInv, NothingSkipped, Walking
    <3>2. Known(f) => Known(f)'
      BY <1>1 DEF Known
    <3>3. Pending(f) => Pending(f)'
      BY <1>1, <2>3, Places DEF Pending
    <3>4. Lost(f) => Lost(f)'
      BY <1>1 DEF Lost, Forgiven
    <3> QED
      BY <1>1, <3>1, <3>2, <3>3, <3>4 DEF Accounted
  <2> QED
    BY <2>1, <2>2, <2>3
<1>6. PromptInv'
  BY <1>1 DEF PromptInv, NothingOverlooked, FatalOnlyForCause
<1> QED
  BY <1>3, <1>4, <1>5, <1>6 DEF WalkInv

\* A directory is open before its own entries can be missed; or it cannot be opened.
LEMMA ReaddirDirKeeps ==
    ASSUME IInv, NEW d \in Subdir, readdir_dir(d)
    PROVE  (WalkInv /\ PromptInv)'
<1>1. /\ pc = "readdir" /\ pc' = "readdir" /\ dname = Top /\ d \notin returned
      /\ returned' = returned \union {d}
      /\ UNCHANGED <<file, mode, fds, fresh, vanished, lib, kept, fn, res>>
  BY DEF readdir_dir, disk, registry
<1>2. fds \in Nat /\ (Out <=> fds < 2)
  BY <1>1, ConstantsAssumption DEF IInv, TypeOK, Out, Streams
<1>3. PromptInv'
  BY <1>1 DEF PromptInv, NothingOverlooked, FatalOnlyForCause
<1>4. CASE /\ mode[d] # "unreadable" /\ ~ Out
           /\ dname' = d
           /\ ahead' = [ahead EXCEPT ![d] = Entries(d)]
           /\ errno' = FALSE
  <2>1. /\ ahead'[d] = Entries(d)
        /\ \A e \in Dir : e # d => ahead'[e] = ahead[e]
    BY <1>4 DEF IInv, TypeOK, Dir
  <2>2. \A f \in File : f \in Entries(d) <=> file[f] # "absent" /\ dirOf[f] = d
    BY Places DEF Entries, Present
  <2>3. OpenDirs'
    BY <1>1, <1>4, <2>1, Places DEF IInv, OpenDirs, Walking, Dir
  <2>4. ErrorsHaveCause'
    BY <1>1, <1>4, <2>1, <2>2 DEF IInv, ErrorsHaveCause, Walking, Cause
  <2>5. NothingSkipped'
    <3> SUFFICES ASSUME NEW f \in File, file[f] = "whole", f \notin fresh,
                        ~ Known(f), f \notin kept
                 PROVE  Pending(f)' \/ Lost(f)'
      BY <1>1 DEF NothingSkipped, Accounted, Known
    <3>1. Pending(f) \/ Lost(f)
      BY <1>1 DEF IInv, NothingSkipped, Walking, Accounted
    <3>2. CASE Lost(f)
      <4>1. CASE res
        BY <1>1, <4>1 DEF Lost
      <4>2. CASE /\ dirOf[f] \in Subdir \intersect returned
                 /\ mode[dirOf[f]] # "open" \/ fds < Needed
        <5>1. Forgiven(f)
          BY <1>1, <1>2, <1>4, <4>2, Places DEF Forgiven
        <5> QED
          BY <1>1, <4>2, <5>1 DEF Lost, Forgiven
      <4> QED
        BY <1>2, <1>4, <3>2, <4>1, <4>2 DEF Lost
    <3>3. CASE Pending(f) /\ dirOf[f] = Top
      BY <1>1, <1>4, <2>1, <3>3, Places DEF Pending, Dir
    <3>4. CASE Pending(f) /\ dirOf[f] = d
      <4>1. f \notin returned
        BY <1>1, <3>4, Places DEF IInv, OpenDirs, Walking
      <4> QED
        BY <1>1, <1>4, <2>1, <2>2, <3>4, <4>1, Places DEF Pending
    <3>5. CASE Pending(f) /\ dirOf[f] \in Subdir \ {d}
      BY <1>1, <3>5, Places DEF Pending
    <3> QED
      BY <3>1, <3>2, <3>3, <3>4, <3>5, Places
  <2> QED
    BY <1>3, <2>3, <2>4, <2>5 DEF WalkInv
<1>5. CASE /\ mode[d] = "unreadable" \/ Out
           /\ errno' = TRUE
           /\ UNCHANGED <<dname, ahead>>
  <2>1. OpenDirs'
    BY <1>1, <1>5, Places DEF IInv, OpenDirs, Walking
  <2>2. Cause
    BY <1>2, <1>5 DEF Cause, Needed, Dir
  <2>3. ErrorsHaveCause'
    BY <1>1, <1>5, <2>2 DEF IInv, ErrorsHaveCause, Walking, Cause
  <2>4. NothingSkipped'
    <3> SUFFICES ASSUME NEW f \in File, file[f] = "whole", f \notin fresh
                 PROVE  Accounted(f)'
      BY <1>1 DEF NothingSkipped
    <3>1. Accounted(f)
      BY <1>1 DEF IInv, NothingSkipped, Walking
    <3>2. Known(f) => Known(f)'
      BY <1>1 DEF Known
    <3>3. CASE dirOf[f] = d
      BY <1>1, <1>2, <1>5, <3>3, Places DEF Accounted, Lost, Needed
    <3>4. CASE dirOf[f] # d
      <4>1. Pending(f) => Pending(f)'
        BY <1>1, <1>5, <3>4, Places DEF Pending
      <4>2. Lost(f) => Lost(f)'
        BY <1>1, <1>5 DEF Lost, Forgiven
      <4> QED
        BY <1>1, <3>1, <3>2, <4>1, <4>2 DEF Accounted
    <3> QED
      BY <3>3, <3>4
  <2> QED
    BY <1>3, <2>1, <2>3, <2>4 DEF WalkInv
<1> QED
  BY <1>4, <1>5 DEF readdir_dir

\* closedir comes after every entry that is still there.
LEMMA ClosedirNestedKeeps == IInv /\ closedir_nested => (WalkInv /\ PromptInv)'
<1> SUFFICES ASSUME IInv, closedir_nested
             PROVE  (WalkInv /\ PromptInv)'
  OBVIOUS
<1>1. /\ pc = "readdir" /\ pc' = "readdir" /\ dname \in Subdir /\ dname' = Top
      /\ returned' = {e \in returned : e \in Subdir \/ dirOf[e] # dname}
      /\ UNCHANGED <<file, mode, fds, fresh, vanished, lib, kept, fn, res, errno>>
  BY DEF closedir_nested, disk, registry
<1>2. /\ ahead'[dname] = {}
      /\ \A e \in Dir : e # dname => ahead'[e] = ahead[e]
  BY DEF closedir_nested, IInv, TypeOK
<1>3. OpenDirs'
  BY <1>1, <1>2, Places DEF IInv, OpenDirs, Walking, Dir
<1>4. ErrorsHaveCause'
  BY <1>1, <1>2 DEF IInv, ErrorsHaveCause, Walking, Cause
<1>5. NothingSkipped'
  <2>0. \A f \in File : (Known(f) => Known(f)') /\ (Lost(f) => Lost(f)')
    BY <1>1 DEF Known, Lost, Forgiven
  <2> SUFFICES ASSUME NEW f \in File, file[f] = "whole", f \notin fresh,
                      ~ Known(f), f \notin kept, ~ Lost(f)
               PROVE  Pending(f)'
    BY <1>1, <2>0 DEF NothingSkipped, Accounted
  <2>1. Pending(f)
    BY <1>1 DEF IInv, NothingSkipped, Walking, Accounted
  <2>2. ~ (f \in ahead[dname] \ returned)
    BY DEF closedir_nested, AtEnd, Present
  <2>3. CASE dirOf[f] = Top
    BY <1>1, <1>2, <2>1, <2>3, Places DEF Pending, Dir
  <2>4. CASE dirOf[f] \in Subdir \ returned
    BY <1>1, <2>4 DEF Pending
  <2> QED
    BY <1>1, <2>1, <2>2, <2>3, <2>4, Places DEF Pending
<1>6. PromptInv'
  BY <1>1 DEF PromptInv, NothingOverlooked, FatalOnlyForCause
<1> QED
  BY <1>3, <1>4, <1>5, <1>6 DEF WalkInv

LEMMA ClosedirTopKeeps == IInv /\ closedir_top => (WalkInv /\ PromptInv)'
<1> SUFFICES ASSUME IInv, closedir_top
             PROVE  (WalkInv /\ PromptInv)'
  OBVIOUS
<1>1. /\ pc = "readdir" /\ pc' \in {"exited", "stamp"} /\ dname = Top
      /\ pc' = "exited" <=> res \/ errno
      /\ UNCHANGED <<file, mode, fds, fresh, vanished, lib, kept>>
  BY DEF closedir_top, disk, registry
<1>2. OpenDirs'
  <2>1. \A d \in Dir : ahead'[d] = {}
    BY <1>1, Places DEF IInv, TypeOK, OpenDirs, Walking, closedir_top, Dir
  <2> QED
    BY <1>1, <2>1 DEF OpenDirs, Walking
<1>3. ErrorsHaveCause' /\ NothingSkipped'
  BY <1>1 DEF ErrorsHaveCause, NothingSkipped, Walking
<1>4. FatalOnlyForCause'
  BY <1>1 DEF IInv, ErrorsHaveCause, Walking, FatalOnlyForCause, Cause
<1>5. NothingOverlooked'
  <2> SUFFICES ASSUME ~ res, ~ errno, NEW f \in File, file[f] = "whole", f \notin fresh
               PROVE  Known(f) \/ f \in kept \/ Forgiven(f)
    BY <1>1 DEF NothingOverlooked, Known, Forgiven
  <2>1. Known(f) \/ f \in kept \/ Pending(f) \/ Forgiven(f)
    BY <1>1 DEF IInv, NothingSkipped, Walking, Accounted, Lost
  <2>2. ~ (f \in ahead[Top] \ returned) /\ Subdir \subseteq returned
    BY <1>1 DEF closedir_top, AtEnd, Present, IInv, OpenDirs, Walking
  <2> QED
    BY <1>1, <2>1, <2>2, Places DEF Pending
<1> QED
  BY <1>2, <1>3, <1>4, <1>5 DEF WalkInv, PromptInv

\* func leaves the library known, unless it cannot be loaded.
LEMMA CallShape ==
    ASSUME TypeOK, call
    PROVE  /\ fn \in File
           /\ pc' \in {"readdir", "overrun", "killed"}
           /\ kept \subseteq kept'
           /\ pc' = "readdir" =>
                 /\ errno' => errno \/ file[fn] \in {"absent", "useless"} \/ Out
                 /\ \/ file[fn] # "whole"
                    \/ fn \in kept'
                    \/ Out /\ errno'
                    \/ \E i \in DOMAIN lib' : nameOf[lib'[i].file] = nameOf[fn]
           /\ errno => errno' \/ pc' # "readdir"
<1> DEFINE module == [file |-> fn, clean |-> stale <= strlen[nameOf[fn]]]
<1>1. fn \in File
  BY DEF TypeOK, call
<1>2. CASE load_lib(fn)
  <2>0. pc' \in {"readdir", "overrun", "killed"} /\ kept \subseteq kept'
    BY <1>1, <1>2, LoadShape
  <2>1. CASE lib' = Append(lib, module) /\ UNCHANGED errno
    <3>1. Len(lib) + 1 \in DOMAIN lib' /\ lib'[Len(lib) + 1] = module
      <4> HIDE DEF module
      <4> QED
        BY <2>1 DEF TypeOK
    <3>2. \E i \in DOMAIN lib' : nameOf[lib'[i].file] = nameOf[fn]
      BY <3>1
    <3> QED
      BY <1>1, <2>0, <2>1, <3>2
  <2>2. CASE /\ UNCHANGED lib
             /\ pc' = "readdir" => file[fn] # "whole" \/ fn \in kept' \/ (Out /\ errno')
             /\ errno' # errno => file[fn] \in {"absent", "useless"} \/ Out
    <3>1. errno' => errno \/ file[fn] \in {"absent", "useless"} \/ Out
      BY <2>2, Zenon
    <3>2. errno => errno' \/ pc' # "readdir"
      <4>1. CASE pc' = "readdir"
        <5>1. Loads(fn) \/ dlopen_fails(fn) \/ dlsym_fails(fn)
          BY <1>2, <4>1 DEF load_lib
        <5>2. errno \in BOOLEAN
          BY DEF TypeOK
        <5> QED
          BY <5>1, <5>2, Zenon DEF Loads, dlopen_fails, dlsym_fails
      <4> QED
        BY <4>1
    <3> QED
      BY <1>1, <2>0, <2>2, <3>1, <3>2
  <2> HIDE DEF module
  <2> QED
    BY <1>1, <1>2, <2>1, <2>2, LoadShape DEF module
<1>3. CASE /\ Slots(nameOf[fn]) # {}
           /\ pc' = "readdir"
           /\ UNCHANGED <<lib, kept, stale, errno>>
  BY <1>1, <1>3 DEF Slots
<1> QED
  BY <1>2, <1>3 DEF call, add_lib

LEMMA CallKeeps == IInv /\ call => (WalkInv /\ PromptInv)'
<1> SUFFICES ASSUME IInv, call
             PROVE  (WalkInv /\ PromptInv)'
  OBVIOUS
<1>1. /\ pc = "call" /\ pc' \in {"readdir", "overrun", "killed"}
      /\ UNCHANGED <<file, mode, fds, fresh, vanished, dname, ahead, returned, res>>
  BY CallShape DEF call, disk, IInv
<1>2. OpenDirs'
  BY <1>1 DEF IInv, OpenDirs, Walking
<1>3. Out => fds < Needed /\ (dname = Top => fds < 2)
  BY ConstantsAssumption DEF IInv, TypeOK, Out, Streams, Needed
<1>4. ErrorsHaveCause'
  <2> SUFFICES ASSUME pc' = "readdir"
               PROVE  ErrorsHaveCause'
    BY <1>1 DEF ErrorsHaveCause, Walking
  <2>1. errno' => Cause
    <3>1. errno \/ file[fn] = "absent" => Cause
      BY <1>1 DEF IInv, ErrorsHaveCause, Walking, Cause
    <3>2. file[fn] = "useless" \/ Out => Cause
      BY <1>3, CallShape DEF IInv, Cause
    <3>3. errno' => errno \/ file[fn] \in {"absent", "useless"} \/ Out
      BY CallShape DEF IInv
    <3> QED
      BY <3>1, <3>2, <3>3
  <2>2. Cause' <=> Cause
    BY <1>1 DEF Cause
  <2> QED
    BY <1>1, <2>1, <2>2 DEF IInv, ErrorsHaveCause, Walking
<1>5. NothingSkipped'
  <2> SUFFICES ASSUME pc' = "readdir",
                      NEW f \in File, file[f] = "whole", f \notin fresh
               PROVE  Accounted(f)'
    BY <1>1 DEF NothingSkipped, Walking
  <2>1. CASE Known(f)
    <3>1. [Next]_vars
      BY DEF Next, Shell, Walk
    <3> QED
      BY <2>1, <3>1, KnownStays DEF IInv, Accounted
  <2>2. CASE f \in kept
    BY <2>2, CallShape DEF IInv, Accounted
  <2>3. CASE f = fn
    <3>1. \/ Known(f)' \/ f \in kept'
          \/ Out /\ errno'
      BY <2>3, CallShape DEF IInv, Known
    <3>2. dirOf[f] = dname /\ (dname = Top \/ dname \in Subdir \intersect returned)
      BY <1>1, <2>3 DEF IInv, TypeOK, OpenDirs, Walking, Dir
    <3> QED
      BY <1>1, <1>3, <3>1, <3>2 DEF Accounted, Lost
  <2>4. CASE Pending(f) /\ f # fn
    BY <1>1, <2>4 DEF Pending, Accounted
  <2>5. CASE Lost(f)
    <3>1. errno => errno'
      BY CallShape DEF IInv
    <3> QED
      BY <1>1, <2>5, <3>1 DEF Accounted, Lost, Forgiven
  <2> QED
    BY <1>1, <2>1, <2>2, <2>3, <2>4, <2>5 DEF IInv, NothingSkipped, Walking, Accounted
<1>6. PromptInv'
  BY <1>1 DEF PromptInv, NothingOverlooked, FatalOnlyForCause
<1> QED
  BY <1>2, <1>4, <1>5, <1>6 DEF WalkInv

LEMMA PromptKeeps ==
    ASSUME IInv,
           set_modified_time \/ input \/ dispatch \/ search_new_libs \/ not_found
    PROVE  (WalkInv /\ PromptInv)'
<1>1. /\ pc \in {"stamp", "prompt", "parse"}
      /\ pc' \in {"opendir", "prompt", "parse"}
      /\ UNCHANGED ahead
  BY DEF set_modified_time, input, dispatch, search_new_libs, not_found,
     disk, registry, walk
<1> QED
  BY <1>1 DEF WalkInv, PromptInv, IInv, OpenDirs, ErrorsHaveCause, NothingSkipped,
     NothingOverlooked, FatalOnlyForCause, Walking

LEMMA NextIInv == IInv /\ [Next]_vars => IInv'
<1> SUFFICES ASSUME IInv, [Next]_vars
             PROVE  IInv'
  OBVIOUS
<1>1. TypeOK'
  BY NextTypeOK DEF IInv
<1>2. CASE UNCHANGED vars
  BY <1>1, <1>2 DEF vars, disk, registry, walk, IInv, OpenDirs, ErrorsHaveCause,
     NothingSkipped, NothingOverlooked, FatalOnlyForCause, Walking, Accounted, Pending,
     Known, Lost, Forgiven, Cause
<1>3. CASE Next
  <2>1. (WalkInv /\ PromptInv)'
    BY <1>3, DiskKeeps, OpendirKeeps, ReaddirFileKeeps, ReaddirLostKeeps,
       ReaddirDirKeeps, ClosedirNestedKeeps, ClosedirTopKeeps, CallKeeps, PromptKeeps
       DEF Next, Shell, Walk
  <2> QED
    BY <1>1, <2>1 DEF IInv, WalkInv, PromptInv
<1> QED
  BY <1>2, <1>3

\* A walk that the shell survives has loaded every library that was complete when it
\* began, but for one without a __start and one in a directory that could not be read
\* while another could, however many directories there are, in whatever order readdir
\* returned the entries and whatever was removed, created or completed meanwhile
\* (recursive2.c, libloader.c).
THEOREM NothingIsOverlooked == Spec => []NothingOverlooked
<1>1. IInv => NothingOverlooked
  BY DEF IInv
<1> QED
  BY <1>1, InitIInv, NextIInv, PTL DEF Spec

\* The shell leaves with "IO error" only after a removal during the walk, for want of
\* descriptors or permissions, or for a complete library that lacks something: one
\* that is not complete never makes a walk fail (recursive2.c, libloader.c).
THEOREM FatalNeedsCause == Spec => []FatalOnlyForCause
<1>1. IInv => FatalOnlyForCause
  BY DEF IInv
<1> QED
  BY <1>1, InitIInv, NextIInv, PTL DEF Spec

=============================================================================
