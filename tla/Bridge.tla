------------------------------- MODULE Bridge -------------------------------
(***************************************************************************)
(* The command deallocate (libs/need_deps/deallocate.c) on its way to the  *)
(* list of allocate.  Its library has a loader and a registry of its own,  *)
(* and at every call loads allocate.so once more, by a path relative to    *)
(* the current directory, and calls what is in the first slot.             *)
(*                                                                         *)
(* The list is inside allocate.so.  Loading the file the shell has mapped, *)
(* or a path that was loaded before, gives that library again; loading a   *)
(* file that was built since gives another library, with a list of its own *)
(* that nothing is ever put into.                                          *)
(***************************************************************************)
EXTENDS MemList

CONSTANT MAX_MODULES      \* slots of the registry (libloader.h: 128)

ASSUME MaxModulesAssumption == MAX_MODULES \in Nat \ {0}

VARIABLES
    so,         \* allocate.so on the disk: the file the shell has mapped or not
    home,       \* the relative path leads there
    lib,        \* what the first slot holds
    modules,    \* slots in use
    shell

bridge == <<so, home, lib, modules, shell>>
bvars == <<vars, bridge>>

Library == {"mapped", "newer"}

BridgeTypeOK ==
    /\ so \in Library \union {"absent"}
    /\ home \in BOOLEAN
    /\ lib \in Library \union {"none"} /\ (lib = "newer" => so # "mapped")
    /\ modules \in 0 .. MAX_MODULES /\ (modules = 0 <=> lib = "none")
    /\ shell \in {"runs", "killed", "overrun"}

BridgeInit ==
    /\ Init
    /\ so = "mapped" /\ home = TRUE
    /\ lib = "none" /\ modules = 0
    /\ shell = "runs"

-----------------------------------------------------------------------------

\* The build: rm *.so, and the compiler.
build ==
    /\ so' = IF so = "absent" THEN "newer" ELSE "absent"
    /\ UNCHANGED <<vars, home, lib, modules, shell>>

chdir ==
    /\ shell = "runs"
    /\ home' = ~ home
    /\ UNCHANGED <<vars, so, lib, modules, shell>>

\* A path that was loaded before is not looked for again.
Loads == modules > 0 \/ (home /\ so # "absent")

\* Variant: the slot is counted before its load has succeeded.
load_lib_early(path) ==
    /\ modules' = modules + 1
    /\ lib' = IF modules = 0 /\ Loads THEN path ELSE lib

\* Variant: the path is looked for at every call.
load_lib_anew(path) ==
    IF home /\ so # "absent" THEN modules' = modules + 1 /\ lib' = so
                             ELSE UNCHANGED modules /\ lib' = "none"

load_lib(path) ==
    IF Loads THEN /\ modules' = modules + 1
                  /\ lib' = IF modules = 0 THEN path ELSE lib
             ELSE UNCHANGED <<modules, lib>>

Deallocate ==
    \/ \E size \in Bytes : m_dealloc(size)
    \/ \E file \in File : m_unmap(file)
    \/ \E key \in Key \union {IPC_PRIVATE} : m_unshare(key)
    \/ \E p \in Ptr : dealloc_ptr(p)
    \/ print_all

\* An empty slot is called all the same, and a full registry is written past.
deallocate ==
    /\ shell = "runs"
    /\ UNCHANGED <<so, home>>
    /\ IF Loads /\ modules = MAX_MODULES
         THEN shell' = "overrun" /\ UNCHANGED <<vars, lib, modules>>
         ELSE /\ load_lib(so)
              /\ \/ lib' = "mapped" /\ Deallocate /\ UNCHANGED shell
                 \/ lib' = "newer" /\ UNCHANGED <<vars, shell>>
                 \/ lib' = "none" /\ shell' = "killed" /\ UNCHANGED vars

Allocate ==
    \/ \E size \in Bytes : m_alloc(size)
    \/ \E file \in File : m_map(file) \/ m_map_fails(file)
    \/ \E key \in Key : m_shared_attach(key) \/ rmkey(key)
    \/ \E key \in Key, size \in Bytes : m_shared_create(key, size)

BridgeNext ==
    \/ build \/ chdir \/ deallocate
    \/ shell = "runs" /\ Allocate /\ UNCHANGED bridge

BridgeSpec == BridgeInit /\ [][BridgeNext]_bvars

-----------------------------------------------------------------------------

\* The first deallocate decides: if it found allocate.so, no later one ends the
\* shell, wherever the user goes and whatever is built; if that was the library
\* allocate runs in, all work on its list, and otherwise something was built
\* before the first and none does (deallocate, load_lib).
FirstDecides ==
    [][deallocate =>
        /\ modules > 0 => shell' # "killed" /\ lib' = lib
        /\ lib' = "newer" => so # "mapped" /\ block_list' = block_list
        /\ lib' = "mapped" => modules > 0 \/ so = "mapped"]_bvars

=============================================================================
