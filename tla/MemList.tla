------------------------------ MODULE MemList -------------------------------
(***************************************************************************)
(* The `allocate`, `deallocate` and `rmkey` commands of the shell          *)
(* (libs/need_deps/allocate.c, libs/rmkey.c) and the list of blocks they   *)
(* keep (sys/mem_list.c), together with the part of the C library and of   *)
(* the kernel they act on: the heap, the mappings, the descriptor table    *)
(* and the System V shared memory segments.                                *)
(*                                                                         *)
(* The shell runs one command at a time, so every command is one action.   *)
(* A command that fails before it obtained anything, or that matches       *)
(* nothing in the list, changes nothing: it is a stuttering step, as are   *)
(* the listings (print_all, print_type).                                   *)
(*                                                                         *)
(* block_list[i + 1] stands for slot i of the C array, and Len(block_list) *)
(* for MEM_LIST_LAST.  Slots from MEM_LIST_LAST on are never read back:    *)
(* new_entry copies one and then overwrites all of its fields.  Writing to *)
(* slot SIZE or SIZE + 1, which the array does not have, is undefined.  It *)
(* either kills the process, which only cuts the behaviour short, or hits  *)
(* memory that nothing else uses; the model follows the second outcome.    *)
(***************************************************************************)
EXTENDS Integers, Sequences

CONSTANTS
    SIZE,         \* slots of block_list (mem_list.h: 4096)
    Ptr,          \* addresses malloc, mmap and shmat may return
    Bytes,        \* sizes a user asks for
    File, NoFile, \* files a user maps, and the name "" of the other entries
    FileSize,     \* st_size of each file
    Fd, NoFd,     \* descriptors, and the -1 of the other entries
    Key,          \* keys of shared memory
    IPC_PRIVATE,  \* the key 0, which is also the key of the other entries
    MaxSegs       \* bound: segments ever created

ASSUME ConstantsAssumption ==
    /\ SIZE \in Nat \ {0}
    /\ MaxSegs \in Nat
    /\ NoFile \notin File
    /\ NoFd \notin Fd
    /\ IPC_PRIVATE \notin Key
    /\ FileSize \in [File -> Bytes]

VARIABLES
    block_list,   \* the entries below MEM_LIST_LAST, oldest first
    live,         \* what each address is in use for, as the kernel sees it
    at,           \* the segment attached at an address (0: none)
    fds,          \* the file each descriptor is open on
    segs          \* every segment ever created, in order of creation

vars == <<block_list, live, at, fds, segs>>

MemType == {"malloc", "mmap", "shared"}

Entry == [mem_ptr : Ptr, mem_size : Bytes, mem_type : MemType,
          mem_fd : Fd \union {NoFd}, mem_file : File \union {NoFile},
          mem_key : Key \union {IPC_PRIVATE}]

Segment == [key : Key, size : Bytes, rmid : BOOLEAN]

TypeOK ==
    /\ block_list \in Seq(Entry)
    /\ live \in [Ptr -> MemType \union {"none"}]
    /\ at \in [Ptr -> Nat]
    /\ fds \in [Fd -> File \union {NoFile}]
    /\ segs \in Seq(Segment)

Init ==
    /\ block_list = <<>>
    /\ live = [p \in Ptr |-> "none"]
    /\ at = [p \in Ptr |-> 0]
    /\ fds = [fd \in Fd |-> NoFile]
    /\ segs = <<>>

-----------------------------------------------------------------------------
(* The list (sys/mem_list.c).                                              *)

\* Variant: the check for room is left out.
new_entry_unchecked(e) == block_list' = Append(block_list, e)

\* Variant: a full list makes room by dropping its oldest entry.
new_entry_dropping(e) ==
    block_list' = IF Len(block_list) > SIZE THEN Append(Tail(block_list), e)
                                            ELSE Append(block_list, e)

\* The check for room compares with > and comes after the write, so slots
\* SIZE and SIZE + 1 get written, and the entry for the latter is not counted.
new_entry(e) ==
    block_list' = IF Len(block_list) > SIZE THEN block_list
                                            ELSE Append(block_list, e)

\* Variant: the entries before i move, into the hole, instead of those behind.
Without_backwards(i) ==
    [j \in 1 .. Len(block_list) - 1 |->
        IF j \in 2 .. i THEN block_list[j - 1] ELSE block_list[j]]

\* Variant: the newest entry fills the hole.
Without_swap(i) ==
    [j \in 1 .. Len(block_list) - 1 |->
        IF j = i THEN block_list[Len(block_list)] ELSE block_list[j]]

\* The list after the entries behind i have moved up one slot.
Without(i) ==
    [j \in 1 .. Len(block_list) - 1 |->
        IF j < i THEN block_list[j] ELSE block_list[j + 1]]

remove_index(i) == block_list' = Without(i)

\* i is where a scan of the list from its start first finds one of S.
FirstIn(i, S) == i \in S /\ \A j \in S : i <= j

OfSize(size) ==
    {i \in DOMAIN block_list : /\ block_list[i].mem_size = size
                               /\ block_list[i].mem_type = "malloc"}
OfFile(file) == {i \in DOMAIN block_list : block_list[i].mem_file = file}
OfKey(key) == {i \in DOMAIN block_list : block_list[i].mem_key = key}
OfPtr(p) == {i \in DOMAIN block_list : block_list[i].mem_ptr = p}

-----------------------------------------------------------------------------
(* The C library and the kernel, as far as the commands use them.          *)

obtain(p, use) ==
    /\ live[p] = "none"
    /\ live' = [live EXCEPT ![p] = use]

\* free, munmap and shmdt act on an address that is in use for their own
\* purpose; shmdt of another address fails and its result is not looked at.
give_back(p, use) ==
    live' = IF live[p] = use THEN [live EXCEPT ![p] = "none"] ELSE live

detach(p) ==
    /\ give_back(p, "shared")
    /\ at' = [at EXCEPT ![p] = 0]

open_file(fd, file) ==
    /\ fds[fd] = NoFile
    /\ fds' = [fds EXCEPT ![fd] = file]

close_file(fd) == fds' = [fds EXCEPT ![fd] = NoFile]

\* shmget finds a segment by its key until IPC_RMID takes the key away.
Found(key) == {s \in DOMAIN segs : segs[s].key = key /\ ~segs[s].rmid}

-----------------------------------------------------------------------------
(* allocate -malloc, -mmap, -shared and -createshared.                     *)

m_alloc(size) ==
    \E p \in Ptr :
        /\ obtain(p, "malloc")
        /\ new_entry([mem_ptr |-> p, mem_size |-> size, mem_type |-> "malloc",
                      mem_fd |-> NoFd, mem_file |-> NoFile,
                      mem_key |-> IPC_PRIVATE])
        /\ UNCHANGED <<at, fds, segs>>

\* Variant: the result of get_size is recorded without a look at it.
m_map_unsized(file) ==
    \E fd \in Fd, p \in Ptr :
        /\ open_file(fd, file)
        /\ obtain(p, "mmap")
        /\ new_entry([mem_ptr |-> p, mem_size |-> -1,
                      mem_type |-> "mmap", mem_fd |-> fd, mem_file |-> file,
                      mem_key |-> IPC_PRIVATE])
        /\ UNCHANGED <<at, segs>>

m_map(file) ==
    \E fd \in Fd, p \in Ptr :
        /\ open_file(fd, file)
        /\ obtain(p, "mmap")
        /\ new_entry([mem_ptr |-> p, mem_size |-> FileSize[file],
                      mem_type |-> "mmap", mem_fd |-> fd, mem_file |-> file,
                      mem_key |-> IPC_PRIVATE])
        /\ UNCHANGED <<at, segs>>

\* stat or mmap fails (an empty file, a file opened without the rights the
\* mapping asks for): the command returns with the file still open.
m_map_fails(file) ==
    \E fd \in Fd :
        /\ open_file(fd, file)
        /\ UNCHANGED <<block_list, live, at, segs>>

\* shmat of segment s, of size and key given, and its entry.
attach(s, size, key) ==
    \E p \in Ptr :
        /\ obtain(p, "shared")
        /\ at' = [at EXCEPT ![p] = s]
        /\ new_entry([mem_ptr |-> p, mem_size |-> size, mem_type |-> "shared",
                      mem_fd |-> NoFd, mem_file |-> NoFile, mem_key |-> key])
        /\ UNCHANGED fds

m_shared_create(key, size) ==
    /\ Found(key) = {}
    /\ Len(segs) < MaxSegs
    /\ segs' = Append(segs, [key |-> key, size |-> size, rmid |-> FALSE])
    /\ attach(Len(segs) + 1, size, key)

m_shared_attach(key) ==
    \E s \in Found(key) :
        /\ attach(s, segs[s].size, key)
        /\ UNCHANGED segs

-----------------------------------------------------------------------------
(* deallocate -malloc, -mmap, -shared and deallocate addr.                 *)

\* Variant: the block of the first entry is freed and the last entry removed.
m_dealloc_last(size) ==
    \E i \in DOMAIN block_list :
        /\ FirstIn(i, OfSize(size))
        /\ give_back(block_list[i].mem_ptr, "malloc")
        /\ remove_index(Len(block_list))
        /\ UNCHANGED <<at, fds, segs>>

m_dealloc(size) ==
    \E i \in DOMAIN block_list :
        /\ FirstIn(i, OfSize(size))
        /\ give_back(block_list[i].mem_ptr, "malloc")
        /\ remove_index(i)
        /\ UNCHANGED <<at, fds, segs>>

\* Variant: the descriptor is read from slot i after the entries have moved up.
m_unmap_late(file) ==
    \E i \in DOMAIN block_list :
        /\ FirstIn(i, OfFile(file))
        /\ give_back(block_list[i].mem_ptr, "mmap")
        /\ remove_index(i)
        /\ IF i < Len(block_list) THEN close_file(block_list[i + 1].mem_fd)
                                  ELSE UNCHANGED fds
        /\ UNCHANGED <<at, segs>>

m_unmap(file) ==
    \E i \in DOMAIN block_list :
        /\ FirstIn(i, OfFile(file))
        /\ give_back(block_list[i].mem_ptr, "mmap")
        /\ close_file(block_list[i].mem_fd)
        /\ remove_index(i)
        /\ UNCHANGED <<at, segs>>

\* Variant: the entry is removed and the segment left attached.
m_unshare_attached(key) ==
    \E i \in DOMAIN block_list :
        /\ FirstIn(i, OfKey(key))
        /\ remove_index(i)
        /\ UNCHANGED <<live, at, fds, segs>>

\* atoi turns a malformed key into 0, which no segment has and every entry of
\* another kind does.
m_unshare(key) ==
    \E i \in DOMAIN block_list :
        /\ FirstIn(i, OfKey(key))
        /\ detach(block_list[i].mem_ptr)
        /\ remove_index(i)
        /\ UNCHANGED <<fds, segs>>

dealloc_ptr(p) ==
    \E i \in DOMAIN block_list :
        /\ FirstIn(i, OfPtr(p))
        /\ \/ /\ block_list[i].mem_type = "malloc"
              /\ give_back(p, "malloc")
              /\ UNCHANGED <<at, fds>>
           \/ /\ block_list[i].mem_type = "mmap"
              /\ give_back(p, "mmap")
              /\ close_file(block_list[i].mem_fd)
              /\ UNCHANGED at
           \/ /\ block_list[i].mem_type = "shared"
              /\ detach(p)
              /\ UNCHANGED fds
        /\ remove_index(i)
        /\ UNCHANGED segs

\* IPC_RMID: the key is free again, attachments stay until they are undone.
rmkey(key) ==
    \E s \in Found(key) :
        /\ segs' = [segs EXCEPT ![s].rmid = TRUE]
        /\ UNCHANGED <<block_list, live, at, fds>>

-----------------------------------------------------------------------------

print_all == UNCHANGED vars

Next ==
    \/ \E size \in Bytes : m_alloc(size) \/ m_dealloc(size)
    \/ \E file \in File : m_map(file) \/ m_map_fails(file) \/ m_unmap(file)
    \/ \E key \in Key : m_shared_attach(key) \/ rmkey(key)
    \/ \E key \in Key, size \in Bytes : m_shared_create(key, size)
    \/ \E key \in Key \union {IPC_PRIVATE} : m_unshare(key)
    \/ \E p \in Ptr : dealloc_ptr(p)
    \/ print_all

Spec == Init /\ [][Next]_vars

-----------------------------------------------------------------------------
(* What the list gets right.                                               *)

\* What an entry says about its block is so.
Backing(e) ==
    /\ live[e.mem_ptr] = e.mem_type
    /\ e.mem_type # "shared" => e.mem_key = IPC_PRIVATE
    /\ e.mem_type # "mmap" => e.mem_fd = NoFd /\ e.mem_file = NoFile
    /\ e.mem_type = "mmap" =>
          /\ e.mem_fd \in Fd /\ e.mem_file \in File
          /\ fds[e.mem_fd] = e.mem_file
    /\ e.mem_type = "shared" =>
          /\ at[e.mem_ptr] \in DOMAIN segs
          /\ segs[at[e.mem_ptr]].key = e.mem_key
          /\ segs[at[e.mem_ptr]].size = e.mem_size

\* Every entry of block_list names memory the process still holds, obtained
\* the way the entry says; the descriptor of a mapping is still open on its
\* file, and an attachment is one of the segment its key stood for.  So no
\* command that goes by an entry frees, unmaps or closes what is not there.
Backed == \A i \in DOMAIN block_list : Backing(block_list[i])

\* No block and no descriptor is in two entries, so giving one back leaves no
\* entry dangling (remove_index, new_entry).
Distinct ==
    \A i, j \in DOMAIN block_list : i # j =>
        /\ block_list[i].mem_ptr # block_list[j].mem_ptr
        /\ block_list[i].mem_type = "mmap" /\ block_list[j].mem_type = "mmap"
              => block_list[i].mem_fd # block_list[j].mem_fd

\* new_entry counts at most one entry more than the array has slots.
OverrunBounded == Len(block_list) <= SIZE + 1

\* When rmkey and -createshared have given a key to several segments in turn,
\* the list holds the attachments in the order of the segments: deallocate
\* -shared, which takes the first entry of the key, never detaches a segment
\* while an older one of that key is listed.
GenerationOrder ==
    \A i, j \in DOMAIN block_list :
        /\ i < j
        /\ block_list[i].mem_type = "shared" /\ block_list[j].mem_type = "shared"
        /\ block_list[i].mem_key = block_list[j].mem_key
        => at[block_list[i].mem_ptr] <= at[block_list[j].mem_ptr]

listed == {block_list[i].mem_ptr : i \in DOMAIN block_list}

held == {p \in Ptr : live[p] # "none"}

\* A block is given back only by a command that takes exactly its entry off
\* the list and keeps all the others, in their order.
ReleaseExact ==
    [][\A p \in held \ held' :
          \E i \in DOMAIN block_list :
             block_list[i].mem_ptr = p /\ block_list' = Without(i)]_vars

\* An attachment leaves the list only when it is detached; NoForget says the
\* same of all blocks and does not hold.
SharedNeverForgotten ==
    [][\A p \in listed \ listed' : live[p] = "shared" => live'[p] = "none"]_vars

\* The list keeps the promise of Ledger.
Abstract == INSTANCE Ledger
                WITH Block <- Ptr, Capacity <- SIZE, entries <- Len(block_list)

\* Every command is one step of the ledger, or none.
ImplementsLedger == Abstract!Spec

-----------------------------------------------------------------------------
(* What the commands say they do, and do not always do.                    *)

\* A command that takes a block off the list gives it back: m_unshare says
\* "block at address %p deallocated (shared)" (allocate.c:160).
NoForget == [][\A p \in listed \ listed' : live'[p] = "none"]_vars

\* The list fits its array: block_list[SIZE] (mem_list.h:19), and new_entry
\* says "Max size exceeded" (mem_list.c:40) when it would not.
WithinArray == Len(block_list) <= SIZE

=============================================================================
