--------------------------- MODULE MemListProofs ----------------------------
(***************************************************************************)
(* Proofs about MemList, for every size of the list and every set of       *)
(* addresses, descriptors, files and keys; and at the end about Bridge,    *)
(* for every size of its registry: the commands, with the bridge between   *)
(* them, do what MemList says.                                             *)
(*                                                                         *)
(* Those about MemList rest on one inductive invariant, IInv.  Backed alone is not *)
(* inductive: taking an entry off the list gives its block back, and only  *)
(* Distinct says that no other entry spoke of that block or descriptor.    *)
(* GenerationOrder needs Backed and OneOwnerOfKey: a new attachment goes   *)
(* to the end of the list, so its segment must be the newest of its key.   *)
(***************************************************************************)
EXTENDS Bridge, TLAPS

\* Only the newest segment of a key can still be found by it: shmget with IPC_EXCL
\* makes none as long as there is one.
OneOwnerOfKey ==
    \A s, t \in DOMAIN segs : s < t /\ segs[s].key = segs[t].key => segs[s].rmid

IInv ==
    /\ TypeOK
    /\ Backed
    /\ Distinct
    /\ OverrunBounded
    /\ OneOwnerOfKey
    /\ GenerationOrder

-----------------------------------------------------------------------------
(* Where the entries of the list are after it has lost or gained one.      *)

\* The slot an entry in slot j had before remove_index(i).
OldSlot(i, j) == IF j < i THEN j ELSE j + 1

\* remove_index keeps the other entries, in their order.
LEMMA RemovalMoves ==
    ASSUME block_list \in Seq(Entry), NEW i \in DOMAIN block_list
    PROVE  /\ Without(i) \in Seq(Entry)
           /\ Len(Without(i)) = Len(block_list) - 1
           /\ \A j \in DOMAIN Without(i) :
                 /\ OldSlot(i, j) \in DOMAIN block_list \ {i}
                 /\ Without(i)[j] = block_list[OldSlot(i, j)]
           /\ \A k \in DOMAIN block_list \ {i} :
                 \E j \in DOMAIN Without(i) : k = OldSlot(i, j)
<1>1. Len(block_list) \in Nat /\ DOMAIN block_list = 1 .. Len(block_list)
  OBVIOUS
<1>2. \A j \in 1 .. Len(block_list) - 1 :
         OldSlot(i, j) \in DOMAIN block_list \ {i}
  BY <1>1 DEF OldSlot
<1>3. Without(i) = [j \in 1 .. Len(block_list) - 1 |-> block_list[OldSlot(i, j)]]
  BY DEF Without, OldSlot
<1>4. \A k \in DOMAIN block_list : block_list[k] \in Entry
  OBVIOUS
<1>5. Len(block_list) - 1 \in Nat
  BY <1>1
<1>6. Without(i) \in Seq(Entry) /\ Len(Without(i)) = Len(block_list) - 1
  BY <1>2, <1>3, <1>4, <1>5
<1>7. DOMAIN Without(i) = 1 .. Len(block_list) - 1
  BY <1>3
<1>8. \A k \in DOMAIN block_list \ {i} :
         \E j \in DOMAIN Without(i) : k = OldSlot(i, j)
  <2> SUFFICES ASSUME NEW k \in DOMAIN block_list \ {i}
               PROVE  \E j \in DOMAIN Without(i) : k = OldSlot(i, j)
    OBVIOUS
  <2> DEFINE j == IF k < i THEN k ELSE k - 1
  <2>1. j \in DOMAIN Without(i) /\ k = OldSlot(i, j)
    BY <1>1, <1>7 DEF OldSlot
  <2> QED
    BY <2>1
<1> QED
  BY <1>2, <1>3, <1>6, <1>7, <1>8

\* new_entry adds the entry at the end or leaves the list as it is.
LEMMA AdditionMoves ==
    ASSUME block_list \in Seq(Entry), SIZE \in Nat, NEW e \in Entry, new_entry(e)
    PROVE  /\ block_list' \in Seq(Entry)
           /\ \/ block_list' = block_list /\ Len(block_list) > SIZE
              \/ /\ Len(block_list') = Len(block_list) + 1
                 /\ Len(block_list) <= SIZE
                 /\ block_list'[Len(block_list) + 1] = e
                 /\ \A j \in DOMAIN block_list : block_list'[j] = block_list[j]
BY DEF new_entry

-----------------------------------------------------------------------------
(* What the two kinds of change to the list preserve.                      *)

\* A removal keeps the invariant if what it gives back or closes is spoken of
\* by no other entry.
LEMMA RemovalKeeps ==
    ASSUME IInv, TypeOK', NEW i \in DOMAIN block_list, remove_index(i),
           UNCHANGED segs,
           \A e \in Entry : \A k \in DOMAIN block_list \ {i} :
              e = block_list[k] =>
                 /\ Backing(e)'
                 /\ at'[e.mem_ptr] = at[e.mem_ptr]
    PROVE  IInv'
<1> DEFINE old(j) == OldSlot(i, j)
<1>1. block_list \in Seq(Entry) /\ block_list' = Without(i)
  BY DEF IInv, TypeOK, remove_index
<1>2. /\ Len(block_list') = Len(block_list) - 1
      /\ \A j \in DOMAIN block_list' :
            old(j) \in DOMAIN block_list \ {i} /\ block_list'[j] = block_list[old(j)]
  BY <1>1, RemovalMoves
<1>3. \A j, k \in DOMAIN block_list' : (j < k <=> old(j) < old(k)) /\ (j = k <=> old(j) = old(k))
  <2>1. DOMAIN block_list' = 1 .. Len(block_list) - 1 /\ DOMAIN block_list = 1 .. Len(block_list)
    BY <1>1, <1>2 DEF Without
  <2>2. Len(block_list) \in Nat /\ i \in Nat
    BY <1>1, <2>1
  <2> QED
    BY <2>1, <2>2 DEF OldSlot
<1>4. \A j \in DOMAIN block_list' :
         /\ block_list'[j] \in Entry
         /\ block_list'[j] = block_list[old(j)]
         /\ at'[block_list'[j].mem_ptr] = at[block_list[old(j)].mem_ptr]
  BY <1>1, <1>2
<1>5. Backed'
  BY <1>2, <1>4 DEF Backed
<1>6. Distinct'
  BY <1>2, <1>3 DEF IInv, Distinct
<1>7. OverrunBounded'
  BY <1>1, <1>2, ConstantsAssumption DEF IInv, OverrunBounded
<1>8. OneOwnerOfKey'
  BY DEF IInv, OneOwnerOfKey
<1>9. GenerationOrder'
  BY <1>2, <1>3, <1>4 DEF IInv, GenerationOrder
<1> QED
  BY <1>5, <1>6, <1>7, <1>8, <1>9 DEF IInv

\* An addition keeps the invariant if the block was not in use, the descriptor
\* was not open, and the segment is none older than those listed of its key.
LEMMA AdditionKeeps ==
    ASSUME IInv, TypeOK', OneOwnerOfKey',
           NEW e \in Entry, new_entry(e), Backing(e)',
           live[e.mem_ptr] = "none",
           e.mem_type = "mmap" => fds[e.mem_fd] = NoFile,
           \A f \in Entry : \A k \in DOMAIN block_list :
              f = block_list[k] =>
                 /\ Backing(f)'
                 /\ at'[f.mem_ptr] = at[f.mem_ptr]
                 /\ f.mem_type = "shared" /\ e.mem_type = "shared" /\ f.mem_key = e.mem_key
                       => at[f.mem_ptr] <= at'[e.mem_ptr]
    PROVE  IInv'
<1>1. block_list \in Seq(Entry) /\ SIZE \in Nat
  BY ConstantsAssumption DEF IInv, TypeOK
<1>2. \A k \in DOMAIN block_list : block_list[k] \in Entry /\ Backing(block_list[k])
  BY <1>1 DEF IInv, Backed
<1>3. CASE block_list' = block_list
  <2>1. Backed'
    BY <1>2, <1>3 DEF Backed
  <2>2. Distinct' /\ OverrunBounded'
    BY <1>3 DEF IInv, Distinct, OverrunBounded
  <2>3. GenerationOrder'
    BY <1>2, <1>3 DEF IInv, GenerationOrder
  <2> QED
    BY <2>1, <2>2, <2>3 DEF IInv
<1>4. CASE /\ Len(block_list') = Len(block_list) + 1
           /\ Len(block_list) <= SIZE
           /\ block_list'[Len(block_list) + 1] = e
           /\ \A j \in DOMAIN block_list : block_list'[j] = block_list[j]
  <2> DEFINE new == Len(block_list) + 1
  <2>1. /\ new \in Nat
        /\ DOMAIN block_list' = 1 .. new
        /\ DOMAIN block_list = 1 .. new - 1
        /\ \A j \in DOMAIN block_list' \ {new} : j \in DOMAIN block_list /\ j < new
    BY <1>1, <1>4 DEF TypeOK
  <2>2. \A j \in DOMAIN block_list' \ {new} :
           /\ block_list'[j] = block_list[j]
           /\ block_list[j] \in Entry
           /\ Backing(block_list[j])
    BY <1>2, <1>4, <2>1
  <2>3. Backed'
    BY <1>4, <2>1, <2>2 DEF Backed
  <2>4. ASSUME NEW j \in DOMAIN block_list' \ {new}
        PROVE  /\ block_list[j].mem_ptr # e.mem_ptr
               /\ block_list[j].mem_type = "mmap" /\ e.mem_type = "mmap"
                     => block_list[j].mem_fd # e.mem_fd
    <3>1. Backing(block_list[j]) /\ block_list[j].mem_type \in MemType
      BY <2>2 DEF Entry
    <3> QED
      BY <3>1, ConstantsAssumption DEF Backing, MemType
  <2>5. Distinct'
    <3> SUFFICES ASSUME NEW j \in DOMAIN block_list', NEW k \in DOMAIN block_list', j # k
                 PROVE  /\ block_list'[j].mem_ptr # block_list'[k].mem_ptr
                        /\ block_list'[j].mem_type = "mmap" /\ block_list'[k].mem_type = "mmap"
                              => block_list'[j].mem_fd # block_list'[k].mem_fd
      BY DEF Distinct
    <3>1. CASE j = new
      BY <1>4, <2>2, <2>4, <3>1
    <3>2. CASE k = new
      BY <1>4, <2>2, <2>4, <3>2
    <3>3. CASE j # new /\ k # new
      BY <2>1, <2>2, <3>3 DEF IInv, Distinct
    <3> QED
      BY <3>1, <3>2, <3>3
  <2>6. OverrunBounded'
    BY <1>1, <1>4, <2>1 DEF OverrunBounded
  <2>7. GenerationOrder'
    <3> SUFFICES ASSUME NEW j \in DOMAIN block_list', NEW k \in DOMAIN block_list', j < k,
                        block_list'[j].mem_type = "shared",
                        block_list'[k].mem_type = "shared",
                        block_list'[j].mem_key = block_list'[k].mem_key
                 PROVE  at'[block_list'[j].mem_ptr] <= at'[block_list'[k].mem_ptr]
      BY DEF GenerationOrder
    <3>1. j # new
      BY <2>1
    <3>2. CASE k = new
      BY <1>4, <2>1, <2>2, <3>1, <3>2
    <3>3. CASE k # new
      BY <2>1, <2>2, <3>1, <3>3 DEF IInv, GenerationOrder
    <3> QED
      BY <3>2, <3>3
  <2> QED
    BY <2>3, <2>5, <2>6, <2>7 DEF IInv
<1> QED
  BY <1>1, <1>3, <1>4, AdditionMoves

-----------------------------------------------------------------------------
(* Type correctness.                                                       *)

LEMMA InitTypeOK == Init => TypeOK
BY ConstantsAssumption DEF Init, TypeOK

\* The entries that the commands make are entries.
LEMMA EntryTyped ==
    ASSUME NEW p \in Ptr, NEW size \in Bytes, NEW use \in MemType,
           NEW fd \in Fd \union {NoFd}, NEW file \in File \union {NoFile},
           NEW key \in Key \union {IPC_PRIVATE}
    PROVE  [mem_ptr |-> p, mem_size |-> size, mem_type |-> use, mem_fd |-> fd,
            mem_file |-> file, mem_key |-> key] \in Entry
BY DEF Entry

\* Putting an entry on the list keeps the types.
LEMMA AdditionTypeOK ==
    ASSUME TypeOK, NEW e \in Entry, new_entry(e)
    PROVE  block_list' \in Seq(Entry)
BY DEF TypeOK, new_entry

\* Taking an entry off the list and giving its memory back keeps the types.
LEMMA RemovalTypeOK ==
    ASSUME TypeOK, NEW i \in DOMAIN block_list, remove_index(i)
    PROVE  block_list' \in Seq(Entry)
BY RemovalMoves DEF TypeOK, remove_index

\* So do free, munmap, shmdt and close.
LEMMA GiveBackTypeOK ==
    ASSUME TypeOK, NEW p, NEW use
    PROVE  /\ give_back(p, use) => live' \in [Ptr -> MemType \union {"none"}]
           /\ detach(p) => /\ live' \in [Ptr -> MemType \union {"none"}]
                           /\ at' \in [Ptr -> Nat]
           /\ close_file(p) => fds' \in [Fd -> File \union {NoFile}]
<1>1. give_back(p, use) => live' \in [Ptr -> MemType \union {"none"}]
  BY DEF TypeOK, give_back
<1>2. give_back(p, "shared") => live' \in [Ptr -> MemType \union {"none"}]
  BY DEF TypeOK, give_back
<1>3. ASSUME at' = [at EXCEPT ![p] = 0]
      PROVE  at' \in [Ptr -> Nat]
  <2>1. at \in [Ptr -> Nat]
    BY DEF TypeOK
  <2>2. \A q \in Ptr : at'[q] \in Nat
    BY <1>3, <2>1
  <2> QED
    BY <1>3, <2>1, <2>2
<1>4. close_file(p) => fds' \in [Fd -> File \union {NoFile}]
  BY DEF TypeOK, close_file
<1> QED
  BY <1>1, <1>2, <1>3, <1>4 DEF detach

LEMMA NextTypeOK == TypeOK /\ [Next]_vars => TypeOK'
<1> SUFFICES ASSUME TypeOK, [Next]_vars
             PROVE  TypeOK'
  OBVIOUS
<1> USE ConstantsAssumption
<1>1. ASSUME NEW size \in Bytes, m_alloc(size)
      PROVE  TypeOK'
  <2>1. PICK p \in Ptr :
           /\ live' = [live EXCEPT ![p] = "malloc"]
           /\ new_entry([mem_ptr |-> p, mem_size |-> size, mem_type |-> "malloc",
                         mem_fd |-> NoFd, mem_file |-> NoFile,
                         mem_key |-> IPC_PRIVATE])
    BY <1>1 DEF m_alloc, obtain
  <2>2. block_list' \in Seq(Entry)
    BY <2>1, EntryTyped, AdditionTypeOK DEF MemType
  <2> QED
    BY <1>1, <2>1, <2>2 DEF TypeOK, MemType, m_alloc
<1>2. ASSUME NEW size \in Bytes, m_dealloc(size)
      PROVE  TypeOK'
  <2>1. block_list' \in Seq(Entry)
    BY <1>2, RemovalTypeOK DEF m_dealloc
  <2> QED
    BY <1>2, <2>1, GiveBackTypeOK DEF TypeOK, m_dealloc
<1>3. ASSUME NEW file \in File, m_map(file)
      PROVE  TypeOK'
  <2>1. PICK fd \in Fd, p \in Ptr :
           /\ fds' = [fds EXCEPT ![fd] = file]
           /\ live' = [live EXCEPT ![p] = "mmap"]
           /\ new_entry([mem_ptr |-> p, mem_size |-> FileSize[file],
                         mem_type |-> "mmap", mem_fd |-> fd, mem_file |-> file,
                         mem_key |-> IPC_PRIVATE])
    BY <1>3 DEF m_map, obtain, open_file
  <2>2. block_list' \in Seq(Entry)
    BY <2>1, EntryTyped, AdditionTypeOK DEF MemType
  <2> QED
    BY <1>3, <2>1, <2>2 DEF TypeOK, MemType, m_map
<1>4. ASSUME NEW file \in File, m_map_fails(file)
      PROVE  TypeOK'
  BY <1>4 DEF TypeOK, m_map_fails, open_file
<1>5. ASSUME NEW file \in File, m_unmap(file)
      PROVE  TypeOK'
  <2>1. block_list' \in Seq(Entry)
    BY <1>5, RemovalTypeOK DEF m_unmap
  <2> QED
    BY <1>5, <2>1, GiveBackTypeOK DEF TypeOK, m_unmap
<1>6. ASSUME NEW s \in Nat, NEW size \in Bytes, NEW key \in Key, attach(s, size, key)
      PROVE  /\ block_list' \in Seq(Entry)
             /\ live' \in [Ptr -> MemType \union {"none"}]
             /\ at' \in [Ptr -> Nat]
             /\ fds' \in [Fd -> File \union {NoFile}]
  <2>1. PICK p \in Ptr :
           /\ live' = [live EXCEPT ![p] = "shared"]
           /\ at' = [at EXCEPT ![p] = s]
           /\ new_entry([mem_ptr |-> p, mem_size |-> size, mem_type |-> "shared",
                         mem_fd |-> NoFd, mem_file |-> NoFile, mem_key |-> key])
           /\ UNCHANGED fds
    BY <1>6 DEF attach, obtain
  <2>2. block_list' \in Seq(Entry)
    BY <2>1, EntryTyped, AdditionTypeOK DEF MemType
  <2> QED
    BY <2>1, <2>2 DEF TypeOK, MemType
<1>7. ASSUME NEW key \in Key, m_shared_attach(key)
      PROVE  TypeOK'
  <2>1. PICK s \in Found(key) : attach(s, segs[s].size, key) /\ UNCHANGED segs
    BY <1>7 DEF m_shared_attach
  <2>2. segs \in Seq(Segment) /\ s \in DOMAIN segs
    BY DEF Found, TypeOK
  <2>3. s \in Nat /\ segs[s] \in Segment
    BY <2>2
  <2>4. segs[s].size \in Bytes
    BY <2>3 DEF Segment
  <2> QED
    BY <1>6, <2>1, <2>3, <2>4 DEF TypeOK
<1>8. ASSUME NEW key \in Key, rmkey(key)
      PROVE  TypeOK'
  <2>1. PICK s \in DOMAIN segs : segs' = [segs EXCEPT ![s].rmid = TRUE]
    BY <1>8 DEF rmkey, Found
  <2>2. segs \in Seq(Segment) /\ segs[s] \in Segment
    BY DEF TypeOK
  <2>3. [segs[s] EXCEPT !.rmid = TRUE] \in Segment
    BY <2>2 DEF Segment
  <2>4. segs' \in Seq(Segment)
    BY <2>1, <2>2, <2>3
  <2> QED
    BY <1>8, <2>4 DEF TypeOK, rmkey
<1>9. ASSUME NEW key \in Key, NEW size \in Bytes, m_shared_create(key, size)
      PROVE  TypeOK'
  <2>1. Len(segs) + 1 \in Nat /\ segs' \in Seq(Segment)
    BY <1>9 DEF m_shared_create, TypeOK, Segment
  <2>2. attach(Len(segs) + 1, size, key)
    BY <1>9 DEF m_shared_create
  <2> QED
    BY <1>6, <2>1, <2>2 DEF TypeOK
<1>10. ASSUME NEW key \in Key \union {IPC_PRIVATE}, m_unshare(key)
       PROVE  TypeOK'
  <2>1. block_list' \in Seq(Entry)
    BY <1>10, RemovalTypeOK DEF m_unshare
  <2> QED
    BY <1>10, <2>1, GiveBackTypeOK DEF TypeOK, m_unshare
<1>11. ASSUME NEW p \in Ptr, dealloc_ptr(p)
       PROVE  TypeOK'
  <2>1. block_list' \in Seq(Entry)
    BY <1>11, RemovalTypeOK DEF dealloc_ptr
  <2> QED
    BY <1>11, <2>1, GiveBackTypeOK DEF TypeOK, dealloc_ptr
<1>12. CASE UNCHANGED vars
  BY <1>12 DEF vars, TypeOK
<1> QED
  BY <1>1, <1>2, <1>3, <1>4, <1>5, <1>7, <1>8, <1>9, <1>10, <1>11, <1>12
  DEF Next, print_all

\* Type correctness of the list, of the memory and of the descriptors, for
\* every sequence of commands.
THEOREM TypeCorrect == Spec => []TypeOK
BY InitTypeOK, NextTypeOK, PTL DEF Spec

-----------------------------------------------------------------------------
(* The invariant, one operation at a time.                                 *)

LEMMA InitIInv == Init => IInv
<1> SUFFICES ASSUME Init
             PROVE  IInv
  OBVIOUS
<1>1. block_list = <<>> /\ segs = <<>> /\ TypeOK
  BY InitTypeOK DEF Init
<1>2. DOMAIN block_list = {} /\ DOMAIN segs = {} /\ Len(block_list) = 0
  BY <1>1
<1>3. OverrunBounded
  BY <1>2, ConstantsAssumption DEF OverrunBounded
<1> QED
  BY <1>1, <1>2, <1>3 DEF IInv, Backed, Distinct, OneOwnerOfKey, GenerationOrder

\* The entries of the list are entries, and what they say is so.
LEMMA ListedBacked ==
    ASSUME IInv, NEW k \in DOMAIN block_list
    PROVE  block_list[k] \in Entry /\ Backing(block_list[k])
BY DEF IInv, TypeOK, Backed

LEMMA MallocKeeps ==
    ASSUME IInv, TypeOK', NEW size \in Bytes, m_alloc(size)
    PROVE  IInv'
<1>1. PICK p \in Ptr :
         /\ obtain(p, "malloc")
         /\ new_entry([mem_ptr |-> p, mem_size |-> size, mem_type |-> "malloc",
                       mem_fd |-> NoFd, mem_file |-> NoFile,
                       mem_key |-> IPC_PRIVATE])
         /\ UNCHANGED <<at, fds, segs>>
  BY DEF m_alloc
<1> DEFINE e == [mem_ptr |-> p, mem_size |-> size, mem_type |-> "malloc",
                 mem_fd |-> NoFd, mem_file |-> NoFile, mem_key |-> IPC_PRIVATE]
<1>2. e \in Entry
  BY EntryTyped DEF MemType
<1>3. /\ live[p] = "none" /\ live'[p] = "malloc"
      /\ \A q \in Ptr \ {p} : live'[q] = live[q]
  BY <1>1 DEF obtain, IInv, TypeOK
<1>4. Backing(e)'
  BY <1>3 DEF Backing
<1>5. ASSUME NEW f \in Entry, NEW k \in DOMAIN block_list, f = block_list[k]
      PROVE  Backing(f)' /\ at'[f.mem_ptr] = at[f.mem_ptr]
  <2>1. Backing(f) /\ f.mem_ptr \in Ptr /\ f.mem_type \in MemType
    BY <1>5, ListedBacked DEF Entry
  <2>2. f.mem_ptr # p
    BY <1>3, <2>1 DEF Backing, MemType
  <2> QED
    BY <1>1, <1>3, <2>1, <2>2 DEF Backing
<1>6. OneOwnerOfKey'
  BY <1>1 DEF IInv, OneOwnerOfKey
<1> HIDE DEF e
<1> QED
  BY <1>1, <1>2, <1>3, <1>4, <1>5, <1>6, AdditionKeeps DEF e

LEMMA MapKeeps ==
    ASSUME IInv, TypeOK', NEW file \in File, m_map(file)
    PROVE  IInv'
<1>1. PICK fd \in Fd, p \in Ptr :
         /\ open_file(fd, file)
         /\ obtain(p, "mmap")
         /\ new_entry([mem_ptr |-> p, mem_size |-> FileSize[file],
                       mem_type |-> "mmap", mem_fd |-> fd, mem_file |-> file,
                       mem_key |-> IPC_PRIVATE])
         /\ UNCHANGED <<at, segs>>
  BY DEF m_map
<1> DEFINE e == [mem_ptr |-> p, mem_size |-> FileSize[file], mem_type |-> "mmap",
                 mem_fd |-> fd, mem_file |-> file, mem_key |-> IPC_PRIVATE]
<1>2. e \in Entry
  BY EntryTyped, ConstantsAssumption DEF MemType
<1>3. /\ live[p] = "none" /\ live'[p] = "mmap"
      /\ \A q \in Ptr \ {p} : live'[q] = live[q]
  BY <1>1 DEF obtain, IInv, TypeOK
<1>4. /\ fds[fd] = NoFile /\ fds'[fd] = file
      /\ \A g \in Fd \ {fd} : fds'[g] = fds[g]
  BY <1>1 DEF open_file, IInv, TypeOK
<1>5. Backing(e)'
  BY <1>3, <1>4 DEF Backing
<1>6. ASSUME NEW f \in Entry, NEW k \in DOMAIN block_list, f = block_list[k]
      PROVE  Backing(f)' /\ at'[f.mem_ptr] = at[f.mem_ptr]
  <2>1. Backing(f) /\ f.mem_ptr \in Ptr /\ f.mem_type \in MemType
    BY <1>6, ListedBacked DEF Entry
  <2>2. f.mem_ptr # p
    BY <1>3, <2>1 DEF Backing, MemType
  <2>3. f.mem_type = "mmap" => f.mem_fd # fd
    BY <1>4, <2>1, ConstantsAssumption DEF Backing
  <2> QED
    BY <1>1, <1>3, <1>4, <2>1, <2>2, <2>3 DEF Backing
<1>7. OneOwnerOfKey'
  BY <1>1 DEF IInv, OneOwnerOfKey
<1> HIDE DEF e
<1> QED
  BY <1>1, <1>2, <1>3, <1>4, <1>5, <1>6, <1>7, AdditionKeeps DEF e

LEMMA MapFailsKeeps ==
    ASSUME IInv, TypeOK', NEW file \in File, m_map_fails(file)
    PROVE  IInv'
<1>1. PICK fd \in Fd : open_file(fd, file) /\ UNCHANGED <<block_list, live, at, segs>>
  BY DEF m_map_fails
<1>2. fds[fd] = NoFile /\ \A g \in Fd \ {fd} : fds'[g] = fds[g]
  BY <1>1 DEF open_file, IInv, TypeOK
<1>3. ASSUME NEW k \in DOMAIN block_list
      PROVE  Backing(block_list[k])'
  <2>1. block_list[k] \in Entry /\ Backing(block_list[k])
    BY ListedBacked
  <2>2. block_list[k].mem_type = "mmap" => block_list[k].mem_fd # fd
    BY <1>2, <2>1, ConstantsAssumption DEF Backing
  <2> QED
    BY <1>1, <1>2, <2>1, <2>2 DEF Backing
<1>4. Backed'
  BY <1>1, <1>3 DEF Backed
<1> QED
  BY <1>1, <1>4 DEF IInv, Distinct, OverrunBounded, OneOwnerOfKey, GenerationOrder

\* Both ways to attach a segment: it is one of its key, and none of that key is
\* younger.
LEMMA AttachKeeps ==
    ASSUME IInv, TypeOK', OneOwnerOfKey',
           NEW key \in Key, NEW size \in Bytes, NEW s \in DOMAIN segs',
           segs'[s].key = key, segs'[s].size = size,
           \A t \in DOMAIN segs : /\ t \in DOMAIN segs'
                                  /\ segs'[t] = segs[t]
                                  /\ segs[t].key = key => t <= s,
           attach(s, size, key)
    PROVE  IInv'
<1>1. PICK p \in Ptr :
         /\ obtain(p, "shared")
         /\ at' = [at EXCEPT ![p] = s]
         /\ new_entry([mem_ptr |-> p, mem_size |-> size, mem_type |-> "shared",
                       mem_fd |-> NoFd, mem_file |-> NoFile, mem_key |-> key])
         /\ UNCHANGED fds
  BY DEF attach
<1> DEFINE e == [mem_ptr |-> p, mem_size |-> size, mem_type |-> "shared",
                 mem_fd |-> NoFd, mem_file |-> NoFile, mem_key |-> key]
<1>2. e \in Entry
  BY EntryTyped DEF MemType
<1>3. /\ live[p] = "none" /\ live'[p] = "shared" /\ at'[p] = s
      /\ \A q \in Ptr \ {p} : live'[q] = live[q] /\ at'[q] = at[q]
  BY <1>1 DEF obtain, IInv, TypeOK
<1>4. Backing(e)'
  BY <1>3 DEF Backing
<1>5. ASSUME NEW f \in Entry, NEW k \in DOMAIN block_list, f = block_list[k]
      PROVE  /\ Backing(f)'
             /\ at'[f.mem_ptr] = at[f.mem_ptr]
             /\ f.mem_type = "shared" /\ e.mem_type = "shared" /\ f.mem_key = e.mem_key
                   => at[f.mem_ptr] <= at'[e.mem_ptr]
  <2>1. Backing(f) /\ f.mem_ptr \in Ptr /\ f.mem_type \in MemType
    BY <1>5, ListedBacked DEF Entry
  <2>2. f.mem_ptr # p
    BY <1>3, <2>1 DEF Backing, MemType
  <2>3. Backing(f)'
    BY <1>1, <1>3, <2>1, <2>2 DEF Backing
  <2> QED
    BY <1>3, <2>1, <2>2, <2>3 DEF Backing
<1> HIDE DEF e
<1> QED
  BY <1>1, <1>2, <1>3, <1>4, <1>5, AdditionKeeps DEF e

LEMMA SharedAttachKeeps ==
    ASSUME IInv, TypeOK', NEW key \in Key, m_shared_attach(key)
    PROVE  IInv'
<1>1. PICK s \in Found(key) : attach(s, segs[s].size, key) /\ UNCHANGED segs
  BY DEF m_shared_attach
<1>2. segs \in Seq(Segment) /\ s \in DOMAIN segs /\ segs[s].key = key /\ ~segs[s].rmid
  BY DEF Found, IInv, TypeOK
<1>3. segs[s].size \in Bytes
  <2>1. segs[s] \in Segment
    BY <1>2
  <2> QED
    BY <2>1 DEF Segment
<1>4. ASSUME NEW t \in DOMAIN segs, segs[t].key = key
      PROVE  t <= s
  <2>1. s \in Nat /\ t \in Nat
    BY <1>2
  <2>2. ~(s < t)
    BY <1>2, <1>4 DEF IInv, OneOwnerOfKey
  <2> QED
    BY <2>1, <2>2
<1>5. OneOwnerOfKey'
  BY <1>1 DEF IInv, OneOwnerOfKey
<1> QED
  BY <1>1, <1>2, <1>3, <1>4, <1>5, AttachKeeps

LEMMA SharedCreateKeeps ==
    ASSUME IInv, TypeOK', NEW key \in Key, NEW size \in Bytes,
           m_shared_create(key, size)
    PROVE  IInv'
<1> DEFINE s == Len(segs) + 1
<1>1. /\ Found(key) = {}
      /\ segs' = Append(segs, [key |-> key, size |-> size, rmid |-> FALSE])
      /\ attach(s, size, key)
  BY DEF m_shared_create
<1>2. segs \in Seq(Segment) /\ Len(segs) \in Nat /\ DOMAIN segs = 1 .. Len(segs)
  BY DEF IInv, TypeOK
<1>3. /\ DOMAIN segs' = 1 .. s
      /\ segs'[s] = [key |-> key, size |-> size, rmid |-> FALSE]
      /\ \A t \in DOMAIN segs : segs'[t] = segs[t] /\ t < s /\ t \in DOMAIN segs'
  BY <1>1, <1>2
<1>4. \A t \in DOMAIN segs : segs[t].key = key => segs[t].rmid
  BY <1>1 DEF Found
<1>5. OneOwnerOfKey'
  <2> SUFFICES ASSUME NEW t \in DOMAIN segs', NEW u \in DOMAIN segs', t < u,
                      segs'[t].key = segs'[u].key
               PROVE  segs'[t].rmid
    BY DEF OneOwnerOfKey
  <2>1. t \in DOMAIN segs /\ segs'[t] = segs[t]
    BY <1>2, <1>3
  <2>2. CASE u = s
    BY <1>3, <1>4, <2>1, <2>2
  <2>3. CASE u # s
    BY <1>2, <1>3, <2>1, <2>3 DEF IInv, OneOwnerOfKey
  <2> QED
    BY <2>2, <2>3
<1>6. s \in DOMAIN segs' /\ segs'[s].key = key /\ segs'[s].size = size
  BY <1>2, <1>3
<1>7. \A t \in DOMAIN segs : /\ t \in DOMAIN segs'
                             /\ segs'[t] = segs[t]
                             /\ segs[t].key = key => t <= s
  BY <1>2, <1>3
<1> QED
  BY <1>1, <1>5, <1>6, <1>7, AttachKeeps

\* Whatever is given back for entry i, no other entry speaks of.
LEMMA OthersKeep ==
    ASSUME IInv, NEW i \in DOMAIN block_list, NEW k \in DOMAIN block_list \ {i}
    PROVE  /\ block_list[k].mem_ptr # block_list[i].mem_ptr
           /\ block_list[i].mem_fd \in Fd =>
                 block_list[k].mem_fd # block_list[i].mem_fd
<1>1. /\ block_list[i] \in Entry /\ Backing(block_list[i])
      /\ block_list[k] \in Entry /\ Backing(block_list[k])
  BY ListedBacked
<1>2. block_list[k].mem_ptr # block_list[i].mem_ptr
  BY DEF IInv, Distinct
<1>3. block_list[i].mem_type = "mmap" /\ block_list[k].mem_type = "mmap"
         => block_list[k].mem_fd # block_list[i].mem_fd
  BY DEF IInv, Distinct
<1> QED
  BY <1>1, <1>2, <1>3, ConstantsAssumption DEF Backing

\* A command that takes entry i off the list and gives back no more than its
\* block, its attachment and its descriptor.
Takes(i) ==
    /\ remove_index(i)
    /\ \E use \in MemType :
          \/ give_back(block_list[i].mem_ptr, use) /\ UNCHANGED at
          \/ detach(block_list[i].mem_ptr)
    /\ \/ UNCHANGED fds
       \/ close_file(block_list[i].mem_fd)
    /\ UNCHANGED segs

LEMMA TakesKeeps ==
    ASSUME IInv, TypeOK', NEW i \in DOMAIN block_list, Takes(i)
    PROVE  IInv'
<1> DEFINE p == block_list[i].mem_ptr
           fd == block_list[i].mem_fd
<1>1. \A q \in Ptr \ {p} : live'[q] = live[q] /\ at'[q] = at[q]
  BY DEF Takes, give_back, detach, IInv, TypeOK
<1>2. \A g \in Fd \ {fd} : fds'[g] = fds[g]
  BY DEF Takes, close_file, IInv, TypeOK
<1>3. fd \notin Fd => fds' = fds
  BY DEF Takes, close_file, IInv, TypeOK
<1>4. ASSUME NEW e \in Entry, NEW k \in DOMAIN block_list \ {i}, e = block_list[k]
      PROVE  Backing(e)' /\ at'[e.mem_ptr] = at[e.mem_ptr]
  <2>1. Backing(e) /\ e.mem_ptr \in Ptr
    BY <1>4, ListedBacked DEF Entry
  <2>2. e.mem_ptr # p /\ (fd \in Fd => e.mem_fd # fd)
    BY <1>4, OthersKeep
  <2>3. live'[e.mem_ptr] = live[e.mem_ptr] /\ at'[e.mem_ptr] = at[e.mem_ptr]
    BY <1>1, <2>1, <2>2
  <2>4. e.mem_fd \in Fd => fds'[e.mem_fd] = fds[e.mem_fd]
    BY <1>2, <1>3, <2>2
  <2> QED
    BY <2>1, <2>3, <2>4 DEF Backing, Takes
<1> QED
  BY <1>4, RemovalKeeps DEF Takes

\* Every command of deallocate takes one entry.
LEMMA DeallocateTakes ==
    ASSUME \/ \E size \in Bytes : m_dealloc(size)
           \/ \E file \in File : m_unmap(file)
           \/ \E key \in Key \union {IPC_PRIVATE} : m_unshare(key)
           \/ \E p \in Ptr : dealloc_ptr(p)
    PROVE  \E i \in DOMAIN block_list : Takes(i)
<1>1. ASSUME NEW size \in Bytes, m_dealloc(size)
      PROVE  \E i \in DOMAIN block_list : Takes(i)
  BY <1>1 DEF m_dealloc, Takes, MemType
<1>2. ASSUME NEW file \in File, m_unmap(file)
      PROVE  \E i \in DOMAIN block_list : Takes(i)
  BY <1>2 DEF m_unmap, Takes, MemType
<1>3. ASSUME NEW key \in Key \union {IPC_PRIVATE}, m_unshare(key)
      PROVE  \E i \in DOMAIN block_list : Takes(i)
  BY <1>3 DEF m_unshare, Takes, MemType
<1>4. ASSUME NEW p \in Ptr, dealloc_ptr(p)
      PROVE  \E i \in DOMAIN block_list : Takes(i)
  <2>1. PICK i \in DOMAIN block_list :
           /\ FirstIn(i, OfPtr(p))
           /\ \/ give_back(p, "malloc") /\ UNCHANGED <<at, fds>>
              \/ give_back(p, "mmap") /\ close_file(block_list[i].mem_fd) /\ UNCHANGED at
              \/ detach(p) /\ UNCHANGED fds
           /\ remove_index(i)
           /\ UNCHANGED segs
    BY <1>4 DEF dealloc_ptr
  <2>2. p = block_list[i].mem_ptr
    BY <2>1 DEF FirstIn, OfPtr
  <2>3. Takes(i)
    BY <2>1, <2>2 DEF Takes, MemType
  <2> QED
    BY <2>3
<1> QED
  BY <1>1, <1>2, <1>3, <1>4

LEMMA RmkeyKeeps ==
    ASSUME IInv, TypeOK', NEW key \in Key, rmkey(key)
    PROVE  IInv'
<1>1. PICK s \in DOMAIN segs : /\ segs' = [segs EXCEPT ![s].rmid = TRUE]
                               /\ UNCHANGED <<block_list, live, at, fds>>
  BY DEF rmkey, Found
<1>2. segs \in Seq(Segment)
  BY DEF IInv, TypeOK
<1>3. \A t \in DOMAIN segs : segs[t] \in Segment
  BY <1>2
<1>4. /\ DOMAIN segs' = DOMAIN segs
      /\ \A t \in DOMAIN segs : /\ segs'[t].key = segs[t].key
                                /\ segs'[t].size = segs[t].size
                                /\ segs[t].rmid => segs'[t].rmid
  BY <1>1, <1>2, <1>3 DEF Segment
<1>5. OneOwnerOfKey'
  BY <1>4 DEF IInv, OneOwnerOfKey
<1>6. Backed'
  BY <1>1, <1>4 DEF IInv, Backed, Backing
<1> QED
  BY <1>1, <1>5, <1>6 DEF IInv, Distinct, OverrunBounded, GenerationOrder

LEMMA NextIInv == IInv /\ [Next]_vars => IInv'
<1> SUFFICES ASSUME IInv, [Next]_vars
             PROVE  IInv'
  OBVIOUS
<1>1. TypeOK'
  BY NextTypeOK DEF IInv
<1>2. CASE UNCHANGED vars
  BY <1>2 DEF vars, IInv, TypeOK, Backed, Backing, Distinct, OverrunBounded,
              OneOwnerOfKey, GenerationOrder
<1> QED
  BY <1>1, <1>2, MallocKeeps, MapKeeps, MapFailsKeeps, SharedAttachKeeps,
     SharedCreateKeeps, TakesKeeps, DeallocateTakes, RmkeyKeeps
  DEF Next, print_all

THEOREM Invariance == Spec => []IInv
BY InitIInv, NextIInv, PTL DEF Spec

-----------------------------------------------------------------------------
(* What follows from the invariant.                                        *)

\* Every entry names memory, a descriptor or an attachment that is still there.
THEOREM ListBacked == Spec => []Backed
<1>1. IInv => Backed
  BY DEF IInv
<1> QED
  BY <1>1, Invariance, PTL

\* No two entries speak of the same block or the same descriptor.
THEOREM ListDistinct == Spec => []Distinct
<1>1. IInv => Distinct
  BY DEF IInv
<1> QED
  BY <1>1, Invariance, PTL

\* The array is overrun by one counted entry and no more.
THEOREM ListBounded == Spec => []OverrunBounded
<1>1. IInv => OverrunBounded
  BY DEF IInv
<1> QED
  BY <1>1, Invariance, PTL

\* deallocate -shared goes through the segments of a key from the oldest on.
THEOREM OldestSegmentFirst == Spec => []GenerationOrder
<1>1. IInv => GenerationOrder
  BY DEF IInv
<1> QED
  BY <1>1, Invariance, PTL

-----------------------------------------------------------------------------
(* What a step may do.                                                     *)

\* A command that obtains the block of e and offers e to the list.
Puts(e) ==
    /\ obtain(e.mem_ptr, e.mem_type)
    /\ new_entry(e)

LEMMA AllocatePuts ==
    ASSUME TypeOK,
           \/ \E size \in Bytes : m_alloc(size)
           \/ \E file \in File : m_map(file)
           \/ \E key \in Key : m_shared_attach(key)
           \/ \E key \in Key, size \in Bytes : m_shared_create(key, size)
    PROVE  \E e \in Entry : Puts(e)
<1>1. ASSUME NEW size \in Bytes, m_alloc(size)
      PROVE  \E e \in Entry : Puts(e)
  <2>1. PICK p \in Ptr :
           /\ obtain(p, "malloc")
           /\ new_entry([mem_ptr |-> p, mem_size |-> size, mem_type |-> "malloc",
                         mem_fd |-> NoFd, mem_file |-> NoFile,
                         mem_key |-> IPC_PRIVATE])
    BY <1>1 DEF m_alloc
  <2> DEFINE e == [mem_ptr |-> p, mem_size |-> size, mem_type |-> "malloc",
                    mem_fd |-> NoFd, mem_file |-> NoFile, mem_key |-> IPC_PRIVATE]
  <2>3. e \in Entry
    BY EntryTyped DEF MemType
  <2> QED
    BY <2>1, <2>3 DEF Puts
<1>2. ASSUME NEW file \in File, m_map(file)
      PROVE  \E e \in Entry : Puts(e)
  <2>1. PICK fd \in Fd, p \in Ptr :
           /\ obtain(p, "mmap")
           /\ new_entry([mem_ptr |-> p, mem_size |-> FileSize[file],
                         mem_type |-> "mmap", mem_fd |-> fd, mem_file |-> file,
                         mem_key |-> IPC_PRIVATE])
    BY <1>2 DEF m_map
  <2>2. FileSize[file] \in Bytes
    BY ConstantsAssumption
  <2> DEFINE e == [mem_ptr |-> p, mem_size |-> FileSize[file], mem_type |-> "mmap",
                    mem_fd |-> fd, mem_file |-> file, mem_key |-> IPC_PRIVATE]
  <2>3. e \in Entry
    BY <2>2, EntryTyped DEF MemType
  <2> QED
    BY <2>1, <2>3 DEF Puts
<1>3. ASSUME NEW s \in Nat, NEW size \in Bytes, NEW key \in Key, attach(s, size, key)
      PROVE  \E e \in Entry : Puts(e)
  <2>1. PICK p \in Ptr :
           /\ obtain(p, "shared")
           /\ new_entry([mem_ptr |-> p, mem_size |-> size, mem_type |-> "shared",
                         mem_fd |-> NoFd, mem_file |-> NoFile, mem_key |-> key])
    BY <1>3 DEF attach
  <2> DEFINE e == [mem_ptr |-> p, mem_size |-> size, mem_type |-> "shared",
                    mem_fd |-> NoFd, mem_file |-> NoFile, mem_key |-> key]
  <2>3. e \in Entry
    BY EntryTyped DEF MemType
  <2> QED
    BY <2>1, <2>3 DEF Puts
<1>4. ASSUME NEW key \in Key, m_shared_attach(key)
      PROVE  \E e \in Entry : Puts(e)
  <2>1. PICK s \in Found(key) : attach(s, segs[s].size, key)
    BY <1>4 DEF m_shared_attach
  <2>2. segs \in Seq(Segment) /\ s \in DOMAIN segs
    BY DEF Found, TypeOK
  <2>3. s \in Nat /\ segs[s] \in Segment
    BY <2>2
  <2>4. segs[s].size \in Bytes
    BY <2>3 DEF Segment
  <2> QED
    BY <1>3, <2>1, <2>3, <2>4
<1>5. ASSUME NEW key \in Key, NEW size \in Bytes, m_shared_create(key, size)
      PROVE  \E e \in Entry : Puts(e)
  <2>1. Len(segs) + 1 \in Nat
    BY DEF TypeOK
  <2> QED
    BY <1>3, <1>5, <2>1 DEF m_shared_create
<1> QED
  BY <1>1, <1>2, <1>4, <1>5

\* Every step offers one entry, takes one, or leaves list and memory alone.
LEMMA StepShape ==
    ASSUME TypeOK, [Next]_vars
    PROVE  \/ \E e \in Entry : Puts(e)
           \/ \E i \in DOMAIN block_list : Takes(i)
           \/ UNCHANGED <<block_list, live>>
BY AllocatePuts, DeallocateTakes DEF Next, print_all, vars, m_map_fails, rmkey

\* A new block was held by nobody and is held afterwards.
LEMMA PutsHeld ==
    ASSUME TypeOK, NEW e \in Entry, Puts(e)
    PROVE  e.mem_ptr \in Ptr \ held /\ held' = held \union {e.mem_ptr}
<1>1. e.mem_ptr \in Ptr /\ e.mem_type \in MemType
  BY DEF Entry
<1>2. /\ live[e.mem_ptr] = "none" /\ live'[e.mem_ptr] # "none"
      /\ \A q \in Ptr \ {e.mem_ptr} : live'[q] = live[q]
  BY <1>1 DEF Puts, obtain, TypeOK, MemType
<1> QED
  BY <1>1, <1>2 DEF held

\* No more than the block of the entry taken is given back.
LEMMA TakesHeld ==
    ASSUME IInv, NEW i \in DOMAIN block_list, Takes(i)
    PROVE  /\ block_list[i].mem_ptr \in listed \intersect held
           /\ \/ held' = held
              \/ held' = held \ {block_list[i].mem_ptr}
<1> DEFINE p == block_list[i].mem_ptr
<1>1. p \in Ptr /\ live[p] \in MemType
  BY ListedBacked DEF Entry, Backing
<1>2. p \in listed /\ p \in held
  BY <1>1 DEF listed, held, MemType
<1>3. \/ live' = live
      \/ live' = [live EXCEPT ![p] = "none"]
  BY DEF Takes, give_back, detach
<1>4. CASE live' = live
  BY <1>2, <1>4 DEF held
<1>5. CASE live' = [live EXCEPT ![p] = "none"]
  <2>1. live'[p] = "none" /\ \A q \in Ptr \ {p} : live'[q] = live[q]
    BY <1>1, <1>5 DEF IInv, TypeOK
  <2> QED
    BY <1>2, <2>1 DEF held
<1> QED
  BY <1>3, <1>4, <1>5

\* The addresses listed after an entry was taken.
LEMMA TakesListed ==
    ASSUME IInv, NEW i \in DOMAIN block_list, Takes(i)
    PROVE  /\ listed' = listed \ {block_list[i].mem_ptr}
           /\ Len(block_list') = Len(block_list) - 1
<1>1. block_list \in Seq(Entry) /\ block_list' = Without(i)
  BY DEF IInv, TypeOK, Takes, remove_index
<1>2. \A j \in DOMAIN block_list' :
         \E k \in DOMAIN block_list \ {i} : block_list'[j] = block_list[k]
  BY <1>1, RemovalMoves
<1>3. \A k \in DOMAIN block_list \ {i} :
         \E j \in DOMAIN block_list' : block_list'[j] = block_list[k]
  BY <1>1, RemovalMoves
<1>4. \A k \in DOMAIN block_list \ {i} :
         block_list[k].mem_ptr # block_list[i].mem_ptr
  BY DEF IInv, Distinct
<1>5. listed' = listed \ {block_list[i].mem_ptr}
  BY <1>2, <1>3, <1>4 DEF listed
<1> QED
  BY <1>1, <1>5, RemovalMoves

\* The addresses listed after an entry was offered.
LEMMA PutsListed ==
    ASSUME TypeOK, NEW e \in Entry, Puts(e)
    PROVE  \/ /\ Len(block_list) > SIZE
              /\ UNCHANGED block_list
           \/ /\ Len(block_list) <= SIZE
              /\ Len(block_list') = Len(block_list) + 1
              /\ listed' = listed \union {e.mem_ptr}
<1>1. block_list \in Seq(Entry) /\ SIZE \in Nat
  BY ConstantsAssumption DEF TypeOK
<1>2. CASE /\ Len(block_list') = Len(block_list) + 1
           /\ Len(block_list) <= SIZE
           /\ block_list'[Len(block_list) + 1] = e
           /\ \A j \in DOMAIN block_list : block_list'[j] = block_list[j]
  <2>1. block_list' \in Seq(Entry)
    BY <1>1, AdditionMoves DEF Puts
  <2>2. DOMAIN block_list' = DOMAIN block_list \union {Len(block_list) + 1}
    BY <1>1, <1>2, <2>1
  <2>3. listed' = listed \union {e.mem_ptr}
    BY <1>2, <2>2 DEF listed
  <2> QED
    BY <1>2, <2>3
<1> QED
  BY <1>1, <1>2, AdditionMoves DEF Puts

\* Attached segments are detached when their entry is taken: no other command
\* of deallocate finds the entry of one.
LEMMA SharedDetached ==
    ASSUME IInv, [Next]_vars, NEW p \in listed \ listed', live[p] = "shared"
    PROVE  live'[p] = "none"
<1>1. p \in Ptr /\ live \in [Ptr -> MemType \union {"none"}]
  <2>1. PICK k \in DOMAIN block_list : p = block_list[k].mem_ptr
    BY DEF listed
  <2> QED
    BY <2>1, ListedBacked DEF Entry, IInv, TypeOK
<1>2. ASSUME NEW i \in DOMAIN block_list, remove_index(i)
      PROVE  p = block_list[i].mem_ptr
  <2>1. \A k \in DOMAIN block_list \ {i} :
           \E j \in DOMAIN block_list' : block_list'[j] = block_list[k]
    BY <1>2, RemovalMoves DEF IInv, TypeOK, remove_index
  <2> QED
    BY <2>1 DEF listed
<1>3. ASSUME NEW i \in DOMAIN block_list, p = block_list[i].mem_ptr
      PROVE  block_list[i].mem_type = "shared" /\ block_list[i].mem_file = NoFile
  BY <1>3, ListedBacked DEF Backing
<1>4. ASSUME NEW size \in Bytes, m_dealloc(size)
      PROVE  FALSE
  BY <1>2, <1>3, <1>4 DEF m_dealloc, FirstIn, OfSize
<1>5. ASSUME NEW file \in File, m_unmap(file)
      PROVE  FALSE
  BY <1>2, <1>3, <1>5, ConstantsAssumption DEF m_unmap, FirstIn, OfFile
<1>6. ASSUME detach(p)
      PROVE  live'[p] = "none"
  BY <1>1, <1>6 DEF detach, give_back
<1>7. ASSUME NEW key \in Key \union {IPC_PRIVATE}, m_unshare(key)
      PROVE  live'[p] = "none"
  BY <1>2, <1>6, <1>7 DEF m_unshare
<1>8. ASSUME NEW q \in Ptr, dealloc_ptr(q)
      PROVE  live'[p] = "none"
  <2>1. PICK i \in DOMAIN block_list :
           /\ block_list[i].mem_ptr = q
           /\ \/ block_list[i].mem_type = "malloc"
              \/ block_list[i].mem_type = "mmap"
              \/ detach(q)
           /\ remove_index(i)
    BY <1>8 DEF dealloc_ptr, FirstIn, OfPtr
  <2> QED
    BY <1>2, <1>3, <1>6, <2>1
<1>9. ASSUME block_list' = block_list
      PROVE  FALSE
  BY <1>9 DEF listed
<1>10. ASSUME NEW e \in Entry, Puts(e)
       PROVE  FALSE
  <2>1. TypeOK
    BY DEF IInv
  <2>2. listed \subseteq listed'
    BY <1>10, <2>1, PutsListed DEF listed
  <2> QED
    BY <2>2
<1>11. CASE UNCHANGED vars
  BY <1>9, <1>11 DEF vars
<1>12. CASE \/ \E file \in File : m_map_fails(file)
            \/ \E key \in Key : rmkey(key)
  BY <1>9, <1>12 DEF m_map_fails, rmkey
<1>13. CASE \/ \E size \in Bytes : m_alloc(size)
            \/ \E file \in File : m_map(file)
            \/ \E key \in Key : m_shared_attach(key)
            \/ \E key \in Key, size \in Bytes : m_shared_create(key, size)
  BY <1>10, <1>13, AllocatePuts DEF IInv
<1> QED
  BY <1>4, <1>5, <1>7, <1>8, <1>11, <1>12, <1>13 DEF Next, print_all

\* A block is given back only together with exactly its entry.
THEOREM GivenBackExactly == Spec => ReleaseExact
<1>1. IInv /\ [Next]_vars =>
         [\A p \in held \ held' :
             \E i \in DOMAIN block_list :
                block_list[i].mem_ptr = p /\ block_list' = Without(i)]_vars
  <2> SUFFICES ASSUME IInv, [Next]_vars, NEW p \in held \ held'
               PROVE  \E i \in DOMAIN block_list :
                         block_list[i].mem_ptr = p /\ block_list' = Without(i)
    OBVIOUS
  <2>1. CASE \E e \in Entry : Puts(e)
    BY <2>1, PutsHeld DEF IInv
  <2>2. CASE UNCHANGED <<block_list, live>>
    BY <2>2 DEF held
  <2>3. CASE \E i \in DOMAIN block_list : Takes(i)
    BY <2>3, TakesHeld DEF Takes, remove_index
  <2> QED
    BY <2>1, <2>2, <2>3, StepShape DEF IInv
<1> QED
  BY <1>1, Invariance, PTL DEF Spec, ReleaseExact

\* No command forgets a segment that is attached.
THEOREM NoSegmentForgotten == Spec => SharedNeverForgotten
<1>1. IInv /\ [Next]_vars =>
         [\A p \in listed \ listed' : live[p] = "shared" => live'[p] = "none"]_vars
  BY SharedDetached
<1> QED
  BY <1>1, Invariance, PTL DEF Spec, SharedNeverForgotten

-----------------------------------------------------------------------------
(* The list implements the ledger.                                         *)

LEMMA InitLedger == Init => Abstract!Init
<1> SUFFICES ASSUME Init
             PROVE  Abstract!Init
  OBVIOUS
<1>1. held = {} /\ listed = {} /\ Len(block_list) = 0
  BY DEF Init, held, listed
<1> QED
  BY <1>1 DEF Abstract!Init

LEMMA NextLedger ==
    ASSUME IInv, [Next]_vars
    PROVE  [Abstract!Next]_Abstract!vars
<1>0. Len(block_list) \in Nat /\ SIZE \in Nat
  BY ConstantsAssumption DEF IInv, TypeOK
<1>1. ASSUME NEW e \in Entry, Puts(e)
      PROVE  Abstract!Next
  <2> DEFINE p == e.mem_ptr
  <2>1. p \in Ptr \ held /\ held' = held \union {p}
    BY <1>1, PutsHeld DEF IInv
  <2>2. CASE Len(block_list) > SIZE /\ UNCHANGED block_list
    <3>1. Abstract!Spill(p)
      BY <2>1, <2>2 DEF Abstract!Spill, listed
    <3> QED
      BY <2>1, <3>1 DEF Abstract!Next
  <2>3. CASE /\ Len(block_list) <= SIZE
             /\ Len(block_list') = Len(block_list) + 1
             /\ listed' = listed \union {p}
    <3>1. Abstract!Acquire(p)
      BY <2>1, <2>3 DEF Abstract!Acquire
    <3> QED
      BY <2>1, <3>1 DEF Abstract!Next
  <2> QED
    BY <1>1, <2>2, <2>3, PutsListed DEF IInv
<1>2. ASSUME NEW i \in DOMAIN block_list, Takes(i)
      PROVE  Abstract!Next
  <2> DEFINE p == block_list[i].mem_ptr
  <2>1. p \in Ptr
    BY ListedBacked DEF Entry
  <2>2. Abstract!Release(p) \/ Abstract!Forget(p)
    BY <1>2, TakesHeld, TakesListed DEF Abstract!Release, Abstract!Forget
  <2> QED
    BY <2>1, <2>2 DEF Abstract!Next
<1>3. ASSUME UNCHANGED <<block_list, live>>
      PROVE  UNCHANGED Abstract!vars
  BY <1>3 DEF Abstract!vars, held, listed
<1> QED
  BY <1>1, <1>2, <1>3, StepShape DEF IInv

\* Every sequence of commands is one the ledger allows: a listed block is held,
\* and is given back only through its listing.
THEOREM LedgerImplemented == Spec => ImplementsLedger
<1>1. IInv /\ [Next]_vars => [Abstract!Next]_Abstract!vars
  BY NextLedger
<1> QED
  BY <1>1, InitLedger, Invariance, PTL DEF Spec, ImplementsLedger, Abstract!Spec

-----------------------------------------------------------------------------
(* The bridge from deallocate to the list.                                 *)

\* load_lib keeps the registry as it should be, and what is in its first slot.
LEMMA LoadKeeps ==
    ASSUME BridgeTypeOK, load_lib(so),
           ~ (Loads /\ modules = MAX_MODULES)
    PROVE  /\ modules' \in 0 .. MAX_MODULES
           /\ lib' \in Library \union {"none"}
           /\ modules' = 0 <=> lib' = "none"
           /\ modules > 0 => lib' = lib /\ lib' # "none"
           /\ lib' = "newer" => so # "mapped"
           /\ lib' = "mapped" => modules > 0 \/ so = "mapped"
    BY MaxModulesAssumption DEF BridgeTypeOK, load_lib, Loads, Library

\* Every call of deallocate keeps it so, those that end the shell too.
LEMMA DeallocateKeeps ==
    ASSUME BridgeTypeOK, deallocate
    PROVE  BridgeTypeOK'
<1>1. CASE Loads /\ modules = MAX_MODULES
  BY <1>1 DEF BridgeTypeOK, deallocate, Library
<1>2. CASE ~ (Loads /\ modules = MAX_MODULES)
  <2>1. load_lib(so) /\ so' = so /\ home' = home
    BY <1>2 DEF deallocate
  <2>2. shell' \in {"runs", "killed", "overrun"}
    BY <1>2 DEF deallocate, BridgeTypeOK
  <2> QED
    BY <2>1, <2>2, <1>2, LoadKeeps DEF BridgeTypeOK
<1> QED
  BY <1>1, <1>2

LEMMA StepKeeps ==
    BridgeTypeOK /\ [BridgeNext]_bvars => BridgeTypeOK'
<1> SUFFICES ASSUME BridgeTypeOK, [BridgeNext]_bvars
             PROVE  BridgeTypeOK'
  OBVIOUS
<1>1. CASE build
  BY <1>1 DEF build, BridgeTypeOK, Library
<1>2. CASE chdir
  BY <1>2 DEF chdir, BridgeTypeOK, Library
<1>3. CASE deallocate
  BY <1>3, DeallocateKeeps
<1>4. CASE UNCHANGED bridge
  BY <1>4 DEF bridge, BridgeTypeOK
<1>5. CASE UNCHANGED bvars
  BY <1>5, <1>4 DEF bvars
<1> QED
  BY <1>1, <1>2, <1>3, <1>4, <1>5 DEF BridgeNext

-----------------------------------------------------------------------------

\* The registry of deallocate: its first slot is empty exactly as long as nothing
\* has been loaded (load_lib).
THEOREM BridgeTypeCorrect == BridgeSpec => []BridgeTypeOK
<1>1. BridgeInit => BridgeTypeOK
  BY MaxModulesAssumption DEF BridgeInit, BridgeTypeOK, Library
<1> QED
  BY <1>1, StepKeeps, PTL DEF BridgeSpec

\* What the first deallocate has loaded is what all later ones call: none of them
\* ends the shell, and they reach allocate's list or never do (deallocate).
THEOREM FirstCallDecides == BridgeSpec => FirstDecides
<1>1. ASSUME BridgeTypeOK, deallocate
      PROVE  /\ modules > 0 => shell' # "killed" /\ lib' = lib
             /\ lib' = "newer" => so # "mapped" /\ block_list' = block_list
             /\ lib' = "mapped" => modules > 0 \/ so = "mapped"
  <2>1. CASE Loads /\ modules = MAX_MODULES
    BY <1>1, <2>1 DEF BridgeTypeOK, deallocate, vars
  <2>2. CASE ~ (Loads /\ modules = MAX_MODULES)
    <3>1. load_lib(so)
      BY <1>1, <2>2 DEF deallocate
    <3>2. /\ modules > 0 => lib' = lib /\ lib' # "none"
          /\ lib' = "newer" => so # "mapped"
          /\ lib' = "mapped" => modules > 0 \/ so = "mapped"
      BY <1>1, <2>2, <3>1, LoadKeeps
    <3>3. lib' = "none" \/ shell' = shell
      BY <1>1, <2>2 DEF deallocate
    <3>4. lib' = "newer" => block_list' = block_list
      BY <1>1, <2>2 DEF deallocate, vars
    <3>5. shell = "runs"
      BY <1>1 DEF deallocate
    <3> QED
      BY <3>2, <3>3, <3>4, <3>5
  <2> QED
    BY <2>1, <2>2
<1> QED
  BY <1>1, BridgeTypeCorrect, PTL DEF BridgeSpec, FirstDecides

\* The bridge adds nothing to what the commands do to the list, the memory and
\* the segments: each call of deallocate is one of MemList's, or has no effect.
THEOREM MemListImplemented == BridgeSpec => Spec
<1>1. BridgeInit => Init
  BY DEF BridgeInit
<1>2. [BridgeNext]_bvars => [Next]_vars
  <2> SUFFICES ASSUME [BridgeNext]_bvars
               PROVE  [Next]_vars
    OBVIOUS
  <2>1. CASE build \/ chdir \/ UNCHANGED bvars
    BY <2>1 DEF build, chdir, bvars
  <2>2. CASE deallocate
    <3>1. Deallocate => Next
      BY DEF Deallocate, Next
    <3> QED
      BY <2>2, <3>1 DEF deallocate
  <2>3. CASE Allocate
    BY <2>3 DEF Allocate, Next
  <2> QED
    BY <2>1, <2>2, <2>3 DEF BridgeNext
<1> QED
  BY <1>1, <1>2, PTL DEF BridgeSpec, Spec

=============================================================================
