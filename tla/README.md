# Verification of OSShell

OSShell (`src/shellquemola`) is a shell for Linux written in C.  Every command
is a shared library below `libs/`; the shell finds the libraries when it
starts, looks for new ones when a command is unknown, and calls the `__start`
of the library that has the name of the command.  This directory holds TLA+
models of the parts of the shell that keep state, the TLC configurations that
check them, and proofs for the TLA+ proof system.

Paths below are relative to `src/shellquemola`.

## 1. Inventory

### Components

| component | code | state | operations |
|---|---|---|---|
| memory list | `sys/mem_list.c`, `libs/need_deps/allocate.c`, `libs/rmkey.c` | `block_list`, `MEM_LIST_LAST`; in the process: heap blocks, mappings, descriptors, attachments; in the kernel: shared segments | `allocate -malloc/-mmap/-shared/-createshared`, `deallocate -malloc/-mmap/-shared/addr`, `rmkey`, listings |
| library loader | `sys/libloader.c`, `sys/recursive2.c`, `parser` in `shell.c` | `lib`, `modules`, `last_modified`; during a walk: the open directories, `res`, `errno` | `load_all_libs`, `search_new_libs`, dispatch of a command |
| task switcher | `libs/allcoate.c` | a static ring of contexts, flags of the tasks not yet called, the frames on the stack | `__start`, `kwrite`/`kyield`, the jump, the return |
| prototypes of the switcher | `libs/switch/kernel.c`, `test/switch/*` | as above | as above, with other rules |
| command line and history | `input`, `get_tokens`, `parse`, `loop` in `shell.c`, `sys/memo.c` | the one line buffer, a doubly linked list, `actual_node` | a key, UP, DOWN, the end of a line |
| bridge | `libs/need_deps/deallocate.c`, `libs/chdir.c` | a second registry of modules; the current directory; `allocate.so` on the disk | loads `allocate.so` and calls it |
| file I/O | `libs/need_lrt/read.c`, `write.c` | a file, memory, a descriptor, the control block of a request | `read`, `write`, with and without `-async` |
| symbol table | `sys/symbol_table.c` | the table of one file | build, sort, look up an address, a name |
| program loaders | `libs/need_deps/runf.c`, `work.c` | none | copy a file into memory, jump into it |
| delete | `libs/delete.c` | the directory tree, the streams open in the recursion and those left open | delete a file, an empty directory, a tree |
| listing | `libs/need_deps/list.c`, `libs/query.c` with a copy of `sys/recursive2.c` | during a walk: the open directories, `res`, `errno` | `list`, `list -r`, `query` |
| small commands | other files of `libs` | none between calls | output |
| build scripts | `build.sh`, `libs/build.sh`, ... | the libraries on disk | remove, create, complete a library |

`libs (copia)`, `oldlibs`, `sys/input.c` and `sys/recursiveold.c` are older
copies, and `sys/aioqueue.c` is a table of requests, that no build script
compiles.

### How they interact

* The shell is one process with one thread and runs one command at a time, to
  its end, inside its own address space.  So commands share its heap, its
  descriptors, its current directory and its `errno`.
* `parser` reads the registry that the loader writes.  The loader passes
  `load_lib` or `add_lib` to the walk as a callback; the callback calls
  `dlopen`, which looks at a file the walk saw a moment ago.
* `deallocate.so` loads `allocate.so` by a loader of its own and calls it.
  `dlopen` returns the library that is loaded already, so both commands reach
  one `block_list`, unless the file has been replaced since.
* The streams that `delete -r` leaves open are missing when `list -r` opens its
  own; `list -r` ends the shell (`err` in `recursive`) if its walk ends badly.
* With `-async` a thread of the C library moves the data and fills in the control
  block, which is on the stack of the command.
* The kernel keeps shared segments beyond the commands that use them; `rmkey`
  takes the key from a segment that may still be attached and listed.
* Somebody who runs `build.sh` in another terminal changes `libs/` while the
  shell walks it; others use the files that `delete`, `list`, `read` and `write`
  work on.  With the thread of the C library this is the concurrency of the
  system.
* `allcoate` is called by `parser` from different depths of the stack, and its
  ring of contexts survives from one call to the next.

### What is hard

Section *hazards* of `PROJECT.json` lists each hazard at its line.  In short:
the order of the entries of the memory list and their resources after many
commands; the limits of the fixed arrays; a key that means "none" and can be
typed; a build that runs while the directory is walked, whose times have a
resolution of one second; an `errno` that one failure sets and a later success
clears; ids of slots that a failed load left dirty; links that `stat` and
`opendir` follow and `rmdir` does not; contexts of frames that are gone.

### What makes each component correct

* Memory list: an entry names memory the process holds, in the way the entry
  says; nothing is listed twice; a block is given back with its own entry and
  no other; the list never overruns its array by more than it does.
* Loader: a walk overlooks nothing that was there, complete and readable; it
  does not end the shell because something is added; the module of a command does
  not change under the user; every command gets its answer.
* Task switcher: the tasks take turns, each writes as often as it should, and
  the command ends; the ring never loses, doubles or lacks a context; what one
  run leaves behind does not disturb the next.
* Command line: a line is executed as it was shown; the history keeps what was
  typed (it does not).
* File I/O: a command is one transfer between the file and memory, with `-async`
  as without; `read` answers with what was moved (`write` with what it was asked
  for); every command is answered.
* Bridge: `deallocate` works on the list `allocate` fills, and if it once found
  that list it finds it again.
* Listing: all that is neither hidden nor a link is listed, once, contents first;
  the shell survives it unless something was removed, or there is no stream or no
  permission for the operand.
* Symbol table: a look-up finds the symbol that holds an address, or the one of
  a name.
* Delete: a tree that nothing protects is deleted completely; nothing else is,
  unless a link leads the command out of it; the command ends, and it leaves no
  stream open without saying so.

## 2. Plan

| step | modules | status |
|---|---|---|
| 1 | `MemList`, abstract `Ledger`, proofs `MemListProofs` | done |
| 2 | `Loader`, proofs `LoaderProofs` | done |
| 3 | `RunQueue`, `Allcoate`, abstract `Turns`, proofs `AllcoateProofs` | done |
| 4 | `CommandLine`, abstract `History`, proofs `CommandLineProofs` | done |
| 5 | `Delete`, `SymbolTable`, proofs `SymbolTableProofs` | done |
| 6 | `Bridge`: a registry of its own composed with `MemList`, proofs in `MemListProofs` | done |
| 7 | `FileIO`, abstract `Transfer`, proofs `FileIOProofs` | done |
| 8 | `Listing`, composed with `Delete`, proofs `ListingProofs` | done |
| 9 | `Kernel` (`libs/switch/kernel.c`): a second user of `RunQueue` and `Turns` | planned |
| 10 | proofs that `delete` and `list` complete: `Complete` and `ListsAll` | done |
| 11 | permissions, links and descriptors in `Loader`, `Delete` and `Listing`, with their proofs | done |

The abstract specifications: `Ledger` for `MemList`, `Turns` for `Allcoate`,
`History` for `CommandLine`, `Transfer` for `FileIO`, all checked as
refinements.  The compositions: `Bridge` extends `MemList`, whose commands it
puts its registry in front of, and `Listing` extends `Delete`, with which it
shares the tree and the streams.  The run of a composition is that of both.

## 3. What is modelled

### MemList and Ledger

One action per command.  `block_list` is the sequence of the entries below
`MEM_LIST_LAST`.  The libraries and the kernel the commands act on are part of
the state: what each address is in use for (`live`), the segment attached at an
address (`at`), the open descriptors (`fds`), and all segments ever created
(`segs`).  A command that fails before it obtained anything stutters; one that
fails halfway (`m_map_fails`) is an action.

| code | model |
|---|---|
| `new_entry` with its late check | `new_entry` |
| `remove_index` | `Without`, `remove_index` |
| the scans of `dealloc_by_size`, `dealloc_first_by_file`, `..._by_key`, `dealloc_by_ptr` | `OfSize`, `OfFile`, `OfKey`, `OfPtr` with `FirstIn` |
| `m_alloc`, `m_map`, `m_shared` with and without a size | `m_alloc`, `m_map`, `m_map_fails`, `m_shared_create`, `m_shared_attach` |
| `m_dealloc`, `m_unmap`, `m_unshare`, `dealloc_ptr`, `rmkey` | the actions of those names |

A write to slot `SIZE` or `SIZE + 1` is outside the array.  The model follows
the outcome in which the memory there is nobody else's; the other outcome, the
end of the process, only cuts a behaviour short.

`Ledger` says what the list promises, in three variables: blocks are held, some
are listed, one changes at a time.  It has the two ways in which a held block
goes unlisted: `Spill` (the list is over its capacity) and `Forget` (an entry
is removed and its block kept).  `MemList` implements it with `listed`, `held`
and the length of the list as the refinement mapping.

### Bridge

`Bridge` replaces the commands of `deallocate` in `MemList` by one action that
first loads `allocate.so` as `load_lib` of its own loader does, and then calls
the first slot.  `so` is what lies at the path: the file the shell has mapped, a
newer one, or none; `home` says whether the path, which is relative, leads there
(`chdir`, one of the small commands).  `dlopen` gives a library again if the
file or the path is one it has loaded (`Loads`).  A newer file is a library of
its own, whose list is always empty, so that a `deallocate` that reaches it
changes nothing.  An empty first slot is a call of a null pointer
(`shell = "killed"`), a full registry is written past (`"overrun"`).

### Loader

Two processes: `Disk` (the build and the clock) and `Shell`.  A walk is a
sequence of steps between which the disk may change: `opendir`, one step per
entry that `readdir` returns, the callback, `closedir`, and the stamp.  `ahead`
is what a directory held when it was opened and `returned` what `readdir` has
returned; an entry that came or went since may or may not be returned, as POSIX
has it.  The C stack of nested walks is one level deep, as `libs/` is.

Whatever can fail does.  `opendir` fails without a descriptor (`fds` is what the
commands have left to the shell, and `Streams` what the walk has open) or in an
`"unreadable"` directory; `lstat` fails for an entry that is gone or lies in an
`"unsearchable"` directory (`Found`); `dlopen` fails for a library that is absent,
incomplete or `"useless"`, and for any that it has to read without a descriptor
(`dlopen_fails`); `dlsym` fails for one without a `__start`, which stays open
(`dlsym_fails`, `kept`).  What is kept of a failure is kept as the code does it: in
`res` for the walk of `lib_dir`, in `errno` for all, which a nested walk that can
open its directory clears (`readdir_dir`, `recursive2.c:22`).

A name is a model value with a length.  `strncpy` copies no 0, so a slot has
`clean = FALSE` if a longer name of a failed load is in it (`stale` is the
length of what the next slot holds).  The file names are not modelled further.

`dispatch` leaves the disk and the registry alone: what commands do is the
subject of the other modules; but they may leave the shell with more or fewer
descriptors (`fds`).  A library that is replaced is `Remove`d and
`Create`d; `dlopen` of a path that is open returns the old one (`Opened`).

### RunQueue, Allcoate and Turns

`RunQueue` is the ring with its three indices.  `Allcoate` has one action for
each of: the start of the command, a write with the `insert` that follows, the
call of a task from `kyield`, the jump, and the return of a task.  A context is
a task and the depth at which the command was called; a jump to a context is
good if that frame exists, otherwise `pc` becomes `"wild"` and the model says
no more.  `Turns` says what this should look like from outside: the tasks take
turns, each writes `N` times, and then the run ends.  A run may break off, but
only if the command was called at another depth before (`steady`).

### CommandLine and History

One action per key of `input`, and `parse` for `get_tokens` with what the
command does to its words.  There is one buffer for all lines: `loop` allocates
it once and `insert_after` stores the pointer, so every node of the history but
the first stands for what the buffer holds at the moment.  A node therefore has
no line of its own in the model, only its links.  `strtok` writes a NUL behind
each word, and `print_type` of some commands shifts an argument in place; the
command of the next UP is what this leaves.  A line that is too long, one word
too many, or reading a buffer without a NUL is undefined; the model ends there
with `pc = "overrun"`.

History variables say what the properties compare with the buffer.  `shown` is the
line as the user has put it together: what was echoed and not erased, behind what UP
brought back if the line began with that; `recalled` says that UP or DOWN came behind
another key, and then nothing is known of the line; `typed` says that such a key was
used; `name` is what is left of the last line, up to the end of its first word.
`Words` counts the words of `shown`, as `get_tokens` would.

`History` is a list with a cursor: a line goes in behind the cursor, UP and
DOWN move by one.  `CommandLine` implements it with the chain of `next` links
as `entries`; it says that no node is lost, not that a node keeps its line.

### Delete

`frames` is the C stack of `delete_recursive`, one directory stream per call.
The code's early returns are `GiveUp`: the stream of the call stays open
(`leaked`), and the caller, which cannot tell, goes on with `rmdir`.  An empty
directory and one that has just been emptied are removed by the same action,
as the two branches are the same.

An entry is known by the directory it really lies in.  A path of `Links` may be a
symbolic link, and `to` is where it leads.  `stat` follows it (`Leads`,
`delete.c:98`), so does `opendir` (`Opens`, line 54), while `unlink` and `rmdir` act
on the link itself (`Unlinks`, `Removable`).  A call therefore has two paths: `name`,
by which it was called and by which its directory will be removed, and `dir`, the
directory it reads; they differ if a link has led it there (`Led`), be it the
operand or an entry that was a directory when it was read and has been replaced
since.

`mode` says what is denied: a `"stuck"` path cannot be removed, an `"unreadable"`
directory not opened, and nothing below an `"unsearchable"` one be reached
(`Denied`).  `opendir` and `directory_empty` fail as well when `MaxFds` streams are
open.

Others make and remove entries, links too, at any moment.  A stream returns what
was there when it was opened and is still there (`due`), and may return what is
gone or new, with the type it had (`unread`).  A path by which a stream was opened
is not made again while the stream is open.

### Listing

`list -r` is the walk of `recursive2.c`, of which `list.so` has a copy, with
`query_file` as its callback; `walks` is its stack.  `errno` and `res` are modelled
as they decide the end: a walk that ends with either set is `err`, and `err` ends
the shell (`lpc = "exited"`).  `opendir` may fail for want of a stream or of a
permission (`WalkOpens`), `lstat` because the entry is gone or its directory may not
be searched (`Looks`).  A link is passed over, unless it is the operand.
`query_file` clears `errno` when it succeeds, which is what the C library's
`getpwuid` does, and so a directory further down that cannot be opened is forgiven
by the `query_file` of the directory itself.
`list` without `-r` and `query` change nothing.  `delete` and `list` take turns in one
process and share the tree, `leaked` and `MaxFds`.

### FileIO and Transfer

One action per step of the two commands between which others may change the file
or the library may work: `stat`, `open`, the transfer, or the request (`enqueue`),
the end of the polling (`wait`), `close`.  `complete` is the library's thread.
A transfer is one system call, which may fail, or move less than it was asked
for: a read up to the end of the file, both up to the end of the memory that is
mapped.  The count of a read without one is the length that `stat` saw.  A
request that was not accepted leaves `write` to poll a block that says it is
done, and to close its descriptor twice.

What the commands say is part of the state.  `read` keeps what its transfer returned
(`nleidos`) and prints it; `write_to_file` throws away what `write` returns, and the
command prints the count it was asked for (`answer`).  With `-async` both have said
before whether the request was a success, by what `aio_return` gives (`told`,
`Verdict`), which is 0 for a request that was never accepted.  `moved` is a history
variable: what the system call really moved, or `Failed`.

`Transfer` has the file, memory and one request: it is asked, prepared (a file to
write to is created or emptied), moved at one moment, and answered.  It does not
promise more than the code keeps: the answer of a read is what was moved, the answer
of a write what was asked for, and a write that failed may be told to be a success.

### SymbolTable

A file is the contents of its two symbol sections.  `count` and `populate` are
the two passes over them, each with the conditions it has in the code (`DynDefined`
and `Defined`, `DynCopied` and `Copied`); `qsort` is what the C library promises: some order
that agrees with `qcompar`, or any if `qcompar` is no order.  `bsearch` is the
bisection of the C library, one `Turn` after another.  An address has the range
`Range32`, twice `Half`, and those of the file are any numbers, so that narrowing
is part of the model.

## 4. What is checked

| run | bounds | shows |
|---|---|---|
| `memlist` (`MCBridge`) | 2 slots, 4 addresses, 2 descriptors, 1 file, 1 key, 2 segments, 2 sizes; 2 slots in the second registry | `Backed`, `Distinct`, `OverrunBounded`, `GenerationOrder`, `ReleaseExact`, `SharedNeverForgotten`, `FirstDecides`, and that `Ledger` is implemented |
| `loader` | 2 libraries, of a long and of a short name, one of them in one of 2 subdirectories; 0 to 3 descriptors; at most one directory that is not open; 2 slots, 2 seconds | `StampBehind`, `NothingOverlooked`, `FatalOnlyForCause`, `DispatchStable`, `Answered` |
| `allcoate` | 4 tasks as in the code, 3 writes each, 2 depths of the stack | `QueueSound`, `Residue`, and that `Turns` is implemented, liveness included |
| `commandline` | a buffer of 7 bytes, 2 words, 2 lines, 1 character besides blank, newline and NUL | `EchoFaithful`, `OverrunNeedsCause`, `RecallsName`, and that `History` is implemented |
| `delete` (`MCListing`) | 4 paths on 3 levels, 1 of them hidden, 1 may be a link back to the top; at most 1 directory that cannot be removed, read or searched; 3 streams; 2 changes by others during a command and any number between commands | `NoSilentLeak`, `ListFatal`, `Complete`, `OnlyBelow`, `ListsAll`, `CommandEnds` |
| `fileio` | 2 values of a byte, 2 bytes of memory, files of up to 2 bytes | `WholeFile`, `ToldRight`, and that `Transfer` is implemented, liveness included |
| `symbols` | 3 bits of address; 9 symbols that overlap, coincide, are empty, undefined, nameless, too far apart or too large; at most 2 in each section | `LookupRight`, `LowestNamed` |

Each passing run checks the type invariant too.  Five more, of the same modules, show
what section "What the checks found" lists.

Bounds.  With two slots and four addresses the list reaches `SIZE + 1` entries
and still obtains a block it cannot list, and entries of all kinds stand before
and behind a hole.  Two segments of one key are what `GenerationOrder` needs.
Addresses and descriptors are symmetric; the cfg says so only where no property
is a liveness property.  In `loader` a library of a
long name lies in `lib_dir`; a load of it that fails leaves a dirty slot to the other
one, which lies in a directory below and has a shorter name.  The slot is then not
recognised, the library is loaded twice, and two slots are overrun.  The second
directory, which is empty, is the one whose walk clears what the first has left in
`errno`.  A walk with something to read takes three descriptors, and there may be
fewer.  `lib_dir` was changed in the second in which the shell starts; there is one
more.  `Allcoate`
has the code's four tasks; three writes let the ring wrap more than once in a
run, and the runs repeat without bound.  Seven bytes hold three words, one more
than fit, with what follows them, and can be run over; two lines are what an
insertion between two nodes needs.  Three levels and three streams are a
tree that just fits, until a first stream has been left open.  The link leads back to
the top: it is a link out of the tree for a command that was given the directory in
between, or the link itself, and may take the place of a directory that was read a
moment ago.  The hidden path may be a file or a directory beside one that is
walked.  Two slots let the second registry
be used again and overrun.  Two bytes of memory and of file, at every
address up to one that is not mapped, give transfers that are empty, partial,
whole and cut at either end.  Tables of four symbols take the search through every
combination of turns.

`LowestNamed` says that a name is found if the file defines it, and this is what the
filter of the code takes for a definition: a label of size 0 in `.symtab` is not one.

Deadlock is checked in `memlist` and `fileio`.  `Loader` and `Listing` may really
stop (the shell exits or is killed), and so may `Allcoate` when control goes astray;
`CommandLine` stops at an overrun and after the last line, `SymbolTable` when
there is no table.

Fairness.  `Loader!FairSpec` has weak fairness of the shell's own steps: the
shell is a running process, and the user need not type nor the build go on.
The clock is bounded, so the build can change the time of the directory only so
often; this is the assumption that somebody who builds stops at some time.
`Allcoate!Spec` has weak fairness of the running task, `Listing!ListSpec` of the
running command, be it `delete` or `list`; that it ends needs the bound on what
others do during one command, since `readdir` may go on returning what they
make.  `FileIO!Spec` has weak fairness of the command and of the thread of the C
library, which carries out what it has accepted.

### What the checks found

* `memlist_forget`: `deallocate -shared x` reads the key as 0, takes the first
  entry that is not shared memory off the list and keeps its block, while the
  message says "block at address %p deallocated (shared)" (`allocate.c:160`).
* `memlist_array`: the list has one entry more than the array has slots; "Max
  size exceeded" (`mem_list.c:40`) is said when it is too late.
* `loader_garbled`: a library whose name is shorter than that of a library that
  failed to load just before keeps the end of the longer name in its id: the
  shell says "Command not found" (`shell.c:52`) of a module it has loaded.
* `loader_blind`: a library that was not complete when the walk loaded it is
  not looked for again, because finishing it does not change the time of the
  directory; nor is one that came in the same second behind the walk.
* `symbols_overlap`: `symbol_table_lookup` returns NULL for an address within a
  symbol if another symbol begins inside it, or is empty and at its start; the
  comment (`symbol_table.c:236`) says NULL means that no symbol contains it.

`MaxFds` streams left open by failing deletions are never closed: after enough
of them `delete` calls every directory non-empty, and `list -r` ends the shell.
No line of the repository promises otherwise; `NoSilentLeak` says that it does
not happen unnoticed, and `ListFatal` that, if nothing was removed and the operand is
open, it takes all of the streams.

Six more that no line of the repository speaks of, and the properties say how
far they go.  A directory below `lib_dir` that cannot be read is forgotten when the
walk comes to another one that can, and its libraries are not looked for again until
`lib_dir` changes (`NothingOverlooked`); if it comes last, or is `lib_dir` itself, the
shell ends (`FatalOnlyForCause`).  `delete -r` of a link to a directory empties that
directory and leaves link and directory; so it does with a directory below its
operand that others replace by a link in time (`OnlyBelow`).  A `write -async` that
`aio_write` does not accept ends with "Success!" (`write.c:47`), because the block that
is judged was zeroed and nobody has changed it, and closes its descriptor twice
(`ToldRight`).  If `allocate.so` is built anew while a shell runs and before its first
`deallocate`, that shell's `deallocate` works on a second, empty list until
it ends (`FirstDecides`).  If the first `deallocate` comes from another directory,
it ends the shell.  A line without words is recalled with its newline, so each UP and
RETURN makes it longer by one, up to the end of the buffer (`OverrunNeedsCause`).

## 5. What is proved

### MemList

`MemListProofs` proves, for every capacity, every set of addresses, files,
descriptors, keys and sizes and every number of segments:

| theorem | of the specification |
|---|---|
| `TypeCorrect` | `[]TypeOK` |
| `ListBacked`, `ListDistinct`, `ListBounded`, `OldestSegmentFirst` | `[]Backed`, `[]Distinct`, `[]OverrunBounded`, `[]GenerationOrder` |
| `GivenBackExactly`, `NoSegmentForgotten` | the action properties `ReleaseExact`, `SharedNeverForgotten` |
| `LedgerImplemented` | `Spec => Abstract!Spec` |

All follow from one inductive invariant, `IInv`: `TypeOK`, `Backed`, `Distinct`,
`OverrunBounded`, `OneOwnerOfKey` and `GenerationOrder` together.  The parts are
not inductive one by one: that giving a block back or closing a descriptor
leaves the other entries backed needs `Distinct`; that a new entry is distinct
needs `Backed` (the address `malloc` returns is not in use, the listed ones
are); that a new attachment may go to the end of the list needs that it is of
the newest segment of its key.  `OneOwnerOfKey`, that at most one segment has a
key, is what the kernel guarantees and the proof uses.

The proof has lemmas about the list first (what `Without` and `Append` do to
its length, its entries, a property of all entries and a property of all
pairs), then one lemma per action for the invariant, then the theorems.  The
assumptions are those of `MemList!ConstantsAssumption`, which TLC evaluates on
every run.

### Bridge

`MemListProofs` also proves of `BridgeSpec`, for every size of the second registry,
`[]BridgeTypeOK` (`BridgeTypeCorrect`), the action property `FirstDecides`
(`FirstCallDecides`), and `BridgeSpec => Spec` (`MemListImplemented`): a step of
a command through the bridge is a step of `MemList` or none, so all theorems
about `Spec` hold of the composition.  `FirstDecides` needs from
`BridgeTypeOK` that the first slot is filled when anything has been counted.

### Listing

`ListingProofs` proves of `ListSpec`, for every tree, every number of streams and
every bound on what others do:

| theorem | of the specification |
|---|---|
| `ListTypeCorrect` | `[]ListTypeOK`, and with it that no more streams are open than there are |
| `FatalOnlyForCause` | `[]ListFatal` |
| `RemovesOnlyBelow` | the action property `OnlyBelow` |
| `LeaksAreTold` | `[]NoSilentLeak` |
| `DeletesAll` | the action property `Complete` |
| `ListsEverything` | `ListsAll`, its invariant and its action property |

`DeleteInv` is the invariant of `delete`: what each call of the recursion is at and
what its stream may still return lies at or below `target`, or below a directory to
which a link has led a call before it (`Within`, `FrameBelow`); from there `OnlyBelow`
follows, for `unlink` and `rmdir` remove `path`.  It holds whatever others do, because
a stream returns only names of its own directory.  `LedInv` is its counterpart while
nobody disturbs: what a stream returns is still what it was, so no call but that of the
operand has been led anywhere.  `Unharmed` is the invariant of `list`: as long as
nothing was removed every open directory stands (`Standing`), every entry that is still
to come exists, `res` is set only if the operand cannot be searched, and `errno`, while
the walk reads, only if the directory it reads cannot.  So `lstat` and `opendir`
fail only for want of streams or of permission, and the shell ends only if
`delete` has left all streams open or the operand itself is closed.  Lemmas about
stacks (push, pop, change of the top, map) and about prefixes come first.

`DeletesAll` and `ListsEverything` are about a command that nobody disturbs, and
say what it has done when it ends.  `Clear` says of a deletion that for every open
stream the entries left in its directory are those still due and the one the call
is at (`OnTrack`), that everything left can be reached and removed (`Reachable`), and that
`pc` suits what `path` is; so no early return is taken, and the last `rmdir` finds the target
empty.  That nothing is then left below it either (`NothingBelow`) is an induction
over the levels, from `IsTree`, which every step keeps.  `Walked` says of a walk
from where its operand leads (`Start`) that each entry a call has returned is done or
passed over, as links are; done means that is, listed with all that is reached
through it, and nothing at or below what is still due has been listed (`InOrder`).
When a directory is closed all its entries are done, and `ReachedThrough`, by
induction again, says that the walk comes to everything through one of them.  TLC
checked `Clear`, `Walked` and `IsTree` as invariants before they were proved.  The
assumptions are those of `Delete!ConstantsAssumption` (among them that with a path
there is that of its directory, as in a file system) and `Listing!HiddenAssumption`.

### Loader

`LoaderProofs` proves, for every set of libraries, directories and names and
every size of the registry:

| theorem | of the specification |
|---|---|
| `TypeCorrect` | `[]TypeOK` |
| `FirstModuleRuns` | the action property `DispatchStable` |
| `StampNeverAhead` | `[]StampBehind` |
| `NothingIsOverlooked` | `[]NothingOverlooked` |
| `FatalNeedsCause` | `[]FatalOnlyForCause` |

The last two speak only of the end of a walk, so they need an invariant of the
walk itself.  `NothingSkipped` says that a library that was complete at the
start is accounted for (`Accounted`): it is known, or open without a `__start`, or
*pending*: it is being passed to the callback, or its open directory has yet to return
it, or its directory has yet to be opened; or else it is `Lost`: the walk has
failed there, and will end the shell unless the failure is forgiven (`Forgiven`).
`ErrorsHaveCause` says that `res` and `errno` are set only for one of the causes, and
that a missing file can be met only after a removal.
Both need `OpenDirs`: what the walk remembers as returned belongs to the two
directories it has open, so an entry of a directory that is opened next cannot
have been forgotten, and `readdir` of the top returns every subdirectory before
it is closed.  `FirstModuleRuns` needs only that the registry grows at its end.
The assumptions are those of `Loader!ConstantsAssumption`.

### CommandLine

`CommandLineProofs` proves, for every alphabet, every size of the buffer and of
`cmd` and any number of lines:

| theorem | of the specification |
|---|---|
| `CommandLineTypeCorrect` | `[]TypeOK` |
| `LinesAreEchoed` | `[]EchoFaithful` |
| `OverrunsAreCaused` | `[]OverrunNeedsCause` |
| `UpBringsBackName` | the action property `RecallsName` |
| `ListIsHistory` | `Spec => KeepsHistory`, that is `Spec => Abstract!Spec` |

The properties speak of moments (a line is executed, UP is pressed, something is
overrun) and the buffer is written to between them, so the invariant says what it
holds all along: `Echoed`, up to the cursor what is on the screen; `Fresh`, as long
as nothing is typed what is left of the last line; `Entered`, that `get_tokens` finds
the end of the line; `Linked`, that UP and DOWN find nodes.  `Fresh` is what makes a
recalled line harmless: what it adds to a line is `name`, which `shown` begins with then
and `Words` counts.  `OverrunNeedsCause` speaks of the moment of the overrun, and is an
invariant with these: a line is too long or has too many words as `shown` has it
(`Cause`), or the buffer was read where nothing ends it.
`WordsOfLine` and `FirstWordLeft` show that `strtok` and
the shift of `print_type` leave the first word and end it.

For the refinement the invariant is that `Chain` is an order: it visits every node
once, and `next` and `prev` agree with it.  `OneOrder` shows that there is only one,
so the `CHOOSE` in `Chain` is determined, and `InsertOrders` that `insert_after`
puts the new node in behind the cursor.  The induction is over the least number of
a set (`LeastNumber`), which comes from the finite subsets of an interval; it and
the induction the other proofs use (`UpTo`) are in `NumberLemmas`.  The
assumptions are those of `CommandLine!ConstantsAssumption`.

### Allcoate

`AllcoateProofs` proves, for every number of tasks from 2 on and every number of
iterations:

| theorem | of the specification |
|---|---|
| `AllcoateTypeCorrect` | `[]TypeOK` |
| `QueueStaysSound` | `[]QueueSound` |
| `RunsLeaveResidue` | `[]Residue` |
| `StepsOfTurns` | `Spec => Abstract!Init /\ [][Abstract!Next]_(Abstract!vars)`, the steps of `TakesTurns` |

The invariant is the whole course of a run.  `Calling`: the tasks up to `running`
have been called, each by the one before, and stand in the ring in their order.
`Turning`: the ring holds all tasks, or all but the one that runs, beginning with
the next, and those that come before it in the round are one write ahead (`Ahead`).
`Returning`: everybody is done, and the tasks return one after another while the ring
empties.  The first two come twice (`b`), for a run that finds the ring empty
and for one that finds in it what `Residue` says the last one left: then the second
task is ahead instead of the first, `insert` drops one context in each call, and
no other.  `Steady` says that the contexts in the ring are of this depth if all runs
were; this is why only another depth can send control astray.  The lemmas below are
about the ring: what inserting and removing at its ends does to `InRow`, with the
remainders written as `Wrap`.  The assumptions are those of
`Allcoate!ConstantsAssumption` and `RunQueue!MAXAssumption`.

### FileIO

`FileIOProofs` proves, for every memory, every length of file and whatever others do
to the file:

| theorem | of the specification |
|---|---|
| `FileIOTypeCorrect` | `[]TypeOK` |
| `ReadsWholeFile` | `[]WholeFile` |
| `TellsRight` | `[]ToldRight` |
| `StepsOfTransfer` | `Spec => Abstract!Init /\ [][Abstract!Next]_(Abstract!vars)`, the steps of `OneTransfer` |

`WholeFile` is about the end of a read and needs `Watched`, that since `stat` the
file has had as much as `low`, and what the library answered lies between that and
the size that `stat` saw; `Asked`, that the count which was passed on is that size;
and `Held`, that the library has a request exactly as long as the block it polls
says so, so that nothing is moved before the request or after the answer.  `ToldRight` needs `Kept`,
that what the command and the block hold is what was moved, and `Judged`, its one
exception: the block of a write that was refused says 0, and the descriptor is closed.
From the same invariant each step is one of `Transfer`: `Phase` and `Told` map the
state of the command and the block of the library to the phase of the request and to
what is said of it.  The
assumptions are those of `FileIO!ConstantsAssumption`.

### SymbolTable

`SymbolTableProofs` proves, for every set of files, every length of table and every
width of address:

| theorem | of the specification |
|---|---|
| `SymbolsTypeCorrect` | `[]TypeOK` |
| `LookupFinds` | `[]LookupRight` |
| `LowestIsFound` | `[]LowestNamed` |

The invariant is short (`Loaded`, `Filled`): the table has the symbols of the file, as
many as were counted, and is sorted if its addresses are near each other.  What
`LowestIsFound` calls defined is what the filter of the code takes.  The work is in the operators, by
induction on numbers (`UpTo`): that the loop over a section takes one symbol for
each place (`TakenIs`), that a sort by `qcompar` is one by address when no
difference exceeds an `int` (`SortSorts`), that the search has a result from
each place (`SearchRuns`), and that it finds what is there (`SearchFinds`).
In the last, a turn to the right is where symbols must be apart.  A first statement of
`LookupRight` was false there: it took an empty symbol and one of a byte at the
same address for equals, but the empty one turns the search away from the other
(`Apart`).  The assumptions are those of `SymbolTable!ConstantsAssumption`.

### What stays with TLC

All liveness (`Answered`, `CommandEnds`) and the fairness of `Turns` and
`Transfer`, of which the theorems state the steps: liveness under fairness and
`ENABLED` are out of the proof system's reach.  Every other property of the
passing runs is stated by a theorem.

## 6. What is not modelled

* Output, error messages and the layout of listings, and the flags of `list`
  that only choose them; but what `read` and `write` say of their success is modelled.
* What a write outside an array does to other data, or a buffer that is too
  small: the path of `delete` (`delete.c:59`), the
  12 bytes of `tmp` into which `parser` copies a name (`shell.c:35-37`), the name `query_file` copies
  without its 0, the twelve words `list` has room for (`list.c:223`).
* Links that lead to links or elsewhere in time (a path of `Links` always leads to the
  same place), modes that change while the shell runs, and anew making the path a
  stream is open on.  `Loader` has no links; a library that is one is a file.
* A shortage of descriptors or of memory in the whole system, rather than in the shell.
* Names of more than `FILENAME_MAX` bytes, an owner without a name (`getpwuid`).
* A file that is removed while `read` or `write` has it open, and counts below 0
  that `atoi` may give.
* The unused functions of `mem_list.c`; `sys/aioqueue.c`, which is not compiled;
  the older copies of section 1.
* The small commands but `chdir`: they keep no state.
* `runf` and `work`, which jump into a file's machine code.
* The prototypes of the task switcher, which are still to be done (section 2).
