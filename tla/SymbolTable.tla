---------------------------- MODULE SymbolTable -----------------------------
(***************************************************************************)
(* The symbols of an ELF file (sys/symbol_table.c): what is taken from its *)
(* two symbol sections, the sort by address, the look-up of an address by  *)
(* binary search, and of a name (get_symbol), which runf and work use to   *)
(* find where to jump.                                                     *)
(*                                                                         *)
(* Values are 64 bits wide in the file and 32 in the table; qcompar takes  *)
(* the difference of two unsigned addresses for an int.  Half stands for   *)
(* 2^31, half the range of an unsigned int.                                *)
(***************************************************************************)
EXTENDS Integers, Sequences, FiniteSets, SequencesExt

CONSTANTS
    File,       \* the files: the contents of their symbol sections
    Name,       \* the names of symbols; "" is none
    NoSection,  \* in place of a section a file does not have
    Half        \* half the range of unsigned int

\* A symbol of the file, and a section.
Entry == [st_value : Nat, st_size : Nat, st_shndx : BOOLEAN, name : Name]
Section == Seq(Entry) \union {NoSection}

ASSUME ConstantsAssumption ==
    /\ "" \in Name
    /\ NoSection \notin Seq(Entry)
    /\ File \subseteq [dynsym : Section, symtab : Section]
    /\ Half \in Nat \ {0}

Range32 == Half + Half
UInt == 0 .. Range32 - 1

VARIABLES
    file,         \* history: the file the table was made of
    num_symbols,  \* what has been counted, and room allocated for
    symbols,      \* what has been written to the table
    addr,         \* the address looked for
    name,         \* the name looked for
    found,        \* the index of the symbol found, or 0 for NULL
    pc

table == <<file, num_symbols, symbols>>
call == <<addr, name, found>>
vars == <<table, call, pc>>

NULL == 0

TypeOK ==
    /\ num_symbols \in Nat
    /\ symbols \in Seq([addr : UInt, size : UInt, name : Name])
    /\ addr \in UInt /\ name \in Name
    /\ found \in {NULL} \union DOMAIN symbols
    /\ pc \in {"create", "populate", "qsort", "ready", "looked_up", "got", "error", "killed"}

Init ==
    /\ file \in File
    /\ num_symbols = 0 /\ symbols = <<>>
    /\ addr = 0 /\ name = "" /\ found = NULL
    /\ pc = "create"

-----------------------------------------------------------------------------
(* Making the table (symbol_table_create).                                 *)

Entries(section) == IF section = NoSection THEN <<>> ELSE section

\* Where the symbols that are counted are in their section.
DynDefined(section) == {k \in DOMAIN section : section[k].st_shndx}

Defined(section) ==
    {k \in DOMAIN section : LET s == section[k] IN
        s.st_shndx /\ s.name # "" /\ s.st_value # 0 /\ s.st_size # 0}

count ==
    /\ pc = "create"
    /\ file.dynsym # NoSection \/ file.symtab # NoSection
    /\ num_symbols' = Cardinality(DynDefined(Entries(file.dynsym)))
                        + Cardinality(Defined(Entries(file.symtab)))
    /\ pc' = "populate"
    /\ UNCHANGED <<file, symbols, call>>

\* The file cannot be opened, or it has neither section.
fail ==
    /\ pc = "create"
    /\ pc' = "error"
    /\ UNCHANGED <<table, call>>

\* A file that cannot be mapped: mmap does not return NULL then, and the header
\* is read.
mmap_fails ==
    /\ pc = "create"
    /\ pc' = "killed"
    /\ UNCHANGED <<table, call>>

\* Variant: the table takes the value as it is.
Symbol_wide(s) == [addr |-> s.st_value, size |-> s.st_size, name |-> s.name]

Symbol(s) ==
    [addr |-> s.st_value % Range32, size |-> s.st_size % Range32, name |-> s.name]

\* The symbols at these places, in the order of the section.
Taken(section, places) ==
    LET taken[k \in 0 .. Len(section)] ==
            IF k = 0 THEN <<>>
            ELSE IF k \in places THEN Append(taken[k - 1], Symbol(section[k]))
            ELSE taken[k - 1]
    IN  taken[Len(section)]

\* Where the symbols that are copied are; the conditions are written out again.
DynCopied(section) == {k \in DOMAIN section : section[k].st_shndx}

Copied(section) ==
    {k \in DOMAIN section : LET s == section[k] IN
        s.st_shndx /\ s.name # "" /\ s.st_value # 0 /\ s.st_size # 0}

Symbols ==
    LET dynsyms == Entries(file.dynsym)
        syms == Entries(file.symtab)
    IN  Taken(dynsyms, DynCopied(dynsyms)) \o Taken(syms, Copied(syms))

populate ==
    /\ pc = "populate"
    /\ symbols' = Symbols
    /\ pc' = "qsort"
    /\ UNCHANGED <<file, num_symbols, call>>

\* The difference of two unsigned, as an int.
qcompar(a, b) ==
    LET d == (a.addr - b.addr) % Range32
    IN  IF d < Half THEN d ELSE d - Range32

\* What qsort requires of qcompar: it orders the symbols.
Orders(s) ==
    /\ \A i, j \in DOMAIN s : qcompar(s[i], s[j]) <= 0 \/ qcompar(s[j], s[i]) <= 0
    /\ \A i, j, k \in DOMAIN s :
          qcompar(s[i], s[j]) <= 0 /\ qcompar(s[j], s[k]) <= 0 => qcompar(s[i], s[k]) <= 0

Arrangements(s) == {[k \in DOMAIN s |-> s[p[k]]] : p \in Bijection(DOMAIN s, DOMAIN s)}

\* Symbols of one address may come in any order; if qcompar does not order
\* them, so may all.
qsort ==
    /\ pc = "qsort"
    /\ symbols' \in {s \in Arrangements(symbols) :
                        Orders(symbols) => \A k \in 1 .. Len(s) - 1 : qcompar(s[k], s[k + 1]) <= 0}
    /\ pc' = "ready"
    /\ UNCHANGED <<file, num_symbols, call>>

-----------------------------------------------------------------------------
(* Looking up.                                                             *)

\* Variant: the byte behind a symbol is taken for its last.
bcompar_inclusive(a, s) ==
    CASE a < s.addr            -> -1
      [] a - s.addr > s.size   -> 1
      [] OTHER                 -> 0

bcompar(a, s) ==
    CASE a < s.addr            -> -1
      [] a - s.addr >= s.size  -> 1     \* a >= s.addr
      [] OTHER                 -> 0

\* One turn of the search among the symbols from the place's first on and before
\* its second.
Turn(a, search, place) ==
    LET l == place[1]
        u == place[2]
        m == (l + u) \div 2
        c == bcompar(a, symbols[m + 1])
    IN  CASE l >= u           -> NULL
          [] l < u /\ c < 0   -> search[<<l, m>>]
          [] l < u /\ c > 0   -> search[<<m + 1, u>>]
          [] l < u /\ c = 0   -> m + 1

Places(n) == (0 .. n) \X (0 .. n)

bsearch(a) ==
    LET search[place \in Places(num_symbols)] == Turn(a, search, place)
    IN  search[<<0, num_symbols>>]

Made == pc \in {"ready", "looked_up", "got"}

symbol_table_lookup(a) ==
    /\ Made
    /\ addr' = a
    /\ found' = bsearch(a)
    /\ pc' = "looked_up"
    /\ UNCHANGED <<table, name>>

Named(n) == {k \in 1 .. num_symbols : symbols[k].name = n}

\* Variant: the last symbol of that name.
get_symbol_last(n) ==
    /\ Made
    /\ name' = n
    /\ found' = IF Named(n) = {} THEN NULL ELSE Max(Named(n))
    /\ pc' = "got"
    /\ UNCHANGED <<table, addr>>

\* The first symbol of that name, in the order of the table.
get_symbol(n) ==
    /\ Made
    /\ name' = n
    /\ found' = IF Named(n) = {} THEN NULL ELSE Min(Named(n))
    /\ pc' = "got"
    /\ UNCHANGED <<table, addr>>

-----------------------------------------------------------------------------

Next ==
    \/ count \/ fail \/ mmap_fails \/ populate \/ qsort
    \/ \E a \in UInt : symbol_table_lookup(a)
    \/ \E n \in Name : get_symbol(n)

Spec == Init /\ [][Next]_vars

-----------------------------------------------------------------------------

Holds(s, a) == s.addr <= a /\ a - s.addr < s.size

\* No address is half the range away from another.
Near == \A j, k \in DOMAIN symbols : symbols[j].addr - symbols[k].addr < Half

Extent(s) == s.addr .. s.addr + Max({s.size, 1}) - 1

\* Symbols are at the same place or apart; one of size 0 takes up its address, and
\* so keeps one of size 1 from being found there.
Apart ==
    \A j, k \in DOMAIN symbols :
        \/ symbols[j].addr = symbols[k].addr /\ symbols[j].size = symbols[k].size
        \/ Extent(symbols[j]) \intersect Extent(symbols[k]) = {}

\* What is found contains the address, and if the symbols are apart and not too
\* far from each other, one that contains the address is found.
LookupRight ==
    pc = "looked_up" =>
        /\ found # NULL => Holds(symbols[found], addr)
        /\ Near /\ Apart /\ (\E k \in DOMAIN symbols : Holds(symbols[k], addr))
              => found # NULL

\* get_symbol finds a symbol of that name if the file has one that is taken into the
\* table (any that is defined in the dynamic section; of the other, only one with a
\* value and a size), and of several the one with the lowest address.
LowestNamed ==
    pc = "got" =>
        LET defined == {s \in Range(Symbols) : s.name = name}
        IN  /\ found = NULL <=> defined = {}
            /\ found # NULL => symbols[found] \in defined
            /\ found # NULL /\ Near => \A s \in defined : symbols[found].addr <= s.addr

\* What the comment on symbol_table_lookup says of NULL (symbol_table.c:235).
NullMeansNone ==
    pc = "looked_up" /\ found = NULL =>
        \A k \in DOMAIN symbols : ~ Holds(symbols[k], addr)

=============================================================================
