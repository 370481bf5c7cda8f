-------------------------- MODULE SymbolTableProofs --------------------------
(***************************************************************************)
(* What the symbol table holds and what is found in it, for every set of   *)
(* files and every width of an address.                                    *)
(***************************************************************************)
EXTENDS SymbolTable, NumberLemmas, SequenceTheorems, FiniteSetTheorems, TLAPS

\* What the assumption says of numbers.
LEMMA HalfIs == Half \in Nat /\ Half > 0 /\ Range32 = Half + Half /\ Range32 \in Nat /\ Range32 > 0
<1>1. Half \in Nat \ {0}
  BY ConstantsAssumption DEF ConstantsAssumption
<1> QED
  BY <1>1 DEF Range32

-----------------------------------------------------------------------------
(* What is taken from a section.                                           *)

Sym == [addr : UInt, size : UInt, name : Name]

LEMMA SymbolType ==
    ASSUME NEW s \in Entry
    PROVE  Symbol(s) \in Sym
<1>1. Range32 \in Nat /\ Range32 > 0
  BY HalfIs
<1>2. s.st_value \in Nat /\ s.st_size \in Nat /\ s.name \in Name
  BY DEF Entry
<1>3. s.st_value % Range32 \in 0 .. Range32 - 1 /\ s.st_size % Range32 \in 0 .. Range32 - 1
  BY <1>1, <1>2
<1> QED
  BY <1>2, <1>3 DEF Symbol, Sym, UInt

\* One step of the loop over a section, with the symbols before.
Longer(section, places, t, k) ==
    IF k \in places THEN Append(t, Symbol(section[k])) ELSE t

Fill(section, places, f, d) ==
    f = [k \in 0 .. d |-> IF k = 0 THEN <<>> ELSE Longer(section, places, f[k - 1], k)]

\* The loop over a section has a result for each of its lengths.
LEMMA LoopRuns ==
    ASSUME NEW section, NEW places, NEW N \in Nat
    PROVE  \E f : Fill(section, places, f, N)
<1> DEFINE S == {d \in Nat : \E f : Fill(section, places, f, d)}
<1>1. 0 \in S
  <2> DEFINE f == [k \in 0 .. 0 |-> <<>>]
  <2>1. Fill(section, places, f, 0)
    <3>1. \A k \in 0 .. 0 : k = 0
      OBVIOUS
    <3> QED
      BY <3>1 DEF Fill
  <2> QED
    BY <2>1
<1>2. ASSUME NEW d \in 0 .. N - 1, d \in S
      PROVE  d + 1 \in S
  <2>1. PICK f : Fill(section, places, f, d)
    BY <1>2
  <2> DEFINE g == [k \in 0 .. d + 1 |->
                     IF k <= d THEN f[k] ELSE Longer(section, places, f[d], d + 1)]
  <2>2. f = [k \in 0 .. d |-> IF k = 0 THEN <<>> ELSE Longer(section, places, f[k - 1], k)]
    BY <2>1 DEF Fill
  <2>3. ASSUME NEW k \in 0 .. d + 1
        PROVE  g[k] = IF k = 0 THEN <<>> ELSE Longer(section, places, g[k - 1], k)
    <3>1. CASE k = 0
      BY <2>2, <3>1
    <3>2. CASE k # 0 /\ k <= d
      <4>1. k \in 0 .. d /\ k - 1 \in 0 .. d + 1 /\ k - 1 <= d
        BY <3>2
      <4>2. g[k] = f[k] /\ g[k - 1] = f[k - 1]
        BY <3>2, <4>1
      <4>3. f[k] = Longer(section, places, f[k - 1], k)
        BY <2>2, <3>2, <4>1
      <4> QED
        BY <3>2, <4>2, <4>3
    <3>3. CASE ~ (k <= d)
      <4>1. k = d + 1 /\ k - 1 = d /\ k # 0 /\ d \in 0 .. d + 1 /\ d <= d
        BY <3>3
      <4>2. g[k] = Longer(section, places, f[d], d + 1) /\ g[k - 1] = f[d]
        BY <3>3, <4>1
      <4> QED
        BY <4>1, <4>2
    <3> QED
      BY <3>1, <3>2, <3>3
  <2>4. g = [k \in 0 .. d + 1 |-> g[k]]
    OBVIOUS
  <2> HIDE DEF g
  <2>5. Fill(section, places, g, d + 1)
    BY <2>3, <2>4 DEF Fill
  <2> QED
    BY <2>5
<1> HIDE DEF S
<1>3. N \in S
  <2>1. \A d \in 0 .. N : d \in S
    BY <1>1, <1>2, UpTo
  <2> QED
    BY <2>1
<1> QED
  BY <1>3 DEF S

\* What is taken are symbols, one for each place.
LEMMA TakenIs ==
    ASSUME NEW section \in Seq(Entry), NEW places \in SUBSET DOMAIN section
    PROVE  /\ Taken(section, places) \in Seq(Sym)
           /\ Len(Taken(section, places)) = Cardinality(places)
<1> DEFINE N == Len(section)
           taken[k \in 0 .. N] ==
               IF k = 0 THEN <<>>
               ELSE IF k \in places THEN Append(taken[k - 1], Symbol(section[k]))
               ELSE taken[k - 1]
<1>1. Taken(section, places) = taken[N]
  BY DEF Taken
<1>2. taken = CHOOSE f : Fill(section, places, f, N)
  BY DEF Fill, Longer
<1>3. N \in Nat /\ DOMAIN section = 1 .. N /\ \A k \in 1 .. N : section[k] \in Entry
  BY LenProperties, ElementOfSeq
<1> HIDE DEF taken, N
<1>4. Fill(section, places, taken, N)
  BY <1>2, <1>3, LoopRuns
<1>5. /\ taken[0] = <<>>
      /\ \A k \in 1 .. N : taken[k] = Longer(section, places, taken[k - 1], k)
  <2>1. taken = [k \in 0 .. N |->
                   IF k = 0 THEN <<>> ELSE Longer(section, places, taken[k - 1], k)]
    BY <1>4 DEF Fill
  <2>2. 0 \in 0 .. N /\ \A k \in 1 .. N : k \in 0 .. N /\ k # 0
    BY <1>3
  <2>3. taken[0] = <<>>
    BY <2>1, <2>2
  <2>4. ASSUME NEW k \in 1 .. N
        PROVE  taken[k] = Longer(section, places, taken[k - 1], k)
    BY <2>1, <2>2
  <2> QED
    BY <2>3, <2>4
<1> DEFINE S == {k \in 0 .. N : /\ taken[k] \in Seq(Sym)
                               /\ Len(taken[k]) = Cardinality(places \intersect (1 .. k))}
<1>6. 0 \in S
  <2>1. places \intersect (1 .. 0) = {}
    OBVIOUS
  <2>2. Cardinality({}) = 0
    BY FS_EmptySet
  <2>3. taken[0] \in Seq(Sym) /\ Len(taken[0]) = 0
    BY <1>5, EmptySeq
  <2>4. Cardinality(places \intersect (1 .. 0)) = 0
    BY <2>1, <2>2
  <2> QED
    BY <1>3, <2>3, <2>4
<1>7. ASSUME NEW d \in 0 .. N - 1, d \in S
      PROVE  d + 1 \in S
  <2>1. d \in Nat /\ d + 1 \in 1 .. N /\ d + 1 \in 0 .. N /\ (d + 1) - 1 = d
    BY <1>3
  <2>2. taken[d + 1] = Longer(section, places, taken[d], d + 1)
    BY <1>5, <2>1
  <2>3. taken[d] \in Seq(Sym) /\ Len(taken[d]) = Cardinality(places \intersect (1 .. d))
    BY <1>7
  <2> DEFINE before == places \intersect (1 .. d)
             after == places \intersect (1 .. d + 1)
  <2>4. IsFiniteSet(before)
    <3>1. IsFiniteSet(1 .. d) /\ before \in SUBSET (1 .. d)
      BY <2>1, FS_Interval
    <3> QED
      BY <3>1, FS_Subset
  <2>5. d + 1 \notin before /\ \A x \in 1 .. d + 1 : x \in 1 .. d \/ x = d + 1
    BY <2>1
  <2>6. CASE d + 1 \in places
    <3>1. after = before \union {d + 1}
      BY <2>1, <2>5, <2>6
    <3>2. Cardinality(after) = Cardinality(before) + 1
      <4> HIDE DEF before, after
      <4> QED
        BY <2>4, <2>5, <3>1, FS_AddElement
    <3>3. Symbol(section[d + 1]) \in Sym
      BY <1>3, <2>1, SymbolType
    <3>4. taken[d + 1] = Append(taken[d], Symbol(section[d + 1]))
      BY <2>2, <2>6 DEF Longer
    <3>5. taken[d + 1] \in Seq(Sym) /\ Len(taken[d + 1]) = Len(taken[d]) + 1
      BY <2>3, <3>3, <3>4, AppendProperties
    <3> QED
      BY <2>1, <2>3, <3>2, <3>5
  <2>7. CASE d + 1 \notin places
    <3>1. after = before
      BY <2>1, <2>5, <2>7
    <3>2. taken[d + 1] = taken[d]
      BY <2>2, <2>7 DEF Longer
    <3> QED
      BY <2>1, <2>3, <3>1, <3>2
  <2> QED
    BY <2>6, <2>7
<1>8. N \in S
  <2> HIDE DEF S
  <2>1. \A d \in 0 .. N : d \in S
    BY <1>3, <1>6, <1>7, UpTo
  <2> QED
    BY <1>3, <2>1
<1>9. places \intersect (1 .. N) = places
  BY <1>3
<1>10. taken[N] \in Seq(Sym) /\ Len(taken[N]) = Cardinality(places)
  BY <1>8, <1>9
<1> QED
  BY <1>1, <1>10

\* The sections of a file, and what is to be taken from them.
LEMMA FileIs ==
    ASSUME file \in File
    PROVE  Entries(file.dynsym) \in Seq(Entry) /\ Entries(file.symtab) \in Seq(Entry)
<1>1. file \in [dynsym : Section, symtab : Section] /\ NoSection \notin Seq(Entry)
  BY ConstantsAssumption DEF ConstantsAssumption
<1>2. file.dynsym \in Section /\ file.symtab \in Section
  BY <1>1
<1>3. ASSUME NEW section \in Section
      PROVE  Entries(section) \in Seq(Entry)
  <2>1. CASE section = NoSection
    BY <2>1, EmptySeq DEF Entries
  <2>2. CASE section # NoSection
    BY <2>2 DEF Entries, Section
  <2> QED
    BY <2>1, <2>2
<1> QED
  BY <1>2, <1>3

\* As many symbols are taken as have been counted.
LEMMA SymbolsAre ==
    ASSUME file \in File
    PROVE  /\ Symbols \in Seq(Sym)
           /\ Len(Symbols) = Cardinality(DynDefined(Entries(file.dynsym)))
                               + Cardinality(Defined(Entries(file.symtab)))
<1> DEFINE dynsyms == Entries(file.dynsym)
           syms == Entries(file.symtab)
<1>1. dynsyms \in Seq(Entry) /\ syms \in Seq(Entry)
  BY FileIs
<1>2. DynDefined(dynsyms) \in SUBSET DOMAIN dynsyms /\ Defined(syms) \in SUBSET DOMAIN syms
  BY DEF DynDefined, Defined
<1>3. Symbols = Taken(dynsyms, DynDefined(dynsyms)) \o Taken(syms, Defined(syms))
  BY DEF Symbols, DynCopied, Copied, DynDefined, Defined
<1> HIDE DEF dynsyms, syms
<1> DEFINE t == Taken(dynsyms, DynDefined(dynsyms))
           u == Taken(syms, Defined(syms))
<1>4. /\ t \in Seq(Sym) /\ Len(t) = Cardinality(DynDefined(dynsyms))
      /\ u \in Seq(Sym) /\ Len(u) = Cardinality(Defined(syms))
  BY <1>1, <1>2, TakenIs
<1>5. Symbols = t \o u
  BY <1>3
<1> HIDE DEF t, u
<1>6. Symbols \in Seq(Sym) /\ Len(Symbols) = Len(t) + Len(u)
  BY <1>4, <1>5, ConcatProperties
<1> QED
  BY <1>4, <1>6 DEF dynsyms, syms

-----------------------------------------------------------------------------
(* The sort.                                                               *)

NearIn(s) == \A j, k \in DOMAIN s : s[j].addr - s[k].addr < Half

Sorted(s) == \A j, k \in DOMAIN s : j <= k => s[j].addr <= s[k].addr

\* The difference of two addresses less than half the range apart.
LEMMA QcomparNear ==
    ASSUME NEW a \in Sym, NEW b \in Sym, a.addr - b.addr < Half, b.addr - a.addr < Half
    PROVE  qcompar(a, b) <= 0 <=> a.addr <= b.addr
<1>1. a.addr \in 0 .. Range32 - 1 /\ b.addr \in 0 .. Range32 - 1
  BY DEF Sym, UInt
<1> DEFINE d == a.addr - b.addr
<1>2. d \in Int /\ d < Half /\ 0 - Half < d /\ (d <= 0 <=> a.addr <= b.addr)
  BY <1>1, HalfIs
<1>3. qcompar(a, b) = IF d % Range32 < Half THEN d % Range32 ELSE (d % Range32) - Range32
  BY DEF qcompar
<1> HIDE DEF d
<1>4. CASE d >= 0
  <2>1. d % Range32 = d
    BY <1>2, <1>4, HalfIs
  <2> QED
    BY <1>2, <1>3, <1>4, <2>1
<1>5. CASE d < 0
  <2>1. d % Range32 = d + Range32
    BY <1>2, <1>5, HalfIs
  <2>2. ~ (d + Range32 < Half)
    BY <1>2, HalfIs
  <2> QED
    BY <1>2, <1>3, <1>5, <2>1, <2>2, HalfIs
<1> QED
  BY <1>2, <1>4, <1>5

\* If no number is above the next, none is above a later one.
LEMMA Ascending ==
    ASSUME NEW n \in Nat, NEW f \in [1 .. n -> Nat], \A k \in 1 .. n - 1 : f[k] <= f[k + 1]
    PROVE  \A j, k \in 1 .. n : j <= k => f[j] <= f[k]
<1> DEFINE S == {d \in Nat : \A j \in 1 .. n : j + d <= n => f[j] <= f[j + d]}
<1>1. 0 \in S
  OBVIOUS
<1>2. ASSUME NEW d \in 0 .. n - 1, d \in S
      PROVE  d + 1 \in S
  <2>1. ASSUME NEW j \in 1 .. n, j + (d + 1) <= n
        PROVE  f[j] <= f[j + (d + 1)]
    <3>1. j + d \in 1 .. n - 1 /\ j + d \in 1 .. n /\ j + (d + 1) = (j + d) + 1
          /\ (j + d) + 1 \in 1 .. n /\ j + d <= n
      BY <2>1
    <3>2. f[j] <= f[j + d] /\ f[j + d] <= f[(j + d) + 1]
      BY <1>2, <3>1
    <3>3. f[j] \in Nat /\ f[j + d] \in Nat /\ f[(j + d) + 1] \in Nat
      BY <3>1
    <3> QED
      BY <3>1, <3>2, <3>3
  <2> QED
    BY <2>1
<1>3. \A d \in 0 .. n : d \in S
  <2> HIDE DEF S
  <2> QED
    BY <1>1, <1>2, UpTo
<1>4. ASSUME NEW j \in 1 .. n, NEW k \in 1 .. n, j <= k
      PROVE  f[j] <= f[k]
  <2>1. k - j \in 0 .. n /\ j + (k - j) = k /\ k <= n
    BY <1>4
  <2>2. k - j \in S
    BY <1>3, <2>1
  <2> QED
    BY <2>1, <2>2
<1> QED
  BY <1>4

\* An arrangement has the symbols of the sequence, and as many.
LEMMA ArrangedIs ==
    ASSUME NEW s \in Seq(Sym), NEW t \in Arrangements(s)
    PROVE  /\ t \in Seq(Sym) /\ Len(t) = Len(s) /\ DOMAIN t = DOMAIN s
           /\ Range(t) = Range(s)
           /\ \A k \in DOMAIN s : \E j \in DOMAIN t : s[k] = t[j]
<1>1. PICK p \in Bijection(DOMAIN s, DOMAIN s) : t = [k \in DOMAIN s |-> s[p[k]]]
  BY DEF Arrangements
<1>2. p \in [DOMAIN s -> DOMAIN s] /\ \A w \in DOMAIN s : \E v \in DOMAIN s : p[v] = w
  BY <1>1 DEF Bijection, Surjection
<1>3. DOMAIN s = 1 .. Len(s) /\ Len(s) \in Nat /\ \A k \in DOMAIN s : s[k] \in Sym
  BY LenProperties, ElementOfSeq
<1>4. DOMAIN t = DOMAIN s /\ \A k \in DOMAIN s : t[k] = s[p[k]] /\ t[k] \in Sym
  BY <1>1, <1>2, <1>3
<1>5. t = [k \in DOMAIN t |-> t[k]]
  BY <1>1
<1>6. t \in [1 .. Len(s) -> Sym]
  BY <1>3, <1>4, <1>5
<1>7. t \in Seq(Sym) /\ Len(t) = Len(s)
  <2>1. t \in Seq(Sym)
    BY <1>3, <1>6, SeqDef
  <2>2. Len(t) \in Nat /\ 1 .. Len(t) = 1 .. Len(s)
    BY <1>3, <1>4, <2>1, LenProperties
  <2> QED
    BY <1>3, <2>1, <2>2
<1>8. \A k \in DOMAIN s : \E j \in DOMAIN t : s[k] = t[j]
  <2> TAKE k \in DOMAIN s
  <2>1. PICK v \in DOMAIN s : p[v] = k
    BY <1>2
  <2> QED
    BY <1>4, <2>1
<1>9. Range(t) = Range(s)
  <2>1. \A x : x \in Range(t) => x \in Range(s)
    BY <1>2, <1>4 DEF Range
  <2>2. \A x : x \in Range(s) => x \in Range(t)
    BY <1>8 DEF Range
  <2> QED
    BY <2>1, <2>2
<1> QED
  BY <1>4, <1>7, <1>8, <1>9

\* What qsort makes of symbols near each other is in the order of the addresses.
LEMMA SortSorts ==
    ASSUME NEW s \in Seq(Sym), NEW t \in Arrangements(s), NearIn(t),
           Orders(s) => \A k \in 1 .. Len(t) - 1 : qcompar(t[k], t[k + 1]) <= 0
    PROVE  Sorted(t)
<1>1. /\ t \in Seq(Sym) /\ Len(t) = Len(s) /\ DOMAIN t = DOMAIN s
      /\ \A k \in DOMAIN s : \E j \in DOMAIN t : s[k] = t[j]
  BY ArrangedIs
<1>2. /\ Len(s) \in Nat /\ DOMAIN s = 1 .. Len(s)
      /\ \A k \in 1 .. Len(s) : s[k] \in Sym /\ t[k] \in Sym
  BY <1>1, LenProperties, ElementOfSeq
<1>3. NearIn(s)
  <2>1. ASSUME NEW j \in DOMAIN s, NEW k \in DOMAIN s
        PROVE  s[j].addr - s[k].addr < Half
    <3>1. PICK v \in DOMAIN t, w \in DOMAIN t : s[j] = t[v] /\ s[k] = t[w]
      BY <1>1
    <3> QED
      BY <3>1 DEF NearIn
  <2> QED
    BY <2>1 DEF NearIn
<1>4. \A j, k \in DOMAIN s : qcompar(s[j], s[k]) <= 0 <=> s[j].addr <= s[k].addr
  BY <1>2, <1>3, QcomparNear DEF NearIn
<1>5. \A k \in DOMAIN s : s[k].addr \in Nat /\ t[k].addr \in Nat
  BY <1>2, HalfIs DEF Sym, UInt
<1>6. Orders(s)
  <2>1. \A i, j \in DOMAIN s : s[i].addr <= s[j].addr \/ s[j].addr <= s[i].addr
    BY <1>5
  <2>2. \A i, j, k \in DOMAIN s :
           s[i].addr <= s[j].addr /\ s[j].addr <= s[k].addr => s[i].addr <= s[k].addr
    BY <1>5
  <2> QED
    BY <1>4, <2>1, <2>2, Zenon DEF Orders
<1>7. \A k \in 1 .. Len(s) - 1 : t[k].addr <= t[k + 1].addr
  <2> TAKE k \in 1 .. Len(s) - 1
  <2>1. k \in DOMAIN t /\ k + 1 \in DOMAIN t /\ k \in 1 .. Len(s) /\ k + 1 \in 1 .. Len(s)
    BY <1>1, <1>2
  <2>2. t[k].addr - t[k + 1].addr < Half /\ t[k + 1].addr - t[k].addr < Half
    BY <2>1 DEF NearIn
  <2>3. qcompar(t[k], t[k + 1]) <= 0
    BY <1>1, <1>6
  <2> QED
    BY <1>2, <2>1, <2>2, <2>3, QcomparNear
<1> DEFINE f == [k \in 1 .. Len(s) |-> t[k].addr]
<1>8. f \in [1 .. Len(s) -> Nat] /\ \A k \in 1 .. Len(s) : f[k] = t[k].addr
  BY <1>2, <1>5
<1>9. \A k \in 1 .. Len(s) - 1 : f[k] <= f[k + 1]
  <2> HIDE DEF f
  <2> TAKE k \in 1 .. Len(s) - 1
  <2>1. k \in 1 .. Len(s) /\ k + 1 \in 1 .. Len(s)
    BY <1>2
  <2> QED
    BY <1>7, <1>8, <2>1
<1> HIDE DEF f
<1>10. \A j, k \in 1 .. Len(s) : j <= k => f[j] <= f[k]
  BY <1>2, <1>8, <1>9, Ascending
<1>11. ASSUME NEW j \in DOMAIN t, NEW k \in DOMAIN t, j <= k
       PROVE  t[j].addr <= t[k].addr
  <2>1. j \in 1 .. Len(s) /\ k \in 1 .. Len(s)
    BY <1>1, <1>2, <1>11
  <2> QED
    BY <1>8, <1>10, <1>11, <2>1
<1> QED
  BY <1>11 DEF Sorted

-----------------------------------------------------------------------------
(* The search.                                                             *)

Middle(l, u) == (l + u) \div 2

\* The address is before a symbol, behind it, or in it.
LEMMA BcomparIs ==
    ASSUME NEW a \in UInt, NEW s \in Sym
    PROVE  /\ s.addr \in Nat /\ s.size \in Nat /\ a \in Nat
           /\ \/ bcompar(a, s) = -1 /\ a < s.addr
              \/ bcompar(a, s) = 1 /\ s.addr <= a /\ a - s.addr >= s.size
              \/ bcompar(a, s) = 0 /\ Holds(s, a)
<1>1. s.addr \in Nat /\ s.size \in Nat /\ a \in Nat
  BY HalfIs DEF Sym, UInt
<1> QED
  BY <1>1 DEF bcompar, Holds

\* The halves are smaller.
LEMMA MiddleIs ==
    ASSUME NEW n \in Nat, NEW l \in 0 .. n, NEW u \in 0 .. n, l < u
    PROVE  /\ Middle(l, u) \in 0 .. n /\ Middle(l, u) + 1 \in 0 .. n
           /\ l <= Middle(l, u) /\ Middle(l, u) < u
  BY DEF Middle

\* A turn at a place: nothing is left, or one half is searched, or it is found.
LEMMA TurnIs ==
    ASSUME NEW a \in UInt, NEW g,
           num_symbols \in Nat, symbols \in Seq(Sym), Len(symbols) = num_symbols,
           NEW l \in 0 .. num_symbols, NEW u \in 0 .. num_symbols
    PROVE  /\ l >= u => Turn(a, g, <<l, u>>) = NULL
           /\ l < u =>
                LET m == Middle(l, u)
                    s == symbols[m + 1]
                IN  \/ a < s.addr /\ Turn(a, g, <<l, u>>) = g[<<l, m>>]
                    \/ s.addr <= a /\ a - s.addr >= s.size /\ Turn(a, g, <<l, u>>) = g[<<m + 1, u>>]
                    \/ Holds(s, a) /\ Turn(a, g, <<l, u>>) = m + 1
<1> DEFINE m == Middle(l, u)
           s == symbols[m + 1]
           c == bcompar(a, s)
<1>1. Turn(a, g, <<l, u>>) =
        CASE l >= u           -> NULL
          [] l < u /\ c < 0   -> g[<<l, m>>]
          [] l < u /\ c > 0   -> g[<<m + 1, u>>]
          [] l < u /\ c = 0   -> m + 1
  BY DEF Turn, Middle
<1>2. l \in Int /\ u \in Int
  OBVIOUS
<1>3. ASSUME l >= u
      PROVE  Turn(a, g, <<l, u>>) = NULL
  <2>1. ~ (l < u)
    BY <1>2, <1>3
  <2> HIDE DEF c, m
  <2> QED
    BY <1>1, <1>3, <2>1
<1>4. ASSUME l < u
      PROVE  \/ a < s.addr /\ Turn(a, g, <<l, u>>) = g[<<l, m>>]
             \/ s.addr <= a /\ a - s.addr >= s.size /\ Turn(a, g, <<l, u>>) = g[<<m + 1, u>>]
             \/ Holds(s, a) /\ Turn(a, g, <<l, u>>) = m + 1
  <2>1. m + 1 \in 1 .. Len(symbols)
    <3>1. m \in 0 .. num_symbols /\ 0 <= m /\ m < u /\ u <= num_symbols
      BY <1>4, MiddleIs
    <3> HIDE DEF m
    <3> QED
      BY <3>1
  <2> HIDE DEF m
  <2>2. s \in Sym
    BY <2>1, ElementOfSeq
  <2>3. /\ s.addr \in Nat /\ s.size \in Nat /\ a \in Nat
        /\ \/ c = -1 /\ a < s.addr
           \/ c = 1 /\ s.addr <= a /\ a - s.addr >= s.size
           \/ c = 0 /\ Holds(s, a)
    BY <2>2, BcomparIs
  <2> HIDE DEF c, s
  <2>4. ~ (l >= u)
    BY <1>2, <1>4
  <2>5. CASE c = -1 /\ a < s.addr
    <3>1. c < 0 /\ ~ (c > 0) /\ c # 0
      BY <2>5
    <3>2. Turn(a, g, <<l, u>>) = g[<<l, m>>]
      BY <1>1, <1>4, <2>4, <3>1
    <3> QED
      BY <2>5, <3>2
  <2>6. CASE c = 1 /\ s.addr <= a /\ a - s.addr >= s.size
    <3>1. c > 0 /\ ~ (c < 0) /\ c # 0
      BY <2>6
    <3>2. Turn(a, g, <<l, u>>) = g[<<m + 1, u>>]
      BY <1>1, <1>4, <2>4, <3>1
    <3> QED
      BY <2>6, <3>2
  <2>7. CASE c = 0 /\ Holds(s, a)
    <3>1. c = 0 /\ ~ (c < 0) /\ ~ (c > 0)
      BY <2>7
    <3>2. Turn(a, g, <<l, u>>) = m + 1
      BY <1>1, <1>4, <2>4, <3>1
    <3> QED
      BY <2>7, <3>2
  <2> QED
    BY <2>3, <2>5, <2>6, <2>7
<1> QED
  BY <1>3, <1>4

\* Searched(g, d): g is what the search is at the places that are at most d wide.
Searched(a, n, g, d) ==
    \A l, u \in 0 .. n : u - l <= d => g[<<l, u>>] = Turn(a, g, <<l, u>>)

\* g and h are the same at the places narrower than <<l, u>>.
Agree(g, h, n, l, u) == \A i, j \in 0 .. n : j - i < u - l => g[<<i, j>>] = h[<<i, j>>]

\* A turn asks for narrower places only.
LEMMA TurnIsLocal ==
    ASSUME NEW a, NEW g, NEW h, NEW n \in Nat, NEW l \in 0 .. n, NEW u \in 0 .. n,
           Agree(g, h, n, l, u)
    PROVE  l < u => Turn(a, g, <<l, u>>) = Turn(a, h, <<l, u>>)
<1> SUFFICES ASSUME l < u PROVE Turn(a, g, <<l, u>>) = Turn(a, h, <<l, u>>)
  OBVIOUS
<1> DEFINE m == Middle(l, u)
           c == bcompar(a, symbols[m + 1])
<1>1. m \in 0 .. n /\ m + 1 \in 0 .. n /\ l <= m /\ m < u
  BY MiddleIs
<1>2. /\ Turn(a, g, <<l, u>>) =
           CASE l >= u           -> NULL
             [] l < u /\ c < 0   -> g[<<l, m>>]
             [] l < u /\ c > 0   -> g[<<m + 1, u>>]
             [] l < u /\ c = 0   -> m + 1
      /\ Turn(a, h, <<l, u>>) =
           CASE l >= u           -> NULL
             [] l < u /\ c < 0   -> h[<<l, m>>]
             [] l < u /\ c > 0   -> h[<<m + 1, u>>]
             [] l < u /\ c = 0   -> m + 1
  BY DEF Turn, Middle
<1> HIDE DEF m, c
<1>3. m - l < u - l /\ u - (m + 1) < u - l
  BY <1>1
<1>4. g[<<l, m>>] = h[<<l, m>>] /\ g[<<m + 1, u>>] = h[<<m + 1, u>>]
  BY <1>1, <1>3 DEF Agree
<1> QED
  BY <1>2, <1>4

\* The search has a result from each place.
LEMMA SearchRuns ==
    ASSUME NEW a \in UInt, num_symbols \in Nat, symbols \in Seq(Sym), Len(symbols) = num_symbols
    PROVE  \E f : f = [place \in Places(num_symbols) |-> Turn(a, f, place)]
<1> DEFINE n == num_symbols
           P == Places(n)
           Solved(g, d) == Searched(a, n, g, d) /\ g = [place \in P |-> g[place]]
           S == {d \in Nat : \E g : Solved(g, d)}
<1>1. \A l, u \in 0 .. n : <<l, u>> \in P
  BY DEF Places
<1>2. 0 \in S
  <2> DEFINE g == [place \in P |-> NULL]
  <2>1. ASSUME NEW l \in 0 .. n, NEW u \in 0 .. n, u - l <= 0
        PROVE  g[<<l, u>>] = Turn(a, g, <<l, u>>)
    <3>1. g[<<l, u>>] = NULL
      BY <1>1
    <3>2. l >= u
      BY <2>1
    <3> HIDE DEF g
    <3>3. Turn(a, g, <<l, u>>) = NULL
      BY <3>2, TurnIs
    <3> QED
      BY <3>1, <3>3
  <2>2. g = [place \in P |-> g[place]]
    OBVIOUS
  <2> HIDE DEF g, P
  <2>3. Solved(g, 0)
    BY <2>1, <2>2 DEF Searched
  <2> QED
    BY <2>3
<1>3. ASSUME NEW d \in 0 .. n - 1, d \in S
      PROVE  d + 1 \in S
  <2>1. PICK g : Solved(g, d)
    BY <1>3
  <2> DEFINE h == [place \in P |-> IF place[2] - place[1] <= d THEN g[place] ELSE Turn(a, g, place)]
  <2>2. ASSUME NEW l \in 0 .. n, NEW u \in 0 .. n
        PROVE  h[<<l, u>>] = IF u - l <= d THEN g[<<l, u>>] ELSE Turn(a, g, <<l, u>>)
    BY <1>1
  <2>3. h = [place \in P |-> h[place]]
    OBVIOUS
  <2> HIDE DEF h, P
  <2>4. ASSUME NEW l \in 0 .. n, NEW u \in 0 .. n
        PROVE  h[<<l, u>>] = Turn(a, g, <<l, u>>)  \/ ~ (u - l <= d + 1)
    BY <2>1, <2>2 DEF Searched
  <2>5. ASSUME NEW l \in 0 .. n, NEW u \in 0 .. n, u - l <= d + 1
        PROVE  Turn(a, g, <<l, u>>) = Turn(a, h, <<l, u>>)
    <3>1. CASE l < u
      <4>1. ASSUME NEW i \in 0 .. n, NEW j \in 0 .. n, j - i < u - l
            PROVE  g[<<i, j>>] = h[<<i, j>>]
        <5>1. j - i <= d
          BY <2>5, <4>1, <1>3
        <5> QED
          BY <2>2, <5>1
      <4>2. l < u => Turn(a, g, <<l, u>>) = Turn(a, h, <<l, u>>)
        <5>1. Agree(g, h, n, l, u)
          BY <4>1 DEF Agree
        <5> HIDE DEF S, Solved
        <5> QED
          BY <5>1, TurnIsLocal
      <4> QED
        BY <3>1, <4>2
    <3>2. CASE ~ (l < u)
      <4>1. l >= u
        BY <3>2
      <4> QED
        BY <4>1, TurnIs
    <3> QED
      BY <3>1, <3>2
  <2>6. Searched(a, n, h, d + 1)
    BY <2>4, <2>5 DEF Searched
  <2> QED
    BY <1>3, <2>3, <2>6
<1>4. n \in S
  <2> HIDE DEF S
  <2>1. \A d \in 0 .. n : d \in S
    BY <1>2, <1>3, UpTo
  <2> QED
    BY <2>1
<1>5. PICK g : Solved(g, n)
  BY <1>4
<1>6. ASSUME NEW place \in P
      PROVE  g[place] = Turn(a, g, place)
  <2>1. place = <<place[1], place[2]>> /\ place[1] \in 0 .. n /\ place[2] \in 0 .. n
    BY DEF Places
  <2>2. place[2] - place[1] <= n
    BY <2>1
  <2> QED
    BY <1>5, <2>1, <2>2 DEF Searched
<1> HIDE DEF P
<1>7. g = [place \in P |-> Turn(a, g, place)]
  BY <1>5, <1>6
<1> QED
  BY <1>7 DEF P

\* bsearch begins with the whole table and takes the turns.
LEMMA BsearchIs ==
    ASSUME NEW a \in UInt, num_symbols \in Nat, symbols \in Seq(Sym), Len(symbols) = num_symbols
    PROVE  \E f : /\ Searched(a, num_symbols, f, num_symbols)
                  /\ bsearch(a) = f[<<0, num_symbols>>]
<1> DEFINE n == num_symbols
           search[place \in Places(n)] == Turn(a, search, place)
<1>1. bsearch(a) = search[<<0, n>>]
  BY DEF bsearch
<1>2. search = CHOOSE f : f = [place \in Places(n) |-> Turn(a, f, place)]
  OBVIOUS
<1> HIDE DEF search
<1>3. search = [place \in Places(n) |-> Turn(a, search, place)]
  BY <1>2, SearchRuns
<1>4. ASSUME NEW l \in 0 .. n, NEW u \in 0 .. n
      PROVE  search[<<l, u>>] = Turn(a, search, <<l, u>>)
  <2>1. <<l, u>> \in Places(n)
    BY DEF Places
  <2> QED
    BY <1>3, <2>1
<1>5. Searched(a, n, search, n)
  BY <1>4 DEF Searched
<1> QED
  BY <1>1, <1>5

ApartIn(s) ==
    \A j, k \in DOMAIN s :
        \/ s[j].addr = s[k].addr /\ s[j].size = s[k].size
        \/ Extent(s[j]) \intersect Extent(s[k]) = {}

\* What contains an address is not before another symbol at or below the address, if
\* the two are apart, unless that one contains it too.
LEMMA NoneBefore ==
    ASSUME NEW a \in Nat, NEW s \in Sym, NEW t \in Sym,
           Holds(s, a), s.addr <= t.addr, t.addr <= a, a - t.addr >= t.size,
           \/ s.addr = t.addr /\ s.size = t.size
           \/ Extent(s) \intersect Extent(t) = {}
    PROVE  FALSE
<1>1. s.addr \in Nat /\ s.size \in Nat /\ t.addr \in Nat /\ t.size \in Nat
  BY HalfIs DEF Sym, UInt
<1>2. a - s.addr < s.size
  BY DEF Holds
<1>3. \A i \in Nat : Max({i, 1}) \in Nat /\ Max({i, 1}) >= i /\ Max({i, 1}) >= 1
  <2> TAKE i \in Nat
  <2>1. \E x \in {i, 1} : \A y \in {i, 1} : x >= y
    OBVIOUS
  <2> QED
    BY <2>1 DEF Max
<1>4. t.addr \in Extent(t)
  <2>1. Max({t.size, 1}) \in Nat /\ Max({t.size, 1}) >= 1
    BY <1>1, <1>3
  <2> QED
    BY <1>1, <2>1 DEF Extent
<1>5. t.addr \in Extent(s)
  <2> DEFINE wide == Max({s.size, 1})
  <2>1. wide \in Nat /\ wide >= s.size
    BY <1>1, <1>3
  <2>2. Extent(s) = s.addr .. s.addr + wide - 1
    BY DEF Extent
  <2> HIDE DEF wide
  <2>3. t.addr - s.addr < s.size
    BY <1>1, <1>2
  <2>4. t.addr \in Int /\ s.addr <= t.addr /\ t.addr <= s.addr + wide - 1
    BY <1>1, <2>1, <2>3
  <2> QED
    BY <1>1, <2>1, <2>2, <2>4
<1>6. s.addr = t.addr /\ s.size = t.size
  BY <1>4, <1>5
<1> QED
  BY <1>1, <1>2, <1>6

\* What is found from a place contains the address, and of sorted symbols that are
\* apart one of the place is found if any of them contains it.
Finds(a, g, l, u) ==
    /\ \/ g[<<l, u>>] = NULL
       \/ g[<<l, u>>] \in 1 .. num_symbols /\ Holds(symbols[g[<<l, u>>]], a)
    /\ Sorted(symbols) /\ ApartIn(symbols) /\ (\E k \in 1 .. num_symbols : l < k /\ k <= u /\ Holds(symbols[k], a))
          => g[<<l, u>>] # NULL

LEMMA SearchFinds ==
    ASSUME NEW a \in UInt, num_symbols \in Nat, symbols \in Seq(Sym), Len(symbols) = num_symbols,
           NEW g, Searched(a, num_symbols, g, num_symbols)
    PROVE  Finds(a, g, 0, num_symbols)
<1> DEFINE n == num_symbols
           S == {d \in Nat : \A l, u \in 0 .. n : u - l <= d => Finds(a, g, l, u)}
<1>1. /\ DOMAIN symbols = 1 .. n
      /\ \A k \in 1 .. n : symbols[k] \in Sym /\ symbols[k].addr \in Nat /\ symbols[k].size \in Nat
  <2>1. DOMAIN symbols = 1 .. n /\ \A k \in 1 .. n : symbols[k] \in Sym
    BY LenProperties, ElementOfSeq
  <2> QED
    BY <2>1, HalfIs DEF Sym, UInt
<1>2. a \in Nat
  BY HalfIs DEF UInt
<1>3. \A l, u \in 0 .. n : g[<<l, u>>] = Turn(a, g, <<l, u>>)
  <2> TAKE l, u \in 0 .. n
  <2>1. u - l <= n
    OBVIOUS
  <2> QED
    BY <2>1 DEF Searched
<1>4. ASSUME NEW l \in 0 .. n, NEW u \in 0 .. n, l >= u
      PROVE  Finds(a, g, l, u)
  <2>1. g[<<l, u>>] = NULL
    <3>1. Turn(a, g, <<l, u>>) = NULL
      BY <1>4, TurnIs
    <3> QED
      BY <1>3, <3>1
  <2>2. ~ \E k \in 1 .. n : l < k /\ k <= u /\ Holds(symbols[k], a)
    BY <1>4
  <2> QED
    BY <2>1, <2>2, Zenon DEF Finds
<1>5. 0 \in S
  <2>1. ASSUME NEW l \in 0 .. n, NEW u \in 0 .. n, u - l <= 0
        PROVE  Finds(a, g, l, u)
    <3>1. l >= u
      BY <2>1
    <3> QED
      BY <1>4, <3>1
  <2> QED
    BY <2>1
<1>6. ASSUME NEW d \in 0 .. n - 1, d \in S
      PROVE  d + 1 \in S
  <2>1. ASSUME NEW l \in 0 .. n, NEW u \in 0 .. n, u - l <= d + 1, l < u
        PROVE  Finds(a, g, l, u)
    <3> DEFINE m == Middle(l, u)
               s == symbols[m + 1]
    <3>1. m \in 0 .. n /\ m + 1 \in 0 .. n /\ l <= m /\ m < u /\ m + 1 \in 1 .. n
      <4>1. m \in 0 .. n /\ m + 1 \in 0 .. n /\ l <= m /\ m < u
        BY <2>1, MiddleIs
      <4> HIDE DEF m
      <4> QED
        BY <4>1
    <3>2. \/ a < s.addr /\ Turn(a, g, <<l, u>>) = g[<<l, m>>]
          \/ s.addr <= a /\ a - s.addr >= s.size /\ Turn(a, g, <<l, u>>) = g[<<m + 1, u>>]
          \/ Holds(s, a) /\ Turn(a, g, <<l, u>>) = m + 1
      BY <2>1, TurnIs
    <3>3. g[<<l, u>>] = Turn(a, g, <<l, u>>)
      BY <1>3
    <3> HIDE DEF m
    <3>4. s \in Sym /\ s.addr \in Nat /\ s.size \in Nat
      BY <1>1, <3>1
    <3>5. m - l <= d /\ u - (m + 1) <= d
      BY <2>1, <3>1, <1>6
    <3>6. Finds(a, g, l, m) /\ Finds(a, g, m + 1, u)
      BY <1>6, <3>1, <3>5
    <3>7. CASE a < s.addr /\ Turn(a, g, <<l, u>>) = g[<<l, m>>]
      <4>1. g[<<l, u>>] = g[<<l, m>>]
        BY <3>3, <3>7
      <4>2. ASSUME Sorted(symbols), NEW k \in 1 .. n, l < k, k <= u, Holds(symbols[k], a)
            PROVE  k <= m
        <5>1. symbols[k].addr <= a
          BY <4>2 DEF Holds
        <5>2. ~ (m + 1 <= k)
          <6>1. ASSUME m + 1 <= k
                PROVE  s.addr <= symbols[k].addr
            BY <1>1, <3>1, <4>2, <6>1 DEF Sorted
          <6> QED
            BY <1>1, <1>2, <3>4, <3>7, <5>1, <6>1
        <5> QED
          BY <3>1, <5>2
      <4> HIDE DEF n, s
      <4>3. Sorted(symbols) /\ (\E k \in 1 .. num_symbols : l < k /\ k <= u /\ Holds(symbols[k], a))
              => \E k \in 1 .. num_symbols : l < k /\ k <= m /\ Holds(symbols[k], a)
        BY <4>2 DEF n
      <4> QED
        BY <3>6, <4>1, <4>3 DEF Finds
    <3>8. CASE s.addr <= a /\ a - s.addr >= s.size /\ Turn(a, g, <<l, u>>) = g[<<m + 1, u>>]
      <4>1. g[<<l, u>>] = g[<<m + 1, u>>]
        BY <3>3, <3>8
      <4>2. ASSUME Sorted(symbols), ApartIn(symbols),
                   NEW k \in 1 .. n, l < k, k <= u, Holds(symbols[k], a)
            PROVE  m + 1 < k
        <5>1. ASSUME k <= m + 1
              PROVE  FALSE
          <6>1. symbols[k].addr <= s.addr
            BY <1>1, <3>1, <4>2, <5>1 DEF Sorted
          <6>2. \/ symbols[k].addr = s.addr /\ symbols[k].size = s.size
                \/ Extent(symbols[k]) \intersect Extent(s) = {}
            BY <1>1, <3>1, <4>2 DEF ApartIn
          <6>3. symbols[k] \in Sym
            BY <1>1
          <6> HIDE DEF s
          <6> QED
            BY <1>2, <3>4, <3>8, <4>2, <6>1, <6>2, <6>3, NoneBefore
        <5> QED
          BY <3>1, <5>1
      <4> HIDE DEF n, s
      <4>3. Sorted(symbols) /\ ApartIn(symbols)
              /\ (\E k \in 1 .. num_symbols : l < k /\ k <= u /\ Holds(symbols[k], a))
              => \E k \in 1 .. num_symbols : m + 1 < k /\ k <= u /\ Holds(symbols[k], a)
        BY <4>2 DEF n
      <4> QED
        BY <3>6, <4>1, <4>3 DEF Finds
    <3>9. CASE Holds(s, a) /\ Turn(a, g, <<l, u>>) = m + 1
      <4>1. g[<<l, u>>] = m + 1 /\ m + 1 # NULL
        BY <3>1, <3>3, <3>9 DEF NULL
      <4>2. Holds(symbols[g[<<l, u>>]], a)
        BY <3>9, <4>1
      <4>3. g[<<l, u>>] \in 1 .. num_symbols /\ g[<<l, u>>] # NULL
        BY <3>1, <4>1
      <4> QED
        BY <4>2, <4>3, Zenon DEF Finds
    <3> QED
      BY <3>2, <3>7, <3>8, <3>9
  <2>2. ASSUME NEW l \in 0 .. n, NEW u \in 0 .. n, u - l <= d + 1
        PROVE  Finds(a, g, l, u)
    <3>1. l < u \/ l >= u
      OBVIOUS
    <3> QED
      BY <1>4, <2>1, <2>2, <3>1
  <2> QED
    BY <2>2
<1>7. n \in S
  <2> HIDE DEF S
  <2>1. \A d \in 0 .. n : d \in S
    BY <1>5, <1>6, UpTo
  <2> QED
    BY <2>1
<1>8. 0 \in 0 .. n /\ n \in 0 .. n /\ n - 0 <= n
  OBVIOUS
<1> QED
  BY <1>7, <1>8

\* The result of bsearch.
LEMMA BsearchFinds ==
    ASSUME NEW a \in UInt, num_symbols \in Nat, symbols \in Seq(Sym), Len(symbols) = num_symbols
    PROVE  /\ bsearch(a) # NULL => bsearch(a) \in DOMAIN symbols /\ Holds(symbols[bsearch(a)], a)
           /\ Sorted(symbols) /\ ApartIn(symbols) /\ (\E k \in DOMAIN symbols : Holds(symbols[k], a))
                 => bsearch(a) # NULL
<1>1. PICK g : /\ Searched(a, num_symbols, g, num_symbols)
               /\ bsearch(a) = g[<<0, num_symbols>>]
  BY BsearchIs
<1>2. Finds(a, g, 0, num_symbols)
  BY <1>1, SearchFinds
<1>3. DOMAIN symbols = 1 .. num_symbols /\ \A k \in 1 .. num_symbols : 0 < k /\ k <= num_symbols
  BY LenProperties
<1> QED
  BY <1>1, <1>2, <1>3 DEF Finds

-----------------------------------------------------------------------------
(* The inductive invariant.                                                *)

\* Nothing has been looked up before the table is made; it is made of what the file
\* has and, if no two addresses are too far apart, in the order of the addresses.
Loaded ==
    /\ file \in File
    /\ pc \in {"create", "populate", "qsort"} => found = NULL
    /\ pc = "populate" => num_symbols = Len(Symbols)
    /\ pc = "qsort" => symbols = Symbols
    /\ Made => Range(symbols) = Range(Symbols) /\ (NearIn(symbols) => Sorted(symbols))

\* Both passes over the sections choose the same symbols, so the table is full.
Filled == pc \notin {"create", "populate", "error", "killed"} => Len(symbols) = num_symbols

IInv == TypeOK /\ Filled /\ LookupRight /\ LowestNamed /\ Loaded

\* What the definitions say of the table by itself.
LEMMA TableIs ==
    /\ Near <=> NearIn(symbols)
    /\ Apart <=> ApartIn(symbols)
    /\ TypeOK => symbols \in Seq(Sym)
  BY DEF Near, NearIn, Apart, ApartIn, TypeOK, Sym

LEMMA Initially == Init => IInv
<1> SUFFICES ASSUME Init PROVE IInv
  OBVIOUS
<1>1. "" \in Name /\ 0 \in UInt
  <2>1. "" \in Name
    BY ConstantsAssumption DEF ConstantsAssumption
  <2>2. 0 \in UInt
    BY HalfIs DEF UInt
  <2> QED
    BY <2>1, <2>2
<1>2. TypeOK
  BY <1>1, EmptySeq DEF Init, TypeOK, NULL
<1>3. Filled /\ LookupRight /\ LowestNamed
  BY DEF Init, Filled, LookupRight, LowestNamed
<1>4. Loaded
  BY DEF Init, Loaded, Made
<1> QED
  BY <1>2, <1>3, <1>4 DEF IInv

LEMMA CountKeeps == IInv /\ count => IInv'
<1> SUFFICES ASSUME IInv, count PROVE IInv'
  OBVIOUS
<1>1. /\ pc = "create" /\ pc' = "populate" /\ UNCHANGED <<file, symbols, addr, name, found>>
      /\ num_symbols' = Cardinality(DynDefined(Entries(file.dynsym)))
                          + Cardinality(Defined(Entries(file.symtab)))
  BY DEF count, call
<1>2. TypeOK /\ file \in File /\ found = NULL
  BY <1>1 DEF IInv, Loaded
<1>3. num_symbols' = Len(Symbols) /\ Symbols \in Seq(Sym)
  BY <1>1, <1>2, SymbolsAre
<1>4. Symbols' = Symbols
  BY <1>1 DEF Symbols
<1>5. TypeOK'
  <2>1. num_symbols' \in Nat
    BY <1>3, LenProperties
  <2> QED
    BY <1>1, <1>2, <2>1 DEF TypeOK
<1>6. Filled' /\ LookupRight' /\ LowestNamed'
  BY <1>1 DEF Filled, LookupRight, LowestNamed
<1>7. Loaded'
  BY <1>1, <1>2, <1>3, <1>4 DEF Loaded, Made
<1> QED
  BY <1>5, <1>6, <1>7 DEF IInv

\* No table is made.
LEMMA FailKeeps == IInv /\ (fail \/ mmap_fails) => IInv'
<1> SUFFICES ASSUME IInv, fail \/ mmap_fails PROVE IInv'
  OBVIOUS
<1>1. pc' \in {"error", "killed"} /\ UNCHANGED <<file, num_symbols, symbols, addr, name, found>>
  BY DEF fail, mmap_fails, table, call
<1>2. TypeOK'
  BY <1>1 DEF IInv, TypeOK
<1>3. Filled' /\ LookupRight' /\ LowestNamed'
  BY <1>1 DEF Filled, LookupRight, LowestNamed
<1>4. Loaded'
  BY <1>1 DEF IInv, Loaded, Made
<1> QED
  BY <1>2, <1>3, <1>4 DEF IInv

LEMMA PopulateKeeps == IInv /\ populate => IInv'
<1> SUFFICES ASSUME IInv, populate PROVE IInv'
  OBVIOUS
<1>1. /\ pc = "populate" /\ pc' = "qsort" /\ symbols' = Symbols
      /\ UNCHANGED <<file, num_symbols, addr, name, found>>
  BY DEF populate, call
<1>2. TypeOK /\ file \in File /\ found = NULL /\ num_symbols = Len(Symbols)
  BY <1>1 DEF IInv, Loaded
<1>3. Symbols \in Seq(Sym)
  BY <1>2, SymbolsAre
<1>4. Symbols' = Symbols
  BY <1>1 DEF Symbols
<1>5. TypeOK'
  BY <1>1, <1>2, <1>3 DEF TypeOK, Sym
<1>6. Filled' /\ LookupRight' /\ LowestNamed'
  BY <1>1, <1>2 DEF Filled, LookupRight, LowestNamed
<1>7. Loaded'
  BY <1>1, <1>2, <1>4 DEF Loaded, Made
<1> QED
  BY <1>5, <1>6, <1>7 DEF IInv

LEMMA QsortKeeps == IInv /\ qsort => IInv'
<1> SUFFICES ASSUME IInv, qsort PROVE IInv'
  OBVIOUS
<1>1. /\ pc = "qsort" /\ pc' = "ready"
      /\ UNCHANGED <<file, num_symbols, addr, name, found>>
      /\ symbols' \in Arrangements(symbols)
      /\ Orders(symbols) => \A k \in 1 .. Len(symbols') - 1 : qcompar(symbols'[k], symbols'[k + 1]) <= 0
  BY DEF qsort, call
<1>2. /\ TypeOK /\ Filled /\ file \in File /\ found = NULL /\ symbols = Symbols
      /\ symbols \in Seq(Sym)
  BY <1>1, TableIs DEF IInv, Loaded
<1>3. Symbols' = Symbols
  BY <1>1 DEF Symbols
<1>4. /\ symbols' \in Seq(Sym) /\ Len(symbols') = Len(symbols)
      /\ Range(symbols') = Range(symbols)
  BY <1>1, <1>2, ArrangedIs
<1>5. NearIn(symbols') => Sorted(symbols')
  BY <1>1, <1>2, SortSorts
<1>6. TypeOK'
  BY <1>1, <1>2, <1>4 DEF TypeOK, Sym
<1>7. Filled' /\ LookupRight' /\ LowestNamed'
  <2>1. num_symbols = Len(symbols)
    BY <1>1, <1>2 DEF Filled
  <2> QED
    BY <1>1, <1>4, <2>1 DEF Filled, LookupRight, LowestNamed
<1>8. Loaded'
  BY <1>1, <1>2, <1>3, <1>4, <1>5 DEF Loaded, Made
<1> QED
  BY <1>6, <1>7, <1>8 DEF IInv

LEMMA LookupKeeps == IInv /\ (\E a \in UInt : symbol_table_lookup(a)) => IInv'
<1> SUFFICES ASSUME IInv, NEW a \in UInt, symbol_table_lookup(a) PROVE IInv'
  OBVIOUS
<1>1. /\ Made /\ addr' = a /\ found' = bsearch(a) /\ pc' = "looked_up"
      /\ UNCHANGED <<file, num_symbols, symbols, name>>
  BY DEF symbol_table_lookup, table
<1>2. /\ TypeOK /\ num_symbols \in Nat /\ symbols \in Seq(Sym) /\ Len(symbols) = num_symbols
      /\ NearIn(symbols) => Sorted(symbols)
  BY <1>1, TableIs DEF IInv, TypeOK, Filled, Loaded, Made
<1>3. /\ bsearch(a) # NULL => bsearch(a) \in DOMAIN symbols /\ Holds(symbols[bsearch(a)], a)
      /\ Sorted(symbols) /\ ApartIn(symbols) /\ (\E k \in DOMAIN symbols : Holds(symbols[k], a))
            => bsearch(a) # NULL
  BY <1>2, BsearchFinds
<1>4. TypeOK'
  BY <1>1, <1>2, <1>3 DEF TypeOK
<1>5. LookupRight'
  <2>1. (Near' <=> NearIn(symbols)) /\ (Apart' <=> ApartIn(symbols))
    BY <1>1 DEF Near, NearIn, Apart, ApartIn
  <2>2. found' # NULL => Holds(symbols'[found'], addr')
    BY <1>1, <1>3
  <2>3. Near' /\ Apart' /\ (\E k \in DOMAIN symbols' : Holds(symbols'[k], addr')) => found' # NULL
    BY <1>1, <1>2, <1>3, <2>1
  <2> QED
    BY <2>2, <2>3 DEF LookupRight
<1>6. Filled' /\ LowestNamed'
  BY <1>1, <1>2 DEF Filled, LowestNamed
<1>7. Loaded'
  <2>1. Symbols' = Symbols
    BY <1>1 DEF Symbols
  <2> QED
    BY <1>1, <2>1 DEF IInv, Loaded, Made
<1> QED
  BY <1>4, <1>5, <1>6, <1>7 DEF IInv

LEMMA GetKeeps == IInv /\ (\E n \in Name : get_symbol(n)) => IInv'
<1> SUFFICES ASSUME IInv, NEW n \in Name, get_symbol(n) PROVE IInv'
  OBVIOUS
<1>1. /\ Made /\ name' = n /\ pc' = "got"
      /\ found' = IF Named(n) = {} THEN NULL ELSE Min(Named(n))
      /\ UNCHANGED <<file, num_symbols, symbols, addr>>
  BY DEF get_symbol, table
<1>2. /\ TypeOK /\ num_symbols \in Nat /\ symbols \in Seq(Sym) /\ Len(symbols) = num_symbols
      /\ DOMAIN symbols = 1 .. num_symbols
      /\ Range(symbols) = Range(Symbols)
      /\ NearIn(symbols) => Sorted(symbols)
  BY <1>1, TableIs, LenProperties DEF IInv, TypeOK, Filled, Loaded, Made
<1>3. Named(n) # {} => Min(Named(n)) \in Named(n) /\ \A k \in Named(n) : Min(Named(n)) <= k
  <2>1. Named(n) \subseteq Nat
    BY DEF Named
  <2> QED
    BY <2>1, MinIs
<1>4. found' # NULL <=> Named(n) # {}
  <2>1. NULL \notin Named(n)
    BY DEF Named, NULL
  <2> QED
    BY <1>1, <1>3, <2>1
<1>5. found' # NULL => found' \in Named(n) /\ \A k \in Named(n) : found' <= k
  BY <1>1, <1>3, <1>4
<1>6. TypeOK'
  <2>1. found' \in {NULL} \union DOMAIN symbols
    BY <1>2, <1>4, <1>5 DEF Named
  <2> QED
    BY <1>1, <1>2, <2>1 DEF TypeOK
<1>7. Symbols' = Symbols
  BY <1>1 DEF Symbols
<1>8. LowestNamed'
  <2> DEFINE defined == {s \in Range(Symbols) : s.name = n}
  <2>1. \A k \in Named(n) : symbols[k] \in defined
    BY <1>2 DEF Named, Range
  <2>2. \A s \in defined : \E k \in Named(n) : symbols[k] = s
    BY <1>2 DEF Named, Range
  <2>3. found' = NULL <=> defined = {}
    BY <1>4, <2>1, <2>2
  <2>4. found' # NULL => symbols[found'] \in defined
    BY <1>5, <2>1
  <2>5. ASSUME found' # NULL, NearIn(symbols), NEW s \in defined
        PROVE  symbols[found'].addr <= s.addr
    <3>1. PICK k \in Named(n) : symbols[k] = s
      BY <2>2
    <3>2. found' \in DOMAIN symbols /\ k \in DOMAIN symbols /\ found' <= k
      BY <1>2, <1>5, <2>5 DEF Named
    <3> QED
      BY <1>2, <2>5, <3>1, <3>2 DEF Sorted
  <2>6. Near' <=> NearIn(symbols)
    BY <1>1 DEF Near, NearIn
  <2> HIDE DEF defined
  <2>7. found' # NULL /\ Near' => \A s \in defined : symbols[found'].addr <= s.addr
    BY <2>5, <2>6
  <2>8. {s \in Range(Symbols') : s.name = name'} = defined
    BY <1>1, <1>7 DEF defined
  <2> QED
    BY <1>1, <1>7, <2>3, <2>4, <2>7, <2>8 DEF LowestNamed
<1>9. Filled' /\ LookupRight'
  BY <1>1, <1>2 DEF Filled, LookupRight
<1>10. Loaded'
  BY <1>1, <1>7 DEF IInv, Loaded, Made
<1> QED
  BY <1>6, <1>8, <1>9, <1>10 DEF IInv

LEMMA StutterKeeps == IInv /\ UNCHANGED vars => IInv'
<1> SUFFICES ASSUME IInv, UNCHANGED vars PROVE IInv'
  OBVIOUS
<1>1. UNCHANGED <<file, num_symbols, symbols, addr, name, found, pc>>
  BY DEF vars, table, call
<1>2. Symbols' = Symbols
  BY <1>1 DEF Symbols
<1>3. (Near' <=> Near) /\ (Apart' <=> Apart) /\ (Made' <=> Made)
  BY <1>1 DEF Near, Apart, Made
<1>4. TypeOK' /\ Filled'
  BY <1>1 DEF IInv, TypeOK, Filled
<1>5. LookupRight'
  BY <1>1, <1>3 DEF IInv, LookupRight
<1>6. LowestNamed'
  BY <1>1, <1>2, <1>3 DEF IInv, LowestNamed
<1>7. Loaded'
  BY <1>1, <1>2, <1>3 DEF IInv, Loaded
<1> QED
  BY <1>4, <1>5, <1>6, <1>7 DEF IInv

LEMMA AlwaysIInv == Spec => []IInv
<1>1. Init => IInv
  BY Initially
<1>2. IInv /\ [Next]_vars => IInv'
  BY CountKeeps, FailKeeps, PopulateKeeps, QsortKeeps, LookupKeeps, GetKeeps, StutterKeeps DEF Next
<1> QED
  BY <1>1, <1>2, PTL DEF Spec

-----------------------------------------------------------------------------

\* The table holds symbols with addresses of 32 bits, and what is found is one of
\* them or NULL (struct symbol and the results of symbol_table_lookup, get_symbol).
THEOREM SymbolsTypeCorrect == Spec => []TypeOK
<1>1. IInv => TypeOK
  BY DEF IInv
<1> QED
  BY <1>1, AlwaysIInv, PTL

\* symbol_table_lookup finds only a symbol that contains the address, and finds one
\* if there is one, no two addresses are half the range apart and no two symbols
\* overlap.
THEOREM LookupFinds == Spec => []LookupRight
<1>1. IInv => LookupRight
  BY DEF IInv
<1> QED
  BY <1>1, AlwaysIInv, PTL

\* get_symbol finds a name if and only if a symbol of it was taken into the table, and of several symbols
\* of that name the one with the lowest address, unless two addresses are half the
\* range apart.
THEOREM LowestIsFound == Spec => []LowestNamed
<1>1. IInv => LowestNamed
  BY DEF IInv
<1> QED
  BY <1>1, AlwaysIInv, PTL
==============================================================================
