--------------------------- MODULE MCSymbolTable ----------------------------
EXTENDS SymbolTable

Sym(value, size, defined, n) ==
    [st_value |-> value, st_size |-> size, st_shndx |-> defined, name |-> n]

\* Three bits of address: a symbol at 9 is at 1 in the table, and those at 1 and 6
\* are too far apart for qcompar.
MCSym ==
    { Sym(0, 1, TRUE, "f"),      \* left out of the second section
      Sym(1, 2, TRUE, "f"),
      Sym(1, 3, TRUE, "g"),      \* overlaps the one before and the next
      Sym(3, 0, TRUE, "f"),      \* of size 0
      Sym(3, 1, TRUE, "g"),      \* hidden by the one before
      Sym(6, 2, TRUE, "g"),
      Sym(5, 1, TRUE, ""),       \* without a name
      Sym(4, 1, FALSE, "f"),     \* undefined
      Sym(9, 2, TRUE, "f") }

MCSection == {NoSection} \union BoundedSeq(MCSym, 2)

MCFile == [dynsym : MCSection, symtab : MCSection]
=============================================================================
