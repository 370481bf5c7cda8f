------------------------------ MODULE MCLoader ------------------------------
(***************************************************************************)
(* Values for the constants of Loader: a library of a short and one of a   *)
(* long name in lib_dir, and one below it that has the short name too.     *)
(***************************************************************************)
EXTENDS Loader

CONSTANTS short, long, inner, sub, other

MCDirOf == [f \in File |-> IF f = inner THEN sub ELSE Top]

MCNameOf == [f \in File |-> IF f = long THEN "xx" ELSE "x"]

MCStrlen == [n \in Name |-> IF n = "xx" THEN 2 ELSE 1]

Open == {[d \in Subdir \union {Top} |-> "open"]}

\* lib_dir, one directory below it, or neither is not open.
OneDenied ==
    {[d \in Subdir \union {Top} |-> IF d = e THEN m ELSE "open"] :
        e \in {Top, sub}, m \in {"open", "unreadable", "unsearchable"}}

=============================================================================
