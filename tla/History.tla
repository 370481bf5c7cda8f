------------------------------ MODULE History -------------------------------
(***************************************************************************)
(* What a history of lines with a cursor does: a new line goes behind the  *)
(* cursor, and the cursor moves by one entry within the history.           *)
(***************************************************************************)
EXTENDS Naturals, SequencesExt

CONSTANT Line       \* what tells the entries apart

VARIABLES
    entries,        \* the history; the first entry is the empty line
    cursor          \* the entry the user is at

vars == <<entries, cursor>>

Init ==
    /\ \E l \in Line : entries = <<l>>
    /\ cursor = 1

Enter(l) ==
    /\ ~ Contains(entries, l)
    /\ entries' = InsertAt(entries, cursor + 1, l)
    /\ UNCHANGED cursor

Forward ==
    /\ cursor < Len(entries)
    /\ cursor' = cursor + 1
    /\ UNCHANGED entries

Back ==
    /\ cursor > 1
    /\ cursor' = cursor - 1
    /\ UNCHANGED entries

Next == Forward \/ Back \/ \E l \in Line : Enter(l)

Spec == Init /\ [][Next]_vars

=============================================================================
