---------------------------- MODULE CommandLine -----------------------------
(***************************************************************************)
(* The line editor of the shell (input in shell.c), its history            *)
(* (sys/memo.c) and the splitting of a line into words (get_tokens).       *)
(*                                                                         *)
(* There is one buffer for all lines.  insert_after stores a pointer to it *)
(* in every node of the history, so all nodes but the first, whose line is *)
(* the constant "", stand for what the buffer holds at the moment.  The    *)
(* editor, get_tokens and the commands themselves all write to it.         *)
(*                                                                         *)
(* A line that runs over the buffer, a line of too many words, and reading *)
(* a buffer that holds no NUL are undefined; pc = "overrun", and the model *)
(* says no more.                                                           *)
(***************************************************************************)
EXTENDS Integers, Sequences, FiniteSets, FiniteSetsExt

CONSTANTS
    Char,       \* what the user types, except for the following two
    Blank, NL,  \* a blank or a tab, and the end of a line
    NUL,        \* the byte 0
    Junk,       \* what is in fresh memory and is not 0
    LINE,       \* bytes of the buffer (MAX_LINE_SIZE, shell.c: 128)
    ARGS,       \* pointers that fit into cmd (MAX_LINE_SIZE bytes: 16)
    MaxLines    \* bound: lines entered; nothing is typed after the last

ASSUME ConstantsAssumption ==
    /\ {Blank, NL, NUL, Junk} \intersect Char = {}
    /\ Blank # NL /\ NUL \notin {Blank, NL} /\ Junk \notin {Blank, NL, NUL}
    /\ LINE \in Nat \ {0}
    /\ ARGS \in Nat
    /\ MaxLines \in Nat

VARIABLES
    string,       \* the buffer
    index,        \* where the editor is in it
    n,            \* how many lines have been entered: the nodes are 0 .. n
    next, prev,   \* the links between the nodes
    actual_node,
    pc,
    shown,        \* history: the line as the user has put it together
    recalled,     \* history: UP or DOWN was used behind another key
    typed,        \* history: a key other than UP and DOWN was used in this line
    name          \* history: the last line up to the end of its first word

links == <<n, next, prev>>
ghosts == <<shown, recalled, typed, name>>
vars == <<string, index, links, actual_node, pc, ghosts>>

Node == 0 .. MaxLines
NULL == -1
Byte == Char \union {Blank, NL, NUL, Junk}
Visible == Byte \ {NUL}
Delim == {Blank, NL}

TypeOK ==
    /\ string \in [0 .. LINE - 1 -> Byte]
    /\ index \in 0 .. LINE
    /\ n \in Node
    /\ next \in [Node -> Node \union {NULL}]
    /\ prev \in [Node -> Node \union {NULL}]
    /\ actual_node \in 0 .. n
    /\ pc \in {"input", "parse", "overrun"}
    /\ shown \in Seq(Visible) /\ name \in Seq(Visible)
    /\ recalled \in BOOLEAN /\ typed \in BOOLEAN

\* loop has allocated the buffer, and generate_list has made the first node.
Init ==
    /\ string \in [0 .. LINE - 1 -> {NUL, Junk}]
    /\ index = 0
    /\ n = 0
    /\ next = [i \in Node |-> NULL]
    /\ prev = [i \in Node |-> NULL]
    /\ actual_node = 0
    /\ pc = "input"
    /\ shown = <<>> /\ recalled = FALSE /\ typed = FALSE /\ name = <<>>

-----------------------------------------------------------------------------
(* Strings.                                                                *)

Ends == {k \in DOMAIN string : string[k] = NUL}

\* The length of the string in the buffer, if there is one.
strlen == Min(Ends)

Text == [k \in 1 .. strlen |-> string[k - 1]]

Overrun == pc' = "overrun" /\ UNCHANGED <<string, index, links, actual_node, ghosts>>

-----------------------------------------------------------------------------
(* The keys (input).                                                       *)

key(c) ==
    /\ pc = "input" /\ n < MaxLines
    /\ \/ /\ index < LINE
          /\ string' = [string EXCEPT ![index] = c]
          /\ index' = index + 1
          /\ shown' = IF recalled THEN shown ELSE Append(shown, c)
          /\ typed' = TRUE
          /\ UNCHANGED <<links, actual_node, pc, recalled, name>>
       \/ index = LINE /\ Overrun

\* The byte stays in the buffer.
backspace ==
    /\ pc = "input" /\ n < MaxLines /\ index >= 1
    /\ index' = index - 1
    /\ shown' = IF recalled THEN shown ELSE SubSeq(shown, 1, Len(shown) - 1)
    /\ typed' = TRUE
    /\ UNCHANGED <<string, links, actual_node, pc, recalled, name>>

\* The line of node is copied over the buffer.  The line of every node but the
\* first is the buffer, and copying it onto itself changes nothing.  The first
\* node empties the buffer, and the user begins anew; with nothing typed so far
\* he has got name back; behind other keys nothing says what he gets.
recall(node) ==
    /\ \/ /\ node = 0
          /\ string' = [string EXCEPT ![0] = NUL] /\ index' = 0
          /\ shown' = <<>> /\ recalled' = FALSE /\ typed' = FALSE /\ name' = <<>>
       \/ /\ node # 0
          /\ index' = strlen
          /\ shown' = IF typed THEN <<>> ELSE name
          /\ recalled' = typed
          /\ UNCHANGED <<string, typed, name>>
    /\ UNCHANGED <<links, pc>>

\* The line of the node is printed before the cursor moves, and read after.
move(node) ==
    \/ /\ node \in {0} \/ Ends # {}
       /\ actual_node = 0 \/ Ends # {}
       /\ actual_node' = node
       /\ recall(node)
    \/ (node # 0 \/ actual_node # 0) /\ Ends = {} /\ Overrun

\* Variant: the end of the list is not looked for.
up_unchecked ==
    /\ pc = "input"
    /\ move(next[actual_node])

\* ESC [ A
up ==
    /\ pc = "input"
    /\ move(IF next[actual_node] # NULL THEN next[actual_node] ELSE actual_node)

\* ESC [ B
down ==
    /\ pc = "input"
    /\ move(IF prev[actual_node] # NULL THEN prev[actual_node] ELSE actual_node)

\* Variant: the node behind the new one keeps pointing back past it.
insert_after_onesided ==
    LET new == n + 1 IN
    /\ n' = new
    /\ next' = [next EXCEPT ![new] = next[actual_node], ![actual_node] = new]
    /\ prev' = [prev EXCEPT ![new] = actual_node]

\* insert_after(actual_node, string)
insert_after ==
    LET new == n + 1
        after == next[actual_node] IN
    /\ n' = new
    /\ next' = [next EXCEPT ![new] = after, ![actual_node] = new]
    /\ prev' = [i \in Node |-> CASE i = new   -> actual_node
                                 [] i = after -> new
                                 [] OTHER     -> prev[i]]

\* Variant: the line is ended by its last key alone.
enter_unterminated(c) ==
    /\ pc = "input" /\ n < MaxLines
    /\ \/ /\ index + 1 < LINE
          /\ string' = [string EXCEPT ![index] = c]
          /\ shown' = IF recalled \/ c = NUL THEN shown ELSE Append(shown, c)
          /\ insert_after
          /\ pc' = "parse"
          /\ UNCHANGED <<index, actual_node, recalled, typed, name>>
       \/ index + 1 >= LINE /\ Overrun

\* RETURN, or the byte 0, ends the line.
enter(c) ==
    /\ pc = "input" /\ n < MaxLines
    /\ \/ /\ index + 1 < LINE
          /\ string' = [string EXCEPT ![index] = c, ![index + 1] = NUL]
          /\ shown' = IF recalled \/ c = NUL THEN shown ELSE Append(shown, c)
          /\ insert_after
          /\ pc' = "parse"
          /\ UNCHANGED <<index, actual_node, recalled, typed, name>>
       \/ index + 1 >= LINE /\ Overrun

-----------------------------------------------------------------------------
(* The words of the line (get_tokens), and the command.                    *)

IsDelim(k) == string[k] \in Delim

\* Where the words of the line begin.
Starts == {k \in 0 .. strlen - 1 : ~ IsDelim(k) /\ (k = 0 \/ IsDelim(k - 1))}

\* Variant: every delimiter is overwritten.
strtok_all ==
    [k \in DOMAIN string |-> IF k < strlen /\ IsDelim(k) THEN NUL ELSE string[k]]

\* strtok overwrites the delimiter that ends a word, and skips the others.
strtok ==
    [k \in DOMAIN string |->
        IF k \in 1 .. strlen - 1 /\ IsDelim(k) /\ ~ IsDelim(k - 1)
          THEN NUL ELSE string[k]]

\* Some commands move their first argument over its first byte, where it is in
\* the buffer (print_type).
shifted(buffer, from) ==
    LET end == Min({k \in DOMAIN buffer : k >= from /\ buffer[k] = NUL}) IN
    [k \in DOMAIN buffer |-> IF k \in from .. end - 1 THEN buffer[k + 1]
                                                      ELSE buffer[k]]

\* The line up to the end of its first word; the whole line if it has none.
FirstWord ==
    LET ends == {k \in 1 .. strlen : /\ Text[k] \notin Delim
                                     /\ k = strlen \/ Text[k + 1] \in Delim}
    IN  IF ends = {} THEN Text ELSE SubSeq(Text, 1, Min(ends))

\* Variant: the index stays where the last line ended.
NewLine_appending == UNCHANGED index /\ shown' = <<>> /\ recalled' = FALSE /\ typed' = FALSE

\* input is called again.
NewLine == index' = 0 /\ shown' = <<>> /\ recalled' = FALSE /\ typed' = FALSE

parse ==
    /\ pc = "parse"
    /\ \/ /\ Cardinality(Starts) < ARGS
          /\ \/ string' = strtok
             \/ \E first, second \in Starts :
                   /\ first < second
                   /\ \A k \in Starts : k <= first \/ k >= second
                   /\ \A k \in Starts : k >= first
                   /\ string' = shifted(strtok, second)
          /\ name' = FirstWord
          /\ pc' = "input"
          /\ NewLine
          /\ UNCHANGED <<links, actual_node>>
       \/ Cardinality(Starts) >= ARGS /\ Overrun

-----------------------------------------------------------------------------

Next ==
    \/ \E c \in Char \union {Blank} : key(c)
    \/ \E c \in {NL, NUL} : enter(c)
    \/ backspace \/ up \/ down \/ parse

Spec == Init /\ [][Next]_vars

-----------------------------------------------------------------------------

\* The line that is executed is the one the user has put together: what he has
\* typed, behind the command that UP brought back if he began with that; whatever
\* he deleted from it and whatever earlier lines left in the buffer (input).
EchoFaithful == pc = "parse" /\ ~ recalled => Ends # {} /\ Text = shown

\* Where the words of a line begin: what get_tokens makes pointers of.
Words(line) ==
    {k \in DOMAIN line : line[k] \notin Delim /\ (k = 1 \/ line[k - 1] \in Delim)}

\* What it takes to run over the buffer or over cmd: a line that is itself too
\* long or has too many words, counting what UP brought back at its beginning
\* (which is the whole of a line without words, its end included); or UP and
\* DOWN behind other keys, which may have overwritten the 0 that ended the old
\* line.  Nothing that earlier lines or deleted text left in the buffer counts
\* otherwise (input, get_tokens).
OverrunNeedsCause ==
    pc = "overrun" =>
        \/ Len(shown) >= LINE - 1
        \/ Cardinality(Words(shown)) >= ARGS
        \/ recalled
        \/ typed /\ Ends = {}

\* As long as no other key is used, UP brings back the last command without its
\* arguments, or nothing once DOWN has gone to the empty first node: the buffer
\* was cut into words, and the commands that write to it leave the first word alone.
RecallsName ==
    [][up /\ pc' = "input" /\ n > 0 /\ ~ typed
          => Text' = name /\ index' = Len(name)]_vars

\* The nodes in the order of their links, and where the user is among them.
Chain == CHOOSE f \in [1 .. n + 1 -> 0 .. n] :
            f[1] = 0 /\ \A k \in 1 .. n : next[f[k]] = f[k + 1]
Cursor == CHOOSE k \in 1 .. n + 1 : Chain[k] = actual_node

\* The linked list is a history: no line is lost, the links agree both ways,
\* and UP and DOWN move by one entry.
Abstract == INSTANCE History WITH Line <- Node, entries <- Chain, cursor <- Cursor

\* Every key is one step of the history, or none (insert_after, next, prev).
KeepsHistory == Abstract!Spec

=============================================================================
