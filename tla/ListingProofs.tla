--------------------------- MODULE ListingProofs ----------------------------
(***************************************************************************)
(* What delete and list keep to, for every tree, every number of streams   *)
(* and whatever others do.                                                 *)
(***************************************************************************)
EXTENDS Listing, NumberLemmas, SequenceTheorems, TLAPS

-----------------------------------------------------------------------------
(* Stacks of calls and paths.                                              *)

\* The first n elements of s.
LEMMA FirstElements ==
    ASSUME NEW S, NEW s, NEW n \in Nat, \A i \in 1 .. n : s[i] \in S
    PROVE  /\ SubSeq(s, 1, n) \in Seq(S)
           /\ Len(SubSeq(s, 1, n)) = n
           /\ \A i \in 1 .. n : SubSeq(s, 1, n)[i] = s[i]
  OBVIOUS

\* The stack when the last call has returned.
LEMMA PopStack ==
    ASSUME NEW S, NEW s \in Seq(S), s # <<>>
    PROVE  /\ Front(s) \in Seq(S)
           /\ Len(s) \in Nat \ {0} /\ Len(Front(s)) = Len(s) - 1
           /\ DOMAIN Front(s) = 1 .. Len(s) - 1
           /\ \A i \in DOMAIN Front(s) : i \in DOMAIN s /\ Front(s)[i] = s[i]
           /\ s[Len(s)] \in S
<1>1. Len(s) \in Nat \ {0} /\ \A i \in 1 .. Len(s) : s[i] \in S
  BY EmptySeq, ElementOfSeq
<1>2. /\ SubSeq(s, 1, Len(s) - 1) \in Seq(S)
      /\ Len(SubSeq(s, 1, Len(s) - 1)) = Len(s) - 1
      /\ \A i \in 1 .. Len(s) - 1 : SubSeq(s, 1, Len(s) - 1)[i] = s[i]
  <2> DEFINE n == Len(s) - 1
  <2>1. n \in Nat /\ \A i \in 1 .. n : s[i] \in S
    BY <1>1
  <2>2. /\ SubSeq(s, 1, n) \in Seq(S) /\ Len(SubSeq(s, 1, n)) = n
        /\ \A i \in 1 .. n : SubSeq(s, 1, n)[i] = s[i]
    <3> HIDE DEF n
    <3> QED
      BY <2>1, FirstElements
  <2> QED
    BY <2>2
<1> QED
  BY <1>1, <1>2, LenProperties DEF Front

\* The stack when one more call is made.
LEMMA PushStack ==
    ASSUME NEW S, NEW s \in Seq(S), NEW x \in S
    PROVE  /\ Append(s, x) \in Seq(S)
           /\ Len(Append(s, x)) = Len(s) + 1
           /\ DOMAIN Append(s, x) = 1 .. Len(s) + 1
           /\ \A i \in DOMAIN Append(s, x) :
                 \/ i \in DOMAIN s /\ Append(s, x)[i] = s[i]
                 \/ i = Len(s) + 1 /\ Append(s, x)[i] = x
  BY AppendProperties, LenProperties

\* The stack when the last call goes on.
LEMMA ChangeTop ==
    ASSUME NEW S, NEW s \in Seq(S), s # <<>>, NEW x \in S
    PROVE  /\ Append(Front(s), x) \in Seq(S)
           /\ Append(Front(s), x) # <<>>
           /\ Len(Append(Front(s), x)) = Len(s)
           /\ \A i \in DOMAIN Append(Front(s), x) :
                 \/ i \in DOMAIN s /\ Append(Front(s), x)[i] = s[i]
                 \/ i = Len(s) /\ Append(Front(s), x)[i] = x
<1>1. /\ Front(s) \in Seq(S) /\ Len(Front(s)) = Len(s) - 1
      /\ \A i \in DOMAIN Front(s) : i \in DOMAIN s /\ Front(s)[i] = s[i]
      /\ Len(s) \in Nat \ {0}
  BY PopStack
<1>2. /\ Append(Front(s), x) \in Seq(S)
      /\ Len(Append(Front(s), x)) = Len(Front(s)) + 1
      /\ \A i \in DOMAIN Append(Front(s), x) :
            \/ i \in DOMAIN Front(s) /\ Append(Front(s), x)[i] = Front(s)[i]
            \/ i = Len(Front(s)) + 1 /\ Append(Front(s), x)[i] = x
  BY <1>1, PushStack
<1>3. Append(Front(s), x) # <<>>
  BY <1>1, AppendProperties
<1> QED
  BY <1>1, <1>2, <1>3

\* The stack when every call is told of a change.
LEMMA MapStack ==
    ASSUME NEW S, NEW s \in Seq(S), NEW g,
           g \in [DOMAIN s -> S]
    PROVE  g \in Seq(S) /\ Len(g) = Len(s) /\ (s = <<>> => g = <<>>)
<1>1. DOMAIN s = 1 .. Len(s) /\ Len(s) \in Nat
  BY LenProperties
<1>2. g \in Seq(S) /\ Len(g) = Len(s)
  BY <1>1
<1>3. s = <<>> => g = <<>>
  BY <1>1, <1>2, EmptySeq
<1> QED
  BY <1>2, <1>3

LEMMA PathIsSeq ==
    ASSUME NEW p \in Path
    PROVE  p \in Seq(STRING) /\ Len(p) \in Nat \ {0}
<1>1. p \in Seq(STRING) /\ p # <<>>
  BY ConstantsAssumption
<1> QED
  BY <1>1, EmptySeq

LEMMA PrefixIs ==
    ASSUME NEW s \in Seq(STRING), NEW t \in Seq(STRING)
    PROVE  IsPrefix(s, t) <=> Len(s) <= Len(t) /\ \A i \in 1 .. Len(s) : s[i] = t[i]
<1>1. /\ Len(s) \in Nat /\ Len(t) \in Nat
      /\ \A i \in 1 .. Len(s) : s[i] \in STRING
      /\ \A i \in 1 .. Len(t) : t[i] \in STRING
  BY LenProperties, ElementOfSeq
<1>2. ASSUME Len(s) <= Len(t)
      PROVE  SubSeq(s, 1, Len(s)) = SubSeq(t, 1, Len(s)) <=> \A i \in 1 .. Len(s) : s[i] = t[i]
  <2> DEFINE a == SubSeq(s, 1, Len(s))
             b == SubSeq(t, 1, Len(s))
  <2>1. /\ a \in Seq(STRING) /\ Len(a) = Len(s)
        /\ \A i \in 1 .. Len(s) : a[i] = s[i]
    BY <1>1, FirstElements
  <2>2. \A i \in 1 .. Len(s) : t[i] \in STRING
    BY <1>1, <1>2
  <2>3. /\ b \in Seq(STRING) /\ Len(b) = Len(s)
        /\ \A i \in 1 .. Len(s) : b[i] = t[i]
    BY <1>1, <2>2, FirstElements
  <2> HIDE DEF a, b
  <2>4. ASSUME \A i \in 1 .. Len(s) : s[i] = t[i]
        PROVE  a = b
    BY <2>1, <2>3, <2>4, SeqEqual
  <2>5. ASSUME a = b
        PROVE  \A i \in 1 .. Len(s) : s[i] = t[i]
    BY <2>1, <2>3, <2>5
  <2> QED
    BY <2>4, <2>5 DEF a, b
<1> QED
  BY <1>2 DEF IsPrefix

\* The directory of a path is one level above it, with the same names.
LEMMA ParentIs ==
    ASSUME NEW p \in Path
    PROVE  /\ p \in Seq(STRING) /\ Len(p) \in Nat \ {0}
           /\ Parent(p) \in Seq(STRING) /\ Len(Parent(p)) = Len(p) - 1
           /\ \A i \in 1 .. Len(p) - 1 : Parent(p)[i] = p[i]
           /\ Parent(p) # p
<1>1. /\ p \in Seq(STRING) /\ Len(p) \in Nat \ {0}
      /\ \A i \in 1 .. Len(p) : p[i] \in STRING
  BY PathIsSeq, ElementOfSeq
<1> DEFINE n == Len(p) - 1
<1>2. n \in Nat /\ \A i \in 1 .. n : p[i] \in STRING
  BY <1>1
<1>3. /\ SubSeq(p, 1, n) \in Seq(STRING) /\ Len(SubSeq(p, 1, n)) = n
      /\ \A i \in 1 .. n : SubSeq(p, 1, n)[i] = p[i]
  <2> HIDE DEF n
  <2> QED
    BY <1>2, FirstElements
<1>4. Parent(p) = SubSeq(p, 1, n)
  BY DEF Parent
<1> QED
  BY <1>1, <1>3, <1>4

\* A path of the same length as one it lies below is that path.
LEMMA SamePath ==
    ASSUME NEW t \in Path, NEW p \in Path, IsPrefix(t, p), Len(p) = Len(t)
    PROVE  p = t
<1>1. t \in Seq(STRING) /\ p \in Seq(STRING)
  BY PathIsSeq
<1>2. \A i \in 1 .. Len(t) : t[i] = p[i]
  BY <1>1, PrefixIs
<1> QED
  BY <1>1, <1>2, SeqEqual

\* A longer one lies in a directory that lies below it too, or is it.
LEMMA ParentBelow ==
    ASSUME NEW t \in Path, NEW p \in Path, IsPrefix(t, p), Len(p) # Len(t)
    PROVE  /\ Len(p) > Len(t) /\ Len(p) > 1
           /\ Parent(p) \in Path /\ IsPrefix(t, Parent(p))
           /\ Len(p) = Len(t) + 1 => Parent(p) = t
<1>1. t \in Seq(STRING) /\ Len(t) \in Nat \ {0}
  BY PathIsSeq
<1>2. /\ p \in Seq(STRING) /\ Len(p) \in Nat \ {0}
      /\ Parent(p) \in Seq(STRING) /\ Len(Parent(p)) = Len(p) - 1
      /\ \A i \in 1 .. Len(p) - 1 : Parent(p)[i] = p[i]
  BY ParentIs
<1>3. Len(t) <= Len(p) /\ \A i \in 1 .. Len(t) : t[i] = p[i]
  BY <1>1, <1>2, PrefixIs
<1>4. Len(p) > Len(t) /\ Len(p) > 1 /\ Len(t) <= Len(p) - 1
  BY <1>1, <1>2, <1>3
<1>5. Parent(p) \in Path
  BY <1>4, ConstantsAssumption
<1>6. \A i \in 1 .. Len(t) : i \in 1 .. Len(p) - 1 /\ t[i] = Parent(p)[i]
  BY <1>1, <1>2, <1>3, <1>4
<1>7. IsPrefix(t, Parent(p))
  BY <1>1, <1>2, <1>4, <1>6, PrefixIs
<1>8. Len(p) = Len(t) + 1 => Parent(p) = t
  BY <1>1, <1>2, <1>5, <1>7, SamePath
<1> QED
  BY <1>4, <1>5, <1>7, <1>8

\* What lies in a directory at or below t lies strictly below t.
LEMMA ChildBelow ==
    ASSUME NEW t \in Path, NEW p \in Path, IsPrefix(t, Parent(p))
    PROVE  IsPrefix(t, p) /\ IsStrictPrefix(t, p)
<1>1. /\ t \in Seq(STRING) /\ Len(t) \in Nat
      /\ p \in Seq(STRING) /\ Len(p) \in Nat \ {0}
      /\ Parent(p) \in Seq(STRING) /\ Len(Parent(p)) = Len(p) - 1
      /\ \A i \in 1 .. Len(p) - 1 : Parent(p)[i] = p[i]
  BY PathIsSeq, ParentIs
<1>2. Len(t) <= Len(Parent(p)) /\ \A i \in 1 .. Len(t) : t[i] = Parent(p)[i]
  BY <1>1, PrefixIs
<1>3. Len(t) <= Len(p) /\ Len(t) # Len(p) /\ \A i \in 1 .. Len(t) : t[i] = p[i]
  BY <1>1, <1>2
<1>4. IsPrefix(t, p)
  BY <1>1, <1>3, PrefixIs
<1> QED
  BY <1>3, <1>4 DEF IsStrictPrefix

\* What is strictly above a path is its directory or strictly above that.
LEMMA AboveParent ==
    ASSUME NEW d \in Path, NEW p \in Path, IsStrictPrefix(d, p)
    PROVE  Parent(p) \in Path /\ (d = Parent(p) \/ IsStrictPrefix(d, Parent(p)))
<1>1. IsPrefix(d, p) /\ d # p
  BY DEF IsStrictPrefix
<1>2. Len(p) # Len(d)
  BY <1>1, SamePath
<1>3. Parent(p) \in Path /\ IsPrefix(d, Parent(p))
  BY <1>1, <1>2, ParentBelow
<1> QED
  BY <1>3 DEF IsStrictPrefix

\* What lies in a directory that can be reached, and searched, can be reached.
LEMMA EntryDenied ==
    ASSUME NEW e \in Path, Denied(e), ~ Denied(Parent(e))
    PROVE  mode[Parent(e)] = "unsearchable"
<1>1. PICK d \in Path : IsStrictPrefix(d, e) /\ mode[d] = "unsearchable"
  BY DEF Denied
<1> QED
  BY <1>1, AboveParent DEF Denied

-----------------------------------------------------------------------------
(* delete: its calls are at or below the path it was given.                *)

\* At or below the path given, or below what a link has led one of the first
\* calls to.
Within(n, p) ==
    \/ IsPrefix(target, p)
    \/ \E j \in DOMAIN frames :
          j < n /\ Led(frames[j]) /\ IsStrictPrefix(frames[j].dir, p)

FrameBelow(i) ==
    /\ Within(i, frames[i].name)
    /\ \A e \in frames[i].unread : Parent(e[1]) = frames[i].dir

DeleteInv ==
    /\ TypeOK
    /\ pc = "prompt" => frames = <<>>
    /\ pc = "readdir" => frames # <<>>
    /\ pc # "prompt" => Within(Len(frames) + 1, path)
    /\ \A i \in DOMAIN frames : FrameBelow(i)

\* A call that stays where it was keeps what is within its reach.
LEMMA WithinStays ==
    ASSUME UNCHANGED target, NEW n, NEW p, Within(n, p),
           \A j \in DOMAIN frames : j < n =>
              /\ j \in DOMAIN frames'
              /\ frames'[j].name = frames[j].name /\ frames'[j].dir = frames[j].dir
    PROVE  Within(n, p)'
  BY DEF Within, Led

LEMMA PathStays ==
    ASSUME UNCHANGED target, NEW n, NEW p, Within(n, p), path' = p, Len(frames') + 1 = n,
           \A j \in DOMAIN frames : j < n =>
              /\ j \in DOMAIN frames'
              /\ frames'[j].name = frames[j].name /\ frames'[j].dir = frames[j].dir
    PROVE  Within(Len(frames) + 1, path)'
<1>1. Within(n, p)'
  BY WithinStays
<1> QED
  BY <1>1

\* Calls that stay where they were, whatever they have read since.
LEMMA CallsStay ==
    ASSUME DeleteInv, UNCHANGED target,
           \A i \in DOMAIN frames' :
              /\ i \in DOMAIN frames
              /\ frames'[i].name = frames[i].name /\ frames'[i].dir = frames[i].dir
              /\ \A e \in frames'[i].unread : Parent(e[1]) = frames[i].dir
              /\ \A j \in DOMAIN frames : j < i => j \in DOMAIN frames'
    PROVE  (\A i \in DOMAIN frames : FrameBelow(i))'
<1> SUFFICES ASSUME NEW i \in DOMAIN frames'
             PROVE  FrameBelow(i)'
  OBVIOUS
<1>1. i \in DOMAIN frames /\ FrameBelow(i)
  BY DEF DeleteInv
<1>2. PICK p : p = frames[i].name
  OBVIOUS
<1>3. Within(i, p)'
  BY <1>1, <1>2, WithinStays DEF FrameBelow
<1> QED
  BY <1>1, <1>2, <1>3 DEF FrameBelow

\* All calls but what they are yet to do stay the same.
LEMMA NotDueKeeps ==
    ASSUME TypeOK, NEW p
    PROVE  /\ NotDue(p) \in Seq(Frame)
           /\ DOMAIN NotDue(p) = DOMAIN frames
           /\ Len(NotDue(p)) = Len(frames)
           /\ (NotDue(p) = <<>>) <=> (frames = <<>>)
           /\ \A i \in DOMAIN NotDue(p) :
                 /\ i \in DOMAIN frames
                 /\ NotDue(p)[i].name = frames[i].name
                 /\ NotDue(p)[i].dir = frames[i].dir
                 /\ NotDue(p)[i].unread = frames[i].unread
<1>1. /\ frames \in Seq(Frame) /\ DOMAIN frames = 1 .. Len(frames) /\ Len(frames) \in Nat
      /\ \A i \in DOMAIN frames : frames[i] \in Frame
  BY ElementOfSeq, LenProperties DEF TypeOK
<1>2. NotDue(p) \in [DOMAIN frames -> Frame]
  BY <1>1 DEF NotDue, Frame
<1>3. NotDue(p) \in Seq(Frame) /\ Len(NotDue(p)) = Len(frames)
  BY <1>1, <1>2, MapStack
<1>4. (NotDue(p) = <<>>) <=> (frames = <<>>)
  BY <1>1, <1>3, EmptySeq
<1>5. ASSUME NEW i \in DOMAIN NotDue(p)
      PROVE  /\ i \in DOMAIN frames
             /\ NotDue(p)[i].name = frames[i].name
             /\ NotDue(p)[i].dir = frames[i].dir
             /\ NotDue(p)[i].unread = frames[i].unread
  BY <1>1, <1>5 DEF NotDue, Frame
<1> QED
  BY <1>2, <1>3, <1>4, <1>5

\* The last call, and the stack when it has returned.
LEMMA PopKeeps ==
    ASSUME DeleteInv, frames # <<>>
    PROVE  /\ Front(frames) \in Seq(Frame) /\ Len(Front(frames)) = Len(frames) - 1
           /\ Len(frames) \in Nat \ {0} /\ Len(frames) \in DOMAIN frames
           /\ \A i \in DOMAIN frames : i < Len(frames) => i \in DOMAIN Front(frames)
           /\ \A i \in DOMAIN Front(frames) :
                 /\ i \in DOMAIN frames /\ i < Len(frames)
                 /\ Front(frames)[i] = frames[i]
           /\ Top = frames[Len(frames)] /\ Top \in Frame
           /\ Top.name \in Path /\ Top.dir \in Path
           /\ Top.unread \subseteq Path \X Kind /\ Top.due \subseteq Path
           /\ FrameBelow(Len(frames))
<1>1. /\ Front(frames) \in Seq(Frame) /\ Len(Front(frames)) = Len(frames) - 1
      /\ Len(frames) \in Nat \ {0}
      /\ DOMAIN Front(frames) = 1 .. Len(frames) - 1
      /\ \A i \in DOMAIN Front(frames) :
            i \in DOMAIN frames /\ Front(frames)[i] = frames[i]
      /\ frames[Len(frames)] \in Frame
  BY PopStack DEF DeleteInv, TypeOK
<1>2. DOMAIN frames = 1 .. Len(frames)
  BY LenProperties DEF DeleteInv, TypeOK
<1>3. FrameBelow(Len(frames))
  BY <1>1, <1>2 DEF DeleteInv
<1> QED
  BY <1>1, <1>2, <1>3 DEF Top, Frame

\* The caller goes on with the directory of the call that returns.
LEMMA Returned ==
    ASSUME DeleteInv, frames # <<>>, UNCHANGED target,
           frames' = Front(frames), path' = Top.name
    PROVE  /\ Within(Len(frames) + 1, path)'
           /\ (\A i \in DOMAIN frames : FrameBelow(i))'
<1>1. PICK n, p : n = Len(frames) /\ p = Top.name
  OBVIOUS
<1>2. Within(n, p) /\ Len(frames') + 1 = n
  BY <1>1, PopKeeps DEF FrameBelow
<1>3. \A j \in DOMAIN frames : j < n =>
         /\ j \in DOMAIN frames'
         /\ frames'[j].name = frames[j].name /\ frames'[j].dir = frames[j].dir
  BY <1>1, PopKeeps
<1>4. Within(Len(frames) + 1, path)'
  BY <1>1, <1>2, <1>3, PathStays
<1>5. \A i \in DOMAIN frames' :
         /\ i \in DOMAIN frames
         /\ frames'[i].name = frames[i].name /\ frames'[i].dir = frames[i].dir
         /\ \A e \in frames'[i].unread : Parent(e[1]) = frames[i].dir
         /\ \A j \in DOMAIN frames : j < i => j \in DOMAIN frames'
  <2>1. DOMAIN frames = 1 .. Len(frames) /\ Len(frames) \in Nat
    BY LenProperties DEF DeleteInv, TypeOK
  <2> SUFFICES ASSUME NEW i \in DOMAIN frames'
               PROVE  /\ i \in DOMAIN frames
                      /\ frames'[i].name = frames[i].name /\ frames'[i].dir = frames[i].dir
                      /\ \A e \in frames'[i].unread : Parent(e[1]) = frames[i].dir
                      /\ \A j \in DOMAIN frames : j < i => j \in DOMAIN frames'
    OBVIOUS
  <2>2. i \in DOMAIN frames /\ i < Len(frames) /\ frames'[i] = frames[i]
    BY PopKeeps
  <2>3. \A e \in frames[i].unread : Parent(e[1]) = frames[i].dir
    BY <2>2 DEF DeleteInv, FrameBelow
  <2>4. \A j \in DOMAIN frames : j < i => j \in DOMAIN frames'
    BY <2>1, <2>2, PopKeeps
  <2> QED
    BY <2>2, <2>3, <2>4
<1>6. (\A i \in DOMAIN frames : FrameBelow(i))'
  BY <1>5, CallsStay
<1> QED
  BY <1>4, <1>6

\* A step that leaves the calls alone.
LEMMA CallsAlone ==
    ASSUME DeleteInv, UNCHANGED <<target, frames, path>>
    PROVE  /\ Within(Len(frames) + 1, path) => Within(Len(frames) + 1, path)'
           /\ (\A i \in DOMAIN frames : FrameBelow(i))'
  BY DEF DeleteInv, Within, FrameBelow

LEMMA GiveUpKeeps ==
    ASSUME DeleteInv, GiveUp, pc # "prompt", pc # "readdir"
    PROVE  DeleteInv'
<1>1. CASE frames = <<>>
  <2>1. /\ UNCHANGED <<kind, mode, frames, leaked, path, target, before, easy, meddled>>
        /\ said' = TRUE /\ pc' = "prompt"
    BY <1>1 DEF GiveUp, tree, streams, ghosts
  <2>2. TypeOK'
    BY <2>1 DEF DeleteInv, TypeOK
  <2> QED
    BY <1>1, <2>1, <2>2, CallsAlone DEF DeleteInv
<1>2. CASE frames # <<>>
  <2>1. /\ frames' = Front(frames) /\ leaked' = leaked + 1
        /\ path' = Top.name /\ pc' = "rmdir" /\ said' = TRUE
        /\ UNCHANGED <<kind, mode, target, before, easy, meddled>>
    BY <1>2 DEF GiveUp, tree, ghosts
  <2>2. TypeOK'
    <3>1. Len(frames') + leaked' <= MaxFds
      BY <1>2, <2>1, PopKeeps, ConstantsAssumption DEF DeleteInv, TypeOK
    <3> QED
      BY <1>2, <2>1, <3>1, PopKeeps DEF DeleteInv, TypeOK
  <2> QED
    BY <1>2, <2>1, <2>2, Returned DEF DeleteInv
<1> QED
  BY <1>1, <1>2

\* What is removed is due no longer; every call stays where it was.
LEMMA ForgetKeeps ==
    ASSUME DeleteInv, UNCHANGED <<target, path>>, NEW p, frames' = NotDue(p)
    PROVE  /\ pc # "prompt" => Within(Len(frames) + 1, path)'
           /\ (\A i \in DOMAIN frames : FrameBelow(i))'
<1>1. PICK n, q : n = Len(frames) + 1 /\ q = path
  OBVIOUS
<1>2. DOMAIN frames' = DOMAIN frames /\ Len(frames') = Len(frames)
  BY NotDueKeeps DEF DeleteInv
<1>3. \A i \in DOMAIN frames :
         /\ frames'[i].name = frames[i].name /\ frames'[i].dir = frames[i].dir
         /\ frames'[i].unread = frames[i].unread
  BY <1>2, NotDueKeeps DEF DeleteInv
<1>4. ASSUME pc # "prompt"
      PROVE  Within(Len(frames) + 1, path)'
  <2>1. Within(n, q)
    BY <1>1, <1>4 DEF DeleteInv
  <2>2. path' = q /\ Len(frames') + 1 = n
    BY <1>1, <1>2
  <2> QED
    BY <1>2, <1>3, <2>1, <2>2, PathStays
<1>5. \A i \in DOMAIN frames : \A e \in frames[i].unread : Parent(e[1]) = frames[i].dir
  BY DEF DeleteInv, FrameBelow
<1>6. (\A i \in DOMAIN frames : FrameBelow(i))'
  BY <1>2, <1>3, <1>5, CallsStay
<1> QED
  BY <1>4, <1>6

\* What is removed was no link that ought to be elsewhere.
LEMMA LinksStay ==
    ASSUME TypeOK, NEW p, NEW k \in {"none", "file", "dir"}, kind' = [kind EXCEPT ![p] = k]
    PROVE  /\ kind' \in [Path -> Kind \union {"none"}]
           /\ \A q \in Path : kind'[q] = "link" => q \in Links
  BY DEF TypeOK, Kind

\* The command goes on where it was.
LEMMA RemovedKeeps ==
    ASSUME DeleteInv, pc # "prompt", pc # "readdir",
           kind' = [kind EXCEPT ![path] = "none"], frames' = NotDue(path), Resume,
           UNCHANGED <<mode, leaked, path, said, ghosts>>
    PROVE  DeleteInv'
<1>1. pc' = (IF frames = <<>> THEN "prompt" ELSE "readdir") /\ UNCHANGED <<target, path>>
  BY DEF Resume, ghosts
<1>2. TypeOK'
  <2>1. /\ kind' \in [Path -> Kind \union {"none"}]
        /\ \A q \in Path : kind'[q] = "link" => q \in Links
    BY LinksStay DEF DeleteInv
  <2>2. frames' \in Seq(Frame) /\ Len(frames') = Len(frames)
    BY NotDueKeeps DEF DeleteInv
  <2> QED
    BY <1>1, <2>1, <2>2 DEF DeleteInv, TypeOK, ghosts
<1>3. PICK q : q = path
  OBVIOUS
<1>4. /\ Within(Len(frames) + 1, path)'
      /\ (\A i \in DOMAIN frames : FrameBelow(i))'
  BY <1>1, <1>3, ForgetKeeps
<1>5. (pc' = "prompt" => frames' = <<>>) /\ (pc' = "readdir" => frames' # <<>>)
  BY <1>1, NotDueKeeps DEF DeleteInv
<1> QED
  BY <1>2, <1>4, <1>5 DEF DeleteInv

LEMMA DeleteKeeps ==
    ASSUME DeleteInv, NEW p \in Path, NEW r \in BOOLEAN, delete(p, r)
    PROVE  DeleteInv'
<1>1. frames = <<>> /\ UNCHANGED <<kind, mode, frames, leaked>>
  BY DEF delete, DeleteInv, tree, streams
<1>2. IsPrefix(p, p)
  BY PathIsSeq DEF IsPrefix
<1>3. /\ path' = p /\ target' = p /\ before' = leaked /\ meddled' = 0
      /\ pc' \in {"prompt", "opendir", "directory_empty", "unlink"}
      /\ said' \in BOOLEAN /\ easy' \in BOOLEAN
  BY DEF delete
<1>4. TypeOK'
  BY <1>1, <1>3, ConstantsAssumption DEF DeleteInv, TypeOK
<1>5. DOMAIN frames' = {}
  BY <1>1
<1>6. Within(Len(frames) + 1, path)'
  BY <1>2, <1>3 DEF Within
<1> QED
  BY <1>1, <1>3, <1>4, <1>5, <1>6 DEF DeleteInv

\* A link leads to a path, and so does any other path: to itself.
LEMMA WhereIs ==
    ASSUME TypeOK, NEW p \in Path
    PROVE  Where(p) \in Path /\ (kind[p] # "link" => Where(p) = p)
  BY ConstantsAssumption DEF TypeOK, Where

LEMMA opendirKeeps ==
    ASSUME DeleteInv, opendir
    PROVE  DeleteInv'
<1> DEFINE new == [name |-> path, dir |-> Where(path),
                   unread |-> {<<p, kind[p]>> : p \in Entries(Where(path))},
                   due |-> Entries(Where(path))]
<1>1. CASE FreeFd /\ frames' = Append(frames, new) /\ pc' = "readdir" /\ UNCHANGED said
  <2>1. /\ UNCHANGED <<kind, mode, leaked, path, target, before, easy, meddled>>
        /\ Within(Len(frames) + 1, path)
    BY DEF opendir, DeleteInv, tree, ghosts
  <2>2. new \in Frame
    <3>1. Where(path) \in Path /\ path \in Path
      BY WhereIs DEF DeleteInv, TypeOK
    <3>2. Entries(Where(path)) \subseteq Path
      BY DEF Entries
    <3>3. {<<p, kind[p]>> : p \in Entries(Where(path))} \subseteq Path \X Kind
      BY DEF Entries, DeleteInv, TypeOK
    <3> QED
      BY <3>1, <3>2, <3>3 DEF Frame
  <2>3. /\ new.name = path /\ new.dir = Where(path)
        /\ \A e \in new.unread : Parent(e[1]) = Where(path)
    BY DEF Entries
  <2>4. /\ frames' \in Seq(Frame) /\ Len(frames') = Len(frames) + 1
        /\ Len(frames) \in Nat /\ DOMAIN frames = 1 .. Len(frames)
        /\ DOMAIN frames' = 1 .. Len(frames) + 1
        /\ \A i \in DOMAIN frames' :
              \/ i \in DOMAIN frames /\ frames'[i] = frames[i]
              \/ i = Len(frames) + 1 /\ frames'[i] = new
    <3> HIDE DEF new
    <3> QED
      BY <1>1, <2>2, PushStack, LenProperties DEF DeleteInv, TypeOK
  <2> HIDE DEF new
  <2>5. TypeOK'
    <3>1. Len(frames') + leaked' <= MaxFds
      BY <1>1, <2>1, <2>4, ConstantsAssumption DEF DeleteInv, TypeOK, FreeFd
    <3> QED
      BY <1>1, <2>1, <2>4, <3>1 DEF DeleteInv, TypeOK
  <2>6. frames' # <<>>
    BY <2>4, EmptySeq
  <2>7. PICK n, q : n = Len(frames) + 1 /\ q = path
    OBVIOUS
  <2>8. \A j \in DOMAIN frames : j \in DOMAIN frames' /\ frames'[j] = frames[j]
    BY <2>4
  <2>9. Within(n, q)'
    BY <2>1, <2>7, <2>8, WithinStays
  <2>10. ASSUME NEW i \in DOMAIN frames'
         PROVE  FrameBelow(i)'
    <3>1. CASE i \in DOMAIN frames
      <4>1. PICK p : p = frames[i].name
        OBVIOUS
      <4>2. Within(i, p) /\ \A e \in frames[i].unread : Parent(e[1]) = frames[i].dir
        BY <3>1, <4>1 DEF DeleteInv, FrameBelow
      <4>3. Within(i, p)'
        BY <2>1, <2>8, <4>2, WithinStays
      <4> QED
        BY <2>8, <3>1, <4>1, <4>2, <4>3 DEF FrameBelow
    <3>2. CASE i \notin DOMAIN frames
      <4>1. i = n /\ frames'[i] = new
        BY <2>4, <2>7, <3>2
      <4> QED
        BY <2>3, <2>7, <2>9, <4>1 DEF FrameBelow
    <3> QED
      BY <3>1, <3>2
  <2>11. Within(Len(frames) + 1, path)'
    <3>1. CASE IsPrefix(target, path)
      BY <2>1, <3>1 DEF Within
    <3>2. CASE ~ IsPrefix(target, path)
      <4>1. PICK j \in DOMAIN frames :
               Led(frames[j]) /\ IsStrictPrefix(frames[j].dir, path)
        BY <2>1, <3>2 DEF Within
      <4>2. j \in DOMAIN frames' /\ frames'[j] = frames[j] /\ j < Len(frames') + 1
        BY <2>4, <2>8
      <4> QED
        BY <2>1, <4>1, <4>2 DEF Within, Led
    <3> QED
      BY <3>1, <3>2
  <2> QED
    BY <1>1, <2>5, <2>6, <2>10, <2>11 DEF DeleteInv
<1>2. CASE UNCHANGED frames /\ pc' = "rmdir" /\ said' = TRUE
  <2>1. UNCHANGED <<kind, mode, leaked, path, target, before, easy, meddled>>
    BY DEF opendir, tree, ghosts
  <2>2. TypeOK'
    BY <1>2, <2>1 DEF DeleteInv, TypeOK
  <2>3. pc # "prompt"
    BY DEF opendir
  <2> QED
    BY <1>2, <2>1, <2>2, <2>3, CallsAlone DEF DeleteInv
<1> QED
  BY <1>1, <1>2 DEF opendir, Opens

\* An entry of the directory of the last call lies within its reach.
LEMMA EntryWithin ==
    ASSUME DeleteInv, frames # <<>>, NEW p \in Path, Parent(p) = Top.dir
    PROVE  Within(Len(frames) + 1, p)
<1>1. /\ Len(frames) \in Nat /\ Len(frames) \in DOMAIN frames /\ Top = frames[Len(frames)]
      /\ Top.dir \in Path /\ Within(Len(frames), Top.name)
      /\ \A i \in DOMAIN frames : frames[i].dir \in Path /\ i \in Nat
  <2>1. \A i \in DOMAIN frames : frames[i] \in Frame /\ i \in Nat
    BY ElementOfSeq, LenProperties DEF DeleteInv, TypeOK
  <2> QED
    BY <2>1, PopKeeps DEF FrameBelow, Frame
<1>2. CASE Led(Top)
  <2>1. IsPrefix(Top.dir, Parent(p))
    BY <1>1, PathIsSeq DEF IsPrefix
  <2>2. IsStrictPrefix(Top.dir, p)
    BY <1>1, <2>1, ChildBelow
  <2> QED
    BY <1>1, <1>2, <2>2 DEF Within
<1>3. CASE ~ Led(Top) /\ IsPrefix(target, Top.dir)
  BY <1>3, ChildBelow DEF Within, DeleteInv, TypeOK
<1>4. CASE ~ Led(Top) /\ ~ IsPrefix(target, Top.dir)
  <2>1. Top.name = Top.dir
    BY <1>4 DEF Led
  <2>2. PICK j \in DOMAIN frames :
           j < Len(frames) /\ Led(frames[j]) /\ IsStrictPrefix(frames[j].dir, Parent(p))
    BY <1>1, <1>4, <2>1 DEF Within
  <2>3. IsStrictPrefix(frames[j].dir, p)
    BY <1>1, <2>2, ChildBelow DEF IsStrictPrefix
  <2>4. j < Len(frames) + 1
    BY <1>1, <2>2
  <2> QED
    BY <2>2, <2>3, <2>4 DEF Within
<1> QED
  BY <1>2, <1>3, <1>4

LEMMA readdirKeeps ==
    ASSUME DeleteInv, NEW e \in Path \X Kind, readdir(e)
    PROVE  DeleteInv'
<1> DEFINE new == [Top EXCEPT !.unread = {x \in @ : x[1] # e[1]}, !.due = @ \ {e[1]}]
<1>1. /\ frames # <<>> /\ e \in Top.unread
      /\ frames' = Append(Front(frames), new)
      /\ path' = e[1] /\ e[1] \in Path
      /\ pc' \in {"directory_empty", "unlink"}
      /\ UNCHANGED <<kind, mode, leaked, said, target, before, easy, meddled>>
  BY DEF readdir, DeleteInv, tree, ghosts
<1>2. /\ Top \in Frame /\ Top = frames[Len(frames)]
      /\ \A x \in Top.unread : Parent(x[1]) = Top.dir
  BY <1>1, PopKeeps DEF FrameBelow
<1>3. /\ new \in Frame /\ new.name = Top.name /\ new.dir = Top.dir
      /\ new.unread \subseteq Top.unread
  BY <1>2 DEF Frame
<1> HIDE DEF new
<1>4. /\ frames' \in Seq(Frame) /\ frames' # <<>> /\ Len(frames') = Len(frames)
      /\ \A i \in DOMAIN frames' :
            \/ i \in DOMAIN frames /\ frames'[i] = frames[i]
            \/ i = Len(frames) /\ frames'[i] = new
  BY <1>1, <1>3, ChangeTop DEF DeleteInv, TypeOK
<1>5. DOMAIN frames' = DOMAIN frames
  BY <1>4, LenProperties DEF DeleteInv, TypeOK
<1>6. \A i \in DOMAIN frames :
         /\ frames'[i].name = frames[i].name /\ frames'[i].dir = frames[i].dir
         /\ frames'[i].unread \subseteq frames[i].unread
  BY <1>2, <1>3, <1>4, <1>5
<1>7. Within(Len(frames) + 1, path)'
  <2>1. PICK n, q : n = Len(frames) + 1 /\ q = e[1]
    OBVIOUS
  <2>2. Within(n, q)
    BY <1>1, <1>2, <2>1, EntryWithin
  <2>3. path' = q /\ Len(frames') + 1 = n
    BY <1>1, <1>4, <2>1
  <2> QED
    BY <1>1, <1>5, <1>6, <2>2, <2>3, PathStays
<1>8. (\A i \in DOMAIN frames : FrameBelow(i))'
  <2>1. \A i \in DOMAIN frames : \A x \in frames[i].unread : Parent(x[1]) = frames[i].dir
    BY DEF DeleteInv, FrameBelow
  <2>2. \A i \in DOMAIN frames : \A x \in frames'[i].unread : Parent(x[1]) = frames[i].dir
    BY <1>6, <2>1
  <2> QED
    BY <1>1, <1>5, <1>6, <2>2, CallsStay
<1>9. TypeOK'
  BY <1>1, <1>4 DEF DeleteInv, TypeOK
<1> QED
  BY <1>1, <1>4, <1>7, <1>8, <1>9 DEF DeleteInv

LEMMA closedirKeeps ==
    ASSUME DeleteInv, closedir
    PROVE  DeleteInv'
<1>1. /\ frames # <<>> /\ frames' = Front(frames)
      /\ path' = Top.name /\ pc' = "rmdir"
      /\ UNCHANGED <<kind, mode, leaked, said, target, before, easy, meddled>>
  BY DEF closedir, DeleteInv, tree, ghosts
<1>2. TypeOK'
  BY <1>1, PopKeeps, ConstantsAssumption DEF DeleteInv, TypeOK
<1> QED
  BY <1>1, <1>2, Returned DEF DeleteInv

LEMMA directory_emptyKeeps ==
    ASSUME DeleteInv, directory_empty
    PROVE  DeleteInv'
<1>1. /\ pc' \in {"rmdir", "opendir", "prompt"} /\ (pc' = "prompt" => frames = <<>>)
      /\ said' \in BOOLEAN /\ pc # "prompt"
      /\ UNCHANGED <<kind, mode, frames, leaked, path, target, before, easy, meddled>>
  BY DEF directory_empty, DeleteInv, TypeOK, tree, streams, ghosts
<1>2. TypeOK'
  BY <1>1 DEF DeleteInv, TypeOK
<1> QED
  BY <1>1, <1>2, CallsAlone DEF DeleteInv

\* Every step of delete keeps it.
LEMMA ShellKeeps ==
    ASSUME DeleteInv, Shell
    PROVE  DeleteInv'
<1>1. CASE unlink
  BY <1>1, RemovedKeeps, GiveUpKeeps DEF unlink
<1>2. CASE rmdir
  BY <1>2, RemovedKeeps, GiveUpKeeps DEF rmdir
<1> QED
  BY <1>1, <1>2, opendirKeeps, readdirKeeps, closedirKeeps, directory_emptyKeeps DEF Shell

\* And so does everything others do.
LEMMA MakeKeeps ==
    ASSUME DeleteInv, NEW p \in Path, NEW k \in Kind, Make(p, k)
    PROVE  DeleteInv'
<1>1. /\ frames \in Seq(Frame) /\ DOMAIN frames = 1 .. Len(frames)
      /\ \A i \in DOMAIN frames : frames[i] \in Frame
  BY ElementOfSeq, LenProperties DEF DeleteInv, TypeOK
<1>2. frames' \in [DOMAIN frames -> Frame]
  <2>1. ASSUME NEW i \in DOMAIN frames
        PROVE  [frames[i] EXCEPT !.unread = @ \union {<<p, k>>}] \in Frame
    BY <1>1 DEF Frame
  <2> QED
    BY <1>1, <2>1 DEF Make
<1>3. /\ frames' \in Seq(Frame) /\ Len(frames') = Len(frames)
      /\ DOMAIN frames' = DOMAIN frames
      /\ frames = <<>> => frames' = <<>>
      /\ frames # <<>> => frames' # <<>>
  BY <1>1, <1>2, MapStack, EmptySeq
<1>4. /\ UNCHANGED <<mode, leaked, pc, path, said, target, before, easy>>
      /\ meddled' \in 0 .. MaxMeddle
      /\ kind' = [kind EXCEPT ![p] = k] /\ (k = "link" => p \in Links)
  <2>1. Meddle /\ meddled \in 0 .. MaxMeddle
    BY DEF Make, DeleteInv, TypeOK
  <2>2. meddled' \in 0 .. MaxMeddle
    BY <2>1, ConstantsAssumption DEF Meddle
  <2> QED
    BY <2>1, <2>2 DEF Make, Meddle
<1>5. TypeOK'
  <2>1. /\ kind' \in [Path -> Kind \union {"none"}]
        /\ \A q \in Path : kind'[q] = "link" => q \in Links
    BY <1>4 DEF DeleteInv, TypeOK
  <2> QED
    BY <1>3, <1>4, <2>1 DEF DeleteInv, TypeOK
<1>6. ASSUME NEW i \in DOMAIN frames
      PROVE  /\ frames'[i].name = frames[i].name /\ frames'[i].dir = frames[i].dir
             /\ \A e \in frames'[i].unread : Parent(e[1]) = frames[i].dir
  <2>1. frames[i] \in Frame /\ \A e \in frames[i].unread : Parent(e[1]) = frames[i].dir
    BY <1>1, <1>6 DEF DeleteInv, FrameBelow
  <2>2. frames'[i].name = frames[i].name /\ frames'[i].dir = frames[i].dir
    BY <1>6, <2>1 DEF Make, Frame
  <2>3. \/ frames'[i].unread = frames[i].unread
        \/ /\ frames'[i].unread = frames[i].unread \union {<<p, k>>}
           /\ Parent(p) = frames[i].dir
    BY <1>6, <2>1 DEF Make, Frame
  <2> QED
    BY <2>1, <2>2, <2>3
<1>7. (\A i \in DOMAIN frames : FrameBelow(i))'
  BY <1>3, <1>4, <1>6, CallsStay
<1>8. ASSUME pc # "prompt"
      PROVE  Within(Len(frames) + 1, path)'
  <2>1. PICK n, q : n = Len(frames) + 1 /\ q = path
    OBVIOUS
  <2>2. Within(n, q)
    BY <1>8, <2>1 DEF DeleteInv
  <2>3. path' = q /\ Len(frames') + 1 = n /\ UNCHANGED target
    BY <1>3, <1>4, <2>1
  <2>4. \A j \in DOMAIN frames : j < n =>
           /\ j \in DOMAIN frames'
           /\ frames'[j].name = frames[j].name /\ frames'[j].dir = frames[j].dir
    BY <1>3, <1>6
  <2> QED
    BY <2>2, <2>3, <2>4, PathStays
<1> QED
  BY <1>3, <1>4, <1>5, <1>7, <1>8 DEF DeleteInv

LEMMA UnmakeKeeps ==
    ASSUME DeleteInv, NEW p \in Path, Unmake(p)
    PROVE  DeleteInv'
<1>1. /\ frames' = NotDue(p) /\ kind' = [kind EXCEPT ![p] = "none"]
      /\ UNCHANGED <<mode, leaked, pc, path, said, target, before, easy>>
      /\ meddled' \in 0 .. MaxMeddle
  <2>1. Meddle /\ meddled \in 0 .. MaxMeddle
    BY DEF Unmake, DeleteInv, TypeOK
  <2>2. meddled' \in 0 .. MaxMeddle
    BY <2>1, ConstantsAssumption DEF Meddle
  <2> QED
    BY <2>1, <2>2 DEF Unmake, Meddle
<1>2. TypeOK'
  <2>1. /\ kind' \in [Path -> Kind \union {"none"}]
        /\ \A q \in Path : kind'[q] = "link" => q \in Links
    BY <1>1, LinksStay DEF DeleteInv
  <2>2. frames' \in Seq(Frame) /\ Len(frames') = Len(frames)
    BY <1>1, NotDueKeeps DEF DeleteInv
  <2> QED
    BY <1>1, <2>1, <2>2 DEF DeleteInv, TypeOK
<1>3. frames' = <<>> <=> frames = <<>>
  BY <1>1, NotDueKeeps DEF DeleteInv
<1> QED
  BY <1>1, <1>2, <1>3, ForgetKeeps DEF DeleteInv

-----------------------------------------------------------------------------
(* list: what it still has to see is there unless something was removed.   *)

Apart ==
    /\ lpc # "prompt" => pc = "prompt"
    /\ lpc = "prompt" => walks = <<>> /\ ~ res
    /\ lpc \in {"readdir", "query_file"} => walks # <<>>
    /\ lpc \in {"opendir", "query_file"} => fn \in Path

Standing(w) ==
    /\ kind[w.name] # "none" /\ ~ Denied(w.name)
    /\ w.dir = Where(w.name) /\ kind[w.dir] = "dir" /\ ~ Denied(w.dir)
    /\ \A e \in w.unread : kind[e] # "none" /\ Parent(e) = w.dir

\* What may end the shell, when nothing is removed, lies with the operand.
Unharmed ==
    lpc # "prompt" /\ ~ gone =>
        /\ \A i \in DOMAIN walks : Standing(walks[i])
        /\ walks # <<>> => walks[1].name = operand
        /\ lpc = "opendir" =>
              /\ kind[fn] # "none" /\ ~ Denied(fn)
              /\ kind[Where(fn)] = "dir" /\ ~ Denied(Where(fn))
              /\ walks = <<>> => fn = operand
        /\ lpc = "query_file" => kind[fn] # "none" /\ ~ Denied(fn)
        /\ res /\ lpc # "exited" => walks # <<>> /\ mode[walks[1].dir] = "unsearchable"
        /\ lpc = "readdir" /\ errno => mode[Here.dir] = "unsearchable"
        /\ lpc = "exited" => leaked = MaxFds \/ mode[Where(operand)] \in Closed

ListInv == DeleteInv /\ ListTypeOK /\ Apart /\ Unharmed

LEMMA ListInitInv == ListInit => ListInv
<1> SUFFICES ASSUME ListInit
             PROVE  ListInv
  OBVIOUS
<1>1. /\ frames = <<>> /\ leaked = 0 /\ pc = "prompt" /\ path \in Path /\ target \in Path
      /\ lpc = "prompt" /\ walks = <<>>
  BY ConstantsAssumption DEF ListInit, Init
<1>2. TypeOK
  <2>1. <<>> \in Seq(Frame) /\ Len(<<>>) = 0
    BY EmptySeq
  <2>2. /\ mode \in Modes /\ kind \in [Path -> Kind \union {"none"}]
        /\ \A p \in Path : kind[p] = "link" => p \in Links
    BY DEF ListInit, Init
  <2>3. said \in BOOLEAN /\ easy \in BOOLEAN /\ before = 0 /\ meddled = 0
    BY DEF ListInit, Init
  <2> QED
    BY <1>1, <2>1, <2>2, <2>3, ConstantsAssumption DEF TypeOK
<1>3. DeleteInv
  <2>1. DOMAIN frames = {}
    BY <1>1
  <2> QED
    BY <1>1, <1>2, <2>1 DEF DeleteInv
<1>4. ListTypeOK
  <2>1. <<>> \in Seq(Walk) /\ Len(<<>>) = 0
    BY EmptySeq
  <2>2. /\ res \in BOOLEAN /\ errno \in BOOLEAN /\ warned \in BOOLEAN /\ gone \in BOOLEAN
        /\ operand = NoPath /\ fn = NoPath /\ listed = {} /\ lmeddled = 0
    BY DEF ListInit
  <2> QED
    BY <1>1, <1>2, <2>1, <2>2, ConstantsAssumption DEF ListTypeOK
<1> QED
  BY <1>1, <1>3, <1>4 DEF ListInv, Apart, Unharmed, ListInit

\* While list is under way delete has no calls.
LEMMA WalkAlone ==
    ASSUME ListInv, lpc # "prompt"
    PROVE  frames = <<>> /\ Len(frames) = 0
  BY EmptySeq DEF ListInv, Apart, DeleteInv

LEMMA DeleteAlone ==
    ASSUME ListInv, UNCHANGED vars
    PROVE  DeleteInv' /\ TypeOK'
<1>1. UNCHANGED <<kind, mode, frames, leaked, pc, path, said, target, before, easy, meddled>>
  BY DEF vars, tree, streams, ghosts
<1>2. TypeOK'
  BY <1>1 DEF ListInv, DeleteInv, TypeOK
<1>3. /\ Within(Len(frames) + 1, path) => Within(Len(frames) + 1, path)'
      /\ (\A i \in DOMAIN frames : FrameBelow(i))'
  BY <1>1, CallsAlone DEF ListInv
<1> QED
  BY <1>1, <1>2, <1>3 DEF ListInv, DeleteInv

LEMMA DeniedSame ==
    ASSUME UNCHANGED mode, NEW p
    PROVE  Denied(p)' <=> Denied(p)
  BY DEF Denied

LEMMA StandingSame ==
    ASSUME UNCHANGED <<kind, mode>>, NEW w
    PROVE  Standing(w)' <=> Standing(w)
  BY DeniedSame DEF Standing, Where

\* The directories of the calls are where they were while nothing is removed.
LEMMA LooksIs ==
    ASSUME ListInv, lpc # "prompt", ~ gone, NEW p
    PROVE  Looks(p) <=> kind[p] # "none" /\ ~ Denied(p)
<1>1. ASSUME NEW i \in DOMAIN walks, Led(walks[i])
      PROVE  kind[walks[i].name] = "link"
  BY <1>1 DEF ListInv, Unharmed, Standing, Where, Led
<1> QED
  BY <1>1 DEF Looks

LEMMA query_fileKeeps ==
    ASSUME ListInv, query_file, UNCHANGED vars
    PROVE  ListInv'
<1>1. /\ lpc = "query_file" /\ lpc' = "readdir"
      /\ UNCHANGED <<operand, walks, fn, res, lmeddled, gone, kind, mode, pc, frames, leaked>>
      /\ fn \in Path /\ listed' \subseteq Path /\ errno' \in BOOLEAN /\ warned' \in BOOLEAN
      /\ Looks(fn) => ~ errno'
  BY DEF query_file, lghosts, ListInv, ListTypeOK, Apart, vars, tree, streams
<1>2. DeleteInv' /\ TypeOK'
  BY DeleteAlone
<1>3. ListTypeOK'
  BY <1>1, <1>2 DEF ListInv, ListTypeOK
<1>4. Apart'
  BY <1>1 DEF ListInv, Apart
<1>5. Unharmed'
  <2> SUFFICES ASSUME ~ gone
               PROVE  Unharmed'
    BY <1>1 DEF Unharmed
  <2>1. ~ errno'
    BY <1>1, LooksIs DEF ListInv, Unharmed
  <2>2. (\A i \in DOMAIN walks : Standing(walks[i]))'
    BY <1>1, StandingSame DEF ListInv, Unharmed
  <2> QED
    BY <1>1, <2>1, <2>2 DEF ListInv, Unharmed
<1> QED
  BY <1>2, <1>3, <1>4, <1>5 DEF ListInv

LEMMA walk_opendirKeeps ==
    ASSUME ListInv, walk_opendir, UNCHANGED vars
    PROVE  ListInv'
<1> DEFINE new == [name |-> fn, dir |-> Where(fn),
                   unread |-> Entries(Where(fn)), due |-> Entries(Where(fn))]
<1>1. /\ lpc = "opendir" /\ fn \in Path /\ Len(frames) = 0
      /\ walks \in Seq(Walk) /\ Len(walks) \in Nat /\ leaked \in Nat
      /\ UNCHANGED <<operand, fn, res, listed, lmeddled, gone, kind, mode, leaked, pc, frames>>
  BY WalkAlone, LenProperties
     DEF walk_opendir, lghosts, ListInv, ListTypeOK, TypeOK, Apart, vars, tree, streams
<1>2. DeleteInv' /\ TypeOK'
  BY DeleteAlone
<1>3. CASE WalkOpens(fn) /\ walks' = Append(walks, new) /\ errno' = FALSE /\ lpc' = "readdir"
           /\ UNCHANGED warned
  <2>1. new \in Walk
    <3>1. Where(fn) \in Path
      BY <1>1, WhereIs DEF ListInv, DeleteInv
    <3>2. Entries(Where(fn)) \subseteq Path
      BY DEF Entries
    <3> QED
      BY <1>1, <3>1, <3>2 DEF Walk
  <2>2. new.name = fn /\ (~ gone => Standing(new))
    BY <1>1 DEF Entries, Standing, ListInv, Unharmed
  <2>3. /\ walks' \in Seq(Walk) /\ walks' # <<>> /\ Len(walks') = Len(walks) + 1
        /\ DOMAIN walks' = 1 .. Len(walks) + 1 /\ DOMAIN walks = 1 .. Len(walks)
        /\ \A i \in DOMAIN walks' :
              \/ i \in DOMAIN walks /\ walks'[i] = walks[i]
              \/ i = Len(walks) + 1 /\ walks'[i] = new
    <3> HIDE DEF new
    <3> QED
      BY <1>1, <1>3, <2>1, PushStack, AppendProperties, LenProperties
  <2> HIDE DEF new
  <2>4. Len(walks') + Len(frames') + leaked' <= MaxFds
    BY <1>1, <1>3, <2>3, ConstantsAssumption DEF WalkOpens
  <2>5. ListTypeOK'
    BY <1>1, <1>2, <1>3, <2>3, <2>4 DEF ListInv, ListTypeOK
  <2>6. Unharmed'
    <3> SUFFICES ASSUME ~ gone
                 PROVE  Unharmed'
      BY <1>1 DEF Unharmed
    <3>1. \A i \in DOMAIN walks' : Standing(walks'[i])
      BY <1>1, <2>2, <2>3 DEF ListInv, Unharmed
    <3>2. (\A i \in DOMAIN walks : Standing(walks[i]))'
      BY <1>1, <3>1, StandingSame
    <3>3. walks'[1].name = operand /\ (walks # <<>> => walks'[1] = walks[1])
      <4>1. CASE walks = <<>>
        <5>1. Len(walks) = 0
          BY <4>1, EmptySeq
        <5>2. walks'[1] = new
          BY <2>3, <5>1
        <5> QED
          BY <1>1, <2>2, <4>1, <5>2 DEF ListInv, Unharmed
      <4>2. CASE walks # <<>>
        <5>1. 1 \in 1 .. Len(walks)
          BY <1>1, <4>2, EmptySeq
        <5>2. walks'[1] = walks[1]
          BY <1>1, <2>3, <5>1
        <5> QED
          BY <1>1, <4>2, <5>2 DEF ListInv, Unharmed
      <4> QED
        BY <4>1, <4>2
    <3> QED
      BY <1>1, <1>3, <2>3, <3>2, <3>3 DEF ListInv, Unharmed
  <2> QED
    BY <1>1, <1>2, <1>3, <2>3, <2>5, <2>6 DEF ListInv, Apart
<1>4. CASE ~ WalkOpens(fn) /\ warned' = TRUE /\ errno' = TRUE /\ UNCHANGED walks
           /\ lpc' = IF walks = <<>> THEN "exited" ELSE "query_file"
  <2>1. ~ gone /\ walks = <<>> => leaked = MaxFds \/ mode[Where(operand)] \in Closed
    <3> SUFFICES ASSUME ~ gone, walks = <<>>, mode[Where(operand)] \notin Closed
                 PROVE  leaked = MaxFds
      OBVIOUS
    <3>1. /\ fn = operand /\ kind[fn] # "none" /\ ~ Denied(fn)
          /\ kind[Where(fn)] = "dir" /\ ~ Denied(Where(fn))
      BY <1>1 DEF ListInv, Unharmed
    <3>2. Looks(fn) /\ Looks(Where(fn))
      BY <1>1, <3>1, LooksIs
    <3>3. isDirectory(fn) /\ mode[Where(fn)] # "unreadable"
      BY <3>1, <3>2 DEF isDirectory, Closed
    <3>4. ~ (Len(walks) + leaked < MaxFds)
      BY <1>4, <3>3 DEF WalkOpens
    <3>5. Len(<<>>) = 0
      BY EmptySeq
    <3> QED
      BY <1>1, <3>4, <3>5, ConstantsAssumption DEF ListInv, ListTypeOK
  <2>2. ListTypeOK'
    BY <1>1, <1>2, <1>4 DEF ListInv, ListTypeOK
  <2>3. Unharmed'
    <3> SUFFICES ASSUME ~ gone
                 PROVE  Unharmed'
      BY <1>1 DEF Unharmed
    <3>1. (\A i \in DOMAIN walks : Standing(walks[i]))'
      BY <1>1, <1>4, StandingSame DEF ListInv, Unharmed
    <3>2. walks = <<>> => (leaked = MaxFds \/ mode[Where(operand)] \in Closed)'
      BY <1>1, <2>1 DEF Where
    <3>3. kind'[fn'] # "none" /\ ~ Denied(fn)'
      BY <1>1 DEF ListInv, Unharmed, Denied
    <3> QED
      BY <1>1, <1>4, <3>1, <3>2, <3>3 DEF ListInv, Unharmed
  <2> QED
    BY <1>1, <1>2, <1>4, <2>2, <2>3 DEF ListInv, Apart
<1> QED
  BY <1>3, <1>4 DEF walk_opendir

\* The last call of list.
LEMMA HereIs ==
    ASSUME ListInv, walks # <<>>
    PROVE  /\ Here \in Walk /\ Here = walks[Len(walks)]
           /\ Len(walks) \in DOMAIN walks /\ Len(walks) \in Nat \ {0}
           /\ lpc # "prompt" /\ ~ gone => Standing(Here)
<1>1. walks \in Seq(Walk)
  BY DEF ListInv, ListTypeOK
<1>2. Len(walks) \in DOMAIN walks /\ walks[Len(walks)] \in Walk /\ Len(walks) \in Nat \ {0}
  BY <1>1, PopStack, LenProperties
<1> QED
  BY <1>2 DEF Here, ListInv, Unharmed

\* An entry that is still there is not found only if its directory cannot be
\* searched.
LEMMA NotLooked ==
    ASSUME ListInv, lpc = "readdir", ~ gone, NEW e \in Here.unread, e \in Path, ~ Looks(e)
    PROVE  mode[Here.dir] = "unsearchable"
<1>1. Standing(Here)
  BY HereIs DEF ListInv, Apart
<1>2. kind[e] # "none" /\ Parent(e) = Here.dir /\ ~ Denied(Here.dir)
  BY <1>1 DEF Standing
<1>3. Denied(e)
  BY <1>2, LooksIs
<1> QED
  BY <1>2, <1>3, EntryDenied

LEMMA walk_readdirKeeps ==
    ASSUME ListInv, NEW e \in Path, walk_readdir(e), UNCHANGED vars
    PROVE  ListInv'
<1> DEFINE new == [Here EXCEPT !.unread = @ \ {e}, !.due = @ \ {e}]
<1>1. /\ lpc = "readdir" /\ walks # <<>> /\ e \in Here.unread
      /\ walks \in Seq(Walk) /\ walks' = Append(Front(walks), new)
      /\ UNCHANGED <<operand, listed, lmeddled, gone, kind, mode, leaked, pc, frames>>
  BY DEF walk_readdir, Skip, lghosts, ListInv, ListTypeOK, Apart, vars, tree, streams
<1>2. DeleteInv' /\ TypeOK'
  BY DeleteAlone
<1>3. Here \in Walk /\ Here = walks[Len(walks)] /\ (~ gone => Standing(Here))
  BY <1>1, HereIs
<1>4. /\ new \in Walk /\ new.name = Here.name /\ new.dir = Here.dir
      /\ ~ gone => Standing(new)
  BY <1>3 DEF Walk, Standing
<1> HIDE DEF new
<1>5. /\ walks' \in Seq(Walk) /\ walks' # <<>> /\ Len(walks') = Len(walks)
      /\ \A i \in DOMAIN walks' :
            \/ i \in DOMAIN walks /\ walks'[i] = walks[i]
            \/ i = Len(walks) /\ walks'[i] = new
  BY <1>1, <1>4, ChangeTop
<1>6. DOMAIN walks' = DOMAIN walks /\ Len(walks) \in DOMAIN walks /\ 1 \in DOMAIN walks
  BY <1>1, <1>5, LenProperties, EmptySeq
<1>7. \A i \in DOMAIN walks :
         walks'[i].name = walks[i].name /\ walks'[i].dir = walks[i].dir
  BY <1>3, <1>4, <1>5, <1>6
<1>8. ~ gone /\ ~ Looks(e) => mode[Here.dir] = "unsearchable"
  BY <1>1, NotLooked
<1>9. /\ lpc' \in {"readdir", "opendir", "query_file"}
      /\ fn' \in Path \union {NoPath} /\ (lpc' # "readdir" => fn' = e)
      /\ res' \in BOOLEAN /\ errno' \in BOOLEAN /\ warned' \in BOOLEAN
      /\ Looks(e) => res' = res /\ errno' = errno
      /\ Len(walks) # 1 => res' = res
      /\ lpc' = "opendir" => kind[e] = "dir"
      /\ lpc' # "readdir" => Looks(e)
  <2>1. res \in BOOLEAN /\ errno \in BOOLEAN /\ warned \in BOOLEAN /\ fn \in Path \union {NoPath}
    BY DEF ListInv, ListTypeOK
  <2> QED
    BY <1>1, <2>1 DEF walk_readdir, errors
<1>10. ListTypeOK'
  BY <1>1, <1>2, <1>5, <1>9 DEF ListInv, ListTypeOK
<1>11. Unharmed'
  <2> SUFFICES ASSUME ~ gone
               PROVE  Unharmed'
    BY <1>1 DEF Unharmed
  <2>1. \A i \in DOMAIN walks' : Standing(walks'[i])
    BY <1>1, <1>4, <1>5 DEF ListInv, Unharmed
  <2>2. (\A i \in DOMAIN walks : Standing(walks[i]))'
    BY <1>1, <2>1, StandingSame
  <2>3. walks'[1].name = operand
    BY <1>1, <1>6, <1>7 DEF ListInv, Unharmed
  <2>4. Here' = walks'[Len(walks)] /\ Here'.dir = Here.dir
    BY <1>3, <1>5, <1>6, <1>7 DEF Here
  <2>5. res' => mode[walks'[1].dir] = "unsearchable"
    <3>1. CASE res
      BY <1>1, <1>6, <1>7, <3>1 DEF ListInv, Unharmed
    <3>2. CASE ~ res
      BY <1>3, <1>6, <1>7, <1>8, <1>9, <3>2
    <3> QED
      BY <3>1, <3>2
  <2>6. errno' => mode[Here.dir] = "unsearchable"
    BY <1>1, <1>8, <1>9 DEF ListInv, Unharmed
  <2>7. lpc' # "readdir" => kind[e] # "none" /\ ~ Denied(e)
    BY <1>1, <1>9, LooksIs
  <2>8. lpc' = "opendir" => Where(e) = e
    BY <1>9 DEF Where
  <2> DEFINE Goal ==
        /\ (\A i \in DOMAIN walks : Standing(walks[i]))'
        /\ walks' # <<>> => walks'[1].name = operand'
        /\ lpc' = "opendir" =>
              /\ kind'[fn'] # "none" /\ ~ Denied(fn)'
              /\ kind'[Where(fn)'] = "dir" /\ ~ Denied(Where(fn))'
              /\ walks' = <<>> => fn' = operand'
        /\ lpc' = "query_file" => kind'[fn'] # "none" /\ ~ Denied(fn)'
        /\ res' /\ lpc' # "exited" => walks' # <<>> /\ mode'[walks'[1].dir] = "unsearchable"
        /\ lpc' = "readdir" /\ errno' => mode'[Here.dir'] = "unsearchable"
        /\ lpc' = "exited" => (leaked = MaxFds \/ mode[Where(operand)] \in Closed)'
  <2>9. lpc' \in {"opendir", "query_file"} => ~ Denied(fn)'
    BY <1>1, <1>9, <2>7 DEF Denied
  <2>10. lpc' = "opendir" => Where(fn)' = e /\ fn' = e
    BY <1>1, <1>9, <2>8 DEF Where
  <2>11. lpc' = "opendir" => ~ Denied(Where(fn))'
    BY <1>1, <2>7, <2>10 DEF Denied
  <2>12. Goal
    BY <1>1, <1>5, <1>9, <2>2, <2>3, <2>4, <2>5, <2>6, <2>7, <2>9, <2>10, <2>11
  <2> QED
    BY <2>12 DEF Unharmed
<1> QED
  BY <1>1, <1>2, <1>5, <1>9, <1>10, <1>11 DEF ListInv, Apart

LEMMA walk_closedirKeeps ==
    ASSUME ListInv, walk_closedir, UNCHANGED vars
    PROVE  ListInv'
<1>1. /\ lpc = "readdir" /\ walks # <<>> /\ pc = "prompt"
      /\ walks \in Seq(Walk) /\ walks' = Front(walks)
      /\ UNCHANGED <<kind, mode, leaked, pc, frames>>
  BY DEF walk_closedir, ListInv, ListTypeOK, Apart, vars, tree, streams
<1>2. DeleteInv' /\ TypeOK'
  BY DeleteAlone
<1>3. /\ Front(walks) \in Seq(Walk)
      /\ Len(walks) \in Nat \ {0} /\ Len(Front(walks)) = Len(walks) - 1
      /\ DOMAIN Front(walks) = 1 .. Len(walks) - 1
      /\ \A i \in DOMAIN Front(walks) : i \in DOMAIN walks /\ Front(walks)[i] = walks[i]
  BY <1>1, PopStack
<1>4. Here \in Walk /\ Here = walks[Len(walks)] /\ (~ gone => Standing(Here))
  BY <1>1, HereIs
<1>5. Len(walks') + Len(frames') + leaked' <= MaxFds
  <2>1. Len(frames) = 0 /\ leaked \in Nat
    BY <1>1, WalkAlone DEF ListInv, TypeOK, ListTypeOK
  <2> QED
    BY <1>1, <1>3, <2>1, ConstantsAssumption DEF ListInv, ListTypeOK
<1>6. CASE /\ Len(walks) > 1 /\ fn' = Here.name /\ lpc' = "query_file"
           /\ UNCHANGED <<operand, errors, listed, lghosts>>
  <2>1. walks' # <<>> /\ fn' \in Path
    BY <1>1, <1>3, <1>4, <1>6, EmptySeq DEF Walk
  <2>2. ListTypeOK'
    BY <1>1, <1>2, <1>3, <1>5, <1>6, <2>1 DEF ListInv, ListTypeOK, errors, lghosts
  <2>3. Unharmed'
    <3> SUFFICES ASSUME ~ gone
                 PROVE  Unharmed'
      BY <1>6 DEF Unharmed, lghosts
    <3>1. \A i \in DOMAIN walks' : Standing(walks'[i])
      BY <1>1, <1>3 DEF ListInv, Unharmed
    <3>2. (\A i \in DOMAIN walks : Standing(walks[i]))'
      BY <1>1, <3>1, StandingSame
    <3>3. walks'[1] = walks[1]
      BY <1>1, <1>3, <1>6
    <3>4. kind'[fn'] # "none" /\ ~ Denied(fn)'
      BY <1>1, <1>4, <1>6 DEF Standing, Denied
    <3> QED
      BY <1>1, <1>6, <2>1, <3>2, <3>3, <3>4 DEF ListInv, Unharmed, errors, lghosts
  <2> QED
    BY <1>1, <1>2, <1>6, <2>1, <2>2, <2>3 DEF ListInv, Apart
<1>7. CASE /\ Len(walks) = 1 /\ (res \/ errno) /\ lpc' = "exited"
           /\ UNCHANGED <<operand, fn, errors, listed, lghosts>>
  <2>1. ListTypeOK'
    BY <1>1, <1>2, <1>3, <1>5, <1>7 DEF ListInv, ListTypeOK, errors, lghosts
  <2>2. walks' = <<>>
    BY <1>1, <1>3, <1>7, EmptySeq
  <2>3. ~ gone => mode[Where(operand)] = "unsearchable"
    BY <1>1, <1>4, <1>7 DEF ListInv, Unharmed, Standing
  <2>4. Unharmed'
    BY <1>1, <1>7, <2>2, <2>3 DEF Unharmed, lghosts, Where, Closed
  <2> QED
    BY <1>1, <1>2, <1>7, <2>1, <2>4 DEF ListInv, Apart
<1>8. CASE Len(walks) = 1 /\ lpc' = "prompt" /\ Fresh
  <2>1. walks' = <<>>
    BY <1>1, <1>3, <1>8, EmptySeq
  <2>2. /\ operand' = NoPath /\ fn' = NoPath /\ listed' = {} /\ lmeddled' = 0
        /\ res' \in BOOLEAN /\ errno' \in BOOLEAN /\ warned' \in BOOLEAN
        /\ gone' \in BOOLEAN /\ ~ res'
    BY <1>8 DEF Fresh
  <2>3. ListTypeOK'
    BY <1>1, <1>2, <1>3, <1>5, <1>8, <2>2, ConstantsAssumption DEF ListTypeOK
  <2> QED
    BY <1>1, <1>2, <1>8, <2>1, <2>2, <2>3 DEF ListInv, Apart, Unharmed
<1> QED
  BY <1>6, <1>7, <1>8 DEF walk_closedir

LEMMA listKeeps ==
    ASSUME ListInv, NEW p \in Path, list(p)
    PROVE  ListInv'
<1>1. /\ pc = "prompt" /\ lpc = "prompt"
      /\ operand' = p /\ fn' = p /\ lpc' = "opendir"
      /\ UNCHANGED <<kind, mode, frames, leaked, pc, walks, res, errno, warned,
                     listed, lmeddled, gone>>
      /\ walks = <<>> /\ frames = <<>> /\ ~ res
  BY DEF list, tree, streams, errors, lghosts, ListInv, Apart, DeleteInv
<1>2. path' \in Path /\ target' = path' /\ before' = leaked /\ meddled' = 0
      /\ said' \in BOOLEAN /\ easy' \in BOOLEAN
  BY DEF list, NotDeleting
<1>3. TypeOK'
  BY <1>1, <1>2, ConstantsAssumption DEF ListInv, DeleteInv, TypeOK
<1>4. DeleteInv'
  <2>1. DOMAIN frames' = {}
    BY <1>1
  <2> QED
    BY <1>1, <1>3, <2>1 DEF DeleteInv
<1>5. ListTypeOK'
  BY <1>1, <1>3 DEF ListInv, ListTypeOK
<1>6. Unharmed'
  <2>1. /\ kind[p] # "none" /\ ~ Denied(p)
        /\ kind[Where(p)] = "dir" /\ ~ Denied(Where(p))
    BY DEF list, isDirectory, Looks
  <2>2. /\ kind'[fn'] # "none" /\ ~ Denied(fn)'
        /\ kind'[Where(fn)'] = "dir" /\ ~ Denied(Where(fn))'
    BY <1>1, <2>1 DEF Where, Denied
  <2>3. DOMAIN walks' = {}
    BY <1>1
  <2> QED
    BY <1>1, <2>2, <2>3 DEF Unharmed
<1> QED
  BY <1>1, <1>4, <1>5, <1>6 DEF ListInv, Apart

\* Everything others do while list is under way.
LEMMA AdoptKeeps ==
    ASSUME ListInv, NEW p \in Path, NEW k \in Kind, Adopt(p, k)
    PROVE  ListInv'
<1>1. DeleteInv'
  BY MakeKeeps DEF Adopt, ListInv
<1>2. /\ kind' = [kind EXCEPT ![p] = k] /\ kind \in [Path -> Kind \union {"none"}]
      /\ UNCHANGED <<mode, leaked, pc, lpc, operand, fn, res, errno, warned, listed, gone>>
      /\ lmeddled' \in 0 .. MaxMeddle
  <2>1. /\ kind' = [kind EXCEPT ![p] = k] /\ kind \in [Path -> Kind \union {"none"}]
        /\ UNCHANGED <<mode, leaked, pc, lpc, operand, fn, res, errno, warned, listed, gone>>
    BY DEF Adopt, Make, Meddle, errors, ListInv, ListTypeOK, TypeOK
  <2>2. WalkMeddle /\ lmeddled \in 0 .. MaxMeddle
    BY DEF Adopt, ListInv, ListTypeOK
  <2>3. lmeddled' \in 0 .. MaxMeddle
    BY <2>2, ConstantsAssumption DEF WalkMeddle
  <2> QED
    BY <2>1, <2>3
<1>3. /\ walks \in Seq(Walk) /\ DOMAIN walks = 1 .. Len(walks)
      /\ \A i \in DOMAIN walks : walks[i] \in Walk
  BY ElementOfSeq, LenProperties DEF ListInv, ListTypeOK
<1>4. walks' \in [DOMAIN walks -> Walk]
  <2>1. ASSUME NEW i \in DOMAIN walks
        PROVE  [walks[i] EXCEPT !.unread = @ \union {p}] \in Walk
    BY <1>3 DEF Walk
  <2> QED
    BY <1>3, <2>1 DEF Adopt
<1>5. /\ walks' \in Seq(Walk) /\ Len(walks') = Len(walks) /\ DOMAIN walks' = DOMAIN walks
      /\ walks = <<>> <=> walks' = <<>>
  BY <1>3, <1>4, MapStack, EmptySeq
<1>6. Len(frames') = Len(frames)
  <2>1. frames \in Seq(Frame) /\ DOMAIN frames' = DOMAIN frames
    BY DEF Adopt, Make, ListInv, DeleteInv, TypeOK
  <2>2. frames' \in Seq(Frame)
    BY <1>1 DEF DeleteInv, TypeOK
  <2> QED
    BY <2>1, <2>2, LenProperties
<1>7. ListTypeOK'
  BY <1>1, <1>2, <1>5, <1>6 DEF ListInv, ListTypeOK, DeleteInv
<1>8. ASSUME NEW i \in DOMAIN walks
      PROVE  /\ walks'[i].name = walks[i].name /\ walks'[i].dir = walks[i].dir
             /\ \/ walks'[i].unread = walks[i].unread
                \/ walks'[i].unread = walks[i].unread \union {p} /\ Parent(p) = walks[i].dir
             /\ walks[i].name \in Path /\ walks[i].dir \in Path /\ walks[i].unread \subseteq Path
  BY <1>3, <1>8 DEF Adopt, Walk
<1>9. /\ kind[p] = "none" /\ kind'[p] # "none"
      /\ \A q \in Path : kind[q] # "none" => kind'[q] = kind[q] /\ Where(q)' = Where(q)
      /\ \A q \in Path : kind[q] # "none" => kind'[q] # "none"
  BY <1>2 DEF Adopt, Make, Kind, Where
<1>10. Unharmed'
  <2> SUFFICES ASSUME lpc # "prompt", ~ gone
               PROVE  Unharmed'
    BY <1>2 DEF Unharmed
  <2>1. \A q : Denied(q)' <=> Denied(q)
    BY <1>2, DeniedSame
  <2>2. ASSUME NEW i \in DOMAIN walks'
        PROVE  Standing(walks[i])'
    <3>1. i \in DOMAIN walks /\ Standing(walks[i])
      BY <1>5, <2>2 DEF ListInv, Unharmed
    <3>2. PICK n, d, u : n = walks[i].name /\ d = walks[i].dir /\ u = walks'[i].unread
      OBVIOUS
    <3>3. /\ n \in Path /\ kind[n] # "none" /\ ~ Denied(n)
          /\ d \in Path /\ d = Where(n) /\ kind[d] = "dir" /\ ~ Denied(d)
          /\ \A e \in u : e \in Path /\ (kind[e] # "none" \/ e = p) /\ Parent(e) = d
      BY <1>8, <3>1, <3>2 DEF Standing
    <3>4. walks'[i].name = n /\ walks'[i].dir = d /\ walks'[i].unread = u
      BY <1>8, <3>1, <3>2
    <3>5. /\ kind'[n] # "none" /\ ~ Denied(n)'
          /\ d = Where(n)' /\ kind'[d] = "dir" /\ ~ Denied(d)'
      BY <1>9, <2>1, <3>3
    <3>6. \A e \in u : kind'[e] # "none" /\ Parent(e) = d
      BY <1>9, <3>3
    <3> QED
      BY <3>4, <3>5, <3>6 DEF Standing, Where, Denied
  <2>3. lpc \in {"opendir", "query_file"} => fn \in Path /\ kind[fn] # "none" /\ ~ Denied(fn)
    BY DEF ListInv, Apart, Unharmed
  <2>4. lpc \in {"opendir", "query_file"} =>
           kind'[fn'] # "none" /\ ~ Denied(fn)' /\ Where(fn)' = Where(fn)
    <3>1. lpc \in {"opendir", "query_file"} => kind'[fn] # "none" /\ Where(fn)' = Where(fn)
      BY <1>2, <1>9, <2>3 DEF Where
    <3> QED
      BY <1>2, <2>3, <3>1 DEF Denied
  <2>5. lpc = "opendir" => kind'[Where(fn)'] = "dir" /\ ~ Denied(Where(fn))'
    <3>1. PICK q : q = Where(fn)
      OBVIOUS
    <3>2. lpc = "opendir" => q \in Path /\ kind[q] = "dir" /\ ~ Denied(q)
      BY <2>3, <3>1, WhereIs DEF ListInv, DeleteInv, Unharmed
    <3>3. lpc = "opendir" => kind'[q] = "dir" /\ ~ Denied(q)'
      BY <1>9, <2>1, <3>2
    <3> QED
      BY <2>4, <3>1, <3>3 DEF Denied
  <2>6. walks # <<>> => walks'[1].name = walks[1].name /\ walks'[1].dir = walks[1].dir
    <3>1. walks # <<>> => 1 \in DOMAIN walks
      BY <1>3, LenProperties, EmptySeq
    <3> QED
      BY <1>8, <3>1
  <2>7. walks # <<>> => Here'.dir = Here.dir
    <3>1. walks # <<>> => Len(walks) \in DOMAIN walks
      BY HereIs
    <3> QED
      BY <1>5, <1>8, <3>1 DEF Here
  <2>8. lpc = "exited" => (leaked = MaxFds \/ mode[Where(operand)] \in Closed)'
    BY DEF Adopt
  <2>9. (\A i \in DOMAIN walks : Standing(walks[i]))'
    BY <2>2
  <2>10. lpc \in {"readdir", "query_file"} => walks # <<>>
    BY DEF ListInv, Apart
  <2>11. /\ walks' # <<>> => walks'[1].name = operand'
         /\ lpc' = "opendir" /\ walks' = <<>> => fn' = operand'
         /\ res' /\ lpc' # "exited" => walks' # <<>> /\ mode'[walks'[1].dir] = "unsearchable"
    BY <1>2, <1>5, <2>6 DEF ListInv, Unharmed
  <2>12. lpc' = "readdir" /\ errno' => mode'[Here'.dir] = "unsearchable"
    BY <1>2, <2>7, <2>10 DEF ListInv, Unharmed
  <2> QED
    BY <1>2, <2>4, <2>5, <2>8, <2>9, <2>11, <2>12 DEF Unharmed
<1> QED
  BY <1>1, <1>2, <1>5, <1>7, <1>10 DEF ListInv, Apart

LEMMA LoseKeeps ==
    ASSUME ListInv, NEW p \in Path, Lose(p)
    PROVE  ListInv'
<1>1. DeleteInv'
  BY UnmakeKeeps DEF Lose, ListInv
<1>2. /\ UNCHANGED <<leaked, pc, lpc, operand, fn, res, errno, warned, listed>>
      /\ lmeddled' \in 0 .. MaxMeddle /\ gone' \in BOOLEAN
      /\ lpc # "prompt" => gone'
  <2>1. UNCHANGED <<leaked, pc, lpc, operand, fn, res, errno, warned, listed>> /\ WalkMeddle
    BY DEF Lose, Unmake, Meddle, errors
  <2>2. lmeddled' \in 0 .. MaxMeddle
    BY <2>1, ConstantsAssumption DEF WalkMeddle, ListInv, ListTypeOK
  <2>3. gone' \in BOOLEAN /\ (lpc # "prompt" => gone')
    BY DEF Lose
  <2> QED
    BY <2>1, <2>2, <2>3
<1>3. /\ walks \in Seq(Walk) /\ DOMAIN walks = 1 .. Len(walks)
      /\ \A i \in DOMAIN walks : walks[i] \in Walk
  BY ElementOfSeq, LenProperties DEF ListInv, ListTypeOK
<1>4. walks' \in [DOMAIN walks -> Walk]
  <2>1. ASSUME NEW i \in DOMAIN walks
        PROVE  [walks[i] EXCEPT !.due = @ \ {p}] \in Walk
    BY <1>3 DEF Walk
  <2> QED
    BY <2>1 DEF Lose
<1>5. /\ walks' \in Seq(Walk) /\ Len(walks') = Len(walks)
      /\ walks = <<>> <=> walks' = <<>>
  BY <1>3, <1>4, MapStack, EmptySeq
<1>6. Len(frames') = Len(frames)
  <2>1. frames \in Seq(Frame) /\ DOMAIN frames' = DOMAIN frames
    BY DEF Lose, Unmake, NotDue, ListInv, DeleteInv, TypeOK
  <2>2. frames' \in Seq(Frame)
    BY <1>1 DEF DeleteInv, TypeOK
  <2> QED
    BY <2>1, <2>2, LenProperties
<1>7. ListTypeOK'
  BY <1>1, <1>2, <1>5, <1>6 DEF ListInv, ListTypeOK, DeleteInv
<1> QED
  BY <1>1, <1>2, <1>5, <1>7 DEF ListInv, Apart, Unharmed

LEMMA DeletingKeeps ==
    ASSUME ListInv, Deleting
    PROVE  ListInv'
<1>1. DeleteInv'
  BY ShellKeeps, DeleteKeeps DEF Deleting, ListInv
<1>2. /\ lpc = "prompt" /\ walks = <<>> /\ ~ res
      /\ UNCHANGED <<lpc, operand, walks, fn, res, errno, warned, listed, lmeddled, gone>>
  BY DEF Deleting, lvars, errors, lghosts, ListInv, Apart
<1>3. Len(walks') + Len(frames') + leaked' <= MaxFds
  <2>1. Len(<<>>) = 0
    BY EmptySeq
  <2>2. /\ Len(frames') + leaked' <= MaxFds /\ leaked' \in Nat
        /\ Len(frames') \in Nat
    BY <1>1, LenProperties DEF DeleteInv, TypeOK
  <2> QED
    BY <1>2, <2>1, <2>2
<1>4. ListTypeOK'
  BY <1>1, <1>2, <1>3 DEF ListInv, ListTypeOK, DeleteInv
<1> QED
  BY <1>1, <1>2, <1>4 DEF ListInv, Apart, Unharmed

\* Every step of the shell and of everybody else keeps the invariant.
LEMMA ListNextKeeps == ListInv /\ [ListNext]_allvars => ListInv'
<1> SUFFICES ASSUME ListInv, [ListNext]_allvars
             PROVE  ListInv'
  OBVIOUS
<1>1. CASE UNCHANGED allvars
  <2>1. UNCHANGED <<kind, mode, frames, leaked, pc, path, said, target, before, easy,
                    meddled, lpc, operand, walks, fn, res, errno, warned, listed,
                    lmeddled, gone>>
    BY <1>1 DEF allvars, vars, lvars, tree, streams, ghosts, errors, lghosts
  <2>2. DeleteInv' /\ TypeOK'
    BY <1>1, DeleteAlone DEF allvars
  <2>3. ListTypeOK' /\ Apart'
    BY <2>1, <2>2 DEF ListInv, ListTypeOK, Apart
  <2>4. Unharmed'
    BY <2>1 DEF ListInv, Unharmed, Standing, Where, Denied, Here
  <2> QED
    BY <2>2, <2>3, <2>4 DEF ListInv
<1>2. CASE Listing
  BY <1>2, query_fileKeeps, walk_opendirKeeps, walk_closedirKeeps, walk_readdirKeeps
     DEF Listing
<1>3. ASSUME NEW p \in Path, query(p)
      PROVE  ListInv'
  BY <1>1, <1>3 DEF query
<1> QED
  BY <1>1, <1>2, <1>3, DeletingKeeps, listKeeps, AdoptKeeps, LoseKeeps DEF ListNext

LEMMA ListInvariant == ListSpec => []ListInv
  BY ListInitInv, ListNextKeeps, PTL DEF ListSpec

-----------------------------------------------------------------------------

\* Type correctness of delete and list together (libs/delete.c, list.c): among
\* others, they never have more streams open than there are descriptors.
THEOREM ListTypeCorrect == ListSpec => []ListTypeOK
<1>1. ListInv => ListTypeOK
  BY DEF ListInv
<1> QED
  BY <1>1, ListInvariant, PTL

\* list -r ends the shell (err in recursive, sys/recursive2.c) only if others
\* removed something, no stream was left for the operand, or the operand itself
\* cannot be read or searched.
THEOREM FatalOnlyForCause == ListSpec => []ListFatal
<1>1. ListInv => ListFatal
  BY DEF ListInv, Unharmed, ListFatal
<1> QED
  BY <1>1, ListInvariant, PTL

-----------------------------------------------------------------------------
(* Links: nobody disturbs, so what was read as a directory is one, or gone. *)

LedInv ==
    meddled = 0 =>
        /\ \A i \in DOMAIN frames :
              /\ Led(frames[i]) => i = 1 /\ frames[i].name = target
              /\ \A e \in frames[i].unread : kind[e[1]] \in {e[2], "none"}
        /\ pc \in {"opendir", "directory_empty"} =>
              IF frames = <<>> THEN path = target ELSE kind[path] \in {"dir", "none"}

\* What a command removes is no longer anything.
LEMMA LedRemoved ==
    ASSUME DeleteInv, LedInv, kind' = [kind EXCEPT ![path] = "none"],
           frames' = NotDue(path), Resume, UNCHANGED <<path, target, meddled>>
    PROVE  LedInv'
<1>1. pc' \notin {"opendir", "directory_empty"}
  BY DEF Resume
<1>2. \A i \in DOMAIN frames' :
         /\ i \in DOMAIN frames
         /\ frames'[i].name = frames[i].name /\ frames'[i].dir = frames[i].dir
         /\ frames'[i].unread = frames[i].unread
  BY NotDueKeeps DEF DeleteInv
<1>3. \A q \in Path : kind'[q] \in {kind[q], "none"}
  BY DEF DeleteInv, TypeOK
<1>4. \A i \in DOMAIN frames : \A e \in frames[i].unread : e[1] \in Path
  <2>1. \A i \in DOMAIN frames : frames[i] \in Frame
    BY ElementOfSeq, LenProperties DEF DeleteInv, TypeOK
  <2> QED
    BY <2>1 DEF Frame
<1>5. ASSUME meddled = 0, NEW i \in DOMAIN frames', NEW e \in frames'[i].unread
      PROVE  kind'[e[1]] \in {e[2], "none"}
  <2>1. kind[e[1]] \in {e[2], "none"} /\ e[1] \in Path
    BY <1>2, <1>4, <1>5 DEF LedInv
  <2> QED
    BY <1>3, <2>1
<1>6. ASSUME meddled = 0, NEW i \in DOMAIN frames', Led(frames'[i])
      PROVE  i = 1 /\ frames'[i].name = target
  BY <1>2, <1>6 DEF LedInv, Led
<1> QED
  BY <1>1, <1>5, <1>6 DEF LedInv

LEMMA LedGivenUp ==
    ASSUME DeleteInv, LedInv, GiveUp
    PROVE  LedInv'
<1>1. /\ UNCHANGED <<kind, target, meddled>> /\ pc' \notin {"opendir", "directory_empty"}
      /\ frames' = (IF frames = <<>> THEN frames ELSE Front(frames))
  BY DEF GiveUp, tree, ghosts, streams
<1>2. \A i \in DOMAIN frames' : i \in DOMAIN frames /\ frames'[i] = frames[i]
  BY <1>1, PopKeeps
<1> QED
  BY <1>1, <1>2 DEF LedInv, Led

LEMMA LedOpened ==
    ASSUME DeleteInv, LedInv, opendir
    PROVE  LedInv'
<1> DEFINE new == [name |-> path, dir |-> Where(path),
                   unread |-> {<<p, kind[p]>> : p \in Entries(Where(path))},
                   due |-> Entries(Where(path))]
<1>1. /\ pc = "opendir" /\ pc' \notin {"opendir", "directory_empty"}
      /\ UNCHANGED <<kind, path, target, meddled>>
  BY DEF opendir, tree, ghosts
<1>2. CASE Opens(path) /\ frames' = Append(frames, new)
  <2>1. /\ frames \in Seq(Frame) /\ Len(frames) \in Nat
        /\ \A i \in DOMAIN frames' :
              \/ i \in DOMAIN frames /\ frames'[i] = frames[i]
              \/ i = Len(frames) + 1 /\ frames'[i] = new
    <3>1. /\ frames \in Seq(Frame) /\ Len(frames) \in Nat
          /\ Len(frames') = Len(frames) + 1 /\ DOMAIN frames = 1 .. Len(frames)
          /\ DOMAIN frames' = 1 .. Len(frames')
          /\ \A i \in 1 .. Len(frames) : frames'[i] = frames[i]
          /\ frames'[Len(frames) + 1] = new
      <4>1. frames \in Seq(Frame)
        BY DEF DeleteInv, TypeOK
      <4> HIDE DEF new
      <4> QED
        BY <1>2, <4>1, LenProperties
    <3> HIDE DEF new
    <3> QED
      BY <3>1
  <2>2. ASSUME meddled = 0, Led(new)
        PROVE  Len(frames) + 1 = 1 /\ new.name = target
    <3>1. kind[path] = "link"
      BY <2>2 DEF Led, Where
    <3>2. frames = <<>> /\ path = target
      BY <1>1, <2>2, <3>1 DEF LedInv
    <3>3. Len(<<>>) = 0
      BY EmptySeq
    <3> QED
      BY <3>2, <3>3
  <2>3. \A e \in new.unread : kind[e[1]] \in {e[2], "none"}
    OBVIOUS
  <2> HIDE DEF new
  <2>4. ASSUME meddled = 0, NEW i \in DOMAIN frames'
        PROVE  /\ Led(frames'[i]) => i = 1 /\ frames'[i].name = target
               /\ \A e \in frames'[i].unread : kind[e[1]] \in {e[2], "none"}
    <3>1. CASE i \in DOMAIN frames /\ frames'[i] = frames[i]
      BY <2>4, <3>1 DEF LedInv
    <3>2. CASE i = Len(frames) + 1 /\ frames'[i] = new
      BY <2>2, <2>3, <2>4, <3>2
    <3> QED
      BY <2>1, <2>4, <3>1, <3>2
  <2> QED
    BY <1>1, <2>4 DEF LedInv, Led
<1>3. CASE UNCHANGED frames
  BY <1>1, <1>3 DEF LedInv, Led
<1> QED
  BY <1>2, <1>3 DEF opendir

LEMMA LedRead ==
    ASSUME DeleteInv, LedInv, NEW e \in Path \X Kind, readdir(e)
    PROVE  LedInv'
<1> DEFINE new == [Top EXCEPT !.unread = {x \in @ : x[1] # e[1]}, !.due = @ \ {e[1]}]
<1>1. /\ frames # <<>> /\ e \in Top.unread
      /\ frames' = Append(Front(frames), new)
      /\ path' = e[1] /\ (pc' \in {"opendir", "directory_empty"} => e[2] = "dir")
      /\ UNCHANGED <<kind, target, meddled>>
  BY DEF readdir, DeleteInv, tree, ghosts
<1>2. Top \in Frame /\ Top = frames[Len(frames)] /\ Len(frames) \in DOMAIN frames
  BY <1>1, PopKeeps
<1>3. /\ new \in Frame /\ new.name = Top.name /\ new.dir = Top.dir
      /\ new.unread \subseteq Top.unread
  BY <1>2 DEF Frame
<1> HIDE DEF new
<1>4. /\ frames' # <<>>
      /\ \A i \in DOMAIN frames' :
            \/ i \in DOMAIN frames /\ frames'[i] = frames[i]
            \/ i = Len(frames) /\ frames'[i] = new
  BY <1>1, <1>3, ChangeTop DEF DeleteInv, TypeOK
<1>5. ASSUME meddled = 0, NEW i \in DOMAIN frames'
      PROVE  /\ Led(frames'[i]) => i = 1 /\ frames'[i].name = target
             /\ \A x \in frames'[i].unread : kind[x[1]] \in {x[2], "none"}
  <2>1. /\ i \in DOMAIN frames
        /\ frames'[i].name = frames[i].name /\ frames'[i].dir = frames[i].dir
        /\ frames'[i].unread \subseteq frames[i].unread
    BY <1>2, <1>3, <1>4, <1>5
  <2> QED
    BY <1>5, <2>1 DEF LedInv, Led
<1>6. meddled = 0 => kind[e[1]] \in {e[2], "none"}
  BY <1>1, <1>2 DEF LedInv
<1> QED
  BY <1>1, <1>4, <1>5, <1>6 DEF LedInv, Led

LEMMA LedShell ==
    ASSUME DeleteInv, LedInv, Shell
    PROVE  LedInv'
<1>1. CASE closedir
  <2>1. /\ frames # <<>> /\ frames' = Front(frames)
        /\ pc' \notin {"opendir", "directory_empty"}
        /\ UNCHANGED <<kind, target, meddled>>
    BY <1>1 DEF closedir, DeleteInv, tree, ghosts
  <2>2. \A i \in DOMAIN frames' : i \in DOMAIN frames /\ frames'[i] = frames[i]
    BY <2>1, PopKeeps
  <2> QED
    BY <2>1, <2>2 DEF LedInv, Led
<1>2. CASE directory_empty
  <2>1. /\ pc = "directory_empty" /\ UNCHANGED <<kind, frames, path, target, meddled>>
    BY <1>2 DEF directory_empty, tree, streams, ghosts
  <2> QED
    BY <2>1 DEF LedInv, Led
<1>3. CASE unlink
  BY <1>3, LedRemoved, LedGivenUp DEF unlink, ghosts
<1>4. CASE rmdir
  BY <1>4, LedRemoved, LedGivenUp DEF rmdir, ghosts
<1> QED
  BY <1>1, <1>2, <1>3, <1>4, LedOpened, LedRead DEF Shell

LEMMA LedKept == ListInv /\ LedInv /\ [ListNext]_allvars => LedInv'
<1> SUFFICES ASSUME ListInv, LedInv, [ListNext]_allvars
             PROVE  LedInv'
  OBVIOUS
<1>1. DeleteInv /\ (pc = "prompt" => DOMAIN frames = {})
  BY DEF ListInv, DeleteInv
<1>2. CASE UNCHANGED vars
  BY <1>2 DEF vars, tree, streams, ghosts, LedInv, Led
<1>3. CASE Deleting
  <2>1. ASSUME NEW p \in Path, NEW r \in BOOLEAN, delete(p, r)
        PROVE  LedInv'
    <3>1. frames' = <<>> /\ DOMAIN frames' = {} /\ path' = target'
      BY <2>1, <1>1 DEF delete, streams, DeleteInv
    <3> QED
      BY <3>1 DEF LedInv
  <2> QED
    BY <1>1, <1>3, <2>1, LedShell DEF Deleting
<1>4. ASSUME NEW p \in Path, list(p)
      PROVE  LedInv'
  <2>1. DOMAIN frames' = {} /\ pc' = "prompt"
    BY <1>1, <1>4 DEF list, streams
  <2> QED
    BY <2>1 DEF LedInv
<1>5. ASSUME NEW p \in Path, NEW k \in Kind, Make(p, k) \/ Unmake(p)
      PROVE  LedInv'
  <2>1. CASE pc = "prompt"
    <3>1. DOMAIN frames' = {} /\ pc' = "prompt"
      BY <1>1, <1>5, <2>1 DEF Make, Unmake, NotDue, Meddle
    <3> QED
      BY <3>1 DEF LedInv
  <2>2. CASE pc # "prompt"
    <3>1. meddled' # 0
      BY <1>1, <1>5, <2>2, ConstantsAssumption DEF Make, Unmake, Meddle, DeleteInv, TypeOK
    <3> QED
      BY <3>1 DEF LedInv
  <2> QED
    BY <2>1, <2>2
<1> QED
  BY <1>2, <1>3, <1>4, <1>5 DEF ListNext, Listing, query, Adopt, Lose, allvars, Kind

\* delete (unlink and rmdir in delete_recursive) is led out of its tree only by its
\* operand, when that is a link, or by others, and removes nothing outside its
\* operand but what lies below a directory it was led to.
THEOREM RemovesOnlyBelow == ListSpec => OnlyBelow
<1>1. ListInv /\ [ListNext]_allvars =>
        [\A p \in Path : kind[p] # "none" /\ kind'[p] = "none" /\ pc' # pc
            => \/ IsPrefix(target, p)
               \/ \E i \in DOMAIN frames :
                     Led(frames[i]) /\ IsStrictPrefix(frames[i].dir, p)]_vars
  <2> SUFFICES ASSUME ListInv, [ListNext]_allvars,
                      NEW p \in Path, kind[p] # "none", kind'[p] = "none", pc' # pc
               PROVE  \/ IsPrefix(target, p)
                      \/ \E i \in DOMAIN frames :
                            Led(frames[i]) /\ IsStrictPrefix(frames[i].dir, p)
    OBVIOUS
  <2>1. /\ kind \in [Path -> Kind \union {"none"}] /\ path \in Path
        /\ pc # "prompt" => Within(Len(frames) + 1, path)
    BY DEF ListInv, DeleteInv, TypeOK
  <2>2. UNCHANGED allvars => FALSE
    BY DEF allvars, vars
  <2>3. ~ Listing
    BY DEF Listing, vars
  <2>4. \A q \in Path : ~ list(q) /\ ~ query(q)
    BY DEF list, query, tree, allvars, vars
  <2>5. \A q \in Path, k \in Kind : ~ Adopt(q, k)
    BY DEF Adopt, Make, Meddle
  <2>6. \A q \in Path : ~ Lose(q)
    BY DEF Lose, Unmake, Meddle
  <2>7. \A q \in Path, r \in BOOLEAN : ~ delete(q, r)
    BY DEF delete, tree
  <2>8. Shell
    BY <2>2, <2>3, <2>4, <2>5, <2>6, <2>7 DEF ListNext, Deleting
  <2>9. kind' # kind
    OBVIOUS
  <2>10. pc # "prompt" /\ kind' = [kind EXCEPT ![path] = "none"]
    BY <2>8, <2>9 DEF Shell, opendir, readdir, closedir, directory_empty, unlink, rmdir,
                      GiveUp, tree
  <2>11. p = path
    BY <2>1, <2>10
  <2> QED
    BY <2>1, <2>10, <2>11 DEF Within
<1>2. ListInit => LedInv
  <2> SUFFICES ASSUME ListInit
               PROVE  LedInv
    OBVIOUS
  <2>1. frames = <<>> /\ DOMAIN frames = {} /\ pc = "prompt"
    BY DEF ListInit, Init
  <2> QED
    BY <2>1 DEF LedInv
<1>3. ListInv /\ LedInv =>
        \A i \in DOMAIN frames :
            Led(frames[i]) => (i = 1 /\ frames[i].name = target) \/ meddled > 0
  BY ConstantsAssumption DEF LedInv, ListInv, DeleteInv, TypeOK
<1> QED
  BY <1>1, <1>2, <1>3, LedKept, ListInvariant, PTL DEF ListSpec, OnlyBelow

\* A command that leaves a stream of delete_recursive open has printed a message.
THEOREM LeaksAreTold == ListSpec => []NoSilentLeak
<1>1. ListInit => NoSilentLeak
  BY DEF ListInit, Init, NoSilentLeak
<1>2. ASSUME NoSilentLeak, [ListNext]_allvars
      PROVE  NoSilentLeak'
  <2>1. CASE UNCHANGED allvars
    BY <1>2, <2>1 DEF allvars, vars, streams, ghosts, NoSilentLeak
  <2>2. CASE Listing
    BY <1>2, <2>2 DEF Listing, vars, streams, ghosts, NoSilentLeak
  <2>3. ASSUME NEW q \in Path, list(q) \/ query(q)
        PROVE  NoSilentLeak'
    BY <1>2, <2>3 DEF list, query, NotDeleting, allvars, vars, streams, ghosts, NoSilentLeak
  <2>4. ASSUME NEW q \in Path, NEW k \in Kind, Adopt(q, k)
        PROVE  NoSilentLeak'
    BY <1>2, <2>4 DEF Adopt, Make, Meddle, NoSilentLeak
  <2>5. ASSUME NEW q \in Path, Lose(q)
        PROVE  NoSilentLeak'
    BY <1>2, <2>5 DEF Lose, Unmake, Meddle, NoSilentLeak
  <2>6. ASSUME NEW q \in Path, NEW r \in BOOLEAN, delete(q, r)
        PROVE  NoSilentLeak'
    BY <1>2, <2>6 DEF delete, streams, NoSilentLeak
  <2>7. CASE Shell
    <3>1. CASE GiveUp
      BY <1>2, <3>1 DEF GiveUp, ghosts, streams, NoSilentLeak
    <3>2. CASE ~ GiveUp
      BY <1>2, <2>7, <3>2 DEF Shell, opendir, readdir, closedir, directory_empty, unlink,
                              rmdir, ghosts, streams, NoSilentLeak
    <3> QED
      BY <3>1, <3>2
  <2> QED
    BY <1>2, <2>1, <2>2, <2>3, <2>4, <2>5, <2>6, <2>7 DEF ListNext, Deleting
<1> QED
  BY <1>1, <1>2, PTL DEF ListSpec

-----------------------------------------------------------------------------
(* The tree.                                                               *)

\* Below an empty directory there is nothing.
LEMMA NothingBelow ==
    ASSUME IsTree(kind), NEW t \in Path, Entries(t) = {}
    PROVE  \A p \in Below(t) : p = t
<1> DEFINE S == {n \in Nat : \A p \in Below(t) : Len(p) # Len(t) + 1 + n}
<1>1. \A p \in Below(t) : p \in Path /\ IsPrefix(t, p) /\ kind[p] # "none"
  BY DEF Below
<1>2. Len(t) \in Nat \ {0} /\ \A p \in Path : Len(p) \in Nat \ {0}
  BY PathIsSeq
<1>3. 0 \in S
  <2>1. ASSUME NEW p \in Below(t), Len(p) = Len(t) + 1 + 0
        PROVE  FALSE
    <3>1. Len(p) # Len(t) /\ Len(p) = Len(t) + 1
      BY <1>2, <2>1
    <3>2. Parent(p) = t
      BY <1>1, <3>1, ParentBelow
    <3> QED
      BY <1>1, <3>2 DEF Entries
  <2> QED
    BY <2>1
<1>4. ASSUME NEW n \in Nat, n \in S
      PROVE  n + 1 \in S
  <2>1. ASSUME NEW p \in Below(t), Len(p) = Len(t) + 1 + (n + 1)
        PROVE  FALSE
    <3>1. Len(p) # Len(t)
      BY <1>2, <2>1
    <3>2. Parent(p) \in Path /\ IsPrefix(t, Parent(p)) /\ Len(p) > 1
      BY <1>1, <3>1, ParentBelow
    <3>3. kind[Parent(p)] = "dir"
      BY <1>1, <3>2 DEF IsTree
    <3>4. Parent(p) \in Below(t)
      BY <3>2, <3>3 DEF Below
    <3>5. Len(Parent(p)) = Len(p) - 1
      BY <1>1, ParentIs
    <3>6. Len(Parent(p)) = Len(t) + 1 + n
      BY <1>2, <2>1, <3>5
    <3> QED
      BY <1>4, <3>4, <3>6
  <2> QED
    BY <2>1
<1>5. ASSUME NEW p \in Below(t), Len(p) # Len(t)
      PROVE  FALSE
  <2>1. Len(p) > Len(t)
    BY <1>1, <1>5, ParentBelow
  <2> DEFINE N == Len(p) - Len(t) - 1
  <2>2. N \in Nat /\ Len(p) = Len(t) + 1 + N
    BY <1>1, <1>2, <2>1
  <2>3. N \in 0 .. N
    BY <2>2
  <2> HIDE DEF S, N
  <2>4. \A d \in 0 .. N - 1 : d \in S => d + 1 \in S
    BY <1>4, <2>2
  <2>5. N \in S
    BY <1>3, <2>2, <2>3, <2>4, UpTo
  <2> QED
    BY <2>2, <2>5 DEF S
<1> QED
  BY <1>1, <1>5, SamePath

\* An entry that is made in a directory keeps everything in one.
LEMMA MakeKeepsTree ==
    ASSUME IsTree(kind), kind \in [Path -> Kind \union {"none"}], NEW p \in Path, NEW k,
           kind[p] = "none", Len(p) > 1 => kind[Parent(p)] = "dir"
    PROVE  IsTree([kind EXCEPT ![p] = k])
<1> DEFINE new == [kind EXCEPT ![p] = k]
<1>1. new[p] = k /\ \A q \in Path : q # p => new[q] = kind[q]
  OBVIOUS
<1> HIDE DEF new
<1>2. ASSUME NEW q \in Path, new[q] # "none", Len(q) > 1
      PROVE  new[Parent(q)] = "dir"
  <2>1. Parent(q) \in Path /\ Parent(q) # q
    BY <1>2, ParentIs, ConstantsAssumption
  <2>2. CASE q = p
    BY <1>1, <1>2, <2>1, <2>2
  <2>3. CASE q # p
    <3>1. kind[Parent(q)] = "dir"
      BY <1>1, <1>2, <2>3 DEF IsTree
    <3> QED
      BY <1>1, <2>1, <3>1
  <2> QED
    BY <2>2, <2>3
<1> QED
  BY <1>2 DEF IsTree, new

\* So does removing an empty directory, or what is none.
LEMMA RemoveKeepsTree ==
    ASSUME IsTree(kind), kind \in [Path -> Kind \union {"none"}], NEW p \in Path,
           Entries(p) = {} \/ kind[p] # "dir"
    PROVE  IsTree([kind EXCEPT ![p] = "none"])
<1> DEFINE new == [kind EXCEPT ![p] = "none"]
<1>1. new[p] = "none" /\ \A q \in Path : q # p => new[q] = kind[q]
  OBVIOUS
<1> HIDE DEF new
<1>2. ASSUME NEW q \in Path, new[q] # "none", Len(q) > 1
      PROVE  new[Parent(q)] = "dir"
  <2>1. Parent(q) \in Path
    BY <1>2, ConstantsAssumption
  <2>2. q # p /\ kind[q] # "none"
    BY <1>1, <1>2
  <2>3. kind[Parent(q)] = "dir"
    BY <1>2, <2>2 DEF IsTree
  <2>4. Parent(q) # p
    BY <2>2, <2>3 DEF Entries
  <2> QED
    BY <1>1, <2>1, <2>3, <2>4
<1> QED
  BY <1>2 DEF IsTree, new

-----------------------------------------------------------------------------
(* delete -r of a tree that nothing protects and nobody disturbs.          *)

\* The entry of its directory that call i of delete_recursive is at.
At(i) ==
    IF i < Len(frames) THEN {frames[i + 1].dir}
    ELSE IF pc = "readdir" THEN {} ELSE {path}

\* At or below the path given, and not under a directory that hides it.
Reachable(p) == IsPrefix(target, p) /\ ~ Denied(p)

\* What a call has yet to remove is what it is at and what is due; its stream
\* returns what is due and nothing else, with the types they have.
OnTrack(i) ==
    /\ frames[i].name = frames[i].dir
    /\ kind[frames[i].dir] = "dir" /\ Reachable(frames[i].dir)
    /\ Len(frames[i].dir) = Len(target) + i - 1
    /\ Entries(frames[i].dir) = frames[i].due \union At(i)
    /\ frames[i].due \intersect At(i) = {}
    /\ \A e \in frames[i].unread : e[1] \in frames[i].due /\ e[2] = kind[e[1]]
    /\ \A p \in frames[i].due : <<p, kind[p]>> \in frames[i].unread

\* Everything below the target can be removed, and the call at the end of the stack
\* is about to find so.
Clear ==
    /\ ~ said
    /\ \A d \in Below(target) :
          mode[d] = "open" /\ (kind[d] = "dir" => leaked + Len(d) - Len(target) < MaxFds)
    /\ \A i \in DOMAIN frames : OnTrack(i)
    /\ pc # "readdir" =>
          /\ Len(path) = Len(target) + Len(frames)
          /\ Reachable(path)
          /\ kind[path] \in IF pc = "unlink" THEN {"file", "link"} ELSE {"dir"}
          /\ pc = "rmdir" => Entries(path) = {}
          /\ frames = <<>> => pc \in {"opendir", "rmdir"}

Undisturbed == pc # "prompt" /\ easy /\ meddled = 0

CompleteInv == IsTree(kind) /\ (Undisturbed => Clear)

\* The types of what Clear speaks of.
LEMMA StackTypes ==
    ASSUME DeleteInv
    PROVE  /\ frames \in Seq(Frame) /\ DOMAIN frames = 1 .. Len(frames) /\ Len(frames) \in Nat
           /\ (frames = <<>>) <=> (Len(frames) = 0)
           /\ \A i \in DOMAIN frames :
                 /\ frames[i] \in Frame /\ frames[i].dir \in Path /\ frames[i].name \in Path
                 /\ frames[i].unread \subseteq Path \X Kind /\ frames[i].due \subseteq Path
           /\ path \in Path /\ target \in Path /\ leaked \in Nat
           /\ kind \in [Path -> Kind \union {"none"}]
<1>1. frames \in Seq(Frame) /\ path \in Path /\ target \in Path /\ leaked \in Nat
      /\ kind \in [Path -> Kind \union {"none"}]
  BY DEF DeleteInv, TypeOK
<1>2. DOMAIN frames = 1 .. Len(frames) /\ Len(frames) \in Nat
      /\ \A i \in DOMAIN frames : frames[i] \in Frame
  BY <1>1, LenProperties, ElementOfSeq
<1>3. (frames = <<>>) <=> (Len(frames) = 0)
  BY <1>1, EmptySeq
<1> QED
  BY <1>1, <1>2, <1>3 DEF Frame

\* A call that is where it was, in a tree that is what it was.
LEMMA TrackSame ==
    ASSUME UNCHANGED <<kind, mode, target>>, NEW i, OnTrack(i),
           frames'[i] = frames[i], At(i)' = At(i)
    PROVE  OnTrack(i)'
<1>1. frames[i]' = frames[i]
  OBVIOUS
<1>2. Entries(frames[i].dir)' = Entries(frames[i].dir)
  BY <1>1 DEF Entries
<1>3. Reachable(frames[i].dir)' <=> Reachable(frames[i].dir)
  BY <1>1 DEF Reachable, Denied
<1> QED
  BY <1>1, <1>2, <1>3 DEF OnTrack

\* The path being handled can be removed, and there is a stream for it.
LEMMA PathClear ==
    ASSUME DeleteInv, Clear, pc # "prompt", pc # "readdir"
    PROVE  /\ mode[path] = "open" /\ Found(path)
           /\ kind[path] = "dir" => Where(path) = path /\ Opens(path)
<1>1. /\ path \in Path /\ target \in Path /\ leaked \in Nat /\ Len(frames) \in Nat
      /\ Len(path) \in Nat /\ Len(target) \in Nat
  BY StackTypes, PathIsSeq
<1>2. /\ Len(path) = Len(target) + Len(frames) /\ kind[path] # "none"
      /\ IsPrefix(target, path) /\ ~ Denied(path)
  BY DEF Clear, Reachable
<1>3. path \in Below(target)
  BY <1>1, <1>2 DEF Below
<1>4. mode[path] = "open" /\ (kind[path] = "dir" => leaked + Len(path) - Len(target) < MaxFds)
  BY <1>3 DEF Clear
<1>5. leaked + Len(path) - Len(target) = Len(frames) + leaked
  BY <1>1, <1>2
<1>6. \A i \in DOMAIN frames : ~ Led(frames[i])
  BY DEF Clear, OnTrack, Led
<1>7. Found(path)
  BY <1>2, <1>6 DEF Found
<1>8. kind[path] = "dir" => Where(path) = path
  BY DEF Where
<1>9. kind[path] = "dir" => FreeFd
  BY <1>4, <1>5 DEF FreeFd
<1> QED
  BY <1>4, <1>7, <1>8, <1>9 DEF Opens, Leads

LEMMA opendirClear ==
    ASSUME DeleteInv, Clear, opendir
    PROVE  Clear'
<1>0. PICK n \in Nat : n = Len(frames)
  BY StackTypes
<1> DEFINE new == [name |-> path, dir |-> path,
                  unread |-> {<<p, kind[p]>> : p \in Entries(path)}, due |-> Entries(path)]
<1>1. /\ pc = "opendir" /\ UNCHANGED <<kind, mode, leaked, path, target>>
      /\ kind[path] = "dir" /\ Len(path) = Len(target) + n /\ Reachable(path)
  BY <1>0 DEF opendir, tree, ghosts, Clear
<1>2. Opens(path) /\ Where(path) = path
  BY <1>0, <1>1, PathClear
<1>3. frames' = Append(frames, new) /\ pc' = "readdir" /\ said' = said
  BY <1>1, <1>2 DEF opendir
<1>4. /\ frames \in Seq(Frame) /\ DOMAIN frames = 1 .. n /\ n \in Nat
      /\ path \in Path /\ target \in Path /\ Len(target) \in Nat
  BY <1>0, StackTypes, PathIsSeq
<1>5. new \in Frame /\ new.name = path /\ new.dir = path /\ new.due = Entries(path)
      /\ new.unread = {<<p, kind[p]>> : p \in Entries(path)}
  BY <1>0, <1>4, StackTypes DEF Frame, Entries, Kind
<1> HIDE DEF new
<1>6. /\ Len(frames') = n + 1 /\ DOMAIN frames' = 1 .. n + 1
      /\ frames'[n + 1] = new /\ \A i \in 1 .. n : frames'[i] = frames[i]
  BY <1>0, <1>3, <1>4, <1>5, AppendProperties, PushStack
<1>7. \A d : Entries(d)' = Entries(d)
  BY <1>1 DEF Entries
<1>8. ASSUME NEW i \in 1 .. n
      PROVE  OnTrack(i)'
  <2>1. OnTrack(i) /\ frames'[i] = frames[i]
    BY <1>0, <1>4, <1>6 DEF Clear
  <2>2. At(i)' = At(i)
    <3>1. CASE i < n
      <4>1. i + 1 \in 1 .. n /\ i < n + 1
        BY <1>4, <3>1
      <4> QED
        BY <1>0, <1>6, <3>1, <4>1 DEF At
    <3>2. CASE i = n
      <4>1. n < n + 1 /\ ~ (n < n)
        BY <1>4
      <4> QED
        BY <1>0, <1>1, <1>5, <1>6, <3>2, <4>1 DEF At
    <3> QED
      BY <1>4, <3>1, <3>2
  <2> QED
    BY <1>1, <2>1, <2>2, TrackSame
<1>9. OnTrack(n + 1)'
  <2>1. At(n + 1)' = {}
    <3>1. ~ (n + 1 < n + 1)
      BY <1>4
    <3> QED
      BY <1>3, <1>6, <3>1 DEF At
  <2>2. Len(path) = Len(target) + (n + 1) - 1
    BY <1>0, <1>1, <1>4
  <2>3. Reachable(path)'
    BY <1>1 DEF Reachable, Denied
  <2> QED
    BY <1>0, <1>1, <1>5, <1>6, <1>7, <2>1, <2>2, <2>3 DEF OnTrack
<1>10. \A i \in DOMAIN frames' : OnTrack(i)'
  <2>1. \A i \in 1 .. n + 1 : i \in 1 .. n \/ i = n + 1
    BY <1>4
  <2> QED
    BY <1>6, <1>8, <1>9, <2>1
<1>11. Below(target)' = Below(target)
  BY <1>1 DEF Below
<1> QED
  BY <1>0, <1>1, <1>3, <1>10, <1>11 DEF Clear

LEMMA readdirClear ==
    ASSUME DeleteInv, Clear, NEW e \in Path \X Kind, readdir(e)
    PROVE  Clear'
<1>0. PICK n \in Nat : n = Len(frames)
  BY StackTypes
<1> DEFINE new == [Top EXCEPT !.unread = {x \in @ : x[1] # e[1]}, !.due = @ \ {e[1]}]
<1>1. /\ pc = "readdir" /\ frames # <<>> /\ e \in Top.unread
      /\ frames' = Append(Front(frames), new)
      /\ path' = e[1] /\ pc' = IF e[2] = "dir" THEN "directory_empty" ELSE "unlink"
      /\ UNCHANGED <<kind, mode, leaked, said, target>>
  BY DEF readdir, DeleteInv, tree, ghosts
<1>2. /\ frames \in Seq(Frame) /\ DOMAIN frames = 1 .. n /\ n \in Nat \ {0} /\ n \in 1 .. n
      /\ target \in Path /\ Len(target) \in Nat
  BY <1>0, <1>1, StackTypes, PathIsSeq
<1>3. /\ Top = frames[n] /\ Top \in Frame /\ Top.dir \in Path /\ Top.due \subseteq Path
      /\ Top.unread \subseteq Path \X Kind
  BY <1>0, <1>2, StackTypes DEF Top
<1>4. /\ new \in Frame /\ new.dir = Top.dir /\ new.name = Top.name
      /\ new.due = Top.due \ {e[1]} /\ new.unread = {x \in Top.unread : x[1] # e[1]}
  BY <1>3 DEF Frame
<1> HIDE DEF new
<1>5. /\ Front(frames) \in Seq(Frame) /\ Len(Front(frames)) = n - 1
      /\ DOMAIN Front(frames) = 1 .. n - 1
      /\ \A i \in DOMAIN Front(frames) : Front(frames)[i] = frames[i]
  BY <1>0, <1>1, <1>2, PopStack
<1>6. /\ Len(frames') = n /\ DOMAIN frames' = 1 .. n
      /\ frames'[n] = new /\ \A i \in 1 .. n - 1 : frames'[i] = frames[i]
      /\ frames' # <<>>
  <2>1. /\ Len(frames') = (n - 1) + 1
        /\ DOMAIN frames' = 1 .. (n - 1) + 1
        /\ \A i \in 1 .. n - 1 : frames'[i] = Front(frames)[i]
        /\ frames'[(n - 1) + 1] = new
    BY <1>0, <1>1, <1>4, <1>5, AppendProperties, PushStack
  <2>2. (n - 1) + 1 = n
    BY <1>2
  <2>3. frames' # <<>>
    BY <1>1, <1>4, <1>5, AppendProperties
  <2> QED
    BY <1>5, <2>1, <2>2, <2>3
<1>7. /\ Entries(Top.dir) = Top.due
      /\ \A x \in Top.unread : x[1] \in Top.due /\ x[2] = kind[x[1]]
      /\ \A p \in Top.due : <<p, kind[p]>> \in Top.unread
      /\ Len(Top.dir) = Len(target) + n - 1 /\ kind[Top.dir] = "dir"
      /\ Top.name = Top.dir /\ Reachable(Top.dir)
  <2>1. OnTrack(n) /\ ~ (n < n)
    BY <1>0, <1>2 DEF Clear
  <2>2. At(n) = {}
    BY <1>0, <1>1, <2>1 DEF At
  <2> QED
    BY <1>0, <1>3, <2>1, <2>2 DEF OnTrack
<1>8. e[1] \in Top.due /\ e[2] = kind[e[1]] /\ e[1] \in Path /\ e[2] \in Kind
  BY <1>1, <1>7
<1>9. \A d : Entries(d)' = Entries(d)
  BY <1>1 DEF Entries
<1>10. pc' # "readdir" /\ pc' # "rmdir" /\ pc' # "prompt"
  BY <1>1
<1>11. ASSUME NEW i \in 1 .. n - 1
       PROVE  OnTrack(i)'
  <2>1. OnTrack(i) /\ frames'[i] = frames[i] /\ i < n
    BY <1>0, <1>2, <1>6 DEF Clear
  <2>2. frames'[i + 1].dir = frames[i + 1].dir
    <3>1. i + 1 \in 1 .. n - 1 \/ i + 1 = n
      BY <1>2
    <3> QED
      BY <1>3, <1>4, <1>6, <3>1
  <2>3. At(i)' = At(i)
    BY <1>0, <1>6, <2>1, <2>2 DEF At
  <2> QED
    BY <1>1, <2>1, <2>3, TrackSame
<1>12. OnTrack(n)'
  <2>1. At(n)' = {e[1]}
    <3>1. ~ (n < n)
      BY <1>2
    <3> QED
      BY <1>1, <1>6, <1>10, <3>1 DEF At
  <2>2. new.due \union {e[1]} = Top.due /\ new.due \intersect {e[1]} = {}
    BY <1>4, <1>8
  <2>3. \A x \in new.unread : x[1] \in new.due /\ x[2] = kind[x[1]]
    BY <1>4, <1>7
  <2>4. \A p \in new.due : <<p, kind[p]>> \in new.unread
    BY <1>4, <1>7
  <2>5. Reachable(Top.dir)'
    <3>1. PICK d : d = Top.dir
      OBVIOUS
    <3>2. Reachable(d)'
      BY <1>1, <1>7, <3>1 DEF Reachable, Denied
    <3>3. frames'[n].dir = d /\ Top'.dir = d
      BY <1>0, <1>4, <1>6, <3>1 DEF Top
    <3> QED
      BY <3>2, <3>3
  <2> QED
    BY <1>0, <1>1, <1>4, <1>6, <1>7, <1>9, <2>1, <2>2, <2>3, <2>4, <2>5 DEF OnTrack, Top
<1>13. \A i \in DOMAIN frames' : OnTrack(i)'
  <2>1. \A i \in 1 .. n : i \in 1 .. n - 1 \/ i = n
    BY <1>2
  <2> QED
    BY <1>6, <1>11, <1>12, <2>1
<1>14. Len(path') = Len(target) + n
  <2>1. Parent(e[1]) = Top.dir /\ Len(e[1]) \in Nat /\ Len(Parent(e[1])) = Len(e[1]) - 1
    BY <1>7, <1>8, ParentIs DEF Entries
  <2> QED
    BY <1>1, <1>2, <1>7, <2>1
<1>15. kind[path'] \in IF pc' = "unlink" THEN {"file", "link"} ELSE {"dir"}
  BY <1>1, <1>8 DEF Kind
<1>16. Below(target)' = Below(target)
  BY <1>1 DEF Below
<1>17. Reachable(path)'
  <2>1. Parent(e[1]) = Top.dir /\ IsPrefix(target, e[1])
    BY <1>2, <1>7, <1>8, ChildBelow DEF Entries, Reachable
  <2>2. Top.dir \in Below(target)
    BY <1>3, <1>7 DEF Below, Reachable
  <2>3. mode[Top.dir] = "open" /\ ~ Denied(Top.dir)
    BY <1>7, <2>2 DEF Clear, Reachable
  <2>4. ~ Denied(e[1])
    BY <1>8, <2>1, <2>3, EntryDenied
  <2> QED
    BY <1>1, <2>1, <2>4 DEF Reachable, Denied
<1> QED
  BY <1>0, <1>1, <1>6, <1>10, <1>13, <1>14, <1>15, <1>16, <1>17 DEF Clear

LEMMA closedirClear ==
    ASSUME DeleteInv, Clear, closedir
    PROVE  Clear'
<1>0. PICK n \in Nat : n = Len(frames)
  BY StackTypes
<1>1. /\ pc = "readdir" /\ frames # <<>> /\ Top.due = {}
      /\ frames' = Front(frames) /\ path' = Top.name /\ pc' = "rmdir"
      /\ UNCHANGED <<kind, mode, leaked, said, target>>
  BY DEF closedir, DeleteInv, tree, ghosts
<1>2. /\ frames \in Seq(Frame) /\ DOMAIN frames = 1 .. n /\ n \in Nat \ {0} /\ n \in 1 .. n
      /\ target \in Path /\ Len(target) \in Nat /\ Top = frames[n]
  BY <1>0, <1>1, StackTypes, PathIsSeq DEF Top
<1>3. /\ Len(frames') = n - 1 /\ DOMAIN frames' = 1 .. n - 1
      /\ \A i \in 1 .. n - 1 : frames'[i] = frames[i]
  <2>1. /\ Len(Front(frames)) = n - 1 /\ DOMAIN Front(frames) = 1 .. n - 1
        /\ \A i \in DOMAIN Front(frames) : Front(frames)[i] = frames[i]
    BY <1>0, <1>1, <1>2, PopStack
  <2> QED
    BY <1>1, <2>1
<1>4. /\ Entries(Top.dir) = {} /\ Len(Top.dir) = Len(target) + n - 1 /\ kind[Top.dir] = "dir"
      /\ Top.name = Top.dir /\ Reachable(Top.dir)
  <2>1. OnTrack(n) /\ ~ (n < n)
    BY <1>0, <1>2 DEF Clear
  <2>2. At(n) = {}
    BY <1>0, <1>1, <2>1 DEF At
  <2> QED
    BY <1>0, <1>1, <1>2, <2>1, <2>2 DEF OnTrack
<1>5. \A d : Entries(d)' = Entries(d)
  BY <1>1 DEF Entries
<1>6. ASSUME NEW i \in 1 .. n - 1
      PROVE  OnTrack(i)'
  <2>1. OnTrack(i) /\ frames'[i] = frames[i] /\ i < n
    BY <1>0, <1>2, <1>3 DEF Clear
  <2>2. At(i) = {frames[i + 1].dir}
    BY <1>0, <2>1 DEF At
  <2>3. At(i)' = At(i)
    <3>1. CASE i < n - 1
      <4>1. i + 1 \in 1 .. n - 1
        BY <1>2, <3>1
      <4> QED
        BY <1>3, <2>2, <3>1, <4>1 DEF At
    <3>2. CASE ~ (i < n - 1)
      <4>1. i + 1 = n
        BY <1>2, <3>2
      <4>2. At(i)' = {path'}
        BY <1>1, <1>3, <3>2 DEF At
      <4> QED
        BY <1>1, <1>2, <1>4, <2>2, <4>1, <4>2
    <3> QED
      BY <3>1, <3>2
  <2> QED
    BY <1>1, <2>1, <2>3, TrackSame
<1>7. Len(path') = Len(target) + Len(frames')
  BY <1>0, <1>1, <1>2, <1>3, <1>4
<1>8. Entries(path)' = {} /\ kind[path]' = "dir" /\ Reachable(path)'
  BY <1>1, <1>4 DEF Entries, Reachable, Denied
<1>9. Below(target)' = Below(target)
  BY <1>1 DEF Below
<1> QED
  BY <1>0, <1>1, <1>3, <1>6, <1>7, <1>8, <1>9 DEF Clear

LEMMA directory_emptyClear ==
    ASSUME DeleteInv, Clear, directory_empty
    PROVE  Clear' /\ pc' # "prompt"
<1>1. /\ pc = "directory_empty" /\ frames # <<>> /\ kind[path] = "dir"
      /\ UNCHANGED <<kind, mode, frames, leaked, path, target>>
  BY DEF directory_empty, Clear, tree, streams, ghosts
<1>2. \/ IsEmpty(path) /\ pc' = "rmdir" /\ UNCHANGED said
      \/ pc' = "opendir" /\ UNCHANGED said
  BY <1>1 DEF directory_empty
<1>3. \A d : Entries(d)' = Entries(d)
  BY <1>1 DEF Entries
<1>4. \A i : At(i)' = At(i)
  BY <1>1, <1>2 DEF At
<1>5. \A i \in DOMAIN frames' : OnTrack(i)'
  BY <1>1, <1>4, TrackSame DEF Clear
<1>6. Below(target)' = Below(target)
  BY <1>1 DEF Below
<1>7. pc' = "rmdir" => Entries(path)' = {}
  BY <1>1, <1>2, <1>3 DEF IsEmpty, Where
<1>8. Reachable(path)'
  BY <1>1 DEF Clear, Reachable, Denied
<1> QED
  BY <1>1, <1>2, <1>5, <1>6, <1>7, <1>8 DEF Clear

\* An entry that has been removed was due in no stream.
LEMMA RemovedClear ==
    ASSUME DeleteInv, Clear, pc # "prompt", pc # "readdir", frames # <<>>,
           kind' = [kind EXCEPT ![path] = "none"], frames' = NotDue(path), Resume,
           UNCHANGED <<mode, leaked, path, said, ghosts>>
    PROVE  Clear'
<1>0. PICK n \in Nat : n = Len(frames)
  BY StackTypes
<1>1. pc' = "readdir" /\ UNCHANGED <<mode, leaked, path, said, target>>
  BY DEF Resume, ghosts
<1>2. /\ DOMAIN frames = 1 .. n /\ path \in Path /\ target \in Path
      /\ Len(target) \in Nat /\ Len(path) = Len(target) + n
      /\ \A i \in 1 .. n :
            /\ frames[i] \in Frame /\ frames[i].dir \in Path
            /\ frames[i].unread \subseteq Path \X Kind /\ frames[i].due \subseteq Path
  BY <1>0, StackTypes, PathIsSeq DEF Clear
<1>3. Len(frames') = n /\ DOMAIN frames' = 1 .. n
  <2>1. frames' \in Seq(Frame) /\ Len(frames') = n
    BY <1>0, NotDueKeeps DEF DeleteInv
  <2> QED
    BY <2>1, LenProperties
<1>4. \A i \in 1 .. n : /\ frames'[i].dir = frames[i].dir
                        /\ frames'[i].name = frames[i].name
                        /\ frames'[i].unread = frames[i].unread
                        /\ frames'[i].due = frames[i].due \ {path}
  BY <1>2 DEF NotDue, Frame
<1>5. kind'[path] = "none" /\ \A q \in Path : q # path => kind'[q] = kind[q]
  BY <1>2, StackTypes
<1>6. \A d : Entries(d)' = Entries(d) \ {path}
  BY <1>2, <1>5 DEF Entries
<1>7. ASSUME NEW i \in 1 .. n
      PROVE  OnTrack(i)'
  <2>1. OnTrack(i)
    BY <1>2 DEF Clear
  <2>2. /\ kind[frames[i].dir] = "dir" /\ Len(frames[i].dir) = Len(target) + i - 1
        /\ frames[i].name = frames[i].dir /\ Reachable(frames[i].dir)
        /\ Entries(frames[i].dir) = frames[i].due \union At(i)
        /\ frames[i].due \intersect At(i) = {}
        /\ \A e \in frames[i].unread : e[1] \in frames[i].due /\ e[2] = kind[e[1]]
        /\ \A p \in frames[i].due : <<p, kind[p]>> \in frames[i].unread
    BY <2>1 DEF OnTrack
  <2>3. frames[i].dir # path
    BY <1>2, <2>2
  <2>4. path \notin frames[i].due
    <3>1. CASE i = n
      <4>1. At(i) = {path}
        BY <1>0, <3>1 DEF At
      <4> QED
        BY <2>2, <4>1
    <3>2. CASE i # n
      <4>1. path \in frames[i].due => Parent(path) = frames[i].dir
        BY <2>2 DEF Entries
      <4>2. Len(Parent(path)) = Len(path) - 1
        BY <1>2, ParentIs
      <4> QED
        BY <1>2, <2>2, <3>2, <4>1, <4>2
    <3> QED
      BY <3>1, <3>2
  <2>5. At(i)' = At(i) \ {path}
    <3>1. CASE i < n
      <4>1. i + 1 \in 1 .. n
        BY <3>1
      <4>2. At(i) = {frames[i + 1].dir} /\ At(i)' = {frames[i + 1].dir}
        BY <1>0, <1>3, <1>4, <3>1, <4>1 DEF At
      <4>3. frames[i + 1].dir # path
        <5>1. OnTrack(i + 1)
          BY <1>2, <4>1 DEF Clear
        <5>2. Len(frames[i + 1].dir) = Len(target) + (i + 1) - 1
          BY <5>1 DEF OnTrack
        <5> QED
          BY <1>2, <3>1, <5>2
      <4> QED
        BY <4>2, <4>3
    <3>2. CASE ~ (i < n)
      BY <1>0, <1>1, <1>3, <3>2 DEF At
    <3> QED
      BY <3>1, <3>2
  <2>6. frames'[i].dir = frames[i].dir /\ frames'[i].unread = frames[i].unread
        /\ frames'[i].due = frames[i].due
    BY <1>4, <2>4
  <2>7. \A e \in frames[i].unread : kind'[e[1]] = kind[e[1]]
    BY <1>2, <1>5, <2>2, <2>4
  <2>8. \A p \in frames[i].due : kind'[p] = kind[p]
    BY <1>2, <1>5, <2>4
  <2>9. kind'[frames[i].dir] = "dir"
    BY <1>2, <1>5, <2>2, <2>3
  <2>10. Entries(frames[i].dir)' = frames[i].due \union At(i)'
    <3>1. frames[i].dir' = frames[i].dir
      BY <2>6
    <3> QED
      BY <1>6, <2>2, <2>4, <2>5, <3>1
  <2>11. frames[i].due \intersect At(i)' = {}
    BY <2>2, <2>5
  <2>12. Len(frames'[i].dir) = Len(target') + i - 1
    BY <1>1, <2>2, <2>6
  <2>13. \A e \in frames'[i].unread : e[1] \in frames'[i].due /\ e[2] = kind'[e[1]]
    BY <2>2, <2>6, <2>7
  <2>14. \A p \in frames'[i].due : <<p, kind'[p]>> \in frames'[i].unread
    BY <2>2, <2>6, <2>8
  <2>15. frames'[i].name = frames'[i].dir
    BY <1>4, <2>2
  <2>16. Reachable(frames[i].dir)'
    BY <1>1, <2>2, <2>6 DEF Reachable, Denied
  <2> QED
    BY <2>6, <2>9, <2>10, <2>11, <2>12, <2>13, <2>14, <2>15, <2>16 DEF OnTrack
<1>8. \A d \in Below(target)' : d \in Below(target) /\ kind'[d] = kind[d]
  BY <1>1, <1>2, <1>5 DEF Below
<1> QED
  BY <1>1, <1>3, <1>7, <1>8 DEF Clear

\* What a step of delete takes away when it is not given up.
LEMMA ClearRemoves ==
    ASSUME DeleteInv, Clear, unlink \/ rmdir
    PROVE  /\ pc # "prompt" /\ pc # "readdir"
           /\ kind' = [kind EXCEPT ![path] = "none"] /\ frames' = NotDue(path) /\ Resume
           /\ UNCHANGED <<mode, leaked, path, said, ghosts>>
           /\ Entries(path) = {} \/ kind[path] # "dir"
           /\ frames = <<>> => rmdir /\ Entries(path) = {}
<1>1. CASE unlink
  <2>1. pc = "unlink"
    BY <1>1 DEF unlink
  <2>2. mode[path] = "open" /\ Found(path) /\ kind[path] # "dir" /\ frames # <<>>
    BY <2>1, PathClear DEF Clear
  <2> QED
    BY <1>1, <2>1, <2>2 DEF unlink, Unlinks
<1>2. CASE rmdir
  <2>1. pc = "rmdir"
    BY <1>2 DEF rmdir
  <2>2. mode[path] = "open" /\ Found(path) /\ kind[path] = "dir" /\ Entries(path) = {}
    BY <2>1, PathClear DEF Clear
  <2> QED
    BY <1>2, <2>1, <2>2 DEF rmdir, Removable
<1> QED
  BY <1>1, <1>2

\* A step of delete goes on clearly or ends the command with the tree removed.
LEMMA ShellClear ==
    ASSUME DeleteInv, IsTree(kind), Clear, Shell, pc # "prompt"
    PROVE  /\ pc' # "prompt" => Clear'
           /\ pc' = "prompt" => ~ said' /\ Below(path)' = {}
<1>1. CASE opendir
  BY <1>1, opendirClear DEF opendir
<1>2. CASE closedir
  BY <1>2, closedirClear DEF closedir
<1>3. CASE directory_empty
  BY <1>3, directory_emptyClear
<1>4. ASSUME NEW e \in Path \X Kind, readdir(e)
      PROVE  Clear' /\ pc' # "prompt"
  BY <1>4, readdirClear DEF readdir
<1>5. CASE unlink \/ rmdir
  <2>1. CASE frames # <<>>
    <3>1. Clear'
      BY <1>5, <2>1, ClearRemoves, RemovedClear
    <3>2. Resume
      BY <1>5, ClearRemoves
    <3> QED
      BY <2>1, <3>1, <3>2 DEF Resume
  <2>2. CASE frames = <<>>
    <3>1. /\ pc' = "prompt" /\ kind' = [kind EXCEPT ![path] = "none"] /\ path' = path
          /\ said' = said /\ Entries(path) = {}
      BY <1>5, <2>2, ClearRemoves DEF Resume
    <3>2. ~ said'
      BY <3>1 DEF Clear
    <3>3. path \in Path /\ kind \in [Path -> Kind \union {"none"}]
      BY StackTypes
    <3>4. \A p \in Below(path) : p = path
      BY <3>1, <3>3, NothingBelow
    <3>5. Below(path)' = {}
      BY <3>1, <3>3, <3>4 DEF Below
    <3> QED
      BY <3>1, <3>2, <3>5
  <2> QED
    BY <2>1, <2>2
<1> QED
  BY <1>1, <1>2, <1>3, <1>4, <1>5 DEF Shell

\* Nobody but delete goes on with it, and the others count what they do.
LEMMA OthersDisturb ==
    ASSUME DeleteInv, NEW p \in Path, Unmake(p) \/ \E k \in Kind : Make(p, k)
    PROVE  pc' = pc /\ ~ Undisturbed'
<1>1. Meddle
  BY DEF Make, Unmake
<1>2. meddled \in Nat
  BY ConstantsAssumption DEF DeleteInv, TypeOK
<1> QED
  BY <1>1, <1>2 DEF Meddle, Undisturbed

LEMMA DeleteIsClear ==
    ASSUME DeleteInv, NEW p \in Path, NEW r \in BOOLEAN, delete(p, r), Undisturbed'
    PROVE  Clear'
<1>1. /\ r /\ kind[p] = "dir" /\ Easy(p) /\ ~ Denied(p)
      /\ pc' = "opendir" /\ ~ said' /\ path' = p /\ target' = p
      /\ frames = <<>> /\ UNCHANGED <<kind, mode, frames, leaked>>
  BY DEF delete, Undisturbed, DeleteInv, tree, streams, Found, Where
<1>2. /\ \A d \in Below(p) : mode[d] = "open"
      /\ \A d \in Below(p) : kind[d] = "dir" => leaked + Len(d) - Len(p) < MaxFds
  BY <1>1 DEF Easy
<1>3. Below(target)' = Below(p)
  BY <1>1 DEF Below
<1>4. Len(frames') = 0 /\ DOMAIN frames' = {} /\ Len(path') = Len(target') + 0
  BY <1>1, PathIsSeq
<1>5. IsPrefix(p, p)
  BY PathIsSeq, PrefixIs
<1>6. Reachable(path)'
  BY <1>1, <1>5 DEF Reachable, Denied
<1> QED
  BY <1>1, <1>2, <1>3, <1>4, <1>6 DEF Clear

\* What there is stays a tree.
LEMMA TreeKeeps ==
    ASSUME ListInv, IsTree(kind), [ListNext]_allvars
    PROVE  IsTree(kind')
<1>1. kind \in [Path -> Kind \union {"none"}] /\ path \in Path
  BY DEF ListInv, DeleteInv, TypeOK
<1>2. CASE UNCHANGED kind
  BY <1>2
<1>3. ASSUME NEW p \in Path, NEW k \in Kind, Make(p, k)
      PROVE  IsTree(kind')
  BY <1>1, <1>3, MakeKeepsTree DEF Make
<1>4. ASSUME NEW p \in Path, Unmake(p)
      PROVE  IsTree(kind')
  BY <1>1, <1>4, RemoveKeepsTree DEF Unmake
<1>5. CASE Shell
  <2>1. CASE unlink
    BY <1>1, <1>2, <2>1, RemoveKeepsTree DEF unlink, Unlinks, GiveUp, tree
  <2>2. CASE rmdir
    BY <1>1, <1>2, <2>2, RemoveKeepsTree DEF rmdir, Removable, GiveUp, tree
  <2> QED
    BY <1>2, <1>5, <2>1, <2>2 DEF Shell, opendir, readdir, closedir, directory_empty, tree
<1>6. UNCHANGED allvars => UNCHANGED kind
  BY DEF allvars, vars, tree
<1>7. Listing => UNCHANGED kind
  BY DEF Listing, vars, tree
<1>8. ASSUME NEW p \in Path, list(p) \/ query(p)
      PROVE  UNCHANGED kind
  BY <1>6, <1>8 DEF list, query, tree
<1>9. ASSUME NEW p \in Path, NEW r \in BOOLEAN, delete(p, r)
      PROVE  UNCHANGED kind
  BY <1>9 DEF delete, tree
<1> QED
  BY <1>2, <1>3, <1>4, <1>5, <1>6, <1>7, <1>8, <1>9 DEF ListNext, Deleting, Adopt, Lose

\* No other step ends such a command.
LEMMA OnlyShellEnds ==
    ASSUME ListInv, [ListNext]_allvars, pc # "prompt", pc' = "prompt"
    PROVE  Shell
<1>1. UNCHANGED allvars => pc' = pc
  BY DEF allvars, vars
<1>2. Listing => pc' = pc
  BY DEF Listing, vars
<1>3. \A p \in Path : ~ list(p) /\ ~ query(p)
  BY DEF list, query
<1>4. \A p \in Path, k \in Kind : Adopt(p, k) => pc' = pc
  BY DEF Adopt, Make, Meddle
<1>5. \A p \in Path : Lose(p) => pc' = pc
  BY DEF Lose, Unmake, Meddle
<1>6. \A p \in Path, r \in BOOLEAN : ~ delete(p, r)
  BY DEF delete
<1> QED
  BY <1>1, <1>2, <1>3, <1>4, <1>5, <1>6 DEF ListNext, Deleting

LEMMA CompleteKeeps ==
    ASSUME ListInv, CompleteInv, [ListNext]_allvars
    PROVE  CompleteInv'
<1> SUFFICES ASSUME Undisturbed'
             PROVE  Clear'
  BY TreeKeeps DEF CompleteInv
<1>1. DeleteInv /\ IsTree(kind)
  BY DEF ListInv, CompleteInv
<1>2. CASE UNCHANGED vars
  <2>1. UNCHANGED <<kind, mode, frames, leaked, pc, path, said, target, easy, meddled>>
    BY <1>2 DEF vars, tree, streams, ghosts
  <2>2. Clear
    BY <2>1 DEF Undisturbed, CompleteInv
  <2> QED
    BY <2>1, <2>2 DEF Clear, OnTrack, At, Entries, Below, Reachable, Denied
<1>3. ASSUME NEW p \in Path, NEW r \in BOOLEAN, delete(p, r)
      PROVE  Clear'
  BY <1>1, <1>3, DeleteIsClear
<1>4. CASE Shell
  <2>1. UNCHANGED <<easy, meddled>>
    BY <1>4 DEF Shell, opendir, readdir, closedir, directory_empty, unlink, rmdir, GiveUp, ghosts
  <2>2. pc # "prompt"
    BY <1>4 DEF Shell, opendir, readdir, closedir, directory_empty, unlink, rmdir
  <2>3. Clear
    BY <2>1, <2>2 DEF Undisturbed, CompleteInv
  <2> QED
    BY <1>1, <1>4, <2>2, <2>3, ShellClear DEF Undisturbed
<1>5. ASSUME NEW p \in Path, Unmake(p) \/ \E k \in Kind : Make(p, k)
      PROVE  FALSE
  BY <1>1, <1>5, OthersDisturb
<1>6. ASSUME NEW p \in Path, list(p)
      PROVE  FALSE
  BY <1>6 DEF list, Undisturbed
<1>7. (UNCHANGED allvars \/ Listing \/ \E p \in Path : query(p)) => UNCHANGED vars
  BY DEF allvars, Listing, query
<1> QED
  BY <1>2, <1>3, <1>4, <1>5, <1>6, <1>7 DEF ListNext, Deleting, Adopt, Lose

\* delete -r of a directory, not of a link to one, of whose tree all is open, which
\* nobody disturbs and for whose levels there are streams, removes all of it, links
\* too, without a message
\* (delete_recursive, libs/delete.c).
THEOREM DeletesAll == ListSpec => Complete
<1>1. ListInit => CompleteInv
  BY DEF ListInit, Init, CompleteInv, Undisturbed
<1>2. ListInv /\ CompleteInv /\ [ListNext]_allvars => CompleteInv'
  BY CompleteKeeps
<1>3. ListInv /\ CompleteInv /\ [ListNext]_allvars =>
        [pc # "prompt" /\ pc' = "prompt" /\ easy /\ meddled = 0
            => ~ said' /\ Below(path)' = {}]_vars
  <2> SUFFICES ASSUME ListInv, CompleteInv, [ListNext]_allvars,
                      pc # "prompt", pc' = "prompt", easy, meddled = 0
               PROVE  ~ said' /\ Below(path)' = {}
    OBVIOUS
  <2>1. Shell
    BY OnlyShellEnds
  <2>2. DeleteInv /\ IsTree(kind) /\ Clear
    BY DEF ListInv, CompleteInv, Undisturbed
  <2> QED
    BY <2>1, <2>2, ShellClear
<1> QED
  BY <1>1, <1>2, <1>3, ListInvariant, PTL DEF ListSpec, Complete

-----------------------------------------------------------------------------
(* list -r of a tree that nobody disturbs.                                 *)

Walking == lpc \in {"opendir", "readdir", "query_file"} /\ lmeddled = 0

\* The entry of its directory that call i of walk_recur is at.
WalkAt(i) ==
    IF i < Len(walks) THEN {walks[i + 1].dir} ELSE IF lpc = "readdir" THEN {} ELSE {fn}

\* Where the walk begins.
Start == Where(operand)

Inside(p) == p = Start \/ p \in Reached(Start)

Untouched(p) == \A q \in listed : ~ IsPrefix(p, q)

Done(p) == p \in listed /\ Reached(p) \subseteq listed

\* What a call has yet to return is untouched; what it has returned is done, but
\* for the hidden entries, the links and the one it is at.
InOrder(i) ==
    /\ i = 1 \/ walks[i].name = walks[i].dir
    /\ Inside(walks[i].dir) /\ Len(walks[i].dir) = Len(Start) + i - 1
    /\ \A j \in 1 .. i : IsPrefix(walks[j].dir, walks[i].dir)
    /\ walks[i].unread = walks[i].due
    /\ walks[i].due \union WalkAt(i) \subseteq Entries(walks[i].dir)
    /\ walks[i].due \intersect WalkAt(i) = {}
    /\ WalkAt(i) \intersect (Hidden \union listed) = {}
    /\ \A e \in walks[i].due : Untouched(e)
    /\ ~ warned => \A e \in Entries(walks[i].dir) \ (walks[i].due \union WalkAt(i)) :
                       e \in Hidden \/ kind[e] = "link" \/ Done(e)

Walked ==
    /\ ~ gone
    /\ \A i \in DOMAIN walks : InOrder(i)
    /\ listed \subseteq Reached(Start)
    /\ Fits(Start) => ~ warned
    /\ lpc # "readdir" =>
          /\ Inside(Where(fn)) /\ Len(Where(fn)) = Len(Start) + Len(walks)
          /\ walks # <<>> => kind[fn] # "link"
    /\ lpc = "opendir" => Untouched(Where(fn))
    /\ lpc = "query_file" => (~ warned => Reached(fn) \subseteq listed)

WalkInv ==
    /\ Walking => Walked
    /\ lpc = "prompt" => listed = {} /\ ~ warned /\ lmeddled = 0 /\ ~ gone

\* Of one length, only one path has p at or below it.
LEMMA OnePrefix ==
    ASSUME NEW d \in Path, NEW e \in Path, NEW p \in Path,
           IsPrefix(d, p), IsPrefix(e, p), Len(d) = Len(e)
    PROVE  d = e
<1>1. d \in Seq(STRING) /\ e \in Seq(STRING) /\ p \in Seq(STRING)
  BY PathIsSeq
<1>2. \A i \in 1 .. Len(d) : d[i] = p[i]
  BY <1>1, PrefixIs
<1>3. \A i \in 1 .. Len(e) : e[i] = p[i]
  BY <1>1, PrefixIs
<1>4. \A i \in 1 .. Len(d) : d[i] = e[i]
  BY <1>2, <1>3
<1> QED
  BY <1>1, <1>4, SeqEqual

LEMMA BelowItself ==
    ASSUME NEW p \in Path
    PROVE  IsPrefix(p, p)
  BY PathIsSeq, PrefixIs

\* What lies at or below an entry lies below its directory.
LEMMA BelowEntry ==
    ASSUME NEW d \in Path, NEW e \in Entries(d), NEW p \in Path, IsPrefix(e, p)
    PROVE  IsPrefix(d, p)
<1>1. e \in Path /\ Parent(e) = d
  BY DEF Entries
<1>2. /\ e \in Seq(STRING) /\ p \in Seq(STRING) /\ d \in Seq(STRING)
      /\ Len(e) \in Nat \ {0} /\ Len(d) = Len(e) - 1 /\ \A i \in 1 .. Len(e) - 1 : d[i] = e[i]
      /\ Len(p) \in Nat
  BY <1>1, ParentIs
<1>3. Len(e) <= Len(p) /\ \A i \in 1 .. Len(e) : e[i] = p[i]
  BY <1>2, PrefixIs
<1>4. Len(d) <= Len(p) /\ \A i \in 1 .. Len(d) : d[i] = p[i]
  BY <1>2, <1>3
<1> QED
  BY <1>2, <1>4, PrefixIs

\* A walk that comes to a directory comes to its entries.
LEMMA ReachedEntry ==
    ASSUME NEW t \in Path, NEW d \in Path, d = t \/ d \in Reached(t),
           NEW e \in Entries(d), e \notin Hidden, kind[e] # "link"
    PROVE  e \in Reached(t)
<1>1. e \in Path /\ Parent(e) = d /\ kind[e] # "none"
  BY DEF Entries
<1>2. Len(e) = Len(d) + 1 /\ Len(d) \in Nat /\ Len(t) \in Nat
  <2>1. Len(Parent(e)) = Len(e) - 1 /\ Len(e) \in Nat
    BY <1>1, ParentIs
  <2> QED
    BY <1>1, <2>1, PathIsSeq
<1>3. IsPrefix(t, d) /\ Len(t) <= Len(d)
  <2>1. IsPrefix(t, d)
    BY BelowItself DEF Reached, Below
  <2> QED
    BY <2>1, PathIsSeq, PrefixIs
<1>4. IsPrefix(t, e)
  BY <1>1, <1>3, ChildBelow
<1>5. ASSUME NEW h \in Hidden, IsPrefix(h, e)
      PROVE  Len(h) <= Len(t)
  <2>1. h \in Path
    BY HiddenAssumption
  <2>2. Len(e) # Len(h)
    BY <1>1, <1>5, <2>1, SamePath
  <2>3. IsPrefix(h, d)
    BY <1>1, <1>5, <2>1, <2>2, ParentBelow
  <2>4. CASE d = t
    BY <2>1, <2>3, <2>4, PathIsSeq, PrefixIs
  <2>5. CASE d \in Reached(t)
    BY <2>3, <2>5 DEF Reached
  <2> QED
    BY <2>4, <2>5
<1>6. e # t
  BY <1>2, <1>3
<1> QED
  BY <1>1, <1>4, <1>5, <1>6 DEF Reached, Below

Through(d, q) == \E e \in Entries(d) : e \notin Hidden /\ (q = e \/ q \in Reached(e))

\* And only through them to what lies below.
LEMMA ReachedThrough ==
    ASSUME IsTree(kind), NEW d \in Path
    PROVE  \A q \in Reached(d) : Through(d, q)
<1> DEFINE S == {n \in Nat : \A q \in Reached(d) : Len(q) = Len(d) + 1 + n => Through(d, q)}
<1>1. Len(d) \in Nat \ {0} /\ \A p \in Path : Len(p) \in Nat \ {0}
  BY PathIsSeq
<1>2. \A q \in Reached(d) : /\ q \in Path /\ IsPrefix(d, q) /\ q # d
                            /\ kind[q] # "none" /\ kind[q] # "link"
                            /\ \A h \in Hidden : IsPrefix(h, q) => Len(h) <= Len(d)
  BY DEF Reached, Below
<1>3. \A q \in Reached(d) : /\ Len(q) > Len(d) /\ Len(q) > 1
                            /\ Parent(q) \in Path /\ IsPrefix(d, Parent(q))
                            /\ Len(q) = Len(d) + 1 => Parent(q) = d
  <2>1. \A q \in Reached(d) : Len(q) # Len(d)
    BY <1>2, SamePath
  <2> QED
    BY <1>2, <2>1, ParentBelow
<1>4. 0 \in S
  <2>1. ASSUME NEW q \in Reached(d), Len(q) = Len(d) + 1 + 0
        PROVE  Through(d, q)
    <3>1. Len(q) = Len(d) + 1
      BY <1>1, <2>1
    <3>2. q \in Entries(d)
      BY <1>2, <1>3, <3>1 DEF Entries
    <3>3. q \notin Hidden
      BY <1>1, <1>2, <1>3, BelowItself
    <3> QED
      BY <3>2, <3>3 DEF Through
  <2> QED
    BY <2>1
<1>5. ASSUME NEW n \in Nat, n \in S
      PROVE  n + 1 \in S
  <2>1. ASSUME NEW q \in Reached(d), Len(q) = Len(d) + 1 + (n + 1)
        PROVE  Through(d, q)
    <3> DEFINE p == Parent(q)
    <3>1. q \in Path /\ p \in Path /\ IsPrefix(d, p) /\ Len(p) = Len(d) + 1 + n
      <4>1. Len(p) = Len(q) - 1
        BY <1>2, ParentIs
      <4> QED
        BY <1>1, <1>2, <1>3, <2>1, <4>1
    <3>2. kind[p] = "dir"
      BY <1>2, <1>3 DEF IsTree
    <3>3. ASSUME NEW h \in Hidden, IsPrefix(h, p)
          PROVE  Len(h) <= Len(d)
      <4>1. IsPrefix(h, q)
        BY <3>1, <3>3, HiddenAssumption, ChildBelow
      <4> QED
        BY <1>2, <4>1
    <3>4. p # d
      BY <1>1, <3>1
    <3>5. p \in Reached(d)
      <4> HIDE DEF p
      <4> QED
        BY <3>1, <3>2, <3>3, <3>4 DEF Reached, Below
    <3>6. Through(d, p)
      BY <1>5, <3>1, <3>5
    <3>7. PICK e \in Entries(d) : e \notin Hidden /\ (p = e \/ p \in Reached(e))
      BY <3>6 DEF Through
    <3>8. e \in Path /\ Len(e) = Len(d) + 1
      <4>1. e \in Path /\ Parent(e) = d
        BY DEF Entries
      <4>2. Len(Parent(e)) = Len(e) - 1
        BY <4>1, ParentIs
      <4> QED
        BY <1>1, <4>1, <4>2
    <3>9. IsPrefix(e, q)
      <4>1. IsPrefix(e, p)
        BY <3>7, <3>8, BelowItself DEF Reached, Below
      <4> QED
        BY <3>1, <3>8, <4>1, ChildBelow
    <3>10. q # e
      BY <1>1, <2>1, <3>8
    <3>11. \A h \in Hidden : IsPrefix(h, q) => Len(h) <= Len(e)
      <4>1. \A h \in Hidden : Len(h) \in Nat
        BY <1>1, HiddenAssumption
      <4> QED
        BY <1>1, <1>2, <3>8, <4>1
    <3>12. q \in Reached(e)
      BY <1>2, <3>9, <3>10, <3>11 DEF Reached, Below
    <3> QED
      BY <3>7, <3>12 DEF Through
  <2> QED
    BY <2>1
<1>6. ASSUME NEW q \in Reached(d)
      PROVE  Through(d, q)
  <2> DEFINE N == Len(q) - Len(d) - 1
  <2>1. N \in Nat /\ Len(q) = Len(d) + 1 + N
    BY <1>1, <1>2, <1>3
  <2>2. N \in 0 .. N
    BY <2>1
  <2> HIDE DEF S, N
  <2>3. \A m \in 0 .. N - 1 : m \in S => m + 1 \in S
    BY <1>5, <2>1
  <2>4. N \in S
    BY <1>4, <2>1, <2>2, <2>3, UpTo
  <2> QED
    BY <2>1, <2>4 DEF S
<1> QED
  BY <1>6

\* Through a file it comes to nothing.
LEMMA NothingReached ==
    ASSUME IsTree(kind), NEW p \in Path, kind[p] # "dir"
    PROVE  Reached(p) = {}
<1>1. ASSUME NEW q \in Entries(p)
      PROVE  FALSE
  <2>1. q \in Path /\ Parent(q) = p /\ kind[q] # "none"
    BY DEF Entries
  <2>2. Len(Parent(q)) = Len(q) - 1 /\ Len(q) \in Nat /\ Len(p) \in Nat \ {0}
    BY <2>1, ParentIs, PathIsSeq
  <2>3. Len(q) > 1
    BY <2>1, <2>2
  <2> QED
    BY <2>1, <2>3 DEF IsTree
<1>2. \A q \in Below(p) : q = p
  BY <1>1, NothingBelow
<1> QED
  BY <1>2 DEF Reached

\* The types of what Walked speaks of.
LEMMA WalkTypes ==
    ASSUME ListInv
    PROVE  /\ walks \in Seq(Walk) /\ DOMAIN walks = 1 .. Len(walks) /\ Len(walks) \in Nat
           /\ (walks = <<>>) <=> (Len(walks) = 0)
           /\ \A i \in DOMAIN walks :
                 /\ walks[i] \in Walk /\ walks[i].dir \in Path /\ walks[i].name \in Path
                 /\ walks[i].unread \subseteq Path /\ walks[i].due \subseteq Path
           /\ lpc # "prompt" => Start \in Path /\ Len(Start) \in Nat /\ Len(frames) = 0
           /\ lpc \in {"opendir", "query_file"} =>
                 fn \in Path /\ Where(fn) \in Path /\ (kind[fn] # "link" => Where(fn) = fn)
           /\ lpc \in {"readdir", "query_file"} => walks # <<>>
           /\ listed \subseteq Path /\ leaked \in Nat
<1>1. walks \in Seq(Walk) /\ listed \subseteq Path /\ leaked \in Nat
      /\ (lpc # "prompt" => operand \in Path)
  BY DEF ListInv, ListTypeOK, TypeOK
<1>2. DOMAIN walks = 1 .. Len(walks) /\ Len(walks) \in Nat
      /\ \A i \in DOMAIN walks : walks[i] \in Walk
  BY <1>1, LenProperties, ElementOfSeq
<1>3. (walks = <<>>) <=> (Len(walks) = 0)
  BY <1>1, EmptySeq
<1>4. \A i \in DOMAIN walks : /\ walks[i].dir \in Path /\ walks[i].name \in Path
                              /\ walks[i].unread \subseteq Path /\ walks[i].due \subseteq Path
  BY <1>2 DEF Walk
<1>5. lpc # "prompt" => Start \in Path
  BY <1>1, WhereIs DEF Start, ListInv, DeleteInv
<1>6. lpc # "prompt" => Len(Start) \in Nat
  BY <1>5, PathIsSeq
<1>7. lpc \in {"opendir", "query_file"} =>
         fn \in Path /\ Where(fn) \in Path /\ (kind[fn] # "link" => Where(fn) = fn)
  BY WhereIs DEF ListInv, DeleteInv, Apart
<1> QED
  BY <1>1, <1>2, <1>3, <1>4, <1>5, <1>6, <1>7, WalkAlone DEF ListInv, Apart

\* The tree is as it was, and with it what a walk reaches.
LEMMA SameReach ==
    ASSUME UNCHANGED <<kind, mode, leaked>>
    PROVE  /\ \A p : Entries(p)' = Entries(p) /\ Reached(p)' = Reached(p) /\ Where(p)' = Where(p)
           /\ operand' = operand =>
                 /\ Start' = Start /\ Reached(Start)' = Reached(Start)
                 /\ Fits(Start)' <=> Fits(Start)
                 /\ \A p : Inside(p)' <=> Inside(p)
           /\ listed \subseteq listed' => \A p : Done(p) => Done(p)'
           /\ listed' = listed => \A p : Untouched(p) => Untouched(p)'
<1>1. \A p : Entries(p)' = Entries(p) /\ Reached(p)' = Reached(p) /\ Where(p)' = Where(p)
  BY DEF Entries, Reached, Below, Where
<1>2. \A p : Fits(p)' <=> Fits(p)
  BY <1>1 DEF Fits
<1>3. ASSUME operand' = operand
      PROVE  /\ Start' = Start /\ Reached(Start)' = Reached(Start)
             /\ Fits(Start)' <=> Fits(Start)
             /\ \A p : Inside(p)' <=> Inside(p)
  <2>1. PICK t : t = Start
    OBVIOUS
  <2>2. Start' = t
    BY <1>3, <2>1 DEF Start, Where
  <2>3. Reached(t)' = Reached(t) /\ (Fits(t)' <=> Fits(t))
    BY <1>1, <1>2
  <2>4. Reached(Start)' = Reached(Start) /\ (Fits(Start)' <=> Fits(Start))
    BY <2>1, <2>2, <2>3
  <2> QED
    BY <2>1, <2>2, <2>4 DEF Inside
<1>4. listed \subseteq listed' => \A p : Done(p) => Done(p)'
  BY <1>1 DEF Done
<1>5. listed' = listed => \A p : Untouched(p) => Untouched(p)'
  BY DEF Untouched
<1> QED
  BY <1>1, <1>3, <1>4, <1>5

\* A call that stands where it stood is in order as it was.
LEMMA StaysInOrder ==
    ASSUME NEW i \in Nat, InOrder(i), \A j \in 1 .. i : walks'[j].dir = walks[j].dir,
           walks'[i] = walks[i], WalkAt(i)' = WalkAt(i),
           UNCHANGED <<kind, mode, leaked, operand, listed>>, warned => warned'
    PROVE  InOrder(i)'
<1>1. Entries(walks[i].dir)' = Entries(walks[i].dir) /\ (Inside(walks[i].dir) => Inside(walks[i].dir)')
  <2>1. walks[i].dir' = walks[i].dir
    OBVIOUS
  <2> QED
    BY <2>1, SameReach
<1>2. \A j \in 1 .. i : IsPrefix(walks'[j].dir, walks'[i].dir)
  BY DEF InOrder
<1>3. \A e \in walks'[i].due : Untouched(e)'
  BY SameReach DEF InOrder
<1>4. ~ warned' => \A e \in Entries(walks[i].dir)' \ (walks'[i].due \union WalkAt(i)') :
                       e \in Hidden \/ kind'[e] = "link" \/ Done(e)'
  BY <1>1, SameReach DEF InOrder
<1>5. Len(walks'[i].dir) = Len(Start') + i - 1
  BY SameReach DEF InOrder
<1> QED
  BY <1>1, <1>2, <1>3, <1>4, <1>5 DEF InOrder

LEMMA query_fileWalked ==
    ASSUME ListInv, Walked, query_file, UNCHANGED vars
    PROVE  Walked'
<1>0. PICK n \in Nat : n = Len(walks)
  BY WalkTypes
<1>1. /\ lpc = "query_file" /\ lpc' = "readdir"
      /\ listed' = listed \union {fn} /\ ~ gone'
      /\ UNCHANGED <<operand, walks, fn, warned, kind, mode, leaked>>
  <2>1. lpc = "query_file" /\ ~ gone /\ UNCHANGED <<kind, mode, leaked>>
    BY DEF query_file, Walked, vars, tree, streams
  <2>2. Looks(fn)
    BY <2>1, LooksIs DEF ListInv, Unharmed
  <2> QED
    BY <2>1, <2>2 DEF query_file, lghosts
<1>2. /\ DOMAIN walks = 1 .. n /\ n \in 1 .. n /\ fn \in Path
      /\ Len(Start) \in Nat /\ Len(fn) = Len(Start) + n /\ Inside(fn)
      /\ \A i \in 1 .. n : InOrder(i) /\ walks[i].dir \in Path
      /\ ~ warned => Reached(fn) \subseteq listed
      /\ Start' = Start
  <2>1. walks # <<>> /\ n \in 1 .. n /\ kind[fn] # "link"
    BY <1>0, <1>1, WalkTypes DEF Walked
  <2>2. Where(fn) = fn
    BY <1>1, <2>1, WalkTypes
  <2>3. Start' = Start
    BY <1>1, SameReach
  <2> QED
    BY <1>0, <1>1, <2>1, <2>2, <2>3, WalkTypes DEF Walked
<1>3. /\ fn \in Entries(walks[n].dir) /\ fn \notin Hidden \union listed
      /\ fn \notin walks[n].due /\ WalkAt(n) = {fn}
  <2>1. WalkAt(n) = {fn}
    BY <1>0, <1>1 DEF WalkAt
  <2> QED
    BY <1>2, <2>1 DEF InOrder
<1>4. \A i \in 1 .. n : IsPrefix(walks[i].dir, fn)
  <2>1. \A i \in 1 .. n : IsPrefix(walks[i].dir, walks[n].dir)
    BY <1>2 DEF InOrder
  <2>2. Parent(fn) = walks[n].dir
    BY <1>3 DEF Entries
  <2> QED
    BY <1>2, <2>1, <2>2, ChildBelow
<1>5. ASSUME NEW i \in 1 .. n
      PROVE  InOrder(i)'
  <2>1. /\ i = 1 \/ walks[i].name = walks[i].dir
        /\ Inside(walks[i].dir) /\ Len(walks[i].dir) = Len(Start) + i - 1
        /\ \A j \in 1 .. i : IsPrefix(walks[j].dir, walks[i].dir)
        /\ walks[i].unread = walks[i].due
        /\ walks[i].due \union WalkAt(i) \subseteq Entries(walks[i].dir)
        /\ walks[i].due \intersect WalkAt(i) = {}
        /\ WalkAt(i) \intersect (Hidden \union listed) = {}
        /\ \A e \in walks[i].due : Untouched(e)
        /\ ~ warned => \A e \in Entries(walks[i].dir) \ (walks[i].due \union WalkAt(i)) :
                           e \in Hidden \/ kind[e] = "link" \/ Done(e)
    BY <1>2 DEF InOrder
  <2>2. WalkAt(i)' = WalkAt(i) \ {fn}
    <3>1. CASE i < n
      <4>1. i + 1 \in 1 .. n
        BY <3>1
      <4>2. WalkAt(i) = {walks[i + 1].dir} /\ WalkAt(i)' = {walks[i + 1].dir}
        BY <1>0, <1>1, <3>1 DEF WalkAt
      <4>3. Len(walks[i + 1].dir) = Len(Start) + (i + 1) - 1
        BY <1>2, <4>1 DEF InOrder
      <4>4. walks[i + 1].dir # fn
        BY <1>2, <3>1, <4>3
      <4> QED
        BY <4>2, <4>4
    <3>2. CASE i = n
      <4>1. WalkAt(i)' = {}
        BY <1>0, <1>1, <3>2 DEF WalkAt
      <4> QED
        BY <1>3, <3>2, <4>1
    <3> QED
      BY <3>1, <3>2
  <2>3. ASSUME NEW e \in walks[i].due
        PROVE  ~ IsPrefix(e, fn)
    <3>1. e \in Path /\ Parent(e) = walks[i].dir
      BY <2>1 DEF Entries
    <3>2. Len(e) = Len(Start) + i
      <4>1. Len(Parent(e)) = Len(e) - 1 /\ Len(e) \in Nat
        BY <3>1, ParentIs
      <4> QED
        BY <1>2, <2>1, <3>1, <4>1
    <3>3. CASE i = n
      <4>1. Len(fn) = Len(e) /\ e # fn
        BY <1>2, <1>3, <3>2, <3>3
      <4> QED
        BY <1>2, <3>1, <4>1, SamePath
    <3>4. CASE i < n
      <4>1. i + 1 \in 1 .. n
        BY <3>4
      <4>2. WalkAt(i) = {walks[i + 1].dir}
        BY <1>0, <3>4 DEF WalkAt
      <4>3. Len(walks[i + 1].dir) = Len(Start) + (i + 1) - 1
        BY <1>2, <4>1 DEF InOrder
      <4>4. Len(walks[i + 1].dir) = Len(e)
        BY <1>2, <3>2, <4>3
      <4>5. e # walks[i + 1].dir
        BY <2>1, <4>2
      <4> QED
        BY <1>2, <1>4, <3>1, <4>1, <4>4, <4>5, OnePrefix
    <3> QED
      BY <3>3, <3>4
  <2>4. walks'[i] = walks[i] /\ \A j \in 1 .. i : walks'[j] = walks[j]
    BY <1>1
  <2>5. Inside(walks[i].dir)' /\ Entries(walks[i].dir)' = Entries(walks[i].dir)
    <3>1. walks[i].dir' = walks[i].dir
      BY <2>4
    <3> QED
      BY <1>1, <2>1, <3>1, SameReach
  <2>6. \A e \in walks'[i].due : Untouched(e)'
    BY <1>1, <2>1, <2>3, <2>4 DEF Untouched
  <2>7. Done(fn)' \/ warned'
    <3>1. Reached(fn)' = Reached(fn)
      <4>1. fn' = fn
        BY <1>1
      <4> QED
        BY <1>1, <4>1, SameReach
    <3> QED
      BY <1>1, <1>2, <3>1 DEF Done
  <2>8. ~ warned' => \A e \in Entries(walks[i].dir)' \ (walks'[i].due \union WalkAt(i)') :
                         e \in Hidden \/ kind'[e] = "link" \/ Done(e)'
    <3> SUFFICES ASSUME ~ warned',
                        NEW e \in Entries(walks[i].dir)' \ (walks'[i].due \union WalkAt(i)')
                 PROVE  e \in Hidden \/ kind'[e] = "link" \/ Done(e)'
      OBVIOUS
    <3>1. CASE e = fn
      <4>1. Done(fn)' /\ fn' = fn
        BY <1>1, <2>7
      <4> QED
        BY <3>1, <4>1
    <3>2. CASE e # fn
      <4>1. e \in Hidden \/ kind[e] = "link" \/ Done(e)
        BY <1>1, <2>1, <2>2, <2>4, <2>5, <3>2
      <4> QED
        BY <1>1, <4>1, SameReach
    <3> QED
      BY <3>1, <3>2
  <2>9. WalkAt(i)' \intersect (Hidden \union listed') = {}
    BY <1>1, <2>1, <2>2
  <2> QED
    BY <1>1, <1>2, <2>1, <2>2, <2>4, <2>5, <2>6, <2>8, <2>9 DEF InOrder
<1>6. listed' \subseteq Reached(Start)'
  <2>1. fn \in Reached(Start)
    BY <1>2 DEF Inside
  <2>2. Reached(Start)' = Reached(Start)
    BY <1>1, SameReach
  <2> QED
    BY <1>1, <2>1, <2>2 DEF Walked
<1>7. Fits(Start)' => ~ warned'
  <2>1. Fits(Start)' <=> Fits(Start)
    BY <1>1, SameReach
  <2> QED
    BY <1>1, <2>1 DEF Walked
<1> QED
  BY <1>1, <1>2, <1>5, <1>6, <1>7 DEF Walked

LEMMA walk_opendirWalked ==
    ASSUME ListInv, IsTree(kind), Walked, walk_opendir, UNCHANGED vars, lpc' # "exited"
    PROVE  Walked'
<1>0. PICK n \in Nat : n = Len(walks)
  BY WalkTypes
<1>00. PICK t : t = Where(fn)
  OBVIOUS
<1> DEFINE new == [name |-> fn, dir |-> t, unread |-> Entries(t), due |-> Entries(t)]
<1>1. /\ lpc = "opendir" /\ UNCHANGED <<operand, fn, listed, kind, mode, leaked>>
      /\ ~ gone /\ ~ gone' /\ kind[t] = "dir" /\ Untouched(t) /\ Inside(t)
      /\ Len(t) = Len(Start) + n /\ (walks # <<>> => kind[fn] # "link")
  <2>1. lpc = "opendir" /\ ~ gone /\ UNCHANGED <<operand, fn, listed, kind, mode, leaked, gone>>
    BY DEF walk_opendir, Walked, lghosts, vars, tree, streams
  <2>2. kind[Where(fn)] = "dir"
    BY <2>1 DEF ListInv, Unharmed
  <2>3. Untouched(Where(fn)) /\ Inside(Where(fn)) /\ Len(Where(fn)) = Len(Start) + Len(walks)
    BY <2>1 DEF Walked
  <2>4. walks # <<>> => kind[fn] # "link"
    BY <2>1 DEF Walked
  <2> QED
    BY <1>0, <1>00, <2>1, <2>2, <2>3, <2>4
<1>2. /\ walks \in Seq(Walk) /\ DOMAIN walks = 1 .. n /\ fn \in Path /\ t \in Path
      /\ Start \in Path /\ Len(Start) \in Nat /\ leaked \in Nat
      /\ \A i \in 1 .. n : InOrder(i) /\ walks[i].dir \in Path
      /\ n # 0 => t = fn
  <2>1. (walks = <<>>) <=> (n = 0)
    BY <1>0, <1>00, WalkTypes
  <2>2. n # 0 => t = fn
    BY <1>0, <1>00, <1>1, <2>1, WalkTypes
  <2> QED
    BY <1>0, <1>00, <1>1, <2>2, WalkTypes DEF Walked
<1>3. /\ listed' \subseteq Reached(Start)' /\ Start' = Start
      /\ Fits(Start)' <=> Fits(Start)
      /\ Inside(t)'
  BY <1>1, SameReach DEF Walked
<1>4. CASE WalkOpens(fn) /\ walks' = Append(walks, new) /\ lpc' = "readdir" /\ UNCHANGED warned
  <2>1. /\ new \in Walk /\ new.name = fn /\ new.dir = t
        /\ new.unread = Entries(t) /\ new.due = Entries(t)
    BY <1>2 DEF Walk, Entries
  <2> HIDE DEF new
  <2>2. /\ Len(walks') = n + 1 /\ DOMAIN walks' = 1 .. n + 1
        /\ walks'[n + 1] = new /\ \A i \in 1 .. n : walks'[i] = walks[i]
    BY <1>0, <1>00, <1>2, <1>4, <2>1, AppendProperties, PushStack
  <2>3. ASSUME NEW i \in 1 .. n
        PROVE  InOrder(i)'
    <3>1. WalkAt(i)' = WalkAt(i)
      <4>1. CASE i < n
        <5>1. i + 1 \in 1 .. n /\ i < n + 1
          BY <4>1
        <5> QED
          BY <1>0, <1>00, <2>2, <4>1, <5>1 DEF WalkAt
      <4>2. CASE i = n
        <5>1. n < n + 1 /\ ~ (n < n)
          OBVIOUS
        <5> QED
          BY <1>0, <1>00, <1>1, <1>2, <2>1, <2>2, <4>2, <5>1 DEF WalkAt
      <4> QED
        BY <4>1, <4>2
    <3>2. InOrder(i) /\ walks'[i] = walks[i] /\ \A j \in 1 .. i : walks'[j].dir = walks[j].dir
      BY <1>2, <2>2
    <3>3. (warned => warned') /\ UNCHANGED <<kind, mode, leaked, operand, listed>>
      BY <1>1, <1>4
    <3> QED
      BY <3>1, <3>2, <3>3, StaysInOrder
  <2>4. InOrder(n + 1)'
    <3>1. WalkAt(n + 1)' = {}
      <4>1. ~ (n + 1 < n + 1)
        OBVIOUS
      <4> QED
        BY <1>4, <2>2, <4>1 DEF WalkAt
    <3>2. Len(t) = Len(Start) + (n + 1) - 1
      BY <1>1, <1>2
    <3>3. \A j \in 1 .. n + 1 : IsPrefix(walks'[j].dir, walks'[n + 1].dir)
      <4>1. IsPrefix(t, t)
        BY <1>2, BelowItself
      <4>2. ASSUME NEW j \in 1 .. n
            PROVE  IsPrefix(walks[j].dir, t)
        <5>1. ~ (n < n) /\ n \in 1 .. n
          OBVIOUS
        <5>2. InOrder(n) /\ WalkAt(n) = {fn} /\ t = fn
          BY <1>0, <1>00, <1>1, <1>2, <5>1 DEF WalkAt
        <5>3. t \in Entries(walks[n].dir) /\ IsPrefix(walks[j].dir, walks[n].dir)
          BY <5>2 DEF InOrder
        <5>4. Parent(t) = walks[n].dir
          BY <5>3 DEF Entries
        <5> QED
          BY <1>2, <5>3, <5>4, ChildBelow
      <4>3. \A j \in 1 .. n + 1 : j \in 1 .. n \/ j = n + 1
        OBVIOUS
      <4> QED
        BY <2>1, <2>2, <4>1, <4>2, <4>3
    <3>4. \A e \in Entries(t) : Untouched(e)'
      <4>1. ASSUME NEW e \in Entries(t), NEW q \in listed, IsPrefix(e, q)
            PROVE  FALSE
        <5>1. q \in Path
          BY WalkTypes
        <5>2. IsPrefix(t, q)
          BY <1>2, <4>1, <5>1, BelowEntry
        <5> QED
          BY <1>1, <5>2 DEF Untouched
      <4> QED
        BY <1>1, <4>1 DEF Untouched
    <3>5. Entries(t)' = Entries(t)
      BY <1>1, SameReach
    <3>6. /\ walks'[n + 1].dir = t /\ walks'[n + 1].name = fn
          /\ walks'[n + 1].unread = Entries(t) /\ walks'[n + 1].due = Entries(t)
      BY <2>1, <2>2
    <3>7. Inside(walks[n + 1].dir)' /\ Entries(walks[n + 1].dir)' = Entries(t)
      BY <1>3, <3>5, <3>6 DEF Inside
    <3>8. walks'[n + 1].unread = walks'[n + 1].due
          /\ walks'[n + 1].due \union WalkAt(n + 1)' \subseteq Entries(walks[n + 1].dir)'
          /\ walks'[n + 1].due \intersect WalkAt(n + 1)' = {}
          /\ WalkAt(n + 1)' \intersect (Hidden \union listed') = {}
      BY <3>1, <3>6, <3>7
    <3>9. \A e \in walks'[n + 1].due : Untouched(e)'
      BY <3>4, <3>6
    <3>10. Entries(walks[n + 1].dir)' \ (walks'[n + 1].due \union WalkAt(n + 1)') = {}
      BY <3>6, <3>7
    <3>11. Len(walks'[n + 1].dir) = Len(Start') + (n + 1) - 1
      BY <1>3, <3>2, <3>6
    <3>12. n + 1 = 1 \/ walks'[n + 1].name = walks'[n + 1].dir
      BY <1>2, <3>6
    <3> QED
      BY <3>3, <3>7, <3>8, <3>9, <3>10, <3>11, <3>12 DEF InOrder
  <2>5. \A i \in DOMAIN walks' : InOrder(i)'
    <3>1. \A i \in 1 .. n + 1 : i \in 1 .. n \/ i = n + 1
      OBVIOUS
    <3> QED
      BY <2>2, <2>3, <2>4, <3>1
  <2> QED
    BY <1>1, <1>3, <1>4, <2>5 DEF Walked
<1>5. CASE ~ WalkOpens(fn) /\ warned' = TRUE /\ UNCHANGED walks /\ lpc' = "query_file"
  <2>1. ~ Fits(Start)
    <3>1. leaked + Len(t) - Len(Start) = n + leaked
      BY <1>1, <1>2
    <3>2. isDirectory(fn)
      BY <1>1, LooksIs DEF isDirectory, ListInv, Unharmed
    <3>3. mode[t] = "unreadable" \/ ~ (n + leaked < MaxFds)
      BY <1>0, <1>00, <1>5, <3>2 DEF WalkOpens
    <3>4. t \in Reached(Start) \union {Start}
      BY <1>1 DEF Inside
    <3> QED
      BY <1>1, <3>1, <3>3, <3>4 DEF Fits, Closed
  <2>2. ASSUME NEW i \in 1 .. n
        PROVE  InOrder(i)'
    <3>1. WalkAt(i)' = WalkAt(i)
      BY <1>1, <1>5 DEF WalkAt
    <3>2. InOrder(i) /\ walks'[i] = walks[i] /\ \A j \in 1 .. i : walks'[j].dir = walks[j].dir
      BY <1>2, <1>5
    <3> QED
      BY <1>1, <1>5, <3>1, <3>2, StaysInOrder
  <2>3. /\ Where(fn)' = t /\ Len(t) = Len(Start') + Len(walks')
        /\ walks' # <<>> => kind'[fn'] # "link"
    <3>1. Where(fn)' = t
      BY <1>0, <1>00, <1>1 DEF Where
    <3> QED
      BY <1>0, <1>00, <1>1, <1>3, <1>5, <3>1
  <2>4. \A i \in DOMAIN walks' : InOrder(i)'
    BY <1>2, <1>5, <2>2
  <2> QED
    BY <1>1, <1>3, <1>5, <2>1, <2>3, <2>4 DEF Walked, Inside
<1> QED
  BY <1>0, <1>00, <1>4, <1>5 DEF walk_opendir

LEMMA walk_readdirWalked ==
    ASSUME ListInv, IsTree(kind), Walked, NEW e \in Path, walk_readdir(e), UNCHANGED vars
    PROVE  Walked'
<1>0. PICK n \in Nat : n = Len(walks)
  BY WalkTypes
<1> DEFINE new == [Here EXCEPT !.unread = @ \ {e}, !.due = @ \ {e}]
<1>1. /\ lpc = "readdir" /\ UNCHANGED <<operand, listed, kind, mode, leaked>>
      /\ ~ gone /\ ~ gone' /\ Start' = Start
      /\ e \in Here.unread /\ walks' = Append(Front(walks), new)
  <2>1. /\ lpc = "readdir" /\ UNCHANGED <<operand, listed, kind, mode, leaked>>
        /\ ~ gone /\ ~ gone'
        /\ e \in Here.unread /\ walks' = Append(Front(walks), new)
    BY DEF walk_readdir, Skip, Walked, lghosts, vars, tree, streams
  <2> QED
    BY <2>1, SameReach
<1>2. /\ walks \in Seq(Walk) /\ walks # <<>> /\ DOMAIN walks = 1 .. n /\ n \in 1 .. n
      /\ Start \in Path /\ Len(Start) \in Nat
      /\ Here = walks[n] /\ Here \in Walk /\ Here.dir \in Path
      /\ Here.unread \subseteq Path /\ Here.due \subseteq Path
      /\ \A i \in 1 .. n : InOrder(i)
  <2>1. walks # <<>> /\ Start \in Path /\ Len(Start) \in Nat
    BY <1>1, WalkTypes DEF Walked
  <2>2. walks \in Seq(Walk) /\ DOMAIN walks = 1 .. n /\ n \in 1 .. n
    BY <1>0, <2>1, WalkTypes
  <2>3. Here = walks[n]
    BY <1>0 DEF Here
  <2>4. Here \in Walk /\ Here.dir \in Path
        /\ Here.unread \subseteq Path /\ Here.due \subseteq Path
    BY <2>2, <2>3, WalkTypes
  <2>5. \A i \in 1 .. n : InOrder(i)
    BY <1>0, <1>1, <2>2 DEF Walked
  <2> QED
    BY <2>1, <2>2, <2>3, <2>4, <2>5
<1>3. /\ new \in Walk /\ new.dir = Here.dir /\ new.name = Here.name
      /\ new.unread = Here.unread \ {e} /\ new.due = Here.due \ {e}
  BY <1>2 DEF Walk
<1> HIDE DEF new
<1>4. /\ Len(walks') = n /\ DOMAIN walks' = 1 .. n
      /\ walks'[n] = new /\ \A i \in 1 .. n - 1 : walks'[i] = walks[i]
  <2>1. /\ Front(walks) \in Seq(Walk) /\ Len(Front(walks)) = n - 1 /\ n - 1 \in Nat
        /\ DOMAIN Front(walks) = 1 .. n - 1
        /\ \A i \in DOMAIN Front(walks) : Front(walks)[i] = walks[i]
    BY <1>0, <1>2, PopStack, LenProperties
  <2>2. /\ Len(walks') = (n - 1) + 1
        /\ DOMAIN walks' = 1 .. (n - 1) + 1
        /\ \A i \in 1 .. n - 1 : walks'[i] = Front(walks)[i]
        /\ walks'[(n - 1) + 1] = new
    BY <1>1, <1>3, <2>1, AppendProperties, PushStack
  <2>3. (n - 1) + 1 = n
    OBVIOUS
  <2> QED
    BY <2>1, <2>2, <2>3
<1>5. /\ n = 1 \/ Here.name = Here.dir
      /\ Inside(Here.dir) /\ Len(Here.dir) = Len(Start) + n - 1
      /\ \A j \in 1 .. n : IsPrefix(walks[j].dir, Here.dir)
      /\ Here.unread = Here.due /\ Here.due \subseteq Entries(Here.dir)
      /\ \A x \in Here.due : Untouched(x)
      /\ ~ warned => \A x \in Entries(Here.dir) \ Here.due :
                          x \in Hidden \/ kind[x] = "link" \/ Done(x)
  <2>1. WalkAt(n) = {}
    <3>1. ~ (n < n)
      OBVIOUS
    <3> QED
      BY <1>0, <1>1, <3>1 DEF WalkAt
  <2>2. InOrder(n)
    BY <1>2
  <2> QED
    BY <1>2, <2>1, <2>2 DEF InOrder
<1>6. /\ e \in Entries(Here.dir) /\ e \in Here.due /\ Untouched(e) /\ kind[e] # "none"
      /\ Parent(e) = Here.dir
  BY <1>1, <1>5 DEF Entries
<1>7. /\ \/ /\ e \in Hidden \/ kind[e] = "link" \/ warned'
            /\ lpc' = "readdir" /\ UNCHANGED fn
         \/ /\ e \notin Hidden /\ kind[e] # "link" /\ fn' = e
            /\ lpc' = IF kind[e] = "dir" THEN "opendir" ELSE "query_file"
      /\ Fits(Start) => warned' = warned
      /\ warned => warned'
  <2>1. CASE e \in Hidden \/ Looks(e)
    BY <1>1, <2>1 DEF walk_readdir, errors
  <2>2. CASE ~ Looks(e)
    <3>1. mode[Here.dir] = "unsearchable"
      BY <1>1, <2>2, NotLooked
    <3>2. kind[Here.dir] = "dir"
      BY <1>1, <1>2, HereIs DEF Standing
    <3>3. ~ Fits(Start)
      BY <1>5, <3>1, <3>2 DEF Inside, Fits, Closed
    <3> QED
      BY <1>1, <2>2, <3>3 DEF walk_readdir, errors
  <2> QED
    BY <2>1, <2>2
<1>8. e \notin listed /\ Len(e) = Len(Start) + n
  <2>1. e \notin listed
    BY <1>6, BelowItself DEF Untouched
  <2>2. Len(Parent(e)) = Len(e) - 1 /\ Len(e) \in Nat
    BY ParentIs
  <2> QED
    BY <1>2, <1>5, <1>6, <2>1, <2>2
<1>9. /\ listed' \subseteq Reached(Start)'
      /\ Fits(Start)' => ~ warned'
      /\ Inside(Here.dir)' /\ Entries(Here.dir)' = Entries(Here.dir)
  <2>1. Here'.dir = Here.dir
    BY <1>0, <1>2, <1>3, <1>4 DEF Here
  <2>2. PICK h : h = Here.dir
    OBVIOUS
  <2>3. Inside(h)' /\ Entries(h)' = Entries(h)
    BY <1>1, <1>5, <2>2, SameReach
  <2>4. Inside(Here.dir)' /\ Entries(Here.dir)' = Entries(Here.dir)
    BY <2>1, <2>2, <2>3
  <2>5. (Fits(Start)' <=> Fits(Start)) /\ Reached(Start)' = Reached(Start)
    BY <1>1, SameReach
  <2>6. Fits(Start) => ~ warned'
    BY <1>7 DEF Walked
  <2> QED
    BY <1>1, <2>4, <2>5, <2>6 DEF Walked
<1>10. ASSUME NEW i \in 1 .. n - 1
       PROVE  InOrder(i)'
  <2>1. i \in Nat /\ i < n /\ i \in 1 .. n
    OBVIOUS
  <2>2. walks'[i + 1].dir = walks[i + 1].dir
    <3>1. i + 1 \in 1 .. n - 1 \/ i + 1 = n
      BY <2>1
    <3> QED
      BY <1>2, <1>3, <1>4, <3>1
  <2>3. WalkAt(i)' = WalkAt(i)
    BY <1>0, <1>4, <2>1, <2>2 DEF WalkAt
  <2>4. InOrder(i) /\ walks'[i] = walks[i] /\ \A j \in 1 .. i : walks'[j].dir = walks[j].dir
    BY <1>2, <1>4, <2>1
  <2>5. (warned => warned') /\ UNCHANGED <<kind, mode, leaked, operand, listed>>
    BY <1>1, <1>7
  <2> QED
    BY <2>1, <2>3, <2>4, <2>5, StaysInOrder
<1>11. InOrder(n)'
  <2>1. \/ WalkAt(n)' = {} /\ (e \in Hidden \/ kind[e] = "link" \/ warned')
        \/ WalkAt(n)' = {e} /\ e \notin Hidden
    <3>1. ~ (n < n)
      OBVIOUS
    <3> QED
      BY <1>4, <1>7, <3>1 DEF WalkAt
  <2>2. /\ walks'[n].dir = Here.dir /\ walks'[n].unread = Here.due \ {e}
        /\ walks'[n].due = Here.due \ {e} /\ walks'[n].name = Here.name
    BY <1>3, <1>4, <1>5
  <2>3. Inside(walks[n].dir)' /\ Entries(walks[n].dir)' = Entries(Here.dir)
    <3>1. Here'.dir = walks'[n].dir
      BY <1>0, <1>4 DEF Here
    <3> QED
      BY <1>9, <3>1 DEF Inside
  <2>4. \A j \in 1 .. n : IsPrefix(walks'[j].dir, walks'[n].dir)
    <3>1. \A j \in 1 .. n : walks'[j].dir = walks[j].dir
      <4>1. \A j \in 1 .. n : j \in 1 .. n - 1 \/ j = n
        OBVIOUS
      <4> QED
        BY <1>2, <1>4, <2>2, <4>1
    <3> QED
      BY <1>5, <2>2, <3>1
  <2>5. /\ walks'[n].unread = walks'[n].due
        /\ walks'[n].due \union WalkAt(n)' \subseteq Entries(walks[n].dir)'
        /\ walks'[n].due \intersect WalkAt(n)' = {}
        /\ WalkAt(n)' \intersect (Hidden \union listed') = {}
    BY <1>1, <1>5, <1>6, <1>8, <2>1, <2>2, <2>3
  <2>6. \A x \in walks'[n].due : Untouched(x)'
    BY <1>1, <1>5, <2>2 DEF Untouched
  <2>7. ~ warned' => \A x \in Entries(walks[n].dir)' \ (walks'[n].due \union WalkAt(n)') :
                         x \in Hidden \/ kind'[x] = "link" \/ Done(x)'
    <3> SUFFICES ASSUME ~ warned',
                        NEW x \in Entries(walks[n].dir)' \ (walks'[n].due \union WalkAt(n)')
                 PROVE  x \in Hidden \/ kind'[x] = "link" \/ Done(x)'
      OBVIOUS
    <3>1. x \in Hidden \/ kind[x] = "link" \/ x \in Entries(Here.dir) \ Here.due
      BY <2>1, <2>2, <2>3
    <3>2. x \in Hidden \/ kind[x] = "link" \/ Done(x)
      BY <1>5, <1>7, <3>1
    <3> QED
      BY <1>1, <3>2, SameReach
  <2>8. Len(walks'[n].dir) = Len(Start') + n - 1
    BY <1>1, <1>5, <2>2
  <2>9. n = 1 \/ walks'[n].name = walks'[n].dir
    BY <1>5, <2>2
  <2> QED
    BY <2>2, <2>3, <2>4, <2>5, <2>6, <2>7, <2>8, <2>9 DEF InOrder
<1>12. \A i \in DOMAIN walks' : InOrder(i)'
  <2>1. \A i \in 1 .. n : i \in 1 .. n - 1 \/ i = n
    OBVIOUS
  <2> QED
    BY <1>4, <1>10, <1>11, <2>1
<1>13. CASE lpc' = "readdir"
  BY <1>1, <1>9, <1>12, <1>13 DEF Walked
<1>14. CASE e \notin Hidden /\ kind[e] # "link" /\ fn' = e
            /\ lpc' = IF kind[e] = "dir" THEN "opendir" ELSE "query_file"
  <2>1. e \in Reached(Start)
    BY <1>2, <1>5, <1>6, <1>14, ReachedEntry DEF Inside
  <2>2. /\ Inside(e)' /\ Reached(e)' = Reached(e) /\ Entries(e)' = Entries(e)
        /\ Where(fn)' = e /\ Reached(fn)' = Reached(e)
    <3>1. Inside(e)' /\ Reached(e)' = Reached(e) /\ Entries(e)' = Entries(e)
      BY <1>1, <2>1, SameReach DEF Inside
    <3>2. Where(fn)' = e
      BY <1>1, <1>14 DEF Where
    <3>3. Reached(fn)' = Reached(e)
      BY <1>14, <3>1
    <3> QED
      BY <3>1, <3>2, <3>3
  <2>3. Inside(Where(fn))' /\ Untouched(Where(fn))'
    <3>1. Inside(Where(fn))'
      BY <2>2
    <3>2. Untouched(Where(fn))'
      BY <1>1, <1>6, <2>2 DEF Untouched
    <3> QED
      BY <3>1, <3>2
  <2>4. kind'[fn'] # "link" /\ Len(Where(fn)') = Len(Start') + Len(walks')
    BY <1>1, <1>4, <1>8, <1>14, <2>2
  <2>5. kind[e] # "dir" => Reached(e) = {}
    BY NothingReached
  <2>6. lpc' = "query_file" => Reached(fn)' = {}
    BY <1>14, <2>2, <2>5
  <2> QED
    BY <1>1, <1>9, <1>12, <1>14, <2>3, <2>4, <2>6 DEF Walked
<1> QED
  BY <1>7, <1>13, <1>14

\* When nothing is due any more all that the walk comes to below is listed.
LEMMA AllDone ==
    ASSUME ListInv, IsTree(kind), Walked, lpc = "readdir", Here.due = {}, ~ warned
    PROVE  Reached(Here.dir) \subseteq listed
<1>0. PICK n \in Nat : n = Len(walks)
  BY WalkTypes
<1>1. /\ n \in 1 .. n /\ Here = walks[n] /\ Here.dir \in Path /\ InOrder(n)
      /\ \A q \in listed : q \in Path
  BY <1>0, WalkTypes DEF Walked, Here
<1>2. WalkAt(n) = {}
  <2>1. ~ (n < n)
    OBVIOUS
  <2> QED
    BY <1>0, <2>1 DEF WalkAt
<1>3. \A e \in Entries(Here.dir) : e \in Hidden \/ kind[e] = "link" \/ Done(e)
  BY <1>1, <1>2 DEF InOrder
<1>4. ASSUME NEW q \in Reached(Here.dir)
      PROVE  q \in listed
  <2>1. Through(Here.dir, q)
    BY <1>1, ReachedThrough
  <2>2. PICK e \in Entries(Here.dir) : e \notin Hidden /\ (q = e \/ q \in Reached(e))
    BY <2>1 DEF Through
  <2>3. kind[e] # "link"
    <3>1. ASSUME kind[e] = "link"
          PROVE  FALSE
      <4>1. e \in Path /\ Reached(e) = {}
        BY <3>1, NothingReached DEF Entries
      <4>2. q = e
        BY <2>2, <4>1
      <4> QED
        BY <3>1, <4>2 DEF Reached
    <3> QED
      BY <3>1
  <2>4. Done(e)
    BY <1>3, <2>2, <2>3
  <2> QED
    BY <2>2, <2>4 DEF Done
<1> QED
  BY <1>4

LEMMA walk_closedirWalked ==
    ASSUME ListInv, IsTree(kind), Walked, walk_closedir, UNCHANGED vars, Walking'
    PROVE  Walked'
<1>0. PICK n \in Nat : n = Len(walks)
  BY WalkTypes
<1>1. /\ lpc = "readdir" /\ lpc' = "query_file" /\ Here.due = {}
      /\ walks' = Front(walks) /\ fn' = Here.name /\ n > 1
      /\ UNCHANGED <<operand, warned, listed, kind, mode, leaked>>
      /\ ~ gone /\ ~ gone' /\ Start' = Start
  <2>1. /\ lpc = "readdir" /\ lpc' = "query_file" /\ Here.due = {}
        /\ walks' = Front(walks) /\ fn' = Here.name /\ n > 1
        /\ UNCHANGED <<operand, warned, listed, kind, mode, leaked>>
        /\ ~ gone /\ ~ gone'
    BY <1>0 DEF walk_closedir, Walking, Walked, errors, lghosts, vars, tree, streams
  <2> QED
    BY <2>1, SameReach
<1>2. /\ walks \in Seq(Walk) /\ walks # <<>> /\ DOMAIN walks = 1 .. n /\ n \in 1 .. n
      /\ Start \in Path /\ Len(Start) \in Nat
      /\ Here = walks[n] /\ Here.dir \in Path
      /\ \A i \in 1 .. n : InOrder(i)
  BY <1>0, <1>1, WalkTypes DEF Walked, Here
<1>3. /\ Len(walks') = n - 1 /\ DOMAIN walks' = 1 .. n - 1
      /\ \A i \in 1 .. n - 1 : walks'[i] = walks[i]
  <2>1. /\ Len(Front(walks)) = n - 1 /\ DOMAIN Front(walks) = 1 .. n - 1
        /\ \A i \in DOMAIN Front(walks) : Front(walks)[i] = walks[i]
    BY <1>0, <1>2, PopStack, LenProperties
  <2> QED
    BY <1>1, <2>1
<1>4. Inside(Here.dir) /\ Len(Here.dir) = Len(Start) + n - 1 /\ Here.name = Here.dir
  BY <1>1, <1>2 DEF InOrder
<1>5. ASSUME NEW i \in 1 .. n - 1
      PROVE  InOrder(i)'
  <2>1. i \in Nat /\ i < n /\ i \in 1 .. n
    OBVIOUS
  <2>2. WalkAt(i) = {walks[i + 1].dir}
    BY <1>0, <2>1 DEF WalkAt
  <2>3. WalkAt(i)' = WalkAt(i)
    <3>1. CASE i < n - 1
      <4>1. i + 1 \in 1 .. n - 1
        BY <3>1
      <4> QED
        BY <1>3, <2>2, <3>1, <4>1 DEF WalkAt
    <3>2. CASE ~ (i < n - 1)
      <4>1. i + 1 = n
        BY <3>2
      <4>2. WalkAt(i)' = {fn'}
        BY <1>1, <1>3, <3>2 DEF WalkAt
      <4> QED
        BY <1>1, <1>2, <1>4, <2>2, <4>1, <4>2
    <3> QED
      BY <3>1, <3>2
  <2>4. InOrder(i) /\ walks'[i] = walks[i] /\ \A j \in 1 .. i : walks'[j].dir = walks[j].dir
    BY <1>2, <1>3, <2>1
  <2>5. (warned => warned') /\ UNCHANGED <<kind, mode, leaked, operand, listed>>
    BY <1>1
  <2> QED
    BY <2>1, <2>3, <2>4, <2>5, StaysInOrder
<1>6. Here.dir \in Reached(Start) /\ kind[Here.dir] # "link"
  <2>1. Len(Here.dir) # Len(Start)
    BY <1>1, <1>2, <1>4
  <2>2. Here.dir \in Reached(Start)
    BY <1>4, <2>1 DEF Inside
  <2> QED
    BY <2>2 DEF Reached
<1>7. PICK h : h = Here.dir
  OBVIOUS
<1>8. /\ listed' \subseteq Reached(Start)' /\ (Fits(Start)' <=> Fits(Start))
      /\ Inside(h)' /\ Reached(h)' = Reached(h) /\ Where(h)' = h
  <2>1. Inside(h)' /\ Reached(h)' = Reached(h) /\ Where(h)' = Where(h)
    BY <1>1, <1>4, <1>7, SameReach
  <2>2. Where(h) = h
    BY <1>6, <1>7 DEF Where
  <2>3. listed' \subseteq Reached(Start)' /\ (Fits(Start)' <=> Fits(Start))
    BY <1>1, SameReach DEF Walked
  <2> QED
    BY <2>1, <2>2, <2>3
<1>9. fn' = h /\ kind'[fn'] # "link"
  BY <1>1, <1>4, <1>6, <1>7
<1>10. Inside(Where(fn))' /\ Reached(fn)' = Reached(h) /\ Where(fn)' = h
  BY <1>8, <1>9
<1>11. ~ warned' => Reached(fn)' \subseteq listed'
  BY <1>1, <1>7, <1>10, AllDone
<1>12. Len(Where(fn)') = Len(Start') + Len(walks')
  BY <1>1, <1>2, <1>3, <1>4, <1>7, <1>10
<1>13. Fits(Start)' => ~ warned'
  BY <1>1, <1>8 DEF Walked
<1>14. \A i \in DOMAIN walks' : InOrder(i)'
  BY <1>3, <1>5
<1> QED
  BY <1>1, <1>8, <1>9, <1>10, <1>11, <1>12, <1>13, <1>14 DEF Walked

LEMMA listWalked ==
    ASSUME ListInv, NEW p \in Path, list(p), listed = {}, ~ warned, ~ gone
    PROVE  Walked'
<1>1. /\ operand' = p /\ fn' = p /\ lpc' = "opendir" /\ ~ gone'
      /\ UNCHANGED <<kind, walks, listed, warned>> /\ walks = <<>>
  BY DEF list, tree, errors, lghosts, ListInv, Apart
<1>2. Start' = Where(fn)' /\ Where(fn)' = Where(p) /\ Where(p) \in Path
  BY <1>1, WhereIs DEF Start, Where, ListInv, DeleteInv
<1>3. Len(walks') = 0 /\ DOMAIN walks' = {} /\ walks' = <<>>
      /\ Len(Where(fn)') = Len(Start') + Len(walks')
  <2>1. Len(Where(p)) \in Nat
    BY <1>2, PathIsSeq
  <2> QED
    BY <1>1, <1>2, <2>1, EmptySeq
<1>4. listed' = {} /\ ~ warned'
  BY <1>1
<1>5. Inside(Where(fn))' /\ Untouched(Where(fn))'
  BY <1>2, <1>4 DEF Inside, Untouched
<1> QED
  BY <1>1, <1>3, <1>4, <1>5 DEF Walked

\* Every step keeps the walk in order, and a command begins with nothing.
LEMMA WalkInvKeeps ==
    ASSUME ListInv, IsTree(kind), WalkInv, [ListNext]_allvars
    PROVE  WalkInv'
<1>1. CASE UNCHANGED <<kind, mode, leaked, lvars>>
  <2>1. UNCHANGED <<lpc, operand, walks, fn, warned, listed, lmeddled, gone>>
    BY <1>1 DEF lvars, errors, lghosts
  <2>2. ASSUME Walked
        PROVE  Walked'
    <3>1. ASSUME NEW i \in DOMAIN walks
          PROVE  InOrder(i)'
      <4>1. i \in Nat /\ InOrder(i)
        BY <2>2, WalkTypes DEF Walked
      <4>2. WalkAt(i)' = WalkAt(i) /\ walks'[i] = walks[i]
            /\ \A j \in 1 .. i : walks'[j].dir = walks[j].dir
        BY <2>1 DEF WalkAt
      <4>3. (warned => warned') /\ UNCHANGED <<kind, mode, leaked, operand, listed>>
        BY <1>1, <2>1
      <4> QED
        BY <4>1, <4>2, <4>3, StaysInOrder
    <3>2. PICK f, t : f = fn /\ t = Where(fn)
      OBVIOUS
    <3>3. /\ Start' = Start /\ Reached(Start)' = Reached(Start)
          /\ Fits(Start)' <=> Fits(Start)
          /\ Reached(f)' = Reached(f) /\ Where(f)' = Where(f)
          /\ Inside(t)' <=> Inside(t)
      BY <1>1, <2>1, SameReach
    <3>4. fn' = f /\ Where(fn)' = t /\ Reached(fn)' = Reached(fn)
      BY <2>1, <3>2, <3>3
    <3>5. lpc # "readdir" =>
            /\ Inside(Where(fn))' /\ Len(Where(fn)') = Len(Start') + Len(walks')
            /\ walks' # <<>> => kind'[fn'] # "link"
      BY <1>1, <2>1, <2>2, <3>2, <3>3, <3>4 DEF Walked
    <3>6. lpc = "opendir" => Untouched(Where(fn))'
      BY <2>1, <2>2, <3>2, <3>4 DEF Walked, Untouched
    <3>7. lpc = "query_file" => (~ warned' => Reached(fn)' \subseteq listed')
      BY <2>1, <2>2, <3>4 DEF Walked
    <3>8. listed' \subseteq Reached(Start)' /\ (Fits(Start)' => ~ warned') /\ ~ gone'
      BY <2>1, <2>2, <3>3 DEF Walked
    <3> QED
      BY <2>1, <3>1, <3>5, <3>6, <3>7, <3>8 DEF Walked
  <2> QED
    BY <2>1, <2>2 DEF WalkInv, Walking
<1>2. CASE lpc = "prompt" /\ UNCHANGED lvars
  BY <1>2 DEF WalkInv, Walking, lvars, errors, lghosts
<1>3. CASE Listing
  <2>1. UNCHANGED vars /\ lpc \in {"opendir", "readdir", "query_file"}
    BY <1>3 DEF Listing, query_file, walk_opendir, walk_closedir, walk_readdir
  <2>2. Walking' => lmeddled' = lmeddled
    BY <1>3
       DEF Listing, query_file, walk_opendir, walk_closedir, walk_readdir, lghosts, Fresh, Walking
  <2>3. Walking' => Walked
    BY <2>1, <2>2 DEF WalkInv, Walking
  <2>4. Walking' => Walked'
    BY <1>3, <2>1, <2>3, query_fileWalked, walk_opendirWalked, walk_readdirWalked,
       walk_closedirWalked DEF Listing, Walking
  <2>5. lpc' = "prompt" => listed' = {} /\ ~ warned' /\ lmeddled' = 0 /\ ~ gone'
    BY <1>3 DEF Listing, query_file, walk_opendir, walk_closedir, walk_readdir, Fresh
  <2> QED
    BY <2>4, <2>5 DEF WalkInv
<1>4. ASSUME NEW p \in Path, list(p)
      PROVE  WalkInv'
  <2>1. lpc = "prompt" /\ lpc' = "opendir" /\ listed = {} /\ ~ warned /\ ~ gone
    BY <1>4 DEF list, WalkInv
  <2> QED
    BY <1>4, <2>1, listWalked DEF WalkInv
<1>5. ASSUME WalkMeddle, lpc' = lpc, UNCHANGED <<listed, warned>>,
             lpc = "prompt" => gone' = gone
      PROVE  WalkInv'
  <2>1. lmeddled \in Nat
    BY ConstantsAssumption DEF ListInv, ListTypeOK
  <2>2. lpc # "prompt" => ~ Walking'
    BY <1>5, <2>1 DEF WalkMeddle, Walking
  <2> QED
    BY <1>5, <2>2 DEF WalkInv, WalkMeddle, Walking
<1>6. (UNCHANGED allvars \/ \E p \in Path : query(p)) => UNCHANGED <<kind, mode, leaked, lvars>>
  BY DEF query, allvars, vars, tree, streams
<1>7. ASSUME \/ \E p \in Path, k \in Kind : Adopt(p, k)
             \/ \E p \in Path : Lose(p)
      PROVE  /\ WalkMeddle /\ lpc' = lpc /\ UNCHANGED <<listed, warned>>
             /\ lpc = "prompt" => gone' = gone
  <2>1. gone \in BOOLEAN
    BY DEF ListInv, ListTypeOK
  <2> QED
    BY <1>7, <2>1 DEF Adopt, Lose, errors
<1>8. Deleting => lpc = "prompt" /\ UNCHANGED lvars
  BY DEF Deleting
<1> QED
  BY <1>1, <1>2, <1>3, <1>4, <1>5, <1>6, <1>7, <1>8 DEF ListNext

\* list -r of a tree that nobody disturbs lists each entry once, a directory
\* behind its contents, and in the end all that is neither hidden nor a link, unless
\* the walk warns of a directory that it may not read or search, or that is too deep
\* for the streams left (walk_recur, sys/recursive2.c, with query_file of
\* libs/query.c).
THEOREM ListsEverything == ListSpec => ListsAll
<1> DEFINE Listed == lpc = "query_file" /\ lmeddled = 0 =>
                        fn \notin listed /\ (~ warned => Reached(fn) \subseteq listed)
           Ended == /\ walks # <<>> /\ lpc' = "prompt" /\ lmeddled = 0
                    /\ (Fits(Where(operand)) \/ ~ warned)
                    => listed = Reached(Where(operand))
<1>1. ListInit => WalkInv
  BY DEF ListInit, WalkInv, Walking
<1>2. ListInv /\ CompleteInv /\ WalkInv /\ [ListNext]_allvars => WalkInv'
  BY WalkInvKeeps DEF CompleteInv
<1>3. ListInit => CompleteInv
  BY DEF ListInit, Init, CompleteInv, Undisturbed
<1>4. ListInv /\ CompleteInv /\ [ListNext]_allvars => CompleteInv'
  BY CompleteKeeps
<1>5. ListInv /\ WalkInv => Listed
  <2> SUFFICES ASSUME ListInv, WalkInv, lpc = "query_file", lmeddled = 0
               PROVE  fn \notin listed /\ (~ warned => Reached(fn) \subseteq listed)
    OBVIOUS
  <2>1. Walked
    BY DEF WalkInv, Walking
  <2>2. Len(walks) \in DOMAIN walks /\ Len(walks) \in Nat
    BY WalkTypes
  <2>3. InOrder(Len(walks))
    BY <2>1, <2>2 DEF Walked
  <2>4. WalkAt(Len(walks)) = {fn}
    BY <2>2 DEF WalkAt
  <2>5. fn \notin listed
    BY <2>3, <2>4 DEF InOrder
  <2> QED
    BY <2>1, <2>5 DEF Walked
<1>6. ListInv /\ CompleteInv /\ WalkInv /\ [ListNext]_allvars => [Ended]_allvars
  <2> SUFFICES ASSUME ListInv, CompleteInv, WalkInv, ListNext,
                      walks # <<>>, lpc' = "prompt", lmeddled = 0,
                      Fits(Start) \/ ~ warned
               PROVE  listed = Reached(Start)
    BY DEF Start
  <2>1. lpc # "prompt"
    BY DEF ListInv, Apart
  <2>2. walk_closedir /\ UNCHANGED vars
    <3>1. (\E p \in Path, k \in Kind : Adopt(p, k)) \/ (\E p \in Path : Lose(p)) => lpc' = lpc
      BY DEF Adopt, Lose
    <3>2. ~ Deleting /\ \A p \in Path : ~ list(p) /\ ~ query(p)
      BY <2>1 DEF Deleting, list, query
    <3>3. Listing
      BY <2>1, <3>1, <3>2 DEF ListNext
    <3> QED
      BY <2>1, <3>3 DEF Listing, query_file, walk_opendir, walk_readdir
  <2>3. lpc = "readdir" /\ Here.due = {} /\ Len(walks) = 1
    BY <2>2 DEF walk_closedir
  <2>4. Walked /\ IsTree(kind)
    BY <2>3 DEF WalkInv, Walking, CompleteInv
  <2>5. ~ warned /\ listed \subseteq Reached(Start)
    BY <2>4 DEF Walked
  <2>6. Here.dir = Start
    <3>1. Start \in Path /\ Len(Start) \in Nat /\ 1 \in DOMAIN walks /\ Here = walks[1]
          /\ Here.dir \in Path
      BY <2>1, <2>3, WalkTypes DEF Here
    <3>2. InOrder(1)
      BY <2>4, <3>1 DEF Walked
    <3>3. Inside(Here.dir) /\ Len(Here.dir) = Len(Start) + 1 - 1
      BY <3>1, <3>2 DEF InOrder
    <3>4. Len(Here.dir) = Len(Start)
      BY <3>1, <3>3
    <3>5. IsPrefix(Start, Here.dir)
      BY <3>1, <3>3, BelowItself DEF Inside, Reached, Below
    <3> QED
      BY <3>1, <3>4, <3>5, SamePath
  <2>7. Reached(Start) \subseteq listed
    BY <2>3, <2>4, <2>5, <2>6, AllDone
  <2> QED
    BY <2>5, <2>7
<1> HIDE DEF Listed, Ended
<1>7. ListSpec => []Listed /\ [][Ended]_allvars
  BY <1>1, <1>2, <1>3, <1>4, <1>5, <1>6, ListInvariant, PTL DEF ListSpec
<1> QED
  BY <1>7 DEF ListsAll, Listed, Ended

=============================================================================
