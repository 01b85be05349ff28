---------------------------- MODULE CopierWalkProofs ----------------------------
(***************************************************************************)
(* Theorems about what the walk of Copier comes to: the tree it makes, the *)
(* report it gives, what it leaves alone, and that a second sync changes   *)
(* at most the files that come out differently each time.                  *)
(*                                                                         *)
(* WalkInv relates a walk on its way to the reference, which has no walk.  *)
(* The stack says which source files are still to come, hence which are    *)
(* done (Frames, Done); the files done come before the others in the order *)
(* of the walk (Sorted); the worktree is the overlay of the files done     *)
(* (Written) and the errors are those of the files done (Listed).          *)
(***************************************************************************)
EXTENDS CopierProofs

(* What a name renders to has no placeholder left, so that rendering it    *)
(* once more, in each directory below, makes nothing else of it.           *)
RendersOnce == \A n \in Name : Value[n] # Bad => Value[Value[n]] = Value[n]

----------------------------------------------------------------------------------
(* Paths, name by name.                                                    *)

\* What is below a directory starts with the directory's names.
LEMMA PrefixNames ==
  ASSUME NEW s \in Path, NEW t \in Path
  PROVE  IsPrefix(s, t) <=> Len(s) <= Len(t) /\ \A i \in 1..Len(s) : s[i] = t[i]
<1>1. Len(s) \in Nat /\ Len(t) \in Nat /\ s \in Seq(Name) /\ t \in Seq(Name)
  BY LenProperties DEF Path
<1>2. ASSUME Len(s) <= Len(t)
      PROVE SubSeq(s, 1, Len(s)) = SubSeq(t, 1, Len(s)) <=> \A i \in 1..Len(s) : s[i] = t[i]
  <2>1. SubSeq(s, 1, Len(s)) = s
    BY <1>1, SubSeqFull
  <2>2. /\ SubSeq(t, 1, Len(s)) \in Seq(Name)
        /\ Len(SubSeq(t, 1, Len(s))) = Len(s)
        /\ \A i \in 1..Len(s) : SubSeq(t, 1, Len(s))[i] = t[i]
    <3>1. \A i \in 1..Len(s) : t[i] \in Name
      BY <1>1, <1>2, ElementOfSeq
    <3>2. /\ SubSeq(t, 1, Len(s)) \in Seq(Name)
          /\ Len(SubSeq(t, 1, Len(s))) = IF 1 <= Len(s) THEN Len(s) - 1 + 1 ELSE 0
          /\ \A i \in 1..(Len(s) - 1 + 1) : SubSeq(t, 1, Len(s))[i] = t[1 + i - 1]
      BY <1>1, <3>1, SubSeqProperties
    <3> QED BY <1>1, <3>2
  <2> QED BY <1>1, <2>1, <2>2, SeqEqual
<1> QED BY <1>2 DEF IsPrefix

\* Paths with the same names are the same.
LEMMA SameNames ==
  ASSUME NEW s \in Path, NEW t \in Path, Len(s) = Len(t), \A i \in 1..Len(s) : s[i] = t[i]
  PROVE  s = t
BY SeqEqual DEF Path

LEMMA SameLength ==
  ASSUME NEW m \in Nat, NEW k \in Nat, 1..m = 1..k
  PROVE  m = k
<1>1. CASE m < k
  <2>1. k \in 1..k /\ k \notin 1..m
    BY <1>1
  <2> QED BY <2>1
<1>2. CASE k < m
  <2>1. m \in 1..m /\ m \notin 1..k
    BY <1>2
  <2> QED BY <2>1
<1> QED BY <1>1, <1>2

\* The directory at depth j on the way to a path.
LEMMA Segment ==
  ASSUME NEW s \in Path, NEW j \in 0..Len(s)
  PROVE  /\ SubSeq(s, 1, j) \in Path
         /\ Len(SubSeq(s, 1, j)) = j
         /\ \A i \in 1..j : SubSeq(s, 1, j)[i] = s[i]
<1>1. Len(s) \in Nat /\ \A i \in 1..j : s[i] \in Name
  BY ElementOfSeq, LenProperties DEF Path
<1>2. /\ SubSeq(s, 1, j) \in Seq(Name)
      /\ Len(SubSeq(s, 1, j)) = IF 1 <= j THEN j - 1 + 1 ELSE 0
      /\ \A i \in 1..(j - 1 + 1) : SubSeq(s, 1, j)[i] = s[1 + i - 1]
  BY <1>1, SubSeqProperties
<1> QED BY <1>1, <1>2 DEF Path

\* A sequence without its last element.
LEMMA FrontNames ==
  ASSUME NEW S, NEW s \in Seq(S), s # << >>
  PROVE  /\ Len(s) \in Nat \ {0} /\ Len(Front(s)) = Len(s) - 1
         /\ \A k \in 1..(Len(s) - 1) : Front(s)[k] = s[k]
<1>1. Len(s) \in Nat \ {0} /\ Len(Front(s)) = Len(s) - 1
  BY FrontType
<1>2. \A k \in 1..(Len(s) - 1) : s[k] \in S
  BY <1>1, ElementOfSeq
<1>3. \A k \in 1..(Len(s) - 1 - 1 + 1) : SubSeq(s, 1, Len(s) - 1)[k] = s[1 + k - 1]
  BY <1>1, <1>2, SubSeqProperties
<1>4. \A k \in 1..(Len(s) - 1) : Front(s)[k] = s[k]
  <2> SUFFICES ASSUME NEW k \in 1..(Len(s) - 1) PROVE Front(s)[k] = s[k]
    OBVIOUS
  <2>1. k \in 1..(Len(s) - 1 - 1 + 1) /\ 1 + k - 1 = k
    BY <1>1
  <2> QED BY <1>3, <2>1 DEF Front
<1> QED BY <1>1, <1>4

\* The names of an entry of a directory.
LEMMA EntryNames ==
  ASSUME NEW s \in Path, NEW n \in Name
  PROVE  /\ Append(s, n) \in Path
         /\ Len(s) \in Nat
         /\ Len(Append(s, n)) = Len(s) + 1
         /\ \A i \in 1..Len(s) : Append(s, n)[i] = s[i]
         /\ Append(s, n)[Len(s) + 1] = n
BY AppendProperties, LenProperties DEF Path

\* The entry's directories are those of its directory.
LEMMA EntrySegment ==
  ASSUME NEW s \in Path, NEW n \in Name
  PROVE  /\ \A j \in 0..Len(s) : SubSeq(Append(s, n), 1, j) = SubSeq(s, 1, j)
         /\ SubSeq(Append(s, n), 1, Len(s) + 1) = Append(s, n)
<1> DEFINE t == Append(s, n)
<1>1. /\ t \in Path /\ Len(s) \in Nat /\ Len(t) = Len(s) + 1
      /\ \A i \in 1..Len(s) : t[i] = s[i]
  BY EntryNames
<1> HIDE DEF t
<1>2. ASSUME NEW j \in 0..Len(s) PROVE SubSeq(t, 1, j) = SubSeq(s, 1, j)
  <2>1. j \in 0..Len(t)
    BY <1>1
  <2>2. /\ SubSeq(s, 1, j) \in Path /\ Len(SubSeq(s, 1, j)) = j
        /\ \A i \in 1..j : SubSeq(s, 1, j)[i] = s[i]
    BY Segment
  <2>3. /\ SubSeq(t, 1, j) \in Path /\ Len(SubSeq(t, 1, j)) = j
        /\ \A i \in 1..j : SubSeq(t, 1, j)[i] = t[i]
    BY <1>1, <2>1, Segment
  <2>4. \A i \in 1..j : SubSeq(t, 1, j)[i] = SubSeq(s, 1, j)[i]
    BY <1>1, <2>2, <2>3
  <2> QED BY <2>2, <2>3, <2>4, SameNames
<1>3. SubSeq(t, 1, Len(t)) = t
  BY <1>1, SubSeqFull DEF Path
<1> QED BY <1>1, <1>2, <1>3 DEF t

\* The paths above an entry.
LEMMA EntryPrefixes ==
  ASSUME NEW s \in Path, NEW n \in Name
  PROVE  Prefixes(Append(s, n)) = Prefixes(s) \union {Append(s, n)}
<1> DEFINE t == Append(s, n)
<1>1. Len(s) \in Nat /\ Len(t) = Len(s) + 1
  BY EntryNames
<1>2. /\ \A j \in 0..Len(s) : SubSeq(t, 1, j) = SubSeq(s, 1, j)
      /\ SubSeq(t, 1, Len(s) + 1) = t
  BY EntrySegment
<1> HIDE DEF t
<1>3. 0..Len(t) = (0..Len(s)) \union {Len(s) + 1}
  BY <1>1
<1>4. Prefixes(t) = {SubSeq(t, 1, j) : j \in 0..Len(s)} \union {t}
  BY <1>2, <1>3 DEF Prefixes
<1>5. {SubSeq(t, 1, j) : j \in 0..Len(s)} = Prefixes(s)
  BY <1>2 DEF Prefixes
<1> QED BY <1>4, <1>5 DEF t

\* A path is one of its prefixes, and each of these a prefix of it.
LEMMA PrefixesAreAbove ==
  ASSUME NEW s \in Path
  PROVE  /\ s \in Prefixes(s)
         /\ \A q \in Prefixes(s) : q \in Path /\ IsPrefix(q, s)
         /\ \A q \in Path : IsPrefix(q, s) => q \in Prefixes(s)
<1>1. Len(s) \in Nat /\ Len(s) \in 0..Len(s) /\ SubSeq(s, 1, Len(s)) = s
  BY LenProperties, SubSeqFull DEF Path
<1>2. s \in Prefixes(s)
  BY Zenon, <1>1 DEF Prefixes
<1>3. ASSUME NEW j \in 0..Len(s) PROVE SubSeq(s, 1, j) \in Path /\ IsPrefix(SubSeq(s, 1, j), s)
  <2>1. /\ SubSeq(s, 1, j) \in Path /\ Len(SubSeq(s, 1, j)) = j
        /\ \A i \in 1..j : SubSeq(s, 1, j)[i] = s[i]
    BY Segment
  <2>2. j <= Len(s)
    BY <1>1
  <2> QED BY <2>1, <2>2, PrefixNames
<1>4. \A q \in Prefixes(s) : q \in Path /\ IsPrefix(q, s)
  BY <1>3 DEF Prefixes
<1>5. ASSUME NEW q \in Path, IsPrefix(q, s) PROVE q \in Prefixes(s)
  <2>1. SubSeq(q, 1, Len(q)) = q /\ Len(q) \in Nat
    BY SubSeqFull, LenProperties DEF Path
  <2>2. q = SubSeq(s, 1, Len(q)) /\ Len(q) <= Len(s)
    BY <1>5, <2>1 DEF IsPrefix
  <2>3. Len(q) \in 0..Len(s)
    BY <1>1, <2>1, <2>2
  <2> QED BY Zenon, <2>2, <2>3 DEF Prefixes
<1> QED BY <1>2, <1>4, <1>5

\* Two paths come one after the other in one order only.
LEMMA BeforeIsAnOrder ==
  ASSUME NEW s \in Path, NEW t \in Path, Before(s, t)
  PROVE  ~Before(t, s) /\ s # t
<1>1. /\ DOMAIN s = 1..Len(s) /\ DOMAIN t = 1..Len(t) /\ Len(s) \in Nat /\ Len(t) \in Nat
      /\ \A i \in 1..Len(s) : s[i] \in Name
      /\ \A i \in 1..Len(t) : t[i] \in Name
  BY LenProperties, ElementOfSeq DEF Path
<1>2. PICK i \in DOMAIN s \intersect DOMAIN t :
        (\A j \in 1..(i - 1) : s[j] = t[j]) /\ Rank[s[i]] < Rank[t[i]]
  BY DEF Before
<1>3. Rank[s[i]] \in Nat /\ Rank[t[i]] \in Nat /\ i \in Nat /\ i >= 1
  BY <1>1, CopierAssumption
<1>4. ASSUME NEW k \in DOMAIN t \intersect DOMAIN s,
             \A j \in 1..(k - 1) : t[j] = s[j], Rank[t[k]] < Rank[s[k]]
      PROVE FALSE
  <2>1. k \in Nat /\ k >= 1 /\ Rank[t[k]] \in Nat /\ Rank[s[k]] \in Nat
    BY <1>1, CopierAssumption
  <2>2. CASE i < k
    <3>1. i \in 1..(k - 1)
      BY <1>3, <2>1, <2>2
    <3> QED BY <1>2, <1>3, <1>4, <3>1
  <2>3. CASE k < i
    <3>1. k \in 1..(i - 1)
      BY <1>3, <2>1, <2>3
    <3> QED BY <1>2, <1>4, <2>1, <3>1
  <2>4. CASE i = k
    BY <1>2, <1>3, <1>4, <2>4
  <2> QED BY <1>3, <2>1, <2>2, <2>3, <2>4
<1> QED BY <1>2, <1>3, <1>4 DEF Before

----------------------------------------------------------------------------------
(* Where a source file comes to.                                           *)

Lowest(i) == IF i <= Len(TargetPath) THEN 0 ELSE i - Len(TargetPath)

\* The i-th name is rendered on the way to s.
IsRendered(s, i) == \E j \in Lowest(i)..Len(s) : Renders(SubSeq(s, 1, j))

LEMMA DestinationNames ==
  ASSUME NEW s
  PROVE  Destination(s) = [i \in 1..(Len(TargetPath) + Len(s)) |->
                             IF IsRendered(s, i) THEN Value[(TargetPath \o s)[i]]
                                                 ELSE (TargetPath \o s)[i]]
BY DEF Destination, IsRendered, Lowest

\* The source's path as it would be below the target's.
LEMMA TargetNames ==
  ASSUME NEW s \in Path
  PROVE  /\ TargetPath \o s \in Path
         /\ Len(TargetPath) \in Nat /\ Len(s) \in Nat
         /\ Len(TargetPath \o s) = Len(TargetPath) + Len(s)
         /\ \A i \in 1..Len(TargetPath) : (TargetPath \o s)[i] = TargetPath[i]
         /\ \A i \in 1..Len(s) : (TargetPath \o s)[Len(TargetPath) + i] = s[i]
         /\ \A i \in 1..(Len(TargetPath) + Len(s)) : (TargetPath \o s)[i] \in Name
<1>1. /\ TargetPath \in Seq(Name) /\ s \in Seq(Name)
      /\ Len(TargetPath) \in Nat /\ Len(s) \in Nat
  BY CopierAssumption, LenProperties DEF Path
<1>2. /\ TargetPath \o s \in Seq(Name)
      /\ Len(TargetPath \o s) = Len(TargetPath) + Len(s)
      /\ \A i \in 1..(Len(TargetPath) + Len(s)) :
           (TargetPath \o s)[i] = IF i <= Len(TargetPath) THEN TargetPath[i]
                                  ELSE s[i - Len(TargetPath)]
  BY <1>1, ConcatProperties
<1>3. \A i \in 1..(Len(TargetPath) + Len(s)) : (TargetPath \o s)[i] \in Name
  BY <1>2, ElementOfSeq
<1> QED BY <1>1, <1>2, <1>3 DEF Path

\* An entry's path there is its directory's and its name.
LEMMA TargetEntry ==
  ASSUME NEW s \in Path, NEW n \in Name
  PROVE  TargetPath \o Append(s, n) = Append(TargetPath \o s, n)
<1> DEFINE t == Append(s, n)
           w == TargetPath \o s
           x == TargetPath \o t
           y == Append(w, n)
           a == Len(TargetPath)
<1>1. /\ t \in Path /\ Len(s) \in Nat /\ Len(t) = Len(s) + 1
      /\ \A i \in 1..Len(s) : t[i] = s[i]
      /\ t[Len(s) + 1] = n
  BY EntryNames
<1>2. /\ w \in Path /\ a \in Nat /\ Len(w) = a + Len(s)
      /\ \A i \in 1..a : w[i] = TargetPath[i]
      /\ \A i \in 1..Len(s) : w[a + i] = s[i]
  BY TargetNames
<1>3. /\ x \in Path /\ Len(x) = a + Len(t)
      /\ \A i \in 1..a : x[i] = TargetPath[i]
      /\ \A i \in 1..Len(t) : x[a + i] = t[i]
  BY <1>1, TargetNames
<1>4. /\ y \in Path /\ Len(y) = Len(w) + 1
      /\ \A i \in 1..Len(w) : y[i] = w[i]
      /\ y[Len(w) + 1] = n
  BY <1>2, EntryNames
<1> HIDE DEF t, w, x, y, a
<1>5. \A i \in 1..Len(x) : x[i] = y[i]
  <2> SUFFICES ASSUME NEW i \in 1..Len(x) PROVE x[i] = y[i]
    OBVIOUS
  <2>1. CASE i <= a
    BY <1>1, <1>2, <1>3, <1>4, <2>1
  <2>2. CASE i > a
    <3>1. i - a \in 1..Len(t) /\ i = a + (i - a)
      BY <1>1, <1>2, <1>3, <2>2
    <3>2. x[i] = t[i - a]
      BY <1>3, <3>1
    <3>3. CASE i - a = Len(s) + 1
      <4>1. i = Len(w) + 1
        BY <1>1, <1>2, <3>1, <3>3
      <4> QED BY <1>1, <1>4, <3>2, <3>3, <4>1
    <3>4. CASE i - a # Len(s) + 1
      <4>1. i - a \in 1..Len(s) /\ i \in 1..Len(w)
        BY <1>1, <1>2, <3>1, <3>4
      <4>2. w[i] = s[i - a]
        BY <1>2, <3>1, <4>1
      <4> QED BY <1>1, <1>4, <3>2, <4>1, <4>2
    <3> QED BY <3>3, <3>4
  <2> QED BY <1>2, <2>1, <2>2
<1>6. Len(x) = Len(y)
  BY <1>1, <1>2, <1>3, <1>4
<1>7. x = y
  BY <1>3, <1>4, <1>5, <1>6, SameNames
<1> QED BY <1>7 DEF x, y, t, w

\* What is rendered on the way to an entry.
LEMMA RenderedEntry ==
  ASSUME NEW s \in Path, NEW n \in Name
  PROVE  /\ \A i \in 1..(Len(TargetPath) + Len(s)) :
              IsRendered(Append(s, n), i) <=> IsRendered(s, i) \/ Renders(Append(s, n))
         /\ IsRendered(Append(s, n), Len(TargetPath) + Len(s) + 1) <=> Renders(Append(s, n))
<1> DEFINE t == Append(s, n)
           a == Len(TargetPath)
<1>1. /\ Len(s) \in Nat /\ Len(t) = Len(s) + 1 /\ a \in Nat
      /\ \A j \in 0..Len(s) : SubSeq(t, 1, j) = SubSeq(s, 1, j)
      /\ SubSeq(t, 1, Len(s) + 1) = t
  BY EntryNames, EntrySegment, TargetNames
<1> HIDE DEF t
<1>2. ASSUME NEW i \in 1..(a + Len(s))
      PROVE  IsRendered(t, i) <=> IsRendered(s, i) \/ Renders(t)
  <2>1. Lowest(i) \in 0..Len(s)
    BY <1>1 DEF Lowest
  <2>2. Lowest(i)..Len(t) = (Lowest(i)..Len(s)) \union {Len(s) + 1}
    BY <1>1, <2>1
  <2>3. \A j \in Lowest(i)..Len(s) : SubSeq(t, 1, j) = SubSeq(s, 1, j)
    BY <1>1, <2>1
  <2> QED BY <1>1, <2>2, <2>3 DEF IsRendered
<1>3. IsRendered(t, a + Len(s) + 1) <=> Renders(t)
  <2>1. Lowest(a + Len(s) + 1) = Len(s) + 1
    BY <1>1 DEF Lowest
  <2>2. Lowest(a + Len(s) + 1)..Len(t) = {Len(s) + 1}
    BY <1>1, <2>1
  <2> QED BY <1>1, <2>2 DEF IsRendered
<1> QED BY <1>2, <1>3 DEF t

(* A directory's destination with an entry's name, rendered as a whole, is *)
(* the entry's destination; and it can be rendered unless the entry's path *)
(* has a name that cannot.                                                 *)
LEMMA DestinationOfEntry ==
  ASSUME RendersOnce, NEW s \in Path, NEW n \in Name, Destination(s) \in Path
  PROVE  LET t == Append(s, n)
             p == Append(Destination(s), n) IN
         /\ Renderable(t, p) <=> ~Misnamed(t)
         /\ RenderedPath(t, p) = Destination(t)
<1> DEFINE t == Append(s, n)
           d == Destination(s)
           p == Append(d, n)
           w == TargetPath \o s
           x == TargetPath \o t
           m == Len(TargetPath) + Len(s)
<1>1. /\ m \in Nat /\ Len(w) = m /\ w \in Path
      /\ \A i \in 1..m : w[i] \in Name
  BY TargetNames
<1>2. /\ x \in Path /\ Len(x) = m + 1
      /\ \A i \in 1..m : x[i] = w[i]
      /\ x[m + 1] = n
      /\ t \in Path
  <2>1. x = Append(w, n)
    BY TargetEntry
  <2> QED BY <1>1, <2>1, EntryNames
<1>3. Len(d) = m /\ \A i \in 1..m : d[i] = (IF IsRendered(s, i) THEN Value[w[i]] ELSE w[i])
  <2>1. d = [i \in 1..m |-> IF IsRendered(s, i) THEN Value[w[i]] ELSE w[i]]
    BY Zenon, DestinationNames
  <2>2. DOMAIN d = 1..Len(d) /\ Len(d) \in Nat
    BY LenProperties DEF Path
  <2>3. 1..m = 1..Len(d)
    BY <2>1, <2>2
  <2>4. m = Len(d)
    BY Zenon, <1>1, <2>2, <2>3, SameLength
  <2> QED BY <2>1, <2>4
<1>4. /\ p \in Path /\ Len(p) = m + 1 /\ DOMAIN p = 1..(m + 1)
      /\ \A i \in 1..m : p[i] = d[i]
      /\ p[m + 1] = n
  <2>1. /\ p \in Path /\ Len(p) = Len(d) + 1
        /\ \A i \in 1..Len(d) : p[i] = d[i]
        /\ p[Len(d) + 1] = n
    BY EntryNames
  <2>2. DOMAIN p = 1..Len(p)
    BY <2>1, LenProperties DEF Path
  <2> QED BY <1>3, <2>1, <2>2
<1>5. \A i \in 1..m : d[i] \in Name
  BY <1>3, ElementOfSeq DEF Path
<1>6. /\ \A i \in 1..m : IsRendered(t, i) <=> IsRendered(s, i) \/ Renders(t)
      /\ IsRendered(t, m + 1) <=> Renders(t)
  BY RenderedEntry
<1>7. Destination(t) = [i \in 1..(m + 1) |-> IF IsRendered(t, i) THEN Value[x[i]] ELSE x[i]]
  <2>1. Len(TargetPath) + Len(t) = m + 1
    BY EntryNames, TargetNames
  <2>2. Destination(t) = [i \in 1..(Len(TargetPath) + Len(t)) |->
                            IF IsRendered(t, i) THEN Value[x[i]] ELSE x[i]]
    BY DestinationNames
  <2> QED BY <2>1, <2>2
<1> HIDE DEF t, d, p, w, x, m
\* A name that has been rendered once comes to the same.
<1>8. ASSUME NEW i \in 1..m PROVE Value[p[i]] = Value[x[i]]
  <2>1. CASE IsRendered(s, i)
    <3>1. p[i] = Value[w[i]] /\ Value[w[i]] \in Name /\ w[i] \in Name /\ x[i] = w[i]
      BY <1>1, <1>2, <1>3, <1>4, <1>5, <2>1
    <3>2. Value[w[i]] # Bad
      BY <3>1, CopierAssumption
    <3> QED BY <3>1, <3>2 DEF RendersOnce
  <2>2. CASE ~IsRendered(s, i)
    BY <1>2, <1>3, <1>4, <2>2
  <2> QED BY <2>1, <2>2
<1>9. \A i \in 1..(m + 1) : Value[p[i]] = Value[x[i]]
  BY <1>1, <1>2, <1>4, <1>8
<1>10. Renderable(t, p) <=> ~Misnamed(t)
  <2>1. DOMAIN x = 1..(m + 1)
    BY <1>2, LenProperties DEF Path
  <2>2. Misnamed(t) <=> Renders(t) /\ \E i \in 1..(m + 1) : Value[x[i]] = Bad
    BY <2>1 DEF Misnamed, ToSet, x
  <2>3. Renderable(t, p) <=> (Renders(t) => \A i \in 1..(m + 1) : Value[p[i]] # Bad)
    BY <1>4 DEF Renderable
  <2> QED BY <1>9, <2>2, <2>3
<1>11. RenderedPath(t, p) = Destination(t)
  <2>1. CASE Renders(t)
    <3>1. RenderedPath(t, p) = [i \in 1..(m + 1) |-> Value[p[i]]]
      BY <1>4, <2>1 DEF RenderedPath
    <3>2. \A i \in 1..(m + 1) : IsRendered(t, i)
      BY <1>1, <1>6, <2>1
    <3>3. Destination(t) = [i \in 1..(m + 1) |-> Value[x[i]]]
      BY <1>7, <3>2
    <3> QED BY <1>9, <3>1, <3>3
  <2>2. CASE ~Renders(t)
    <3>1. \A i \in 1..m : IsRendered(t, i) <=> IsRendered(s, i)
      BY <1>6, <2>2
    <3>2. \A i \in 1..(m + 1) : p[i] = (IF IsRendered(t, i) THEN Value[x[i]] ELSE x[i])
      BY <1>1, <1>2, <1>3, <1>4, <1>6, <2>2, <3>1
    <3>3. p = [i \in 1..(m + 1) |-> p[i]]
      BY <1>4, LenProperties DEF Path
    <3> QED BY <1>7, <2>2, <3>2, <3>3 DEF RenderedPath
  <2> QED BY <2>1, <2>2
<1> QED BY <1>10, <1>11 DEF t, p, d

----------------------------------------------------------------------------------
(* The walk on its way.                                                    *)

AtFault(s) == Misnamed(s) \/ Fault(s, from[s])

\* What the file can come to.
Made(s) == Rendition(s, from[s])

\* The k-th directory of the walk has a name to come on the way to s.
Awaits(dirs, k, s) == /\ k <= Len(s)
                      /\ \A i \in 1..(k - 1) : s[i] = dirs[k].src[i]
                      /\ s[k] \in dirs[k].todo

Awaited(dirs, s) == \E k \in 1..Len(dirs) : Awaits(dirs, k, s)

Done(dirs) == {s \in Copies(base) : ~Awaited(dirs, s)}

\* No directory on the way is blocked, nor the path itself.
Unblocked(s) == \A q \in Prefixes(s) : ~Blocks(base, q)

(* Each directory of the walk is an entry of the one before, which has gone *)
(* through it in its order, and each is where its files go.                *)
Frames(dirs) ==
  \A k \in 1..Len(dirs) :
    /\ Len(dirs[k].src) = k - 1
    /\ Unblocked(dirs[k].src)
    /\ dirs[k].dst = Destination(dirs[k].src)
    /\ \A j \in (k + 1)..Len(dirs) :
         /\ \A i \in 1..(k - 1) : dirs[j].src[i] = dirs[k].src[i]
         /\ \A n \in dirs[k].todo : Rank[dirs[j].src[k]] < Rank[n]

\* Where the walk is, and what is left when the entry is done with.
LEMMA EntryFacts ==
  ASSUME TypeInv, Entering
  PROVE  /\ Len(stack) \in Nat \ {0} /\ Len(stack) \in 1..Len(stack)
         /\ \A k \in 1..Len(stack) : stack[k] \in Frame /\ Past[k] \in Frame
         /\ Last(stack) = stack[Len(stack)]
         /\ Entry \in stack[Len(stack)].todo /\ Entry \in Name
         /\ \A m \in stack[Len(stack)].todo : m = Entry \/ Rank[Entry] < Rank[m]
         /\ Past \in Seq(Frame) /\ Len(Past) = Len(stack)
         /\ \A k \in 1..Len(stack) : Past[k].src = stack[k].src
         /\ \A k \in 1..Len(stack) : Past[k].dst = stack[k].dst
         /\ \A k \in 1..Len(stack) : k # Len(stack) => Past[k].todo = stack[k].todo
         /\ Past[Len(stack)].todo = stack[Len(stack)].todo \ {Entry}
<1>1. stack \in Seq(Frame) /\ stack # << >> /\ Last(stack).todo # {}
  BY DEF TypeInv, TypeOK, SyncTypes, Entering
<1>2. Len(stack) \in Nat \ {0} /\ Len(stack) \in 1..Len(stack)
  BY <1>1, FrontType
<1>3. \A k \in 1..Len(stack) : stack[k] \in Frame
  BY <1>1, ElementOfSeq
<1>4. Last(stack) = stack[Len(stack)] /\ Last(stack).todo \subseteq Name
  BY <1>2, <1>3 DEF Last, Frame
<1>5. Entry \in Last(stack).todo /\ \A m \in Last(stack).todo : Rank[Entry] <= Rank[m]
  BY <1>1, <1>4, FirstIsEntry DEF Entry
<1>6. ASSUME NEW m \in Last(stack).todo PROVE m = Entry \/ Rank[Entry] < Rank[m]
  <2>1. m \in Name /\ Entry \in Name /\ Rank[Entry] <= Rank[m]
    BY <1>4, <1>5
  <2>2. Rank[m] \in Nat /\ Rank[Entry] \in Nat /\ (Rank[m] = Rank[Entry] => m = Entry)
    BY <2>1, CopierAssumption
  <2> QED BY <2>1, <2>2
<1>7. Past = [stack EXCEPT ![Len(stack)] = [Last(stack) EXCEPT !.todo = @ \ {Entry}]]
  BY <1>1, <1>2, LenProperties DEF Past, Last
<1>8. [Last(stack) EXCEPT !.todo = @ \ {Entry}] \in Frame
  BY <1>2, <1>3, <1>4 DEF Frame
<1>9. /\ Past \in Seq(Frame) /\ Len(Past) = Len(stack)
      /\ \A k \in 1..Len(stack) : Past[k] = IF k = Len(stack)
                                               THEN [Last(stack) EXCEPT !.todo = @ \ {Entry}]
                                               ELSE stack[k]
  BY <1>1, <1>2, <1>7, <1>8, ExceptSeq
<1>10. /\ [Last(stack) EXCEPT !.todo = @ \ {Entry}].src = Last(stack).src
       /\ [Last(stack) EXCEPT !.todo = @ \ {Entry}].dst = Last(stack).dst
       /\ [Last(stack) EXCEPT !.todo = @ \ {Entry}].todo = Last(stack).todo \ {Entry}
  BY <1>2, <1>3, <1>4 DEF Frame
<1>11. \A k \in 1..Len(stack) : Past[k] \in Frame
  BY <1>9, ElementOfSeq
<1>12. /\ \A k \in 1..Len(stack) : Past[k].src = stack[k].src
       /\ \A k \in 1..Len(stack) : Past[k].dst = stack[k].dst
       /\ \A k \in 1..Len(stack) : k # Len(stack) => Past[k].todo = stack[k].todo
  BY <1>4, <1>9, <1>10
<1>13. Past[Len(stack)].todo = stack[Len(stack)].todo \ {Entry}
  BY <1>2, <1>4, <1>9, <1>10
<1> QED BY <1>2, <1>3, <1>4, <1>5, <1>6, <1>9, <1>11, <1>12, <1>13

\* The entry's names.
LEMMA SrcNames ==
  ASSUME TypeInv, Entering, Frames(stack)
  PROVE  /\ Src \in Path /\ Len(Src) = Len(stack)
         /\ \A k \in 1..Len(stack) : \A i \in 1..(k - 1) : Src[i] = stack[k].src[i]
         /\ \A k \in 1..(Len(stack) - 1) : \A n \in stack[k].todo : Rank[Src[k]] < Rank[n]
         /\ Src[Len(stack)] = Entry
<1> DEFINE l == Len(stack)
<1>1. l \in Nat \ {0} /\ Last(stack) = stack[l] /\ stack[l] \in Frame /\ Entry \in Name
  BY EntryFacts
<1>2. stack[l].src \in Path /\ Len(stack[l].src) = l - 1 /\ Src = Append(stack[l].src, Entry)
  BY <1>1 DEF Frame, Frames, Src
<1>3. /\ Src \in Path /\ Len(Src) = l /\ Src[l] = Entry
      /\ \A i \in 1..(l - 1) : Src[i] = stack[l].src[i]
  <2>1. /\ Src \in Path
        /\ Len(Src) = Len(stack[l].src) + 1
        /\ \A i \in 1..Len(stack[l].src) : Src[i] = stack[l].src[i]
        /\ Src[Len(stack[l].src) + 1] = Entry
    BY <1>1, <1>2, EntryNames
  <2> QED BY <1>1, <1>2, <2>1
<1>4. ASSUME NEW k \in 1..l, NEW i \in 1..(k - 1) PROVE Src[i] = stack[k].src[i]
  <2>1. CASE k = l
    BY <1>3, <2>1
  <2>2. CASE k # l
    <3>1. l \in (k + 1)..l /\ i \in 1..(l - 1)
      BY <1>1, <2>2
    <3>2. stack[l].src[i] = stack[k].src[i]
      BY <3>1 DEF Frames
    <3> QED BY <1>3, <3>1, <3>2
  <2> QED BY <2>1, <2>2
<1>5. ASSUME NEW k \in 1..(l - 1), NEW n \in stack[k].todo PROVE Rank[Src[k]] < Rank[n]
  <2>1. k \in 1..l /\ l \in (k + 1)..l
    BY <1>1
  <2>2. Rank[stack[l].src[k]] < Rank[n]
    BY <2>1 DEF Frames
  <2> QED BY <1>3, <2>2
<1> QED BY <1>3, <1>4, <1>5

\* Done with the entry, the walk awaits what is not below it.
LEMMA AwaitedPast ==
  ASSUME TypeInv, Entering, Frames(stack), NEW s \in Path
  PROVE  Awaited(Past, s) <=> Awaited(stack, s) /\ ~IsPrefix(Src, s)
<1> DEFINE l == Len(stack)
<1>1. /\ l \in Nat \ {0} /\ l \in 1..l /\ Len(Past) = l
      /\ Entry \in stack[l].todo
      /\ \A k \in 1..l : Past[k].src = stack[k].src
      /\ \A k \in 1..l : k # l => Past[k].todo = stack[k].todo
      /\ Past[l].todo = stack[l].todo \ {Entry}
  BY EntryFacts
<1>2. /\ Src \in Path /\ Len(Src) = l /\ Src[l] = Entry
      /\ \A k \in 1..l : \A i \in 1..(k - 1) : Src[i] = stack[k].src[i]
      /\ \A k \in 1..(l - 1) : \A n \in stack[k].todo : Rank[Src[k]] < Rank[n]
  BY SrcNames
<1>3. IsPrefix(Src, s) <=> l <= Len(s) /\ \A i \in 1..l : Src[i] = s[i]
  BY <1>2, PrefixNames
<1>4. Len(s) \in Nat /\ \A i \in 1..Len(s) : s[i] \in Name /\ Rank[s[i]] \in Nat
  BY LenProperties, ElementOfSeq, CopierAssumption DEF Path
<1> HIDE DEF l
<1>5. ASSUME NEW k \in 1..l, Awaits(Past, k, s)
      PROVE  Awaits(stack, k, s) /\ ~IsPrefix(Src, s)
  <2>1. Awaits(stack, k, s)
    BY <1>1, <1>5 DEF Awaits
  <2>2. k \in 1..Len(s)
    BY <1>4, <1>5 DEF Awaits
  <2>3. CASE k = l
    <3>1. s[l] # Src[l]
      BY <1>1, <1>2, <1>5, <2>3 DEF Awaits
    <3> QED BY <1>1, <1>3, <2>1, <3>1
  <2>4. CASE k # l
    <3>1. k \in 1..(l - 1) /\ k \in 1..l
      BY <1>1, <2>4
    <3>2. Rank[Src[k]] < Rank[s[k]]
      BY <1>2, <2>1, <3>1 DEF Awaits
    <3>3. Rank[s[k]] \in Nat
      BY <1>4, <2>2
    <3>4. Src[k] # s[k]
      BY <3>2, <3>3
    <3> QED BY <1>3, <2>1, <3>1, <3>4
  <2> QED BY <2>3, <2>4
<1>6. ASSUME NEW k \in 1..l, Awaits(stack, k, s), ~IsPrefix(Src, s)
      PROVE  Awaits(Past, k, s)
  <2>1. CASE k = l
    <3>1. /\ l <= Len(s) /\ s[l] \in stack[l].todo
          /\ \A i \in 1..(l - 1) : s[i] = stack[l].src[i]
      BY <1>6, <2>1 DEF Awaits
    <3>2. s[l] # Entry
      <4> SUFFICES ASSUME s[l] = Entry PROVE FALSE
        OBVIOUS
      <4>1. \A i \in 1..l : Src[i] = s[i]
        BY <1>1, <1>2, <3>1
      <4> QED BY <1>3, <1>6, <3>1, <4>1
    <3> QED BY <1>1, <2>1, <3>1, <3>2 DEF Awaits
  <2>2. CASE k # l
    BY <1>1, <1>6, <2>2 DEF Awaits
  <2> QED BY <2>1, <2>2
<1> QED BY <1>1, <1>5, <1>6 DEF Awaited, l

\* The entry itself is awaited, and of all that is it comes first.
LEMMA SrcComesNext ==
  ASSUME TypeInv, Entering, Frames(stack)
  PROVE  /\ Awaited(stack, Src) /\ ~Awaited(Past, Src)
         /\ \A t \in Path : Awaited(Past, t) => Before(Src, t)
<1> DEFINE l == Len(stack)
<1>1. /\ l \in Nat \ {0} /\ l \in 1..l /\ Len(Past) = l
      /\ Entry \in stack[l].todo
      /\ \A m \in stack[l].todo : m = Entry \/ Rank[Entry] < Rank[m]
      /\ \A k \in 1..l : Past[k].src = stack[k].src
      /\ \A k \in 1..l : k # l => Past[k].todo = stack[k].todo
      /\ Past[l].todo = stack[l].todo \ {Entry}
  BY EntryFacts
<1>2. /\ Src \in Path /\ Len(Src) = l /\ Src[l] = Entry
      /\ \A k \in 1..l : \A i \in 1..(k - 1) : Src[i] = stack[k].src[i]
      /\ \A k \in 1..(l - 1) : \A n \in stack[k].todo : Rank[Src[k]] < Rank[n]
  BY SrcNames
<1>3. Awaited(stack, Src)
  <2>1. Awaits(stack, l, Src)
    BY <1>1, <1>2 DEF Awaits
  <2> QED BY <1>1, <2>1 DEF Awaited
<1>4. ~Awaited(Past, Src)
  <2>1. IsPrefix(Src, Src)
    BY <1>2, PrefixesAreAbove
  <2> QED BY <1>2, <2>1, AwaitedPast
<1>5. ASSUME NEW t \in Path, NEW k \in 1..l, Awaits(Past, k, t) PROVE Before(Src, t)
  <2>1. DOMAIN Src = 1..l /\ DOMAIN t = 1..Len(t) /\ Len(t) \in Nat
    BY <1>2, LenProperties DEF Path
  <2>2. k \in DOMAIN Src \intersect DOMAIN t
    BY <1>1, <1>5, <2>1 DEF Awaits
  <2>3. \A i \in 1..(k - 1) : Src[i] = t[i]
    BY <1>1, <1>2, <1>5 DEF Awaits
  <2>4. Rank[Src[k]] < Rank[t[k]]
    <3>1. CASE k = l
      BY <1>1, <1>2, <1>5, <3>1 DEF Awaits
    <3>2. CASE k # l
      <4>1. k \in 1..(l - 1)
        BY <1>1, <3>2
      <4> QED BY <1>1, <1>2, <1>5, <3>2, <4>1 DEF Awaits
    <3> QED BY <3>1, <3>2
  <2> QED BY <2>2, <2>3, <2>4 DEF Before
<1> QED BY <1>1, <1>3, <1>4, <1>5 DEF Awaited

LEMMA FramesPast ==
  ASSUME TypeInv, Entering, Frames(stack)
  PROVE  Frames(Past)
<1> DEFINE l == Len(stack)
<1>1. /\ l \in Nat \ {0} /\ Len(Past) = l
      /\ \A k \in 1..l : Past[k].src = stack[k].src
      /\ \A k \in 1..l : Past[k].dst = stack[k].dst
      /\ \A k \in 1..l : k # l => Past[k].todo = stack[k].todo
  BY EntryFacts
<1> HIDE DEF l
<1> SUFFICES ASSUME NEW k \in 1..l
             PROVE  /\ Len(Past[k].src) = k - 1
                    /\ Unblocked(Past[k].src)
                    /\ Past[k].dst = Destination(Past[k].src)
                    /\ \A j \in (k + 1)..l :
                         /\ \A i \in 1..(k - 1) : Past[j].src[i] = Past[k].src[i]
                         /\ \A n \in Past[k].todo : Rank[Past[j].src[k]] < Rank[n]
  BY <1>1 DEF Frames
<1>2. /\ Len(stack[k].src) = k - 1
      /\ Unblocked(stack[k].src)
      /\ stack[k].dst = Destination(stack[k].src)
      /\ \A j \in (k + 1)..l :
           /\ \A i \in 1..(k - 1) : stack[j].src[i] = stack[k].src[i]
           /\ \A n \in stack[k].todo : Rank[stack[j].src[k]] < Rank[n]
  BY DEF Frames, l
<1>3. Past[k].src = stack[k].src /\ Past[k].dst = stack[k].dst
  BY <1>1
<1>4. ASSUME NEW j \in (k + 1)..l
      PROVE  /\ \A i \in 1..(k - 1) : Past[j].src[i] = Past[k].src[i]
             /\ \A n \in Past[k].todo : Rank[Past[j].src[k]] < Rank[n]
  <2>1. j \in 1..l /\ k # l
    BY <1>1
  <2>2. Past[j].src = stack[j].src /\ Past[k].todo = stack[k].todo
    BY <1>1, <2>1
  <2> QED BY <1>2, <1>3, <2>2
<1> QED BY <1>2, <1>3, <1>4

\* The walk goes on in a directory that is not blocked.
LEMMA FramesEnter ==
  ASSUME TypeInv, Entering, Frames(stack), ~Blocks(base, Src),
         NEW d \in Frame, d.src = Src, d.dst = Destination(Src)
  PROVE  Frames(Append(Past, d))
<1> DEFINE l == Len(stack)
           dirs == Append(Past, d)
<1>1. /\ l \in Nat \ {0} /\ l \in 1..l /\ Last(stack) = stack[l] /\ Entry \in Name
      /\ Past \in Seq(Frame) /\ Len(Past) = l
      /\ \A k \in 1..l : stack[k] \in Frame
      /\ \A k \in 1..l : Past[k].src = stack[k].src
      /\ \A k \in 1..l : k # l => Past[k].todo = stack[k].todo
      /\ Past[l].todo = stack[l].todo \ {Entry}
      /\ \A m \in stack[l].todo : m = Entry \/ Rank[Entry] < Rank[m]
  BY EntryFacts
<1>2. /\ Len(dirs) = l + 1 /\ dirs[l + 1] = d
      /\ \A k \in 1..l : dirs[k] = Past[k]
  BY <1>1, AppendProperties
<1>3. /\ Src \in Path /\ Len(Src) = l /\ Src[l] = Entry
      /\ \A k \in 1..l : \A i \in 1..(k - 1) : Src[i] = stack[k].src[i]
      /\ \A k \in 1..(l - 1) : \A n \in stack[k].todo : Rank[Src[k]] < Rank[n]
  BY SrcNames
<1>4. Unblocked(Src)
  <2>1. stack[l].src \in Path /\ Src = Append(stack[l].src, Entry) /\ Unblocked(stack[l].src)
    BY <1>1 DEF Frame, Frames, Src
  <2>2. Prefixes(Src) = Prefixes(stack[l].src) \union {Src}
    BY <1>1, <2>1, EntryPrefixes
  <2> QED BY <2>1, <2>2 DEF Unblocked
<1>5. Frames(Past)
  BY FramesPast
<1> HIDE DEF l, dirs
<1> SUFFICES ASSUME NEW k \in 1..(l + 1)
             PROVE  /\ Len(dirs[k].src) = k - 1
                    /\ Unblocked(dirs[k].src)
                    /\ dirs[k].dst = Destination(dirs[k].src)
                    /\ \A j \in (k + 1)..(l + 1) :
                         /\ \A i \in 1..(k - 1) : dirs[j].src[i] = dirs[k].src[i]
                         /\ \A n \in dirs[k].todo : Rank[dirs[j].src[k]] < Rank[n]
  BY <1>2 DEF Frames, dirs
<1>6. CASE k = l + 1
  <2>1. dirs[k] = d /\ k - 1 = l /\ (k + 1)..(l + 1) = {}
    BY <1>1, <1>2, <1>6
  <2> QED BY <1>3, <1>4, <2>1
<1>7. CASE k # l + 1
  <2>1. k \in 1..l /\ dirs[k] = Past[k]
    BY <1>1, <1>2, <1>7
  <2>2. /\ Len(Past[k].src) = k - 1
        /\ Unblocked(Past[k].src)
        /\ Past[k].dst = Destination(Past[k].src)
        /\ \A j \in (k + 1)..l :
             /\ \A i \in 1..(k - 1) : Past[j].src[i] = Past[k].src[i]
             /\ \A n \in Past[k].todo : Rank[Past[j].src[k]] < Rank[n]
    BY <1>1, <1>5, <2>1 DEF Frames
  <2>3. ASSUME NEW j \in (k + 1)..(l + 1)
        PROVE  /\ \A i \in 1..(k - 1) : dirs[j].src[i] = dirs[k].src[i]
               /\ \A n \in dirs[k].todo : Rank[dirs[j].src[k]] < Rank[n]
    <3>1. CASE j = l + 1
      <4>1. dirs[j].src = Src
        BY <1>2, <3>1
      <4>2. \A i \in 1..(k - 1) : dirs[j].src[i] = dirs[k].src[i]
        BY <1>1, <1>3, <2>1, <4>1
      <4>3. \A n \in dirs[k].todo : Rank[Src[k]] < Rank[n]
        <5>1. CASE k = l
          BY <1>1, <1>3, <2>1, <5>1
        <5>2. CASE k # l
          <6>1. k \in 1..(l - 1)
            BY <1>1, <2>1, <5>2
          <6> QED BY <1>1, <1>3, <2>1, <5>2, <6>1
        <5> QED BY <5>1, <5>2
      <4> QED BY <4>1, <4>2, <4>3
    <3>2. CASE j # l + 1
      <4>1. j \in (k + 1)..l /\ j \in 1..l
        BY <1>1, <2>1, <3>2
      <4>2. dirs[j] = Past[j]
        BY <1>2, <4>1
      <4> QED BY <2>1, <2>2, <4>1, <4>2
    <3> QED BY <3>1, <3>2
  <2> QED BY <2>1, <2>2, <2>3
<1> QED BY <1>6, <1>7

\* Leaving a directory that it has been through, the walk awaits what it did.
LEMMA LeavingFrames ==
  ASSUME NEW dirs \in Seq(Frame), dirs # << >>, Last(dirs).todo = {}, Frames(dirs)
  PROVE  /\ Frames(Front(dirs))
         /\ \A s : Awaited(Front(dirs), s) <=> Awaited(dirs, s)
<1> DEFINE l == Len(dirs)
           outer == Front(dirs)
<1>1. /\ l \in Nat \ {0} /\ Len(outer) = l - 1
      /\ \A k \in 1..(l - 1) : outer[k] = dirs[k]
  BY FrontNames
<1>2. dirs[l].todo = {}
  BY DEF Last
<1>3. Frames(outer)
  <2> SUFFICES ASSUME NEW k \in 1..(l - 1)
               PROVE  /\ Len(outer[k].src) = k - 1
                      /\ Unblocked(outer[k].src)
                      /\ outer[k].dst = Destination(outer[k].src)
                      /\ \A j \in (k + 1)..(l - 1) :
                           /\ \A i \in 1..(k - 1) : outer[j].src[i] = outer[k].src[i]
                           /\ \A n \in outer[k].todo : Rank[outer[j].src[k]] < Rank[n]
    BY <1>1 DEF Frames
  <2>1. k \in 1..l /\ outer[k] = dirs[k]
    BY <1>1
  <2>2. /\ Len(dirs[k].src) = k - 1
        /\ Unblocked(dirs[k].src)
        /\ dirs[k].dst = Destination(dirs[k].src)
        /\ \A j \in (k + 1)..l :
             /\ \A i \in 1..(k - 1) : dirs[j].src[i] = dirs[k].src[i]
             /\ \A n \in dirs[k].todo : Rank[dirs[j].src[k]] < Rank[n]
    BY <2>1 DEF Frames
  <2> HIDE DEF l, outer
  <2>3. ASSUME NEW j \in (k + 1)..(l - 1)
        PROVE  /\ \A i \in 1..(k - 1) : outer[j].src[i] = outer[k].src[i]
               /\ \A n \in outer[k].todo : Rank[outer[j].src[k]] < Rank[n]
    <3>1. j \in (k + 1)..l /\ outer[j] = dirs[j]
      BY <1>1, <2>1
    <3> QED BY <2>1, <2>2, <3>1
  <2> QED BY <2>1, <2>2, <2>3
<1> HIDE DEF l, outer
<1>4. ASSUME NEW s PROVE Awaited(outer, s) <=> Awaited(dirs, s)
  <2>1. ~Awaits(dirs, l, s)
    BY <1>2 DEF Awaits
  <2>2. \A k \in 1..(l - 1) : Awaits(outer, k, s) <=> Awaits(dirs, k, s)
    BY <1>1 DEF Awaits
  <2>3. 1..l = (1..(l - 1)) \union {l}
    BY <1>1
  <2>4. Awaited(dirs, s) <=> \E k \in 1..l : Awaits(dirs, k, s)
    BY DEF Awaited, l
  <2> QED BY <1>1, <2>1, <2>2, <2>3, <2>4 DEF Awaited
<1> QED BY <1>3, <1>4 DEF outer

\* Entering a directory, it awaits the same files.
LEMMA AwaitedEnter ==
  ASSUME TypeInv, Entering, Frames(stack), IsTree(from), IsDirOf(from, Src),
         NEW d \in Frame, d.src = Src, d.todo = Children(Src), NEW s \in DOMAIN from
  PROVE  Awaited(Append(Past, d), s) <=> Awaited(stack, s)
<1> DEFINE l == Len(stack)
           dirs == Append(Past, d)
<1>1. /\ l \in Nat \ {0} /\ l \in 1..l /\ Entry \in stack[l].todo
      /\ Past \in Seq(Frame) /\ Len(Past) = l
  BY EntryFacts
<1>2. /\ Len(dirs) = l + 1 /\ dirs[l + 1] = d
      /\ \A k \in 1..l : dirs[k] = Past[k]
  BY <1>1, AppendProperties
<1>3. /\ Src \in Path /\ Len(Src) = l /\ Src[l] = Entry
      /\ \A i \in 1..(l - 1) : Src[i] = stack[l].src[i]
  BY <1>1, SrcNames
<1>4. s \in Path /\ Len(s) \in Nat
  BY LenProperties DEF IsTree, IsFiles, Path
<1>5. IsPrefix(Src, s) <=> l <= Len(s) /\ \A i \in 1..l : Src[i] = s[i]
  BY <1>3, <1>4, PrefixNames
<1>6. Awaited(Past, s) <=> Awaited(stack, s) /\ ~IsPrefix(Src, s)
  BY <1>4, AwaitedPast
<1> HIDE DEF l, dirs
<1>7. IsPrefix(Src, s) => Awaited(stack, s)
  <2> SUFFICES ASSUME IsPrefix(Src, s) PROVE Awaited(stack, s)
    OBVIOUS
  <2>1. Awaits(stack, l, s)
    BY <1>1, <1>3, <1>5 DEF Awaits
  <2> QED BY <1>1, <2>1 DEF Awaited, l
<1>8. Awaits(dirs, l + 1, s) <=> IsPrefix(Src, s)
  <2>1. Awaits(dirs, l + 1, s) <=> /\ l + 1 <= Len(s)
                                  /\ \A i \in 1..l : s[i] = Src[i]
                                  /\ s[l + 1] \in Children(Src)
    BY <1>1, <1>2 DEF Awaits
  <2>2. ASSUME IsPrefix(Src, s) PROVE l + 1 <= Len(s) /\ s[l + 1] \in Children(Src)
    <3>1. PICK q \in DOMAIN from : IsStrictPrefix(Src, q)
      BY DEF IsDirOf
    <3>2. Src # s
      <4> SUFFICES ASSUME Src = s PROVE FALSE
        OBVIOUS
      <4>1. IsPrefix(s, q) /\ s # q
        BY <3>1 DEF IsStrictPrefix
      <4> QED BY <4>1 DEF IsTree
    <3>3. IsStrictPrefix(Src, s)
      BY <2>2, <3>2 DEF IsStrictPrefix
    <3>4. l # Len(s)
      BY <1>3, <1>4, <1>5, <2>2, <3>2, SameNames
    <3>5. s[l + 1] \in Children(Src)
      BY <1>3, <3>3 DEF Children
    <3> QED BY <1>1, <1>4, <1>5, <2>2, <3>4, <3>5
  <2>3. l + 1 <= Len(s) => l <= Len(s)
    BY <1>1, <1>4
  <2> QED BY <1>5, <2>1, <2>2, <2>3
<1>9. Awaited(dirs, s) <=> Awaited(Past, s) \/ Awaits(dirs, l + 1, s)
  <2>1. 1..(l + 1) = (1..l) \union {l + 1}
    BY <1>1
  <2>2. \A k \in 1..l : Awaits(dirs, k, s) <=> Awaits(Past, k, s)
    BY <1>2 DEF Awaits
  <2> QED BY <1>1, <1>2, <2>1, <2>2 DEF Awaited
<1> QED BY <1>6, <1>7, <1>8, <1>9 DEF dirs

----------------------------------------------------------------------------------
(* What it has done.                                                       *)

\* The files done come before those that are not.
Sorted(done) == \A s \in done, t \in Copies(base) \ done : Before(s, t)

(* The clone with the renditions of the files done; of those that come to  *)
(* the same destination, the last one's.                                   *)
Written(files, done) ==
  LET named == {s \in done : ~Misnamed(s)} IN
  /\ DOMAIN files = DOMAIN base \union {Destination(s) : s \in named}
  /\ \A p \in DOMAIN files :
       \/ /\ \A s \in named : Destination(s) # p
          /\ files[p] = base[p]
       \/ \E s \in named : /\ Destination(s) = p
                           /\ files[p] \in Made(s)
                           /\ \A t \in named : Destination(t) = p => t = s \/ Before(t, s)

\* Those of them at fault, in the order of the walk.
Listed(list, done) == /\ ToSet(list) = {s \in done : AtFault(s)}
                      /\ \A i, j \in DOMAIN list : i < j => Before(list[i], list[j])

\* An entry that is not blocked can be reached.
LEMMA EntryUnblocked ==
  ASSUME TypeInv, Entering, Frames(stack), ~Blocks(base, Src)
  PROVE  Unblocked(Src)
<1> DEFINE l == Len(stack)
<1>1. l \in 1..l /\ Last(stack) = stack[l] /\ stack[l] \in Frame /\ Entry \in Name
  BY EntryFacts
<1>2. stack[l].src \in Path /\ Src = Append(stack[l].src, Entry) /\ Unblocked(stack[l].src)
  BY <1>1 DEF Frame, Frames, Src
<1>3. Prefixes(Src) = Prefixes(stack[l].src) \union {Src}
  BY <1>1, <1>2, EntryPrefixes
<1> QED BY <1>2, <1>3 DEF Unblocked

\* Nothing below an entry that is blocked is copied, and nothing but itself is below a file.
LEMMA BelowEntry ==
  ASSUME TypeInv, Entering, Frames(stack), IsTree(from), NEW s \in Copies(base),
         IsPrefix(Src, s), Blocks(base, Src) \/ Src \in DOMAIN from
  PROVE  ~Blocks(base, Src) /\ s = Src
<1>1. /\ s \in DOMAIN from /\ s \in Path /\ Src \in Path
      /\ \A q \in Prefixes(s) : ~Blocks(base, q)
  BY SrcNames DEF Copies, IsTree, IsFiles
<1>2. ~Blocks(base, Src)
  BY <1>1, PrefixesAreAbove
<1> QED BY <1>1, <1>2 DEF IsTree

\* An entry that is passed over is none of the files to copy.
LEMMA DoneSkipping ==
  ASSUME TypeInv, Entering, Frames(stack), IsTree(from),
         Blocks(base, Src) \/ (Src \in DOMAIN from /\ from[Src] = "symlink")
  PROVE  Done(Past) = Done(stack)
<1> SUFFICES ASSUME NEW s \in Copies(base)
             PROVE  Awaited(Past, s) <=> Awaited(stack, s)
  BY DEF Done
<1>1. s \in Path /\ s \in DOMAIN from /\ from[s] # "symlink"
  BY DEF Copies, IsTree, IsFiles
<1>2. ~IsPrefix(Src, s)
  BY <1>1, BelowEntry
<1> QED BY <1>1, <1>2, AwaitedPast

\* A file of the source is the next one done.
LEMMA DoneCopying ==
  ASSUME TypeInv, Entering, Frames(stack), IsTree(from), Sorted(Done(stack)),
         ~Blocks(base, Src), Src \in DOMAIN from, from[Src] # "symlink"
  PROVE  /\ Done(Past) = Done(stack) \union {Src}
         /\ \A s \in Done(stack) : Before(s, Src)
         /\ Sorted(Done(Past))
<1>1. \A s \in Copies(base) : s \in Path
  BY DEF Copies, IsTree, IsFiles
<1>2. /\ Src \in Path /\ Awaited(stack, Src) /\ ~Awaited(Past, Src)
      /\ \A t \in Path : Awaited(Past, t) => Before(Src, t)
  BY SrcNames, SrcComesNext
<1>3. Src \in Copies(base)
  BY EntryUnblocked DEF Copies, Unblocked
<1>4. Done(Past) = Done(stack) \union {Src}
  <2>1. ASSUME NEW s \in Copies(base), s # Src PROVE Awaited(Past, s) <=> Awaited(stack, s)
    <3>1. ~IsPrefix(Src, s)
      BY <2>1, BelowEntry
    <3> QED BY <1>1, <3>1, AwaitedPast
  <2> QED BY <1>2, <1>3, <2>1 DEF Done
<1>5. \A s \in Done(stack) : Before(s, Src)
  BY <1>2, <1>3 DEF Sorted, Done
<1>6. Sorted(Done(Past))
  <2> SUFFICES ASSUME NEW s \in Done(Past), NEW t \in Copies(base) \ Done(Past)
               PROVE  Before(s, t)
    BY DEF Sorted
  <2>1. Awaited(Past, t) /\ t \in Path
    BY <1>1 DEF Done
  <2>2. CASE s = Src
    BY <1>2, <2>1, <2>2
  <2>3. CASE s # Src
    BY <1>4, <2>3 DEF Sorted
  <2> QED BY <2>2, <2>3
<1> QED BY <1>4, <1>5, <1>6

\* Before the walk nothing is done.
LEMMA NothingDone ==
  /\ Written(base, {})
  /\ Listed(<< >>, {})
  /\ Sorted({})
<1>1. Written(base, {})
  BY DEF Written
<1>2. DOMAIN << >> = {}
  OBVIOUS
<1>3. Listed(<< >>, {})
  BY <1>2 DEF Listed, ToSet
<1> QED BY <1>1, <1>3 DEF Sorted

\* One more file is written.
LEMMA WrittenNext ==
  ASSUME NEW done, NEW s, NEW c \in Made(s),
         Written(tree, done), ~Misnamed(s), \A t \in done : Before(t, s)
  PROVE  Written(Put(Destination(s), c), done \union {s})
<1> DEFINE p == Destination(s)
           files == Put(p, c)
           named == {t \in done : ~Misnamed(t)}
           next == {t \in done \union {s} : ~Misnamed(t)}
<1>1. next = named \union {s}
  OBVIOUS
<1>2. /\ DOMAIN files = DOMAIN tree \union {p}
      /\ \A q \in DOMAIN files : files[q] = IF q = p THEN c ELSE tree[q]
  BY DEF Put
<1>3. /\ DOMAIN tree = DOMAIN base \union {Destination(t) : t \in named}
      /\ \A q \in DOMAIN tree :
           \/ /\ \A t \in named : Destination(t) # q
              /\ tree[q] = base[q]
           \/ \E t \in named : /\ Destination(t) = q
                               /\ tree[q] \in Made(t)
                               /\ \A u \in named : Destination(u) = q => u = t \/ Before(u, t)
  BY DEF Written
<1>4. \A t \in named : Before(t, s)
  OBVIOUS
<1> HIDE DEF named, next, files
<1>5. DOMAIN files = DOMAIN base \union {Destination(t) : t \in next}
  BY <1>1, <1>2, <1>3
<1>6. ASSUME NEW q \in DOMAIN files
      PROVE  \/ /\ \A t \in next : Destination(t) # q
                /\ files[q] = base[q]
             \/ \E t \in next : /\ Destination(t) = q
                                /\ files[q] \in Made(t)
                                /\ \A u \in next : Destination(u) = q => u = t \/ Before(u, t)
  <2>1. CASE q = p
    <3>1. s \in next /\ Destination(s) = q /\ files[q] \in Made(s)
      BY <1>1, <1>2, <2>1
    <3>2. \A u \in next : u = s \/ Before(u, s)
      BY <1>1, <1>4
    <3> QED BY <3>1, <3>2
  <2>2. CASE q # p
    <3>1. q \in DOMAIN tree /\ files[q] = tree[q] /\ Destination(s) # q
      BY <1>2, <2>2
    <3> QED BY <1>1, <1>3, <3>1
  <2> QED BY <2>1, <2>2
<1> QED BY <1>5, <1>6 DEF Written, files, next

\* A file that cannot be named is not.
LEMMA WrittenBut ==
  ASSUME NEW files, NEW done, NEW s, Written(files, done), Misnamed(s)
  PROVE  Written(files, done \union {s})
<1>1. {t \in done \union {s} : ~Misnamed(t)} = {t \in done : ~Misnamed(t)}
  OBVIOUS
<1> QED BY <1>1 DEF Written

\* One more file is at fault.
LEMMA ListedNext ==
  ASSUME NEW list \in Seq(Path), NEW done, NEW s \in Path, Listed(list, done), AtFault(s),
         \A t \in done : Before(t, s)
  PROVE  Listed(Append(list, s), done \union {s})
<1> DEFINE more == Append(list, s)
<1>1. /\ Len(list) \in Nat /\ DOMAIN list = 1..Len(list)
      /\ more \in Seq(Path) /\ Len(more) = Len(list) + 1 /\ DOMAIN more = 1..Len(more)
      /\ \A i \in 1..Len(list) : more[i] = list[i]
      /\ more[Len(list) + 1] = s
  BY AppendProperties, LenProperties
<1> HIDE DEF more
<1>2. DOMAIN more = DOMAIN list \union {Len(list) + 1}
  BY <1>1
<1>3. ToSet(more) = ToSet(list) \union {s}
  BY <1>1, <1>2 DEF ToSet
<1>4. ToSet(more) = {t \in done \union {s} : AtFault(t)}
  BY <1>3 DEF Listed
<1>5. ASSUME NEW i \in DOMAIN more, NEW j \in DOMAIN more, i < j PROVE Before(more[i], more[j])
  <2>1. i \in DOMAIN list /\ more[i] = list[i]
    BY <1>1, <1>5
  <2>2. CASE j = Len(list) + 1
    <3>1. list[i] \in ToSet(list)
      BY <2>1 DEF ToSet
    <3>2. list[i] \in done
      BY <3>1 DEF Listed
    <3> QED BY <1>1, <2>1, <2>2, <3>2
  <2>3. CASE j # Len(list) + 1
    <3>1. j \in DOMAIN list /\ more[j] = list[j]
      BY <1>1, <1>2, <2>3
    <3> QED BY <1>5, <2>1, <3>1 DEF Listed
  <2> QED BY <2>2, <2>3
<1> QED BY <1>4, <1>5 DEF Listed, more

\* A file without fault is not.
LEMMA ListedBut ==
  ASSUME NEW list, NEW done, NEW s, Listed(list, done), ~AtFault(s)
  PROVE  Listed(list, done \union {s})
<1>1. {t \in done \union {s} : AtFault(t)} = {t \in done : AtFault(t)}
  OBVIOUS
<1> QED BY <1>1 DEF Listed

----------------------------------------------------------------------------------
(* The invariants.                                                         *)

(* What a sync has cloned, and what it holds before and after the walk. A  *)
(* target path that is a file ends a sync that may not change it.          *)
CloneInv ==
  /\ IsTree(source) /\ << >> \notin DOMAIN source
  /\ pc # "idle" => /\ IsTree(from) /\ << >> \notin DOMAIN from
                    /\ request.override \/ TargetPath \notin DOMAIN base
                    /\ blocked = IF request.override THEN {} ELSE Under(TargetPath, base)
  /\ pc # "walk" => stack = << >>
  /\ pc \in {"idle", "copy"} => errors = << >>
  /\ pc = "copy" => tree = base
  /\ pc = "push" => errors = << >>

WalkInv ==
  pc \in {"walk", "walked", "push"} =>
    /\ Frames(stack)
    /\ Sorted(Done(stack))
    /\ Written(tree, Done(stack))
    /\ Listed(errors, Done(stack))

\* A source that changes is still a tree.
LEMMA EditedSource ==
  ASSUME IsTree(source), << >> \notin DOMAIN source, Edit
  PROVE  IsTree(source') /\ << >> \notin DOMAIN source'
<1>1. SourceContent \subseteq Content /\ SourcePaths \subseteq Path \ {<< >>}
  BY CopierAssumption DEF Content
<1>2. ASSUME NEW p \in SourcePaths, NEW c \in SourceContent,
             \A q \in DOMAIN source : q = p \/ ~(IsPrefix(p, q) \/ IsPrefix(q, p)),
             source' = [q \in DOMAIN source \union {p} |-> IF q = p THEN c ELSE source[q]]
      PROVE  IsTree(source') /\ << >> \notin DOMAIN source'
  <2>1. IsFiles(source')
    BY <1>1, <1>2 DEF IsTree, IsFiles
  <2>2. DOMAIN source' = DOMAIN source \union {p}
    BY <1>2
  <2>3. \A q, r \in DOMAIN source' : IsPrefix(q, r) => q = r
    BY <1>2, <2>2 DEF IsTree
  <2> QED BY <1>1, <1>2, <2>1, <2>2, <2>3 DEF IsTree
<1>3. ASSUME NEW p \in DOMAIN source, source' = [q \in DOMAIN source \ {p} |-> source[q]]
      PROVE  IsTree(source') /\ << >> \notin DOMAIN source'
  BY <1>3 DEF IsTree, IsFiles
<1> QED BY <1>2, <1>3 DEF Edit

LEMMA InitClone == Init => CloneInv
BY CopierAssumption DEF Init, CloneInv

LEMMA StepClone ==
  ASSUME TypeInv, CloneInv, [Next]_vars
  PROVE  CloneInv'
<1>1. ASSUME Forget, UNCHANGED source PROVE CloneInv'
  BY <1>1 DEF Forget, CloneInv
<1>2. ASSUME UNCHANGED <<repository, request, walk>>, pc # "idle",
             pc' \in {"walk", "walked", "push"}, pc' # "walk" => stack' = << >>,
             pc' = "push" => errors' = << >>
      PROVE  CloneInv'
  BY <1>2 DEF CloneInv, repository, walk
<1>3. ASSUME NEW r \in Request, Begin(r) PROVE CloneInv'
  BY <1>3 DEF Begin, CloneInv, IsFileOf, repository
<1>4. CASE EnterRoot
  BY <1>2, <1>4 DEF EnterRoot
<1>5. CASE EnterDir \/ Skip \/ RefuseName \/ CopyFile
  BY <1>2, <1>5 DEF EnterDir, Skip, RefuseName, CopyFile, File, Entering
<1>6. CASE LeaveDir
  <2>1. stack \in Seq(Frame) /\ stack # << >>
    BY <1>6 DEF LeaveDir, TypeInv, TypeOK, SyncTypes
  <2>2. stack' \in Seq(Frame) /\ Len(stack') = Len(stack) - 1
    BY <1>6, <2>1, FrontType DEF LeaveDir
  <2>3. pc' # "walk" => stack' = << >>
    <3>1. Len(stack) = 1 => Len(stack') = 0
      BY <2>2
    <3> QED BY <1>6, <2>2, <3>1, EmptySeq DEF LeaveDir
  <2> QED BY <1>2, <1>6, <2>3 DEF LeaveDir
<1>7. CASE Abort \/ IOFails \/ RenderFailed \/ Push \/ PushContended
  BY <1>1, <1>7 DEF Abort, IOFails, RenderFailed, Push, PushContended, repository
<1>8. CASE Copied
  BY <1>2, <1>8 DEF Copied, CloneInv
<1>9. CASE Edit
  <2>1. IsTree(source') /\ << >> \notin DOMAIN source'
    BY <1>9, EditedSource DEF CloneInv
  <2> QED BY <1>9, <2>1 DEF Edit, CloneInv, walk
<1>10. CASE OtherPush
  BY <1>10 DEF OtherPush, CloneInv, repository, walk
<1>11. CASE UNCHANGED vars
  BY <1>11 DEF vars, CloneInv, repository, walk
<1> QED BY <1>3, <1>4, <1>5, <1>6, <1>7, <1>8, <1>9, <1>10, <1>11 DEF Next, Sync

\* What the walk is measured by does not change on the way.
LEMMA WalkIsStable ==
  ASSUME UNCHANGED <<repository, request, walk>>
  PROVE  /\ \A s : Destination(s)' = Destination(s)
         /\ \A s : Misnamed(s)' <=> Misnamed(s)
         /\ \A s : Made(s)' = Made(s)
         /\ \A s : AtFault(s)' <=> AtFault(s)
         /\ \A s : Unblocked(s)' <=> Unblocked(s)
         /\ Copies(base)' = Copies(base)
<1>1. kind' = kind /\ request' = request /\ ignore' = ignore /\ from' = from /\ base' = base
  BY DEF repository, walk
<1>2. Pass(kind, request)' = Pass(kind, request)
  BY <1>1
<1>3. \A s : Renders(s)' <=> Renders(s)
  BY <1>1, <1>2 DEF Renders
<1>4. ASSUME NEW s PROVE Destination(s)' = Destination(s)
  BY <1>1, <1>2 DEF Destination, Renders
<1>5. ASSUME NEW s PROVE Misnamed(s)' <=> Misnamed(s)
  BY <1>3 DEF Misnamed
<1>6. ASSUME NEW s PROVE Made(s)' = Made(s)
  BY <1>1, <1>3 DEF Made, Rendition
<1>7. ASSUME NEW s PROVE Fault(s, from[s])' <=> Fault(s, from[s])
  BY <1>1, <1>2, <1>3 DEF Fault
<1>8. ASSUME NEW s PROVE AtFault(s)' <=> AtFault(s)
  BY <1>5, <1>7 DEF AtFault
<1>9. \A q : Blocks(base, q)' <=> Blocks(base, q)
  BY <1>1 DEF Blocks, Under
<1>10. ASSUME NEW s PROVE Unblocked(s)' <=> Unblocked(s)
  BY <1>9 DEF Unblocked
<1>11. Copies(base)' = Copies(base)
  BY <1>1, <1>9 DEF Copies
<1> QED BY <1>4, <1>5, <1>6, <1>8, <1>10, <1>11

\* The invariant of the next state, in terms of this one's.
LEMMA WalkGoesOn ==
  ASSUME UNCHANGED <<repository, request, walk>>,
         Frames(stack'), Sorted(Done(stack')), Written(tree', Done(stack')),
         Listed(errors', Done(stack'))
  PROVE  WalkInv'
<1>1. /\ kind' = kind /\ request' = request /\ ignore' = ignore /\ from' = from /\ base' = base
      /\ Pass(kind, request)' = Pass(kind, request)
  BY DEF repository, walk
<1>2. /\ \A s : Destination(s)' = Destination(s)
      /\ \A s : Misnamed(s)' <=> Misnamed(s)
      /\ \A s : Made(s)' = Made(s)
      /\ \A s : AtFault(s)' <=> AtFault(s)
      /\ Copies(base)' = Copies(base)
  BY WalkIsStable
<1>3. ASSUME NEW k PROVE Destination(stack[k].src)' = Destination(stack'[k].src)
  BY <1>1 DEF Destination, Renders
<1>4. ASSUME NEW k PROVE Unblocked(stack[k].src)' <=> Unblocked(stack'[k].src)
  BY <1>1 DEF Unblocked, Blocks, Under
<1>5. Frames(stack)'
  BY <1>3, <1>4 DEF Frames
<1>6. Done(stack)' = Done(stack')
  BY <1>2 DEF Done, Awaited, Awaits
<1>7. Sorted(Done(stack))'
  BY <1>2, <1>6 DEF Sorted
<1>8. Written(tree, Done(stack))'
  BY <1>1, <1>2, <1>6 DEF Written
<1>9. Listed(errors, Done(stack))'
  BY <1>2, <1>6 DEF Listed
<1> QED BY <1>5, <1>7, <1>8, <1>9 DEF WalkInv

\* A step that the walk is not concerned with.
LEMMA WalkStays ==
  ASSUME WalkInv, pc \in {"walk", "walked", "push"},
         UNCHANGED <<repository, request, walk, tree, stack, errors>>
  PROVE  WalkInv'
BY WalkGoesOn DEF WalkInv

\* The walk begins in the copied path.
LEMMA StepEnterRoot ==
  ASSUME TypeInv, CloneInv, EnterRoot
  PROVE  WalkInv'
<1> DEFINE d == [src |-> << >>, dst |-> RenderedPath(<< >>, TargetPath), todo |-> Children(<< >>)]
<1>1. /\ stack' = Append(<< >>, d)
      /\ tree' = base /\ errors' = << >>
      /\ UNCHANGED <<repository, request, walk>>
      /\ IsTree(from) /\ << >> \notin DOMAIN from
      /\ request.override \/ TargetPath \notin DOMAIN base
  BY DEF EnterRoot, Enter, CloneInv
<1>2. << >> \in Path /\ Len(<< >>) = 0
  BY EmptySeq DEF Path
<1>3. stack' = <<d>> /\ Len(stack') = 1 /\ stack'[1] = d
  BY <1>1
<1>4. Unblocked(<< >>)
  <2>1. Prefixes(<< >>) \subseteq {<< >>}
    <3>1. \A q \in Prefixes(<< >>) : q \in Path /\ IsPrefix(q, << >>)
      BY <1>2, PrefixesAreAbove
    <3>2. \A q \in Prefixes(<< >>) : Len(q) \in Nat /\ Len(q) <= 0
      BY <1>2, <3>1, LenProperties DEF IsPrefix, Path
    <3>3. \A q \in Prefixes(<< >>) : q = << >>
      BY <3>1, <3>2, EmptySeq DEF Path
    <3> QED BY <3>3
  <2>2. TargetPath \o << >> = TargetPath
    BY CopierAssumption, ConcatEmptySeq DEF Path
  <2>3. ASSUME NEW f \in DOMAIN base, IsPrefix(TargetPath, f), Len(f) <= Len(TargetPath)
        PROVE  f = TargetPath
    <3>1. f \in Path /\ TargetPath \in Path
      BY CopierAssumption DEF TypeInv, TypeOK, SyncTypes, IsFiles
    <3>2. Len(f) \in Nat /\ Len(TargetPath) \in Nat
      BY <3>1, LenProperties DEF Path
    <3> QED BY <2>3, <3>1, <3>2, PrefixNames, SameNames
  <2>4. ~Blocks(base, << >>)
    BY <1>1, <2>2, <2>3 DEF Blocks, Under, Matches
  <2> QED BY <2>1, <2>4 DEF Unblocked
<1>5. d.dst = Destination(<< >>)
  <2>1. /\ TargetPath \o << >> = TargetPath /\ Len(TargetPath) \in Nat
        /\ DOMAIN TargetPath = 1..Len(TargetPath)
        /\ TargetPath = [i \in 1..Len(TargetPath) |-> TargetPath[i]]
    BY CopierAssumption, ConcatEmptySeq, LenProperties DEF Path
  <2>2. SubSeq(<< >>, 1, 0) = << >>
    BY SubSeqFull, <1>2 DEF Path
  <2>3. \A i \in 1..Len(TargetPath) : IsRendered(<< >>, i) <=> Renders(<< >>)
    <3>1. \A i \in 1..Len(TargetPath) : Lowest(i)..Len(<< >>) = {0}
      BY <1>2, <2>1 DEF Lowest
    <3> QED BY <2>2, <3>1 DEF IsRendered
  <2>4. Destination(<< >>) = [i \in 1..Len(TargetPath) |->
                                IF Renders(<< >>) THEN Value[TargetPath[i]] ELSE TargetPath[i]]
    <3>1. Len(TargetPath) + Len(<< >>) = Len(TargetPath)
      BY <1>2, <2>1
    <3>2. Destination(<< >>) = [i \in 1..(Len(TargetPath) + Len(<< >>)) |->
                                 IF IsRendered(<< >>, i) THEN Value[(TargetPath \o << >>)[i]]
                                                         ELSE (TargetPath \o << >>)[i]]
      BY DestinationNames
    <3> QED BY <2>1, <2>3, <3>1, <3>2
  <2> QED BY <2>1, <2>4 DEF RenderedPath
<1>6. Frames(stack')
  <2> SUFFICES ASSUME NEW k \in 1..1
               PROVE  /\ Len(stack'[k].src) = k - 1
                      /\ Unblocked(stack'[k].src)
                      /\ stack'[k].dst = Destination(stack'[k].src)
                      /\ (k + 1)..1 = {}
    BY <1>3 DEF Frames
  <2>1. k = 1 /\ stack'[k] = d
    BY <1>3
  <2> QED BY <1>2, <1>4, <1>5, <2>1
<1>7. Done(stack') = {}
  <2> SUFFICES ASSUME NEW s \in Copies(base) PROVE Awaited(stack', s)
    BY DEF Done
  <2>1. s \in DOMAIN from /\ s \in Path /\ s # << >>
    BY <1>1 DEF Copies, IsTree, IsFiles
  <2>2. Len(s) \in Nat /\ Len(s) # 0
    BY <2>1, LenProperties, EmptySeq DEF Path
  <2>3. IsStrictPrefix(<< >>, s)
    BY <1>2, <2>1, <2>2, PrefixNames DEF IsStrictPrefix
  <2>4. s[1] \in Children(<< >>)
    BY <1>2, <2>1, <2>3 DEF Children
  <2>5. Awaits(stack', 1, s)
    BY <1>3, <2>2, <2>4 DEF Awaits
  <2> QED BY <1>3, <2>5 DEF Awaited
<1> QED BY <1>1, <1>6, <1>7, NothingDone, WalkGoesOn

\* Every step of the walk.
LEMMA StepWalk ==
  ASSUME RendersOnce, TypeInv, CloneInv, WalkInv, [Next]_vars
  PROVE  WalkInv'
<1>1. IsFiles(from) /\ IsFiles(base) /\ IsFiles(tree) /\ errors \in Seq(Path)
  BY DEF TypeInv, TypeOK, SyncTypes
<1>2. ASSUME pc' \in {"idle", "copy"} PROVE WalkInv'
  BY <1>2 DEF WalkInv
\* At an entry.
<1>3. ASSUME Entering
      PROVE  /\ pc = "walk" /\ IsTree(from)
             /\ Frames(stack) /\ Sorted(Done(stack))
             /\ Written(tree, Done(stack)) /\ Listed(errors, Done(stack))
             /\ Blocked(Src) <=> Blocks(base, Src)
             /\ Renderable(Src, Dst) <=> ~Misnamed(Src)
             /\ RenderedPath(Src, Dst) = Destination(Src)
             /\ Src \in Path
  <2>1. /\ pc = "walk" /\ IsTree(from)
        /\ Frames(stack) /\ Sorted(Done(stack))
        /\ Written(tree, Done(stack)) /\ Listed(errors, Done(stack))
    BY <1>3 DEF Entering, CloneInv, WalkInv
  <2>2. Blocked(Src) <=> Blocks(base, Src)
    BY <2>1 DEF Blocked, Blocks, CloneInv
  <2> DEFINE l == Len(stack)
  <2>3. l \in 1..l /\ Last(stack) = stack[l] /\ stack[l] \in Frame /\ Entry \in Name
    BY <1>3, EntryFacts
  <2>4. /\ stack[l].src \in Path /\ stack[l].dst \in Path
        /\ stack[l].dst = Destination(stack[l].src)
    BY <2>1, <2>3 DEF Frame, Frames
  <2>5. Src = Append(stack[l].src, Entry) /\ Dst = Append(Destination(stack[l].src), Entry)
    BY <2>3, <2>4 DEF Src, Dst
  <2>6. /\ Renderable(Src, Dst) <=> ~Misnamed(Src)
        /\ RenderedPath(Src, Dst) = Destination(Src)
    <3>1. ASSUME NEW s \in Path, NEW n \in Name, s = stack[l].src, n = Entry
          PROVE  /\ Renderable(Src, Dst) <=> ~Misnamed(Src)
                 /\ RenderedPath(Src, Dst) = Destination(Src)
      <4>1. Src = Append(s, n) /\ Dst = Append(Destination(s), n) /\ Destination(s) \in Path
        BY <2>4, <2>5, <3>1
      <4> QED BY <4>1, DestinationOfEntry
    <3> QED BY <2>3, <2>4, <3>1
  <2>7. Src \in Path
    BY <1>3, EntryTypes
  <2> QED BY <2>1, <2>2, <2>6, <2>7
<1>4. CASE EnterRoot
  BY <1>4, StepEnterRoot
<1>5. CASE EnterDir
  <2> DEFINE d == [src |-> Src, dst |-> RenderedPath(Src, Dst), todo |-> Children(Src)]
  <2>1. /\ Entering /\ IsDirOf(from, Src) /\ ~Blocked(Src) /\ Renderable(Src, Dst)
        /\ stack' = Append(Past, d)
        /\ UNCHANGED <<repository, request, walk, tree, errors>>
    BY <1>5 DEF EnterDir, Enter
  <2>2. d \in Frame /\ d.src = Src /\ d.dst = Destination(Src) /\ d.todo = Children(Src)
    <3>1. Src \in Path /\ Dst \in Path
      BY <2>1, EntryTypes
    <3>2. RenderedPath(Src, Dst) \in Path
      BY <2>1, <3>1, RenderedType
    <3>3. Children(Src) \subseteq Name
      BY <1>1, <3>1, ChildrenType
    <3> QED BY <1>3, <2>1, <3>1, <3>2, <3>3 DEF Frame
  <2> HIDE DEF d
  <2>3. Frames(stack')
    BY <1>3, <2>1, <2>2, FramesEnter
  <2>4. Done(stack') = Done(stack)
    <3>1. \A s \in Copies(base) : s \in DOMAIN from
      BY DEF Copies
    <3>2. \A s \in Copies(base) : Awaited(stack', s) <=> Awaited(stack, s)
      BY <1>3, <2>1, <2>2, <3>1, AwaitedEnter
    <3> QED BY <3>2 DEF Done
  <2> QED BY <1>3, <2>1, <2>3, <2>4, WalkGoesOn
<1>6. CASE LeaveDir
  <2>1. /\ pc = "walk" /\ Last(stack).todo = {} /\ stack' = Front(stack)
        /\ stack \in Seq(Frame) /\ stack # << >>
        /\ UNCHANGED <<repository, request, walk, tree, errors>>
    BY <1>6 DEF LeaveDir, TypeInv, TypeOK, SyncTypes
  <2>2. /\ Frames(stack) /\ Sorted(Done(stack))
        /\ Written(tree, Done(stack)) /\ Listed(errors, Done(stack))
    BY <2>1 DEF WalkInv
  <2>3. Frames(stack') /\ \A s : Awaited(stack', s) <=> Awaited(stack, s)
    BY <2>1, <2>2, LeavingFrames
  <2>4. Done(stack') = Done(stack)
    BY <2>3 DEF Done
  <2> QED BY <2>1, <2>2, <2>3, <2>4, WalkGoesOn
<1>7. CASE Skip
  <2>1. /\ Entering /\ stack' = Past
        /\ Blocked(Src) \/ (Src \in DOMAIN from /\ from[Src] = "symlink")
        /\ UNCHANGED <<repository, request, walk, tree, errors>>
    BY <1>7 DEF Skip, IsFileOf
  <2>2. Frames(stack')
    BY <1>3, <2>1, FramesPast
  <2>3. Done(stack') = Done(stack)
    BY <1>3, <2>1, DoneSkipping
  <2> QED BY <1>3, <2>1, <2>2, <2>3, WalkGoesOn
\* A file is done with.
<1>8. ASSUME File
      PROVE  /\ Frames(Past)
             /\ Done(Past) = Done(stack) \union {Src}
             /\ \A s \in Done(stack) : Before(s, Src)
             /\ Sorted(Done(Past))
  <2>1. Entering /\ Src \in DOMAIN from /\ from[Src] # "symlink" /\ ~Blocks(base, Src)
    BY <1>3, <1>8 DEF File, IsFileOf
  <2>2. Frames(Past)
    BY <1>3, <2>1, FramesPast
  <2> QED BY <1>3, <2>1, <2>2, DoneCopying
<1>9. CASE RefuseName
  <2>1. /\ File /\ Entering /\ ~Renderable(Src, Dst)
        /\ stack' = Past /\ errors' = Append(errors, Src)
        /\ UNCHANGED <<repository, request, walk, tree>>
    BY <1>9 DEF RefuseName, File
  <2>2. Misnamed(Src) /\ AtFault(Src)
    BY <1>3, <2>1 DEF AtFault
  <2>3. Written(tree', Done(stack'))
    BY <1>3, <1>8, <2>1, <2>2, WrittenBut
  <2>4. Listed(errors', Done(stack'))
    BY <1>1, <1>3, <1>8, <2>1, <2>2, ListedNext
  <2> QED BY <1>8, <2>1, <2>3, <2>4, WalkGoesOn
<1>10. CASE CopyFile
  <2>1. /\ File /\ Entering /\ Renderable(Src, Dst)
        /\ stack' = Past
        /\ \E c \in Rendition(Src, from[Src]) : tree' = Put(RenderedPath(Src, Dst), c)
        /\ errors' = IF Fault(Src, from[Src]) THEN Append(errors, Src) ELSE errors
        /\ UNCHANGED <<repository, request, walk>>
    BY <1>10 DEF CopyFile, File
  <2>2. /\ ~Misnamed(Src)
        /\ AtFault(Src) <=> Fault(Src, from[Src])
        /\ \E c \in Made(Src) : tree' = Put(Destination(Src), c)
    BY <1>3, <2>1 DEF AtFault, Made
  <2>3. Written(tree', Done(stack'))
    <3>1. PICK c \in Made(Src) : tree' = Put(Destination(Src), c)
      BY <2>2
    <3> QED BY <1>3, <1>8, <2>1, <2>2, <3>1, WrittenNext
  <2>4. Listed(errors', Done(stack'))
    <3>1. CASE AtFault(Src)
      <4>1. errors' = Append(errors, Src)
        BY <2>1, <2>2, <3>1
      <4> QED BY <1>1, <1>3, <1>8, <2>1, <3>1, <4>1, ListedNext
    <3>2. CASE ~AtFault(Src)
      <4>1. errors' = errors
        BY <2>1, <2>2, <3>2
      <4> QED BY <1>3, <1>8, <2>1, <3>2, <4>1, ListedBut
    <3> QED BY <3>1, <3>2
  <2> QED BY <1>8, <2>1, <2>3, <2>4, WalkGoesOn
<1>11. ASSUME NEW r \in Request, Begin(r) PROVE WalkInv'
  BY <1>2, <1>11 DEF Begin
<1>12. CASE Abort \/ IOFails \/ RenderFailed \/ Push \/ PushContended
  BY <1>2, <1>12 DEF Abort, IOFails, RenderFailed, Push, PushContended, Forget
<1>13. CASE Copied
  BY <1>13, WalkStays DEF Copied
<1>14. CASE Edit
  BY <1>2, <1>14 DEF Edit
<1>15. ASSUME UNCHANGED <<repository, pc, request, walk, tree, stack, errors>> PROVE WalkInv'
  <2>1. CASE pc \in {"walk", "walked", "push"}
    BY <1>15, <2>1, WalkStays
  <2>2. CASE pc \notin {"walk", "walked", "push"}
    BY <1>15, <2>2 DEF WalkInv
  <2> QED BY <2>1, <2>2
<1>16. CASE OtherPush
  BY <1>15, <1>16 DEF OtherPush
<1>17. CASE UNCHANGED vars
  BY <1>15, <1>17 DEF vars
<1> QED BY <1>4, <1>5, <1>6, <1>7, <1>9, <1>10, <1>11, <1>12, <1>13, <1>14, <1>16, <1>17
        DEF Next, Sync

----------------------------------------------------------------------------------
(* What the walk comes to.                                                 *)

LEMMA InitWalk == Init => WalkInv
BY DEF Init, WalkInv

\* At its end every file is done.
LEMMA AllDone ==
  ASSUME CloneInv, pc \in {"walked", "push"}
  PROVE  Done(stack) = Copies(base)
<1>1. stack = << >> /\ Len(<< >>) = 0
  BY EmptySeq DEF CloneInv
<1>2. \A s : ~Awaited(stack, s)
  BY <1>1 DEF Awaited
<1> QED BY <1>2 DEF Done

\* What the overlay is, without a choice.
LEMMA OverlayIs ==
  ASSUME IsFiles(from), NEW files
  PROVE  /\ DOMAIN Overlay(files) = DOMAIN files \union {Destination(s) : s \in Copies(files)}
         /\ \A p \in DOMAIN files :
              (\A s \in Copies(files) : Destination(s) # p) => Overlay(files)[p] = {files[p]}
         /\ \A s \in Copies(files) :
              (\A t \in Copies(files) : Destination(t) = Destination(s) => t = s \/ Before(t, s))
                => Overlay(files)[Destination(s)] = Made(s)
<1> DEFINE written == {Destination(s) : s \in Copies(files)}
           isLast(p, s) == /\ Destination(s) = p
                           /\ \A t \in Copies(files) : Destination(t) = p => t = s \/ Before(t, s)
           last(p) == CHOOSE s \in Copies(files) : isLast(p, s)
<1>1. Overlay(files) = [p \in DOMAIN files \union written |->
                          IF p \in written THEN Rendition(last(p), from[last(p)]) ELSE {files[p]}]
  BY DEF Overlay
<1>2. \A s \in Copies(files) : s \in Path
  BY DEF Copies, IsFiles
<1>3. ASSUME NEW p, NEW s \in Copies(files), NEW t \in Copies(files), isLast(p, s), isLast(p, t)
      PROVE  s = t
  <2>1. s = t \/ Before(s, t)
    BY <1>3
  <2>2. s = t \/ Before(t, s)
    BY <1>3
  <2> QED BY <1>2, <2>1, <2>2, BeforeIsAnOrder
<1>4. ASSUME NEW p, NEW s \in Copies(files), isLast(p, s) PROVE last(p) = s
  <2>1. last(p) \in Copies(files) /\ isLast(p, last(p))
    BY <1>4
  <2> HIDE DEF last, isLast
  <2> QED BY <1>3, <1>4, <2>1
<1>5. ASSUME NEW p \in DOMAIN files, \A s \in Copies(files) : Destination(s) # p
      PROVE  Overlay(files)[p] = {files[p]}
  <2>1. p \notin written
    BY <1>5
  <2> HIDE DEF last, written
  <2> QED BY <1>1, <2>1
<1>6. ASSUME NEW s \in Copies(files),
             \A t \in Copies(files) : Destination(t) = Destination(s) => t = s \/ Before(t, s)
      PROVE  Overlay(files)[Destination(s)] = Made(s)
  <2>1. last(Destination(s)) = s /\ Destination(s) \in written
    BY <1>4, <1>6
  <2> HIDE DEF last, written
  <2> QED BY <1>1, <2>1 DEF Made
<1>7. DOMAIN Overlay(files) = DOMAIN files \union written
  <2> HIDE DEF last, written
  <2> QED BY <1>1
<1> QED BY <1>5, <1>6, <1>7

\* What the worktree is when it is pushed.
LEMMA PushedTree ==
  ASSUME TypeInv, CloneInv, WalkInv, pc = "push"
  PROVE  /\ IsFiles(from) /\ IsFiles(tree)
         /\ DOMAIN tree = DOMAIN base \union {Destination(s) : s \in Copies(base)}
         /\ \A p \in DOMAIN tree :
              \/ /\ \A s \in Copies(base) : Destination(s) # p
                 /\ tree[p] = base[p]
              \/ \E s \in Copies(base) :
                   /\ Destination(s) = p
                   /\ tree[p] \in Made(s)
                   /\ \A t \in Copies(base) : Destination(t) = p => t = s \/ Before(t, s)
<1>1. IsFiles(from) /\ IsFiles(tree)
  BY DEF TypeInv, TypeOK, SyncTypes
<1>2. Written(tree, Copies(base)) /\ Listed(errors, Copies(base)) /\ errors = << >>
  BY AllDone DEF WalkInv, CloneInv
<1>3. \A s \in Copies(base) : ~Misnamed(s)
  <2>1. ToSet(errors) = {}
    BY <1>2 DEF ToSet
  <2> QED BY <1>2, <2>1 DEF Listed, AtFault
<1>4. {s \in Copies(base) : ~Misnamed(s)} = Copies(base)
  BY <1>3
<1> QED BY <1>1, <1>2, <1>4 DEF Written

LEMMA PushIsOverlay ==
  ASSUME TypeInv, CloneInv, WalkInv
  PROVE  CopyIsOverlay
<1> SUFFICES ASSUME pc = "push" PROVE IsOverlay(tree, base)
  BY DEF CopyIsOverlay
<1>1. DOMAIN tree = DOMAIN Overlay(base)
  BY PushedTree, OverlayIs
<1>2. ASSUME NEW p \in DOMAIN tree PROVE tree[p] \in Overlay(base)[p]
  <2>1. CASE (\A s \in Copies(base) : Destination(s) # p) /\ tree[p] = base[p]
    <3>1. p \in DOMAIN base
      BY <2>1, PushedTree
    <3>2. Overlay(base)[p] = {base[p]}
      BY <2>1, <3>1, PushedTree, OverlayIs
    <3> QED BY <2>1, <3>2
  <2>2. ASSUME NEW s \in Copies(base), Destination(s) = p, tree[p] \in Made(s),
               \A t \in Copies(base) : Destination(t) = p => t = s \/ Before(t, s)
        PROVE  tree[p] \in Overlay(base)[p]
    <3>1. Overlay(base)[Destination(s)] = Made(s)
      BY <2>2, PushedTree, OverlayIs
    <3> QED BY <2>2, <3>1
  <2> QED BY <2>1, <2>2, PushedTree
<1> QED BY <1>1, <1>2 DEF IsOverlay

(* The walk makes of the target the overlay that the reference describes,  *)
(* for any trees, names and ignored paths, provided no name that a         *)
(* placeholder renders to holds a placeholder itself.                      *)
THEOREM CopiesAreOverlays ==
  ASSUME RendersOnce
  PROVE  Spec => []CopyIsOverlay
<1>1. Init => TypeInv /\ CloneInv /\ WalkInv
  BY InitTypes, InitClone, InitWalk
<1>2. TypeInv /\ CloneInv /\ WalkInv /\ [Next]_vars => TypeInv' /\ CloneInv' /\ WalkInv'
  BY StepTypes, StepClone, StepWalk
<1>3. TypeInv /\ CloneInv /\ WalkInv => CopyIsOverlay
  BY PushIsOverlay
<1> QED BY <1>1, <1>2, <1>3, PTL DEF Spec

(* A walk that comes to its end has every file at fault in its report and  *)
(* no other, in its order: those with a name that cannot be rendered, and  *)
(* those whose content cannot or names a value nobody declared.            *)
THEOREM FaultsAreReported ==
  ASSUME RendersOnce
  PROVE  Spec => []EveryFaultIsReported
<1>1. Init => TypeInv /\ CloneInv /\ WalkInv
  BY InitTypes, InitClone, InitWalk
<1>2. TypeInv /\ CloneInv /\ WalkInv /\ [Next]_vars => TypeInv' /\ CloneInv' /\ WalkInv'
  BY StepTypes, StepClone, StepWalk
<1>3. CloneInv /\ WalkInv => EveryFaultIsReported
  BY AllDone DEF WalkInv, Listed, AtFault, EveryFaultIsReported
<1> QED BY <1>1, <1>2, <1>3, PTL DEF Spec

\* What a push that may not override leaves of the target.
LEMMA PushLeaves ==
  ASSUME TypeInv, CloneInv, WalkInv, [Next]_vars, Pushes, ~request.override,
         NEW p \in Under(TargetPath, published)
  PROVE  \/ published'[p] = published[p]
         \/ \E i \in DOMAIN p : p[i] \in Odd
         \/ \E s \in DOMAIN from : Destination(s) = p /\ TargetPath \o s # p
<1>1. Push \/ UNCHANGED published
  BY DEF Pushes, vars, Next, Sync, Begin, EnterRoot, EnterDir, LeaveDir, Skip, RefuseName, CopyFile,
         Abort, IOFails, RenderFailed, Copied, PushContended, Edit, OtherPush, Entering, File
<1>2. CASE Push
  <2>1. published = base /\ published' = tree /\ pc = "push" /\ p \in Under(TargetPath, base)
    BY <1>2 DEF Push
  <2>2. p \in DOMAIN base /\ p \in Path
    BY <2>1 DEF Under, TypeInv, TypeOK, SyncTypes, IsFiles
  <2>3. p \in DOMAIN tree
    BY <2>1, <2>2, PushedTree
  <2>4. CASE tree[p] = base[p]
    BY <2>1, <2>4
  <2>5. ASSUME NEW s \in Copies(base), Destination(s) = p
        PROVE  \/ \E i \in DOMAIN p : p[i] \in Odd
               \/ \E t \in DOMAIN from : Destination(t) = p /\ TargetPath \o t # p
    <3>1. s \in DOMAIN from /\ \A q \in Prefixes(s) : ~Blocks(base, q)
      BY DEF Copies
    <3>2. s \in Path
      BY <3>1 DEF TypeInv, TypeOK, SyncTypes, IsFiles
    <3>3. CASE TargetPath \o s = p
      <4>1. ~Blocks(base, s)
        BY <3>1, <3>2, PrefixesAreAbove
      <4>2. ~Matches(p, p)
        BY <2>1, <3>3, <4>1 DEF Blocks
      <4>3. Len(p) \in Nat /\ \A i \in DOMAIN p : p[i] \in Name
        BY <2>2, LenProperties, ElementOfSeq DEF Path
      <4> QED BY <4>2, <4>3 DEF Matches, Odd
    <3> QED BY <2>5, <3>1, <3>3
  <2> QED BY <2>1, <2>3, <2>4, <2>5, PushedTree
<1> QED BY <1>1, <1>2

(* Without spec.override a push leaves the files of the target path alone, *)
(* but those to which a name with a placeholder renders, and those that do *)
(* not match themselves when read as ignore patterns.                      *)
THEOREM OthersAreLeftAlone ==
  ASSUME RendersOnce
  PROVE  Spec => AdditiveLeavesOthers
<1>1. Init => TypeInv /\ CloneInv /\ WalkInv
  BY InitTypes, InitClone, InitWalk
<1>2. TypeInv /\ CloneInv /\ WalkInv /\ [Next]_vars => TypeInv' /\ CloneInv' /\ WalkInv'
  BY StepTypes, StepClone, StepWalk
<1>3. TypeInv /\ CloneInv /\ WalkInv /\ [Next]_vars =>
        [Pushes /\ ~request.override =>
           \A p \in Under(TargetPath, published) :
              \/ published'[p] = published[p]
              \/ \E i \in DOMAIN p : p[i] \in Odd
              \/ \E s \in DOMAIN from : Destination(s) = p /\ TargetPath \o s # p]_vars
  BY PushLeaves
<1> QED BY <1>1, <1>2, <1>3, PTL DEF Spec, AdditiveLeavesOthers

----------------------------------------------------------------------------------
(* A second sync.                                                          *)

(* A name with a placeholder comes after what it renders to: "{" comes     *)
(* after the letters, and a placeholder is longer than no text.            *)
RendersToEarlier == \A n \in Name : Value[n] \notin {n, Bad} => Rank[Value[n]] < Rank[n]

\* No name with a placeholder is copied as it is, in a sync that renders.
NoPlaceholderIsLeft ==
  Pass(kind, request) = "none"
    \/ \A s \in Copies(base) : \A n \in ToSet(Destination(s)) : Value[n] = n

(* Read as an ignore pattern, no name matches one with a placeholder, but  *)
(* for that name itself.                                                   *)
PatternsSparePlaceholders ==
  \A m, n \in Name : n \in Matched[m] /\ Value[n] # n => m = n

\* A destination's names: the path's, rendered or not.
LEMMA DestinationPath ==
  ASSUME NEW s \in Path, Destination(s) \in Path
  PROVE  /\ Len(Destination(s)) = Len(TargetPath) + Len(s)
         /\ DOMAIN Destination(s) = 1..(Len(TargetPath) + Len(s))
         /\ \A i \in 1..(Len(TargetPath) + Len(s)) :
              \/ Destination(s)[i] = (TargetPath \o s)[i]
              \/ /\ Pass(kind, request) # "none"
                 /\ Destination(s)[i] = Value[(TargetPath \o s)[i]]
<1> DEFINE m == Len(TargetPath) + Len(s)
           d == Destination(s)
<1>1. d = [i \in 1..m |-> IF IsRendered(s, i) THEN Value[(TargetPath \o s)[i]]
                                             ELSE (TargetPath \o s)[i]]
  BY Zenon, DestinationNames
<1>2. m \in Nat /\ DOMAIN d = 1..Len(d) /\ Len(d) \in Nat
  BY TargetNames, LenProperties DEF Path
<1>3. \A i \in 1..m : IsRendered(s, i) => Pass(kind, request) # "none"
  BY DEF IsRendered, Renders
<1> HIDE DEF m, d
<1>4. DOMAIN d = 1..m
  BY <1>1
<1>5. Len(d) = m
  BY Zenon, <1>2, <1>4, SameLength
<1> QED BY <1>1, <1>3, <1>4, <1>5 DEF m, d

(* The file whose rendition stays is copied by the second sync as well, if *)
(* any that comes to its place is: what blocks it as a new file either has *)
(* its placeholder, or blocks the other file too.                          *)
LEMMA LastIsCopiedAgain ==
  ASSUME RendersToEarlier, PatternsSparePlaceholders, TypeInv, CloneInv, WalkInv, pc = "push",
         NoPlaceholderIsLeft,
         NEW s \in Copies(base), NEW r \in Copies(tree), r \in Copies(base),
         Destination(r) = Destination(s), r = s \/ Before(r, s)
  PROVE  s \in Copies(tree)
<1> DEFINE p == Destination(s)
           a == Len(TargetPath)
<1>1. /\ \A t \in Copies(base) : t \in Path /\ Destination(t) \in Path
      /\ \A q \in DOMAIN tree : q \in Path
  <2>1. IsFiles(from) /\ IsFiles(tree)
        /\ DOMAIN tree = DOMAIN base \union {Destination(t) : t \in Copies(base)}
    BY PushedTree
  <2> QED BY <2>1 DEF Copies, IsFiles
<1>2. s \in Path /\ r \in Path /\ p \in Path
  BY <1>1
<1>3. /\ a \in Nat /\ Len(s) \in Nat /\ Len(r) \in Nat
      /\ Len(TargetPath \o s) = a + Len(s)
      /\ Len(TargetPath \o r) = a + Len(r)
      /\ \A i \in 1..a : (TargetPath \o r)[i] = TargetPath[i]
      /\ \A i \in 1..Len(s) : (TargetPath \o s)[a + i] = s[i]
      /\ \A i \in 1..Len(r) : (TargetPath \o r)[a + i] = r[i]
  BY <1>2, TargetNames
<1>4. /\ Len(p) = a + Len(s)
      /\ \A i \in 1..(a + Len(s)) :
           \/ p[i] = (TargetPath \o s)[i]
           \/ Pass(kind, request) # "none" /\ p[i] = Value[(TargetPath \o s)[i]]
  BY <1>2, DestinationPath
<1>5. /\ Len(p) = a + Len(r)
      /\ \A i \in 1..(a + Len(r)) :
           \/ p[i] = (TargetPath \o r)[i]
           \/ Pass(kind, request) # "none" /\ p[i] = Value[(TargetPath \o r)[i]]
  BY <1>2, DestinationPath
<1> HIDE DEF p, a
<1> SUFFICES ASSUME s \notin Copies(tree) PROVE FALSE
  OBVIOUS
<1>6. PICK g \in Prefixes(s) : Blocks(tree, g)
  BY DEF Copies
<1>7. ~request.override /\ ~Blocks(base, g)
  BY <1>6 DEF Copies, Blocks
<1>8. PICK f \in DOMAIN tree : IsPrefix(TargetPath, f) /\ Matches(f, TargetPath \o g)
  BY <1>6 DEF Blocks, Under
\* The file that blocks it is new.
<1>9. PICK u \in Copies(base) : Destination(u) = f
  <2>1. f \notin DOMAIN base
    BY <1>7, <1>8 DEF Blocks, Under
  <2> QED BY <1>8, <2>1, PushedTree
<1>10. f \in Path /\ Len(f) \in Nat /\ DOMAIN f = 1..Len(f) /\ \A i \in 1..Len(f) : f[i] \in Name
  BY <1>1, <1>8, LenProperties, ElementOfSeq DEF Path
<1>11. /\ g \in Path /\ Len(g) \in Nat /\ Len(g) <= Len(s)
       /\ \A i \in 1..Len(g) : g[i] = s[i]
  <2>1. g \in Path /\ IsPrefix(g, s)
    BY <1>2, PrefixesAreAbove
  <2> QED BY <1>2, <2>1, PrefixNames, LenProperties DEF Path
<1>12. /\ Len(TargetPath \o g) = a + Len(g)
       /\ \A i \in 1..a : (TargetPath \o g)[i] = TargetPath[i]
       /\ \A i \in 1..Len(g) : (TargetPath \o g)[a + i] = g[i]
  BY <1>11, TargetNames DEF a
<1>13. Len(f) <= a + Len(g) /\ \A i \in 1..Len(f) : (TargetPath \o g)[i] \in Matched[f[i]]
  BY <1>8, <1>10, <1>12 DEF Matches
\* Where the two files part,
<1>14. r # s
  OBVIOUS
<1>15. DOMAIN r = 1..Len(r) /\ DOMAIN s = 1..Len(s)
  BY <1>2, LenProperties DEF Path
<1>16. PICK i \in 1..Len(s) : /\ i \in 1..Len(r)
                              /\ \A j \in 1..(i - 1) : r[j] = s[j]
                              /\ Rank[r[i]] < Rank[s[i]]
  BY <1>14, <1>15 DEF Before
<1>17. /\ r[i] \in Name /\ s[i] \in Name /\ s[i] # Bad
       /\ Rank[r[i]] \in Nat /\ Rank[s[i]] \in Nat
  BY <1>2, <1>16, ElementOfSeq, CopierAssumption DEF Path
<1>18. \/ p[a + i] = s[i]
       \/ Pass(kind, request) # "none" /\ p[a + i] = Value[s[i]]
  <2>1. a + i \in 1..(a + Len(s))
    BY <1>3, <1>16
  <2> QED BY <1>3, <1>4, <1>16, <2>1
<1>19. \/ p[a + i] = r[i]
       \/ Pass(kind, request) # "none" /\ p[a + i] = Value[r[i]]
  <2>1. a + i \in 1..(a + Len(r))
    BY <1>3, <1>16
  <2> QED BY <1>3, <1>5, <1>16, <2>1
<1>20. r[i] # s[i]
  BY <1>16, <1>17
\* the one that stays has a placeholder,
<1>21. Pass(kind, request) # "none" /\ Value[s[i]] # s[i]
  <2> SUFFICES ASSUME p[a + i] = s[i] PROVE FALSE
    BY <1>18, <1>19, <1>20
  <2>1. Value[r[i]] = s[i]
    BY <1>19, <1>20
  <2>2. Rank[s[i]] < Rank[r[i]]
    BY <1>17, <1>20, <2>1 DEF RendersToEarlier
  <2> QED BY <1>16, <1>17, <2>2
\* which the new file has not;
<1>22. CASE a + i <= Len(f)
  <2>1. i \in 1..Len(g) /\ a + i \in 1..Len(f)
    BY <1>3, <1>10, <1>11, <1>13, <1>16, <1>22
  <2>2. s[i] \in Matched[f[a + i]] /\ f[a + i] \in Name
    BY <1>10, <1>11, <1>12, <1>13, <2>1
  <2>3. f[a + i] = s[i]
    BY <1>17, <1>21, <2>2 DEF PatternsSparePlaceholders
  <2>4. f[a + i] \in ToSet(Destination(u))
    BY <1>9, <1>10, <2>1 DEF ToSet
  <2> QED BY <1>21, <2>3, <2>4 DEF NoPlaceholderIsLeft
\* and above, the other file is blocked as well.
<1>23. CASE ~(a + i <= Len(f))
  <2>1. Len(f) <= a + Len(r)
    BY <1>3, <1>10, <1>16, <1>23
  <2>2. ASSUME NEW j \in 1..Len(f) PROVE (TargetPath \o r)[j] = (TargetPath \o g)[j]
    <3>1. CASE j <= a
      BY <1>3, <1>10, <1>12, <3>1
    <3>2. CASE ~(j <= a)
      <4>1. /\ j - a \in 1..(i - 1) /\ j - a \in 1..Len(g) /\ j - a \in 1..Len(r)
            /\ j = a + (j - a)
        BY <1>3, <1>10, <1>11, <1>13, <1>16, <1>23, <3>2
      <4>2. (TargetPath \o g)[a + (j - a)] = g[j - a]
        BY <1>12, <4>1
      <4>3. (TargetPath \o r)[a + (j - a)] = r[j - a]
        BY <1>3, <4>1
      <4>4. g[j - a] = s[j - a] /\ r[j - a] = s[j - a]
        BY <1>11, <1>16, <4>1
      <4> QED BY <4>1, <4>2, <4>3, <4>4
    <3> QED BY <3>1, <3>2
  <2>3. Matches(f, TargetPath \o r)
    BY <1>3, <1>10, <1>13, <2>1, <2>2 DEF Matches
  <2>4. Blocks(tree, r)
    BY <1>7, <1>8, <2>3 DEF Blocks, Under
  <2>5. r \in Prefixes(r)
    BY <1>2, PrefixesAreAbove
  <2> QED BY <2>4, <2>5 DEF Copies
<1> QED BY <1>22, <1>23

\* A file has one rendition, or those of a template that asks for the time.
LEMMA MadeOnce ==
  ASSUME NEW s, NEW c \in Made(s)
  PROVE  Made(s) \in {{c}, Stamps}
BY DEF Made, Rendition

LEMMA ResyncRestamps ==
  ASSUME RendersToEarlier, PatternsSparePlaceholders, TypeInv, CloneInv, WalkInv,
         NoPlaceholderIsLeft
  PROVE  ResyncOnlyRestamps
<1> SUFFICES ASSUME pc = "push"
             PROVE  /\ DOMAIN Overlay(tree) = DOMAIN tree
                    /\ \A p \in DOMAIN tree :
                         \/ Overlay(tree)[p] = {tree[p]}
                         \/ Overlay(tree)[p] = Stamps /\ tree[p] \in Stamps
  BY DEF ResyncOnlyRestamps
<1>1. /\ IsFiles(from)
      /\ DOMAIN tree = DOMAIN base \union {Destination(s) : s \in Copies(base)}
      /\ \A p \in DOMAIN tree :
           \/ /\ \A s \in Copies(base) : Destination(s) # p
              /\ tree[p] = base[p]
           \/ \E s \in Copies(base) :
                /\ Destination(s) = p
                /\ tree[p] \in Made(s)
                /\ \A t \in Copies(base) : Destination(t) = p => t = s \/ Before(t, s)
  BY PushedTree
<1>2. Copies(tree) \subseteq Copies(base)
  <2>1. \A q : Blocks(base, q) => Blocks(tree, q)
    BY <1>1 DEF Blocks, Under
  <2> QED BY <2>1 DEF Copies
<1>3. DOMAIN Overlay(tree) = DOMAIN tree
  BY <1>1, <1>2, OverlayIs
<1>4. ASSUME NEW p \in DOMAIN tree
      PROVE  \/ Overlay(tree)[p] = {tree[p]}
             \/ Overlay(tree)[p] = Stamps /\ tree[p] \in Stamps
  <2>1. CASE \A s \in Copies(tree) : Destination(s) # p
    BY <1>1, <2>1, OverlayIs
  <2>2. ASSUME NEW r \in Copies(tree), Destination(r) = p
        PROVE  \/ Overlay(tree)[p] = {tree[p]}
               \/ Overlay(tree)[p] = Stamps /\ tree[p] \in Stamps
    <3>1. r \in Copies(base)
      BY <1>2
    <3>2. PICK s \in Copies(base) :
            /\ Destination(s) = p
            /\ tree[p] \in Made(s)
            /\ \A t \in Copies(base) : Destination(t) = p => t = s \/ Before(t, s)
      BY <1>1, <2>2, <3>1
    <3>3. s \in Copies(tree)
      BY <2>2, <3>1, <3>2, LastIsCopiedAgain
    <3>4. \A t \in Copies(tree) : Destination(t) = Destination(s) => t = s \/ Before(t, s)
      BY <1>2, <3>2
    <3>5. Overlay(tree)[Destination(s)] = Made(s)
      BY <1>1, <3>3, <3>4, OverlayIs
    <3> QED BY <3>2, <3>5, MadeOnce
  <2> QED BY <2>1, <2>2
<1> QED BY <1>3, <1>4

(* A second sync on top of the first changes at most the files of Go       *)
(* templates that ask for the time or an identifier, whatever other files  *)
(* the target has and however names meet: provided a name with a           *)
(* placeholder comes after what it renders to, renders to a name without   *)
(* one, is not copied as it is, and is matched by no other name as an      *)
(* ignore pattern.                                                         *)
THEOREM ResyncsOnlyRestamp ==
  ASSUME RendersOnce, RendersToEarlier, PatternsSparePlaceholders
  PROVE  Spec => [](NoPlaceholderIsLeft => ResyncOnlyRestamps)
<1>1. Init => TypeInv /\ CloneInv /\ WalkInv
  BY InitTypes, InitClone, InitWalk
<1>2. TypeInv /\ CloneInv /\ WalkInv /\ [Next]_vars => TypeInv' /\ CloneInv' /\ WalkInv'
  BY StepTypes, StepClone, StepWalk
<1>3. TypeInv /\ CloneInv /\ WalkInv => (NoPlaceholderIsLeft => ResyncOnlyRestamps)
  BY ResyncRestamps
<1> QED BY <1>1, <1>2, <1>3, PTL DEF Spec
=================================================================================
