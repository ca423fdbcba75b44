--------------------------- MODULE FsTree_proofs ---------------------------
(***************************************************************************)
(* Proofs about FsTree, for every set of names, depth of paths, policies   *)
(* and first trees, also such that have files or links at the names the    *)
(* service gives its temporary files: the tree stays closed, no path a     *)
(* request names leads through a symbolic link, every step leaves alone    *)
(* the files its request does not name and keeps to the policy, and an     *)
(* answer tells what has been done.                                        *)
(***************************************************************************)
EXTENDS FsTree, SequenceTheorems, TLAPS

(***************************************************************************)
(* Paths.                                                                  *)
(***************************************************************************)
\* A prefix is as long at most and agrees name by name.
LEMMA PrefixBySteps ==
    ASSUME NEW S, NEW q \in Seq(S), NEW p \in Seq(S)
    PROVE  IsPrefix(q, p) <=> Len(q) <= Len(p) /\ \A i \in 1..Len(q) : q[i] = p[i]
<1>1. SubSeq(q, 1, Len(q)) = q  BY SubSeqFull
<1>2. Len(q) \in Nat /\ Len(p) \in Nat  OBVIOUS
<1>3. CASE Len(q) <= Len(p)
  <2>1. \A i \in 1..Len(q) : p[i] \in S  BY <1>2, <1>3, ElementOfSeq
  <2> DEFINE h == SubSeq(p, 1, Len(q))
  <2>2. /\ h \in Seq(S) /\ Len(h) = (IF 1 <= Len(q) THEN Len(q) - 1 + 1 ELSE 0)
        /\ \A i \in 1..(Len(q) - 1 + 1) : h[i] = p[1 + i - 1]
    <3>1. 1 \in Int /\ Len(q) \in Int  BY <1>2
    <3> QED  BY ONLY <2>1, <3>1, SubSeqProperties
  <2>3. Len(h) = Len(q)  BY <1>2, <2>2
  <2>4. \A i \in 1..Len(q) : h[i] = p[i]  BY <1>2, <2>2
  <2> HIDE DEF h
  <2>5. q = h <=> \A i \in 1..Len(q) : q[i] = p[i]
    BY <2>2, <2>3, <2>4, SeqEqual
  <2> QED  BY <1>1, <1>3, <2>5 DEF IsPrefix, h
<1> QED  BY <1>2, <1>3 DEF IsPrefix

\* The segments of a path are its prefixes.
LEMMA UptoArePrefixes ==
    ASSUME NEW S, NEW p \in Seq(S)
    PROVE  \A q : q \in Upto(p) <=> q \in Seq(S) /\ IsPrefix(q, p)
<1>1. Len(p) \in Nat /\ \A i \in 1..Len(p) : p[i] \in S  BY ElementOfSeq
<1>2. ASSUME NEW n \in 0..Len(p)
      PROVE  SubSeq(p, 1, n) \in Seq(S) /\ IsPrefix(SubSeq(p, 1, n), p)
  <2> DEFINE h == SubSeq(p, 1, n)
  <2>1. n \in Nat /\ n <= Len(p) /\ n \in Int /\ 1 \in Int  BY <1>1
  <2>2. \A i \in 1..n : p[i] \in S  BY <1>1, <2>1
  <2>3. /\ h \in Seq(S) /\ Len(h) = (IF 1 <= n THEN n - 1 + 1 ELSE 0)
        /\ \A i \in 1..(n - 1 + 1) : h[i] = p[1 + i - 1]
    BY ONLY <2>1, <2>2, SubSeqProperties
  <2>4. Len(h) = n /\ \A i \in 1..n : h[i] = p[i]  BY <2>1, <2>3
  <2> HIDE DEF h
  <2>5. IsPrefix(h, p)  BY <2>1, <2>3, <2>4, PrefixBySteps
  <2> QED  BY <2>3, <2>5 DEF h
<1>3. ASSUME NEW q \in Seq(S), IsPrefix(q, p)
      PROVE  q \in Upto(p)
  <2>1. SubSeq(q, 1, Len(q)) = q  BY SubSeqFull
  <2>2. Len(q) \in 0..Len(p) /\ q = SubSeq(p, 1, Len(q))  BY <1>1, <1>3, <2>1 DEF IsPrefix
  <2> QED  BY <2>2 DEF Upto
<1> QED  BY <1>2, <1>3 DEF Upto

\* Prefixes are ordered, and two prefixes of one path are comparable.
LEMMA PrefixOrder ==
    ASSUME NEW S, NEW p \in Seq(S), NEW q \in Seq(S), NEW s \in Seq(S)
    PROVE  /\ IsPrefix(p, p) /\ IsPrefix(<<>>, p)
           /\ IsPrefix(s, q) /\ IsPrefix(q, p) => IsPrefix(s, p)
           /\ IsPrefix(q, p) /\ IsPrefix(s, p) => IsPrefix(q, s) \/ IsPrefix(s, q)
           /\ IsPrefix(q, p) /\ IsPrefix(p, q) => p = q
           /\ IsPrefix(q, p) /\ q # p => Len(q) < Len(p)
<1>0. Len(p) \in Nat /\ Len(q) \in Nat /\ Len(s) \in Nat /\ <<>> \in Seq(S) /\ Len(<<>>) = 0
  BY EmptySeq
<1>1. IsPrefix(p, p) /\ IsPrefix(<<>>, p)
  <2>1. IsPrefix(p, p)  BY <1>0, PrefixBySteps
  <2>3. ASSUME NEW e \in Seq(S), Len(e) = 0
        PROVE  IsPrefix(e, p)
    <3>1. Len(e) <= Len(p) /\ \A i \in 1..Len(e) : e[i] = p[i]  BY <1>0, <2>3
    <3> QED  BY <3>1, PrefixBySteps
  <2> QED  BY <1>0, <2>1, <2>3
<1>2. ASSUME IsPrefix(s, q), IsPrefix(q, p)
      PROVE  IsPrefix(s, p)
  <2>1. Len(s) <= Len(p)  BY <1>0, <1>2, PrefixBySteps
  <2>2. ASSUME NEW i \in 1..Len(s)
        PROVE  s[i] = p[i]
    BY <1>0, <1>2, PrefixBySteps
  <2> QED  BY <2>1, <2>2, PrefixBySteps
<1>3. ASSUME IsPrefix(q, p), IsPrefix(s, p)
      PROVE  IsPrefix(q, s) \/ IsPrefix(s, q)
  <2>1. CASE Len(q) <= Len(s)
    <3>1. ASSUME NEW i \in 1..Len(q)
          PROVE  q[i] = s[i]
      <4>1. i \in 1..Len(s)  BY <1>0, <2>1
      <4> QED  BY <1>3, <4>1, PrefixBySteps
    <3> QED  BY <2>1, <3>1, PrefixBySteps
  <2>2. CASE Len(s) <= Len(q)
    <3>1. ASSUME NEW i \in 1..Len(s)
          PROVE  s[i] = q[i]
      <4>1. i \in 1..Len(q)  BY <1>0, <2>2
      <4> QED  BY <1>3, <4>1, PrefixBySteps
    <3> QED  BY <2>2, <3>1, PrefixBySteps
  <2> QED  BY <1>0, <2>1, <2>2
<1>4. ASSUME IsPrefix(q, p), Len(p) <= Len(q)
      PROVE  p = q
  <2>1. Len(p) = Len(q) /\ \A i \in 1..Len(q) : q[i] = p[i]  BY <1>0, <1>4, PrefixBySteps
  <2> QED  BY <2>1, SeqEqual
<1>5. IsPrefix(p, q) => Len(p) <= Len(q)  BY PrefixBySteps
<1> QED  BY <1>0, <1>1, <1>2, <1>3, <1>4, <1>5

\* The parent is the longest of the other prefixes.
LEMMA ParentIsPrefix ==
    ASSUME NEW S, NEW p \in Seq(S), p # <<>>
    PROVE  /\ Parent(p) \in Seq(S) /\ Len(p) > 0 /\ Len(Parent(p)) = Len(p) - 1
           /\ IsPrefix(Parent(p), p) /\ Parent(p) # p
           /\ \A i \in 1..(Len(p) - 1) : Parent(p)[i] = p[i]
           /\ \A q \in Seq(S) : IsPrefix(q, p) => q = p \/ IsPrefix(q, Parent(p))
<1> DEFINE h == SubSeq(p, 1, Len(p) - 1)
<1>1. Parent(p) = h  BY DEF Parent, Front
<1>2. Len(p) \in Nat /\ Len(p) > 0 /\ \A i \in 1..Len(p) : p[i] \in S  BY EmptySeq, ElementOfSeq
<1>3. Len(p) - 1 \in Int /\ 1 \in Int /\ \A i \in 1..(Len(p) - 1) : p[i] \in S  BY <1>2
<1>4. /\ h \in Seq(S) /\ Len(h) = (IF 1 <= Len(p) - 1 THEN Len(p) - 1 - 1 + 1 ELSE 0)
      /\ \A i \in 1..(Len(p) - 1 - 1 + 1) : h[i] = p[1 + i - 1]
  BY ONLY <1>3, SubSeqProperties
<1> HIDE DEF h
<1>5. Len(h) = Len(p) - 1 /\ \A i \in 1..(Len(p) - 1) : h[i] = p[i]
  <2>1. Len(h) = Len(p) - 1
    <3>1. PICK n \in Nat : n = Len(p)  BY <1>2
    <3>2. n > 0 /\ Len(h) = IF 1 <= n - 1 THEN n - 1 - 1 + 1 ELSE 0  BY <1>2, <1>4, <3>1
    <3>3. Len(h) = n - 1  BY ONLY n \in Nat, <3>2
    <3> QED  BY <3>1, <3>3
  <2>2. ASSUME NEW i \in 1..(Len(p) - 1)
        PROVE  h[i] = p[i]
    <3>1. i \in 1..(Len(p) - 1 - 1 + 1) /\ 1 + i - 1 = i  BY <1>2
    <3> QED  BY <1>4, <3>1
  <2> QED  BY <2>1, <2>2
<1>6. IsPrefix(h, p)  BY <1>2, <1>4, <1>5, PrefixBySteps
<1>7. h # p  BY <1>2, <1>5
<1>8. ASSUME NEW q \in Seq(S), IsPrefix(q, p), q # p
      PROVE  IsPrefix(q, h)
  <2>1. Len(q) < Len(p) /\ Len(q) \in Nat  BY <1>8, PrefixOrder
  <2>2. Len(q) <= Len(h)  BY <1>2, <1>5, <2>1
  <2>3. ASSUME NEW i \in 1..Len(q)
        PROVE  q[i] = h[i]
    <3>1. i \in 1..(Len(p) - 1) BY <1>2, <2>1
    <3> QED  BY <1>5, <1>8, <3>1, PrefixBySteps
  <2> QED  BY <1>4, <2>2, <2>3, PrefixBySteps
<1> QED  BY <1>1, <1>2, <1>4, <1>5, <1>6, <1>7, <1>8

\* The segments of a path are the path and those of its parent.
LEMMA UptoParent ==
    ASSUME NEW S, NEW p \in Seq(S)
    PROVE  /\ \A q \in Upto(p) : q = p \/ q \in Upto(Parent(p))
           /\ Parent(p) \in Seq(S) /\ p \in Upto(p) /\ Parent(p) \in Upto(p)
           /\ Upto(Parent(p)) \subseteq Upto(p)
           /\ p # <<>> => p \notin Upto(Parent(p))
<1>1. CASE p = <<>>
  <2>1. Parent(p) = p  BY <1>1 DEF Parent
  <2> QED  BY <1>1, <2>1, UptoArePrefixes, PrefixOrder
<1>2. CASE p # <<>>
  <2>1. /\ Parent(p) \in Seq(S) /\ IsPrefix(Parent(p), p) /\ Parent(p) # p
        /\ \A q \in Seq(S) : IsPrefix(q, p) => q = p \/ IsPrefix(q, Parent(p))
    BY <1>2, ParentIsPrefix
  <2>2. \A q : /\ q \in Upto(p) <=> q \in Seq(S) /\ IsPrefix(q, p)
               /\ q \in Upto(Parent(p)) <=> q \in Seq(S) /\ IsPrefix(q, Parent(p))
    BY <2>1, UptoArePrefixes
  <2>3. IsPrefix(p, p)  BY PrefixOrder
  <2>4. ~IsPrefix(p, Parent(p))  BY <2>1, PrefixOrder
  <2>5. Upto(Parent(p)) \subseteq Upto(p)  BY <2>1, <2>2, PrefixOrder
  <2> QED  BY <2>1, <2>2, <2>3, <2>4, <2>5
<1> QED  BY <1>1, <1>2

\* What a shifted path is, name by name.
LEMMA ShiftedBySteps ==
    ASSUME NEW S, NEW p \in Seq(S), NEW q \in Seq(S), NEW s \in Seq(S), IsPrefix(p, s)
    PROVE  /\ Shifted(p, q, s) \in Seq(S)
           /\ Len(Shifted(p, q, s)) = Len(q) + (Len(s) - Len(p))
           /\ \A i \in 1..Len(q) : Shifted(p, q, s)[i] = q[i]
           /\ \A i \in 1..(Len(s) - Len(p)) : Shifted(p, q, s)[Len(q) + i] = s[Len(p) + i]
<1> DEFINE r == SubSeq(s, Len(p) + 1, Len(s))
<1>1. Len(p) \in Nat /\ Len(q) \in Nat /\ Len(s) \in Nat /\ Len(p) <= Len(s)
  BY PrefixBySteps
<1>2. Len(p) + 1 \in Int /\ Len(s) \in Int  BY <1>1
<1>3. \A i \in (Len(p) + 1)..Len(s) : s[i] \in S
  <2>1. \A i \in (Len(p) + 1)..Len(s) : i \in 1..Len(s)  BY <1>1
  <2> QED  BY <2>1, ElementOfSeq
<1>4. /\ r \in Seq(S)
      /\ Len(r) = (IF Len(p) + 1 <= Len(s) THEN Len(s) - (Len(p) + 1) + 1 ELSE 0)
      /\ \A i \in 1..(Len(s) - (Len(p) + 1) + 1) : r[i] = s[Len(p) + 1 + i - 1]
  BY ONLY <1>2, <1>3, SubSeqProperties
<1> HIDE DEF r
<1>5. Len(r) = Len(s) - Len(p)  BY <1>1, <1>4
<1>6. ASSUME NEW i \in 1..(Len(s) - Len(p))
      PROVE  r[i] = s[Len(p) + i]
  <2>1. i \in 1..(Len(s) - (Len(p) + 1) + 1) /\ Len(p) + 1 + i - 1 = Len(p) + i  BY <1>1
  <2> QED  BY <1>4, <2>1
<1>7. Shifted(p, q, s) = q \o r  BY DEF Shifted, r
<1>8. /\ q \o r \in Seq(S) /\ Len(q \o r) = Len(q) + Len(r)
      /\ \A i \in 1..(Len(q) + Len(r)) :
           (q \o r)[i] = IF i <= Len(q) THEN q[i] ELSE r[i - Len(q)]
  BY <1>4, ConcatProperties
<1>9. \A i \in 1..Len(q) : (q \o r)[i] = q[i]
  <2>1. \A i \in 1..Len(q) : i \in 1..(Len(q) + Len(r)) /\ i <= Len(q)  BY <1>1, <1>5
  <2> QED  BY <1>8, <2>1
<1>10. ASSUME NEW i \in 1..(Len(s) - Len(p))
       PROVE  (q \o r)[Len(q) + i] = s[Len(p) + i]
  <2>1. /\ Len(q) + i \in 1..(Len(q) + Len(r)) /\ ~(Len(q) + i <= Len(q))
        /\ (Len(q) + i) - Len(q) = i
    BY <1>1, <1>5
  <2>2. (q \o r)[Len(q) + i] = r[(Len(q) + i) - Len(q)]  BY <1>8, <2>1
  <2> QED  BY <1>6, <2>1, <2>2
<1> QED  BY <1>5, <1>7, <1>8, <1>9, <1>10

\* What is shifted is below where it went, and shifting it back undoes it.
LEMMA ShiftedBack ==
    ASSUME NEW S, NEW p \in Seq(S), NEW q \in Seq(S), NEW s \in Seq(S), IsPrefix(p, s)
    PROVE  /\ IsPrefix(q, Shifted(p, q, s))
           /\ Shifted(q, p, Shifted(p, q, s)) = s
           /\ Shifted(p, q, s) = q <=> s = p
<1> DEFINE h == Shifted(p, q, s)
           b == Shifted(q, p, h)
<1>1. Len(p) \in Nat /\ Len(q) \in Nat /\ Len(s) \in Nat /\ Len(p) <= Len(s)
  BY PrefixBySteps
<1>2. /\ h \in Seq(S) /\ Len(h) = Len(q) + (Len(s) - Len(p))
      /\ \A i \in 1..Len(q) : h[i] = q[i]
      /\ \A i \in 1..(Len(s) - Len(p)) : h[Len(q) + i] = s[Len(p) + i]
  <2>1. h \in Seq(S) /\ Len(h) = Len(q) + (Len(s) - Len(p))  BY ShiftedBySteps
  <2>2. \A i \in 1..Len(q) : h[i] = q[i]  BY ShiftedBySteps
  <2>3. \A i \in 1..(Len(s) - Len(p)) : h[Len(q) + i] = s[Len(p) + i]  BY ShiftedBySteps
  <2> QED  BY <2>1, <2>2, <2>3
<1> HIDE DEF h
<1>3. IsPrefix(q, h)
  <2>1. Len(q) <= Len(h)  BY <1>1, <1>2
  <2> QED  BY <1>2, <2>1, PrefixBySteps
<1>4. /\ b \in Seq(S) /\ Len(b) = Len(p) + (Len(h) - Len(q))
      /\ \A i \in 1..Len(p) : b[i] = p[i]
      /\ \A i \in 1..(Len(h) - Len(q)) : b[Len(p) + i] = h[Len(q) + i]
  <2>1. b \in Seq(S) /\ Len(b) = Len(p) + (Len(h) - Len(q))  BY <1>2, <1>3, ShiftedBySteps
  <2>2. \A i \in 1..Len(p) : b[i] = p[i]  BY <1>2, <1>3, ShiftedBySteps
  <2>3. \A i \in 1..(Len(h) - Len(q)) : b[Len(p) + i] = h[Len(q) + i]  BY <1>2, <1>3, ShiftedBySteps
  <2> QED  BY <2>1, <2>2, <2>3
<1> HIDE DEF b
<1>5. Len(b) = Len(s) /\ Len(h) - Len(q) = Len(s) - Len(p)  BY <1>1, <1>2, <1>4
<1>6. ASSUME NEW i \in 1..Len(b)
      PROVE  b[i] = s[i]
  <2>1. CASE i <= Len(p)
    <3>1. i \in 1..Len(p)  BY <2>1, <1>1
    <3>2. s[i] = p[i]  BY <3>1, PrefixBySteps
    <3> QED  BY <1>4, <3>1, <3>2
  <2>2. CASE ~(i <= Len(p))
    <3>1. i - Len(p) \in 1..(Len(s) - Len(p)) /\ Len(p) + (i - Len(p)) = i  BY <1>1, <1>5, <2>2
    <3>2. b[Len(p) + (i - Len(p))] = h[Len(q) + (i - Len(p))]  BY <1>4, <1>5, <3>1
    <3>3. h[Len(q) + (i - Len(p))] = s[Len(p) + (i - Len(p))]  BY <1>2, <3>1
    <3> QED  BY <3>1, <3>2, <3>3
  <2> QED  BY <2>1, <2>2
<1>7. b = s  BY <1>4, <1>5, <1>6, SeqEqual
<1>8. h = q <=> s = p
  <2>1. ASSUME h = q
        PROVE  s = p
    <3>1. Len(s) = Len(p)  BY <1>1, <1>2, <2>1
    <3>2. IsPrefix(s, s)  BY PrefixOrder
    <3> QED  BY <3>1, <1>1, PrefixOrder
  <2>2. ASSUME s = p
        PROVE  h = q
    <3>1. Len(h) = Len(q)  BY <1>1, <1>2, <2>2
    <3> QED  BY <1>1, <1>2, <1>3, <3>1, PrefixOrder
  <2> QED  BY <2>1, <2>2
<1> QED  BY <1>3, <1>7, <1>8 DEF b, h

\* A prefix of what was shifted that is below its new place was a prefix before.
LEMMA ShiftedPrefixes ==
    ASSUME NEW S, NEW p \in Seq(S), NEW q \in Seq(S), NEW s \in Seq(S), IsPrefix(p, s),
           NEW w \in Seq(S), IsPrefix(w, s), IsPrefix(p, w)
    PROVE  /\ IsPrefix(Shifted(p, q, w), Shifted(p, q, s))
           /\ Shifted(p, q, w) = Shifted(p, q, s) <=> w = s
<1> DEFINE g == Shifted(p, q, w)
           h == Shifted(p, q, s)
<1>1. /\ Len(p) \in Nat /\ Len(q) \in Nat /\ Len(s) \in Nat /\ Len(w) \in Nat
      /\ Len(p) <= Len(w) /\ Len(w) <= Len(s)
  BY PrefixBySteps
<1>2. /\ h \in Seq(S) /\ Len(h) = Len(q) + (Len(s) - Len(p))
      /\ \A i \in 1..Len(q) : h[i] = q[i]
      /\ \A i \in 1..(Len(s) - Len(p)) : h[Len(q) + i] = s[Len(p) + i]
  <2>1. h \in Seq(S) /\ Len(h) = Len(q) + (Len(s) - Len(p))  BY ShiftedBySteps
  <2>2. \A i \in 1..Len(q) : h[i] = q[i]  BY ShiftedBySteps
  <2>3. \A i \in 1..(Len(s) - Len(p)) : h[Len(q) + i] = s[Len(p) + i]  BY ShiftedBySteps
  <2> QED  BY <2>1, <2>2, <2>3
<1>3. /\ g \in Seq(S) /\ Len(g) = Len(q) + (Len(w) - Len(p))
      /\ \A i \in 1..Len(q) : g[i] = q[i]
      /\ \A i \in 1..(Len(w) - Len(p)) : g[Len(q) + i] = w[Len(p) + i]
  <2>1. g \in Seq(S) /\ Len(g) = Len(q) + (Len(w) - Len(p))  BY ShiftedBySteps
  <2>2. \A i \in 1..Len(q) : g[i] = q[i]  BY ShiftedBySteps
  <2>3. \A i \in 1..(Len(w) - Len(p)) : g[Len(q) + i] = w[Len(p) + i]  BY ShiftedBySteps
  <2> QED  BY <2>1, <2>2, <2>3
<1>4. g = h => Shifted(q, p, g) = Shifted(q, p, h)  OBVIOUS
<1>5. Shifted(q, p, g) = w /\ Shifted(q, p, h) = s  BY ShiftedBack
<1> HIDE DEF g, h
<1>6. Len(g) <= Len(h)  BY <1>1, <1>2, <1>3
<1>7. ASSUME NEW i \in 1..Len(g)
      PROVE  g[i] = h[i]
  <2>1. CASE i <= Len(q)
    <3>1. i \in 1..Len(q)  BY <2>1, <1>1
    <3> QED  BY <1>2, <1>3, <3>1
  <2>2. CASE ~(i <= Len(q))
    <3>1. /\ i - Len(q) \in 1..(Len(w) - Len(p)) /\ Len(q) + (i - Len(q)) = i
          /\ i - Len(q) \in 1..(Len(s) - Len(p)) /\ Len(p) + (i - Len(q)) \in 1..Len(w)
      BY <1>1, <1>3, <2>2
    <3>2. g[Len(q) + (i - Len(q))] = w[Len(p) + (i - Len(q))]  BY <1>3, <3>1
    <3>3. h[Len(q) + (i - Len(q))] = s[Len(p) + (i - Len(q))]  BY <1>2, <3>1
    <3>4. w[Len(p) + (i - Len(q))] = s[Len(p) + (i - Len(q))]  BY <3>1, PrefixBySteps
    <3> QED  BY <3>1, <3>2, <3>3, <3>4
  <2> QED  BY <2>1, <2>2
<1>8. IsPrefix(g, h)  BY <1>2, <1>3, <1>6, <1>7, PrefixBySteps
<1>9. g = h <=> w = s
  <2>1. w = s => g = h  BY DEF g, h
  <2> QED  BY <1>4, <1>5, <2>1
<1> QED  BY <1>8, <1>9 DEF g, h

\* Shifting a path to where it is changes nothing.
LEMMA ShiftedNowhere ==
    ASSUME NEW S, NEW p \in Seq(S), NEW s \in Seq(S), IsPrefix(p, s)
    PROVE  Shifted(p, p, s) = s
<1>0. PICK q \in Seq(S) : q = p  OBVIOUS
<1> DEFINE h == Shifted(p, q, s)
<1>1. Len(p) \in Nat /\ Len(s) \in Nat /\ \A i \in 1..Len(p) : p[i] = s[i]
  BY PrefixBySteps
<1>2. h \in Seq(S) /\ Len(h) = Len(q) + (Len(s) - Len(p))  BY ShiftedBySteps
<1>3. \A i \in 1..Len(q) : h[i] = q[i]  BY ShiftedBySteps
<1>4. \A i \in 1..(Len(s) - Len(p)) : h[Len(q) + i] = s[Len(p) + i]  BY ShiftedBySteps
<1> HIDE DEF h
<1>5. Len(h) = Len(s)  BY <1>0, <1>1, <1>2
<1>6. ASSUME NEW i \in 1..Len(h)
      PROVE  h[i] = s[i]
  <2>1. CASE i <= Len(p)
    <3>1. i \in 1..Len(p)  BY <1>1, <2>1
    <3> QED  BY <1>0, <1>1, <1>3, <3>1
  <2>2. CASE ~(i <= Len(p))
    <3>1. i - Len(p) \in 1..(Len(s) - Len(p)) /\ Len(p) + (i - Len(p)) = i
      BY <1>1, <1>5, <2>2
    <3> QED  BY <1>0, <1>4, <3>1
  <2> QED  BY <2>1, <2>2
<1>7. h = s  BY <1>2, <1>5, <1>6, SeqEqual
<1> QED  BY <1>0, <1>7 DEF h

(***************************************************************************)
(* Trees.  Below a client's directories there are also .patch.tmp files,   *)
(* and a file may be left torn.                                            *)
(***************************************************************************)
AnyName == Names \cup {TmpName(n) : n \in Names}
AnyPath == Seq(AnyName)
Entry == {Dir, Link} \cup {File(d) : d \in Data \cup {Torn}}

\* What exists is an entry, in directories that exist.
TreeShape(t) ==
    /\ t = [p \in DOMAIN t |-> t[p]]
    /\ <<>> \in DOMAIN t => t[<<>>] = Dir
    /\ \A p \in DOMAIN t :
         /\ p \in AnyPath
         /\ t[p] \in Entry
         /\ \A q \in Upto(p) \ {p} : q \in DOMAIN t /\ t[q] = Dir

\* The kind tells a directory and a link from the rest.
LEMMA EntryKinds ==
    ASSUME NEW e \in Entry
    PROVE  /\ e.kind \in {"dir", "link", "file"}
           /\ e.kind = "dir" <=> e = Dir
           /\ e.kind = "link" <=> e = Link
BY DEF Entry, Dir, Link, File

\* What a client can name is a path of the tree.
LEMMA PathsAreSequences ==
    /\ \A p \in Path : p \in AnyPath /\ p \in Seq(Names)
    /\ <<>> \in AnyPath
<1>1. ASSUME NEW p \in Path
      PROVE  p \in Seq(Names)
  <2>1. PICK n \in 0..MaxDepth : p \in [1..n -> Names]  BY DEF Path
  <2>2. n \in Nat  BY <2>1, TreeAssumption
  <2> QED  BY <2>1, <2>2, SeqDef
<1>2. ASSUME NEW p \in Seq(Names)
      PROVE  p \in AnyPath
  <2>1. Names \subseteq AnyName  BY DEF AnyName
  <2> QED  BY <2>1, SeqMonotonic DEF AnyPath
<1> QED  BY <1>1, <1>2, EmptySeq DEF AnyPath

\* A tree is closed: the prefixes of what exists are directories.
LEMMA TreeIsClosed ==
    ASSUME NEW t, TreeShape(t), NEW p \in DOMAIN t, NEW q \in AnyPath, IsPrefix(q, p)
    PROVE  /\ p \in AnyPath /\ t[p] \in Entry /\ q \in DOMAIN t
           /\ q # p => t[q] = Dir
<1>1. p \in AnyPath /\ t[p] \in Entry  BY DEF TreeShape
<1>2. q \in Upto(p)  BY <1>1, UptoArePrefixes DEF AnyPath
<1> QED  BY <1>1, <1>2 DEF TreeShape

\* To show a tree closed, its prefixes are enough.
LEMMA TreeByPrefixes ==
    ASSUME NEW t, t = [p \in DOMAIN t |-> t[p]],
           \A p \in DOMAIN t : p \in AnyPath /\ t[p] \in Entry,
           <<>> \in DOMAIN t => t[<<>>] = Dir,
           \A p \in DOMAIN t : \A q \in AnyPath :
              IsPrefix(q, p) /\ q # p => q \in DOMAIN t /\ t[q] = Dir
    PROVE  TreeShape(t)
<1>1. ASSUME NEW p \in DOMAIN t, NEW q \in Upto(p) \ {p}
      PROVE  q \in DOMAIN t /\ t[q] = Dir
  <2>1. p \in Seq(AnyName)  BY DEF AnyPath
  <2>2. q \in AnyPath /\ IsPrefix(q, p)  BY <2>1, UptoArePrefixes DEF AnyPath
  <2> QED  BY <2>2
<1> QED  BY <1>1 DEF TreeShape

\* The trees it starts from are closed.
LEMMA FirstTrees == ASSUME NEW t, IsTree(t) PROVE TreeShape(t)
<1>1. \A e \in {Dir, Link} \cup {File(d) : d \in Data} : e \in Entry  BY DEF Entry
<1> QED  BY <1>1, PathsAreSequences DEF IsTree, TreeShape

\* Making directories keeps a tree closed where no prefix is a file or link.
LEMMA WithDirsShape ==
    ASSUME NEW t, TreeShape(t), NEW p \in AnyPath,
           \A q \in Upto(p) : q \in DOMAIN t => t[q] = Dir
    PROVE  TreeShape(WithDirs(t, p))
<1> DEFINE u == WithDirs(t, p)
<1>1. /\ u = [q \in DOMAIN u |-> u[q]] /\ DOMAIN u = DOMAIN t \cup Upto(p)
      /\ \A q \in DOMAIN u : u[q] = IF q \in DOMAIN t THEN t[q] ELSE Dir
  BY DEF WithDirs
<1>2. p \in Seq(AnyName)  BY DEF AnyPath
<1>3. \A q : q \in Upto(p) <=> q \in AnyPath /\ IsPrefix(q, p)
  BY <1>2, UptoArePrefixes DEF AnyPath
<1>4. \A q \in Upto(p) : q \in AnyPath /\ q \in DOMAIN u /\ u[q] = Dir  BY <1>1, <1>3
<1>5. Dir \in Entry  BY DEF Entry
<1>6. ASSUME NEW w \in DOMAIN u
      PROVE  w \in AnyPath /\ u[w] \in Entry
  <2>1. CASE w \in Upto(p)  BY <1>4, <1>5, <2>1
  <2>2. CASE w \in DOMAIN t  BY <1>1, <2>2 DEF TreeShape
  <2> QED  BY <1>1, <2>1, <2>2
<1>7. <<>> \in DOMAIN u => u[<<>>] = Dir  BY <1>1 DEF TreeShape
<1>8. ASSUME NEW w \in DOMAIN u, NEW v \in AnyPath, IsPrefix(v, w), v # w
      PROVE  v \in DOMAIN u /\ u[v] = Dir
  <2>1. CASE w \in Upto(p)
    <3>1. IsPrefix(v, p)  BY <1>2, <1>3, <1>8, <2>1, PrefixOrder DEF AnyPath
    <3> QED  BY <1>3, <1>4, <3>1
  <2>2. CASE w \in DOMAIN t
    <3>1. v \in DOMAIN t /\ t[v] = Dir  BY <1>8, <2>2, TreeIsClosed
    <3> QED  BY <1>1, <3>1
  <2> QED  BY <1>1, <2>1, <2>2
<1> HIDE DEF u
<1>9. TreeShape(u)  BY <1>1, <1>6, <1>7, <1>8, TreeByPrefixes
<1> QED  BY <1>9 DEF u

\* So does writing a file in a directory.
LEMMA WithShape ==
    ASSUME NEW t, TreeShape(t), NEW p \in AnyPath, NEW e \in Entry, p # <<>>,
           Parent(p) \in DOMAIN t, t[Parent(p)] = Dir,
           p \in DOMAIN t => t[p] # Dir
    PROVE  TreeShape(With(t, p, e))
<1> DEFINE u == With(t, p, e)
<1>1. /\ u = [q \in DOMAIN u |-> u[q]] /\ DOMAIN u = DOMAIN t \cup {p}
      /\ \A q \in DOMAIN u : u[q] = IF q = p THEN e ELSE t[q]
  BY DEF With
<1>2. p \in Seq(AnyName)  BY DEF AnyPath
<1>3. ASSUME NEW w \in DOMAIN u
      PROVE  w \in AnyPath /\ u[w] \in Entry
  BY <1>1 DEF TreeShape
<1>4. <<>> \in DOMAIN u => u[<<>>] = Dir  BY <1>1 DEF TreeShape
<1>5. ASSUME NEW v \in AnyPath, IsPrefix(v, p), v # p
      PROVE  v \in DOMAIN t /\ t[v] = Dir
  <2>1. IsPrefix(v, Parent(p))  BY <1>2, <1>5, ParentIsPrefix DEF AnyPath
  <2> QED  BY <2>1, TreeIsClosed
<1>6. ASSUME NEW w \in DOMAIN u, NEW v \in AnyPath, IsPrefix(v, w), v # w
      PROVE  v \in DOMAIN u /\ u[v] = Dir
  <2>1. v \in DOMAIN t /\ t[v] = Dir
    <3>1. CASE w = p  BY <1>5, <1>6, <3>1
    <3>2. CASE w \in DOMAIN t  BY <1>6, <3>2, TreeIsClosed
    <3> QED  BY <1>1, <3>1, <3>2
  <2>2. v # p  BY <2>1
  <2> QED  BY <1>1, <2>1, <2>2
<1> HIDE DEF u
<1>7. TreeShape(u)  BY <1>1, <1>3, <1>4, <1>6, TreeByPrefixes
<1> QED  BY <1>7 DEF u

\* So does removing what is downward closed.
LEMMA WithoutShape ==
    ASSUME NEW t, TreeShape(t), NEW R, \A q \in R : Below(t, q) \subseteq R
    PROVE  TreeShape(Without(t, R))
<1> DEFINE u == Without(t, R)
<1>1. /\ u = [q \in DOMAIN u |-> u[q]] /\ DOMAIN u = DOMAIN t \ R
      /\ \A q \in DOMAIN u : u[q] = t[q]
  BY DEF Without
<1>2. \A w \in DOMAIN u : w \in AnyPath /\ u[w] \in Entry  BY <1>1 DEF TreeShape
<1>3. <<>> \in DOMAIN u => u[<<>>] = Dir  BY <1>1 DEF TreeShape
<1>4. ASSUME NEW w \in DOMAIN u, NEW v \in AnyPath, IsPrefix(v, w), v # w
      PROVE  v \in DOMAIN u /\ u[v] = Dir
  <2>1. v \in DOMAIN t /\ t[v] = Dir  BY <1>1, <1>4, TreeIsClosed
  <2>2. v \notin R
    <3>1. w \in Below(t, v)  BY <1>1, <1>4 DEF Below
    <3> QED  BY <1>1, <3>1
  <2> QED  BY <1>1, <2>1, <2>2
<1> HIDE DEF u
<1>5. TreeShape(u)  BY <1>1, <1>2, <1>3, <1>4, TreeByPrefixes
<1> QED  BY <1>5 DEF u

\* What is below a path is downward closed.
LEMMA BelowIsDownward ==
    ASSUME NEW t, TreeShape(t), NEW p \in AnyPath, NEW q \in Below(t, p)
    PROVE  Below(t, q) \subseteq Below(t, p)
<1>1. q \in AnyPath /\ \A w \in DOMAIN t : w \in AnyPath  BY DEF Below, TreeShape
<1> QED  BY <1>1, PrefixOrder DEF Below, AnyPath

\* What is where after a rename.
LEMMA MovedEntries ==
    ASSUME NEW t, TreeShape(t), NEW p \in AnyPath, NEW q \in AnyPath
    PROVE  /\ Moved(t, p, q) = [w \in DOMAIN Moved(t, p, q) |-> Moved(t, p, q)[w]]
           /\ \A s \in Below(t, p) :
                /\ Shifted(p, q, s) \in DOMAIN Moved(t, p, q)
                /\ Moved(t, p, q)[Shifted(p, q, s)] = t[s]
           /\ \A w \in DOMAIN t : ~IsPrefix(p, w) /\ ~IsPrefix(q, w) =>
                /\ w \in DOMAIN Moved(t, p, q)
                /\ Moved(t, p, q)[w] = t[w]
           /\ \A w \in DOMAIN Moved(t, p, q) :
                \/ \E s \in Below(t, p) : w = Shifted(p, q, s)
                \/ w \in DOMAIN t /\ ~IsPrefix(p, w) /\ ~IsPrefix(q, w)
<1> DEFINE new == {Shifted(p, q, s) : s \in Below(t, p)}
           rest == DOMAIN t \ (Below(t, p) \cup Below(t, q))
           u == Moved(t, p, q)
<1>1. u = [w \in new \cup rest |-> IF w \in new THEN t[Shifted(q, p, w)] ELSE t[w]]
  BY DEF Moved
<1>2. \A w : w \in rest <=> w \in DOMAIN t /\ ~IsPrefix(p, w) /\ ~IsPrefix(q, w)
  BY DEF Below
<1>3. \A s \in Below(t, p) : s \in AnyPath /\ IsPrefix(p, s) /\ s \in DOMAIN t
  BY DEF Below, TreeShape
<1>4. \A w \in new : IsPrefix(q, w)  BY <1>3, ShiftedBack DEF AnyPath
<1>5. \A w : w \in new <=> \E s \in Below(t, p) : w = Shifted(p, q, s)  OBVIOUS
<1>6. \A s \in Below(t, p) : Shifted(q, p, Shifted(p, q, s)) = s
  BY <1>3, ShiftedBack DEF AnyPath
<1> HIDE DEF u, new, rest
<1>7. DOMAIN u = new \cup rest /\ u = [w \in DOMAIN u |-> u[w]]  BY <1>1
<1>8. \A w \in new : w \in DOMAIN u /\ u[w] = t[Shifted(q, p, w)]  BY <1>1
<1>9. \A w \in rest : w \in DOMAIN u /\ (w \notin new => u[w] = t[w])  BY <1>1
<1>10. \A s \in Below(t, p) : Shifted(p, q, s) \in DOMAIN u /\ u[Shifted(p, q, s)] = t[s]
  BY <1>5, <1>6, <1>8
<1>11. \A w \in DOMAIN t : ~IsPrefix(p, w) /\ ~IsPrefix(q, w) => w \in DOMAIN u /\ u[w] = t[w]
  BY <1>2, <1>4, <1>9
<1>12. \A w \in DOMAIN u :
         \/ \E s \in Below(t, p) : w = Shifted(p, q, s)
         \/ w \in DOMAIN t /\ ~IsPrefix(p, w) /\ ~IsPrefix(q, w)
  BY <1>2, <1>5, <1>7
<1> QED  BY <1>7, <1>10, <1>11, <1>12 DEF u

\* A rename keeps a tree closed.
LEMMA MovedShape ==
    ASSUME NEW t, TreeShape(t), NEW p \in AnyPath, NEW q \in AnyPath, q # <<>>,
           Parent(q) \in DOMAIN t, t[Parent(q)] = Dir, ~IsPrefix(p, q)
    PROVE  TreeShape(Moved(t, p, q))
<1> DEFINE u == Moved(t, p, q)
<1>1. /\ u = [w \in DOMAIN u |-> u[w]]
      /\ \A s \in Below(t, p) : Shifted(p, q, s) \in DOMAIN u /\ u[Shifted(p, q, s)] = t[s]
      /\ \A w \in DOMAIN t : ~IsPrefix(p, w) /\ ~IsPrefix(q, w) => w \in DOMAIN u /\ u[w] = t[w]
      /\ \A w \in DOMAIN u :
           \/ \E s \in Below(t, p) : w = Shifted(p, q, s)
           \/ w \in DOMAIN t /\ ~IsPrefix(p, w) /\ ~IsPrefix(q, w)
  BY MovedEntries
<1> HIDE DEF u
<1>2. p \in Seq(AnyName) /\ q \in Seq(AnyName)  BY DEF AnyPath
<1>3. \A s \in DOMAIN t : s \in AnyPath /\ s \in Seq(AnyName) /\ t[s] \in Entry
  BY DEF TreeShape, AnyPath
<1>4. \A s \in Below(t, p) : s \in DOMAIN t /\ IsPrefix(p, s)  BY DEF Below
<1>5. \A w \in DOMAIN u : w \in AnyPath /\ u[w] \in Entry
  <2>1. \A s \in Below(t, p) : Shifted(p, q, s) \in AnyPath
    BY <1>2, <1>3, <1>4, ShiftedBySteps DEF AnyPath
  <2> QED  BY <1>1, <1>3, <1>4, <2>1
<1>6. ASSUME <<>> \in DOMAIN u
      PROVE  u[<<>>] = Dir
  <2>1. ~\E s \in Below(t, p) : <<>> = Shifted(p, q, s)
    <3>1. ASSUME NEW s \in Below(t, p), <<>> = Shifted(p, q, s)
          PROVE  FALSE
      <4>1. IsPrefix(q, <<>>)  BY <1>2, <1>3, <1>4, <3>1, ShiftedBack
      <4>2. <<>> \in Seq(AnyName) /\ IsPrefix(<<>>, q)  BY <1>2, EmptySeq, PrefixOrder
      <4>3. q = <<>>  BY <1>2, <4>1, <4>2, PrefixOrder
      <4> QED  BY <4>3
    <3> QED  BY <3>1
  <2> QED  BY <1>1, <1>6, <2>1 DEF TreeShape
<1>7. ASSUME NEW w \in DOMAIN u, NEW v \in AnyPath, IsPrefix(v, w), v # w
      PROVE  v \in DOMAIN u /\ u[v] = Dir
  <2>1. CASE w \in DOMAIN t /\ ~IsPrefix(p, w) /\ ~IsPrefix(q, w)
    <3>1. v \in DOMAIN t /\ t[v] = Dir  BY <1>7, <2>1, TreeIsClosed
    <3>2. ~IsPrefix(p, v) /\ ~IsPrefix(q, v)  BY <1>2, <1>3, <1>7, <2>1, PrefixOrder DEF AnyPath
    <3> QED  BY <1>1, <3>1, <3>2
  <2>2. ASSUME NEW s \in Below(t, p), w = Shifted(p, q, s)
        PROVE  v \in DOMAIN u /\ u[v] = Dir
    <3>0. s \in Seq(AnyName) /\ IsPrefix(p, s) /\ s \in DOMAIN t  BY <1>3, <1>4
    <3>1. w \in Seq(AnyName) /\ v \in Seq(AnyName) /\ IsPrefix(q, w)
      BY <1>2, <2>2, <3>0, ShiftedBySteps, ShiftedBack DEF AnyPath
    <3>2. CASE IsPrefix(q, v)
      <4> DEFINE x == Shifted(q, p, v)
      <4>1. x \in Seq(AnyName) /\ IsPrefix(p, x) /\ v = Shifted(p, q, x)
        BY <1>2, <3>1, <3>2, ShiftedBySteps, ShiftedBack
      <4>2. IsPrefix(x, Shifted(q, p, w)) /\ (x = Shifted(q, p, w) <=> v = w)
        BY <1>2, <1>7, <3>1, <3>2, ShiftedPrefixes
      <4>3. Shifted(q, p, w) = s  BY <1>2, <2>2, <3>0, ShiftedBack
      <4>4. IsPrefix(x, s) /\ x # s  BY <1>7, <4>2, <4>3
      <4> HIDE DEF x
      <4>5. x \in DOMAIN t /\ t[x] = Dir  BY <3>0, <4>1, <4>4, TreeIsClosed DEF AnyPath
      <4>6. x \in Below(t, p)  BY <4>1, <4>5 DEF Below
      <4> QED  BY <1>1, <4>1, <4>5, <4>6
    <3>3. CASE ~IsPrefix(q, v)
      <4>1. IsPrefix(v, q)  BY <1>2, <1>7, <3>1, <3>3, PrefixOrder
      <4>2. v # q  BY <1>2, <3>3, PrefixOrder
      <4>3. IsPrefix(v, Parent(q))  BY <1>2, <3>1, <4>1, <4>2, ParentIsPrefix
      <4>4. v \in DOMAIN t /\ t[v] = Dir  BY <4>3, TreeIsClosed
      <4>5. ~IsPrefix(p, v)  BY <1>2, <3>1, <4>1, PrefixOrder
      <4> QED  BY <1>1, <3>3, <4>4, <4>5
    <3> QED  BY <3>2, <3>3
  <2> QED  BY <1>1, <2>1, <2>2
<1>8. TreeShape(u)  BY <1>1, <1>5, <1>6, <1>7, TreeByPrefixes
<1> QED  BY <1>8 DEF u

\* Making directories changes no file.
LEMMA WithDirsKeeps ==
    ASSUME NEW t, NEW p
    PROVE  /\ \A q \in DOMAIN t : q \in DOMAIN WithDirs(t, p) /\ WithDirs(t, p)[q] = t[q]
           /\ Files(WithDirs(t, p)) = Files(t)
           /\ \A q \in Differ(t, WithDirs(t, p)) :
                q \in Upto(p) /\ q \notin DOMAIN t /\ WithDirs(t, p)[q] = Dir
<1>1. /\ DOMAIN WithDirs(t, p) = DOMAIN t \cup Upto(p)
      /\ \A q \in DOMAIN WithDirs(t, p) :
           WithDirs(t, p)[q] = IF q \in DOMAIN t THEN t[q] ELSE Dir
  BY DEF WithDirs
<1> QED  BY <1>1 DEF Files, Dir, Differ

\* Writing a file changes no other.
LEMMA WithKeeps ==
    ASSUME NEW t, NEW p, NEW e
    PROVE  /\ \A q \in DOMAIN t : q # p => q \in DOMAIN With(t, p, e) /\ With(t, p, e)[q] = t[q]
           /\ p \in DOMAIN With(t, p, e) /\ With(t, p, e)[p] = e
           /\ DOMAIN With(t, p, e) = DOMAIN t \cup {p}
           /\ Differ(t, With(t, p, e)) \subseteq {p}
BY DEF With, Differ

\* The kinds, of an entry of the tree.
LEMMA KindsInTree ==
    ASSUME TreeShape(tree), NEW p
    PROVE  /\ IsDir(p) <=> p \in DOMAIN tree /\ tree[p] = Dir
           /\ IsLink(p) <=> p \in DOMAIN tree /\ tree[p] = Link
           /\ Exists(p) <=> p \in DOMAIN tree
           /\ Exists(p) => IsDir(p) \/ IsLink(p) \/ IsFile(p)
           /\ IsFile(p) => ~IsDir(p) /\ ~IsLink(p)
<1>1. p \in DOMAIN tree => tree[p] \in Entry  BY DEF TreeShape
<1> QED  BY <1>1, EntryKinds DEF IsDir, IsLink, IsFile, Exists, Dir, Link

\* fs.writeFile where it may write: the file, or another one that a link leads to.
LEMMA WrittenTree ==
    ASSUME TreeShape(tree), NEW p \in AnyPath, CanWrite(p), NEW d \in Data \cup {Torn},
           NEW u \in Written(p, d)
    PROVE  /\ TreeShape(u)
           /\ DOMAIN tree \subseteq DOMAIN u
           /\ \A q \in DOMAIN u : u[q] = Link => q \in DOMAIN tree /\ tree[q] = Link
           /\ ~IsLink(p) => u = With(tree, p, File(d))
           /\ IsLink(p) => /\ AtMostOne(Differ(tree, u))
                           /\ p \in DOMAIN u /\ u[p] = Link
           /\ \A q \in DOMAIN tree : tree[q].kind = "file" => u[q].kind = "file"
<1>1. File(d) \in Entry /\ File(d) # Link /\ File(d).kind = "file"  BY DEF Entry, File, Link
<1>2. ASSUME NEW q \in AnyPath, CanWrite(q)
      PROVE  /\ TreeShape(With(tree, q, File(d)))
             /\ DOMAIN tree \subseteq DOMAIN With(tree, q, File(d))
  <2>1. /\ Parent(q) \in DOMAIN tree /\ tree[Parent(q)] = Dir /\ q # <<>>
        /\ q \in DOMAIN tree => tree[q] # Dir
    BY <1>2, KindsInTree DEF CanWrite
  <2> QED  BY <1>1, <2>1, WithShape, WithKeeps
<1>3. CASE ~IsLink(p)
  <2>1. u = With(tree, p, File(d))  BY <1>3 DEF Written
  <2>2. /\ DOMAIN u = DOMAIN tree \cup {p}
        /\ \A q \in DOMAIN u : u[q] = IF q = p THEN File(d) ELSE tree[q]
    BY <2>1 DEF With
  <2>3. \A q \in DOMAIN u : u[q] = Link => q \in DOMAIN tree /\ tree[q] = Link
    BY <1>1, <2>2
  <2>4. \A q \in DOMAIN tree : tree[q].kind = "file" => u[q].kind = "file"
    BY <1>1, <2>2
  <2> QED  BY <1>2, <1>3, <2>1, <2>3, <2>4
<1>4. CASE IsLink(p)
  <2>1. p \in DOMAIN tree /\ tree[p] = Link  BY <1>4, KindsInTree
  <2>2. CASE u = tree  BY <1>4, <2>1, <2>2 DEF Differ, AtMostOne
  <2>3. ASSUME NEW q \in DOMAIN tree \cup Path, CanWrite(q), ~IsLink(q),
               u = With(tree, q, File(d))
        PROVE  /\ TreeShape(u)
               /\ DOMAIN tree \subseteq DOMAIN u
               /\ \A w \in DOMAIN u : u[w] = Link => w \in DOMAIN tree /\ tree[w] = Link
               /\ AtMostOne(Differ(tree, u)) /\ p \in DOMAIN u /\ u[p] = Link
               /\ \A w \in DOMAIN tree : tree[w].kind = "file" => u[w].kind = "file"
    <3>1. q \in AnyPath  BY PathsAreSequences DEF TreeShape
    <3>2. TreeShape(u) /\ DOMAIN tree \subseteq DOMAIN u  BY <1>2, <2>3, <3>1
    <3>3. q # p  BY <1>4, <2>3
    <3>4. /\ DOMAIN u = DOMAIN tree \cup {q}
          /\ \A w \in DOMAIN u : u[w] = IF w = q THEN File(d) ELSE tree[w]
      BY <2>3 DEF With
    <3>5. AtMostOne(Differ(tree, u))  BY <3>4 DEF AtMostOne, Differ
    <3>6. \A w \in DOMAIN u : u[w] = Link => w \in DOMAIN tree /\ tree[w] = Link
      BY <1>1, <3>4
    <3>7. \A w \in DOMAIN tree : tree[w].kind = "file" => u[w].kind = "file"
      BY <1>1, <3>4
    <3> QED  BY <2>1, <3>2, <3>3, <3>4, <3>5, <3>6, <3>7
  <2>4. \/ u = tree
        \/ \E q \in DOMAIN tree \cup Path :
             CanWrite(q) /\ ~IsLink(q) /\ u = With(tree, q, File(d))
    BY <1>4 DEF Written
  <2>5. CASE u # tree
    <3>1. PICK q \in DOMAIN tree \cup Path :
             CanWrite(q) /\ ~IsLink(q) /\ u = With(tree, q, File(d))
      BY <2>4, <2>5
    <3>2. /\ TreeShape(u)
          /\ DOMAIN tree \subseteq DOMAIN u
          /\ \A w \in DOMAIN u : u[w] = Link => w \in DOMAIN tree /\ tree[w] = Link
          /\ AtMostOne(Differ(tree, u)) /\ p \in DOMAIN u /\ u[p] = Link
          /\ \A w \in DOMAIN tree : tree[w].kind = "file" => u[w].kind = "file"
      BY <2>3, <3>1
    <3> QED  BY <1>4, <3>2
  <2> QED  BY <2>2, <2>5
<1> QED  BY <1>3, <1>4

\* A rename changes nothing but what is below the two paths.
LEMMA RenameChanges ==
    ASSUME TreeShape(tree), NEW p \in AnyPath, NEW q \in AnyPath,
           NEW w \in Differ(tree, Moved(tree, p, q))
    PROVE  /\ w \in AnyPath
           /\ IsPrefix(q, w) \/ (w \in DOMAIN tree /\ IsPrefix(p, w))
<1> DEFINE u == Moved(tree, p, q)
<1>1. /\ \A v \in DOMAIN tree : ~IsPrefix(p, v) /\ ~IsPrefix(q, v) => v \in DOMAIN u /\ u[v] = tree[v]
      /\ \A v \in DOMAIN u :
           \/ \E s \in Below(tree, p) : v = Shifted(p, q, s)
           \/ v \in DOMAIN tree /\ ~IsPrefix(p, v) /\ ~IsPrefix(q, v)
  BY MovedEntries
<1>2. \A v \in DOMAIN tree : v \in AnyPath  BY DEF TreeShape
<1>3. \A s \in Below(tree, p) : Shifted(p, q, s) \in AnyPath /\ IsPrefix(q, Shifted(p, q, s))
  <2>1. ASSUME NEW s \in Below(tree, p)
        PROVE  Shifted(p, q, s) \in AnyPath /\ IsPrefix(q, Shifted(p, q, s))
    <3>1. s \in Seq(AnyName) /\ IsPrefix(p, s)  BY <1>2 DEF Below, AnyPath
    <3> QED  BY <3>1, ShiftedBySteps, ShiftedBack DEF AnyPath
  <2> QED  BY <2>1
<1> HIDE DEF u
<1>4. CASE w \in DOMAIN tree
  <2>1. CASE ~IsPrefix(p, w) /\ ~IsPrefix(q, w)
    <3>1. w \in DOMAIN u /\ u[w] = tree[w]  BY <1>1, <1>4, <2>1
    <3> QED  BY <1>4, <3>1 DEF Differ, u
  <2> QED  BY <1>2, <1>4, <2>1
<1>5. CASE w \notin DOMAIN tree
  <2>1. w \in DOMAIN u  BY <1>5 DEF Differ, u
  <2>2. PICK s \in Below(tree, p) : w = Shifted(p, q, s)  BY <1>1, <1>5, <2>1
  <2> QED  BY <1>3, <2>2
<1> QED  BY <1>4, <1>5

\* A rename leaves alone the files that are neither moved nor replaced.
LEMMA RenameIsSafe ==
    ASSUME TreeShape(tree), NEW p \in AnyPath, NEW q \in AnyPath, p # q, CanRename(p, q),
           NEW f \in DOMAIN tree, tree[f] # Dir \/ f = p, ~IsPrefix(p, f), f # q
    PROVE  f \in DOMAIN Moved(tree, p, q) /\ Moved(tree, p, q)[f] = tree[f]
<1>1. ~IsPrefix(q, f)
  <2>1. ASSUME IsPrefix(q, f)
        PROVE  FALSE
    <3>1. q \in DOMAIN tree /\ tree[q] = Dir  BY <2>1, TreeIsClosed
    <3>2. f \in Below(tree, q)  BY <2>1 DEF Below
    <3>3. Exists(q) /\ IsDir(q)  BY <3>1, KindsInTree
    <3>4. Below(tree, q) = {q}  BY <3>3 DEF CanRename
    <3> QED  BY <3>2, <3>4
  <2> QED  BY <2>1
<1> QED  BY <1>1, MovedEntries

\* A rename that the file system allows keeps the tree closed.
LEMMA RenameShape ==
    ASSUME TreeShape(tree), NEW p \in AnyPath, NEW q \in AnyPath, CanRename(p, q), p # q
    PROVE  TreeShape(Moved(tree, p, q))
<1>1. /\ q # <<>> /\ ~IsPrefix(p, q) /\ Parent(q) \in DOMAIN tree /\ tree[Parent(q)] = Dir
  BY KindsInTree DEF CanRename, IsStrictPrefix
<1> QED  BY <1>1, MovedShape

(***************************************************************************)
(* The invariant: the tree is closed, and what a handler checked when it   *)
(* began still holds when it comes to act.                                 *)
(***************************************************************************)
\* What each step of a handler may rely on, in terms of the tree it began with.
Working ==
    /\ at # "none" => answer = "none" /\ req \in Request
    /\ at = "ensureDir" => req.op \in {"create", "rename"} /\ tree = before
    /\ at = "writeFile" => req.op = "create" /\ tree = WithDirs(before, Parent(req.path))
    /\ at \in {"ensureDir", "writeFile"} /\ req.op = "create" /\ req.path # <<>> =>
         (Exists(req.path) => IsFile(req.path) /\ req.overwrite)
    /\ at = "mkdir" => req.op = "mkdir" /\ tree = before /\ ~Exists(req.path)
    /\ at = "rm" => req.op = "delete" /\ tree = before
    /\ at = "rename" => req.op = "rename" /\ tree = WithDirs(before, Parent(req.to))
    /\ at \in {"writeTmp", "swap"} => req.op = "patch" /\ req.data \in Data /\ IsFile(req.path)
    /\ at = "writeTmp" => tree = before
    /\ at = "swap" =>
         IF LinkBeside(before, req)
         THEN LinkBeside(tree, req) /\ AtMostOne(Differ(before, tree))
         ELSE tree = With(before, PatchTmp(req.path), File(req.data))

\* The policy permitted what the handler at work is to do.
Permitted == at # "none" => \A p \in Named(req) : Permits(under, req.op, p)

Ranges ==
    /\ policy \in Policies /\ under \in Policies
    /\ req \in Request \cup {None}
    /\ at \in {"none", "ensureDir", "writeFile", "mkdir", "rm", "rename", "writeTmp", "swap"}
    /\ answer \in {"none", "ok", "error"}
    /\ ops \in 0..MaxOps
    /\ faults \in 0..MaxFaults

TreeInv ==
    /\ TreeShape(tree) /\ TreeShape(before)
    /\ Ranges
    /\ LinksNotFollowed
    /\ Working
    /\ Permitted

\* The fields of a request.
LEMMA RequestFields ==
    ASSUME NEW r \in Request
    PROVE  /\ r.path \in Path
           /\ r.op = "rename" => r.to \in Path
           /\ r.op \in {"create", "mkdir"} => r.recursive \in BOOLEAN
           /\ r.op = "patch" => r.data \in Data \cup {NoMatch}
BY DEF Request

\* The .patch.tmp of a file is beside it, and neither is below the other.
LEMMA PatchTmpBeside ==
    ASSUME NEW p \in Path, p # <<>>
    PROVE  /\ PatchTmp(p) \in AnyPath /\ PatchTmp(p) # <<>>
           /\ Parent(PatchTmp(p)) = Parent(p)
           /\ ~IsPrefix(PatchTmp(p), p) /\ ~IsPrefix(p, PatchTmp(p)) /\ PatchTmp(p) # p
<1> DEFINE h == Parent(p)
           x == TmpName(Last(p))
           a == Append(h, x)
<1>1. p \in Seq(Names) /\ p \in Seq(AnyName)  BY PathsAreSequences DEF AnyPath
<1>2. Len(p) \in Nat /\ Len(p) > 0 /\ Len(p) \in 1..Len(p)
  <2>1. Len(p) \in Nat \ {0}  BY <1>1, EmptySeq
  <2> QED  BY <2>1
<1>3. Last(p) \in Names /\ p[Len(p)] = Last(p)  BY <1>1, <1>2, ElementOfSeq DEF Last
<1>4. x \in AnyName /\ x # Last(p)  BY <1>3, TreeAssumption DEF AnyName
<1>5. h \in Seq(AnyName) /\ Len(h) = Len(p) - 1 /\ \A i \in 1..(Len(p) - 1) : h[i] = p[i]
  BY <1>1, ParentIsPrefix
<1>6. PatchTmp(p) = a  BY DEF PatchTmp, Parent
<1> HIDE DEF h, x
<1>7. /\ a \in Seq(AnyName) /\ Len(a) = Len(h) + 1
      /\ \A i \in 1..Len(h) : a[i] = h[i]
      /\ a[Len(h) + 1] = x
  BY <1>4, <1>5, AppendProperties
<1> HIDE DEF a
<1>8. Len(a) = Len(p) /\ a[Len(p)] = x  BY <1>2, <1>5, <1>7
<1>9. a[Len(p)] # p[Len(p)]  BY <1>3, <1>4, <1>8
<1>10. ~IsPrefix(a, p) /\ ~IsPrefix(p, a)  BY <1>1, <1>2, <1>7, <1>8, <1>9, PrefixBySteps
<1>11. a # <<>>
  <2>1. Len(a) # 0  BY <1>2, <1>8
  <2> QED  BY <2>1, EmptySeq
<1>12. Parent(a) = h
  <2>1. /\ Parent(a) \in Seq(AnyName) /\ Len(Parent(a)) = Len(a) - 1
        /\ \A i \in 1..(Len(a) - 1) : Parent(a)[i] = a[i]
    BY <1>7, <1>11, ParentIsPrefix
  <2>2. Len(Parent(a)) = Len(h)  BY <1>5, <1>8, <2>1
  <2>3. \A i \in 1..Len(h) : Parent(a)[i] = h[i]  BY <1>5, <1>7, <1>8, <2>1
  <2> QED  BY <1>5, <2>1, <2>2, <2>3, SeqEqual
<1> QED  BY <1>6, <1>7, <1>9, <1>10, <1>11, <1>12 DEF h, AnyPath

\* Where the directory exists there is nothing to make.
LEMMA WithDirsNothing ==
    ASSUME NEW t, TreeShape(t), NEW p \in AnyPath, p \in DOMAIN t
    PROVE  WithDirs(t, p) = t
<1>1. Upto(p) \subseteq DOMAIN t
  <2>1. \A q \in Upto(p) : q \in AnyPath /\ IsPrefix(q, p)  BY UptoArePrefixes DEF AnyPath
  <2> QED  BY <2>1, TreeIsClosed
<1>2. DOMAIN t \cup Upto(p) = DOMAIN t  BY <1>1
<1>3. WithDirs(t, p) = [q \in DOMAIN t |-> t[q]]  BY <1>2 DEF WithDirs
<1> QED  BY <1>3 DEF TreeShape

\* What resolution lets through has no link in it.
LEMMA SafeParentHasNoLink ==
    ASSUME NEW p \in AnyPath, SafeParentPath(p), ~IsLink(p)
    PROVE  \A q \in Upto(p) : ~IsLink(q)
BY UptoParent DEF SafeParentPath, NoSymlink, IsLink, AnyPath

LEMMA SafeHasNoLink ==
    ASSUME NEW p, SafePath(p)
    PROVE  \A q \in Upto(p) : ~IsLink(q)
BY DEF SafePath, NoSymlink

\* The invariant holds at first,
LEMMA TreeInvInit == Init => TreeInv
<1> SUFFICES ASSUME Init PROVE TreeInv
  OBVIOUS
<1>1. TreeShape(tree)  BY FirstTrees, TreeAssumption DEF Init
<1>2. TreeShape(before)  BY <1>1 DEF Init
<1>3. Ranges  BY TreeAssumption DEF Init, Ranges
<1>4. LinksNotFollowed  BY DEF Init, LinksNotFollowed
<1>5. Working /\ Permitted  BY DEF Init, Working, Permitted
<1> QED  BY <1>1, <1>2, <1>3, <1>4, <1>5 DEF TreeInv

\* What a handler has checked before it begins to act.
LEMMA Checked ==
    ASSUME TreeInv, NEW r \in Request, Begin(r)
    PROVE  \/ at' = "none" /\ answer' \in {"ok", "error"}
           \/ /\ answer' = "none" /\ \A p \in Named(r) : Permits(policy, r.op, p)
              /\ \/ /\ at' = "ensureDir" /\ r.op = "rename"
                    /\ SafePath(r.path) /\ SafeParentPath(r.to) /\ ~IsLink(r.to)
                 \/ /\ at' \in {"ensureDir", "writeFile"} /\ r.op = "create"
                    /\ at' = "writeFile" => IsDir(Parent(r.path))
                    /\ SafeParentPath(r.path) /\ MayCreate(r)
                 \/ at' = "mkdir" /\ r.op = "mkdir" /\ SafeParentPath(r.path) /\ ~Exists(r.path)
                 \/ at' = "rm" /\ r.op = "delete" /\ SafePath(r.path)
                 \/ /\ at' = "writeTmp" /\ r.op = "patch" /\ SafePath(r.path)
                    /\ IsFile(r.path) /\ r.data # NoMatch
<1>0. r.op \in {"list", "stat", "get", "delete", "create", "mkdir", "rename", "patch"}
  BY DEF Request
<1>1. CASE r.op \in {"list", "stat", "get"}
  <2>1. Read(r) \/ Answer("error")  BY <1>1 DEF Begin
  <2> QED  BY <2>1 DEF Read, Answer
<1>2. CASE r.op = "create"
  <2>1. Create(r) \/ Answer("error")  BY <1>2 DEF Begin
  <2> QED  BY <1>2, <2>1 DEF Create, Answer, Goto, WriteParentPath, ParentReady, Named
<1>3. CASE r.op = "mkdir"
  <2>1. Mkdir(r) \/ Answer("error")  BY <1>3 DEF Begin
  <2> QED  BY <1>3, <2>1 DEF Mkdir, Answer, Goto, WriteParentPath, Named
<1>4. CASE r.op = "delete"
  <2>1. Delete(r) \/ Answer("error")  BY <1>4 DEF Begin
  <2> QED  BY <1>4, <2>1 DEF Delete, Answer, Goto, WritePath, Named
<1>5. CASE r.op = "rename"
  <2>1. Rename(r) \/ Answer("error")  BY <1>5 DEF Begin
  <2> QED  BY <1>5, <2>1 DEF Rename, Answer, Goto, WritePath, WriteParentPath, Named
<1>6. CASE r.op = "patch"
  <2>1. Patch(r) \/ Answer("error")  BY <1>6 DEF Begin
  <2> QED  BY <1>6, <2>1 DEF Patch, Answer, Goto, WritePath, Named
<1> QED  BY <1>0, <1>1, <1>2, <1>3, <1>4, <1>5, <1>6

\* A handler that begins has checked what its later steps need.
LEMMA BeginKeeps ==
    ASSUME TreeInv, NEW r \in Request, Begin(r)
    PROVE  TreeInv'
<1>0. TreeShape(tree) /\ TreeShape(before) /\ Ranges /\ LinksNotFollowed /\ Working
  BY DEF TreeInv
<1>1. /\ at = "none" /\ ops < MaxOps /\ ops' = ops + 1 /\ req' = r /\ before' = tree
      /\ tree' = tree /\ policy' = policy /\ faults' = faults /\ under' = policy
  BY DEF Begin, OneHandler
<1>2. TreeShape(tree)'  BY <1>0, <1>1
<1>3. TreeShape(before)'  BY <1>0, <1>1
<1>4. Ranges'
  <2>1. ops' \in 0..MaxOps  BY <1>0, <1>1, TreeAssumption DEF Ranges
  <2>2. /\ at' \in {"none", "ensureDir", "writeFile", "mkdir", "rm", "rename", "writeTmp", "swap"}
        /\ answer' \in {"none", "ok", "error"}
    BY Checked
  <2> QED  BY <1>0, <1>1, <2>1, <2>2 DEF Ranges
<1>5. r.path \in Path /\ (r.op = "rename" => r.to \in Path)  BY RequestFields
<1>6. \A p \in Path : p \in AnyPath  BY PathsAreSequences
<1>7. \A p : (IsLink(p) <=> IsLink(p)') /\ (IsFile(p) <=> IsFile(p)') /\ (Exists(p) <=> Exists(p)')
  BY <1>1 DEF IsLink, IsFile, Exists
<1>8. LinksNotFollowed'
  <2>1. ASSUME at' # "none"
        PROVE  \A q \in Upto(r.path) : ~IsLink(q)
    <3>1. CASE SafePath(r.path)  BY <3>1, SafeHasNoLink
    <3>2. CASE SafeParentPath(r.path) /\ ~IsLink(r.path)
      BY <1>5, <1>6, <3>2, SafeParentHasNoLink
    <3> QED  BY <2>1, <3>1, <3>2, Checked DEF MayCreate, IsLink
  <2>2. ASSUME at' # "none", r.op = "rename"
        PROVE  \A q \in Upto(r.to) : ~IsLink(q)
    <3>1. SafeParentPath(r.to) /\ ~IsLink(r.to)  BY <2>2, Checked
    <3> QED  BY <1>5, <1>6, <2>2, <3>1, SafeParentHasNoLink
  <2> QED  BY <1>1, <1>7, <2>1, <2>2 DEF LinksNotFollowed, Named
<1>9. Working'
  <2>1. CASE at' = "none"  BY <2>1 DEF Working
  <2>2. CASE at' = "ensureDir" /\ r.op = "rename"
    BY <1>1, <2>2, Checked DEF Working
  <2>3. CASE at' \in {"ensureDir", "writeFile"} /\ r.op = "create"
    <3>1. answer' = "none" /\ MayCreate(r) /\ (at' = "writeFile" => IsDir(Parent(r.path)))
      BY <2>3, Checked
    <3>2. Exists(r.path) => IsFile(r.path) /\ r.overwrite
      BY <1>0, <3>1, KindsInTree DEF MayCreate
    <3>3. at' = "writeFile" => tree' = WithDirs(before', Parent(r.path))
      <4>1. Parent(r.path) \in AnyPath  BY <1>5, <1>6, UptoParent DEF AnyPath
      <4> QED  BY <1>0, <1>1, <3>1, <4>1, WithDirsNothing DEF IsDir, Exists
    <3> QED  BY <1>1, <1>7, <2>3, <3>1, <3>2, <3>3 DEF Working
  <2>4. CASE at' \in {"mkdir", "rm"}
    BY <1>1, <1>7, <2>4, Checked DEF Working
  <2>5. CASE at' = "writeTmp"
    <3>1. r.op = "patch" /\ IsFile(r.path) /\ r.data \in Data /\ answer' = "none"
      BY <2>5, Checked, RequestFields
    <3> QED  BY <1>1, <1>7, <2>5, <3>1 DEF Working
  <2> QED  BY <2>1, <2>2, <2>3, <2>4, <2>5, Checked
<1>10. Permitted'
  <2>1. ASSUME at' # "none"
        PROVE  \A p \in Named(r) : Permits(policy, r.op, p)
    BY <2>1, Checked
  <2> QED  BY <1>1, <2>1 DEF Permitted
<1> QED  BY <1>2, <1>3, <1>4, <1>8, <1>9, <1>10 DEF TreeInv

\* What holds of the files a handler with this request works on.
LEMMA AtWork ==
    ASSUME TreeInv, at # "none"
    PROVE  /\ req \in Request /\ req.path \in Path /\ req.path \in AnyPath
           /\ Parent(req.path) \in AnyPath
           /\ req.op = "rename" => req.to \in AnyPath /\ Parent(req.to) \in AnyPath
<1>1. req \in Request  BY DEF TreeInv, Working
<1>2. req.path \in Path /\ (req.op = "rename" => req.to \in Path)  BY <1>1, RequestFields
<1>3. req.path \in AnyPath /\ (req.op = "rename" => req.to \in AnyPath)
  BY <1>2, PathsAreSequences
<1>4. \A p \in AnyPath : Parent(p) \in AnyPath  BY UptoParent DEF AnyPath
<1> QED  BY <1>1, <1>2, <1>3, <1>4

\* No handler at work: nothing to show of one.
LEMMA Stopped ==
    ASSUME at' = "none"
    PROVE  LinksNotFollowed' /\ Working' /\ Permitted'
BY DEF LinksNotFollowed, Working, Permitted

\* A step that makes no link keeps the paths of its request free of them.
LEMMA NoNewLinks ==
    ASSUME LinksNotFollowed, at # "none", req' = req, \A q : IsLink(q)' => IsLink(q)
    PROVE  LinksNotFollowed'
BY DEF LinksNotFollowed

\* The other variables stay in their ranges.
LEMMA RangesKept ==
    ASSUME TreeInv, NEW label, Acts(label),
           at' \in {"none", "writeFile", "rename", "swap"}, answer' \in {"none", "ok", "error"}
    PROVE  Ranges'
BY DEF TreeInv, Ranges, Acts

\* What a patch at work knows of its file and of the .tmp file.
LEMMA PatchedFile ==
    ASSUME TreeInv, at \in {"writeTmp", "swap"}
    PROVE  /\ req.op = "patch" /\ req.data \in Data /\ File(req.data) \in Entry
           /\ req.path \in AnyPath /\ req.path # <<>>
           /\ req.path \in DOMAIN tree /\ tree[req.path].kind = "file"
           /\ PatchFile \in AnyPath /\ PatchFile # <<>>
           /\ Parent(PatchFile) = Parent(req.path)
           /\ ~IsPrefix(PatchFile, req.path) /\ ~IsPrefix(req.path, PatchFile)
           /\ PatchFile # req.path
           /\ Parent(req.path) \in DOMAIN tree /\ tree[Parent(req.path)] = Dir
           /\ LinkBeside(tree, req) <=> IsLink(PatchFile)
           /\ PatchFile = PatchTmp(req.path)
<1>1. req.op = "patch" /\ req.data \in Data /\ IsFile(req.path) /\ TreeShape(tree)
  BY DEF TreeInv, Working
<1>2. req.path \in Path /\ req.path \in AnyPath  BY AtWork
<1>3. req.path \in DOMAIN tree /\ tree[req.path].kind = "file"  BY <1>1 DEF IsFile, Exists
<1>4. req.path # <<>>
  <2>1. tree[req.path] # Dir  BY <1>3 DEF Dir
  <2> QED  BY <1>1, <1>3, <2>1 DEF TreeShape
<1>5. /\ PatchFile \in AnyPath /\ PatchFile # <<>> /\ Parent(PatchFile) = Parent(req.path)
      /\ ~IsPrefix(PatchFile, req.path) /\ ~IsPrefix(req.path, PatchFile)
      /\ PatchFile # req.path
  BY <1>2, <1>4, PatchTmpBeside DEF PatchFile
<1>7. Parent(req.path) \in DOMAIN tree /\ tree[Parent(req.path)] = Dir
  <2>1. Parent(req.path) \in AnyPath /\ IsPrefix(Parent(req.path), req.path)
        /\ Parent(req.path) # req.path
    BY <1>2, <1>4, ParentIsPrefix DEF AnyPath
  <2> QED  BY <1>1, <1>3, <2>1, TreeIsClosed
<1>8. File(req.data) \in Entry  BY <1>1 DEF Entry
<1>9. LinkBeside(tree, req) <=> IsLink(PatchFile)
  BY <1>1, <1>4, KindsInTree DEF LinkBeside, PatchFile
<1>10. PatchFile = PatchTmp(req.path)  BY DEF PatchFile
<1> QED  BY <1>1, <1>2, <1>3, <1>4, <1>5, <1>7, <1>8, <1>9, <1>10

(***************************************************************************)
(* What a step of the handler at work can make of the tree.                *)
(***************************************************************************)
Effect(u) ==
    \/ u = tree
    \/ /\ req.op \in {"create", "mkdir", "rename"}
       /\ \E q \in Upto(Target) :
            (\A v \in Upto(q) : v \in DOMAIN tree => tree[v] = Dir) /\ u = WithDirs(tree, q)
    \/ /\ req.op = "create" /\ CanWrite(req.path) /\ (Exists(req.path) => req.overwrite)
       /\ u = With(tree, req.path, File(Empty))
    \/ /\ req.op = "delete"
       /\ \E R \in SUBSET Below(tree, req.path) :
            (\A q \in R : Below(tree, q) \subseteq R) /\ u = Without(tree, R)
    \/ /\ req.op = "rename" /\ CanRename(req.path, req.to) /\ req.path # req.to
       /\ u = Moved(tree, req.path, req.to)
    \/ /\ at = "writeTmp" /\ CanWrite(PatchFile)
       /\ \E d \in Data \cup {Torn} : u \in Written(PatchFile, d)
    \/ at = "swap" /\ CanRename(PatchFile, req.path) /\ u = Moved(tree, PatchFile, req.path)

\* The segments of the path that is created.
LEMMA TargetPath ==
    ASSUME TreeInv, at # "none"
    PROVE  /\ Target \in AnyPath /\ Target \in Named(req) /\ req.path \in Named(req)
           /\ \A q \in Upto(Target) : q \in AnyPath /\ Upto(q) \subseteq Upto(Target)
           /\ Parent(Target) \in Upto(Target) /\ Target \in Upto(Target)
           /\ \A q \in Upto(Target) : q = Target \/ q \in Upto(Parent(Target))
<1>1. Target \in AnyPath /\ Target \in Seq(AnyName)  BY AtWork DEF Target, AnyPath
<1>2. Target \in Named(req) /\ req.path \in Named(req)  BY DEF Target, Named
<1>3. ASSUME NEW q \in Upto(Target)
      PROVE  q \in AnyPath /\ Upto(q) \subseteq Upto(Target)
  <2>1. q \in Seq(AnyName) /\ IsPrefix(q, Target)  BY <1>1, UptoArePrefixes
  <2>2. ASSUME NEW v \in Upto(q)
        PROVE  v \in Upto(Target)
    <3>1. v \in Seq(AnyName) /\ IsPrefix(v, q)  BY <2>1, UptoArePrefixes
    <3>2. IsPrefix(v, Target)  BY <1>1, <2>1, <3>1, PrefixOrder
    <3> QED  BY <1>1, <3>1, <3>2, UptoArePrefixes
  <2> QED  BY <2>1, <2>2 DEF AnyPath
<1> QED  BY <1>1, <1>2, <1>3, UptoParent

\* The tree stays closed.
LEMMA EffectShape ==
    ASSUME TreeInv, at # "none", NEW u, Effect(u)
    PROVE  TreeShape(u)
<1>0. TreeShape(tree)  BY DEF TreeInv
<1>1. CASE u = tree  BY <1>0, <1>1
<1>2. ASSUME NEW q \in Upto(Target), \A v \in Upto(q) : v \in DOMAIN tree => tree[v] = Dir,
             u = WithDirs(tree, q)
      PROVE  TreeShape(u)
  <2>1. q \in AnyPath  BY TargetPath
  <2> QED  BY <1>0, <1>2, <2>1, WithDirsShape
<1>3. CASE CanWrite(req.path) /\ u = With(tree, req.path, File(Empty))
  <2>1. File(Empty) \in Entry  BY TreeAssumption DEF Entry
  <2>2. /\ Parent(req.path) \in DOMAIN tree /\ tree[Parent(req.path)] = Dir /\ req.path # <<>>
        /\ req.path \in DOMAIN tree => tree[req.path] # Dir
    BY <1>0, <1>3, KindsInTree DEF CanWrite
  <2>3. req.path \in AnyPath  BY AtWork
  <2> QED  BY <1>0, <1>3, <2>1, <2>2, <2>3, WithShape
<1>4. ASSUME NEW R \in SUBSET Below(tree, req.path), \A q \in R : Below(tree, q) \subseteq R,
             u = Without(tree, R)
      PROVE  TreeShape(u)
  BY <1>0, <1>4, WithoutShape
<1>5. CASE /\ req.op = "rename" /\ CanRename(req.path, req.to) /\ req.path # req.to
           /\ u = Moved(tree, req.path, req.to)
  BY <1>0, <1>5, AtWork, RenameShape
<1>6. ASSUME at = "writeTmp", CanWrite(PatchFile), NEW d \in Data \cup {Torn},
             u \in Written(PatchFile, d)
      PROVE  TreeShape(u)
  <2>1. PatchFile \in AnyPath  BY <1>6, PatchedFile
  <2> QED  BY <1>0, <1>6, <2>1, WrittenTree
<1>7. CASE at = "swap" /\ CanRename(PatchFile, req.path) /\ u = Moved(tree, PatchFile, req.path)
  <2>1. PatchFile \in AnyPath /\ req.path \in AnyPath /\ PatchFile # req.path  BY <1>7, PatchedFile
  <2> QED  BY <1>0, <1>7, <2>1, RenameShape
<1> QED  BY <1>1, <1>2, <1>3, <1>4, <1>5, <1>6, <1>7 DEF Effect

\* Where a handler writes there is no link, but for the .tmp file of a patch.
LEMMA NotALink ==
    ASSUME TreeInv, at # "none"
    PROVE  ~IsLink(req.path)
<1>1. req.path \in Upto(req.path)  BY AtWork, UptoParent DEF AnyPath
<1> QED  BY <1>1 DEF TreeInv, LinksNotFollowed, Named

\* What fails, or does not get to its end, by the call.
LEMMA HalfwayCases ==
    ASSUME TreeInv, at # "none", NEW u \in Halfway
    PROVE  \/ u = tree
           \/ /\ at \in {"ensureDir", "mkdir"}
              /\ \E q \in Upto(Target) : CanMakeDirs(q) /\ u = WithDirs(tree, q)
           \/ /\ at = "rm"
              /\ \E R \in SUBSET Below(tree, req.path) :
                   (\A q \in R : Below(tree, q) \subseteq R) /\ u = Without(tree, R)
           \/ at = "writeFile" /\ CanWrite(req.path) /\ u = With(tree, req.path, File(Empty))
           \/ at = "writeTmp" /\ CanWrite(PatchFile) /\ u \in Written(PatchFile, Torn)
<1>1. CASE at \in {"ensureDir", "mkdir"}
  <2> DEFINE made == IF at = "mkdir" THEN req.path ELSE Parent(Target)
  <2>1. \/ u = tree
        \/ \E q \in Upto(made) : CanMakeDirs(q) /\ u = WithDirs(tree, q)
    BY <1>1 DEF Halfway
  <2>2. Upto(made) \subseteq Upto(Target)
    <3>1. at = "mkdir" => req.path = Target
      BY DEF TreeInv, Working, Target
    <3> QED  BY <3>1, TargetPath
  <2> QED  BY <1>1, <2>1, <2>2
<1>2. CASE at = "rm"
  <2>1. \/ u = tree
        \/ u \in {Without(tree, S) : S \in {T \in SUBSET (Below(tree, req.path) \ {req.path}) :
                                              \A q \in T : Below(tree, q) \subseteq T}}
    BY <1>2 DEF Halfway
  <2>2. CASE u = tree  BY <2>2
  <2>3. CASE u # tree
    <3>1. PICK S \in SUBSET (Below(tree, req.path) \ {req.path}) :
            (\A q \in S : Below(tree, q) \subseteq S) /\ u = Without(tree, S)
      BY <2>1, <2>3
    <3> QED  BY <1>2, <3>1
  <2> QED  BY <2>2, <2>3
<1>3. CASE at = "writeFile"
  <2>1. u = tree \/ (CanWrite(req.path) /\ u \in Written(req.path, Empty))
    BY <1>3 DEF Halfway
  <2> QED  BY <1>3, <2>1, NotALink DEF Written
<1>4. CASE at = "writeTmp"
  BY <1>4 DEF Halfway
<1>5. CASE at \notin {"ensureDir", "mkdir", "rm", "writeFile", "writeTmp"}
  BY <1>5 DEF Halfway
<1> QED  BY <1>1, <1>2, <1>3, <1>4, <1>5

LEMMA HalfwayEffect ==
    ASSUME TreeInv, at # "none", NEW u \in Halfway
    PROVE  Effect(u)
<1>0. TreeShape(tree) /\ Working /\ req.op \in {"list", "stat", "get", "delete", "create", "mkdir", "rename", "patch"}
  BY AtWork DEF TreeInv, Request
<1>1. CASE u = tree  BY <1>1 DEF Effect
<1>2. ASSUME at \in {"ensureDir", "mkdir"}, NEW q \in Upto(Target), CanMakeDirs(q),
             u = WithDirs(tree, q)
      PROVE  Effect(u)
  <2>1. req.op \in {"create", "mkdir", "rename"}  BY <1>0, <1>2 DEF Working
  <2>2. \A v \in Upto(q) : v \in DOMAIN tree => tree[v] = Dir
    BY <1>0, <1>2, KindsInTree DEF CanMakeDirs, Exists
  <2> QED  BY <1>2, <2>1, <2>2 DEF Effect
<1>3. ASSUME at = "rm", NEW R \in SUBSET Below(tree, req.path),
             \A q \in R : Below(tree, q) \subseteq R, u = Without(tree, R)
      PROVE  Effect(u)
  <2>1. req.op = "delete"  BY <1>0, <1>3 DEF Working
  <2> QED  BY <1>3, <2>1 DEF Effect
<1>4. CASE at = "writeFile" /\ CanWrite(req.path) /\ u = With(tree, req.path, File(Empty))
  <2>1. req.op = "create" /\ req.path # <<>>  BY <1>0, <1>4 DEF Working, CanWrite
  <2>2. Exists(req.path) => req.overwrite  BY <1>0, <1>4, <2>1 DEF Working
  <2> QED  BY <1>4, <2>1, <2>2 DEF Effect
<1>5. CASE at = "writeTmp" /\ CanWrite(PatchFile) /\ u \in Written(PatchFile, Torn)
  BY <1>5 DEF Effect
<1> QED  BY <1>1, <1>2, <1>3, <1>4, <1>5, HalfwayCases

\* Every step has such an effect, of the handler that is at work before it.
LEMMA StepEffect ==
    ASSUME TreeInv, [Next]_vars, tree' # tree
    PROVE  at # "none" /\ Effect(tree')
<1>0. TreeShape(tree) /\ Working
  BY DEF TreeInv
<1>1. ASSUME NEW r \in Request, Begin(r) PROVE FALSE  BY <1>1 DEF Begin
<1>2. CASE EnsureDir
  <2>1. /\ at = "ensureDir" /\ req.op \in {"create", "rename"} /\ CanMakeDirs(Parent(Target))
        /\ tree' = WithDirs(tree, Parent(Target))
    BY <1>0, <1>2 DEF EnsureDir, Acts, Working
  <2>2. \A v \in Upto(Parent(Target)) : v \in DOMAIN tree => tree[v] = Dir
    BY <1>0, <2>1, KindsInTree DEF CanMakeDirs, Exists
  <2>3. Parent(Target) \in Upto(Target)  BY <2>1, TargetPath
  <2> QED  BY <2>1, <2>2, <2>3 DEF Effect
<1>3. CASE WriteFile
  <2>1. at = "writeFile" /\ CanWrite(req.path) /\ tree' \in Written(req.path, Empty)
    BY <1>3 DEF WriteFile, Acts
  <2>2. tree' = With(tree, req.path, File(Empty))  BY <2>1, NotALink DEF Written
  <2>3. req.op = "create" /\ req.path # <<>>  BY <1>0, <2>1 DEF Working, CanWrite
  <2>4. Exists(req.path) => req.overwrite  BY <1>0, <2>1, <2>3 DEF Working
  <2> QED  BY <2>1, <2>2, <2>3, <2>4 DEF Effect
<1>4. CASE MakeDir
  <2>1. /\ at = "mkdir" /\ req.op = "mkdir" /\ ~Exists(req.path) /\ Target = req.path
        /\ CanMakeDirs(Parent(Target)) /\ tree' = WithDirs(tree, Target)
    BY <1>0, <1>4 DEF MakeDir, Acts, Working, Target
  <2>2. \A v \in Upto(Target) : v = Target \/ v \in Upto(Parent(Target))
    BY <2>1, TargetPath
  <2>3. \A v \in Upto(Target) : v \in DOMAIN tree => tree[v] = Dir
    BY <1>0, <2>1, <2>2, KindsInTree DEF CanMakeDirs, Exists
  <2>4. Target \in Upto(Target)  BY <2>1, TargetPath
  <2> QED  BY <2>1, <2>3, <2>4 DEF Effect
<1>5. CASE Rm
  <2>1. at = "rm" /\ req.op = "delete" /\ tree' = Without(tree, Below(tree, req.path))
    BY <1>0, <1>5 DEF Rm, Acts, Removed, Working
  <2>2. req.path \in AnyPath  BY <2>1, AtWork
  <2>3. \A q \in Below(tree, req.path) : Below(tree, q) \subseteq Below(tree, req.path)
    BY <1>0, <2>2, BelowIsDownward
  <2> QED  BY <2>1, <2>3 DEF Effect
<1>6. CASE RenameTo
  BY <1>0, <1>6 DEF RenameTo, Acts, Working, Effect
<1>7. CASE WriteTmp
  <2>1. at = "writeTmp" /\ CanWrite(PatchFile) /\ tree' \in Written(PatchFile, req.data)
    BY <1>7 DEF WriteTmp, Acts
  <2>2. req.data \in Data  BY <2>1, PatchedFile
  <2> QED  BY <2>1, <2>2 DEF Effect
<1>8. CASE Swap
  <2>1. at = "swap" /\ CanRename(PatchFile, req.path)
        /\ (PatchFile # req.path => tree' = Moved(tree, PatchFile, req.path))
    BY <1>8 DEF Swap, Acts
  <2> QED  BY <2>1, PatchedFile DEF Effect
<1>9. CASE Throws
  BY <1>9, HalfwayEffect DEF Throws
<1>10. CASE Crash
  BY <1>10, HalfwayEffect DEF Crash
<1>11. CASE SetRoot  BY <1>11 DEF SetRoot
<1>12. CASE UNCHANGED vars  BY <1>12 DEF vars
<1> QED
  BY <1>1, <1>2, <1>3, <1>4, <1>5, <1>6, <1>7, <1>8, <1>9, <1>10, <1>11, <1>12 DEF Next

(***************************************************************************)
(* The steps of the handlers, one by one.                                  *)
(***************************************************************************)
LEMMA EnsureDirKeeps == ASSUME TreeInv, EnsureDir PROVE TreeInv'
<1>0. TreeShape(tree) /\ TreeShape(before) /\ LinksNotFollowed /\ Working /\ Permitted
  BY DEF TreeInv
<1>1. /\ at = "ensureDir" /\ Acts("ensureDir") /\ req' = req /\ before' = before /\ under' = under
      /\ req.op \in {"create", "rename"} /\ tree = before
      /\ CanMakeDirs(Parent(Target)) /\ tree' = WithDirs(tree, Parent(Target))
      /\ at' = (IF req.op = "rename" THEN "rename" ELSE "writeFile") /\ answer' = "none"
  BY <1>0 DEF EnsureDir, Acts, Working, Goto
<1> DEFINE h == Parent(Target)
<1>2. h \in AnyPath  BY <1>1, AtWork DEF Target
<1>3. \A q \in Upto(h) : q \in DOMAIN tree => tree[q] = Dir
  BY <1>0, <1>1, KindsInTree DEF CanMakeDirs, Exists
<1>4. TreeShape(WithDirs(tree, h))  BY <1>0, <1>2, <1>3, WithDirsShape
<1>5. TreeShape(tree')  BY <1>1, <1>4
<1>6. Ranges'  BY <1>1, RangesKept
<1>7. /\ DOMAIN tree' = DOMAIN tree \cup Upto(h)
      /\ \A q \in DOMAIN tree' : tree'[q] = IF q \in DOMAIN tree THEN tree[q] ELSE Dir
  BY <1>1 DEF WithDirs
<1>8. LinksNotFollowed'
  <2>1. \A q : IsLink(q)' => IsLink(q)  BY <1>7 DEF IsLink, Exists, Dir
  <2> QED  BY <1>0, <1>1, <2>1, NoNewLinks
<1>9. Working'
  <2>1. CASE req.op = "rename"
    <3>1. at' = "rename" /\ tree' = WithDirs(before', Parent(req'.to))
      BY <1>1, <2>1 DEF Target
    <3> QED  BY <1>0, <1>1, <2>1, <3>1 DEF Working
  <2>2. CASE req.op = "create"
    <3>1. at' = "writeFile" /\ tree' = WithDirs(before', Parent(req'.path))
      BY <1>1, <2>2 DEF Target
    <3>2. ASSUME req.path # <<>>, Exists(req.path)'
          PROVE  IsFile(req.path)' /\ req.overwrite
      <4>1. h = Parent(req.path)  BY <2>2 DEF Target
      <4>2. req.path \notin Upto(h)  BY <1>1, <3>2, <4>1, AtWork, UptoParent DEF AnyPath
      <4>3. req.path \in DOMAIN tree /\ tree'[req.path] = tree[req.path]
        BY <1>1, <1>7, <3>2, <4>2 DEF Exists
      <4>4. IsFile(req.path) /\ req.overwrite
        BY <1>0, <1>1, <2>2, <3>2, <4>3 DEF Working, Exists
      <4> QED  BY <1>1, <3>2, <4>3, <4>4 DEF IsFile
    <3> QED  BY <1>0, <1>1, <2>2, <3>1, <3>2 DEF Working
  <2> QED  BY <1>1, <2>1, <2>2
<1>10. TreeShape(before)'  BY <1>0, <1>1
<1>11. Permitted'  BY <1>0, <1>1 DEF Permitted
<1> QED  BY <1>5, <1>6, <1>8, <1>9, <1>10, <1>11 DEF TreeInv

\* After the .tmp file is written it is what the patch leaves, or a link still.
LEMMA WriteTmpKeeps == ASSUME TreeInv, WriteTmp PROVE TreeInv'
<1>0. /\ TreeShape(tree) /\ TreeShape(before) /\ LinksNotFollowed /\ Working /\ Permitted
      /\ at = "writeTmp" /\ Acts("writeTmp") /\ tree = before /\ req' = req
      /\ before' = before /\ under' = under
      /\ CanWrite(PatchFile) /\ at' = "swap" /\ answer' = "none"
  BY DEF TreeInv, WriteTmp, Acts, Working, Goto
<1>1. PICK u \in Written(PatchFile, req.data) : tree' = u  BY DEF WriteTmp
<1>2. req.op = "patch" /\ req.data \in Data /\ PatchFile \in AnyPath /\ req.path # <<>>
      /\ req.path \in DOMAIN tree /\ tree[req.path].kind = "file"
      /\ (LinkBeside(tree, req) <=> IsLink(PatchFile)) /\ PatchFile = PatchTmp(req.path)
  BY <1>0, PatchedFile
<1>3. /\ TreeShape(u)
      /\ DOMAIN tree \subseteq DOMAIN u
      /\ \A q \in DOMAIN u : u[q] = Link => q \in DOMAIN tree /\ tree[q] = Link
      /\ ~IsLink(PatchFile) => u = With(tree, PatchFile, File(req.data))
      /\ IsLink(PatchFile) => /\ AtMostOne(Differ(tree, u))
                              /\ PatchFile \in DOMAIN u /\ u[PatchFile] = Link
      /\ \A q \in DOMAIN tree : tree[q].kind = "file" => u[q].kind = "file"
  BY <1>0, <1>2, WrittenTree
<1>4. TreeShape(tree)' /\ TreeShape(before)'  BY <1>0, <1>1, <1>3
<1>5. Ranges'  BY <1>0, RangesKept
<1>6. LinksNotFollowed'
  <2>1. ASSUME NEW q, IsLink(q)'
        PROVE  IsLink(q)
    <3>1. q \in DOMAIN u /\ u[q].kind = "link"  BY <1>1, <2>1 DEF IsLink, Exists
    <3>2. u[q] = Link  BY <1>3, <3>1, EntryKinds DEF TreeShape
    <3> QED  BY <1>0, <1>3, <3>1, <3>2, KindsInTree
  <2> QED  BY <1>0, <2>1, NoNewLinks
<1>7. Working'
  <2>1. IsFile(req.path)'  BY <1>0, <1>1, <1>2, <1>3 DEF IsFile, Exists
  <2>2. CASE LinkBeside(before, req)
    <3>1. IsLink(PatchFile)  BY <1>0, <1>2, <2>2
    <3>2. LinkBeside(u, req) /\ AtMostOne(Differ(before, u))
      BY <1>0, <1>2, <1>3, <3>1 DEF LinkBeside
    <3>3. LinkBeside(tree', req') /\ AtMostOne(Differ(before', tree'))
      BY <1>0, <1>1, <3>2
    <3>4. LinkBeside(before', req')  BY <1>0, <2>2
    <3> QED  BY <1>0, <1>2, <2>1, <3>3, <3>4, AtWork DEF Working
  <2>3. CASE ~LinkBeside(before, req)
    <3>1. u = With(before, PatchTmp(req.path), File(req.data))
      BY <1>0, <1>2, <1>3, <2>3
    <3>2. tree' = With(before', PatchTmp(req'.path), File(req'.data))
      BY <1>0, <1>1, <3>1
    <3>3. ~LinkBeside(before', req')  BY <1>0, <2>3
    <3> QED  BY <1>0, <1>2, <2>1, <3>2, <3>3, AtWork DEF Working
  <2> QED  BY <2>2, <2>3
<1>8. Permitted'  BY <1>0 DEF Permitted
<1> QED  BY <1>4, <1>5, <1>6, <1>7, <1>8 DEF TreeInv

\* The other steps of a handler are its last.
LEMMA LastStepKeeps ==
    ASSUME TreeInv, [Next]_vars, at # "none", at' = "none", answer' \in {"none", "ok", "error"},
           UNCHANGED <<policy, req, before, under, ops>>, faults' \in 0..MaxFaults
    PROVE  TreeInv'
<1>1. TreeShape(tree)'
  <2>1. CASE tree' = tree  BY <2>1 DEF TreeInv
  <2>2. CASE tree' # tree  BY <2>2, StepEffect, EffectShape
  <2> QED  BY <2>1, <2>2
<1>2. TreeShape(before)' /\ Ranges'  BY DEF TreeInv, Ranges
<1> QED  BY <1>1, <1>2, Stopped DEF TreeInv

LEMMA SetRootKeeps == ASSUME TreeInv, SetRoot PROVE TreeInv'
<1>1. /\ tree' = tree /\ before' = before /\ req' = req /\ at' = at /\ answer' = answer
      /\ ops' = ops /\ faults' = faults + 1 /\ faults < MaxFaults /\ policy' \in Policies
      /\ under' = under
  BY DEF SetRoot, handler
<1>2. Ranges'  BY <1>1, TreeAssumption DEF TreeInv, Ranges
<1>3. LinksNotFollowed'  BY <1>1 DEF TreeInv, LinksNotFollowed, IsLink, Exists
<1>4. Working' /\ Permitted'  BY <1>1 DEF TreeInv, Working, Permitted, IsFile, Exists
<1> QED  BY <1>1, <1>2, <1>3, <1>4 DEF TreeInv

\* The invariant is kept by every step,
LEMMA TreeInvStep == TreeInv /\ [Next]_vars => TreeInv'
<1> SUFFICES ASSUME TreeInv, [Next]_vars PROVE TreeInv'
  OBVIOUS
<1>0. faults \in 0..MaxFaults  BY DEF TreeInv, Ranges
<1>1. ASSUME NEW r \in Request, Begin(r) PROVE TreeInv'  BY <1>1, BeginKeeps
<1>2. CASE EnsureDir  BY <1>2, EnsureDirKeeps
<1>3. CASE WriteFile  BY <1>0, <1>3, LastStepKeeps DEF WriteFile, Acts, Answer
<1>4. CASE MakeDir  BY <1>0, <1>4, LastStepKeeps DEF MakeDir, Acts, Answer
<1>5. CASE Rm  BY <1>0, <1>5, LastStepKeeps DEF Rm, Acts, Answer
<1>6. CASE RenameTo  BY <1>0, <1>6, LastStepKeeps DEF RenameTo, Acts, Answer
<1>7. CASE WriteTmp  BY <1>7, WriteTmpKeeps
<1>8. CASE Swap  BY <1>0, <1>8, LastStepKeeps DEF Swap, Acts, Answer
<1>9. CASE SetRoot  BY <1>9, SetRootKeeps
<1>10. CASE Throws  BY <1>0, <1>10, LastStepKeeps DEF Throws, Answer
<1>11. CASE Crash
  <2>1. faults' \in 0..MaxFaults  BY <1>0, <1>11, TreeAssumption DEF Crash
  <2> QED  BY <1>11, <2>1, LastStepKeeps DEF Crash
<1>12. CASE UNCHANGED vars
  <2>1. UNCHANGED <<tree, policy, req, at, answer, before, under, ops, faults>>
    BY <1>12 DEF vars, handler
  <2>2. Ranges' /\ LinksNotFollowed' /\ Working' /\ Permitted'
    BY <2>1 DEF TreeInv, Ranges, LinksNotFollowed, Working, Permitted, IsLink, IsFile, Exists
  <2> QED  BY <2>1, <2>2 DEF TreeInv
<1> QED
  BY <1>1, <1>2, <1>3, <1>4, <1>5, <1>6, <1>7, <1>8, <1>9, <1>10, <1>11, <1>12 DEF Next

\* and so always holds.
LEMMA TreeInvHolds == Spec => []TreeInv
BY TreeInvInit, TreeInvStep, PTL DEF Spec

\* It implies the types.
LEMMA TreeInvTyped == TreeInv => TypeOK
<1> SUFFICES ASSUME TreeInv PROVE TypeOK
  OBVIOUS
<1>1. ASSUME NEW p \in DOMAIN tree
      PROVE  /\ tree[p] \in {Dir, Link} \cup {File(d) : d \in Data \cup {Torn}}
             /\ p # <<>> => IsDir(Parent(p))
  <2>1. TreeShape(tree) /\ tree[p] \in Entry /\ p \in Seq(AnyName)
    BY DEF TreeInv, TreeShape, AnyPath
  <2>2. ASSUME p # <<>>
        PROVE  IsDir(Parent(p))
    <3>1. Parent(p) \in Seq(AnyName) /\ IsPrefix(Parent(p), p) /\ Parent(p) # p
      BY <2>1, <2>2, ParentIsPrefix
    <3>2. Parent(p) \in DOMAIN tree /\ tree[Parent(p)] = Dir
      BY <2>1, <3>1, TreeIsClosed DEF AnyPath
    <3> QED  BY <2>1, <3>2, KindsInTree
  <2> QED  BY <2>1, <2>2 DEF Entry
<1> QED  BY <1>1 DEF TypeOK, TreeInv, Ranges

\* What exists always has a directory around it, whatever call fails half way and
\* whatever the first trees have at the names of temporary files, and every variable
\* has its type (TypeOK).
THEOREM TreeTyped == Spec => []TypeOK
BY TreeInvHolds, TreeInvTyped, PTL

\* No handler works on a path its request names that leads through a symbolic link,
\* whatever the operations before it have put there (LinksNotFollowed).
THEOREM NoLinkIsNamed == Spec => []LinksNotFollowed
<1>1. TreeInv => LinksNotFollowed  BY DEF TreeInv
<1> QED  BY <1>1, TreeInvHolds, PTL

(***************************************************************************)
(* No step touches a file that its request does not name.                  *)
(***************************************************************************)
\* The swap of a patch: what is at the .tmp file takes the place of the file, and
\* nothing else changes.
LEMMA SwappedTree ==
    ASSUME TreeInv, at = "swap", CanRename(PatchFile, req.path),
           NEW u, u = Moved(tree, PatchFile, req.path)
    PROVE  /\ PatchFile \in DOMAIN tree /\ tree[PatchFile] # Dir
           /\ req.path \in DOMAIN u /\ u[req.path] = tree[PatchFile]
           /\ DOMAIN u = DOMAIN tree \ {PatchFile}
           /\ \A w \in DOMAIN tree : w # PatchFile /\ w # req.path => u[w] = tree[w]
           /\ u = [w \in DOMAIN u |-> u[w]]
<1>1. PICK x : x = PatchFile  OBVIOUS
<1>2. PICK p : p = req.path  OBVIOUS
<1>3. /\ TreeShape(tree) /\ x \in AnyPath /\ p \in AnyPath /\ x # p /\ p \in DOMAIN tree
      /\ tree[p].kind = "file" /\ x \in Seq(AnyName) /\ p \in Seq(AnyName) /\ u = Moved(tree, x, p)
      /\ CanRename(x, p)
  BY <1>1, <1>2, PatchedFile DEF AnyPath, TreeInv
<1>4. x \in DOMAIN tree /\ tree[x] # Dir /\ tree[p] # Dir
  <2>1. tree[p] # Dir /\ ~IsDir(p)  BY <1>3, KindsInTree DEF Dir
  <2>2. Exists(x) /\ ~IsDir(x)
    <3>1. Exists(x)  BY <1>3 DEF CanRename
    <3>2. ~Exists(p) \/ ~IsDir(x)  BY <1>3, <2>1 DEF CanRename
    <3> QED  BY <1>3, <3>1, <3>2, KindsInTree
  <2> QED  BY <1>3, <2>1, <2>2, KindsInTree
<1>5. ASSUME NEW w \in DOMAIN tree
      PROVE  /\ IsPrefix(x, w) <=> w = x
             /\ IsPrefix(p, w) <=> w = p
  <2>1. IsPrefix(x, w) => w = x  BY <1>3, <1>4, TreeIsClosed
  <2>2. IsPrefix(p, w) => w = p  BY <1>3, <1>4, TreeIsClosed
  <2>3. IsPrefix(x, x) /\ IsPrefix(p, p)  BY <1>3, PrefixOrder
  <2> QED  BY <2>1, <2>2, <2>3
<1>6. Below(tree, x) = {x}  BY <1>4, <1>5 DEF Below
<1>7. Shifted(x, p, x) = p
  <2>1. IsPrefix(x, x)  BY <1>3, PrefixOrder
  <2> QED  BY <1>3, <2>1, ShiftedBack
<1>8. /\ u = [w \in DOMAIN u |-> u[w]]
      /\ \A s \in Below(tree, x) : Shifted(x, p, s) \in DOMAIN u /\ u[Shifted(x, p, s)] = tree[s]
      /\ \A w \in DOMAIN tree : ~IsPrefix(x, w) /\ ~IsPrefix(p, w) => w \in DOMAIN u /\ u[w] = tree[w]
      /\ \A w \in DOMAIN u :
           \/ \E s \in Below(tree, x) : w = Shifted(x, p, s)
           \/ w \in DOMAIN tree /\ ~IsPrefix(x, w) /\ ~IsPrefix(p, w)
  BY <1>3, MovedEntries
<1>9. p \in DOMAIN u /\ u[p] = tree[x]  BY <1>6, <1>7, <1>8
<1>10. \A w \in DOMAIN tree : w # x /\ w # p => w \in DOMAIN u /\ u[w] = tree[w]
  BY <1>5, <1>8
<1>11. \A w \in DOMAIN u : w = p \/ (w \in DOMAIN tree /\ w # x)
  <2>1. IsPrefix(x, x)  BY <1>3, PrefixOrder
  <2> QED  BY <1>6, <1>7, <1>8, <2>1
<1>12. DOMAIN u = DOMAIN tree \ {x}  BY <1>3, <1>9, <1>10, <1>11
<1> QED  BY <1>1, <1>2, <1>4, <1>8, <1>9, <1>10, <1>12

LEMMA EffectIsSafe ==
    ASSUME TreeInv, at # "none", NEW u, Effect(u), tree' = u
    PROVE  KeepsFiles
<1>0. TreeShape(tree) /\ Working /\ Files(tree) \subseteq DOMAIN tree
      /\ \A f \in Files(tree) : tree[f] # Dir
  BY DEF TreeInv, Files, Dir
<1>1. CASE u = tree  BY <1>1 DEF KeepsFiles, Files
<1>2. ASSUME NEW q, u = WithDirs(tree, q)
      PROVE  KeepsFiles
  BY <1>0, <1>2, WithDirsKeeps DEF KeepsFiles
<1>3. CASE /\ req.op = "create" /\ CanWrite(req.path) /\ (Exists(req.path) => req.overwrite)
           /\ u = With(tree, req.path, File(Empty))
  <2>0. /\ DOMAIN u = DOMAIN tree \cup {req.path}
        /\ \A w \in DOMAIN u : u[w] = IF w = req.path THEN File(Empty) ELSE tree[w]
    BY <1>3 DEF With
  <2>1. ASSUME NEW f \in Files(tree), f = req.path
        PROVE  req.overwrite /\ f \in DOMAIN u /\ u[f] = File(Empty)
    BY <1>0, <1>3, <2>0, <2>1 DEF Exists
  <2>2. ASSUME NEW f \in Files(tree), f # req.path
        PROVE  f \in DOMAIN u /\ u[f] = tree[f]
    BY <1>0, <2>0, <2>2
  <2> QED  BY <1>3, <2>1, <2>2 DEF KeepsFiles
<1>4. ASSUME req.op = "delete", NEW R \in SUBSET Below(tree, req.path), u = Without(tree, R)
      PROVE  KeepsFiles
  BY <1>0, <1>4 DEF KeepsFiles, Without, Below
<1>5. CASE /\ req.op = "rename" /\ CanRename(req.path, req.to) /\ req.path # req.to
           /\ u = Moved(tree, req.path, req.to)
  <2>1. req.path \in AnyPath /\ req.to \in AnyPath  BY <1>5, AtWork
  <2>2. ASSUME NEW f \in Files(tree), ~IsPrefix(req.path, f), f # req.to
        PROVE  f \in DOMAIN u /\ u[f] = tree[f]
    BY <1>0, <1>5, <2>1, <2>2, RenameIsSafe
  <2> QED  BY <1>5, <2>2 DEF KeepsFiles
<1>6. ASSUME at = "writeTmp", CanWrite(PatchFile), NEW d \in Data \cup {Torn},
             u \in Written(PatchFile, d)
      PROVE  KeepsFiles
  <2>1. /\ PatchFile \in AnyPath /\ req.op = "patch" /\ PatchFile = PatchTmp(req.path)
        /\ LinkBeside(tree, req) <=> IsLink(PatchFile)
    BY <1>6, PatchedFile
  <2>2. /\ DOMAIN tree \subseteq DOMAIN u
        /\ ~IsLink(PatchFile) => u = With(tree, PatchFile, File(d))
    BY <1>0, <1>6, <2>1, WrittenTree
  <2>3. CASE IsLink(PatchFile)  BY <1>0, <1>6, <2>1, <2>2, <2>3 DEF KeepsFiles
  <2>4. CASE ~IsLink(PatchFile)
    <3>0. /\ DOMAIN u = DOMAIN tree \cup {PatchFile}
          /\ \A w \in DOMAIN u : u[w] = IF w = PatchFile THEN File(d) ELSE tree[w]
      BY <2>2, <2>4 DEF With
    <3>1. ASSUME NEW f \in Files(tree), f # PatchFile
          PROVE  f \in DOMAIN u /\ u[f] = tree[f]
      BY <1>0, <3>0, <3>1
    <3> QED  BY <2>1, <3>1 DEF KeepsFiles
  <2> QED  BY <2>3, <2>4
<1>7. CASE at = "swap" /\ CanRename(PatchFile, req.path) /\ u = Moved(tree, PatchFile, req.path)
  <2>1. req.op = "patch" /\ PatchFile = PatchTmp(req.path)  BY <1>7, PatchedFile
  <2>2. /\ req.path \in DOMAIN u /\ u[req.path] = tree[PatchFile]
        /\ DOMAIN u = DOMAIN tree \ {PatchFile}
        /\ \A w \in DOMAIN tree : w # PatchFile /\ w # req.path => u[w] = tree[w]
    BY <1>7, SwappedTree
  <2>3. LinkBeside(tree, req) \/ u[req.path] = File(req.data)
    <3>1. CASE ~LinkBeside(before, req)
      <4>1. tree = With(before, PatchTmp(req.path), File(req.data))
        BY <1>0, <1>7, <3>1 DEF Working
      <4>2. tree[PatchTmp(req.path)] = File(req.data)  BY <4>1 DEF With
      <4> QED  BY <2>1, <2>2, <4>2
    <3>2. CASE LinkBeside(before, req)  BY <1>0, <1>7, <3>2 DEF Working
    <3> QED  BY <3>1, <3>2
  <2> QED  BY <1>0, <2>1, <2>2, <2>3 DEF KeepsFiles
<1> QED  BY <1>1, <1>2, <1>3, <1>4, <1>5, <1>6, <1>7 DEF Effect

\* At every step, failing ones and crashes included, a file that exists stays as it
\* is unless the request at work names it, or a patch meets it at or through its
\* temporary file (FilesSafe).
THEOREM StepsAreSafe == Spec => FilesSafe
<1>1. TreeInv /\ [Next]_vars => KeepsFiles
  <2> SUFFICES ASSUME TreeInv, [Next]_vars PROVE KeepsFiles
    OBVIOUS
  <2>1. CASE tree' = tree  BY <2>1 DEF KeepsFiles, Files
  <2>2. CASE tree' # tree  BY <2>2, StepEffect, EffectIsSafe
  <2> QED  BY <2>1, <2>2
<1> QED  BY <1>1, TreeInvHolds, PTL DEF Spec, FilesSafe

(***************************************************************************)
(* Policy.                                                                 *)
(***************************************************************************)
\* What is below an allowed path is allowed.
LEMMA AllowedBelow ==
    ASSUME NEW pol \in Policies, NEW p \in AnyPath, NEW q \in AnyPath,
           Allowed(pol, p), IsPrefix(p, q)
    PROVE  Allowed(pol, q)
<1>1. CASE pol.allowed = {}  BY <1>1 DEF Allowed
<1>2. CASE pol.allowed # {}
  <2>1. PICK a \in pol.allowed : IsPrefix(a, p)  BY <1>2 DEF Allowed
  <2>2. a \in AnyPath  BY TreeAssumption, PathsAreSequences
  <2>3. IsPrefix(a, q)  BY <2>1, <2>2, PrefixOrder DEF AnyPath
  <2> QED  BY <2>1, <2>3 DEF Allowed
<1> QED  BY <1>1, <1>2

LEMMA EffectObeys ==
    ASSUME TreeInv, at # "none", NEW u, Effect(u), tree' = u
    PROVE  ObeysPolicy
<1>0. TreeShape(tree) /\ Working /\ under \in Policies /\ \A f \in DOMAIN tree : f \in AnyPath
  BY DEF TreeInv, TreeShape, Ranges
<1>1. \A q \in Named(req) : Permits(under, req.op, q)  BY DEF TreeInv, Permitted
<1>2. Allowed(under, req.path) /\ req.path \in AnyPath
  BY <1>1, AtWork DEF Named, Permits, Visible
<1> SUFFICES ASSUME NEW w \in Differ(tree, u)
             PROVE  \/ Allowed(under, w)
                    \/ w \in Upto(Target) /\ w \notin DOMAIN tree /\ u[w] = Dir
                    \/ w = PatchTmp(req.path) \/ LinkBeside(tree, req)
  BY <1>1 DEF ObeysPolicy
<1>3. CASE u = tree  BY <1>3 DEF Differ
<1>4. ASSUME NEW q \in Upto(Target), u = WithDirs(tree, q)
      PROVE  w \in Upto(Target) /\ w \notin DOMAIN tree /\ u[w] = Dir
  BY <1>4, WithDirsKeeps, TargetPath
<1>5. CASE u = With(tree, req.path, File(Empty))
  BY <1>2, <1>5 DEF Differ, With
<1>6. ASSUME NEW R \in SUBSET Below(tree, req.path), u = Without(tree, R)
      PROVE  Allowed(under, w)
  <2>1. w \in R  BY <1>6 DEF Differ, Without
  <2>2. w \in AnyPath /\ IsPrefix(req.path, w)  BY <1>0, <1>6, <2>1 DEF Below
  <2> QED  BY <1>0, <1>2, <2>2, AllowedBelow
<1>7. CASE req.op = "rename" /\ u = Moved(tree, req.path, req.to)
  <2>1. req.to \in AnyPath /\ Allowed(under, req.to)
    BY <1>1, <1>7, AtWork DEF Named, Permits, Visible
  <2>2. w \in AnyPath /\ (IsPrefix(req.to, w) \/ IsPrefix(req.path, w))
    BY <1>0, <1>2, <1>7, <2>1, RenameChanges
  <2> QED  BY <1>0, <1>2, <2>1, <2>2, AllowedBelow
<1>8. ASSUME at = "writeTmp", CanWrite(PatchFile), NEW d \in Data \cup {Torn},
             u \in Written(PatchFile, d)
      PROVE  w = PatchTmp(req.path) \/ LinkBeside(tree, req)
  <2>1. /\ PatchFile \in AnyPath /\ PatchFile = PatchTmp(req.path)
        /\ LinkBeside(tree, req) <=> IsLink(PatchFile)
    BY <1>8, PatchedFile
  <2>2. ~IsLink(PatchFile) => u = With(tree, PatchFile, File(d))
    BY <1>0, <1>8, <2>1, WrittenTree
  <2> QED  BY <2>1, <2>2 DEF Differ, With
<1>9. CASE at = "swap" /\ CanRename(PatchFile, req.path) /\ u = Moved(tree, PatchFile, req.path)
  <2>1. /\ DOMAIN u = DOMAIN tree \ {PatchFile}
        /\ \A v \in DOMAIN tree : v # PatchFile /\ v # req.path => u[v] = tree[v]
    BY <1>9, SwappedTree
  <2>2. w = PatchFile \/ w = req.path  BY <2>1 DEF Differ
  <2> QED  BY <1>2, <2>2 DEF PatchFile
<1> QED  BY <1>3, <1>4, <1>5, <1>6, <1>7, <1>8, <1>9 DEF Effect

\* What changes, changes under the policy the handler began with, which permits the
\* operation on each path it names and, but for directories above a path that is
\* created and for what a patch does beside its file, has what changes in its white
\* list (PolicyObeyed).
THEOREM PolicyIsObeyed == Spec => PolicyObeyed
<1>1. TreeInv /\ [Next]_vars => ObeysPolicy
  <2> SUFFICES ASSUME TreeInv, [Next]_vars PROVE ObeysPolicy
    OBVIOUS
  <2>1. CASE tree' = tree  BY <2>1 DEF ObeysPolicy, Differ
  <2>2. CASE tree' # tree  BY <2>2, StepEffect, EffectObeys
  <2> QED  BY <2>1, <2>2
<1> QED  BY <1>1, TreeInvHolds, PTL DEF Spec, PolicyObeyed

(***************************************************************************)
(* Answers.                                                                *)
(***************************************************************************)
\* Sets of one path.
LEMMA OneAtMost ==
    ASSUME NEW S, NEW T, AtMostOne(S), T \subseteq S
    PROVE  AtMostOne(T)
BY DEF AtMostOne

\* To show that an answer tells the truth.
LEMMA OkTells ==
    ASSUME NEW r, NEW t, NEW u, req' = r, before' = t, tree' = u, answer' = "ok",
           LinkBeside(t, r) => AtMostOne(Differ(t, u) \ {r.path, PatchTmp(r.path)}),
           ~LinkBeside(t, r) => Promised(r, t, u)
    PROVE  AnswersTruly
<1>1. CASE LinkBeside(t, r)
  <2>1. (Differ(t, u) \cap (Files(t) \cup Files(u))) \ (Named(r) \cup {PatchTmp(r.path)})
          \subseteq Differ(t, u) \ {r.path, PatchTmp(r.path)}
    BY DEF Named
  <2>2. AtMostOne((Differ(t, u) \cap (Files(t) \cup Files(u))) \ (Named(r) \cup {PatchTmp(r.path)}))
    BY <1>1, <2>1, OneAtMost
  <2> QED  BY <1>1, <2>2 DEF AnswersTruly
<1>2. CASE ~LinkBeside(t, r)  BY <1>2 DEF AnswersTruly
<1> QED  BY <1>1, <1>2

LEMMA ErrorTells ==
    ASSUME NEW r, NEW t, NEW u, req' = r, before' = t, tree' = u, answer' = "error",
           LinkBeside(t, r) => AtMostOne(Differ(t, u)),
           ~LinkBeside(t, r) =>
              \A q \in Differ(t, u) : q \in Files(t) \cup Files(u) => q \in Spoilt(r, t, u)
    PROVE  AnswersTruly
<1>1. CASE LinkBeside(t, r)
  <2>1. (Differ(t, u) \cap (Files(t) \cup Files(u))) \ {} \subseteq Differ(t, u)
    OBVIOUS
  <2>2. AtMostOne((Differ(t, u) \cap (Files(t) \cup Files(u))) \ {})
    BY <1>1, <2>1, OneAtMost
  <2> QED  BY <1>1, <2>2 DEF AnswersTruly
<1>2. CASE ~LinkBeside(t, r)  BY <1>2 DEF AnswersTruly
<1> QED  BY <1>1, <1>2

\* Only a patch meets a link beside its file.
LEMMA OnlyPatchMeets == ASSUME NEW t, NEW r, r.op # "patch" PROVE ~LinkBeside(t, r)
BY DEF LinkBeside

\* A handler that answers at once has changed nothing, and promised nothing.
LEMMA BeginTells == ASSUME TreeInv, NEW r \in Request, Begin(r) PROVE AnswersTruly
<1>0. TreeShape(tree) /\ req' = r /\ before' = tree /\ tree' = tree  BY DEF TreeInv, Begin
<1>1. Differ(tree, tree) = {}  BY DEF Differ
<1>2. CASE answer' = "none"  BY <1>2 DEF AnswersTruly
<1>3. CASE answer' = "error"
  <2>1. AtMostOne(Differ(tree, tree))  BY <1>1 DEF AtMostOne
  <2> QED  BY <1>0, <1>1, <1>3, <2>1, ErrorTells
<1>4. CASE answer' = "ok"
  <2>0. AtMostOne(Differ(tree, tree) \ {r.path, PatchTmp(r.path)})  BY <1>1 DEF AtMostOne
  <2> SUFFICES Promised(r, tree, tree)
    BY <1>0, <1>4, <2>0, OkTells
  <2>1. CASE r.op \in {"list", "stat", "get"}
    BY <2>1 DEF Promised
  <2>2. CASE r.op = "mkdir"
    <3>1. Mkdir(r)  BY <1>4, <2>2 DEF Begin, Answer
    <3>2. Exists(r.path)  BY <1>4, <3>1 DEF Mkdir, Answer, Goto
    <3>3. r.path \in AnyPath /\ r.path \in DOMAIN tree
      BY <3>2, RequestFields, PathsAreSequences DEF Exists
    <3>4. tree = WithDirs(tree, r.path)  BY <1>0, <3>3, WithDirsNothing
    <3> QED  BY <2>2, <3>4 DEF Promised
  <2>3. CASE r.op = "patch"
    <3>1. Patch(r)  BY <1>4, <2>3 DEF Begin, Answer
    <3>2. r.data = NoMatch  BY <1>4, <3>1 DEF Patch, Answer, Goto
    <3> QED  BY <2>3, <3>2 DEF Promised
  <2>4. CASE r.op = "create"
    <3>1. Create(r)  BY <1>4, <2>4 DEF Begin, Answer
    <3> QED  BY <1>4, <3>1 DEF Create, Answer, Goto
  <2>5. CASE r.op = "delete"
    <3>1. Delete(r)  BY <1>4, <2>5 DEF Begin, Answer
    <3> QED  BY <1>4, <3>1 DEF Delete, Answer, Goto
  <2>6. CASE r.op = "rename"
    <3>1. Rename(r)  BY <1>4, <2>6 DEF Begin, Answer
    <3> QED  BY <1>4, <3>1 DEF Rename, Answer, Goto
  <2> QED  BY <2>1, <2>2, <2>3, <2>4, <2>5, <2>6 DEF Request
<1> QED  BY <1>2, <1>3, <1>4, Checked

\* A call that fails half way has spoilt no more than it may.
LEMMA ThrowsTells == ASSUME TreeInv, Throws PROVE AnswersTruly
<1>0. /\ TreeShape(tree) /\ TreeShape(before) /\ Working
      /\ at # "none" /\ answer' = "error" /\ req' = req /\ before' = before
  BY DEF TreeInv, Throws, Answer
<1>1. PICK u \in Halfway : tree' = u  BY DEF Throws
<1>2. \A d : /\ \A q \in DOMAIN before : q \in DOMAIN WithDirs(before, d) /\ WithDirs(before, d)[q] = before[q]
             /\ \A q \in Differ(before, WithDirs(before, d)) :
                  q \notin DOMAIN before /\ WithDirs(before, d)[q] = Dir
             /\ Files(WithDirs(before, d)) = Files(before)
  BY WithDirsKeeps
<1>3. \A d, v : v = WithDirs(before, d) =>
        \A q \in Differ(before, v) : q \notin Files(before) \cup Files(v)
  BY <1>2 DEF Files, Dir
<1>4. CASE at \in {"ensureDir", "mkdir"}
  <2>1. tree = before /\ req.op # "patch"  BY <1>0, <1>4 DEF Working
  <2>2. u = before \/ \E q \in Upto(Target) : u = WithDirs(before, q)
    BY <1>0, <1>4, <2>1, HalfwayCases
  <2>3. \A q \in Differ(before, u) : q \notin Files(before) \cup Files(u)
    BY <1>3, <2>2 DEF Differ
  <2> QED  BY <1>0, <1>1, <2>1, <2>3, ErrorTells, OnlyPatchMeets
<1>5. CASE at = "rm"
  <2>1. tree = before /\ req.op = "delete"  BY <1>0, <1>5 DEF Working
  <2>2. u = before \/ \E R \in SUBSET Below(before, req.path) : u = Without(before, R)
    BY <1>0, <1>5, <2>1, HalfwayCases
  <2>3. \A q \in Differ(before, u) : q \in Below(before, req.path) /\ q \notin DOMAIN u
    <3>1. CASE u = before  BY <3>1 DEF Differ
    <3>2. ASSUME NEW R \in SUBSET Below(before, req.path), u = Without(before, R)
          PROVE  \A q \in Differ(before, u) : q \in Below(before, req.path) /\ q \notin DOMAIN u
      <4>1. DOMAIN u = DOMAIN before \ R /\ \A w \in DOMAIN u : u[w] = before[w]
        BY <3>2 DEF Without
      <4>2. R \subseteq DOMAIN before  BY <3>2 DEF Below
      <4> QED  BY <3>2, <4>1, <4>2 DEF Differ
    <3> QED  BY <2>2, <3>1, <3>2
  <2>4. \A q \in Differ(before, u) : q \in Spoilt(req, before, u)
    BY <2>1, <2>3 DEF Spoilt
  <2> QED  BY <1>0, <1>1, <2>1, <2>4, ErrorTells, OnlyPatchMeets
<1>6. CASE at = "writeFile"
  <2>1. req.op = "create" /\ tree = WithDirs(before, Parent(req.path))  BY <1>0, <1>6 DEF Working
  <2>2. u = tree \/ u = With(tree, req.path, File(Empty))
    BY <1>0, <1>6, HalfwayCases
  <2>3. \A q \in Differ(before, tree) : q \notin Files(before) \cup Files(tree)
    BY <1>3, <2>1
  <2>4. CASE u = tree
    BY <1>0, <1>1, <2>1, <2>3, <2>4, ErrorTells, OnlyPatchMeets
  <2>5. CASE u = With(tree, req.path, File(Empty))
    <3>1. /\ DOMAIN u = DOMAIN tree \cup {req.path}
          /\ \A w \in DOMAIN u : u[w] = IF w = req.path THEN File(Empty) ELSE tree[w]
      BY <2>5 DEF With
    <3>2. ASSUME NEW q \in Differ(before, u), q \in Files(before) \cup Files(u), q # req.path
          PROVE  FALSE
      <4>1. q \in Differ(before, tree) /\ q \in Files(before) \cup Files(tree)
        BY <3>1, <3>2 DEF Differ, Files
      <4> QED  BY <2>3, <4>1
    <3>3. req.path \in Spoilt(req, before, u)  BY <2>1, <3>1 DEF Spoilt
    <3> QED  BY <1>0, <1>1, <2>1, <3>2, <3>3, ErrorTells, OnlyPatchMeets
  <2> QED  BY <2>2, <2>4, <2>5
<1>7. CASE at = "rename"
  <2>1. req.op # "patch" /\ tree = WithDirs(before, Parent(req.to))  BY <1>0, <1>7 DEF Working
  <2>2. u = tree  BY <1>0, <1>7, HalfwayCases
  <2>3. \A q \in Differ(before, u) : q \notin Files(before) \cup Files(u)
    BY <1>3, <2>1, <2>2
  <2> QED  BY <1>0, <1>1, <2>1, <2>3, ErrorTells, OnlyPatchMeets
<1>8. CASE at = "writeTmp"
  <2>1. /\ tree = before /\ req.op = "patch" /\ req.path # <<>> /\ PatchFile \in AnyPath
        /\ PatchFile = PatchTmp(req.path) /\ (LinkBeside(before, req) <=> IsLink(PatchFile))
    BY <1>0, <1>8, PatchedFile DEF Working
  <2>2. CASE u = before
    <3>1. Differ(before, u) = {}  BY <2>2 DEF Differ
    <3>2. AtMostOne(Differ(before, u))  BY <3>1 DEF AtMostOne
    <3> QED  BY <1>0, <1>1, <3>1, <3>2, ErrorTells
  <2>3. CASE CanWrite(PatchFile) /\ u \in Written(PatchFile, Torn)
    <3>1. /\ ~IsLink(PatchFile) => u = With(tree, PatchFile, File(Torn))
          /\ IsLink(PatchFile) => AtMostOne(Differ(tree, u))
      BY <1>0, <2>1, <2>3, WrittenTree
    <3>2. ASSUME ~LinkBeside(before, req), NEW q \in Differ(before, u)
          PROVE  q \in Spoilt(req, before, u)
      <4>1. u = With(before, PatchFile, File(Torn))  BY <2>1, <3>1, <3>2
      <4>2. q = PatchFile /\ q \in DOMAIN u  BY <4>1 DEF Differ, With
      <4> QED  BY <2>1, <4>2 DEF Spoilt
    <3>3. LinkBeside(before, req) => AtMostOne(Differ(before, u))  BY <2>1, <3>1
    <3> QED  BY <1>0, <1>1, <3>2, <3>3, ErrorTells
  <2> QED  BY <1>0, <1>8, <2>1, <2>2, <2>3, HalfwayCases
<1>9. CASE at = "swap"
  <2>1. req.op = "patch" /\ req.path # <<>> /\ PatchFile = PatchTmp(req.path)
    BY <1>0, <1>9, PatchedFile
  <2>2. u = tree  BY <1>0, <1>9, HalfwayCases
  <2>3. LinkBeside(before, req) => AtMostOne(Differ(before, u))
    BY <1>0, <1>9, <2>2 DEF Working
  <2>4. ASSUME ~LinkBeside(before, req), NEW q \in Differ(before, u)
        PROVE  q \in Spoilt(req, before, u)
    <3>1. u = With(before, PatchTmp(req.path), File(req.data))
      BY <1>0, <1>9, <2>2, <2>4 DEF Working
    <3>2. q = PatchTmp(req.path) /\ q \in DOMAIN u  BY <2>4, <3>1 DEF Differ, With
    <3> QED  BY <2>1, <3>2 DEF Spoilt
  <2> QED  BY <1>0, <1>1, <2>3, <2>4, ErrorTells
<1> QED  BY <1>0, <1>4, <1>5, <1>6, <1>7, <1>8, <1>9 DEF TreeInv, Ranges

\* A rename moves all that is below, leaves nothing, and keeps the other files.
LEMMA RenamedAll ==
    ASSUME NEW t, NEW m, TreeShape(tree), tree = m, NEW d, m = WithDirs(t, d),
           NEW p \in AnyPath, NEW q \in AnyPath, p # q, CanRename(p, q),
           NEW u, u = Moved(m, p, q)
    PROVE  /\ \A w \in DOMAIN u : ~IsPrefix(p, w)
           /\ \A w \in Below(t, p) : u[Shifted(p, q, w)] = t[w]
           /\ \A w \in Files(t) : IsPrefix(p, w) \/ w = q \/ (w \in DOMAIN u /\ u[w] = t[w])
<1>1. /\ \A s \in Below(m, p) : Shifted(p, q, s) \in DOMAIN u /\ u[Shifted(p, q, s)] = m[s]
      /\ \A w \in DOMAIN u :
           \/ \E s \in Below(m, p) : w = Shifted(p, q, s)
           \/ w \in DOMAIN m /\ ~IsPrefix(p, w) /\ ~IsPrefix(q, w)
  BY MovedEntries
<1>2. \A w \in DOMAIN t : w \in DOMAIN m /\ m[w] = t[w]  BY WithDirsKeeps
<1>3. p \in Seq(AnyName) /\ q \in Seq(AnyName)  BY DEF AnyPath
<1>4. ASSUME NEW s \in Below(m, p)
      PROVE  ~IsPrefix(p, Shifted(p, q, s))
  <2> DEFINE w == Shifted(p, q, s)
  <2>1. s \in Seq(AnyName) /\ IsPrefix(p, s)  BY DEF Below, TreeShape, AnyPath
  <2>2. w \in Seq(AnyName) /\ IsPrefix(q, w)  BY <1>3, <2>1, ShiftedBySteps, ShiftedBack
  <2> HIDE DEF w
  <2>3. ASSUME IsPrefix(p, w)
        PROVE  FALSE
    <3>1. IsPrefix(p, q) \/ IsPrefix(q, p)  BY <1>3, <2>2, <2>3, PrefixOrder
    <3>2. ~IsPrefix(p, q)  BY DEF CanRename, IsStrictPrefix
    <3>3. p \in DOMAIN tree  BY DEF CanRename, Exists
    <3>4. q \in DOMAIN tree /\ tree[q] = Dir /\ p \in Below(tree, q)
      BY <3>1, <3>2, <3>3, TreeIsClosed DEF Below
    <3>5. Exists(q) /\ IsDir(q)  BY <3>4, KindsInTree
    <3>6. Below(tree, q) = {q}  BY <3>5 DEF CanRename
    <3> QED  BY <3>4, <3>6
  <2> QED  BY <2>3 DEF w
<1>5. \A w \in Below(t, p) : w \in Below(m, p) /\ m[w] = t[w]  BY <1>2 DEF Below
<1>6. ASSUME NEW w \in Files(t), ~IsPrefix(p, w), w # q
      PROVE  w \in DOMAIN u /\ u[w] = t[w]
  <2>1. w \in DOMAIN t /\ t[w].kind # "dir"  BY DEF Files
  <2>2. w \in DOMAIN tree /\ tree[w] = t[w] /\ tree[w] # Dir  BY <1>2, <2>1 DEF Dir
  <2> QED  BY <1>6, <2>2, RenameIsSafe
<1> QED  BY <1>1, <1>4, <1>5, <1>6

\* The last step of a rename keeps what was promised.
LEMMA RenameTells == ASSUME TreeInv, RenameTo PROVE AnswersTruly
<1>0. /\ TreeShape(tree) /\ TreeShape(before) /\ Working /\ at = "rename"
      /\ req.op = "rename" /\ tree = WithDirs(before, Parent(req.to))
      /\ before' = before /\ req' = req /\ answer' = "ok"
      /\ CanRename(req.path, req.to)
      /\ tree' = IF req.path = req.to THEN tree ELSE Moved(tree, req.path, req.to)
  BY DEF TreeInv, RenameTo, Acts, Working, Answer
<1>1. req.path \in AnyPath /\ req.to \in AnyPath  BY <1>0, AtWork
<1>2. CASE req.path # req.to
  <2>1. PICK u : u = Moved(tree, req.path, req.to)  OBVIOUS
  <2>2. /\ \A w \in DOMAIN u : ~IsPrefix(req.path, w)
        /\ \A w \in Below(before, req.path) : u[Shifted(req.path, req.to, w)] = before[w]
        /\ \A w \in Files(before) :
             IsPrefix(req.path, w) \/ w = req.to \/ (w \in DOMAIN u /\ u[w] = before[w])
    BY <1>0, <1>1, <1>2, <2>1, RenamedAll
  <2>3. Promised(req, before, u)  BY <1>0, <2>2 DEF Promised
  <2> QED  BY <1>0, <1>2, <2>1, <2>3, OkTells, OnlyPatchMeets
<1>3. CASE req.path = req.to
  <2>1. tree' = tree  BY <1>0, <1>3
  <2>2. \A w \in DOMAIN before : w \in DOMAIN tree /\ tree[w] = before[w]
    BY <1>0, WithDirsKeeps
  <2>3. \A w \in Below(before, req.path) : Shifted(req.path, req.path, w) = w
    <3>1. ASSUME NEW w \in Below(before, req.path)
          PROVE  Shifted(req.path, req.path, w) = w
      <4>1. w \in Seq(AnyName) /\ req.path \in Seq(AnyName) /\ IsPrefix(req.path, w)
        BY <1>0, <1>1 DEF Below, TreeShape, AnyPath
      <4> QED  BY <4>1, ShiftedNowhere
    <3> QED  BY <3>1
  <2>4. Promised(req, before, tree)
    BY <1>0, <1>3, <2>2, <2>3 DEF Promised, Below, Files
  <2> QED  BY <1>0, <2>1, <2>4, OkTells, OnlyPatchMeets
<1> QED  BY <1>2, <1>3

\* The last step of a patch changes the file and takes the .tmp file away.
LEMMA SwapTells == ASSUME TreeInv, Swap PROVE AnswersTruly
<1>0. /\ TreeShape(before) /\ Working /\ at = "swap" /\ before' = before /\ req' = req
      /\ answer' = "ok" /\ CanRename(PatchFile, req.path)
  BY DEF TreeInv, Swap, Acts, Answer
<1>1. PICK u : u = Moved(tree, PatchFile, req.path)  OBVIOUS
<1>2. /\ tree' = u /\ req.op = "patch" /\ req.data # NoMatch /\ PatchFile = PatchTmp(req.path)
      /\ PatchFile # req.path /\ req.path \in DOMAIN tree
  BY <1>0, <1>1, PatchedFile, TreeAssumption DEF Swap
<1>3. /\ PatchFile \in DOMAIN tree
      /\ req.path \in DOMAIN u /\ u[req.path] = tree[PatchFile]
      /\ DOMAIN u = DOMAIN tree \ {PatchFile}
      /\ \A w \in DOMAIN tree : w # PatchFile /\ w # req.path => u[w] = tree[w]
      /\ u = [w \in DOMAIN u |-> u[w]]
  BY <1>0, <1>1, SwappedTree
<1>4. CASE LinkBeside(before, req)
  <2>1. AtMostOne(Differ(before, tree))  BY <1>0, <1>4 DEF Working
  <2>2. Differ(before, u) \ {req.path, PatchTmp(req.path)} \subseteq Differ(before, tree)
    BY <1>2, <1>3 DEF Differ
  <2>3. AtMostOne(Differ(before, u) \ {req.path, PatchTmp(req.path)})
    BY <2>1, <2>2, OneAtMost
  <2> QED  BY <1>0, <1>2, <1>4, <2>3, OkTells
<1>5. CASE ~LinkBeside(before, req)
  <2>1. tree = With(before, PatchFile, File(req.data))
    BY <1>0, <1>2, <1>5 DEF Working
  <2>2. /\ DOMAIN tree = DOMAIN before \cup {PatchFile} /\ tree[PatchFile] = File(req.data)
        /\ \A w \in DOMAIN before : w # PatchFile => tree[w] = before[w]
    BY <2>1 DEF With
  <2> DEFINE v == With(Without(before, {PatchFile}), req.path, File(req.data))
  <2>3. /\ DOMAIN v = (DOMAIN before \ {PatchFile}) \cup {req.path}
        /\ \A w \in DOMAIN v : v[w] = IF w = req.path THEN File(req.data) ELSE before[w]
        /\ v = [w \in DOMAIN v |-> v[w]]
    <3>1. /\ DOMAIN Without(before, {PatchFile}) = DOMAIN before \ {PatchFile}
          /\ \A w \in DOMAIN before \ {PatchFile} : Without(before, {PatchFile})[w] = before[w]
      BY DEF Without
    <3> QED  BY <3>1 DEF With
  <2> HIDE DEF v
  <2>4. DOMAIN u = DOMAIN v  BY <1>2, <1>3, <2>2, <2>3
  <2>5. \A w \in DOMAIN u : u[w] = v[w]
    <3>1. ASSUME NEW w \in DOMAIN u
          PROVE  u[w] = v[w]
      <4>1. CASE w = req.path  BY <1>3, <2>2, <2>3, <2>4, <4>1
      <4>2. CASE w # req.path
        <5>1. w \in DOMAIN tree /\ w # PatchFile /\ w \in DOMAIN before
          BY <1>3, <2>2, <3>1
        <5>2. u[w] = tree[w]  BY <1>3, <4>2, <5>1
        <5>3. tree[w] = before[w]  BY <2>2, <5>1
        <5> QED  BY <2>3, <2>4, <4>2, <5>2, <5>3
      <4> QED  BY <4>1, <4>2
    <3> QED  BY <3>1
  <2>6. u = v  BY <1>3, <2>3, <2>4, <2>5
  <2>7. Promised(req, before, u)  BY <1>2, <2>6 DEF Promised, v
  <2> QED  BY <1>0, <1>2, <1>5, <2>7, OkTells
<1> QED  BY <1>4, <1>5

\* Every step that answers tells the truth.
LEMMA StepTells == TreeInv /\ [Next]_vars => [AnswersTruly]_vars
<1> SUFFICES ASSUME TreeInv, Next PROVE AnswersTruly
  OBVIOUS
<1>0. TreeShape(tree) /\ Working
  BY DEF TreeInv
<1>1. ASSUME NEW r \in Request, Begin(r) PROVE AnswersTruly  BY <1>1, BeginTells
<1>2. CASE EnsureDir  BY <1>2 DEF EnsureDir, Goto, AnswersTruly
<1>3. CASE WriteFile
  <2>1. /\ at = "writeFile" /\ req.op = "create" /\ tree = WithDirs(before, Parent(req.path))
        /\ before' = before /\ req' = req /\ answer' = "ok"
    BY <1>0, <1>3 DEF WriteFile, Acts, Working, Answer
  <2>2. tree' = With(tree, req.path, File(Empty))
    BY <1>3, <2>1, NotALink DEF WriteFile, Written
  <2>3. Promised(req, before, With(tree, req.path, File(Empty)))  BY <2>1 DEF Promised
  <2> QED  BY <2>1, <2>2, <2>3, OkTells, OnlyPatchMeets
<1>4. CASE MakeDir
  <2>1. /\ req.op = "mkdir" /\ tree = before /\ before' = before /\ req' = req
        /\ answer' = "ok" /\ tree' = WithDirs(before, req.path)
    BY <1>0, <1>4 DEF MakeDir, Acts, Working, Answer
  <2>2. Promised(req, before, WithDirs(before, req.path))  BY <2>1 DEF Promised
  <2> QED  BY <2>1, <2>2, OkTells, OnlyPatchMeets
<1>5. CASE Rm
  <2>1. /\ req.op = "delete" /\ tree = before /\ before' = before /\ req' = req
        /\ answer' = "ok" /\ tree' = Without(before, Below(before, req.path))
    BY <1>0, <1>5 DEF Rm, Acts, Working, Answer, Removed
  <2>2. Promised(req, before, Without(before, Below(before, req.path)))  BY <2>1 DEF Promised
  <2> QED  BY <2>1, <2>2, OkTells, OnlyPatchMeets
<1>6. CASE RenameTo  BY <1>6, RenameTells
<1>7. CASE WriteTmp  BY <1>7 DEF WriteTmp, Goto, AnswersTruly
<1>8. CASE Swap  BY <1>8, SwapTells
<1>9. CASE SetRoot
  <2>1. at # "none" => answer = "none"  BY <1>0 DEF Working
  <2> QED  BY <1>9, <2>1 DEF SetRoot, handler, AnswersTruly
<1>10. CASE Throws  BY <1>10, ThrowsTells
<1>11. CASE Crash  BY <1>11 DEF Crash, AnswersTruly
<1> QED
  BY <1>1, <1>2, <1>3, <1>4, <1>5, <1>6, <1>7, <1>8, <1>9, <1>10, <1>11 DEF Next

\* An operation that answers ok has done all it promises and nothing else; one that
\* answers an error, a call that failed half way included, has lost or changed no
\* file but for what Spoilt says; and a patch that meets a link beside its file
\* changes one other file at most (AnswerTells).
THEOREM AnswersTell == Spec => AnswerTells
BY StepTells, TreeInvHolds, PTL DEF Spec, AnswerTells
=============================================================================
