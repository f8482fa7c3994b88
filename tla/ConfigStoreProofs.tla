------------------------- MODULE ConfigStoreProofs -------------------------
(***************************************************************************)
(* Proofs about the configuration file, for any start file, any submitted  *)
(* lines and any width of an index.  What the reading loop makes of a file *)
(* is a recursive function; what is needed of it is shown by induction on  *)
(* the number of lines read, in the form of a set of numbers.              *)
(***************************************************************************)
EXTENDS ConfigStore, SequenceTheorems, WellFoundedInduction, TLAPS

\* Induction up to n: the smallest number that is not in S would follow one that is.
LEMMA UpTo ==
    ASSUME NEW n \in Nat, NEW S, 0 \in S, \A k \in 0 .. n - 1 : k \in S => k + 1 \in S
    PROVE  \A k \in 0 .. n : k \in S
<1> DEFINE T == {k \in 0 .. n : k \notin S}
           R == OpToRel(<, Nat)
<1> SUFFICES ASSUME T # {} PROVE FALSE
  OBVIOUS
<1>1. IsWellFoundedOn(R, Nat)
  BY NatLessThanWellFounded
<1>2. T \subseteq Nat
  OBVIOUS
<1>3. \A i, j \in Nat : i < j => <<i, j>> \in R
  BY DEF OpToRel
<1> HIDE DEF R, T
<1>4. PICK k \in T : \A j \in T : ~(<<j, k>> \in R)
  BY <1>1, <1>2, WFMin
<1>5. k \in 0 .. n /\ k \notin S /\ k # 0
  BY <1>4 DEF T
<1>6. k - 1 \in 0 .. n - 1 /\ k - 1 < k /\ (k - 1) + 1 = k
  BY <1>5
<1>7. k - 1 \notin S
  BY <1>5, <1>6
<1>8. k - 1 \in T
  BY <1>6, <1>7 DEF T
<1> QED
  BY <1>2, <1>3, <1>4, <1>6, <1>8

(***************************************************************************)
(* The reading loop.                                                       *)
(***************************************************************************)
\* g holds the points read after each of the first n lines.
Loop(lines, n, g) ==
    g = [k \in 0 .. n |->
            IF k = 0 THEN <<>>
            ELSE IF IsPoint(lines[k]) THEN Append(g[k - 1], ReadPoint(lines[k]))
            ELSE g[k - 1]]

LEMMA LoopExists ==
    ASSUME NEW n \in Nat, NEW lines
    PROVE  \E g : Loop(lines, n, g)
<1> DEFINE S == {k \in 0 .. n : \E g : Loop(lines, k, g)}
<1>1. 0 \in S
  <2> DEFINE g == [k \in 0 .. 0 |-> <<>>]
  <2>1. Loop(lines, 0, g)
    BY DEF Loop
  <2> QED
    BY <2>1
<1>2. ASSUME NEW k \in 0 .. n - 1, k \in S PROVE k + 1 \in S
  <2>1. PICK g : Loop(lines, k, g)
    BY <1>2
  <2> DEFINE last == IF IsPoint(lines[k + 1]) THEN Append(g[k], ReadPoint(lines[k + 1])) ELSE g[k]
             h == [i \in 0 .. k + 1 |-> IF i = k + 1 THEN last ELSE g[i]]
  <2>2. \A i \in 0 .. k : g[i] = IF i = 0 THEN <<>>
                                 ELSE IF IsPoint(lines[i])
                                      THEN Append(g[i - 1], ReadPoint(lines[i]))
                                 ELSE g[i - 1]
    BY <2>1 DEF Loop
  <2>3. ASSUME NEW i \in 0 .. k + 1
        PROVE  h[i] = IF i = 0 THEN <<>>
                      ELSE IF IsPoint(lines[i]) THEN Append(h[i - 1], ReadPoint(lines[i]))
                      ELSE h[i - 1]
    <3>1. CASE i = k + 1
      <4>1. h[i] = last /\ h[i - 1] = g[k] /\ i # 0
        BY <3>1
      <4> QED
        BY <3>1, <4>1
    <3>2. CASE i \in 0 .. k
      <4>1. h[i] = g[i] /\ (i # 0 => h[i - 1] = g[i - 1])
        BY <3>2
      <4> QED
        BY <2>2, <3>2, <4>1
    <3> QED
      BY <3>1, <3>2
  <2>4. h = [i \in 0 .. k + 1 |-> h[i]]
    OBVIOUS
  <2> HIDE DEF h
  <2>5. Loop(lines, k + 1, h)
    BY <2>3, <2>4 DEF Loop
  <2> QED
    BY <2>5
<1> HIDE DEF S
<1>3. n \in S
  BY <1>1, <1>2, UpTo
<1> QED
  BY <1>3 DEF S

\* The points of a file are those of the loop after its last line.
LEMMA ConfiguredByLoop ==
    ASSUME NEW lines, Len(lines) \in Nat
    PROVE  \E g : Loop(lines, Len(lines), g) /\ Configured(lines) = g[Len(lines)]
<1> DEFINE g == CHOOSE h : Loop(lines, Len(lines), h)
<1>1. Loop(lines, Len(lines), g)
  BY LoopExists
<1>2. Configured(lines) = g[Len(lines)]
  BY DEF Configured, Loop
<1> QED
  BY <1>1, <1>2

\* Loops over files that begin alike agree there.
LEMMA LoopsAgree ==
    ASSUME NEW n \in Nat, NEW m \in Nat, n <= m, NEW lines, NEW more, NEW g, NEW h,
           Loop(lines, n, g), Loop(more, m, h), \A i \in 1 .. n : lines[i] = more[i]
    PROVE  g[n] = h[n]
<1> DEFINE S == {k \in 0 .. n : g[k] = h[k]}
<1>1. \A k \in 0 .. n : g[k] = IF k = 0 THEN <<>>
                               ELSE IF IsPoint(lines[k])
                                    THEN Append(g[k - 1], ReadPoint(lines[k]))
                               ELSE g[k - 1]
  BY DEF Loop
<1>2. \A k \in 0 .. m : h[k] = IF k = 0 THEN <<>>
                               ELSE IF IsPoint(more[k])
                                    THEN Append(h[k - 1], ReadPoint(more[k]))
                               ELSE h[k - 1]
  BY DEF Loop
<1>3. 0 \in S
  BY <1>1, <1>2
<1>4. ASSUME NEW k \in 0 .. n - 1, k \in S PROVE k + 1 \in S
  <2>1. k + 1 \in 0 .. n /\ k + 1 \in 0 .. m /\ k + 1 # 0 /\ (k + 1) - 1 = k /\ k + 1 \in 1 .. n
    OBVIOUS
  <2>2. lines[k + 1] = more[k + 1] /\ g[k] = h[k]
    BY <1>4, <2>1
  <2>3. g[k + 1] = h[k + 1]
    BY <1>1, <1>2, <2>1, <2>2
  <2> QED
    BY <2>1, <2>3
<1> HIDE DEF S
<1>5. n \in S
  BY <1>3, <1>4, UpTo
<1> QED
  BY <1>5 DEF S

LEMMA ConfiguredEmpty == Configured(<<>>) = <<>>
<1>1. Len(<<>>) = 0
  OBVIOUS
<1>2. PICK g : Loop(<<>>, 0, g) /\ Configured(<<>>) = g[0]
  BY <1>1, ConfiguredByLoop
<1> QED
  BY <1>2 DEF Loop

LEMMA ConfiguredAppend ==
    ASSUME NEW S, NEW lines \in Seq(S), NEW l \in S
    PROVE  Configured(Append(lines, l)) = IF IsPoint(l) THEN Append(Configured(lines), ReadPoint(l))
                                          ELSE Configured(lines)
<1> DEFINE more == Append(lines, l)
           n == Len(lines)
<1>1. /\ n \in Nat /\ Len(more) = n + 1 /\ more[n + 1] = l
      /\ \A i \in 1 .. n : lines[i] = more[i]
  BY AppendProperties
<1> HIDE DEF more, n
<1>2. PICK g : Loop(lines, n, g) /\ Configured(lines) = g[n]
  BY <1>1, ConfiguredByLoop DEF n
<1>3. PICK h : Loop(more, n + 1, h) /\ Configured(more) = h[n + 1]
  BY <1>1, ConfiguredByLoop
<1>4. g[n] = h[n]
  BY <1>1, <1>2, <1>3, LoopsAgree
<1>5. h[n + 1] = IF IsPoint(l) THEN Append(h[n], ReadPoint(l)) ELSE h[n]
  <2>1. \A k \in 0 .. n + 1 : h[k] = IF k = 0 THEN <<>>
                                     ELSE IF IsPoint(more[k])
                                          THEN Append(h[k - 1], ReadPoint(more[k]))
                                     ELSE h[k - 1]
    BY <1>3 DEF Loop
  <2>2. n + 1 \in 0 .. n + 1 /\ n + 1 # 0 /\ (n + 1) - 1 = n
    BY <1>1
  <2> QED
    BY <1>1, <2>1, <2>2
<1> QED
  BY <1>2, <1>3, <1>4, <1>5 DEF more

\* Induction over sequences: what holds of the empty one and is kept by Append.
LEMMA SeqUpTo ==
    ASSUME NEW S, NEW T, <<>> \in T, \A s \in Seq(S), e \in S : s \in T => Append(s, e) \in T
    PROVE  Seq(S) \subseteq T
<1> SUFFICES ASSUME NEW s \in Seq(S) PROVE s \in T
  OBVIOUS
<1> DEFINE K == {k \in 0 .. Len(s) : SubSeq(s, 1, k) \in T}
<1>1. 0 \in K
  <2>1. SubSeq(s, 1, 0) = <<>>
    BY SubSeqEmpty
  <2>2. 0 \in 0 .. Len(s)
    OBVIOUS
  <2>3. SubSeq(s, 1, 0) \in T
    BY <2>1, Zenon
  <2> QED
    BY <2>2, <2>3
<1>2. ASSUME NEW k \in 0 .. Len(s) - 1, k \in K PROVE k + 1 \in K
  <2>1. SubSeq(s, 1, k) \in T /\ SubSeq(s, 1, k) \in Seq(S) /\ s[k + 1] \in S
    BY <1>2
  <2>2. SubSeq(s, 1, k + 1) = Append(SubSeq(s, 1, k), s[k + 1])
    <3>1. 1 \in 1 .. Len(s) /\ k + 1 \in 1 .. Len(s) /\ (k + 1) - 1 = k
      OBVIOUS
    <3>2. SubSeq(s, 1, k + 1) = SubSeq(s, 1, k) \o <<s[k + 1]>>
      BY <3>1, SubSeqRecursiveSecond
    <3> QED
      BY <2>1, <3>2, AppendIsConcat
  <2>3. SubSeq(s, 1, k + 1) \in T
    BY <2>1, <2>2
  <2> QED
    BY <2>3
<1> HIDE DEF K
<1>3. Len(s) \in K
  <2>1. Len(s) \in Nat
    OBVIOUS
  <2>2. \A k \in 0 .. Len(s) : k \in K
    BY <1>1, <1>2, <2>1, UpTo
  <2> QED
    BY <2>1, <2>2
<1>4. SubSeq(s, 1, Len(s)) = s
  BY SubSeqFull
<1> QED
  BY <1>3, <1>4 DEF K

LEMMA ReadPointType ==
    ASSUME NEW l \in Lines
    PROVE  ReadPoint(l) \in ReadPoints
<1>1. l.name \in Names /\ l.kind \in Kinds /\ l.idx \in Nat
  BY DEF Lines
<1>2. l.idx % IndexMod \in 0 .. IndexMod - 1
  BY <1>1, SizesAssumption
<1> QED
  BY <1>1, <1>2 DEF ReadPoint, ReadPoints

LEMMA ConfiguredType ==
    ASSUME NEW lines \in Seq(Lines)
    PROVE  Configured(lines) \in Seq(ReadPoints)
<1> DEFINE T == {s \in Seq(Lines) : Configured(s) \in Seq(ReadPoints)}
<1>1. <<>> \in T
  <2>1. <<>> \in Seq(ReadPoints) /\ <<>> \in Seq(Lines)
    OBVIOUS
  <2> QED
    BY <2>1, ConfiguredEmpty
<1>2. ASSUME NEW s \in Seq(Lines), NEW l \in Lines, s \in T PROVE Append(s, l) \in T
  <2>1. Configured(s) \in Seq(ReadPoints) /\ ReadPoint(l) \in ReadPoints
    BY <1>2, ReadPointType
  <2>2. Append(s, l) \in Seq(Lines)
    OBVIOUS
  <2>3. Configured(Append(s, l)) \in Seq(ReadPoints)
    <3>1. Append(Configured(s), ReadPoint(l)) \in Seq(ReadPoints)
      BY <2>1, AppendProperties
    <3> QED
      BY <2>1, <3>1, ConfiguredAppend
  <2> QED
    BY <2>2, <2>3
<1> HIDE DEF T
<1>3. lines \in T
  BY <1>1, <1>2, SeqUpTo
<1> QED
  BY <1>3 DEF T

\* Every point read comes from a line of the file.
LEMMA ConfiguredFrom ==
    ASSUME NEW lines \in Seq(Lines), NEW i \in DOMAIN Configured(lines)
    PROVE  \E j \in DOMAIN lines : IsPoint(lines[j]) /\ Configured(lines)[i] = ReadPoint(lines[j])
<1> DEFINE From(s) == \A n \in DOMAIN Configured(s) : \E j \in DOMAIN s :
                          IsPoint(s[j]) /\ Configured(s)[n] = ReadPoint(s[j])
           T == {s \in Seq(Lines) : From(s)}
<1>1. <<>> \in T
  <2>1. DOMAIN Configured(<<>>) = {}
    BY ConfiguredEmpty
  <2> QED
    BY <2>1
<1>2. ASSUME NEW s \in Seq(Lines), NEW l \in Lines, s \in T PROVE Append(s, l) \in T
  <2> DEFINE q == Configured(s)
             r == Append(q, ReadPoint(l))
             m == Append(s, l)
  <2>1. q \in Seq(ReadPoints) /\ ReadPoint(l) \in ReadPoints
    BY ConfiguredType, ReadPointType
  <2>2. /\ m \in Seq(Lines) /\ DOMAIN m = 1 .. Len(s) + 1 /\ DOMAIN s = 1 .. Len(s)
        /\ m[Len(s) + 1] = l /\ \A j \in 1 .. Len(s) : m[j] = s[j]
    BY AppendProperties
  <2>3. Configured(m) = IF IsPoint(l) THEN r ELSE q
    BY ConfiguredAppend
  <2>4. /\ DOMAIN r = 1 .. Len(q) + 1 /\ DOMAIN q = 1 .. Len(q) /\ Len(q) \in Nat
        /\ r[Len(q) + 1] = ReadPoint(l) /\ \A j \in 1 .. Len(q) : r[j] = q[j]
    BY <2>1, AppendProperties
  <2> HIDE DEF m, q, r
  <2>5. \A n \in DOMAIN q : \E j \in DOMAIN m : IsPoint(m[j]) /\ q[n] = ReadPoint(m[j])
    <3> SUFFICES ASSUME NEW n \in DOMAIN q
                 PROVE  \E j \in DOMAIN m : IsPoint(m[j]) /\ q[n] = ReadPoint(m[j])
      OBVIOUS
    <3>1. PICK j \in DOMAIN s : IsPoint(s[j]) /\ q[n] = ReadPoint(s[j])
      BY <1>2 DEF q
    <3>2. j \in DOMAIN m /\ m[j] = s[j]
      BY <2>2
    <3> QED
      BY <3>1, <3>2
  <2>6. CASE IsPoint(l)
    <3>1. Configured(m) = r
      BY <2>3, <2>6
    <3>2. ASSUME NEW n \in DOMAIN r
          PROVE  \E j \in DOMAIN m : IsPoint(m[j]) /\ r[n] = ReadPoint(m[j])
      <4>1. CASE n = Len(q) + 1
        <5>1. Len(s) + 1 \in DOMAIN m /\ IsPoint(m[Len(s) + 1])
          BY <2>2, <2>6
        <5> QED
          BY <2>2, <2>4, <4>1, <5>1
      <4>2. CASE n # Len(q) + 1
        <5>1. n \in DOMAIN q /\ r[n] = q[n]
          BY <2>4, <4>2
        <5> QED
          BY <2>5, <5>1
      <4> QED
        BY <4>1, <4>2
    <3> QED
      BY <2>2, <3>1, <3>2 DEF m
  <2>7. CASE ~IsPoint(l)
    <3>1. Configured(m) = q
      BY <2>3, <2>7
    <3> QED
      BY <2>2, <2>5, <3>1 DEF m
  <2> QED
    BY <2>6, <2>7
<1>3. lines \in T
  <2> HIDE DEF T
  <2> QED
    BY <1>1, <1>2, SeqUpTo
<1> QED
  BY <1>3

(***************************************************************************)
(* Leading parts of a file.                                                *)
(***************************************************************************)
\* q is a leading part of p.
Leads(q, p) == Len(q) <= Len(p) /\ \A i \in 1 .. Len(q) : q[i] = p[i]

\* The first k lines give the first points, and line k + 1, if it is a point, the next.
ReadsInOrder(lines, k) ==
    LET q == Configured(SubSeq(lines, 1, k))
        p == Configured(lines)
    IN  /\ Leads(q, p)
        /\ k < Len(lines) /\ IsPoint(lines[k + 1]) =>
               Len(q) < Len(p) /\ p[Len(q) + 1] = ReadPoint(lines[k + 1])

LEMMA SubSeqOfAppend ==
    ASSUME NEW S, NEW s \in Seq(S), NEW l \in S, NEW k \in 0 .. Len(s)
    PROVE  SubSeq(Append(s, l), 1, k) = SubSeq(s, 1, k)
<1> DEFINE m == Append(s, l)
<1>1. m \in Seq(S) /\ Len(m) = Len(s) + 1 /\ \A i \in 1 .. Len(s) : m[i] = s[i]
  BY AppendProperties
<1>2. Len(s) \in Nat /\ \A i \in 1 .. k : s[i] \in S
  OBVIOUS
<1> HIDE DEF m
<1>3. \A i \in 1 .. k : m[i] \in S /\ m[i] = s[i]
  BY <1>1, <1>2
<1>4. /\ SubSeq(m, 1, k) \in Seq(S) /\ Len(SubSeq(m, 1, k)) = k
      /\ \A i \in 1 .. k : SubSeq(m, 1, k)[i] = m[i]
  BY <1>3, SubSeqProperties
<1>5. /\ SubSeq(s, 1, k) \in Seq(S) /\ Len(SubSeq(s, 1, k)) = k
      /\ \A i \in 1 .. k : SubSeq(s, 1, k)[i] = s[i]
  BY <1>2, SubSeqProperties
<1>6. SubSeq(m, 1, k) = SubSeq(s, 1, k)
  BY <1>3, <1>4, <1>5, SeqEqual
<1> QED
  BY <1>6 DEF m

LEMMA ConfiguredInOrder ==
    ASSUME NEW lines \in Seq(Lines), NEW k \in 0 .. Len(lines)
    PROVE  ReadsInOrder(lines, k)
<1> DEFINE T == {s \in Seq(Lines) : \A n \in 0 .. Len(s) : ReadsInOrder(s, n)}
<1>1. <<>> \in T
  <2>1. <<>> \in Seq(Lines) /\ Len(<<>>) = 0
    OBVIOUS
  <2>2. SubSeq(<<>>, 1, 0) = <<>>
    BY SubSeqEmpty
  <2>3. Configured(SubSeq(<<>>, 1, 0)) = <<>>
    BY <2>2, ConfiguredEmpty, Zenon
  <2>4. Leads(<<>>, <<>>) /\ ~(0 < Len(<<>>))
    BY DEF Leads
  <2>5. ReadsInOrder(<<>>, 0)
    BY <2>3, <2>4, ConfiguredEmpty, Zenon DEF ReadsInOrder
  <2> QED
    BY <2>1, <2>5
<1>2. ASSUME NEW s \in Seq(Lines), NEW l \in Lines, s \in T PROVE Append(s, l) \in T
  <2> DEFINE m == Append(s, l)
             p == Configured(s)
             r == Configured(m)
  <2>1. /\ m \in Seq(Lines) /\ Len(m) = Len(s) + 1 /\ Len(s) \in Nat
        /\ m[Len(s) + 1] = l /\ \A i \in 1 .. Len(s) : m[i] = s[i]
    BY AppendProperties
  <2>2. p \in Seq(ReadPoints) /\ ReadPoint(l) \in ReadPoints
    BY ConfiguredType, ReadPointType
  <2>3. r = IF IsPoint(l) THEN Append(p, ReadPoint(l)) ELSE p
    BY ConfiguredAppend
  <2>4. /\ Len(p) \in Nat /\ Leads(p, r) /\ Len(r) \in Nat
        /\ IsPoint(l) => Len(p) < Len(r) /\ r[Len(p) + 1] = ReadPoint(l)
    BY <2>2, <2>3, AppendProperties DEF Leads
  <2>5. ASSUME NEW n \in 0 .. Len(m) PROVE ReadsInOrder(m, n)
    <3>1. CASE n = Len(m)
      <4>1. SubSeq(m, 1, n) = m
        BY <2>1, <3>1, SubSeqFull
      <4>2. Leads(r, r) /\ ~(n < Len(m))
        BY <2>1, <2>4, <3>1 DEF Leads
      <4> HIDE DEF m
      <4> QED
        BY <4>1, <4>2, Zenon DEF ReadsInOrder
    <3>2. CASE n \in 0 .. Len(s)
      <4> DEFINE q == Configured(SubSeq(s, 1, n))
      <4>1. SubSeq(m, 1, n) = SubSeq(s, 1, n)
        BY <3>2, SubSeqOfAppend
      <4>2. /\ Leads(q, p)
            /\ n < Len(s) /\ IsPoint(s[n + 1]) =>
                   Len(q) < Len(p) /\ p[Len(q) + 1] = ReadPoint(s[n + 1])
        BY <1>2, <3>2 DEF ReadsInOrder
      <4>3. q \in Seq(ReadPoints) /\ Len(q) \in Nat
        <5>1. SubSeq(s, 1, n) \in Seq(Lines)
          BY <3>2
        <5>2. q \in Seq(ReadPoints)
          BY <5>1, ConfiguredType, Zenon
        <5> HIDE DEF q
        <5> QED
          BY <5>2
      <4> HIDE DEF q, p, r, m
      <4>4. Leads(q, r)
        BY <2>4, <4>2, <4>3 DEF Leads
      <4>5. ASSUME n < Len(m), IsPoint(m[n + 1])
            PROVE  Len(q) < Len(r) /\ r[Len(q) + 1] = ReadPoint(m[n + 1])
        <5>1. CASE n = Len(s)
          <6>1. m[n + 1] = l /\ q = p
            <7>1. SubSeq(s, 1, n) = s
              BY <5>1, SubSeqFull
            <7> QED
              BY <2>1, <5>1, <7>1 DEF q, p
          <6> QED
            BY <2>4, <4>5, <6>1
        <5>2. CASE n < Len(s)
          <6>1. m[n + 1] = s[n + 1]
            BY <2>1, <3>2, <5>2
          <6>2. Len(q) < Len(p) /\ p[Len(q) + 1] = ReadPoint(m[n + 1])
            BY <4>2, <4>5, <5>2, <6>1
          <6>3. Len(q) + 1 \in 1 .. Len(p)
            BY <2>4, <4>3, <6>2
          <6>4. p[Len(q) + 1] = r[Len(q) + 1] /\ Len(p) <= Len(r)
            BY <2>4, <6>3 DEF Leads
          <6> QED
            BY <2>4, <4>3, <6>2, <6>4
        <5> QED
          BY <2>1, <3>2, <5>1, <5>2
      <4> QED
        BY <4>1, <4>4, <4>5 DEF ReadsInOrder, q, r
    <3> QED
      BY <2>1, <3>1, <3>2
  <2> QED
    BY <2>1, <2>5
<1>3. lines \in T
  <2> HIDE DEF T
  <2> QED
    BY <1>1, <1>2, SeqUpTo
<1> QED
  BY <1>3

\* A leading part is a subsequence.
LEMMA LeadingPart ==
    ASSUME NEW S, NEW q \in Seq(S), NEW p \in Seq(S), Leads(q, p)
    PROVE  q = SubSeq(p, 1, Len(q))
<1>1. Len(q) \in Nat /\ Len(p) \in Nat /\ \A i \in 1 .. Len(q) : p[i] \in S
  BY DEF Leads
<1>2. /\ SubSeq(p, 1, Len(q)) \in Seq(S) /\ Len(SubSeq(p, 1, Len(q))) = Len(q)
      /\ \A i \in 1 .. Len(q) : SubSeq(p, 1, Len(q))[i] = p[i]
  BY <1>1, SubSeqProperties
<1>3. \A i \in 1 .. Len(q) : q[i] = p[i]
  BY DEF Leads
<1> QED
  BY <1>2, <1>3, SeqEqual

(***************************************************************************)
(* What a rewrite saves is what the next reading finds.                    *)
(***************************************************************************)
Written(p) == [form |-> "point", name |-> p.name, kind |-> p.kind, idx |-> p.idx]

LEMMA WrittenIsRead ==
    ASSUME NEW p \in ReadPoints
    PROVE  Written(p) \in Lines /\ IsPoint(Written(p)) /\ ReadPoint(Written(p)) = p
<1>1. p.idx \in 0 .. IndexMod - 1 /\ p.name \in Names /\ p.kind \in Kinds
  BY DEF ReadPoints
<1>2. p.idx % IndexMod = p.idx /\ p.idx \in Nat
  BY <1>1, SizesAssumption
<1>3. p = [name |-> p.name, kind |-> p.kind, idx |-> p.idx]
  BY DEF ReadPoints
<1> QED
  BY <1>1, <1>2, <1>3 DEF Written, Lines, IsPoint, ReadPoint

LEMMA CommentIsNoPoint == Comment \in Lines /\ Bad \in Lines /\ ~IsPoint(Comment) /\ ~IsPoint(Bad)
BY LinesAssumption DEF Comment, Bad, Lines, Kinds, IsPoint

LEMMA SavedType ==
    ASSUME NEW pts \in Seq(ReadPoints)
    PROVE  /\ Saved(pts) \in Seq(Lines) /\ Len(Saved(pts)) = Len(pts) + 1 /\ Saved(pts)[1] = Comment
           /\ \A i \in 1 .. Len(pts) : Saved(pts)[i + 1] = Written(pts[i])
<1> DEFINE rows == [i \in 1 .. Len(pts) |-> Written(pts[i])]
<1>1. \A i \in 1 .. Len(pts) : Written(pts[i]) \in Lines
  BY WrittenIsRead
<1>2. rows \in Seq(Lines) /\ Len(rows) = Len(pts) /\ \A i \in 1 .. Len(pts) : rows[i] = Written(pts[i])
  BY <1>1
<1>3. Saved(pts) = <<Comment>> \o rows
  BY DEF Saved, Written
<1>4. <<Comment>> \in Seq(Lines) /\ Len(<<Comment>>) = 1 /\ <<Comment>>[1] = Comment
  BY CommentIsNoPoint
<1> HIDE DEF rows
<1>5. /\ Saved(pts) \in Seq(Lines) /\ Len(Saved(pts)) = 1 + Len(pts)
      /\ \A i \in 1 .. 1 + Len(pts) : Saved(pts)[i] = IF i <= 1 THEN <<Comment>>[i] ELSE rows[i - 1]
  BY <1>2, <1>3, <1>4, ConcatProperties
<1>6. Len(pts) \in Nat
  OBVIOUS
<1>7. ASSUME NEW i \in 1 .. Len(pts) PROVE Saved(pts)[i + 1] = Written(pts[i])
  <2>1. i + 1 \in 1 .. 1 + Len(pts) /\ ~(i + 1 <= 1) /\ (i + 1) - 1 = i
    OBVIOUS
  <2> QED
    BY <1>2, <1>5, <2>1
<1> QED
  BY <1>4, <1>5, <1>6, <1>7

\* What SaveProfileReadPointsToCsv writes, the reading loop of the next boot and of
\* the page reads back point by point, for a list of any length: the index that it
\* narrows has been narrowed already.
THEOREM ConfiguredSaved ==
    ASSUME NEW pts \in Seq(ReadPoints)
    PROVE  Configured(Saved(pts)) = pts
<1> DEFINE T == {s \in Seq(ReadPoints) : Configured(Saved(s)) = s}
<1>1. <<>> \in T
  <2>1. <<>> \in Seq(ReadPoints) /\ <<>> \in Seq(Lines) /\ Len(<<>>) = 0
    OBVIOUS
  <2>2. Saved(<<>>) = Append(<<>>, Comment)
    <3>1. /\ Saved(<<>>) \in Seq(Lines) /\ Len(Saved(<<>>)) = 1 /\ Saved(<<>>)[1] = Comment
      <4> DEFINE e == <<>>
      <4>1. e \in Seq(ReadPoints) /\ Len(e) = 0
        BY <2>1
      <4> HIDE DEF e
      <4>2. Saved(e) \in Seq(Lines) /\ Len(Saved(e)) = Len(e) + 1 /\ Saved(e)[1] = Comment
        BY <4>1, SavedType, Zenon
      <4>3. Saved(e) \in Seq(Lines) /\ Len(Saved(e)) = 1 /\ Saved(e)[1] = Comment
        BY <4>1, <4>2
      <4> QED
        BY <4>3 DEF e
    <3>2. /\ Append(<<>>, Comment) \in Seq(Lines) /\ Len(Append(<<>>, Comment)) = 1
          /\ Append(<<>>, Comment)[1] = Comment
      BY <2>1, CommentIsNoPoint, AppendProperties
    <3> QED
      BY <3>1, <3>2, SeqEqual
  <2>3. Configured(Saved(<<>>)) = Configured(<<>>)
    BY <2>1, <2>2, CommentIsNoPoint, ConfiguredAppend
  <2> QED
    BY <2>1, <2>3, ConfiguredEmpty
<1>2. ASSUME NEW s \in Seq(ReadPoints), NEW p \in ReadPoints, s \in T PROVE Append(s, p) \in T
  <2> DEFINE m == Append(s, p)
  <2>1. /\ m \in Seq(ReadPoints) /\ Len(m) = Len(s) + 1 /\ Len(s) \in Nat
        /\ m[Len(s) + 1] = p /\ \A i \in 1 .. Len(s) : m[i] = s[i]
    BY AppendProperties
  <2>2. Written(p) \in Lines /\ IsPoint(Written(p)) /\ ReadPoint(Written(p)) = p
    BY WrittenIsRead
  <2>3. Saved(m) = Append(Saved(s), Written(p))
    <3> DEFINE a == Saved(m)
               b == Append(Saved(s), Written(p))
    <3>1. /\ Saved(s) \in Seq(Lines) /\ Len(Saved(s)) = Len(s) + 1 /\ Saved(s)[1] = Comment
          /\ \A i \in 1 .. Len(s) : Saved(s)[i + 1] = Written(s[i])
      BY SavedType
    <3>2. /\ a \in Seq(Lines) /\ Len(a) = Len(m) + 1 /\ a[1] = Comment
          /\ \A i \in 1 .. Len(m) : a[i + 1] = Written(m[i])
      <4> HIDE DEF m
      <4> QED
        BY <2>1, SavedType
    <3>3. /\ b \in Seq(Lines) /\ Len(b) = Len(Saved(s)) + 1
          /\ b[Len(Saved(s)) + 1] = Written(p)
          /\ \A i \in 1 .. Len(Saved(s)) : b[i] = Saved(s)[i]
      BY <2>2, <3>1, AppendProperties
    <3> HIDE DEF a, b, m
    <3>4. ASSUME NEW i \in 1 .. Len(a) PROVE a[i] = b[i]
      <4>1. CASE i = 1
        BY <2>1, <3>1, <3>2, <3>3, <4>1
      <4>2. CASE i \in 2 .. Len(s) + 1
        <5> DEFINE j == i - 1
        <5>1. j \in 1 .. Len(s) /\ j \in 1 .. Len(m) /\ j + 1 = i
          BY <2>1, <4>2
        <5> HIDE DEF j
        <5>2. a[i] = Written(m[j]) /\ Saved(s)[i] = Written(s[j]) /\ m[j] = s[j]
          BY <2>1, <3>1, <3>2, <5>1
        <5>3. b[i] = Saved(s)[i]
          BY <2>1, <3>1, <3>3, <4>2
        <5> QED
          BY <5>2, <5>3
      <4>3. CASE i = Len(s) + 2
        <5>1. Len(s) + 1 \in 1 .. Len(m) /\ (Len(s) + 1) + 1 = i
          BY <2>1, <4>3
        <5>2. a[i] = Written(p)
          BY <2>1, <3>2, <5>1
        <5>3. b[i] = Written(p)
          BY <2>1, <3>1, <3>3, <5>1
        <5> QED
          BY <5>2, <5>3
      <4> QED
        BY <2>1, <3>2, <4>1, <4>2, <4>3
    <3>5. Len(a) = Len(b)
      BY <2>1, <3>1, <3>2, <3>3
    <3>6. a = b
      BY <3>2, <3>3, <3>4, <3>5, SeqEqual
    <3> QED
      BY <3>6 DEF a, b
  <2>4. Configured(Saved(m)) = Append(Configured(Saved(s)), p)
    <3>1. Saved(s) \in Seq(Lines)
      BY SavedType
    <3> HIDE DEF m
    <3> QED
      BY <2>2, <2>3, <3>1, ConfiguredAppend
  <2>5. Configured(Saved(m)) = m
    BY <1>2, <2>4
  <2> QED
    BY <2>1, <2>5
<1>3. pts \in T
  <2> HIDE DEF T
  <2> QED
    BY <1>1, <1>2, SeqUpTo
<1> QED
  BY <1>3

(***************************************************************************)
(* Types.                                                                  *)
(***************************************************************************)
LEMMA NoPointType ==
    ASSUME NEW l \in Lines
    PROVE  NoPoint(l) \in Lines /\ ~IsPoint(NoPoint(l))
BY DEF NoPoint, Lines, IsPoint

\* What an unended line becomes is a line.
LEMMA JoinedType ==
    ASSUME NEW m \in Lines, NEW l \in Lines, NEW j \in Joined(m, l)
    PROVE  j \in Lines
<1>1. m.form \in {"comment", "point", "bad"} /\ 0 .. IndexMod - 1 \subseteq Nat
  BY SizesAssumption DEF Lines
<1>2. \/ j = m
      \/ j = NoPoint(m)
      \/ \E i \in 0 .. IndexMod - 1 : j = [m EXCEPT !.form = "point", !.idx = i]
      \/ \E n \in Names : j = [l EXCEPT !.name = n]
  <2> DEFINE Indexed == {[m EXCEPT !.form = "point", !.idx = i] : i \in 0 .. IndexMod - 1}
             Named == {[l EXCEPT !.name = n] : n \in IF m.name = "" THEN Names ELSE {}}
  <2>1. j \in Indexed => \E i \in 0 .. IndexMod - 1 : j = [m EXCEPT !.form = "point", !.idx = i]
    OBVIOUS
  <2>2. j \in Named => \E n \in Names : j = [l EXCEPT !.name = n]
    OBVIOUS
  <2>3. Joined(m, l) = CASE m.form = "comment" -> {m}
                         [] m.form = "point" -> {m, NoPoint(m)} \cup Indexed
                         [] m.form = "bad" -> {m} \cup Indexed \cup Named
    BY DEF Joined
  <2> HIDE DEF Indexed, Named
  <2>4. j \in {m, NoPoint(m)} \/ j \in Indexed \/ j \in Named
    BY <1>1, <2>3
  <2> QED
    BY <2>1, <2>2, <2>4
<1>3. ASSUME NEW i \in 0 .. IndexMod - 1 PROVE [m EXCEPT !.form = "point", !.idx = i] \in Lines
  BY <1>1 DEF Lines
<1>4. ASSUME NEW n \in Names PROVE [l EXCEPT !.name = n] \in Lines
  BY DEF Lines
<1> QED
  BY <1>2, <1>3, <1>4, NoPointType

\* A piece of a line is a line; it is a point only if the line was one, of the same
\* name and kind.
LEMMA PiecesType ==
    ASSUME NEW l \in Lines, NEW q \in Pieces(l)
    PROVE  q \in Lines /\ (IsPoint(q) => IsPoint(l) /\ q.name = l.name /\ q.kind = l.kind)
<1>1. /\ l.form \in {"comment", "bad", "point"} /\ l.name \in Names /\ l.kind \in Kinds
      /\ l.idx \in Nat
  BY DEF Lines
<1>2. CASE IsPoint(l)
  <2> DEFINE Powers == {Radix, Radix * Radix, Radix * Radix * Radix,
                        Radix * Radix * Radix * Radix}
  <2>1. Powers \subseteq Nat \ {0}
    <3>1. Radix \in Nat /\ Radix > 0
      BY SizesAssumption
    <3>2. ASSUME NEW a \in Nat, NEW b \in Nat, a > 0, b > 0 PROVE a * b \in Nat /\ a * b > 0
      BY <3>2
    <3>3. Radix * Radix \in Nat /\ Radix * Radix > 0
      BY <3>1, <3>2
    <3>4. Radix * Radix * Radix \in Nat /\ Radix * Radix * Radix > 0
      BY <3>1, <3>2, <3>3
    <3>5. Radix * Radix * Radix * Radix \in Nat /\ Radix * Radix * Radix * Radix > 0
      BY <3>1, <3>2, <3>4
    <3> QED
      BY <3>1, <3>3, <3>4, <3>5
  <2> HIDE DEF Powers
  <2>2. \/ q = Bad
        \/ q = NoPoint(l)
        \/ \E d \in Powers : q = [l EXCEPT !.idx = @ \div d]
    BY <1>2 DEF Pieces, Powers
  <2>3. CASE q = Bad
    BY <2>3, CommentIsNoPoint
  <2>4. CASE q = NoPoint(l)
    BY <2>4, NoPointType
  <2>5. ASSUME NEW d \in Powers, q = [l EXCEPT !.idx = @ \div d]
        PROVE  q \in Lines /\ q.name = l.name /\ q.kind = l.kind
    <3>1. l.idx \div d \in Nat
      BY <1>1, <2>1
    <3> QED
      BY <1>1, <2>5, <3>1 DEF Lines
  <2> QED
    BY <1>2, <2>2, <2>3, <2>4, <2>5
<1>3. CASE ~IsPoint(l)
  BY <1>3 DEF Pieces
<1> QED
  BY <1>2, <1>3

Writes == [lines : Seq(Lines), next : {"analog", "serving"}]

LEMMA LastIs ==
    ASSUME NEW s \in Seq(Lines), s # <<>>
    PROVE  Last(s) \in Lines /\ Front(s) \in Seq(Lines) /\ s = Append(Front(s), Last(s))
<1>1. Len(s) \in Nat /\ Len(s) \in 1 .. Len(s)
  OBVIOUS
<1>2. Last(s) \in Lines /\ Front(s) \in Seq(Lines)
  BY <1>1 DEF Last, Front
<1>3. SubSeq(s, 1, Len(s)) = Append(SubSeq(s, 1, Len(s) - 1), s[Len(s)])
  <2>1. 1 \in 1 .. Len(s)
    BY <1>1
  <2>2. SubSeq(s, 1, Len(s)) = SubSeq(s, 1, Len(s) - 1) \o <<s[Len(s)]>>
    BY <1>1, <2>1, SubSeqRecursiveSecond
  <2>3. SubSeq(s, 1, Len(s) - 1) \in Seq(Lines) /\ s[Len(s)] \in Lines
    BY <1>2 DEF Last, Front
  <2> QED
    BY <2>2, <2>3, AppendIsConcat
<1>4. SubSeq(s, 1, Len(s)) = s
  BY SubSeqFull
<1> QED
  BY <1>2, <1>3, <1>4 DEF Last, Front

\* What a write that is cut short leaves: leading lines, perhaps a piece of the next,
\* or another last line where the write continues one.
LEMMA CutShortIs ==
    ASSUME NEW b \in Disks, NEW w \in Writes, NEW d \in CutShort(b, w)
    PROVE  /\ d.exists = TRUE /\ d.whole \in BOOLEAN
           /\ d = [exists |-> d.exists, lines |-> d.lines, whole |-> d.whole]
           /\ \/ \E k \in 0 .. Len(w.lines) :
                     \/ d.lines = SubSeq(w.lines, 1, k)
                     \/ /\ k < Len(w.lines)
                        /\ \E q \in Pieces(w.lines[k + 1]) :
                               d.lines = Append(SubSeq(w.lines, 1, k), q)
              \/ /\ Continues(b, w) /\ w.lines # <<>>
                 /\ \E j \in Lines : d.lines = Append(Front(w.lines), j)
<1> DEFINE n == Len(b.lines)
           Whole(k, e) == [exists |-> TRUE, lines |-> SubSeq(w.lines, 1, k), whole |-> e]
           Piece(k, q) == [exists |-> TRUE, lines |-> Append(SubSeq(w.lines, 1, k), q),
                           whole |-> FALSE]
           A == {Whole(k, e) : k \in n .. Len(w.lines), e \in BOOLEAN}
           B == UNION {{Piece(k, q) : q \in Pieces(w.lines[k + 1])} : k \in n .. Len(w.lines) - 1}
           Ending(j) == [exists |-> TRUE, lines |-> Append(Front(w.lines), j), whole |-> FALSE]
           C == UNION {{Ending(j) : j \in Joined(Last(b.lines), l)} : l \in Begun(b, w)}
<1>1. /\ w.lines \in Seq(Lines) /\ Len(w.lines) \in Nat
      /\ b.lines \in Seq(Lines) /\ n \in Nat
  BY DEF Writes, Disks
<1>2. d \in A \/ d \in B \/ d \in C
  <2>1. d \in CutLines(b, w) => d \in A \/ d \in B
    BY DEF CutLines
  <2>2. CutJoins(b, w) = C
    BY DEF CutJoins
  <2> HIDE DEF A, B, C
  <2> QED
    BY <2>1, <2>2 DEF CutShort
<1>3. d \in A => \E k \in n .. Len(w.lines), e \in BOOLEAN : d = Whole(k, e)
  OBVIOUS
<1>4. d \in B => \E k \in n .. Len(w.lines) - 1 : \E q \in Pieces(w.lines[k + 1]) : d = Piece(k, q)
  BY Zenon
<1>5. d \in C => \E l \in Begun(b, w) : \E j \in Joined(Last(b.lines), l) : d = Ending(j)
  BY Zenon
<1>6. ASSUME NEW k \in n .. Len(w.lines), NEW e \in BOOLEAN, d = Whole(k, e)
      PROVE  /\ d.exists = TRUE /\ d.whole = e /\ d.lines = SubSeq(w.lines, 1, k)
             /\ d = [exists |-> d.exists, lines |-> d.lines, whole |-> d.whole]
             /\ k \in 0 .. Len(w.lines)
  BY <1>1, <1>6
<1>7. ASSUME NEW k, NEW q, d = Piece(k, q)
      PROVE  /\ d.exists = TRUE /\ d.whole = FALSE /\ d.lines = Append(SubSeq(w.lines, 1, k), q)
             /\ d = [exists |-> d.exists, lines |-> d.lines, whole |-> d.whole]
  BY <1>7
<1> HIDE DEF A, B, C, Whole, Piece
<1>8. CASE d \in A
  BY <1>3, <1>6, <1>8
<1>9. CASE d \in B
  <2>1. PICK k \in n .. Len(w.lines) - 1 : \E q \in Pieces(w.lines[k + 1]) : d = Piece(k, q)
    BY <1>4, <1>9
  <2>2. k \in 0 .. Len(w.lines) /\ k < Len(w.lines)
    BY <1>1
  <2> QED
    BY <1>7, <2>1, <2>2
<1>10. CASE d \in C
  <2>1. PICK l \in Begun(b, w) : \E j \in Joined(Last(b.lines), l) : d = Ending(j)
    BY <1>5, <1>10
  <2>2. Continues(b, w)
    BY <2>1 DEF Begun
  <2>3. b.lines # <<>> /\ Len(w.lines) = n /\ n # 0
    BY <1>1, <2>2 DEF Continues
  <2>4. w.lines # <<>>
    BY <1>1, <2>3
  <2>5. Last(w.lines) \in Lines /\ Last(b.lines) \in Lines
    BY <1>1, <2>3, <2>4, LastIs
  <2>6. l \in Lines
    BY <2>1, <2>2, <2>5, PiecesType DEF Begun
  <2>7. PICK j \in Joined(Last(b.lines), l) : d = Ending(j)
    BY <2>1
  <2>8. j \in Lines
    BY <2>5, <2>6, JoinedType
  <2>9. d.lines = Append(Front(w.lines), j)
    BY <2>7
  <2>10. /\ d.exists = TRUE /\ d.whole = FALSE
         /\ d = [exists |-> d.exists, lines |-> d.lines, whole |-> d.whole]
    BY <2>7
  <2> QED
    BY <2>2, <2>4, <2>8, <2>9, <2>10
<1> QED
  BY <1>2, <1>8, <1>9, <1>10

LEMMA CutShortType ==
    ASSUME NEW b \in Disks, NEW w \in Writes, NEW d \in CutShort(b, w)
    PROVE  d \in Disks /\ d.exists = TRUE
<1>1. w.lines \in Seq(Lines) /\ Len(w.lines) \in Nat
  BY DEF Writes
<1>2. /\ d.exists = TRUE /\ d.whole \in BOOLEAN
      /\ d = [exists |-> d.exists, lines |-> d.lines, whole |-> d.whole]
  BY CutShortIs
<1>3. ASSUME NEW k \in 0 .. Len(w.lines), d.lines = SubSeq(w.lines, 1, k)
      PROVE  d.lines \in Seq(Lines)
  BY <1>1, <1>3
<1>4. ASSUME NEW k \in 0 .. Len(w.lines), k < Len(w.lines), NEW q \in Pieces(w.lines[k + 1]),
             d.lines = Append(SubSeq(w.lines, 1, k), q)
      PROVE  d.lines \in Seq(Lines)
  <2>1. w.lines[k + 1] \in Lines /\ SubSeq(w.lines, 1, k) \in Seq(Lines)
    BY <1>1, <1>4
  <2>2. q \in Lines
    BY <2>1, PiecesType
  <2> QED
    BY <1>4, <2>1, <2>2, AppendProperties
<1>5. ASSUME w.lines # <<>>, NEW j \in Lines, d.lines = Append(Front(w.lines), j)
      PROVE  d.lines \in Seq(Lines)
  BY <1>1, <1>5, LastIs, AppendProperties
<1>6. d.lines \in Seq(Lines)
  <2>1. \/ \E k \in 0 .. Len(w.lines) :
              \/ d.lines = SubSeq(w.lines, 1, k)
              \/ /\ k < Len(w.lines)
                 /\ \E q \in Pieces(w.lines[k + 1]) : d.lines = Append(SubSeq(w.lines, 1, k), q)
        \/ w.lines # <<>> /\ \E j \in Lines : d.lines = Append(Front(w.lines), j)
    BY CutShortIs
  <2> QED
    BY <1>3, <1>4, <1>5, <2>1
<1> QED
  BY <1>2, <1>6 DEF Disks

\* What is appended is a line of its own, or changes the last line.
LEMMA AppendedIs ==
    ASSUME NEW d \in Disks, NEW l \in Lines, NEW lines \in Appended(d, l)
    PROVE  /\ lines \in Seq(Lines)
           /\ Ended(d) => lines = Append(d.lines, l) /\ Len(lines) # Len(d.lines)
           /\ ~Ended(d) => /\ d.lines # <<>> /\ Len(lines) = Len(d.lines)
                           /\ \E j \in Lines : lines = Append(Front(d.lines), j)
<1>1. d.lines \in Seq(Lines) /\ Len(d.lines) \in Nat
  BY DEF Disks
<1>2. CASE Ended(d)
  <2>1. lines = Append(d.lines, l)
    BY <1>2 DEF Appended
  <2> QED
    BY <1>1, <1>2, <2>1, AppendProperties
<1>3. CASE ~Ended(d)
  <2>1. d.lines # <<>>
    BY <1>3 DEF Ended
  <2>2. PICK j \in Joined(Last(d.lines), l) : lines = Append(Front(d.lines), j)
    BY <1>3 DEF Appended
  <2>3. /\ Last(d.lines) \in Lines /\ Front(d.lines) \in Seq(Lines)
        /\ d.lines = Append(Front(d.lines), Last(d.lines))
    BY <1>1, <2>1, LastIs
  <2>4. j \in Lines
    BY <2>3, JoinedType
  <2>5. \A e \in Lines : Len(Append(Front(d.lines), e)) = Len(Front(d.lines)) + 1
                         /\ Append(Front(d.lines), e) \in Seq(Lines)
    BY <2>3, AppendProperties
  <2>6. Len(lines) = Len(d.lines) /\ lines \in Seq(Lines)
    BY <2>2, <2>3, <2>4, <2>5
  <2> QED
    BY <1>3, <2>1, <2>2, <2>4, <2>6
<1> QED
  BY <1>2, <1>3

LEMMA RemoveAtType ==
    ASSUME NEW S, NEW s \in Seq(S), NEW i \in DOMAIN s
    PROVE  /\ RemoveAt(s, i) \in Seq(S) /\ Len(RemoveAt(s, i)) = Len(s) - 1
           /\ \A j \in 1 .. Len(s) - 1 : RemoveAt(s, i)[j] = IF j < i THEN s[j] ELSE s[j + 1]
<1> DEFINE a == SubSeq(s, 1, i - 1)
           b == SubSeq(s, i + 1, Len(s))
<1>1. /\ Len(s) \in Nat /\ i \in 1 .. Len(s) /\ \A j \in 1 .. Len(s) : s[j] \in S
  OBVIOUS
<1>2. a \in Seq(S) /\ Len(a) = i - 1 /\ \A j \in 1 .. i - 1 : a[j] = s[j]
  <2>1. \A j \in 1 .. i - 1 : s[j] \in S
    BY <1>1
  <2>2. 1 \in Int /\ i - 1 \in Int
    BY <1>1
  <2>3. /\ a \in Seq(S) /\ Len(a) = IF 1 <= i - 1 THEN (i - 1) - 1 + 1 ELSE 0
        /\ \A j \in 1 .. (i - 1) - 1 + 1 : a[j] = s[1 + j - 1]
    BY <2>1, <2>2, SubSeqProperties
  <2> HIDE DEF a
  <2> QED
    BY <1>1, <2>3
<1>3. b \in Seq(S) /\ Len(b) = Len(s) - i /\ \A j \in 1 .. Len(s) - i : b[j] = s[i + j]
  <2>1. \A j \in i + 1 .. Len(s) : s[j] \in S
    BY <1>1
  <2>2. i + 1 \in Int /\ Len(s) \in Int
    BY <1>1
  <2>3. /\ b \in Seq(S) /\ Len(b) = IF i + 1 <= Len(s) THEN Len(s) - (i + 1) + 1 ELSE 0
        /\ \A j \in 1 .. Len(s) - (i + 1) + 1 : b[j] = s[(i + 1) + j - 1]
    BY <2>1, <2>2, SubSeqProperties
  <2> HIDE DEF b
  <2> QED
    BY <1>1, <2>3
<1>4. RemoveAt(s, i) = a \o b
  BY DEF RemoveAt
<1> HIDE DEF a, b
<1>5. /\ a \o b \in Seq(S) /\ Len(a \o b) = Len(a) + Len(b)
      /\ \A j \in 1 .. Len(a) + Len(b) : (a \o b)[j] = IF j <= Len(a) THEN a[j] ELSE b[j - Len(a)]
  BY <1>2, <1>3, ConcatProperties
<1>6. Len(a) + Len(b) = Len(s) - 1
  BY <1>1, <1>2, <1>3
<1>7. ASSUME NEW j \in 1 .. Len(s) - 1 PROVE (a \o b)[j] = IF j < i THEN s[j] ELSE s[j + 1]
  <2>1. (a \o b)[j] = IF j <= i - 1 THEN a[j] ELSE b[j - (i - 1)]
    BY <1>2, <1>5, <1>6
  <2>2. CASE j < i
    <3>1. j <= i - 1 /\ j \in 1 .. i - 1
      BY <1>1, <2>2
    <3> QED
      BY <1>2, <2>1, <2>2, <3>1
  <2>3. CASE ~(j < i)
    <3>1. ~(j <= i - 1) /\ j - (i - 1) \in 1 .. Len(s) - i /\ i + (j - (i - 1)) = j + 1
      BY <1>1, <2>3
    <3> QED
      BY <1>3, <2>1, <2>3, <3>1
  <2> QED
    BY <2>2, <2>3
<1> QED
  BY <1>4, <1>5, <1>6, <1>7

(***************************************************************************)
(* Type correctness.                                                       *)
(***************************************************************************)
Absent == ~disk.exists => disk.lines = <<>>

LEMMA Parts ==
    ASSUME TypeOK
    PROVE  /\ disk \in Disks /\ disk.lines \in Seq(Lines) /\ disk.exists \in BOOLEAN
           /\ saving \in Writes /\ saving.lines \in Seq(Lines)
           /\ saving.next \in {"analog", "serving"}
           /\ Configured(disk.lines) \in Seq(ReadPoints)
           /\ Configured(saving.lines) \in Seq(ReadPoints)
<1>1. disk \in Disks /\ saving \in Writes
  BY DEF TypeOK, Writes
<1>2. /\ disk.lines \in Seq(Lines) /\ disk.exists \in BOOLEAN /\ saving.lines \in Seq(Lines)
      /\ saving.next \in {"analog", "serving"}
  BY <1>1 DEF Disks, Writes
<1> QED
  BY <1>1, <1>2, ConfiguredType

LEMMA EmptyDisk == [exists |-> TRUE, lines |-> <<>>, whole |-> TRUE] \in Disks
<1>1. <<>> \in Seq(Lines)
  OBVIOUS
<1> QED
  BY <1>1 DEF Disks

LEMMA NoWriteType == NoWrite \in Writes
<1>1. <<>> \in Seq(Lines)
  OBVIOUS
<1> QED
  BY <1>1 DEF Writes, NoWrite

LEMMA TruncateType ==
    ASSUME NEW pts \in Seq(ReadPoints), NEW next \in {"analog", "serving"}, Truncate(pts, next)
    PROVE  disk' \in Disks /\ disk'.exists = TRUE /\ saving' \in Writes /\ phase' = "saving"
<1>1. Saved(pts) \in Seq(Lines)
  BY SavedType
<1>2. saving' \in Writes
  BY <1>1 DEF Truncate, Writes
<1>3. disk' = [exists |-> TRUE, lines |-> <<>>, whole |-> TRUE] /\ phase' = "saving"
  BY DEF Truncate
<1>4. disk'.exists = TRUE
  BY <1>3
<1> QED
  BY <1>2, <1>3, <1>4, EmptyDisk

LEMMA TypeInit ==
    ASSUME Init
    PROVE  TypeOK /\ Absent
<1>1. disk \in Disks /\ Absent
  BY LinesAssumption DEF Init, Absent
<1>2. <<>> \in Seq(ReadPoints)
  OBVIOUS
<1>3. profile \in Seq(ReadPoints)
  BY <1>2, Zenon DEF Init
<1>4. page \in [Browsers -> Seq(ReadPoints)]
  BY <1>2 DEF Init, NoRows
<1>5. index \in 0 .. IndexMod - 1
  BY SizesAssumption DEF Init
<1>6. saving \in [lines : Seq(Lines), next : {"analog", "serving"}]
  BY NoWriteType DEF Init, Writes
<1>7. slots \subseteq {"input", "output"} \X Kinds \X (0 .. IndexMod - 1)
  BY DEF Init
<1>8. phase \in {"down", "analog", "binary", "serving", "saving"} /\ torn \in BOOLEAN
  BY DEF Init
<1> QED
  BY <1>1, <1>3, <1>4, <1>5, <1>6, <1>7, <1>8 DEF TypeOK

\* The panel's operations that write, and the boot that empties the file.
Rewrites(next) == \E pts \in Seq(ReadPoints) : Truncate(pts, next)

LEMMA DeleteRewrites ==
    ASSUME TypeOK, NEW i, DeletePoint(i)
    PROVE  Rewrites("serving") \/ OpenFails("serving")
<1>1. RemoveAt(Configured(disk.lines), i) \in Seq(ReadPoints)
  BY Parts, RemoveAtType DEF DeletePoint
<1> QED
  BY <1>1 DEF DeletePoint, Rewrites

LEMMA EmptyRewrites ==
    ASSUME NEW next, Truncate(<<>>, next)
    PROVE  Rewrites(next)
<1>1. <<>> \in Seq(ReadPoints)
  OBVIOUS
<1> QED
  BY <1>1, Zenon DEF Rewrites

LEMMA WriteType ==
    ASSUME TypeOK, Absent, NEW next \in {"analog", "serving"}, Rewrites(next) \/ OpenFails(next)
    PROVE  disk' \in Disks /\ Absent' /\ saving' \in Writes /\ phase' \in {"saving", next}
<1>1. CASE Rewrites(next)
  <2>1. PICK pts \in Seq(ReadPoints) : Truncate(pts, next)
    BY <1>1 DEF Rewrites
  <2>2. disk' \in Disks /\ disk'.exists = TRUE /\ saving' \in Writes /\ phase' = "saving"
    BY <2>1, TruncateType
  <2> QED
    BY <2>2 DEF Absent
<1>2. CASE OpenFails(next)
  BY <1>2, Parts DEF OpenFails, Absent
<1> QED
  BY <1>1, <1>2

LEMMA TypeStep ==
    ASSUME TypeOK, Absent, [Next]_vars
    PROVE  TypeOK' /\ Absent'
<1> USE DEF TypeOK
<1>1. CASE BootEmpty
  <2>1. Rewrites("analog") \/ OpenFails("analog")
    BY <1>1, EmptyRewrites DEF BootEmpty
  <2>2. disk' \in Disks /\ Absent' /\ saving' \in Writes /\ phase' \in {"saving", "analog"}
    BY <2>1, WriteType
  <2>3. <<>> \in Seq(ReadPoints)
    OBVIOUS
  <2>4. profile' \in Seq(ReadPoints)
    BY <1>1, <2>3, Zenon DEF BootEmpty
  <2>5. UNCHANGED <<index, slots, page, torn>>
    BY <1>1 DEF BootEmpty
  <2> QED
    BY <2>2, <2>4, <2>5 DEF Writes
<1>2. CASE BootFromFile
  <2>1. profile' \in Seq(ReadPoints)
    BY <1>2, Parts DEF BootFromFile
  <2> QED
    BY <1>2, <2>1 DEF BootFromFile, Absent
<1>3. ASSUME NEW kind \in Kinds, CreateSlot(kind) PROVE TypeOK' /\ Absent'
  <2>1. index' \in 0 .. IndexMod - 1
    BY <1>3, SizesAssumption DEF CreateSlot
  <2>2. slots' \subseteq {"input", "output"} \X Kinds \X (0 .. IndexMod - 1)
    BY <1>3 DEF CreateSlot
  <2> QED
    BY <1>3, <2>1, <2>2 DEF CreateSlot, Absent
<1>4. CASE AnalogsCreated
  <2>1. index' \in 0 .. IndexMod - 1
    BY <1>4, SizesAssumption DEF AnalogsCreated
  <2> QED
    BY <1>4, <2>1 DEF AnalogsCreated, Absent
<1>5. CASE BinariesCreated
  <2>1. index' \in 0 .. IndexMod - 1
    BY <1>5, SizesAssumption DEF BinariesCreated
  <2>2. ASSUME NEW i \in DOMAIN profile
        PROVE  <<"input", profile[i].kind, profile[i].idx>>
                   \in {"input", "output"} \X Kinds \X (0 .. IndexMod - 1)
    <3>1. profile[i] \in ReadPoints
      OBVIOUS
    <3> QED
      BY <3>1 DEF ReadPoints
  <2>3. slots' \subseteq {"input", "output"} \X Kinds \X (0 .. IndexMod - 1)
    BY <1>5, <2>2 DEF BinariesCreated
  <2> QED
    BY <1>5, <2>1, <2>3 DEF BinariesCreated, Absent
<1>6. ASSUME NEW b \in Browsers, ViewPage(b) PROVE TypeOK' /\ Absent'
  <2>1. page' \in [Browsers -> Seq(ReadPoints)]
    BY <1>6, Parts DEF ViewPage
  <2> QED
    BY <1>6, <2>1 DEF ViewPage, Absent
<1>7. ASSUME NEW l \in Forms, AddPoint(l) PROVE TypeOK' /\ Absent'
  <2>1. l \in Lines
    BY LinesAssumption
  <2>2. saving' \in Writes /\ phase' \in {"saving", "serving"}
    <3>1. CASE OpenFails("serving")
      BY <3>1, Parts DEF OpenFails
    <3>2. ASSUME NEW lines \in Appended(disk, l), saving' = [lines |-> lines, next |-> "serving"],
                 phase' = "saving"
          PROVE  saving' \in Writes
      <4>1. lines \in Seq(Lines)
        BY <2>1, Parts, AppendedIs
      <4> QED
        BY <3>2, <4>1 DEF Writes
    <3> QED
      BY <1>7, <3>1, <3>2 DEF AddPoint
  <2>3. UNCHANGED <<disk, profile, index, slots, page>> /\ torn' \in BOOLEAN
    BY <1>7 DEF AddPoint, OpenFails
  <2> QED
    BY <2>2, <2>3 DEF Writes, Absent
<1>8. ASSUME NEW i, DeletePoint(i) PROVE TypeOK' /\ Absent'
  <2>1. disk' \in Disks /\ Absent' /\ saving' \in Writes /\ phase' \in {"saving", "serving"}
    BY <1>8, DeleteRewrites, WriteType
  <2>2. UNCHANGED <<profile, index, slots, page, torn>>
    BY <1>8 DEF DeletePoint
  <2> QED
    BY <2>1, <2>2 DEF Writes
<1>9. CASE ClearPoints
  <2>1. Rewrites("serving") \/ OpenFails("serving")
    BY <1>9, EmptyRewrites DEF ClearPoints
  <2>2. disk' \in Disks /\ Absent' /\ saving' \in Writes /\ phase' \in {"saving", "serving"}
    BY <2>1, WriteType
  <2>3. UNCHANGED <<profile, index, slots, page, torn>>
    BY <1>9 DEF ClearPoints
  <2> QED
    BY <2>2, <2>3 DEF Writes
<1>10. CASE FinishSave
  <2>1. disk' \in Disks /\ disk'.exists = TRUE
    BY <1>10, Parts DEF FinishSave, Disks
  <2>2. saving' \in Writes
    BY <1>10, NoWriteType DEF FinishSave
  <2>3. phase' \in {"analog", "serving"}
    BY <1>10, Parts DEF FinishSave
  <2>4. UNCHANGED <<profile, index, slots, page, torn>>
    BY <1>10 DEF FinishSave
  <2> QED
    BY <2>1, <2>2, <2>3, <2>4 DEF Writes, Absent
<1>11. CASE Stop
  <2>1. disk' \in Disks /\ Absent' /\ torn' \in BOOLEAN
    <3>1. CASE phase = "saving"
      <4>1. disk' \in Disks /\ disk'.exists = TRUE
        BY <1>11, <3>1, Parts, CutShortType DEF Stop
      <4> QED
        BY <1>11, <3>1, <4>1 DEF Stop, Absent
    <3>2. CASE phase # "saving"
      BY <1>11, <3>2 DEF Stop, Absent
    <3> QED
      BY <3>1, <3>2
  <2>2. saving' \in Writes
    BY <1>11, NoWriteType DEF Stop
  <2>3. <<>> \in Seq(ReadPoints)
    OBVIOUS
  <2>4. profile' \in Seq(ReadPoints)
    BY <1>11, <2>3, Zenon DEF Stop
  <2>5. index' \in 0 .. IndexMod - 1 /\ phase' = "down" /\ slots' = {} /\ page' = page
    BY <1>11, SizesAssumption DEF Stop
  <2> QED
    BY <2>1, <2>2, <2>4, <2>5 DEF Writes
<1>12. CASE UNCHANGED vars
  BY <1>12 DEF vars, Absent
<1> QED
  BY <1>1, <1>2, <1>3, <1>4, <1>5, <1>6, <1>7, <1>8, <1>9, <1>10, <1>11, <1>12
     DEF Next, ConfigureDatabase, Kinds

\* Through any boots, requests, failed openings and crashes in the middle of a
\* write, the file holds lines, and the profile and the pages hold points whose
\* indexes fit in a uint16_t.
THEOREM FileTypeCorrect == Spec => []TypeOK
<1>1. Init => TypeOK /\ Absent
  BY TypeInit
<1>2. TypeOK /\ Absent /\ [Next]_vars => TypeOK' /\ Absent'
  BY TypeStep
<1> QED
  BY <1>1, <1>2, PTL DEF Spec

(***************************************************************************)
(* The DNP3 database that a boot creates.                                  *)
(***************************************************************************)
Both(kind, n) == {<<"input", kind, n>>, <<"output", kind, n>>} \subseteq slots

\* What the turns of a loop have created, and what a loop that has ended has.
CreatedBelow(kind) == \A n \in 0 .. IndexMod - 1 : n < index => Both(kind, n)

Created(kind) == \A n \in IndexesOf(kind) : Both(kind, n)

\* Why ProfileHasSlots is not inductive by itself: the loops need to have done
\* their part, and a boot has to begin each of them at index 0.
Booting ==
    /\ phase = "down" \/ (phase = "saving" /\ saving.next = "analog") => index = 0
    /\ phase = "analog" => CreatedBelow("analog")
    /\ phase = "binary" => CreatedBelow("binary") /\ Created("analog")
    /\ phase = "saving" /\ saving.next = "serving" => Created("analog") /\ Created("binary")
    /\ phase = "serving" => Created("analog") /\ Created("binary")

LEMMA FromZero ==
    ASSUME NEW kind, index' = 0
    PROVE  CreatedBelow(kind)'
BY SizesAssumption DEF CreatedBelow

LEMMA KeepsCreated ==
    ASSUME NEW kind, UNCHANGED profile, slots \subseteq slots', Created(kind)
    PROVE  Created(kind)'
BY DEF Created, IndexesOf, Both

\* A loop that has ended has created every slot of its kind.
LEMMA LoopEnds ==
    ASSUME TypeOK, NEW kind \in Kinds, ~InLoop(kind), CreatedBelow(kind)
    PROVE  Created(kind)
<1> SUFFICES ASSUME NEW n \in IndexesOf(kind) PROVE Both(kind, n)
  BY DEF Created
<1>1. n \in 0 .. IndexMod - 1
  <2>1. PICK i \in DOMAIN profile : n = profile[i].idx
    BY DEF IndexesOf
  <2>2. profile[i] \in ReadPoints
    BY DEF TypeOK
  <2> QED
    BY <2>1, <2>2 DEF ReadPoints
<1>2. index \in 0 .. IndexMod - 1 /\ ~(index <= n)
  BY DEF TypeOK, InLoop
<1>3. n < index
  BY <1>1, <1>2, SizesAssumption
<1> QED
  BY <1>1, <1>3 DEF CreatedBelow

LEMMA TurnCreates ==
    ASSUME TypeOK, NEW kind \in Kinds, CreateSlot(kind), CreatedBelow(kind)
    PROVE  CreatedBelow(kind)'
<1> SUFFICES ASSUME NEW n \in 0 .. IndexMod - 1, n < index' PROVE Both(kind, n)'
  BY DEF CreatedBelow
<1>1. index \in 0 .. IndexMod - 1 /\ index' = (index + 1) % IndexMod
  BY DEF TypeOK, CreateSlot
<1>2. index' = index + 1 \/ index' = 0
  BY <1>1, SizesAssumption
<1>3. n < index \/ n = index
  BY <1>1, <1>2, SizesAssumption
<1>4. Both(kind, n) => Both(kind, n)'
  BY DEF CreateSlot, Both
<1>5. n = index => Both(kind, n)'
  BY DEF CreateSlot, Both
<1> QED
  BY <1>3, <1>4, <1>5 DEF CreatedBelow

\* The panel and the pages leave the database alone.
LEMMA ServingKeeps ==
    ASSUME Booting, phase = "serving", UNCHANGED <<profile, slots>>,
           phase' = "serving" \/ (phase' = "saving" /\ saving'.next = "serving")
    PROVE  Booting'
<1>1. Created("analog") /\ Created("binary")
  BY DEF Booting
<1>2. Created("analog")' /\ Created("binary")'
  BY <1>1, KeepsCreated
<1> QED
  BY <1>2 DEF Booting

LEMMA BootingStep ==
    ASSUME TypeOK, Absent, Booting, [Next]_vars
    PROVE  Booting'
<1>1. CASE BootEmpty
  <2>1. index = 0 /\ index' = 0
    BY <1>1 DEF BootEmpty, Booting
  <2>2. phase' = "analog" \/ (phase' = "saving" /\ saving'.next = "analog")
    BY <1>1 DEF BootEmpty, Truncate, OpenFails
  <2> QED
    BY <2>1, <2>2, FromZero DEF Booting
<1>2. CASE BootFromFile
  <2>1. index' = 0 /\ phase' = "analog"
    BY <1>2 DEF BootFromFile, Booting
  <2> QED
    BY <2>1, FromZero DEF Booting
<1>3. CASE CreateSlot("analog")
  <2>1. CreatedBelow("analog")' /\ phase' = "analog"
    BY <1>3, TurnCreates DEF CreateSlot, Booting, Kinds
  <2> QED
    BY <2>1 DEF Booting
<1>4. CASE AnalogsCreated
  <2>1. Created("analog")
    BY <1>4, LoopEnds DEF AnalogsCreated, Booting, Kinds
  <2>2. Created("analog")' /\ CreatedBelow("binary")' /\ phase' = "binary"
    BY <1>4, <2>1, KeepsCreated, FromZero DEF AnalogsCreated
  <2> QED
    BY <2>2 DEF Booting
<1>5. CASE CreateSlot("binary")
  <2>1. CreatedBelow("binary")' /\ phase' = "binary"
    BY <1>5, TurnCreates DEF CreateSlot, Booting, Kinds
  <2>2. Created("analog")'
    BY <1>5, KeepsCreated DEF CreateSlot, Booting
  <2> QED
    BY <2>1, <2>2 DEF Booting
<1>6. CASE BinariesCreated
  <2>1. Created("binary") /\ Created("analog")
    BY <1>6, LoopEnds DEF BinariesCreated, Booting, Kinds
  <2>2. slots \subseteq slots' /\ UNCHANGED profile /\ phase' = "serving"
    BY <1>6 DEF BinariesCreated
  <2>3. Created("analog")' /\ Created("binary")'
    BY <2>1, <2>2, KeepsCreated
  <2> QED
    BY <2>2, <2>3 DEF Booting
<1>7. ASSUME NEW b \in Browsers, ViewPage(b) PROVE Booting'
  BY <1>7, ServingKeeps DEF ViewPage
<1>8. ASSUME NEW l \in Forms, AddPoint(l) PROVE Booting'
  BY <1>8, ServingKeeps DEF AddPoint, OpenFails
<1>9. ASSUME NEW i, DeletePoint(i) PROVE Booting'
  BY <1>9, ServingKeeps DEF DeletePoint, OpenFails, Truncate
<1>10. CASE ClearPoints
  BY <1>10, ServingKeeps DEF ClearPoints, OpenFails, Truncate
<1>11. CASE FinishSave
  <2>1. UNCHANGED <<profile, slots, index>> /\ phase = "saving" /\ phase' = saving.next
    BY <1>11 DEF FinishSave
  <2>2. CASE saving.next = "analog"
    BY <2>1, <2>2, FromZero DEF Booting
  <2>3. CASE saving.next = "serving"
    <3>1. Created("analog")' /\ Created("binary")'
      BY <2>1, <2>3, KeepsCreated DEF Booting
    <3> QED
      BY <2>1, <2>3, <3>1 DEF Booting
  <2> QED
    BY <2>2, <2>3, Parts
<1>12. CASE Stop
  BY <1>12 DEF Stop, Booting
<1>13. CASE UNCHANGED vars
  BY <1>13 DEF vars, Booting, CreatedBelow, Created, IndexesOf, Both
<1> QED
  BY <1>1, <1>2, <1>3, <1>4, <1>5, <1>6, <1>7, <1>8, <1>9, <1>10, <1>11, <1>12, <1>13
     DEF Next, ConfigureDatabase

LEMMA BootingGivesSlots ==
    ASSUME TypeOK, Booting
    PROVE  ProfileHasSlots
<1> SUFFICES ASSUME phase = "serving", NEW i \in DOMAIN profile
             PROVE  Both(profile[i].kind, profile[i].idx)
  BY DEF ProfileHasSlots, Both
<1>1. profile[i].kind \in Kinds
  <2>1. profile[i] \in ReadPoints
    BY DEF TypeOK
  <2> QED
    BY <2>1 DEF ReadPoints
<1>2. profile[i].idx \in IndexesOf(profile[i].kind)
  BY DEF IndexesOf
<1>3. Created("analog") /\ Created("binary")
  BY DEF Booting
<1> QED
  BY <1>1, <1>2, <1>3 DEF Kinds, Created

\* ConfigureDatabase counts up to the largest index of each kind with a uint16_t:
\* if it ends, then for files and indexes of any size, whatever was stopped or
\* written in between, every point that the threads publish has its input and its
\* output status in the DNP3 database.
THEOREM ServedPointsHaveSlots == Spec => []ProfileHasSlots
<1>1. Init => TypeOK /\ Absent /\ Booting
  <2>1. Init => Booting
    BY DEF Init, Booting
  <2> QED
    BY <2>1, TypeInit
<1>2. TypeOK /\ Absent /\ Booting /\ [Next]_vars => TypeOK' /\ Absent' /\ Booting'
  BY TypeStep, BootingStep
<1>3. TypeOK /\ Booting => ProfileHasSlots
  BY BootingGivesSlots
<1> QED
  BY <1>1, <1>2, <1>3, PTL DEF Spec

(***************************************************************************)
(* Lists of points without two for one slot.                               *)
(***************************************************************************)
LEMMA DistinctAppend ==
    ASSUME NEW pts \in Seq(ReadPoints), NEW p \in ReadPoints, SlotsDistinct(pts),
           \A i \in DOMAIN pts : ~SameSlot(pts[i], p)
    PROVE  SlotsDistinct(Append(pts, p))
<1> DEFINE m == Append(pts, p)
<1>1. /\ Len(pts) \in Nat /\ DOMAIN m = 1 .. Len(pts) + 1 /\ DOMAIN pts = 1 .. Len(pts)
      /\ m[Len(pts) + 1] = p /\ \A i \in 1 .. Len(pts) : m[i] = pts[i]
  BY AppendProperties
<1> HIDE DEF m
<1>2. \A a, b : SameSlot(a, b) <=> SameSlot(b, a)
  BY DEF SameSlot
<1>3. ASSUME NEW i \in DOMAIN m, NEW j \in DOMAIN m, SameSlot(m[i], m[j]) PROVE i = j
  <2>1. CASE i \in DOMAIN pts /\ j \in DOMAIN pts
    BY <1>1, <1>3, <2>1 DEF SlotsDistinct
  <2>2. CASE i \in DOMAIN pts /\ j = Len(pts) + 1
    BY <1>1, <1>3, <2>2
  <2>3. CASE i = Len(pts) + 1 /\ j \in DOMAIN pts
    BY <1>1, <1>2, <1>3, <2>3
  <2>4. CASE i = Len(pts) + 1 /\ j = Len(pts) + 1
    BY <2>4
  <2> QED
    BY <1>1, <2>1, <2>2, <2>3, <2>4
<1> QED
  BY <1>3 DEF SlotsDistinct, m

LEMMA DistinctRemove ==
    ASSUME NEW pts \in Seq(ReadPoints), SlotsDistinct(pts), NEW k \in DOMAIN pts
    PROVE  SlotsDistinct(RemoveAt(pts, k))
<1> DEFINE m == RemoveAt(pts, k)
           At(j) == IF j < k THEN j ELSE j + 1
<1>1. /\ m \in Seq(ReadPoints) /\ Len(m) = Len(pts) - 1
      /\ \A j \in 1 .. Len(pts) - 1 : m[j] = IF j < k THEN pts[j] ELSE pts[j + 1]
  BY RemoveAtType
<1>2. Len(pts) \in Nat /\ DOMAIN pts = 1 .. Len(pts) /\ k \in 1 .. Len(pts)
  OBVIOUS
<1> HIDE DEF m
<1>3. DOMAIN m = 1 .. Len(pts) - 1
  BY <1>1, <1>2
<1>4. ASSUME NEW j \in DOMAIN m PROVE At(j) \in DOMAIN pts /\ m[j] = pts[At(j)]
  BY <1>1, <1>2, <1>3
<1>5. ASSUME NEW i \in DOMAIN m, NEW j \in DOMAIN m, SameSlot(m[i], m[j]) PROVE i = j
  <2>1. At(i) = At(j)
    <3>1. /\ At(i) \in DOMAIN pts /\ m[i] = pts[At(i)]
          /\ At(j) \in DOMAIN pts /\ m[j] = pts[At(j)]
      BY <1>4
    <3> HIDE DEF At
    <3> QED
      BY <1>5, <3>1 DEF SlotsDistinct
  <2> QED
    BY <1>2, <1>3, <2>1
<1> QED
  BY <1>5 DEF SlotsDistinct, m

LEMMA DistinctEmpty == SlotsDistinct(<<>>)
BY DEF SlotsDistinct

(***************************************************************************)
(* What each operation makes of the list.                                  *)
(***************************************************************************)
LEMMA ListType ==
    ASSUME TypeOK
    PROVE  CurrentList \in Seq(ReadPoints)
BY Parts DEF CurrentList

LEMMA ListServed ==
    ASSUME phase # "saving"
    PROVE  CurrentList = Configured(disk.lines)
BY DEF CurrentList

LEMMA ListRewritten ==
    ASSUME NEW pts \in Seq(ReadPoints), NEW next, Truncate(pts, next)
    PROVE  CurrentList' = pts
<1>1. phase' = "saving" /\ saving'.lines = Saved(pts)
  BY DEF Truncate
<1>2. CurrentList' = Configured(Saved(pts))
  BY <1>1 DEF CurrentList
<1> QED
  BY <1>2, ConfiguredSaved

\* A step that leaves the file alone, or only finishes the write that is under way.
LEMMA ListUnchanged ==
    ASSUME \/ UNCHANGED <<disk, saving, phase>>
           \/ UNCHANGED disk /\ phase # "saving" /\ phase' # "saving"
    PROVE  CurrentList' = CurrentList
BY DEF CurrentList

LEMMA ListFinished ==
    ASSUME TypeOK, FinishSave
    PROVE  CurrentList' = CurrentList
<1>1. phase = "saving" /\ phase' # "saving" /\ disk'.lines = saving.lines
  BY Parts DEF FinishSave
<1> QED
  BY <1>1 DEF CurrentList

\* A file of examples holds points with the names of examples.
LEMMA ListOfExamples ==
    ASSUME TypeOK, Absent, phase = "down", ~disk.exists \/ OnlyLegacyExamples(disk.lines)
    PROVE  \A i \in DOMAIN CurrentList : CurrentList[i].name \in LegacyNames
<1>1. CurrentList = Configured(disk.lines)
  BY ListServed
<1>2. CASE ~disk.exists
  <2>1. CurrentList = <<>>
    BY <1>1, <1>2, ConfiguredEmpty DEF Absent
  <2> QED
    BY <2>1
<1>3. CASE OnlyLegacyExamples(disk.lines)
  <2> SUFFICES ASSUME NEW i \in DOMAIN Configured(disk.lines)
               PROVE  Configured(disk.lines)[i].name \in LegacyNames
    BY <1>1
  <2>1. PICK j \in DOMAIN disk.lines : IsPoint(disk.lines[j])
                          /\ Configured(disk.lines)[i] = ReadPoint(disk.lines[j])
    BY Parts, ConfiguredFrom
  <2>2. disk.lines[j].name \in LegacyNames
    BY <1>3, <2>1 DEF OnlyLegacyExamples, IsPoint
  <2>3. Configured(disk.lines)[i].name = disk.lines[j].name
    BY <2>1 DEF ReadPoint
  <2> QED
    BY <2>2, <2>3
<1> QED
  BY <1>2, <1>3

LEMMA ListEmptied ==
    ASSUME NEW next, Truncate(<<>>, next)
    PROVE  CurrentList' = <<>>
<1> DEFINE e == <<>>
<1>1. e \in Seq(ReadPoints) /\ Truncate(e, next)
  OBVIOUS
<1> HIDE DEF e
<1>2. CurrentList' = e
  BY <1>1, ListRewritten, Zenon
<1> QED
  BY <1>2 DEF e

\* The end of the list p blurred: what PointList says of it.
Blurs(p, new) ==
    \E n \in {Len(p), Len(p) - 1} \cap Nat :
        \/ new = SubSeq(p, 1, n)
        \/ \E r \in ReadPoints : new = Append(SubSeq(p, 1, n), r)

LEMMA BlursNothing ==
    ASSUME NEW p \in Seq(ReadPoints)
    PROVE  Blurs(p, p)
<1>1. Len(p) \in Nat /\ SubSeq(p, 1, Len(p)) = p
  BY SubSeqFull
<1> QED
  BY <1>1 DEF Blurs

\* Files that differ in their last line only have lists that differ at the end only.
LEMMA LastLineBlurs ==
    ASSUME NEW t \in Seq(Lines), NEW a \in Lines, NEW b \in Lines
    PROVE  Blurs(Configured(Append(t, a)), Configured(Append(t, b)))
<1> DEFINE q == Configured(t)
           p == Configured(Append(t, a))
           new == Configured(Append(t, b))
<1>1. q \in Seq(ReadPoints) /\ ReadPoint(a) \in ReadPoints /\ ReadPoint(b) \in ReadPoints
  BY ConfiguredType, ReadPointType
<1>2. p = IF IsPoint(a) THEN Append(q, ReadPoint(a)) ELSE q
  BY ConfiguredAppend
<1>3. new = q \/ new = Append(q, ReadPoint(b))
  BY ConfiguredAppend
<1> HIDE DEF q, p, new
<1>4. \E n \in {Len(p), Len(p) - 1} \cap Nat : SubSeq(p, 1, n) = q
  <2>1. CASE IsPoint(a)
    <3>1. p = Append(q, ReadPoint(a)) /\ Len(q) \in 0 .. Len(q)
      BY <1>1, <1>2, <2>1
    <3>2. SubSeq(p, 1, Len(q)) = SubSeq(q, 1, Len(q)) /\ SubSeq(q, 1, Len(q)) = q
      BY <1>1, <3>1, SubSeqOfAppend, SubSeqFull
    <3>3. Len(q) \in Nat /\ Len(q) = Len(p) - 1
      BY <1>1, <3>1, AppendProperties
    <3> QED
      BY <3>2, <3>3
  <2>2. CASE ~IsPoint(a)
    <3>1. p = q /\ Len(q) \in Nat
      BY <1>1, <1>2, <2>2
    <3>2. SubSeq(q, 1, Len(q)) = q
      BY <1>1, SubSeqFull
    <3> QED
      BY <3>1, <3>2
  <2> QED
    BY <2>1, <2>2
<1>5. Blurs(p, new)
  BY <1>1, <1>3, <1>4 DEF Blurs
<1> QED
  BY <1>5 DEF p, new

LEMMA ListAdded ==
    ASSUME TypeOK, NEW l \in Forms, AddPoint(l)
    PROVE  \/ /\ CurrentList' = CurrentList /\ torn' = torn
              /\ UNCHANGED disk /\ phase = "serving" /\ phase' = "serving"
           \/ /\ CurrentList' = Append(CurrentList, ReadPoint(l)) /\ torn' = torn
              /\ \A i \in DOMAIN CurrentList : ~SameSlot(CurrentList[i], ReadPoint(l))
              /\ CurrentEnded /\ CurrentEnded'
           \/ /\ Blurs(CurrentList, CurrentList') /\ torn'
              /\ ~CurrentEnded /\ ~CurrentEnded'
<1>1. l \in Lines /\ IsPoint(l)
  BY LinesAssumption
<1>2. /\ CurrentList = Configured(disk.lines) /\ phase = "serving"
      /\ disk \in Disks /\ disk.lines \in Seq(Lines)
  BY ListServed, Parts DEF AddPoint
<1>3. \A i \in DOMAIN CurrentList : ~SameSlot(CurrentList[i], ReadPoint(l))
  BY <1>2 DEF AddPoint, Clashes
<1>4. CASE OpenFails("serving") /\ UNCHANGED torn
  BY <1>2, <1>4, ListUnchanged DEF OpenFails
<1>5. ASSUME NEW lines \in Appended(disk, l), saving' = [lines |-> lines, next |-> "serving"],
             phase' = "saving", torn' = (torn \/ ~Ended(disk)), UNCHANGED disk
      PROVE  \/ /\ CurrentList' = Append(CurrentList, ReadPoint(l)) /\ torn' = torn
                /\ CurrentEnded /\ CurrentEnded'
             \/ /\ Blurs(CurrentList, CurrentList') /\ torn'
                /\ ~CurrentEnded /\ ~CurrentEnded'
  <2>1. /\ CurrentList' = Configured(lines)
        /\ CurrentEnded <=> Ended(disk)
        /\ CurrentEnded' <=> ~(disk.lines # <<>> /\ Len(lines) = Len(disk.lines))
    BY <1>2, <1>5 DEF CurrentList, CurrentEnded, Continues
  <2>2. CASE Ended(disk)
    <3>1. lines = Append(disk.lines, l) /\ Len(lines) # Len(disk.lines)
      BY <1>1, <1>2, <2>2, AppendedIs
    <3>2. Configured(Append(disk.lines, l)) = Append(Configured(disk.lines), ReadPoint(l))
      BY <1>1, <1>2, ConfiguredAppend
    <3>3. CurrentList' = Append(CurrentList, ReadPoint(l))
      BY <1>2, <2>1, <3>1, <3>2
    <3>4. torn' = torn
      BY <1>5, <2>2 DEF TypeOK
    <3> QED
      BY <2>1, <2>2, <3>1, <3>3, <3>4
  <2>3. CASE ~Ended(disk)
    <3>1. PICK j \in Lines : /\ disk.lines # <<>> /\ Len(lines) = Len(disk.lines)
                             /\ lines = Append(Front(disk.lines), j)
      BY <1>1, <1>2, <2>3, AppendedIs
    <3>2. /\ Last(disk.lines) \in Lines /\ Front(disk.lines) \in Seq(Lines)
          /\ disk.lines = Append(Front(disk.lines), Last(disk.lines))
      BY <1>2, <3>1, LastIs
    <3>3. Blurs(Configured(Append(Front(disk.lines), Last(disk.lines))),
                Configured(Append(Front(disk.lines), j)))
      BY <3>2, LastLineBlurs
    <3>4. Blurs(CurrentList, CurrentList')
      BY <1>2, <2>1, <3>1, <3>2, <3>3
    <3> QED
      BY <1>5, <2>1, <2>3, <3>1, <3>4
  <2> QED
    BY <2>2, <2>3
<1> QED
  BY <1>2, <1>3, <1>4, <1>5 DEF AddPoint

LEMMA ListShortened ==
    ASSUME TypeOK, NEW i, DeletePoint(i)
    PROVE  /\ i \in DOMAIN CurrentList /\ CurrentList = Configured(disk.lines)
           /\ \/ CurrentList' = CurrentList /\ phase' = "serving"
              \/ CurrentList' = RemoveAt(CurrentList, i)
<1>1. CurrentList = Configured(disk.lines) /\ phase = "serving" /\ i \in DOMAIN CurrentList
  BY ListServed DEF DeletePoint
<1>2. RemoveAt(CurrentList, i) \in Seq(ReadPoints)
  BY <1>1, ListType, RemoveAtType
<1>3. CASE OpenFails("serving")
  BY <1>1, <1>3, ListUnchanged DEF OpenFails
<1>4. CASE Truncate(RemoveAt(CurrentList, i), "serving")
  BY <1>1, <1>2, <1>4, ListRewritten
<1> QED
  BY <1>1, <1>3, <1>4 DEF DeletePoint

\* What is left after a crash is a leading part, the last row perhaps with another
\* index, or the list with its end blurred if the write continued a line.
LEMMA ListCut ==
    ASSUME TypeOK, Stop
    PROVE  \/ \E n \in 0 .. Len(CurrentList) :
                 \/ CurrentList' = SubSeq(CurrentList, 1, n)
                 \/ n > 0 /\ \E p \in ReadPoints :
                        /\ p.name = CurrentList[n].name /\ p.kind = CurrentList[n].kind
                        /\ CurrentList' = Append(SubSeq(CurrentList, 1, n - 1), p)
           \/ ~CurrentEnded /\ Blurs(CurrentList, CurrentList')
<1>1. CurrentList \in Seq(ReadPoints)
  BY ListType
<1>2. CASE phase # "saving"
  <2>1. CurrentList' = CurrentList
    BY <1>2, ListUnchanged DEF Stop
  <2>2. SubSeq(CurrentList, 1, Len(CurrentList)) = CurrentList
    BY <1>1, SubSeqFull
  <2>3. Len(CurrentList) \in 0 .. Len(CurrentList)
    BY <1>1
  <2> QED
    BY <2>1, <2>2, <2>3
<1>3. ASSUME phase = "saving", NEW j \in Lines, saving.lines # <<>>, Continues(disk, saving),
             disk'.lines = Append(Front(saving.lines), j)
      PROVE  ~CurrentEnded /\ Blurs(CurrentList, CurrentList')
  <2> DEFINE lines == saving.lines
  <2>1. CurrentList = Configured(lines) /\ lines \in Seq(Lines)
    BY <1>3, Parts DEF CurrentList
  <2>2. CurrentList' = Configured(Append(Front(lines), j))
    BY <1>3 DEF Stop, CurrentList
  <2>3. /\ Last(lines) \in Lines /\ Front(lines) \in Seq(Lines)
        /\ lines = Append(Front(lines), Last(lines))
    BY <1>3, <2>1, LastIs
  <2>4. Blurs(Configured(Append(Front(lines), Last(lines))), Configured(Append(Front(lines), j)))
    BY <2>3, LastLineBlurs
  <2>5. ~CurrentEnded
    BY <1>3 DEF CurrentEnded
  <2> HIDE DEF lines
  <2> QED
    BY <2>1, <2>2, <2>3, <2>4, <2>5
<1>4. ASSUME phase = "saving",
             \E k \in 0 .. Len(saving.lines) :
                 \/ disk'.lines = SubSeq(saving.lines, 1, k)
                 \/ /\ k < Len(saving.lines)
                    /\ \E c \in Pieces(saving.lines[k + 1]) :
                           disk'.lines = Append(SubSeq(saving.lines, 1, k), c)
      PROVE  \E n \in 0 .. Len(CurrentList) :
                 \/ CurrentList' = SubSeq(CurrentList, 1, n)
                 \/ n > 0 /\ \E p \in ReadPoints :
                        /\ p.name = CurrentList[n].name /\ p.kind = CurrentList[n].kind
                        /\ CurrentList' = Append(SubSeq(CurrentList, 1, n - 1), p)
  <2> DEFINE lines == saving.lines
             left == disk'.lines
             p == CurrentList
  <2>1. lines \in Seq(Lines) /\ Len(lines) \in Nat /\ p = Configured(lines)
    BY <1>4, Parts DEF CurrentList
  <2>2. CurrentList' = Configured(left)
    BY DEF Stop, CurrentList
  <2>3. PICK k \in 0 .. Len(lines) :
            \/ left = SubSeq(lines, 1, k)
            \/ /\ k < Len(lines)
               /\ \E c \in Pieces(lines[k + 1]) : left = Append(SubSeq(lines, 1, k), c)
    BY <1>4
  <2> DEFINE q == Configured(SubSeq(lines, 1, k))
  <2>4. SubSeq(lines, 1, k) \in Seq(Lines)
    BY <2>1
  <2>5. q \in Seq(ReadPoints)
    BY <2>4, ConfiguredType, Zenon
  <2>6. /\ Leads(q, p)
        /\ k < Len(lines) /\ IsPoint(lines[k + 1]) =>
               Len(q) < Len(p) /\ p[Len(q) + 1] = ReadPoint(lines[k + 1])
    <3>1. ReadsInOrder(lines, k)
      BY <2>1, ConfiguredInOrder
    <3> QED
      BY <2>1, <3>1, Zenon DEF ReadsInOrder
  <2>7. q = SubSeq(p, 1, Len(q))
    BY <1>1, <2>5, <2>6, LeadingPart, Zenon
  <2> HIDE DEF q, p, lines, left
  <2>8. Len(q) \in 0 .. Len(p) /\ Len(p) \in Nat
    BY <1>1, <2>5, <2>6 DEF Leads, p
  <2>9. CASE CurrentList' = q
    BY <2>7, <2>8, <2>9 DEF p
  <2>10. CASE left = SubSeq(lines, 1, k)
    BY <2>2, <2>9, <2>10 DEF q
  <2>11. ASSUME k < Len(lines), NEW c \in Pieces(lines[k + 1]),
                left = Append(SubSeq(lines, 1, k), c)
         PROVE  \/ CurrentList' = q
                \/ \E r \in ReadPoints : /\ Len(q) < Len(p)
                                         /\ r.name = p[Len(q) + 1].name
                                         /\ r.kind = p[Len(q) + 1].kind
                                         /\ CurrentList' = Append(q, r)
    <3>1. lines[k + 1] \in Lines
      BY <2>1, <2>11
    <3>2. c \in Lines /\ (IsPoint(c) => /\ IsPoint(lines[k + 1]) /\ c.name = lines[k + 1].name
                                        /\ c.kind = lines[k + 1].kind)
      BY <3>1, PiecesType
    <3>3. Configured(left) = IF IsPoint(c) THEN Append(q, ReadPoint(c)) ELSE q
      BY <2>4, <2>11, <3>2, ConfiguredAppend, Zenon DEF q
    <3>4. CASE ~IsPoint(c)
      BY <2>2, <3>3, <3>4
    <3>5. CASE IsPoint(c)
      <4>1. Len(q) < Len(p) /\ p[Len(q) + 1] = ReadPoint(lines[k + 1])
        BY <2>6, <2>11, <3>2, <3>5
      <4>2. ReadPoint(c) \in ReadPoints
        BY <3>2, ReadPointType
      <4>3. ReadPoint(c).name = p[Len(q) + 1].name /\ ReadPoint(c).kind = p[Len(q) + 1].kind
        BY <3>2, <3>5, <4>1 DEF ReadPoint
      <4>4. CurrentList' = Append(q, ReadPoint(c))
        BY <2>2, <3>3, <3>5
      <4> QED
        BY <4>1, <4>2, <4>3, <4>4
    <3> QED
      BY <3>4, <3>5
  <2>12. ASSUME NEW r \in ReadPoints, Len(q) < Len(p), r.name = p[Len(q) + 1].name,
                r.kind = p[Len(q) + 1].kind, CurrentList' = Append(q, r)
         PROVE  \E n \in 0 .. Len(p) : n > 0 /\ \E s \in ReadPoints :
                      /\ s.name = p[n].name /\ s.kind = p[n].kind
                      /\ CurrentList' = Append(SubSeq(p, 1, n - 1), s)
    <3> DEFINE n == Len(q) + 1
    <3>1. n \in 0 .. Len(p) /\ n > 0 /\ n - 1 = Len(q)
      BY <2>8, <2>12
    <3>2. CurrentList' = Append(SubSeq(p, 1, n - 1), r)
      BY <2>7, <2>12, <3>1
    <3> QED
      BY <2>12, <3>1, <3>2
  <2> QED
    BY <2>3, <2>9, <2>10, <2>11, <2>12 DEF p
<1>5. CASE phase = "saving"
  <2>1. disk' \in CutShort(disk, saving) /\ saving \in Writes /\ disk \in Disks
    BY <1>5, Parts DEF Stop
  <2>2. \/ \E k \in 0 .. Len(saving.lines) :
              \/ disk'.lines = SubSeq(saving.lines, 1, k)
              \/ /\ k < Len(saving.lines)
                 /\ \E c \in Pieces(saving.lines[k + 1]) :
                        disk'.lines = Append(SubSeq(saving.lines, 1, k), c)
        \/ /\ Continues(disk, saving) /\ saving.lines # <<>>
           /\ \E j \in Lines : disk'.lines = Append(Front(saving.lines), j)
    BY <2>1, CutShortIs
  <2> QED
    BY <1>3, <1>4, <1>5, <2>2
<1> QED
  BY <1>2, <1>5

(***************************************************************************)
(* No two points for one slot.                                             *)
(***************************************************************************)
LEMMA DistinctStep ==
    ASSUME TypeOK, Absent, SlotsStayDistinct, [Next]_vars
    PROVE  SlotsStayDistinct'
<1> SUFFICES ASSUME ~torn' PROVE SlotsDistinct(CurrentList')
  BY DEF SlotsStayDistinct
<1>1. ASSUME CurrentList' = CurrentList, torn' = torn PROVE SlotsDistinct(CurrentList')
  BY <1>1 DEF SlotsStayDistinct
<1>2. ASSUME NEW next, Truncate(<<>>, next) PROVE SlotsDistinct(CurrentList')
  BY <1>2, ListEmptied, DistinctEmpty
<1>3. CASE BootEmpty
  <2>1. CASE OpenFails("analog")
    BY <1>1, <1>3, <2>1, ListUnchanged DEF OpenFails, BootEmpty
  <2> QED
    BY <1>2, <1>3, <2>1 DEF BootEmpty
<1>4. CASE BootFromFile
  BY <1>1, <1>4, ListUnchanged DEF BootFromFile
<1>5. CASE ConfigureDatabase
  BY <1>1, <1>5, ListUnchanged
     DEF ConfigureDatabase, CreateSlot, AnalogsCreated, BinariesCreated
<1>6. ASSUME NEW b \in Browsers, ViewPage(b) PROVE SlotsDistinct(CurrentList')
  BY <1>1, <1>6, ListUnchanged DEF ViewPage
<1>7. ASSUME NEW l \in Forms, AddPoint(l) PROVE SlotsDistinct(CurrentList')
  <2>1. ReadPoint(l) \in ReadPoints
    BY LinesAssumption, ReadPointType
  <2>2. CASE /\ CurrentList' = Append(CurrentList, ReadPoint(l)) /\ torn' = torn
             /\ \A i \in DOMAIN CurrentList : ~SameSlot(CurrentList[i], ReadPoint(l))
    BY <2>1, <2>2, ListType, DistinctAppend DEF SlotsStayDistinct
  <2>3. \/ CurrentList' = CurrentList /\ torn' = torn
        \/ /\ CurrentList' = Append(CurrentList, ReadPoint(l)) /\ torn' = torn
           /\ \A i \in DOMAIN CurrentList : ~SameSlot(CurrentList[i], ReadPoint(l))
    BY <1>7, ListAdded
  <2> QED
    BY <1>1, <2>2, <2>3
<1>8. ASSUME NEW i, DeletePoint(i) PROVE SlotsDistinct(CurrentList')
  <2>1. torn' = torn
    BY <1>8 DEF DeletePoint
  <2>2. SlotsDistinct(RemoveAt(CurrentList, i))
    BY <1>8, <2>1, ListType, ListShortened, DistinctRemove DEF SlotsStayDistinct
  <2> QED
    BY <1>1, <1>8, <2>1, <2>2, ListShortened
<1>9. CASE ClearPoints
  <2>1. CASE OpenFails("serving")
    BY <1>1, <1>9, <2>1, ListUnchanged DEF OpenFails, ClearPoints
  <2> QED
    BY <1>2, <1>9, <2>1 DEF ClearPoints
<1>10. CASE FinishSave
  BY <1>1, <1>10, ListFinished DEF FinishSave
<1>11. CASE Stop
  <2>1. phase # "saving" /\ phase' # "saving" /\ UNCHANGED <<disk, torn>>
    BY <1>11 DEF Stop
  <2> QED
    BY <1>1, <2>1, ListUnchanged
<1>12. CASE UNCHANGED vars
  BY <1>1, <1>12, ListUnchanged DEF vars
<1> QED
  BY <1>3, <1>4, <1>5, <1>6, <1>7, <1>8, <1>9, <1>10, <1>11, <1>12 DEF Next

LEMMA DistinctInit ==
    ASSUME Init
    PROVE  SlotsStayDistinct
BY DEF Init, SlotsStayDistinct, CurrentList

\* AppendPointToConfigFileFromLine compares indexes as the parser narrows them and
\* every rewrite writes them narrowed: for any lines a user submits, as long as no
\* write is cut short and none continues a line that has no newline, no two points
\* of the file share a DNP3 slot.
THEOREM NoSlotTwice == Spec => []SlotsStayDistinct
<1>1. Init => TypeOK /\ Absent /\ SlotsStayDistinct
  BY TypeInit, DistinctInit
<1>2. TypeOK /\ Absent /\ SlotsStayDistinct /\ [Next]_vars
      => TypeOK' /\ Absent' /\ SlotsStayDistinct'
  BY TypeStep, DistinctStep
<1> QED
  BY <1>1, <1>2, PTL DEF Spec

(***************************************************************************)
(* The file is the list that PointList promises.                           *)
(***************************************************************************)
Up == phase # "down"

LEMMA EndedType ==
    ASSUME TypeOK
    PROVE  CurrentEnded \in BOOLEAN
<1>1. disk.whole \in BOOLEAN
  BY Parts DEF Disks
<1> QED
  BY <1>1 DEF CurrentEnded, Ended, Continues

LEMMA ListInit ==
    ASSUME Init
    PROVE  List!Init
<1>1. CurrentList \in Seq(ReadPoints) /\ CurrentEnded \in BOOLEAN
  BY TypeInit, ListType, EndedType
<1>2. (phase # "down") = FALSE
  BY DEF Init
<1> QED
  BY <1>1, <1>2 DEF List!Init

\* A rewrite gives the file its end, and so does the end of any write.
LEMMA EndedRewritten ==
    ASSUME NEW pts, NEW next, Truncate(pts, next)
    PROVE  CurrentEnded' = TRUE
<1>1. disk'.lines = <<>> /\ phase' = "saving"
  BY DEF Truncate
<1> QED
  BY <1>1 DEF CurrentEnded, Continues

LEMMA EndedFinished ==
    ASSUME TypeOK, FinishSave
    PROVE  CurrentEnded' = TRUE
<1>1. phase' # "saving" /\ disk'.whole = TRUE
  BY Parts DEF FinishSave
<1> QED
  BY <1>1 DEF CurrentEnded, Ended

LEMMA EndedUnchanged ==
    ASSUME \/ UNCHANGED <<disk, saving, phase>>
           \/ UNCHANGED disk /\ phase # "saving" /\ phase' # "saving"
    PROVE  CurrentEnded' = CurrentEnded
BY DEF CurrentEnded

Stutters == CurrentList' = CurrentList /\ Up' = Up /\ CurrentEnded' = CurrentEnded

LEMMA ListStep ==
    ASSUME TypeOK, Absent, TypeOK', [Next]_vars
    PROVE  [List!Next]_<<CurrentList, phase # "down", CurrentEnded>>
<1> SUFFICES List!Next \/ Stutters
  BY DEF Up, Stutters
<1>1. CurrentEnded \in BOOLEAN /\ CurrentEnded' \in BOOLEAN
  <2>1. disk'.whole \in BOOLEAN
    BY DEF TypeOK, Disks
  <2>2. CurrentEnded' \in BOOLEAN
    BY <2>1 DEF CurrentEnded, Ended, Continues
  <2> QED
    BY <2>2, EndedType
<1>2. CASE BootEmpty
  <2>1. ~Up /\ Up' = TRUE
    BY <1>2 DEF BootEmpty, Truncate, OpenFails, Up
  <2>2. \/ CurrentList' = CurrentList /\ CurrentEnded' = CurrentEnded
        \/ /\ \A i \in DOMAIN CurrentList : CurrentList[i].name \in LegacyNames
           /\ CurrentList' = <<>> /\ CurrentEnded' = TRUE
    <3>1. CASE OpenFails("analog")
      BY <1>2, <3>1, ListUnchanged, EndedUnchanged DEF OpenFails, BootEmpty
    <3>2. CASE Truncate(<<>>, "analog")
      BY <1>2, <3>2, ListEmptied, EndedRewritten, ListOfExamples DEF BootEmpty
    <3> QED
      BY <1>2, <3>1, <3>2 DEF BootEmpty
  <2>3. List!Start
    BY <2>1, <2>2 DEF List!Start, Up
  <2> QED
    BY <2>3 DEF List!Next
<1>3. CASE BootFromFile
  <2>1. ~Up /\ Up' = TRUE /\ CurrentList' = CurrentList /\ CurrentEnded' = CurrentEnded
    BY <1>3, ListUnchanged, EndedUnchanged DEF BootFromFile, Up
  <2>2. List!Start
    BY <2>1 DEF List!Start, Up
  <2> QED
    BY <2>2 DEF List!Next
<1>4. CASE ConfigureDatabase
  BY <1>4, ListUnchanged, EndedUnchanged
     DEF ConfigureDatabase, CreateSlot, AnalogsCreated, BinariesCreated, Up, Stutters
<1>5. ASSUME NEW b \in Browsers, ViewPage(b) PROVE Stutters
  BY <1>5, ListUnchanged, EndedUnchanged DEF ViewPage, Up, Stutters
<1>6. ASSUME NEW l \in Forms, AddPoint(l) PROVE List!Next \/ Stutters
  <2>1. Up = TRUE /\ Up' = Up
    BY <1>6 DEF AddPoint, OpenFails, Up
  <2>2. CASE /\ CurrentList' = Append(CurrentList, ReadPoint(l))
             /\ \A i \in DOMAIN CurrentList : ~SameSlot(CurrentList[i], ReadPoint(l))
             /\ CurrentEnded /\ CurrentEnded'
    <3>1. ReadPoint(l) \in ReadPoints
      BY LinesAssumption, ReadPointType
    <3>2. List!Add(ReadPoint(l))
      BY <1>1, <2>1, <2>2 DEF List!Add, List!SameSlot, SameSlot, Up
    <3> QED
      BY <3>1, <3>2 DEF List!Next
  <2>3. CASE Blurs(CurrentList, CurrentList') /\ ~CurrentEnded /\ ~CurrentEnded'
    <3>1. List!Blurred(CurrentList')
      BY <2>3 DEF List!Blurred, Blurs
    <3>2. List!Blur
      BY <1>1, <2>1, <2>3, <3>1 DEF List!Blur, Up
    <3> QED
      BY <3>2 DEF List!Next
  <2>4. CASE CurrentList' = CurrentList /\ UNCHANGED disk /\ phase = "serving" /\ phase' = "serving"
    BY <2>1, <2>4, EndedUnchanged DEF Stutters
  <2> QED
    BY <1>6, <2>2, <2>3, <2>4, ListAdded
<1>7. ASSUME NEW i, DeletePoint(i) PROVE List!Next \/ Stutters
  <2>1. Up = TRUE /\ Up' = Up /\ phase = "serving"
    BY <1>7 DEF DeletePoint, Truncate, OpenFails, Up
  <2>2. i \in DOMAIN CurrentList
    BY <1>7, ListShortened
  <2>3. CASE OpenFails("serving")
    BY <2>1, <2>3, ListUnchanged, EndedUnchanged DEF OpenFails, Stutters
  <2>4. CASE Truncate(RemoveAt(CurrentList, i), "serving")
    <3>1. CurrentList' = RemoveAt(CurrentList, i) /\ CurrentEnded' = TRUE
      <4>1. RemoveAt(CurrentList, i) \in Seq(ReadPoints)
        BY <2>2, ListType, RemoveAtType
      <4> QED
        BY <2>4, <4>1, ListRewritten, EndedRewritten
    <3>2. List!Remove(i)
      BY <2>1, <3>1 DEF List!Remove, RemoveAt, Up
    <3> QED
      BY <2>2, <3>2 DEF List!Next
  <2>5. CurrentList = Configured(disk.lines)
    BY <2>1, ListServed
  <2> QED
    BY <1>7, <2>3, <2>4, <2>5 DEF DeletePoint
<1>8. CASE ClearPoints
  <2>1. Up = TRUE /\ Up' = Up
    BY <1>8 DEF ClearPoints, Truncate, OpenFails, Up
  <2>2. CASE OpenFails("serving")
    BY <1>8, <2>1, <2>2, ListUnchanged, EndedUnchanged DEF OpenFails, ClearPoints, Stutters
  <2>3. CASE Truncate(<<>>, "serving")
    <3>1. List!Clear
      BY <2>1, <2>3, ListEmptied, EndedRewritten DEF List!Clear, Up
    <3> QED
      BY <3>1 DEF List!Next
  <2> QED
    BY <1>8, <2>2, <2>3 DEF ClearPoints
<1>9. CASE FinishSave
  <2>1. Up = TRUE /\ Up' = Up
    BY <1>9, Parts DEF FinishSave, Up
  <2>2. CurrentList' = CurrentList /\ CurrentEnded' = TRUE
    BY <1>9, ListFinished, EndedFinished
  <2>3. CASE CurrentEnded
    BY <1>1, <2>1, <2>2, <2>3 DEF Stutters
  <2>4. CASE ~CurrentEnded
    <3>1. Blurs(CurrentList, CurrentList')
      BY <2>2, ListType, BlursNothing
    <3>2. List!Blurred(CurrentList')
      BY <3>1 DEF List!Blurred, Blurs
    <3>3. List!Blur
      BY <1>1, <2>1, <2>4, <3>2 DEF List!Blur, Up
    <3> QED
      BY <3>3 DEF List!Next
  <2> QED
    BY <2>3, <2>4
<1>10. CASE Stop
  <2>1. Up = TRUE /\ Up' = FALSE
    BY <1>10 DEF Stop, Up
  <2>2. CASE \E n \in 0 .. Len(CurrentList) :
               \/ CurrentList' = SubSeq(CurrentList, 1, n)
               \/ n > 0 /\ \E p \in ReadPoints :
                      /\ p.name = CurrentList[n].name /\ p.kind = CurrentList[n].kind
                      /\ CurrentList' = Append(SubSeq(CurrentList, 1, n - 1), p)
    <3>1. PICK n \in 0 .. Len(CurrentList) :
               \/ CurrentList' = SubSeq(CurrentList, 1, n)
               \/ n > 0 /\ \E p \in ReadPoints :
                      /\ p.name = CurrentList[n].name /\ p.kind = CurrentList[n].kind
                      /\ CurrentList' = Append(SubSeq(CurrentList, 1, n - 1), p)
      BY <2>2
    <3>2. List!Crash(n)
      BY <1>1, <2>1, <3>1 DEF List!Crash, Up
    <3> QED
      BY <3>2 DEF List!Next
  <2>3. CASE ~CurrentEnded /\ Blurs(CurrentList, CurrentList')
    <3>1. List!Blurred(CurrentList')
      BY <2>3 DEF List!Blurred, Blurs
    <3>2. 0 \in 0 .. Len(CurrentList)
      BY ListType
    <3>3. List!Crash(0)
      BY <1>1, <2>1, <2>3, <3>1 DEF List!Crash, Up
    <3> QED
      BY <3>2, <3>3 DEF List!Next
  <2> QED
    BY <1>10, <2>2, <2>3, ListCut
<1>11. CASE UNCHANGED vars
  BY <1>11, ListUnchanged, EndedUnchanged DEF vars, Up, Stutters
<1> QED
  BY <1>2, <1>3, <1>4, <1>5, <1>6, <1>7, <1>8, <1>9, <1>10, <1>11 DEF Next

\* The file behaves as a list that grows at its end, loses the row named, is
\* emptied, and survives a crash as a leading part whose last index may be cut:
\* for every start file, whatever boots, requests, failures to open and crashes do.
\* Where its last line lacks the newline, the next append changes at most the last
\* row and adds at most one.
THEOREM FileImplementsList == Spec => FileIsAList
<1>1. Init => TypeOK /\ Absent
  BY TypeInit
<1>2. TypeOK /\ Absent /\ [Next]_vars => TypeOK' /\ Absent'
  BY TypeStep
<1>3. Init => List!Init
  BY ListInit
<1>4. TypeOK /\ Absent /\ TypeOK' /\ [Next]_vars
      => [List!Next]_<<CurrentList, phase # "down", CurrentEnded>>
  BY ListStep
<1> QED
  BY <1>1, <1>2, <1>3, <1>4, PTL DEF Spec, FileIsAList, List!Spec

(***************************************************************************)
(* Links of the page.                                                      *)
(***************************************************************************)
\* Without two points for one slot, the row taken out is in no other place.
LEMMA RemovesOne ==
    ASSUME NEW pts \in Seq(ReadPoints), SlotsDistinct(pts), NEW k \in DOMAIN pts
    PROVE  ToSet(pts) \ ToSet(RemoveAt(pts, k)) = {pts[k]}
<1> DEFINE m == RemoveAt(pts, k)
<1>1. /\ m \in Seq(ReadPoints) /\ Len(m) = Len(pts) - 1
      /\ \A j \in 1 .. Len(pts) - 1 : m[j] = IF j < k THEN pts[j] ELSE pts[j + 1]
  BY RemoveAtType
<1>2. Len(pts) \in Nat /\ DOMAIN pts = 1 .. Len(pts) /\ k \in 1 .. Len(pts)
  OBVIOUS
<1> HIDE DEF m
<1>3. DOMAIN m = 1 .. Len(pts) - 1
  BY <1>1, <1>2
<1>4. \A i, j \in DOMAIN pts : pts[i] = pts[j] => i = j
  BY DEF SlotsDistinct, SameSlot
<1>5. ASSUME NEW j \in DOMAIN pts, j # k PROVE \E i \in DOMAIN m : m[i] = pts[j]
  <2>1. CASE j < k
    <3>1. j \in DOMAIN m /\ m[j] = pts[j]
      BY <1>1, <1>2, <1>3, <2>1
    <3> QED
      BY <3>1
  <2>2. CASE j > k
    <3>1. j - 1 \in DOMAIN m /\ j - 1 \in 1 .. Len(pts) - 1 /\ ~(j - 1 < k) /\ (j - 1) + 1 = j
      BY <1>2, <1>3, <2>2
    <3>2. m[j - 1] = pts[j]
      BY <1>1, <3>1
    <3> QED
      BY <3>1, <3>2
  <2> QED
    BY <1>2, <1>5, <2>1, <2>2
<1>6. ASSUME NEW i \in DOMAIN m PROVE m[i] # pts[k]
  <2>1. PICK j \in DOMAIN pts : j # k /\ m[i] = pts[j]
    <3>1. CASE i < k
      <4>1. i \in DOMAIN pts /\ i # k /\ m[i] = pts[i]
        BY <1>1, <1>2, <1>3, <3>1
      <4> QED
        BY <4>1
    <3>2. CASE ~(i < k)
      <4>1. i + 1 \in DOMAIN pts /\ i + 1 # k /\ m[i] = pts[i + 1]
        BY <1>1, <1>2, <1>3, <3>2
      <4> QED
        BY <4>1
    <3> QED
      BY <3>1, <3>2
  <2> QED
    BY <1>4, <2>1
<1>7. ToSet(pts) \ ToSet(m) = {pts[k]}
  BY <1>5, <1>6 DEF ToSet
<1> QED
  BY <1>7 DEF m

\* RemovePointFromConfigFileByIndex counts the points as the page does: in a file
\* that was never torn, the link of a row removes the point that the row shows as
\* long as the page shows the file as it is.
THEOREM FreshLinkIsRight == Spec => FreshLinkRemovesItsRow
<1> DEFINE Right == \A b \in Browsers, i \in 1 .. MaxLines :
                        page[b] = CurrentList /\ ~torn => RemovesShownRow(b, i)
<1>1. Init => TypeOK /\ Absent /\ SlotsStayDistinct
  BY TypeInit, DistinctInit
<1>2. TypeOK /\ Absent /\ SlotsStayDistinct /\ [Next]_vars
      => TypeOK' /\ Absent' /\ SlotsStayDistinct'
  BY TypeStep, DistinctStep
<1>3. ASSUME TypeOK, SlotsStayDistinct PROVE Right
  <2> SUFFICES ASSUME NEW b \in Browsers, NEW i \in 1 .. MaxLines, page[b] = CurrentList, ~torn,
                      DeletePoint(i), phase' = "saving"
               PROVE  ToSet(CurrentList) \ ToSet(CurrentList') = {page[b][i]}
    BY DEF RemovesShownRow
  <2>1. CurrentList' = RemoveAt(CurrentList, i) /\ i \in DOMAIN CurrentList
    BY <1>3, ListShortened
  <2>2. SlotsDistinct(CurrentList) /\ CurrentList \in Seq(ReadPoints)
    BY <1>3, ListType DEF SlotsStayDistinct
  <2> QED
    BY <2>1, <2>2, RemovesOne
<1>4. TypeOK /\ SlotsStayDistinct /\ [Next]_vars => [Right]_vars
  BY <1>3
<1> QED
  BY <1>1, <1>2, <1>4, PTL DEF Spec, FreshLinkRemovesItsRow

(***************************************************************************)
(* Points reported as saved.                                               *)
(***************************************************************************)
SavedIsListed ==
    \A l \in Forms : AddPoint(l) /\ phase' = "saving" /\ ~torn =>
        \E i \in DOMAIN CurrentList' : CurrentList'[i] = ReadPoint(l)

LEMMA EndedStep ==
    ASSUME TypeOK, ~torn => Ended(disk), [Next]_vars
    PROVE  ~torn' => Ended(disk)'
<1>1. ASSUME NEW pts, NEW next, Truncate(pts, next) PROVE Ended(disk)'
  BY <1>1 DEF Truncate, Ended
<1>2. ASSUME UNCHANGED <<disk, torn>> PROVE ~torn' => Ended(disk)'
  BY <1>2 DEF Ended
<1>3. CASE BootEmpty \/ ClearPoints \/ \E i \in 1 .. MaxLines : DeletePoint(i)
  <2>1. torn' = torn
    BY <1>3 DEF BootEmpty, ClearPoints, DeletePoint
  <2>2. \/ \E pts, next : Truncate(pts, next)
        \/ \E next : OpenFails(next)
    BY <1>3 DEF BootEmpty, ClearPoints, DeletePoint
  <2>3. ASSUME NEW next, OpenFails(next) PROVE disk' = disk
    BY <2>3 DEF OpenFails
  <2> QED
    BY <1>1, <1>2, <2>1, <2>2, <2>3
<1>4. CASE BootFromFile \/ ConfigureDatabase \/ \E b \in Browsers : ViewPage(b)
  BY <1>2, <1>4 DEF BootFromFile, ConfigureDatabase, CreateSlot, AnalogsCreated,
                    BinariesCreated, ViewPage
<1>5. ASSUME NEW l \in Forms, AddPoint(l) PROVE ~torn' => Ended(disk)'
  <2>1. disk' = disk /\ (~torn' => ~torn)
    BY <1>5 DEF AddPoint, OpenFails, TypeOK
  <2> QED
    BY <2>1 DEF Ended
<1>6. CASE FinishSave
  BY <1>6 DEF FinishSave, Ended
<1>7. CASE Stop
  <2>1. phase = "saving" => torn' = TRUE
    BY <1>7 DEF Stop
  <2>2. phase # "saving" => UNCHANGED <<disk, torn>>
    BY <1>7 DEF Stop
  <2> QED
    BY <1>2, <2>1, <2>2
<1>8. CASE UNCHANGED vars
  BY <1>2, <1>8 DEF vars
<1> QED
  BY <1>3, <1>4, <1>5, <1>6, <1>7, <1>8 DEF Next

\* "Ponto salvo ... Ele já aparece na lista" is true of every file that started with
\* its last newline, or empty, and whose writes were never cut short: the run that
\* violates SavedPointIsListed shows that this is also needed.
THEOREM SavedPointIsListedIfEnded ==
    ASSUME \A d \in StartDisks : d.whole \/ d.lines = <<>>
    PROVE  Spec => [][SavedIsListed]_vars
<1>1. Init => TypeOK /\ Absent /\ (~torn => Ended(disk))
  BY TypeInit DEF Init, Ended
<1>2. TypeOK /\ Absent /\ (~torn => Ended(disk)) /\ [Next]_vars
      => TypeOK' /\ Absent' /\ (~torn' => Ended(disk)')
  BY TypeStep, EndedStep
<1>3. ASSUME TypeOK, ~torn => Ended(disk) PROVE SavedIsListed
  <2> SUFFICES ASSUME NEW l \in Forms, AddPoint(l), phase' = "saving", ~torn
               PROVE  \E i \in DOMAIN CurrentList' : CurrentList'[i] = ReadPoint(l)
    BY DEF SavedIsListed
  <2> DEFINE q == Configured(disk.lines)
  <2>1. l \in Lines /\ IsPoint(l) /\ q \in Seq(ReadPoints) /\ disk.lines \in Seq(Lines)
    BY <1>3, LinesAssumption, Parts
  <2>2. saving'.lines \in Appended(disk, l)
    BY DEF AddPoint, OpenFails
  <2>3. saving'.lines = Append(disk.lines, l)
    BY <1>3, <2>2 DEF Appended
  <2>4. CurrentList' = Configured(Append(disk.lines, l))
    BY <2>2, <2>3 DEF CurrentList
  <2>5. CurrentList' = Append(q, ReadPoint(l))
    BY <2>1, <2>4, ConfiguredAppend
  <2>6. ReadPoint(l) \in ReadPoints
    BY <2>1, ReadPointType
  <2> HIDE DEF q
  <2>7. Len(q) + 1 \in DOMAIN CurrentList' /\ CurrentList'[Len(q) + 1] = ReadPoint(l)
    BY <2>1, <2>5, <2>6, AppendProperties
  <2> QED
    BY <2>7
<1>4. TypeOK /\ (~torn => Ended(disk)) /\ [Next]_vars => [SavedIsListed]_vars
  BY <1>3
<1> QED
  BY <1>1, <1>2, <1>4, PTL DEF Spec
=============================================================================
