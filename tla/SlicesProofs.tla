---------------------------- MODULE SlicesProofs ----------------------------
(* What the functions of Slices return.                                    *)
EXTENDS Slices, SequenceTheorems, TLAPS

LEMMA ElementsType ==
    ASSUME NEW S, NEW s \in Seq(S)
    PROVE  Elements(s) \in SUBSET S
  BY ElementOfSeq DEF Elements

\* Deleting one element of a slice leaves a slice of the same elements.
LEMMA SliceDeleteType ==
    ASSUME NEW S, NEW s \in Seq(S), NEW idx \in Int,
           0 <= idx, idx < Len(s)
    PROVE  /\ SliceDelete(s, idx) \in Seq(S)
           /\ Len(SliceDelete(s, idx)) = Len(s) - 1
  <1>1. Len(s) - 1 \in Nat
    BY LenProperties
  <1>2. SliceDelete(s, idx) \in [1 .. Len(s) - 1 -> S]
    <2>1. \A i \in 1 .. Len(s) : s[i] \in S
      BY ElementOfSeq
    <2> QED
      BY <1>1, <2>1 DEF SliceDelete
  <1>3. SliceDelete(s, idx) \in Seq(S)
    BY <1>1, <1>2, SeqDef
  <1>4. Len(SliceDelete(s, idx)) = Len(s) - 1
    BY <1>1, <1>2, <1>3, LenProperties DEF SliceDelete
  <1> QED
    BY <1>3, <1>4

\* A sequence without its element i has the same elements, in their order.
LEMMA CutOut ==
    ASSUME NEW S, NEW s \in Seq(S), NEW i \in DOMAIN s,
           NEW r, r = SubSeq(s, 1, i - 1) \o SubSeq(s, i + 1, Len(s))
    PROVE  /\ r \in Seq(S) /\ Len(r) = Len(s) - 1
           /\ \A j \in 1 .. i - 1 : r[j] = s[j]
           /\ \A j \in i .. Len(s) - 1 : r[j] = s[j + 1]
           /\ Elements(r) \subseteq Elements(s)
  <1>1. Len(s) \in Nat /\ i \in 1 .. Len(s)
    BY LenProperties
  <1> DEFINE a == SubSeq(s, 1, i - 1)
             b == SubSeq(s, i + 1, Len(s))
  <1>2. /\ a \in Seq(S) /\ Len(a) = i - 1
        /\ \A j \in 1 .. i - 1 : a[j] = s[j]
    BY <1>1, SubSeqProperties
  <1>3. /\ b \in Seq(S) /\ Len(b) = Len(s) - i
        /\ \A j \in 1 .. Len(s) - i : b[j] = s[i + j]
    BY <1>1, SubSeqProperties
  <1> HIDE DEF a, b
  <1>4. /\ a \o b \in Seq(S) /\ Len(a \o b) = Len(s) - 1
        /\ \A j \in 1 .. i - 1 : (a \o b)[j] = s[j]
        /\ \A j \in i .. Len(s) - 1 : (a \o b)[j] = s[j + 1]
    <2>1. /\ a \o b \in Seq(S) /\ Len(a \o b) = Len(a) + Len(b)
          /\ \A j \in 1 .. Len(a) + Len(b) :
                (a \o b)[j] = IF j <= Len(a) THEN a[j] ELSE b[j - Len(a)]
      BY <1>2, <1>3, ConcatProperties, Zenon
    <2>2. ASSUME NEW j \in 1 .. i - 1 PROVE (a \o b)[j] = s[j]
      <3>1. j \in 1 .. Len(a) + Len(b) /\ j <= Len(a)
        BY <1>1, <1>2, <1>3
      <3> QED
        BY <1>2, <2>1, <3>1, Zenon
    <2>3. ASSUME NEW j \in i .. Len(s) - 1 PROVE (a \o b)[j] = s[j + 1]
      <3>1. j - (i - 1) \in 1 .. Len(s) - i /\ i + (j - (i - 1)) = j + 1
        BY <1>1
      <3>2. j \in 1 .. Len(a) + Len(b) /\ ~(j <= Len(a)) /\ Len(a) = i - 1
        BY <1>1, <1>2, <1>3
      <3>3. (a \o b)[j] = b[j - (i - 1)]
        BY <2>1, <3>2, Zenon
      <3> QED
        BY <1>3, <3>1, <3>3, Zenon
    <2>4. Len(a) + Len(b) = Len(s) - 1
      BY <1>1, <1>2, <1>3
    <2> QED
      BY <2>1, <2>2, <2>3, <2>4, Zenon
  <1>5. ASSUME NEW j \in 1 .. Len(s) - 1
        PROVE  (a \o b)[j] \in Elements(s)
    <2>1. CASE j <= i - 1
      <3>1. j \in 1 .. i - 1 /\ j \in 1 .. Len(s)
        BY <1>1, <2>1
      <3> QED
        BY <1>4, <3>1 DEF Elements
    <2>2. CASE j > i - 1
      <3>1. j \in i .. Len(s) - 1 /\ j + 1 \in 1 .. Len(s)
        BY <1>1, <2>2
      <3> QED
        BY <1>4, <3>1 DEF Elements
    <2>3. j <= i - 1 \/ j > i - 1
      BY <1>1
    <2> QED
      BY <2>1, <2>2, <2>3, Zenon
  <1>6. Elements(a \o b) \subseteq Elements(s)
    BY <1>4, <1>5 DEF Elements
  <1> QED
    BY <1>4, <1>6 DEF a, b

\* slices.IndexFunc returns an index of the slice that holds the hash, or -1.
LEMMA IndexFuncType ==
    ASSUME NEW S, NEW s \in Seq(S), NEW h
    PROVE  /\ IndexFunc(s, h) \in Int
           /\ h \in Elements(s) => /\ 0 <= IndexFunc(s, h) /\ IndexFunc(s, h) < Len(s)
                                  /\ s[IndexFunc(s, h) + 1] = h
           /\ h \notin Elements(s) => IndexFunc(s, h) = -1
  <1>1. Len(s) \in Nat
    BY LenProperties
  <1>2. CASE h \in Elements(s)
    <2> DEFINE i == CHOOSE i \in 1 .. Len(s) : s[i] = h
    <2>1. i \in 1 .. Len(s) /\ s[i] = h
      BY <1>2 DEF Elements
    <2>2. IndexFunc(s, h) = i - 1
      BY <1>2 DEF IndexFunc
    <2> QED
      BY <1>1, <1>2, <2>1, <2>2
  <1>3. CASE h \notin Elements(s)
    BY <1>3 DEF IndexFunc
  <1> QED
    BY <1>2, <1>3

\* What the usual operations on a slice do to its elements.
LEMMA ElementsEmpty == Elements(<<>>) = {}
  BY DEF Elements

LEMMA ElementsAppend ==
    ASSUME NEW S, NEW s \in Seq(S), NEW x \in S
    PROVE  Elements(Append(s, x)) = Elements(s) \cup {x}
  <1>1. /\ Len(s) \in Nat /\ Len(Append(s, x)) = Len(s) + 1
        /\ \A i \in 1 .. Len(s) : Append(s, x)[i] = s[i]
        /\ Append(s, x)[Len(s) + 1] = x
    BY AppendProperties, LenProperties
  <1>2. 1 .. Len(s) + 1 = (1 .. Len(s)) \cup {Len(s) + 1}
    BY <1>1
  <1> QED
    BY <1>1, <1>2 DEF Elements

LEMMA ElementsHeadTail ==
    ASSUME NEW S, NEW s \in Seq(S), s # <<>>
    PROVE  /\ Head(s) \in Elements(s) /\ Elements(Tail(s)) \subseteq Elements(s)
           /\ Elements(s) \subseteq {Head(s)} \cup Elements(Tail(s))
           /\ Len(s) <= 1 => Elements(s) = {Head(s)}
  <1>1. /\ Len(s) \in Nat \ {0} /\ Len(Tail(s)) = Len(s) - 1 /\ Head(s) = s[1]
        /\ \A i \in 1 .. Len(Tail(s)) : Tail(s)[i] = s[i + 1]
    <2>1. Len(s) \in Nat /\ Len(s) # 0
      BY LenProperties, EmptySeq
    <2> QED
      BY <2>1, HeadTailProperties
  <1>2. 1 \in 1 .. Len(s) /\ \A i \in 1 .. Len(s) - 1 : i + 1 \in 1 .. Len(s)
    BY <1>1
  <1>3. \A i \in 1 .. Len(s) : i = 1 \/ (i - 1 \in 1 .. Len(s) - 1 /\ (i - 1) + 1 = i)
    BY <1>1
  <1>4. Elements(s) \subseteq {Head(s)} \cup Elements(Tail(s))
    <2> SUFFICES ASSUME NEW i \in 1 .. Len(s)
                 PROVE  s[i] \in {Head(s)} \cup Elements(Tail(s))
      BY DEF Elements
    <2>1. CASE i = 1
      BY <1>1, <2>1
    <2>2. CASE i - 1 \in 1 .. Len(s) - 1 /\ (i - 1) + 1 = i
      <3>1. Tail(s)[i - 1] = s[i] /\ i - 1 \in 1 .. Len(Tail(s))
        BY <1>1, <2>2
      <3> QED
        BY <3>1 DEF Elements
    <2> QED
      BY <1>3, <2>1, <2>2
  <1>5. Len(s) <= 1 => 1 .. Len(s) = {1}
    BY <1>1
  <1> QED
    BY <1>1, <1>2, <1>4, <1>5 DEF Elements

LEMMA ElementsExcept ==
    ASSUME NEW S, NEW s \in Seq(S), NEW i \in 1 .. Len(s), NEW x \in S
    PROVE  Elements([s EXCEPT ![i] = x]) \subseteq Elements(s) \cup {x}
  <1>1. /\ Len([s EXCEPT ![i] = x]) = Len(s) /\ DOMAIN s = 1 .. Len(s)
        /\ [s EXCEPT ![i] = x] \in Seq(S)
    BY ExceptSeq, LenProperties
  <1> QED
    BY <1>1 DEF Elements

LEMMA ElementsDelete ==
    ASSUME NEW S, NEW s \in Seq(S), NEW idx \in Int, 0 <= idx, idx < Len(s)
    PROVE  Elements(SliceDelete(s, idx)) \subseteq Elements(s)
  <1>1. /\ Len(s) \in Nat /\ Len(SliceDelete(s, idx)) = Len(s) - 1
        /\ \A i \in 1 .. Len(s) - 1 : i \in 1 .. Len(s) /\ i + 1 \in 1 .. Len(s)
    BY SliceDeleteType, LenProperties
  <1> QED
    BY <1>1 DEF Elements, SliceDelete

\* No element of the slice is there twice.
Distinct(s) == \A i, j \in 1 .. Len(s) : s[i] = s[j] => i = j

LEMMA IndexOfDistinct ==
    ASSUME NEW S, NEW s \in Seq(S), Distinct(s), NEW i \in 1 .. Len(s)
    PROVE  s[i] \in Elements(s) /\ IndexFunc(s, s[i]) = i - 1
  <1>1. s[i] \in Elements(s)
    BY DEF Elements
  <1>2. \A j \in 1 .. Len(s) : s[j] = s[i] <=> j = i
    BY DEF Distinct
  <1>3. (CHOOSE j \in 1 .. Len(s) : s[j] = s[i]) = i
    BY <1>2
  <1> QED
    BY <1>1, <1>3 DEF IndexFunc

\* An append leaves every index alone.
LEMMA IndexAppend ==
    ASSUME NEW S, NEW s \in Seq(S), Distinct(s), NEW x \in S, x \notin Elements(s)
    PROVE  /\ Distinct(Append(s, x))
           /\ \A h \in Elements(s) : IndexFunc(Append(s, x), h) = IndexFunc(s, h)
  <1> DEFINE r == Append(s, x)
  <1>1. /\ Len(s) \in Nat /\ Len(r) = Len(s) + 1 /\ r \in Seq(S)
        /\ \A i \in 1 .. Len(s) : r[i] = s[i]
        /\ r[Len(s) + 1] = x
    BY AppendProperties, LenProperties
  <1> HIDE DEF r
  <1>2. Distinct(r)
    <2> SUFFICES ASSUME NEW i \in 1 .. Len(r), NEW j \in 1 .. Len(r), r[i] = r[j]
                 PROVE  i = j
      BY DEF Distinct
    <2>1. \A k \in 1 .. Len(s) : s[k] # x
      BY DEF Elements
    <2>2. (i \in 1 .. Len(s) \/ i = Len(s) + 1) /\ (j \in 1 .. Len(s) \/ j = Len(s) + 1)
      BY <1>1
    <2> QED
      BY <1>1, <2>1, <2>2 DEF Distinct
  <1>3. ASSUME NEW i \in 1 .. Len(s) PROVE IndexFunc(r, s[i]) = IndexFunc(s, s[i])
    <2>1. i \in 1 .. Len(r) /\ r[i] = s[i]
      BY <1>1
    <2>2. IndexFunc(r, r[i]) = i - 1
      BY <1>1, <1>2, <2>1, IndexOfDistinct
    <2>3. IndexFunc(s, s[i]) = i - 1
      BY IndexOfDistinct
    <2> QED
      BY <2>1, <2>2, <2>3
  <1> QED
    BY <1>2, <1>3 DEF Elements, r

\* A deletion shifts elements to the left, if at all.
LEMMA IndexDelete ==
    ASSUME NEW S, NEW s \in Seq(S), Distinct(s), NEW idx \in Int,
           0 <= idx, idx < Len(s)
    PROVE  /\ Distinct(SliceDelete(s, idx))
           /\ Elements(SliceDelete(s, idx)) \subseteq Elements(s)
           /\ \A h \in Elements(SliceDelete(s, idx)) :
                 IndexFunc(SliceDelete(s, idx), h) <= IndexFunc(s, h)
  <1> DEFINE r == SliceDelete(s, idx)
             At(i) == IF i <= idx THEN i ELSE i + 1
  <1>1. /\ Len(s) \in Nat /\ r \in Seq(S) /\ Len(r) = Len(s) - 1
        /\ \A i \in 1 .. Len(r) : r[i] = s[At(i)]
    <2>1. Len(s) \in Nat /\ r \in Seq(S) /\ Len(r) = Len(s) - 1
      BY SliceDeleteType, LenProperties
    <2> QED
      BY <2>1 DEF SliceDelete
  <1> HIDE DEF r
  <1>2. /\ \A i \in 1 .. Len(r) : At(i) \in 1 .. Len(s) /\ i <= At(i)
        /\ \A i, j \in 1 .. Len(r) : At(i) = At(j) => i = j
    BY <1>1
  <1> HIDE DEF At
  <1>3. Distinct(r)
    BY <1>1, <1>2 DEF Distinct
  <1>4. ASSUME NEW i \in 1 .. Len(r)
        PROVE  /\ r[i] \in Elements(s)
               /\ IndexFunc(r, r[i]) <= IndexFunc(s, r[i])
    <2>1. IndexFunc(r, r[i]) = i - 1
      BY <1>1, <1>3, IndexOfDistinct
    <2>2. s[At(i)] \in Elements(s) /\ IndexFunc(s, s[At(i)]) = At(i) - 1
      BY <1>2, IndexOfDistinct
    <2>3. i \in Int /\ At(i) \in Int /\ i <= At(i)
      BY <1>1, <1>2
    <2> QED
      BY <1>1, <2>1, <2>2, <2>3
  <1> QED
    BY <1>3, <1>4 DEF Elements, r
=============================================================================
