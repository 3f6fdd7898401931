-------------------------- MODULE FrontendsProofs --------------------------
(***************************************************************************)
(* Proofs about Frontends, for any number of background starts, fragments  *)
(* of a log and requests.                                                  *)
(***************************************************************************)
EXTENDS Frontends, FiniteSetTheorems, SequenceTheorems, TLAPS

-----------------------------------------------------------------------------
(***************************************************************************)
(* Lines.                                                                  *)
(***************************************************************************)
\* Where s has l.
Where(l, s) == {i \in DOMAIN s : s[i] = l}

Texts == Seq(Seq(Nat))

LEMMA CountIsSize ==
  ASSUME NEW s \in Texts, NEW l
  PROVE  IsFiniteSet(Where(l, s)) /\ Count(l, s) = Cardinality(Where(l, s)) /\ Count(l, s) \in Nat
<1>1. DOMAIN s = 1 .. Len(s) /\ Len(s) \in Int
  BY DEF Texts
<1>2. IsFiniteSet(1 .. Len(s))
  BY <1>1, FS_Interval
<1>3. Where(l, s) \in SUBSET (1 .. Len(s))
  BY <1>1 DEF Where
<1>4. IsFiniteSet(Where(l, s))
  BY <1>2, <1>3, FS_Subset
<1>5. Cardinality(Where(l, s)) \in Nat
  BY <1>4, FS_CardinalityType
<1> QED
  BY <1>4, <1>5 DEF Where, Count

\* A sequence that is one text after another, neither with a line twice, has no line more
\* often than twice.
LEMMA TwiceAtMost ==
  ASSUME NEW s \in Texts, NEW m \in Nat,
         \A i, j \in DOMAIN s : i <= m /\ j <= m /\ s[i] = s[j] => i = j,
         \A i, j \in DOMAIN s : i > m /\ j > m /\ s[i] = s[j] => i = j,
         NEW l
  PROVE  Count(l, s) <= MaxShown
<1> DEFINE W == Where(l, s)
           low == {i \in W : i <= m}
           high == {i \in W : i > m}
<1>1. W \subseteq DOMAIN s /\ DOMAIN s \subseteq Nat /\ \A i \in W : s[i] = l
  BY DEF Where, Texts
<1>2. \E a \in Nat : low \subseteq {a}
  <2>1. CASE low = {}
    BY <2>1
  <2>2. CASE low # {}
    <3>1. PICK a : a \in low
      BY <2>2
    <3> QED
      BY <1>1, <3>1
  <2> QED
    BY <2>1, <2>2
<1>3. \E b \in Nat : high \subseteq {b}
  <2>1. CASE high = {}
    BY <2>1
  <2>2. CASE high # {}
    <3>1. PICK b : b \in high
      BY <2>2
    <3> QED
      BY <1>1, <3>1
  <2> QED
    BY <2>1, <2>2
<1>4. PICK a \in Nat, b \in Nat : low \subseteq {a} /\ high \subseteq {b}
  BY <1>2, <1>3
<1>5. W \in SUBSET ({a} \cup {b})
  BY <1>1, <1>4
<1> HIDE DEF W
<1>6. IsFiniteSet({a}) /\ Cardinality({a}) = 1
  BY FS_Singleton
<1>7. IsFiniteSet({a} \cup {b}) /\ Cardinality({a} \cup {b}) <= 2
  BY <1>6, FS_AddElement
<1>8. Cardinality(W) <= Cardinality({a} \cup {b}) /\ IsFiniteSet(W)
  BY <1>5, <1>7, FS_Subset
<1>9. Cardinality(W) \in Nat /\ Cardinality({a} \cup {b}) \in Nat
  BY <1>7, <1>8, FS_CardinalityType
<1> QED
  BY <1>7, <1>8, <1>9, CountIsSize DEF W, MaxShown

\* A log of n fragments: its lines, of two fragments but for the last.
LEMMA Lines ==
  ASSUME NEW n \in Nat
  PROVE  \E h \in Nat :
           /\ n = 2 * h \/ n = 2 * h - 1
           /\ EndsLine(n) <=> n = 2 * h
           /\ Len(LinesOf(n)) = h /\ LinesOf(n) \in Texts
           /\ \A i \in 1 .. h : LinesOf(n)[i] = IF 2 * i <= n THEN <<2 * i - 1, 2 * i>> ELSE <<n>>
           /\ \A i, j \in 1 .. h : LinesOf(n)[i] = LinesOf(n)[j] => i = j
<1> DEFINE h == (n + 1) \div 2
<1>1. h \in Nat /\ (n = 2 * h \/ n = 2 * h - 1)
  OBVIOUS
<1>2. EndsLine(n) <=> n = 2 * h
  BY DEF EndsLine
<1>3. LinesOf(n) = [i \in 1 .. h |-> IF 2 * i <= n THEN <<2 * i - 1, 2 * i>> ELSE <<n>>]
  BY DEF LinesOf
<1> HIDE DEF h
<1>4. \A i \in 1 .. h : 2 * i - 1 \in Nat /\ 2 * i \in Nat /\ (2 * i > n => i = h)
  BY <1>1
<1>5. \A i \in 1 .. h : LinesOf(n)[i] \in Seq(Nat)
  BY <1>3, <1>4
<1>6. LinesOf(n) \in Texts /\ Len(LinesOf(n)) = h
  BY <1>1, <1>3, <1>5, IsASeq DEF Texts
<1>7. ASSUME NEW i \in 1 .. h, NEW j \in 1 .. h, LinesOf(n)[i] = LinesOf(n)[j] PROVE i = j
  <2>1. CASE 2 * i <= n /\ 2 * j <= n
    <3>1. <<2 * i - 1, 2 * i>> = <<2 * j - 1, 2 * j>>
      BY <1>3, <1>7, <2>1
    <3>2. 2 * i = 2 * j
      BY <3>1
    <3> QED
      BY <1>1, <3>2
  <2>2. CASE 2 * i > n /\ 2 * j > n
    BY <1>1, <1>4, <2>2
  <2>3. CASE 2 * i <= n /\ 2 * j > n
    <3>1. <<2 * i - 1, 2 * i>> = <<n>>
      BY <1>1, <1>3, <1>7, <2>3
    <3> QED
      BY <3>1
  <2>4. CASE 2 * i > n /\ 2 * j <= n
    <3>1. <<n>> = <<2 * j - 1, 2 * j>>
      BY <1>1, <1>3, <1>7, <2>4
    <3> QED
      BY <3>1
  <2> QED
    BY <1>1, <2>1, <2>2, <2>3, <2>4
<1> QED
  BY <1>1, <1>2, <1>3, <1>6, <1>7

\* One text after another.
LEMMA Together ==
  ASSUME NEW a \in Texts, NEW b \in Texts, NEW s, s = a \o b
  PROVE  /\ s \in Texts /\ DOMAIN s = 1 .. Len(a) + Len(b)
         /\ \A i \in 1 .. Len(a) + Len(b) : s[i] = IF i <= Len(a) THEN a[i] ELSE b[i - Len(a)]
<1>1. s \in Texts /\ Len(s) = Len(a) + Len(b)
  BY DEF Texts
<1>2. \A i \in 1 .. Len(a) + Len(b) : s[i] = IF i <= Len(a) THEN a[i] ELSE b[i - Len(a)]
  BY ConcatProperties DEF Texts
<1>3. DOMAIN s = 1 .. Len(s)
  BY <1>1 DEF Texts
<1> QED
  BY <1>1, <1>2, <1>3

\* The lines of the two logs, put together: none is there more often than twice.
LEMMA CombinedLines ==
  ASSUME NEW o \in Nat, NEW e \in Nat
  PROVE  Combined(o, e) \in Texts /\ \A l : Count(l, Combined(o, e)) <= MaxShown
<1> DEFINE out == LinesOf(o)
           err == LinesOf(e)
           s == Combined(o, e)
<1>1. PICK h \in Nat :
           /\ o = 2 * h \/ o = 2 * h - 1
           /\ EndsLine(o) <=> o = 2 * h
           /\ Len(out) = h /\ out \in Texts
           /\ \A i \in 1 .. h : out[i] = IF 2 * i <= o THEN <<2 * i - 1, 2 * i>> ELSE <<o>>
           /\ \A i, j \in 1 .. h : out[i] = out[j] => i = j
  BY Lines
<1>2. PICK k \in Nat :
           /\ e = 2 * k \/ e = 2 * k - 1
           /\ EndsLine(e) <=> e = 2 * k
           /\ Len(err) = k /\ err \in Texts
           /\ \A i \in 1 .. k : err[i] = IF 2 * i <= e THEN <<2 * i - 1, 2 * i>> ELSE <<e>>
           /\ \A i, j \in 1 .. k : err[i] = err[j] => i = j
  BY Lines
<1>3. CASE EndsLine(o) \/ e = 0
  <2>1. s = out \o err
    BY <1>3 DEF Combined
  <2> HIDE DEF s, out, err
  <2>2. /\ s \in Texts /\ DOMAIN s = 1 .. h + k
        /\ \A i \in 1 .. h + k : s[i] = IF i <= h THEN out[i] ELSE err[i - h]
    <3>1. /\ s \in Texts /\ DOMAIN s = 1 .. Len(out) + Len(err)
          /\ \A i \in 1 .. Len(out) + Len(err) : s[i] = IF i <= Len(out) THEN out[i] ELSE err[i - Len(out)]
      <4>1. out \in Texts /\ err \in Texts
        BY <1>1, <1>2
      <4> QED
        BY <2>1, <4>1, Together
    <3> QED
      BY <1>1, <1>2, <3>1
  <2>3. ASSUME NEW i \in DOMAIN s, NEW j \in DOMAIN s, i <= h, j <= h, s[i] = s[j] PROVE i = j
    <3>1. i \in 1 .. h /\ j \in 1 .. h /\ out[i] = out[j]
      BY <2>2, <2>3
    <3> QED
      BY <1>1, <3>1
  <2>4. ASSUME NEW i \in DOMAIN s, NEW j \in DOMAIN s, i > h, j > h, s[i] = s[j] PROVE i = j
    <3>1. i - h \in 1 .. k /\ j - h \in 1 .. k /\ err[i - h] = err[j - h]
      BY <2>2, <2>4
    <3>2. i - h = j - h
      BY <1>2, <3>1
    <3> QED
      BY <2>2, <3>2
  <2> QED
    BY <2>2, <2>3, <2>4, TwiceAtMost DEF s
<1>4. CASE ~EndsLine(o) /\ e # 0
  <2> DEFINE joined == out[h] \o err[1]
             front == SubSeq(out, 1, h - 1)
             tail == Tail(err)
             begin == Append(front, joined)
  <2>1. h \in 1 .. h /\ 1 \in 1 .. k /\ o = 2 * h - 1
    BY <1>1, <1>2, <1>4
  <2>2. out[h] = <<o>> /\ err[1] \in {<<1, 2>>, <<1>>}
    <3> HIDE DEF out, err
    <3>1. out[h] = <<o>>
      BY <1>1, <2>1
    <3>2. err[1] = IF 2 * 1 <= e THEN <<2 * 1 - 1, 2 * 1>> ELSE <<e>>
      BY <1>2, <2>1
    <3>3. 2 * 1 > e => e = 1
      BY <1>4
    <3>4. 2 * 1 - 1 = 1 /\ 2 * 1 = 2
      OBVIOUS
    <3> QED
      BY <3>1, <3>2, <3>3, <3>4
  <2>3. s = begin \o tail
    <3>1. Head(err) = err[1] /\ Last(out) = out[h] /\ Front(out) = front
      BY <1>1, <1>2, <2>1 DEF Last, Front, Texts
    <3> QED
      BY <1>4, <3>1 DEF Combined
  <2>4. joined \in Seq(Nat) /\ joined[2] = 1
    <3>1. /\ out[h] \in Seq(Nat) /\ Len(out[h]) = 1
          /\ err[1] \in Seq(Nat) /\ Len(err[1]) >= 1 /\ err[1][1] = 1
      <4> HIDE DEF out, err
      <4>1. Len(out[h]) = 1 /\ out[h] \in Seq(Nat)
        BY <2>2
      <4>2. CASE err[1] = <<1, 2>>
        BY <4>1, <4>2
      <4>3. CASE err[1] = <<1>>
        BY <4>1, <4>3
      <4> QED
        BY <2>2, <4>2, <4>3
    <3>2. joined \in Seq(Nat)
      BY <3>1
    <3>3. (out[h] \o err[1])[2] = err[1][2 - Len(out[h])]
      <4>1. 2 \in 1 .. Len(out[h]) + Len(err[1]) /\ ~(2 <= Len(out[h]))
        BY <3>1
      <4> QED
        BY <3>1, <4>1, ConcatProperties
    <3>4. 2 - Len(out[h]) = 1
      BY <3>1
    <3> QED
      BY <3>1, <3>2, <3>3, <3>4
  <2>5. /\ front \in Texts /\ Len(front) = h - 1
        /\ \A i \in 1 .. h - 1 : front[i] = out[i]
    BY <1>1, <2>1 DEF Texts
  <2>6. /\ tail \in Texts /\ Len(tail) = k - 1
        /\ \A i \in 1 .. k - 1 : tail[i] = err[i + 1]
    BY <1>2, <2>1 DEF Texts
  <2> HIDE DEF joined, front, tail
  <2>7. /\ begin \in Texts /\ Len(begin) = h
        /\ \A i \in 1 .. h - 1 : begin[i] = out[i]
        /\ begin[h] = joined
    BY <2>1, <2>4, <2>5 DEF Texts
  <2> HIDE DEF s, out, err, begin
  <2>8. /\ s \in Texts /\ DOMAIN s = 1 .. h + (k - 1)
        /\ \A i \in 1 .. h + (k - 1) : s[i] = IF i <= h THEN begin[i] ELSE tail[i - h]
    <3>1. /\ s \in Texts /\ DOMAIN s = 1 .. Len(begin) + Len(tail)
          /\ \A i \in 1 .. Len(begin) + Len(tail) :
               s[i] = IF i <= Len(begin) THEN begin[i] ELSE tail[i - Len(begin)]
      BY <2>3, <2>6, <2>7, Together
    <3> QED
      BY <2>6, <2>7, <3>1
  <2>9. \A i \in 1 .. h - 1 : out[i] # joined
    <3>1. TAKE i \in 1 .. h - 1
    <3>2. 2 * i <= o /\ i \in 1 .. h
      BY <2>1
    <3>3. out[i] = <<2 * i - 1, 2 * i>>
      BY <1>1, <3>2
    <3>4. out[i][2] = 2 * i
      BY <3>3
    <3> QED
      BY <2>4, <3>4
  <2>10. ASSUME NEW i \in DOMAIN s, NEW j \in DOMAIN s, i <= h, j <= h, s[i] = s[j] PROVE i = j
    <3>1. i \in 1 .. h /\ j \in 1 .. h /\ begin[i] = begin[j]
      BY <2>8, <2>10
    <3>2. CASE i = h /\ j # h
      BY <2>7, <2>9, <3>1, <3>2
    <3>3. CASE i # h /\ j = h
      BY <2>7, <2>9, <3>1, <3>3
    <3>4. CASE i # h /\ j # h
      <4>1. i \in 1 .. h - 1 /\ j \in 1 .. h - 1
        BY <3>1, <3>4
      <4>2. out[i] = out[j]
        BY <2>7, <3>1, <4>1
      <4> QED
        BY <1>1, <3>1, <4>2
    <3> QED
      BY <3>2, <3>3, <3>4
  <2>11. ASSUME NEW i \in DOMAIN s, NEW j \in DOMAIN s, i > h, j > h, s[i] = s[j] PROVE i = j
    <3>1. i - h \in 1 .. k - 1 /\ j - h \in 1 .. k - 1 /\ tail[i - h] = tail[j - h]
      BY <2>8, <2>11
    <3>2. err[(i - h) + 1] = err[(j - h) + 1]
      BY <2>6, <3>1
    <3>3. (i - h) + 1 \in 1 .. k /\ (j - h) + 1 \in 1 .. k
      BY <3>1
    <3>4. (i - h) + 1 = (j - h) + 1
      BY <1>2, <3>2, <3>3
    <3> QED
      BY <2>8, <3>4
  <2> QED
    BY <2>8, <2>10, <2>11, TwiceAtMost DEF s
<1> QED
  BY <1>3, <1>4

\* What a text begins with.
LEMMA Begins ==
  ASSUME NEW S, NEW s \in Seq(S), NEW n \in 1 .. Len(s)
  PROVE  SubSeq(s, 1, n) \in Seq(S) /\ Len(SubSeq(s, 1, n)) = n
  OBVIOUS

\* How far two texts are the same.
LEMMA SameSoFar ==
  ASSUME NEW old \in Texts, NEW new \in Texts
  PROVE  /\ CommonPrefix(old, new) \in 0 .. Len(old) /\ CommonPrefix(old, new) <= Len(new)
         /\ \A i \in 1 .. CommonPrefix(old, new) : old[i] = new[i]
<1> DEFINE S == {n \in 1 .. Len(old) : n <= Len(new) /\ SubSeq(old, 1, n) = SubSeq(new, 1, n)}
           k == Cardinality(S)
<1>1. Len(old) \in Nat /\ Len(new) \in Nat
  BY DEF Texts
<1>2. \A n \in 1 .. Len(old) : \A i \in 1 .. n : SubSeq(old, 1, n)[i] = old[i]
  BY <1>1 DEF Texts
<1>3. \A n \in 1 .. Len(new) : \A i \in 1 .. n : SubSeq(new, 1, n)[i] = new[i]
  BY <1>1 DEF Texts
<1>4. ASSUME NEW n \in S, NEW i \in 1 .. n PROVE old[i] = new[i]
  BY <1>1, <1>2, <1>3, <1>4
<1>5. ASSUME NEW n \in S PROVE 1 .. n \subseteq S
  <2>1. SUFFICES ASSUME NEW i \in 1 .. n PROVE SubSeq(old, 1, i) = SubSeq(new, 1, i)
    BY <1>1
  <2>2. i \in 1 .. Len(old) /\ i \in 1 .. Len(new) /\ \A j \in 1 .. i : j \in 1 .. n
    BY <1>1
  <2>3. \A j \in 1 .. i : SubSeq(old, 1, i)[j] = SubSeq(new, 1, i)[j]
    BY <1>2, <1>3, <1>4, <2>2
  <2>4. SubSeq(old, 1, i) \in Seq(Seq(Nat)) /\ Len(SubSeq(old, 1, i)) = i
    BY <2>2, Begins DEF Texts
  <2>5. SubSeq(new, 1, i) \in Seq(Seq(Nat)) /\ Len(SubSeq(new, 1, i)) = i
    BY <2>2, Begins DEF Texts
  <2> QED
    BY <2>3, <2>4, <2>5, SeqEqual
<1>6. IsFiniteSet(S) /\ k \in Nat /\ k <= Len(old)
  <2>1. IsFiniteSet(1 .. Len(old)) /\ Cardinality(1 .. Len(old)) = Len(old)
    <3> DEFINE n == Len(old)
    <3>1. n \in Nat
      BY <1>1
    <3> HIDE DEF n
    <3>2. IsFiniteSet(1 .. n) /\ Cardinality(1 .. n) = IF 1 > n THEN 0 ELSE n - 1 + 1
      BY <3>1, FS_Interval
    <3>3. IsFiniteSet(1 .. n) /\ Cardinality(1 .. n) = n
      BY <3>1, <3>2
    <3> QED
      BY <3>3 DEF n
  <2>2. S \in SUBSET (1 .. Len(old))
    OBVIOUS
  <2> HIDE DEF S
  <2> QED
    BY <2>1, <2>2, FS_Subset, FS_CardinalityType
<1>7. S \subseteq Nat
  BY <1>1
<1>8. k = CommonPrefix(old, new)
  BY DEF CommonPrefix
<1>9. \A n \in S : n <= Len(new)
  OBVIOUS
<1> HIDE DEF S
<1>10. ASSUME NEW n \in S PROVE n \in 1 .. k
  <2>1. 1 .. n \in SUBSET S /\ n \in Nat
    BY <1>5, <1>7
  <2>2. Cardinality(1 .. n) <= Cardinality(S)
    BY <1>6, <2>1, FS_Subset
  <2>3. Cardinality(1 .. n) = n /\ n >= 1
    <3>1. n >= 1
      BY DEF S
    <3> QED
      BY <2>1, <3>1, FS_Interval
  <2> QED
    BY <1>6, <2>1, <2>2, <2>3
<1>11. S = 1 .. k
  <2>1. IsFiniteSet(1 .. k) /\ Cardinality(1 .. k) = k
    BY <1>6, FS_Interval
  <2>2. S \in SUBSET (1 .. k)
    BY <1>10
  <2> QED
    BY <2>1, <2>2, FS_Subset
<1>12. k = 0 \/ k \in S
  BY <1>6, <1>11
<1>13. k <= Len(new)
  BY <1>1, <1>9, <1>12
<1>14. \A i \in 1 .. k : old[i] = new[i]
  BY <1>4, <1>6, <1>12
<1> HIDE DEF k
<1>15. k \in 0 .. Len(old) /\ k <= Len(new)
  BY <1>1, <1>6, <1>13
<1> QED
  BY <1>8, <1>14, <1>15

\* A line of the new text is one of the old or one of the difference (delta_lines).
LEMMA NothingMissed ==
  ASSUME NEW old \in Texts, NEW new \in Texts, NEW l
  PROVE  /\ Count(l, delta_lines(old, new)) \in Nat
         /\ Count(l, new) <= Count(l, old) + Count(l, delta_lines(old, new))
<1> DEFINE k == CommonPrefix(old, new)
           d == delta_lines(old, new)
           T == Where(l, new) \ (1 .. k)
           f == [i \in T |-> i - k]
<1>1. /\ k \in Nat /\ k <= Len(old) /\ k <= Len(new) /\ Len(old) \in Nat /\ Len(new) \in Nat
      /\ \A i \in 1 .. k : old[i] = new[i]
  <2>1. Len(old) \in Nat /\ Len(new) \in Nat
    BY DEF Texts
  <2>2. k \in 0 .. Len(old) /\ k <= Len(new) /\ \A i \in 1 .. k : old[i] = new[i]
    BY SameSoFar
  <2> HIDE DEF k
  <2> QED
    BY <2>1, <2>2
<1>2. /\ d \in Texts /\ DOMAIN d = 1 .. Len(new) - k
      /\ \A i \in 1 .. Len(new) - k : d[i] = new[k + i]
  <2>1. d = SubSeq(new, k + 1, Len(new))
    BY DEF delta_lines
  <2> HIDE DEF d, k
  <2>2. /\ d \in Texts /\ Len(d) = Len(new) - k
        /\ \A i \in 1 .. Len(new) - k : d[i] = new[k + i]
    BY <1>1, <2>1 DEF Texts
  <2> QED
    BY <1>1, <2>2 DEF Texts
<1>3. DOMAIN new = 1 .. Len(new) /\ DOMAIN old = 1 .. Len(old)
  BY DEF Texts
<1> HIDE DEF d, k
<1>4. f \in Injection(T, Where(l, d))
  <2>1. ASSUME NEW i \in T PROVE i - k \in Where(l, d)
    <3>1. i \in 1 .. Len(new) /\ i \notin 1 .. k /\ new[i] = l
      BY <1>3 DEF Where
    <3>2. i - k \in 1 .. Len(new) - k /\ k + (i - k) = i
      BY <1>1, <3>1
    <3>3. d[i - k] = new[k + (i - k)]
      BY <1>2, <3>2
    <3> QED
      BY <1>2, <3>1, <3>2, <3>3 DEF Where
  <2>2. \A i \in T : i \in Int
    BY <1>1, <1>3 DEF Where
  <2> HIDE DEF T
  <2>3. f \in [T -> Where(l, d)]
    BY <2>1
  <2>4. \A i, j \in T : f[i] = f[j] => i = j
    BY <1>1, <2>2
  <2> HIDE DEF f
  <2> QED
    BY <2>3, <2>4 DEF Injection, IsInjective
<1>5. /\ IsFiniteSet(Where(l, d)) /\ Count(l, d) = Cardinality(Where(l, d)) /\ Count(l, d) \in Nat
      /\ IsFiniteSet(Where(l, old)) /\ Count(l, old) = Cardinality(Where(l, old)) /\ Count(l, old) \in Nat
      /\ IsFiniteSet(Where(l, new)) /\ Count(l, new) = Cardinality(Where(l, new))
  BY <1>2, CountIsSize
<1>6. IsFiniteSet(T) /\ Cardinality(T) <= Count(l, d)
  <2> HIDE DEF T, f
  <2> QED
    BY <1>4, <1>5, FS_Injection
<1>7. Where(l, new) \in SUBSET (Where(l, old) \cup T)
  <2>1. SUFFICES ASSUME NEW i \in Where(l, new), i \in 1 .. k PROVE i \in Where(l, old)
    OBVIOUS
  <2>2. i \in DOMAIN old /\ new[i] = l /\ old[i] = new[i]
    BY <1>1, <1>3, <2>1 DEF Where
  <2> QED
    BY <2>2 DEF Where
<1> HIDE DEF T
<1>8. /\ IsFiniteSet(Where(l, old) \cup T)
      /\ Cardinality(Where(l, old) \cup T) <= Cardinality(Where(l, old)) + Cardinality(T)
  <2>1. /\ IsFiniteSet(Where(l, old) \cup T)
        /\ Cardinality(Where(l, old) \cup T)
             = Cardinality(Where(l, old)) + Cardinality(T) - Cardinality(Where(l, old) \cap T)
    BY <1>5, <1>6, FS_Union
  <2>2. Cardinality(Where(l, old) \cap T) \in Nat
    <3>1. Where(l, old) \cap T \in SUBSET T
      OBVIOUS
    <3> QED
      BY <1>6, <3>1, FS_Subset, FS_CardinalityType
  <2>3. Cardinality(Where(l, old)) \in Nat /\ Cardinality(T) \in Nat
    BY <1>5, <1>6, FS_CardinalityType
  <2> QED
    BY <2>1, <2>2, <2>3
<1>9. Cardinality(Where(l, new)) <= Cardinality(Where(l, old) \cup T)
  BY <1>7, <1>8, FS_Subset
<1>10. /\ Cardinality(Where(l, new)) \in Nat /\ Cardinality(Where(l, old) \cup T) \in Nat
       /\ Cardinality(T) \in Nat
  BY <1>5, <1>6, <1>8, FS_CardinalityType
<1> QED
  BY <1>5, <1>6, <1>8, <1>9, <1>10 DEF d

-----------------------------------------------------------------------------
(***************************************************************************)
(* The invariant.                                                          *)
(***************************************************************************)
Types ==
  /\ kind \in Kinds /\ alive \in BOOLEAN /\ engine \in {"down", "up"}
  /\ fg \in Phases
  /\ task \in [Tasks -> {"none", "start", "wait", "refused", "ended", "report"}]
  /\ twins \in BOOLEAN /\ warned \in BOOLEAN
  /\ interrupted \in BOOLEAN /\ asked \in BOOLEAN

\* What the console has read last are the lines of some beginning of each log, and it has
\* shown all of them.
ReadInv ==
  /\ \E o \in 0 .. OutFragments, e \in 0 .. ErrFragments : previous = Combined(o, e)
  /\ shown \in [AllLines -> 0 .. MaxShown]
  /\ \A l \in AllLines : Count(l, previous) <= shown[l]

\* The command line has printed what it has seen, and it has seen what was written.
PrintedInv ==
  /\ log \in [Streams -> Nat] /\ torn \subseteq Streams
  /\ seen \in [Streams -> Nat]
  /\ \A f \in Streams : seen[f] <= log[f] /\ log[f] <= Fragments(f)
  /\ printed = [f \in Streams |-> [i \in 1 .. seen[f] |-> i]]

\* The starts that PENDING is about.
Starts == {t \in Tasks : InFlight(t)}

\* PENDING has no more entries than there are starts, and one if there is one alone.
PendingInv ==
  /\ pending \in Nat /\ pending <= Cardinality(Starts)
  /\ kind \in Consoles /\ ~twins => \A t, u \in Starts : t = u /\ pending > 0

\* A request is there for as long as it is served.
RequestsInv ==
  /\ requests \in Seq(Requests) /\ issued \in 0 .. MaxRequests /\ Len(requests) <= issued
  /\ kind \in Desktops /\ fg # "ready" => requests # <<>>

\* INTERRUPT is of this command while it follows.
AskedInv == fg \in {"follow", "followed", "watch", "watched"} /\ interrupted => asked

Inv == Types /\ ReadInv /\ PrintedInv /\ PendingInv /\ RequestsInv /\ AskedInv

-----------------------------------------------------------------------------
(***************************************************************************)
(* What a step does to each part of the state.                             *)
(***************************************************************************)
Forget == previous' = <<>> /\ shown' = [l \in AllLines |-> 0]

LEMMA ReadSteps ==
  ASSUME [Next]_vars
  PROVE  UNCHANGED <<previous, shown>> \/ Forget \/ Show
<1> USE DEF following, Forget
<1>1. CASE UNCHANGED vars
  BY <1>1 DEF vars
<1>2. CASE EngineDies \/ (\E f \in Streams : Write(f)) \/ Console \/ CtrlC
  BY <1>2 DEF EngineDies, Write, Console, run_start, run_stop, run_logs, run_watch, Exit, CtrlC
<1>3. CASE Loop
  BY <1>3 DEF Loop, StopRefused, StopSignals, StopReturns, Poll, Draw, Again, Interrupted, Returns
<1>4. CASE LookupFails \/ follow_logs \/ \E r \in Requests : Request(r)
  BY <1>4 DEF LookupFails, Returns, follow_logs, Request
<1>5. CASE \E t \in Tasks : Background(t)
  BY <1>5 DEF Background, StartReturns, Unlist, Report, Thread
<1>6. CASE Serve
  BY <1>6 DEF Serve, StartServed, StartEnds, StartSpawned, stop_container, QueryServed, Quit, Returns
<1> QED
  BY <1>1, <1>2, <1>3, <1>4, <1>5, <1>6 DEF Next

Written ==
  \/ UNCHANGED <<log, torn>>
  \/ \E f \in Streams : /\ log[f] < Fragments(f)
                       /\ \/ log' = [log EXCEPT ![f] = @ + 1] /\ torn' = torn \ {f}
                          \/ torn' = torn \cup {f} /\ UNCHANGED log

LEMMA PrintSteps ==
  ASSUME [Next]_vars
  PROVE  \/ UNCHANGED <<printed, seen>> /\ Written
         \/ PrintNew /\ UNCHANGED <<log, torn>>
<1> USE DEF following, logs, Written
<1>1. CASE UNCHANGED vars
  BY <1>1 DEF vars
<1>2. CASE EngineDies \/ Console \/ CtrlC
  BY <1>2 DEF EngineDies, Console, run_start, run_stop, run_logs, run_watch, Exit, CtrlC
<1>3. CASE \E f \in Streams : Write(f)
  BY <1>3 DEF Write
<1>4. CASE Loop
  BY <1>4 DEF Loop, StopRefused, StopSignals, StopReturns, Poll, Draw, Again, Interrupted, Returns
<1>5. CASE LookupFails \/ follow_logs \/ \E r \in Requests : Request(r)
  BY <1>5 DEF LookupFails, Returns, follow_logs, Request
<1>6. CASE \E t \in Tasks : Background(t)
  BY <1>6 DEF Background, StartReturns, Unlist, Report, Thread
<1>7. CASE Serve
  BY <1>7 DEF Serve, StartServed, StartEnds, StartSpawned, stop_container, QueryServed, Quit, Returns
<1> QED
  BY <1>1, <1>2, <1>3, <1>4, <1>5, <1>6, <1>7 DEF Next

-----------------------------------------------------------------------------
(***************************************************************************)
(* The console shows what it reads.                                        *)
(***************************************************************************)
LEMMA EmptyTexts ==
  Combined(0, 0) = <<>> /\ \A l : Count(l, <<>>) = 0
<1>1. LinesOf(0) = <<>>
  BY DEF LinesOf
<1>2. Combined(0, 0) = <<>>
  BY <1>1 DEF Combined
<1>3. ASSUME NEW l PROVE Count(l, <<>>) = 0
  <2>1. {i \in DOMAIN <<>> : <<>>[i] = l} = {}
    OBVIOUS
  <2> QED
    BY <2>1, FS_EmptySet DEF Count
<1> QED
  BY <1>2, <1>3

LEMMA NothingReadYet ==
  ASSUME previous = <<>>, shown = [l \in AllLines |-> 0]
  PROVE  ReadInv
<1>1. 0 \in 0 .. OutFragments /\ 0 \in 0 .. ErrFragments
  BY ConstantsAssumption
<1>2. \A l \in AllLines : shown[l] = 0
  OBVIOUS
<1>3. shown \in [AllLines -> 0 .. MaxShown]
  BY DEF MaxShown
<1>4. \A l \in AllLines : Count(l, previous) <= shown[l]
  BY <1>2, EmptyTexts
<1> QED
  BY <1>1, <1>3, <1>4, EmptyTexts DEF ReadInv

LEMMA ReadIsWritten ==
  ASSUME PrintedInv, NEW f \in Streams
  PROVE  Read(f) \in 0 .. Fragments(f) /\ Read(f) <= log[f]
<1>1. log[f] \in Nat /\ log[f] <= Fragments(f)
  BY DEF PrintedInv
<1>2. Fragments(f) \in Nat
  BY ConstantsAssumption DEF Fragments
<1> QED
  BY <1>1, <1>2 DEF Read

LEMMA ReadStep ==
  ASSUME ReadInv, PrintedInv, [Next]_vars
  PROVE  ReadInv'
<1>1. CASE UNCHANGED <<previous, shown>>
  BY <1>1 DEF ReadInv
<1>2. CASE Forget
  <2>1. 0 \in 0 .. OutFragments /\ 0 \in 0 .. ErrFragments
    BY ConstantsAssumption
  <2>2. \A l \in AllLines : shown'[l] = 0
    BY <1>2 DEF Forget
  <2>3. shown' \in [AllLines -> 0 .. MaxShown]
    BY <1>2 DEF Forget, MaxShown
  <2>4. previous' = Combined(0, 0)
    BY <1>2, EmptyTexts DEF Forget
  <2>5. \A l \in AllLines : Count(l, previous') <= shown'[l]
    BY <1>2, <2>2, EmptyTexts DEF Forget
  <2> QED
    BY <2>1, <2>3, <2>4, <2>5 DEF ReadInv
<1>3. CASE Show
  <2> DEFINE o == Read("out")
             e == Read("err")
             current == Combined(o, e)
             delta == delta_lines(previous, current)
  <2>1. o \in 0 .. OutFragments /\ e \in 0 .. ErrFragments /\ o \in Nat /\ e \in Nat
    <3>1. o \in 0 .. Fragments("out") /\ e \in 0 .. Fragments("err")
      BY ReadIsWritten DEF Streams
    <3> QED
      BY <3>1 DEF Fragments
  <2>2. PICK a \in 0 .. OutFragments, b \in 0 .. ErrFragments : previous = Combined(a, b)
    BY DEF ReadInv
  <2>3. previous \in Texts
    <3>1. a \in Nat /\ b \in Nat
      OBVIOUS
    <3> QED
      BY <2>2, <3>1, CombinedLines
  <2>4. /\ previous' = current
        /\ shown' = [l \in AllLines |->
                       IF shown[l] + Count(l, delta) > MaxShown THEN MaxShown ELSE shown[l] + Count(l, delta)]
    BY <1>3 DEF Show
  <2> HIDE DEF o, e
  <2>5. current \in Texts /\ \A l : Count(l, current) <= MaxShown
    BY <2>1, CombinedLines
  <2> HIDE DEF current
  <2>6. \A l : /\ Count(l, delta) \in Nat
              /\ Count(l, current) <= Count(l, previous) + Count(l, delta)
    BY <2>3, <2>5, NothingMissed
  <2>7. \A l : Count(l, current) \in Nat /\ Count(l, previous) \in Nat
    BY <2>3, <2>5, CountIsSize
  <2> HIDE DEF delta
  <2>8. \A l \in AllLines : shown[l] \in 0 .. MaxShown /\ Count(l, previous) <= shown[l]
    BY DEF ReadInv
  <2>9. ASSUME NEW l \in AllLines
        PROVE  shown'[l] \in 0 .. MaxShown /\ Count(l, current) <= shown'[l]
    <3>1. shown'[l] = IF shown[l] + Count(l, delta) > MaxShown THEN MaxShown ELSE shown[l] + Count(l, delta)
      BY <2>4
    <3> QED
      BY <2>5, <2>6, <2>7, <2>8, <3>1 DEF MaxShown
  <2>10. shown' \in [AllLines -> 0 .. MaxShown]
    BY <2>4, <2>9
  <2>11. \E x \in 0 .. OutFragments, y \in 0 .. ErrFragments : previous' = Combined(x, y)
    BY <2>1, <2>4 DEF current
  <2>12. \A l \in AllLines : Count(l, previous') <= shown'[l]
    BY <2>4, <2>9
  <2> QED
    BY <2>10, <2>11, <2>12 DEF ReadInv
<1> QED
  BY <1>1, <1>2, <1>3, ReadSteps

\* logs -f prints each log once.
LEMMA PrintedStep ==
  ASSUME PrintedInv, [Next]_vars
  PROVE  PrintedInv'
<1>1. CASE UNCHANGED <<printed, seen>> /\ Written
  <2>1. CASE UNCHANGED <<log, torn>>
    BY <1>1, <2>1 DEF PrintedInv
  <2>2. CASE \E f \in Streams : /\ log[f] < Fragments(f)
                                /\ \/ log' = [log EXCEPT ![f] = @ + 1] /\ torn' = torn \ {f}
                                   \/ torn' = torn \cup {f} /\ UNCHANGED log
    <3>1. PICK f \in Streams : /\ log[f] < Fragments(f)
                              /\ \/ log' = [log EXCEPT ![f] = @ + 1] /\ torn' = torn \ {f}
                                 \/ torn' = torn \cup {f} /\ UNCHANGED log
      BY <2>2
    <3>2. Fragments(f) \in Nat
      BY ConstantsAssumption DEF Fragments
    <3>3. log \in [Streams -> Nat] /\ seen \in [Streams -> Nat] /\ torn \subseteq Streams
          /\ \A g \in Streams : seen[g] <= log[g] /\ log[g] <= Fragments(g)
      BY DEF PrintedInv
    <3>4. log' \in [Streams -> Nat] /\ \A g \in Streams : seen[g] <= log'[g] /\ log'[g] <= Fragments(g)
      BY <3>1, <3>2, <3>3
    <3>5. torn' \subseteq Streams
      BY <3>1, <3>3
    <3> QED
      BY <1>1, <3>4, <3>5 DEF PrintedInv
  <2> QED
    BY <1>1, <2>1, <2>2 DEF Written
<1>2. CASE PrintNew /\ UNCHANGED <<log, torn>>
  <2>1. /\ log \in [Streams -> Nat] /\ seen \in [Streams -> Nat]
        /\ \A f \in Streams : seen[f] <= log[f] /\ log[f] <= Fragments(f)
        /\ printed = [f \in Streams |-> [i \in 1 .. seen[f] |-> i]]
    BY DEF PrintedInv
  <2>2. \A f \in Streams : seen'[f] = IF Read(f) > seen[f] THEN Read(f) ELSE seen[f]
    BY <1>2 DEF PrintNew
  <2>3. \A f \in Streams : Read(f) \in Nat /\ Read(f) <= log[f]
    BY ReadIsWritten
  <2>4. \A f \in Streams : seen'[f] \in Nat /\ seen'[f] <= log[f]
    BY <2>1, <2>2, <2>3
  <2>5. seen' = [f \in Streams |-> seen'[f]]
    BY <1>2 DEF PrintNew
  <2>6. seen' \in [Streams -> Nat]
    BY <2>4, <2>5
  <2>7. ASSUME NEW f \in Streams
        PROVE  printed[f] \o Beyond(f, seen[f]) = [i \in 1 .. seen'[f] |-> i]
    <3> DEFINE n == seen[f]
               k == IF Read(f) > n THEN Read(f) - n ELSE 0
               a == [i \in 1 .. n |-> i]
               b == [i \in 1 .. k |-> n + i]
               c == [i \in 1 .. n + k |-> i]
    <3>1. n \in Nat /\ k \in Nat /\ seen'[f] = n + k
      BY <2>1, <2>2, <2>3
    <3>2. printed[f] = a /\ Beyond(f, n) = b
      BY <2>1 DEF Beyond
    <3> HIDE DEF n, k
    <3>3. a \in Seq(Nat) /\ Len(a) = n /\ b \in Seq(Nat) /\ Len(b) = k /\ c \in Seq(Nat) /\ Len(c) = n + k
      BY <3>1, IsASeq
    <3>4. /\ \A i \in 1 .. n + k : (i <= n => a[i] = i) /\ (i > n => b[i - n] = i)
          /\ \A i \in 1 .. n + k : c[i] = i
      BY <3>1
    <3> HIDE DEF a, b, c
    <3>5. a \o b \in Seq(Nat) /\ Len(a \o b) = n + k
      BY <3>3, ConcatProperties
    <3>6. \A i \in 1 .. n + k : (a \o b)[i] = i
      <4>1. \A i \in 1 .. n + k : (a \o b)[i] = IF i <= n THEN a[i] ELSE b[i - n]
        BY <3>3, ConcatProperties
      <4>2. ASSUME NEW i \in 1 .. n + k PROVE (a \o b)[i] = i
        <5>1. (a \o b)[i] = IF i <= n THEN a[i] ELSE b[i - n]
          BY <4>1
        <5>2. i <= n \/ i > n
          BY <3>1
        <5> QED
          BY <3>4, <5>1, <5>2
      <4> QED
        BY <4>2
    <3>7. a \o b = c
      <4>1. \A i \in 1 .. n + k : (a \o b)[i] = c[i]
        BY <3>4, <3>6
      <4> QED
        BY <3>3, <3>5, <4>1, SeqEqual
    <3> QED
      BY <3>1, <3>2, <3>7 DEF n, c
  <2>8. printed' = [f \in Streams |-> [i \in 1 .. seen'[f] |-> i]]
    BY <1>2, <2>7 DEF PrintNew
  <2> QED
    BY <1>2, <2>1, <2>4, <2>6, <2>8 DEF PrintedInv
<1> QED
  BY <1>1, <1>2, PrintSteps

-----------------------------------------------------------------------------
(***************************************************************************)
(* PENDING and the starts in the background.                               *)
(***************************************************************************)
States == {"none", "start", "wait", "refused", "ended", "report"}

LEMMA TaskSteps ==
  ASSUME [Next]_vars
  PROVE  /\ kind' = kind
         /\ \/ UNCHANGED <<task, pending, twins>>
            \/ run_start
            \/ \E t \in Tasks : Background(t)
            \/ StartSpawned
<1> USE DEF background
<1>1. CASE UNCHANGED vars
  BY <1>1 DEF vars
<1>2. CASE EngineDies \/ (\E f \in Streams : Write(f)) \/ Console \/ CtrlC
  BY <1>2 DEF EngineDies, Write, Console, run_start, run_stop, run_logs, run_watch, Exit, CtrlC
<1>3. CASE Loop
  BY <1>3 DEF Loop, StopRefused, StopSignals, StopReturns, Poll, Draw, Again, Interrupted, Returns
<1>4. CASE LookupFails \/ follow_logs \/ \E r \in Requests : Request(r)
  BY <1>4 DEF LookupFails, Returns, follow_logs, Request
<1>5. CASE \E t \in Tasks : Background(t)
  BY <1>5 DEF Background, StartReturns, Unlist, Report, Thread
<1>6. CASE Serve
  BY <1>6 DEF Serve, StartServed, StartEnds, StartSpawned, stop_container, QueryServed, Quit, Returns
<1> QED
  BY <1>1, <1>2, <1>3, <1>4, <1>5, <1>6 DEF Next

LEMMA StartsAreFinite ==
  /\ IsFiniteSet(Starts) /\ Cardinality(Starts) \in Nat /\ Cardinality(Starts) <= Cardinality(Tasks)
  /\ Cardinality(Tasks) \in Nat
<1>1. Starts \in SUBSET Tasks
  BY DEF Starts
<1>2. IsFiniteSet(Tasks)
  BY ConstantsAssumption
<1> QED
  BY <1>1, <1>2, FS_Subset, FS_CardinalityType

LEMMA PendingStep ==
  ASSUME Types, PendingInv, [Next]_vars
  PROVE  PendingInv'
<1>1. kind' = kind
  BY TaskSteps
<1>2. task \in [Tasks -> States]
  BY DEF Types, States
<1>3. /\ pending \in Nat /\ pending <= Cardinality(Starts)
      /\ kind \in Consoles /\ ~twins => \A t, u \in Starts : t = u /\ pending > 0
  BY DEF PendingInv
<1>4. IsFiniteSet(Starts) /\ Cardinality(Starts) \in Nat
  BY StartsAreFinite
<1>5. CASE UNCHANGED <<task, pending, twins>>
  <2>1. Starts' = Starts
    BY <1>5 DEF Starts, InFlight
  <2> QED
    BY <1>1, <1>3, <1>5, <2>1 DEF PendingInv
<1>6. CASE run_start
  <2>1. PICK t \in Tasks : task[t] = "none" /\ task' = [task EXCEPT ![t] = "start"]
    BY <1>6 DEF run_start, Move
  <2>2. pending' = pending + 1 /\ (twins' <=> (twins \/ \E u \in Tasks : InFlight(u)))
    BY <1>6 DEF run_start
  <2>3. t \notin Starts
    BY <2>1 DEF Starts, InFlight
  <2>4. Starts' = Starts \cup {t}
    BY <1>2, <2>1 DEF Starts, InFlight
  <2>5. Cardinality(Starts \cup {t}) = Cardinality(Starts) + 1
    BY <1>4, <2>3, FS_AddElement
  <2>6. pending' \in Nat /\ pending' <= Cardinality(Starts') /\ pending' > 0
    BY <1>3, <1>4, <2>2, <2>4, <2>5
  <2>7. ~twins' => Starts' = {t}
    BY <2>2, <2>4 DEF Starts
  <2> QED
    BY <2>6, <2>7 DEF PendingInv
<1>7. ASSUME NEW t \in Tasks, StartReturns(t) PROVE PendingInv'
  <2>1. /\ task[t] \in {"start", "wait"}
        /\ \E s \in {"wait", "refused", "ended"} : task' = [task EXCEPT ![t] = s]
    BY <1>7 DEF StartReturns, Move
  <2>2. UNCHANGED <<pending, twins>>
    BY <1>7 DEF StartReturns, Thread
  <2>3. Starts' = Starts
    BY <1>2, <2>1 DEF Starts, InFlight
  <2> QED
    BY <1>1, <1>3, <2>2, <2>3 DEF PendingInv
<1>8. ASSUME NEW t \in Tasks, Unlist(t) PROVE PendingInv'
  <2>1. t \in Starts /\ task' = [task EXCEPT ![t] = "report"]
    BY <1>8 DEF Unlist, Move, Starts, InFlight
  <2>2. pending' = 0 /\ UNCHANGED twins
    BY <1>8 DEF Unlist, Thread
  <2>3. Starts' = Starts \ {t}
    BY <1>2, <2>1 DEF Starts, InFlight
  <2>4. Cardinality(Starts)' \in Nat
    BY <1>4, <2>3, FS_Subset, FS_CardinalityType
  <2>5. kind \in Consoles /\ ~twins => Starts' = {}
    BY <1>3, <2>1, <2>3
  <2> QED
    BY <1>1, <2>2, <2>4, <2>5 DEF PendingInv
<1>9. ASSUME NEW t \in Tasks, Report(t) PROVE PendingInv'
  <2>1. task[t] = "report" /\ task' = [task EXCEPT ![t] = "none"] /\ UNCHANGED pending
    BY <1>9 DEF Report, Move
  <2>2. twins' <=> (twins /\ \E u \in Tasks : InFlight(u))
    BY <1>9 DEF Report
  <2>3. Starts' = Starts
    BY <1>2, <2>1 DEF Starts, InFlight
  <2>4. ~twins' => ~twins \/ Starts = {}
    BY <2>2 DEF Starts
  <2> QED
    BY <1>1, <1>3, <2>1, <2>3, <2>4 DEF PendingInv
<1>10. CASE StartSpawned
  <2>1. PICK t \in Tasks : task[t] = "none" /\ task' = [task EXCEPT ![t] = "start"]
    BY <1>10 DEF StartSpawned, Move
  <2>2. UNCHANGED pending /\ kind \notin Consoles
    BY <1>10 DEF StartSpawned, Consoles
  <2>3. t \notin Starts
    BY <2>1 DEF Starts, InFlight
  <2>4. Starts' = Starts \cup {t}
    BY <1>2, <2>1 DEF Starts, InFlight
  <2>5. Cardinality(Starts \cup {t}) = Cardinality(Starts) + 1
    BY <1>4, <2>3, FS_AddElement
  <2>6. pending' \in Nat /\ pending' <= Cardinality(Starts')
    BY <1>3, <1>4, <2>2, <2>4, <2>5
  <2> QED
    BY <1>1, <2>2, <2>6 DEF PendingInv
<1> QED
  BY <1>5, <1>6, <1>7, <1>8, <1>9, <1>10, TaskSteps DEF Background

-----------------------------------------------------------------------------
(***************************************************************************)
(* The foreground: types, requests, INTERRUPT.                             *)
(***************************************************************************)
LEMMA TypesStep ==
  ASSUME Types, [Next]_vars
  PROVE  Types'
<1>1. task \in [Tasks -> States]
  BY DEF Types, States
<1>2. task' \in [Tasks -> States]
  <2>1. CASE UNCHANGED <<task, pending, twins>>
    BY <1>1, <2>1
  <2>2. CASE run_start
    BY <1>1, <2>2 DEF run_start, Move, States
  <2>3. CASE \E t \in Tasks : Background(t)
    BY <1>1, <2>3 DEF Background, StartReturns, Unlist, Report, Move, States
  <2>4. CASE StartSpawned
    BY <1>1, <2>4 DEF StartSpawned, Move, States
  <2> QED
    BY <2>1, <2>2, <2>3, <2>4, TaskSteps
<1>3. kind' \in Kinds
  BY TaskSteps DEF Types
<1> DEFINE Rest == /\ alive' \in BOOLEAN /\ engine' \in {"down", "up"}
                   /\ fg' \in Phases
                   /\ twins' \in BOOLEAN /\ warned' \in BOOLEAN
                   /\ interrupted' \in BOOLEAN /\ asked' \in BOOLEAN
<1>4. Rest
  <2> USE DEF Types, background, Phases, Go
  <2>1. CASE UNCHANGED vars
    BY <2>1 DEF vars
  <2>2. CASE EngineDies \/ (\E f \in Streams : Write(f)) \/ Console \/ CtrlC
    BY <2>2 DEF EngineDies, Write, Console, run_start, run_stop, run_logs, run_watch, Exit, CtrlC
  <2>3. CASE Loop
    BY <2>3 DEF Loop, StopRefused, StopSignals, StopReturns, Poll, Draw, Again, Interrupted, Returns
  <2>4. CASE LookupFails \/ follow_logs \/ \E r \in Requests : Request(r)
    BY <2>4 DEF LookupFails, Returns, follow_logs, Request
  <2>5. CASE \E t \in Tasks : Background(t)
    BY <2>5 DEF Background, StartReturns, Unlist, Report, Thread
  <2>6. CASE Serve
    BY <2>6 DEF Serve, StartServed, StartEnds, StartSpawned, stop_container, QueryServed, Quit, Returns
  <2> QED
    BY <2>1, <2>2, <2>3, <2>4, <2>5, <2>6 DEF Next
<1> QED
  BY <1>2, <1>3, <1>4 DEF Types, States

LEMMA AskedStep ==
  ASSUME Types, AskedInv, [Next]_vars
  PROVE  AskedInv'
<1> USE DEF AskedInv, Go
<1>1. CASE UNCHANGED vars
  BY <1>1 DEF vars
<1>2. CASE EngineDies \/ (\E f \in Streams : Write(f)) \/ Console \/ CtrlC
  BY <1>2 DEF EngineDies, Write, Console, run_start, run_stop, run_logs, run_watch, Exit, CtrlC
<1>3. CASE Loop
  BY <1>3 DEF Loop, StopRefused, StopSignals, StopReturns, Poll, Draw, Again, Interrupted, Returns
<1>4. CASE LookupFails \/ follow_logs \/ \E r \in Requests : Request(r)
  BY <1>4 DEF LookupFails, Returns, follow_logs, Request
<1>5. CASE \E t \in Tasks : Background(t)
  <2>1. UNCHANGED <<fg, interrupted, asked>>
    BY <1>5 DEF Background, StartReturns, Unlist, Report, Thread
  <2> QED
    BY <2>1
<1>6. CASE Serve
  BY <1>6 DEF Serve, StartServed, StartEnds, StartSpawned, stop_container, QueryServed, Quit, Returns
<1> QED
  BY <1>1, <1>2, <1>3, <1>4, <1>5, <1>6 DEF Next

\* The request that is served goes when what it has started in the foreground does.
Served == requests' = Tail(requests) /\ requests # <<>> /\ fg' = "ready"

LEMMA RequestSteps ==
  ASSUME Types, RequestsInv, [Next]_vars
  PROVE  \/ UNCHANGED <<requests, issued>> /\ (kind \in Desktops /\ fg' # "ready" => requests # <<>>)
         \/ UNCHANGED issued /\ Served
         \/ /\ \E r \in Requests : requests' = Append(requests, r)
            /\ issued < MaxRequests /\ issued' = issued + 1
<1> DEFINE Kept == UNCHANGED <<requests, issued>> /\ (kind \in Desktops /\ fg' # "ready" => requests # <<>>)
<1>1. ASSUME NEW error, Returns(error), fg # "ready" \/ requests # <<>>
      PROVE  Kept \/ (UNCHANGED issued /\ Served)
  <2>1. CASE kind \in Desktops
    <3>1. requests # <<>>
      BY <1>1, <2>1 DEF RequestsInv
    <3>2. kind # "batch"
      BY <2>1 DEF Desktops
    <3>3. requests' = Tail(requests) /\ UNCHANGED issued
      BY <1>1, <2>1 DEF Returns
    <3>4. fg' = "ready"
      BY <1>1, <3>2 DEF Returns, Go
    <3> QED
      BY <3>1, <3>3, <3>4 DEF Served
  <2>2. CASE kind \notin Desktops
    BY <1>1, <2>2 DEF Returns
  <2> QED
    BY <2>1, <2>2
<1>2. ASSUME UNCHANGED <<requests, issued>>, (fg' = fg \/ fg # "ready" \/ requests # <<>>) PROVE Kept
  BY <1>2 DEF RequestsInv
<1> HIDE DEF Kept
<1> USE DEF RequestsInv, Go, desktop, Served, Consoles, Desktops
<1>3. CASE UNCHANGED vars
  BY <1>3 DEF vars
<1>4. CASE EngineDies \/ (\E f \in Streams : Write(f)) \/ Console \/ CtrlC
  BY <1>4 DEF EngineDies, Write, Console, run_start, run_stop, run_logs, run_watch, Exit, CtrlC, Ready
<1>5. CASE Loop
  <2>1. CASE StopRefused \/ StopReturns \/ Interrupted
    BY <1>1, <2>1 DEF StopRefused, StopReturns, Interrupted, Kept
  <2>2. CASE StopSignals \/ Poll \/ Draw \/ Again
    <3>1. UNCHANGED <<requests, issued>> /\ fg # "ready"
      BY <2>2 DEF StopSignals, Poll, Draw, Again
    <3> QED
      BY <1>2, <3>1 DEF Kept
  <2> QED
    BY <1>5, <2>1, <2>2 DEF Loop
<1>6. CASE LookupFails \/ follow_logs \/ \E r \in Requests : Request(r)
  BY <1>6 DEF LookupFails, Returns, follow_logs, Request
<1>7. CASE \E t \in Tasks : Background(t)
  BY <1>7 DEF Background, StartReturns, Unlist, Report, Thread
<1>8. CASE Serve
  <2>1. CASE StartEnds \/ QueryServed
    BY <1>1, <2>1 DEF StartEnds, QueryServed, Serving, Kept
  <2>2. CASE StartServed
    <3>1. requests # <<>>
      BY <2>2 DEF StartServed, Serving
    <3>2. CASE Returns(TRUE)
      BY <1>1, <3>1, <3>2 DEF Kept
    <3>3. CASE UNCHANGED desktop
      BY <1>2, <3>1, <3>3 DEF Kept
    <3> QED
      BY <2>2, <3>2, <3>3 DEF StartServed
  <2>3. CASE StartSpawned
    BY <2>3 DEF StartSpawned, Serving
  <2>4. CASE stop_container \/ Quit
    <3>1. requests # <<>> /\ UNCHANGED desktop
      BY <2>4 DEF stop_container, Quit, Serving
    <3> QED
      BY <1>2, <3>1 DEF Kept
  <2> QED
    BY <1>8, <2>1, <2>2, <2>3, <2>4 DEF Serve
<1> QED
  BY <1>3, <1>4, <1>5, <1>6, <1>7, <1>8 DEF Next

LEMMA RequestsStep ==
  ASSUME Types, RequestsInv, [Next]_vars
  PROVE  RequestsInv'
<1>1. /\ requests \in Seq(Requests) /\ issued \in 0 .. MaxRequests /\ Len(requests) <= issued
      /\ MaxRequests \in Nat /\ kind' = kind
  BY ConstantsAssumption, TaskSteps DEF RequestsInv
<1>2. CASE UNCHANGED <<requests, issued>> /\ (kind \in Desktops /\ fg' # "ready" => requests # <<>>)
  BY <1>1, <1>2 DEF RequestsInv
<1>3. CASE UNCHANGED issued /\ Served
  <2>1. requests' \in Seq(Requests) /\ Len(requests') = Len(requests) - 1
    BY <1>1, <1>3 DEF Served
  <2>2. fg' = "ready"
    BY <1>3 DEF Served
  <2> QED
    BY <1>1, <1>3, <2>1, <2>2 DEF RequestsInv
<1>4. CASE /\ \E r \in Requests : requests' = Append(requests, r)
           /\ issued < MaxRequests /\ issued' = issued + 1
  <2>1. requests' \in Seq(Requests) /\ Len(requests') = Len(requests) + 1
    BY <1>1, <1>4
  <2>2. requests' # <<>>
    BY <1>1, <2>1
  <2> QED
    BY <1>1, <1>4, <2>1, <2>2 DEF RequestsInv
<1> QED
  BY <1>2, <1>3, <1>4, RequestSteps

-----------------------------------------------------------------------------
(***************************************************************************)
(* The theorems.                                                           *)
(***************************************************************************)
LEMMA InvAtFirst ==
  Init => Inv
<1> SUFFICES ASSUME Init PROVE Inv
  OBVIOUS
<1>1. Types
  BY DEF Init, Types, Phases
<1>2. ReadInv
  BY NothingReadYet DEF Init
<1>3. PrintedInv
  <2>1. \A f \in Streams : log[f] = 0 /\ seen[f] = 0 /\ Fragments(f) \in Nat
    BY ConstantsAssumption DEF Init, Fragments
  <2>2. [i \in 1 .. 0 |-> i] = <<>>
    OBVIOUS
  <2>3. printed = [f \in Streams |-> [i \in 1 .. seen[f] |-> i]]
    BY <2>1, <2>2 DEF Init
  <2>4. log \in [Streams -> Nat] /\ torn \subseteq Streams /\ seen \in [Streams -> Nat]
    BY DEF Init
  <2> QED
    BY <2>1, <2>3, <2>4 DEF PrintedInv
<1>4. PendingInv
  <2>1. pending = 0 /\ Starts = {}
    BY DEF Init, Starts, InFlight
  <2> QED
    BY <2>1, StartsAreFinite DEF PendingInv
<1>5. RequestsInv
  BY ConstantsAssumption DEF Init, RequestsInv, Desktops
<1>6. AskedInv
  BY DEF Init, AskedInv
<1> QED
  BY <1>1, <1>2, <1>3, <1>4, <1>5, <1>6 DEF Inv

LEMMA InvStep ==
  Inv /\ [Next]_vars => Inv'
BY ReadStep, PrintedStep, PendingStep, RequestsStep, AskedStep, TypesStep DEF Inv

LEMMA Always ==
  Spec => []Inv
<1>1. Init => Inv
  BY InvAtFirst
<1>2. Inv /\ [Next]_vars => Inv'
  BY InvStep
<1> QED
  BY <1>1, <1>2, PTL DEF Spec

LEMMA LinesAreLines ==
  ReadInv => ToSet(previous) \subseteq AllLines
BY DEF ReadInv, AllLines

\* logs -f of the command line prints each log from its beginning, in order and nothing
\* twice, and the console shows every line of what it reads, and as often as it is there,
\* whatever order the two logs grow in and whatever a poll cannot read; with the types.
THEOREM FollowedAsWritten ==
  Spec => []FollowInv
<1>1. ASSUME Inv PROVE FollowInv
  <2> USE <1>1 DEF Inv
  <2>1. ToSet(previous) \subseteq AllLines
    BY LinesAreLines
  <2>2. pending \in 0 .. Cardinality(Tasks)
    BY StartsAreFinite DEF PendingInv
  <2>3. requests \in BoundedSeq(Requests, MaxRequests)
    <3>1. /\ requests \in Seq(Requests) /\ Len(requests) <= issued /\ issued \in 0 .. MaxRequests
          /\ MaxRequests \in Nat
      BY ConstantsAssumption DEF RequestsInv
    <3>2. Len(requests) \in 0 .. MaxRequests /\ requests \in [1 .. Len(requests) -> Requests]
      BY <3>1
    <3> QED
      BY <3>2 DEF BoundedSeq, SeqOf
  <2>4. \A f \in Streams : /\ DOMAIN printed[f] = 1 .. seen[f] /\ Len(printed[f]) = seen[f]
                           /\ \A i \in 1 .. seen[f] : printed[f][i] = i
    <3> TAKE f \in Streams
    <3>1. seen[f] \in Nat /\ printed[f] = [i \in 1 .. seen[f] |-> i]
      BY DEF PrintedInv
    <3> QED
      BY <3>1
  <2>5. PrintsExactlyOnce
    BY <2>4 DEF PrintsExactlyOnce, PrintedInv
  <2>6. \A f \in Streams : ToSet(printed[f]) \subseteq 1 .. Fragments(f)
    <3> TAKE f \in Streams
    <3>1. seen[f] \in Nat /\ log[f] \in Nat /\ Fragments(f) \in Nat /\ seen[f] <= Fragments(f)
      BY ConstantsAssumption DEF PrintedInv, Fragments
    <3>2. ToSet(printed[f]) = {printed[f][i] : i \in 1 .. seen[f]}
      BY <2>4 DEF ToSet
    <3> QED
      BY <2>4, <3>1, <3>2
  <2>7. EachLineShown
    BY <2>1 DEF EachLineShown, ReadInv
  <2>8. TypeOK
    BY <2>1, <2>2, <2>3, <2>6 DEF TypeOK, Types, ReadInv, PrintedInv, RequestsInv
  <2> QED
    BY <2>5, <2>7, <2>8 DEF FollowInv
<1> QED
  BY <1>1, Always, PTL

\* Leaving the console warns exactly when a start is in the background, unless two starts
\* have been there together (run_repl, PENDING).
THEOREM TheExitTells ==
  Spec => ExitTellsOfTasks
<1>1. ASSUME Inv, [Next]_vars, kind = "repl", alive, ~alive', ~twins
      PROVE  warned' <=> \E t \in Tasks : InFlight(t)
  <2>1. Exit
    <3> USE <1>1
    <3>1. alive' # alive
      <4>1. alive \in BOOLEAN /\ alive' \in BOOLEAN
        BY TypesStep DEF Inv, Types
      <4> QED
        BY <4>1
    <3>2. kind \notin Desktops /\ kind # "batch" /\ kind # "cli" /\ kind # "wsl"
      BY DEF Desktops
    <3>3. CASE UNCHANGED vars
      BY <3>1, <3>3 DEF vars
    <3>4. CASE EngineDies \/ (\E f \in Streams : Write(f)) \/ Console \/ CtrlC
      BY <3>1, <3>2, <3>4 DEF EngineDies, Write, Console, run_start, run_stop, run_logs, run_watch, CtrlC
    <3>5. CASE Loop
      BY <3>1, <3>2, <3>5 DEF Loop, StopRefused, StopSignals, StopReturns, Poll, Draw, Again, Interrupted, Returns
    <3>6. CASE LookupFails \/ follow_logs \/ \E r \in Requests : Request(r)
      BY <3>1, <3>2, <3>6 DEF LookupFails, Returns, follow_logs, Request
    <3>7. CASE \E t \in Tasks : Background(t)
      BY <3>1, <3>7 DEF Background, StartReturns, Unlist, Report, Thread
    <3>8. CASE Serve
      BY <3>1, <3>2, <3>8 DEF Serve, StartServed, StartEnds, StartSpawned, stop_container, QueryServed, Quit, Returns, Serving
    <3> QED
      BY <1>1, <3>3, <3>4, <3>5, <3>6, <3>7, <3>8 DEF Next
  <2>2. warned' <=> pending > 0
    BY <1>1, <2>1 DEF Exit
  <2>3. kind \in Consoles
    BY <1>1 DEF Consoles
  <2>4. Starts = {} => Cardinality(Starts) = 0
    BY FS_EmptySet
  <2>5. pending > 0 <=> Starts # {}
    BY <1>1, <2>3, <2>4, StartsAreFinite DEF Inv, PendingInv
  <2> QED
    BY <2>2, <2>5 DEF Starts
<1>2. Inv /\ [Next]_vars
        => [kind = "repl" /\ alive /\ ~alive' /\ ~twins
              => (warned' <=> \E t \in Tasks : InFlight(t))]_vars
  BY <1>1
<1> QED
  BY <1>2, Always, PTL DEF Spec, ExitTellsOfTasks

\* A key pressed during an earlier command does not end what the console follows
\* (INTERRUPT, cleared by follow_logs and watch_loop).
THEOREM OnlyAKeyOfNow ==
  Spec => EndsOnlyWhenAsked
<1>1. ASSUME Inv, Interrupted PROVE asked
  <2>1. fg \in {"followed", "watched"} /\ interrupted
    BY <1>1 DEF Interrupted
  <2> QED
    BY <1>1, <2>1 DEF Inv, AskedInv
<1>2. Inv /\ [Next]_vars => [Interrupted => asked]_vars
  BY <1>1
<1> QED
  BY <1>2, Always, PTL DEF Spec, EndsOnlyWhenAsked
=============================================================================
