--------------------------- MODULE SequenceFacts ---------------------------
(***************************************************************************)
(* What an ordered memory with a capacity (an OrderedDict whose oldest     *)
(* entries are dropped) needs to know of sequences: a part, the last       *)
(* elements, one element out, one element more.                            *)
(***************************************************************************)
EXTENDS Integers, Sequences, SequencesExt, SequenceTheorems, TLAPS

\* A part of a sequence.
LEMMA PartOf ==
  ASSUME NEW S, NEW s \in Seq(S), NEW m \in Nat \ {0}, NEW n \in Nat, n <= Len(s), m <= n + 1
  PROVE  /\ SubSeq(s, m, n) \in Seq(S)
         /\ Len(SubSeq(s, m, n)) = n - m + 1
         /\ \A p \in 1..(n - m + 1) : SubSeq(s, m, n)[p] = s[m + p - 1]
<1>1. m \in Int /\ n \in Int /\ n - m + 1 \in Nat /\ (m <= n \/ n - m + 1 = 0)
  OBVIOUS
<1>2. \A i \in m..n : s[i] \in S
  OBVIOUS
<1>3. /\ SubSeq(s, m, n) \in Seq(S)
      /\ Len(SubSeq(s, m, n)) = IF m <= n THEN n - m + 1 ELSE 0
      /\ \A i \in 1..(n - m + 1) : SubSeq(s, m, n)[i] = s[m + i - 1]
  BY <1>1, <1>2, SubSeqProperties
<1> QED
  BY <1>1, <1>3

\* A sequence without its first elements.
LEMMA WithoutFirst ==
  ASSUME NEW S, NEW s \in Seq(S), NEW k \in 0..Len(s)
  PROVE  /\ SubSeq(s, k + 1, Len(s)) \in Seq(S)
         /\ Len(SubSeq(s, k + 1, Len(s))) = Len(s) - k
         /\ \A p \in 1..(Len(s) - k) : SubSeq(s, k + 1, Len(s))[p] = s[p + k]
<1>1. Len(s) \in Nat /\ k \in Nat /\ k <= Len(s) /\ k + 1 \in Nat \ {0}
  OBVIOUS
<1>2. /\ SubSeq(s, k + 1, Len(s)) \in Seq(S)
      /\ Len(SubSeq(s, k + 1, Len(s))) = Len(s) - (k + 1) + 1
      /\ \A p \in 1..(Len(s) - (k + 1) + 1) : SubSeq(s, k + 1, Len(s))[p] = s[(k + 1) + p - 1]
  BY <1>1, PartOf
<1>3. Len(s) - (k + 1) + 1 = Len(s) - k
  BY <1>1
<1>4. \A p \in 1..(Len(s) - k) : (k + 1) + p - 1 = p + k
  BY <1>1
<1> QED
  BY <1>2, <1>3, <1>4

\* What a sequence is without one of its elements.
LEMMA RemovedAt ==
  ASSUME NEW S, NEW s \in Seq(S), NEW r \in 1..Len(s)
  PROVE  /\ RemoveAt(s, r) \in Seq(S)
         /\ Len(RemoveAt(s, r)) = Len(s) - 1
         /\ \A p \in 1..(Len(s) - 1) : RemoveAt(s, r)[p] = IF p < r THEN s[p] ELSE s[p + 1]
<1> DEFINE left == SubSeq(s, 1, r - 1)
           right == SubSeq(s, r + 1, Len(s))
<1>1. Len(s) \in Nat /\ r \in Nat /\ 1 <= r /\ r <= Len(s)
  OBVIOUS
<1>2. left \in Seq(S) /\ Len(left) = r - 1 /\ \A p \in 1..(r - 1) : left[p] = s[p]
  <2>1. r - 1 \in Nat /\ (r - 1) - 1 + 1 = r - 1
    BY <1>1
  <2>2. /\ left \in Seq(S) /\ Len(left) = (r - 1) - 1 + 1
        /\ \A p \in 1..((r - 1) - 1 + 1) : left[p] = s[1 + p - 1]
    BY <1>1, <2>1, PartOf
  <2>3. \A p \in 1..(r - 1) : 1 + p - 1 = p
    BY <1>1
  <2> QED
    BY <2>1, <2>2, <2>3
<1>3. /\ right \in Seq(S) /\ Len(right) = Len(s) - r
      /\ \A p \in 1..(Len(s) - r) : right[p] = s[p + r]
  BY <1>1, WithoutFirst
<1>4. RemoveAt(s, r) = left \o right
  BY DEF RemoveAt
<1> HIDE DEF left, right
<1>5. /\ left \o right \in Seq(S) /\ Len(left \o right) = Len(left) + Len(right)
      /\ \A p \in 1..(Len(left) + Len(right)) :
           (left \o right)[p] = IF p <= Len(left) THEN left[p] ELSE right[p - Len(left)]
  BY <1>2, <1>3, ConcatProperties
<1>6. ASSUME NEW p \in 1..(Len(s) - 1)
      PROVE  (left \o right)[p] = IF p < r THEN s[p] ELSE s[p + 1]
  <2>1. CASE p < r
    BY <1>1, <1>2, <1>3, <1>5, <2>1
  <2>2. CASE p >= r
    <3>1. p \in Nat /\ p - (r - 1) \in 1..(Len(s) - r) /\ (p - (r - 1)) + r = p + 1
      BY <1>1, <2>2
    <3>2. right[p - (r - 1)] = s[p + 1]
      BY <1>3, <3>1
    <3>3. p \in 1..(Len(left) + Len(right)) /\ ~(p <= Len(left)) /\ p - Len(left) = p - (r - 1)
      BY <1>1, <1>2, <1>3, <2>2, <3>1
    <3>4. (left \o right)[p] = right[p - (r - 1)]
      BY <1>5, <3>3
    <3> QED
      BY <1>1, <2>2, <3>1, <3>2, <3>4
  <2> QED
    BY <1>1, <2>1, <2>2, p < r \/ p >= r
<1>7. Len(left) + Len(right) = Len(s) - 1
  BY <1>1, <1>2, <1>3
<1> QED
  BY <1>4, <1>5, <1>6, <1>7

\* What a sequence is with an element added at the end and then, perhaps, the first one
\* dropped.
LEMMA AddedWithin ==
  ASSUME NEW S, NEW s \in Seq(S), NEW e \in S, NEW x \in {0, 1}, x <= Len(s)
  PROVE  LET m == Append(s, e)
             r == SubSeq(m, x + 1, Len(m))
             l == Len(s) + 1 - x
         IN  /\ r \in Seq(S) /\ Len(r) = l
             /\ r[l] = e
             /\ \A p \in 1..(l - 1) : r[p] = s[p + x]
<1> DEFINE m == Append(s, e)
           r == SubSeq(m, x + 1, Len(m))
           l == Len(s) + 1 - x
<1>1. Len(s) \in Nat
  OBVIOUS
<1>2. /\ m \in Seq(S) /\ Len(m) = Len(s) + 1
      /\ m[Len(s) + 1] = e /\ \A p \in 1..Len(s) : m[p] = s[p]
  BY AppendProperties
<1>3. x \in 0..Len(m) /\ l = Len(m) - x
  BY <1>1, <1>2
<1> HIDE DEF m
<1>4. r \in Seq(S) /\ Len(r) = Len(m) - x /\ \A p \in 1..(Len(m) - x) : r[p] = m[p + x]
  BY <1>2, <1>3, WithoutFirst
<1>5. r \in Seq(S) /\ Len(r) = l /\ \A p \in 1..l : r[p] = m[p + x]
  BY <1>3, <1>4
<1> HIDE DEF r, l
<1>6. l = Len(s) + 1 - x
  BY DEF l
<1>7. l \in 1..l /\ l + x = Len(s) + 1
  BY <1>1, <1>6
<1>8. r[l] = e
  BY <1>2, <1>5, <1>7
<1>9. ASSUME NEW p \in 1..(l - 1)
      PROVE  r[p] = s[p + x]
  <2>1. p \in 1..l /\ p + x \in 1..Len(s)
    BY <1>1, <1>6
  <2> QED
    BY <1>2, <1>5, <2>1
<1> QED
  BY <1>5, <1>8, <1>9 DEF m, r, l

=============================================================================
