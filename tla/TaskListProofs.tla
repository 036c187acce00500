--------------------------- MODULE TaskListProofs ---------------------------
(***************************************************************************)
(* What the operations on lists of tasks do: list_remove, list_insert_last *)
(* and list_insert_first on a list without duplicates.                     *)
(***************************************************************************)
EXTENDS TaskLists, TLAPS

Injective(s) == \A i, j \in 1 .. Len(s) : s[i] = s[j] => i = j

\* Two sequences, one after the other.
LEMMA ConcatenationIs ==
    ASSUME NEW a \in Seq(Task), NEW b \in Seq(Task)
    PROVE  /\ a \o b \in Seq(Task)
           /\ Len(a \o b) = Len(a) + Len(b)
           /\ \A i \in 1 .. Len(a) + Len(b) :
                 (a \o b)[i] = IF i <= Len(a) THEN a[i] ELSE b[i - Len(a)]
<1>1. a \o b \in Seq(Task) /\ Len(a \o b) = Len(a) + Len(b)
  OBVIOUS
<1>2. ASSUME NEW i \in 1 .. Len(a) + Len(b)
      PROVE  (a \o b)[i] = IF i <= Len(a) THEN a[i] ELSE b[i - Len(a)]
  OBVIOUS
<1> QED BY <1>1, <1>2

\* The first n elements, and those from the m-th on.
LEMMA PartsAre ==
    ASSUME NEW s \in Seq(Task), NEW n \in 0 .. Len(s), NEW m \in 1 .. Len(s) + 1
    PROVE  /\ SubSeq(s, 1, n) \in Seq(Task) /\ Len(SubSeq(s, 1, n)) = n
           /\ \A i \in 1 .. n : SubSeq(s, 1, n)[i] = s[i]
           /\ SubSeq(s, m, Len(s)) \in Seq(Task)
           /\ Len(SubSeq(s, m, Len(s))) = Len(s) - m + 1
           /\ \A i \in 1 .. Len(s) - m + 1 : SubSeq(s, m, Len(s))[i] = s[i + m - 1]
<1>1. /\ SubSeq(s, 1, n) \in Seq(Task) /\ Len(SubSeq(s, 1, n)) = n
      /\ \A i \in 1 .. n : SubSeq(s, 1, n)[i] = s[i]
  <2>1. \A i \in 1 .. n : s[i] \in Task
    OBVIOUS
  <2> QED BY <2>1
<1>2. /\ SubSeq(s, m, Len(s)) \in Seq(Task)
      /\ Len(SubSeq(s, m, Len(s))) = Len(s) - m + 1
  <2>1. \A i \in m .. Len(s) : s[i] \in Task
    OBVIOUS
  <2> QED BY <2>1
<1>3. ASSUME NEW i \in 1 .. Len(s) - m + 1
      PROVE  SubSeq(s, m, Len(s))[i] = s[i + m - 1]
  OBVIOUS
<1> QED BY <1>1, <1>2, <1>3

LEMMA RemovalIs ==
    ASSUME NEW s \in Seq(Task), NEW k \in 1 .. Len(s)
    PROVE  /\ RemoveAt(s, k) \in Seq(Task)
           /\ Len(RemoveAt(s, k)) = Len(s) - 1
           /\ \A i \in 1 .. Len(s) - 1 :
                 RemoveAt(s, k)[i] = IF i < k THEN s[i] ELSE s[i + 1]
<1> DEFINE a == SubSeq(s, 1, k - 1)
<1> DEFINE b == SubSeq(s, k + 1, Len(s))
<1>0. k - 1 \in 0 .. Len(s) /\ k + 1 \in 1 .. Len(s) + 1
  OBVIOUS
<1>1. /\ a \in Seq(Task) /\ Len(a) = k - 1
      /\ \A i \in 1 .. k - 1 : a[i] = s[i]
  BY <1>0, PartsAre
<1>2. /\ b \in Seq(Task) /\ Len(b) = Len(s) - k
      /\ \A i \in 1 .. Len(s) - k : b[i] = s[i + k]
  <2>1. /\ b \in Seq(Task) /\ Len(b) = Len(s) - (k + 1) + 1
        /\ \A i \in 1 .. Len(s) - (k + 1) + 1 : b[i] = s[i + (k + 1) - 1]
    BY <1>0, PartsAre
  <2> HIDE DEF b
  <2> QED BY <2>1
<1>3. RemoveAt(s, k) = a \o b
  BY DEF RemoveAt
<1> HIDE DEF a, b
<1>4. /\ a \o b \in Seq(Task)
      /\ Len(a \o b) = Len(a) + Len(b)
      /\ \A i \in 1 .. Len(a) + Len(b) :
            (a \o b)[i] = IF i <= Len(a) THEN a[i] ELSE b[i - Len(a)]
  BY <1>1, <1>2, ConcatenationIs
<1> DEFINE w == a \o b
<1> HIDE DEF w
<1>5. w \in Seq(Task) /\ Len(w) = Len(s) - 1
  BY <1>1, <1>2, <1>4 DEF w
<1>6. ASSUME NEW i \in 1 .. Len(s) - 1
      PROVE  w[i] = IF i < k THEN s[i] ELSE s[i + 1]
  <2>1. w[i] = IF i <= k - 1 THEN a[i] ELSE b[i - (k - 1)]
    BY <1>1, <1>2, <1>4 DEF w
  <2>2. CASE i < k
    BY <1>1, <2>1, <2>2
  <2>3. CASE ~(i < k)
    <3>1. i - (k - 1) \in 1 .. Len(s) - k /\ (i - (k - 1)) + k = i + 1
      BY <2>3
    <3> QED BY <1>2, <2>1, <2>3, <3>1
  <2> QED BY <2>2, <2>3
<1> QED BY <1>3, <1>5, <1>6 DEF w

\* e is s with t before the k-th element, or at the end.
Inserted(e, s, k, t) ==
    /\ e \in Seq(Task)
    /\ Len(e) = Len(s) + 1
    /\ \A i \in 1 .. Len(s) + 1 :
          e[i] = IF i < k THEN s[i] ELSE IF i = k THEN t ELSE s[i - 1]

LEMMA InsertionIs ==
    ASSUME NEW s \in Seq(Task), NEW k \in 1 .. Len(s) + 1, NEW t \in Task
    PROVE  Inserted(InsertAt(s, k, t), s, k, t)
<1> DEFINE a == SubSeq(s, 1, k - 1)
<1> DEFINE c == a \o <<t>>
<1> DEFINE b == SubSeq(s, k, Len(s))
<1>0. k - 1 \in 0 .. Len(s) /\ <<t>> \in Seq(Task) /\ Len(<<t>>) = 1
      /\ <<t>>[1] = t
  OBVIOUS
<1>1. /\ a \in Seq(Task) /\ Len(a) = k - 1
      /\ \A i \in 1 .. k - 1 : a[i] = s[i]
  BY <1>0, PartsAre
<1>2. /\ b \in Seq(Task) /\ Len(b) = Len(s) - k + 1
      /\ \A i \in 1 .. Len(s) - k + 1 : b[i] = s[i + k - 1]
  BY <1>0, PartsAre
<1>3. InsertAt(s, k, t) = c \o b
  BY DEF InsertAt
<1> HIDE DEF a, b
<1>4. /\ c \in Seq(Task) /\ Len(c) = Len(a) + 1
      /\ \A i \in 1 .. Len(a) + 1 :
            c[i] = IF i <= Len(a) THEN a[i] ELSE <<t>>[i - Len(a)]
  BY <1>0, <1>1, ConcatenationIs
<1> HIDE DEF c
<1>5. /\ c \o b \in Seq(Task)
      /\ Len(c \o b) = Len(c) + Len(b)
      /\ \A i \in 1 .. Len(c) + Len(b) :
            (c \o b)[i] = IF i <= Len(c) THEN c[i] ELSE b[i - Len(c)]
  BY <1>2, <1>4, ConcatenationIs
<1> DEFINE w == c \o b
<1> HIDE DEF w
<1>6. w \in Seq(Task) /\ Len(w) = Len(s) + 1
  BY <1>1, <1>2, <1>4, <1>5 DEF w
<1>7. ASSUME NEW i \in 1 .. Len(s) + 1
      PROVE  w[i] = IF i < k THEN s[i] ELSE IF i = k THEN t ELSE s[i - 1]
  <2>1. w[i] = IF i <= k THEN c[i] ELSE b[i - k]
    BY <1>1, <1>2, <1>4, <1>5 DEF w
  <2>2. i <= k => c[i] = IF i <= k - 1 THEN a[i] ELSE <<t>>[i - (k - 1)]
    BY <1>1, <1>4
  <2>3. CASE i < k
    BY <1>1, <2>1, <2>2, <2>3
  <2>4. CASE i = k
    <3>1. i - (k - 1) = 1
      BY <2>4
    <3> QED BY <1>0, <2>1, <2>2, <2>4, <3>1
  <2>5. CASE i > k
    <3>1. i - k \in 1 .. Len(s) - k + 1 /\ (i - k) + k - 1 = i - 1
      BY <2>5
    <3> QED BY <1>2, <2>1, <2>5, <3>1
  <2> QED BY <2>3, <2>4, <2>5
<1> QED BY <1>3, <1>6, <1>7 DEF w, Inserted

\* list_remove takes out t and nothing else, and leaves no duplicates.
LEMMA WithoutIsRemoval ==
    ASSUME NEW s \in Seq(Task), NEW t \in Task, Injective(s)
    PROVE  /\ Without(s, t) \in Seq(Task)
           /\ Injective(Without(s, t))
           /\ \A u \in Task :
                 (\E i \in 1 .. Len(Without(s, t)) : Without(s, t)[i] = u)
                    <=> u # t /\ \E i \in 1 .. Len(s) : s[i] = u
<1>1. CASE \E i \in 1 .. Len(s) : s[i] = t
  <2> DEFINE k == CHOOSE i \in 1 .. Len(s) : s[i] = t
  <2> DEFINE w == RemoveAt(s, k)
  <2>1. k \in 1 .. Len(s) /\ s[k] = t
    BY <1>1
  <2>2. Without(s, t) = w
    BY <1>1 DEF Without
  <2> HIDE DEF k
  <2>3. /\ w \in Seq(Task)
        /\ Len(w) = Len(s) - 1
        /\ \A i \in 1 .. Len(w) : w[i] = IF i < k THEN s[i] ELSE s[i + 1]
    BY <2>1, RemovalIs
  <2> HIDE DEF w
  <2>4. Injective(w)
    <3> SUFFICES ASSUME NEW i \in 1 .. Len(w), NEW j \in 1 .. Len(w), w[i] = w[j]
                 PROVE  i = j
      BY DEF Injective
    <3> DEFINE m == IF i < k THEN i ELSE i + 1
               n == IF j < k THEN j ELSE j + 1
    <3>1. m \in 1 .. Len(s) /\ n \in 1 .. Len(s)
      BY <2>1, <2>3
    <3>2. w[i] = s[m] /\ w[j] = s[n]
      BY <2>1, <2>3
    <3>3. m = n
      BY <3>1, <3>2 DEF Injective
    <3> QED BY <2>1, <3>3
  <2>5. ASSUME NEW u \in Task
        PROVE  (\E i \in 1 .. Len(w) : w[i] = u)
                  <=> u # t /\ \E i \in 1 .. Len(s) : s[i] = u
    <3>1. ASSUME NEW i \in 1 .. Len(w), w[i] = u
          PROVE  u # t /\ \E j \in 1 .. Len(s) : s[j] = u
      BY <2>1, <2>3, <3>1 DEF Injective
    <3>2. ASSUME u # t, NEW j \in 1 .. Len(s), s[j] = u
          PROVE  \E i \in 1 .. Len(w) : w[i] = u
      <4>1. CASE j < k
        BY <2>1, <2>3, <3>2, <4>1
      <4>2. CASE j > k
        <5>1. j - 1 \in 1 .. Len(w) /\ w[j - 1] = s[j]
          BY <2>1, <2>3, <4>2
        <5> QED BY <3>2, <5>1
      <4> QED BY <2>1, <3>2, <4>1, <4>2
    <3> QED BY <3>1, <3>2
  <2> QED BY <2>2, <2>3, <2>4, <2>5
<1>2. CASE ~ \E i \in 1 .. Len(s) : s[i] = t
  BY <1>2 DEF Without
<1> QED BY <1>1, <1>2

\* list_insert_last and list_insert_first add one element and no duplicate.
LEMMA AppendAdds ==
    ASSUME NEW s \in Seq(Task), NEW t \in Task, Injective(s),
           ~ \E i \in 1 .. Len(s) : s[i] = t
    PROVE  /\ Append(s, t) \in Seq(Task)
           /\ Injective(Append(s, t))
           /\ \A u \in Task :
                 (\E i \in 1 .. Len(Append(s, t)) : Append(s, t)[i] = u)
                    <=> u = t \/ \E i \in 1 .. Len(s) : s[i] = u
<1> DEFINE e == Append(s, t)
<1>1. /\ e \in Seq(Task) /\ Len(e) = Len(s) + 1
      /\ \A i \in 1 .. Len(s) : i \in 1 .. Len(e) /\ e[i] = s[i]
      /\ Len(e) \in 1 .. Len(e) /\ e[Len(e)] = t
      /\ \A i \in 1 .. Len(e) : i # Len(e) => i \in 1 .. Len(s)
  OBVIOUS
<1> HIDE DEF e
<1>2. Injective(e)
  BY <1>1 DEF Injective
<1>3. ASSUME NEW u \in Task
      PROVE  (\E i \in 1 .. Len(e) : e[i] = u)
                <=> u = t \/ \E i \in 1 .. Len(s) : s[i] = u
  BY <1>1
<1> QED BY <1>1, <1>2, <1>3 DEF e

LEMMA PrependAdds ==
    ASSUME NEW s \in Seq(Task), NEW t \in Task, Injective(s),
           ~ \E i \in 1 .. Len(s) : s[i] = t
    PROVE  /\ <<t>> \o s \in Seq(Task)
           /\ Injective(<<t>> \o s)
           /\ \A u \in Task :
                 (\E i \in 1 .. Len(<<t>> \o s) : (<<t>> \o s)[i] = u)
                    <=> u = t \/ \E i \in 1 .. Len(s) : s[i] = u
<1> DEFINE e == <<t>> \o s
<1>1. /\ e \in Seq(Task) /\ Len(e) = Len(s) + 1
      /\ \A i \in 1 .. Len(s) : e[i + 1] = s[i]
      /\ e[1] = t
  OBVIOUS
<1> HIDE DEF e
<1>2. \A i \in 1 .. Len(e) : i # 1 => i - 1 \in 1 .. Len(s) /\ e[i] = s[i - 1]
  <2> SUFFICES ASSUME NEW i \in 1 .. Len(e), i # 1
               PROVE  i - 1 \in 1 .. Len(s) /\ e[i] = s[i - 1]
    OBVIOUS
  <2>1. i - 1 \in 1 .. Len(s) /\ (i - 1) + 1 = i
    BY <1>1
  <2> QED BY <1>1, <2>1
<1>3. Injective(e)
  <2> SUFFICES ASSUME NEW i \in 1 .. Len(e), NEW j \in 1 .. Len(e), e[i] = e[j]
               PROVE  i = j
    BY DEF Injective
  <2>1. CASE i = 1 \/ j = 1
    BY <1>1, <1>2, <2>1
  <2>2. CASE i # 1 /\ j # 1
    <3>1. s[i - 1] = s[j - 1] /\ i - 1 \in 1 .. Len(s) /\ j - 1 \in 1 .. Len(s)
      BY <1>2, <2>2
    <3>2. i - 1 = j - 1
      BY <3>1 DEF Injective
    <3> QED BY <3>2
  <2> QED BY <2>1, <2>2
<1>4. ASSUME NEW u \in Task
      PROVE  (\E i \in 1 .. Len(e) : e[i] = u)
                <=> u = t \/ \E i \in 1 .. Len(s) : s[i] = u
  <2>1. \A i \in 1 .. Len(s) : i + 1 \in 1 .. Len(e) /\ e[i + 1] = s[i]
    BY <1>1
  <2>2. 1 \in 1 .. Len(e)
    BY <1>1
  <2>3. ASSUME NEW i \in 1 .. Len(e), e[i] = u
        PROVE  u = t \/ \E j \in 1 .. Len(s) : s[j] = u
    BY <1>1, <1>2, <2>3
  <2>4. ASSUME NEW j \in 1 .. Len(s), s[j] = u
        PROVE  \E i \in 1 .. Len(e) : e[i] = u
    BY <2>1, <2>4
  <2> QED BY <1>1, <2>2, <2>3, <2>4
<1> QED BY <1>1, <1>3, <1>4 DEF e

\* An insertion before the k-th element adds one element and no duplicate.
LEMMA InsertAdds ==
    ASSUME NEW s \in Seq(Task), NEW k \in 1 .. Len(s) + 1, NEW t \in Task,
           Injective(s), ~ \E i \in 1 .. Len(s) : s[i] = t
    PROVE  /\ InsertAt(s, k, t) \in Seq(Task)
           /\ Injective(InsertAt(s, k, t))
           /\ \A u \in Task :
                 (\E i \in 1 .. Len(InsertAt(s, k, t)) : InsertAt(s, k, t)[i] = u)
                    <=> u = t \/ \E i \in 1 .. Len(s) : s[i] = u
<1> DEFINE e == InsertAt(s, k, t)
<1>1. /\ e \in Seq(Task) /\ Len(e) = Len(s) + 1
      /\ \A i \in 1 .. Len(s) + 1 :
            e[i] = IF i < k THEN s[i] ELSE IF i = k THEN t ELSE s[i - 1]
  <2>1. Inserted(e, s, k, t)
    BY InsertionIs
  <2> HIDE DEF e
  <2> QED BY <2>1 DEF Inserted
<1> HIDE DEF e
<1>2. \A i \in 1 .. Len(e) :
         \/ i < k /\ i \in 1 .. Len(s) /\ e[i] = s[i]
         \/ i = k /\ e[i] = t
         \/ i > k /\ i - 1 \in 1 .. Len(s) /\ e[i] = s[i - 1]
  BY <1>1
<1>3. Injective(e)
  <2> SUFFICES ASSUME NEW i \in 1 .. Len(e), NEW j \in 1 .. Len(e), e[i] = e[j]
               PROVE  i = j
    BY DEF Injective
  <2>1. CASE i = k \/ j = k
    BY <1>1, <1>2, <2>1
  <2>2. CASE i # k /\ j # k
    <3> DEFINE a == IF i < k THEN i ELSE i - 1
               b == IF j < k THEN j ELSE j - 1
    <3>1. a \in 1 .. Len(s) /\ e[i] = s[a]
      BY <1>1, <1>2, <2>2
    <3>2. b \in 1 .. Len(s) /\ e[j] = s[b]
      BY <1>1, <1>2, <2>2
    <3>3. a = b
      BY <3>1, <3>2 DEF Injective
    <3> QED BY <1>1, <2>2, <3>3
  <2> QED BY <2>1, <2>2
<1>4. ASSUME NEW u \in Task
      PROVE  (\E i \in 1 .. Len(e) : e[i] = u)
                <=> u = t \/ \E i \in 1 .. Len(s) : s[i] = u
  <2>1. ASSUME NEW i \in 1 .. Len(e), e[i] = u
        PROVE  u = t \/ \E j \in 1 .. Len(s) : s[j] = u
    BY <1>2, <2>1
  <2>2. k \in 1 .. Len(e) /\ e[k] = t
    BY <1>1
  <2>3. ASSUME NEW j \in 1 .. Len(s), s[j] = u
        PROVE  \E i \in 1 .. Len(e) : e[i] = u
    <3>1. CASE j < k
      BY <1>1, <2>3, <3>1
    <3>2. CASE j >= k
      <4>1. j + 1 \in 1 .. Len(e) /\ e[j + 1] = s[j]
        BY <1>1, <3>2
      <4> QED BY <2>3, <4>1
    <3> QED BY <3>1, <3>2
  <2> QED BY <2>1, <2>2, <2>3
<1> QED BY <1>1, <1>3, <1>4 DEF e

\* The list without its first element.
LEMMA TailDrops ==
    ASSUME NEW s \in Seq(Task), s # <<>>, Injective(s)
    PROVE  /\ Tail(s) \in Seq(Task)
           /\ Injective(Tail(s))
           /\ Head(s) \in Task /\ \E i \in 1 .. Len(s) : s[i] = Head(s)
           /\ \A u \in Task :
                 (\E i \in 1 .. Len(Tail(s)) : Tail(s)[i] = u)
                    <=> u # Head(s) /\ \E i \in 1 .. Len(s) : s[i] = u
<1> DEFINE e == Tail(s)
<1>1. /\ e \in Seq(Task) /\ Len(e) = Len(s) - 1 /\ Len(s) \in Nat /\ Len(s) >= 1
      /\ \A i \in 1 .. Len(e) : e[i] = s[i + 1] /\ i + 1 \in 1 .. Len(s)
      /\ Head(s) = s[1] /\ 1 \in 1 .. Len(s) /\ s[1] \in Task
  OBVIOUS
<1> HIDE DEF e
<1>2. Injective(e)
  BY <1>1 DEF Injective
<1>3. ASSUME NEW u \in Task
      PROVE  (\E i \in 1 .. Len(e) : e[i] = u)
                <=> u # Head(s) /\ \E i \in 1 .. Len(s) : s[i] = u
  <2>1. ASSUME NEW i \in 1 .. Len(e), e[i] = u
        PROVE  u # s[1] /\ \E j \in 1 .. Len(s) : s[j] = u
    BY <1>1, <2>1 DEF Injective
  <2>2. ASSUME u # s[1], NEW j \in 1 .. Len(s), s[j] = u
        PROVE  \E i \in 1 .. Len(e) : e[i] = u
    <3>1. j - 1 \in 1 .. Len(e) /\ (j - 1) + 1 = j
      BY <1>1, <2>2
    <3> QED BY <1>1, <2>2, <3>1
  <2> QED BY <1>1, <2>1, <2>2
<1> QED BY <1>1, <1>2, <1>3 DEF e

-----------------------------------------------------------------------------
(* What the operations do to the order of a list.                            *)

Before(s, a, b) == \E i, j \in 1 .. Len(s) : i < j /\ s[i] = a /\ s[j] = b

LEMMA BeforeIn ==
    ASSUME NEW s \in Seq(Task), NEW a, NEW b, Before(s, a, b)
    PROVE  /\ a \in Task /\ b \in Task /\ Contains(s, a) /\ Contains(s, b)
           /\ Injective(s) => a # b
<1>1. PICK i \in 1 .. Len(s), j \in 1 .. Len(s) : i < j /\ s[i] = a /\ s[j] = b
  BY DEF Before
<1> QED BY <1>1 DEF Contains, Injective

\* list_remove keeps the order of the others.
LEMMA OrderWithout ==
    ASSUME NEW s \in Seq(Task), NEW t \in Task, Injective(s),
           NEW a, NEW b, Before(Without(s, t), a, b)
    PROVE  Before(s, a, b)
<1>1. CASE \E i \in 1 .. Len(s) : s[i] = t
  <2> DEFINE k == CHOOSE i \in 1 .. Len(s) : s[i] = t
  <2> DEFINE w == RemoveAt(s, k)
  <2>1. k \in 1 .. Len(s) /\ s[k] = t
    BY <1>1
  <2>2. Without(s, t) = w
    BY <1>1 DEF Without
  <2> HIDE DEF k
  <2>3. /\ Len(w) = Len(s) - 1
        /\ \A i \in 1 .. Len(w) : w[i] = IF i < k THEN s[i] ELSE s[i + 1]
    BY <2>1, RemovalIs
  <2> HIDE DEF w
  <2>4. PICK i \in 1 .. Len(w), j \in 1 .. Len(w) : i < j /\ w[i] = a /\ w[j] = b
    BY <2>2 DEF Before
  <2> DEFINE m == IF i < k THEN i ELSE i + 1
             n == IF j < k THEN j ELSE j + 1
  <2>5. m \in 1 .. Len(s) /\ n \in 1 .. Len(s) /\ m < n
    BY <2>1, <2>3, <2>4
  <2>6. s[m] = a /\ s[n] = b
    BY <2>1, <2>3, <2>4
  <2> HIDE DEF m, n
  <2> QED BY <2>5, <2>6 DEF Before
<1>2. CASE ~ \E i \in 1 .. Len(s) : s[i] = t
  BY <1>2 DEF Without
<1> QED BY <1>1, <1>2

LEMMA OrderAppend ==
    ASSUME NEW s \in Seq(Task), NEW t \in Task,
           NEW a, NEW b, Before(Append(s, t), a, b)
    PROVE  Before(s, a, b) \/ (b = t /\ Contains(s, a))
<1> DEFINE e == Append(s, t)
<1>1. /\ Len(e) = Len(s) + 1 /\ e[Len(s) + 1] = t /\ Len(s) \in Nat
      /\ \A i \in 1 .. Len(s) : e[i] = s[i]
  OBVIOUS
<1> HIDE DEF e
<1>2. PICK i \in 1 .. Len(e), j \in 1 .. Len(e) : i < j /\ e[i] = a /\ e[j] = b
  BY DEF Before, e
<1>3. i \in 1 .. Len(s) /\ s[i] = a
  BY <1>1, <1>2
<1>4. CASE j = Len(s) + 1
  BY <1>1, <1>2, <1>3, <1>4 DEF Contains
<1>5. CASE j # Len(s) + 1
  BY <1>1, <1>2, <1>3, <1>5 DEF Before
<1> QED BY <1>4, <1>5

LEMMA OrderTail ==
    ASSUME NEW s \in Seq(Task), s # <<>>, NEW a, NEW b, Before(Tail(s), a, b)
    PROVE  Before(s, a, b)
<1> DEFINE e == Tail(s)
<1>1. /\ Len(e) = Len(s) - 1 /\ Len(s) \in Nat
      /\ \A i \in 1 .. Len(e) : e[i] = s[i + 1] /\ i + 1 \in 1 .. Len(s)
  OBVIOUS
<1> HIDE DEF e
<1>2. PICK i \in 1 .. Len(e), j \in 1 .. Len(e) : i < j /\ e[i] = a /\ e[j] = b
  BY DEF Before, e
<1> QED BY <1>1, <1>2 DEF Before

\* Nothing is before the first task, and what is before the next one is before
\* the one between or is it.
LEMMA BeforeHead ==
    ASSUME NEW s \in Seq(Task), Injective(s), s # <<>>, NEW a
    PROVE  ~Before(s, a, Head(s))
<1>1. Head(s) = s[1] /\ 1 \in 1 .. Len(s)
  OBVIOUS
<1> QED BY <1>1 DEF Before, Injective

LEMMA BeforeNext ==
    ASSUME NEW s \in Seq(Task), Injective(s), NEW i \in 1 .. Len(s),
           i + 1 \in 1 .. Len(s), NEW a, Before(s, a, s[i + 1])
    PROVE  a = s[i] \/ Before(s, a, s[i])
BY DEF Before, Injective

LEMMA BeforeLast ==
    ASSUME NEW s \in Seq(Task), NEW a, Contains(s, a)
    PROVE  a = Last(s) \/ Before(s, a, Last(s))
<1>1. PICK i \in 1 .. Len(s) : s[i] = a
  BY DEF Contains
<1>2. Last(s) = s[Len(s)] /\ Len(s) \in 1 .. Len(s)
  BY <1>1 DEF Last
<1> QED BY <1>1, <1>2 DEF Before

\* list_insert_before: the task is after what is before the k-th one.
LEMMA OrderInsert ==
    ASSUME NEW s \in Seq(Task), NEW k \in 1 .. Len(s), NEW t \in Task,
           NEW a, NEW b, Before(InsertAt(s, k, t), a, b)
    PROVE  \/ Before(s, a, b)
           \/ b = t /\ Before(s, a, s[k])
           \/ a = t /\ (b = s[k] \/ Before(s, s[k], b))
<1> DEFINE e == InsertAt(s, k, t)
<1>1. /\ Len(e) = Len(s) + 1 /\ Len(s) \in Nat
      /\ \A i \in 1 .. Len(s) + 1 :
            e[i] = IF i < k THEN s[i] ELSE IF i = k THEN t ELSE s[i - 1]
  <2>1. k \in 1 .. Len(s) + 1 /\ Len(s) \in Nat
    OBVIOUS
  <2>2. Inserted(e, s, k, t)
    BY <2>1, InsertionIs
  <2> HIDE DEF e
  <2> QED BY <2>1, <2>2 DEF Inserted
<1> HIDE DEF e
<1>2. PICK i \in 1 .. Len(e), j \in 1 .. Len(e) : i < j /\ e[i] = a /\ e[j] = b
  BY DEF Before, e
<1>3. CASE i # k /\ j # k
  <2> DEFINE m == IF i < k THEN i ELSE i - 1
             n == IF j < k THEN j ELSE j - 1
  <2>1. m \in 1 .. Len(s) /\ n \in 1 .. Len(s) /\ m < n
    BY <1>1, <1>2, <1>3
  <2>2. s[m] = a /\ s[n] = b
    BY <1>1, <1>2, <1>3
  <2> HIDE DEF m, n
  <2> QED BY <2>1, <2>2 DEF Before
<1>4. CASE j = k
  <2>1. b = t /\ i < k /\ s[i] = a /\ i \in 1 .. Len(s)
    BY <1>1, <1>2, <1>4
  <2> QED BY <2>1 DEF Before
<1>5. CASE i = k
  <2>1. a = t /\ j - 1 \in 1 .. Len(s) /\ s[j - 1] = b /\ j - 1 >= k
    BY <1>1, <1>2, <1>5
  <2> QED BY <2>1 DEF Before
<1> QED BY <1>3, <1>4, <1>5

LEMMA OrderInsertLast ==
    ASSUME NEW s \in Seq(Task), NEW t \in Task,
           NEW a, NEW b, Before(InsertAt(s, Len(s) + 1, t), a, b)
    PROVE  Before(s, a, b) \/ (b = t /\ Contains(s, a))
<1> DEFINE e == InsertAt(s, Len(s) + 1, t)
<1>1. Len(s) \in Nat /\ Len(s) + 1 \in 1 .. Len(s) + 1
  OBVIOUS
<1>2. /\ Len(e) = Len(s) + 1
      /\ \A i \in 1 .. Len(s) + 1 :
            e[i] = IF i < Len(s) + 1 THEN s[i] ELSE IF i = Len(s) + 1 THEN t ELSE s[i - 1]
  <2>1. Inserted(e, s, Len(s) + 1, t)
    BY <1>1, InsertionIs
  <2> HIDE DEF e
  <2> QED BY <2>1 DEF Inserted
<1> HIDE DEF e
<1>3. PICK i \in 1 .. Len(e), j \in 1 .. Len(e) : i < j /\ e[i] = a /\ e[j] = b
  BY DEF Before, e
<1>4. i \in 1 .. Len(s) /\ s[i] = a
  BY <1>1, <1>2, <1>3
<1>5. CASE j = Len(s) + 1
  BY <1>1, <1>2, <1>3, <1>4, <1>5 DEF Contains
<1>6. CASE j # Len(s) + 1
  BY <1>1, <1>2, <1>3, <1>4, <1>6 DEF Before
<1> QED BY <1>5, <1>6
=============================================================================
