--------------------------- MODULE ResumeAllProofs ---------------------------
(***************************************************************************)
(* Proofs about LinkedList and ResumeAll: the pointers stay rings, which   *)
(* the functions of list_t change as they would change sequences, and the  *)
(* walk of task_resume_all() misses nobody.                                *)
(*                                                                         *)
(* Represents says which sequences a heap stands for.  HeapInv is that it  *)
(* stands for what a walk of each list meets (Sequences), and WalkInv says *)
(* where the tasks are that the walk has still to resume.                  *)
(***************************************************************************)
EXTENDS ResumeAll, TLAPS, FiniteSetTheorems, WellFoundedInduction

T == INSTANCE TaskListProofs WITH Task <- Node

-----------------------------------------------------------------------------
(* Sequences, and the rings that stand for them.                             *)

Has(s, n) == \E i \in 1 .. Len(s) : s[i] = n
Injective(s) == \A i, j \in 1 .. Len(s) : s[i] = s[j] => i = j
Before(s, a, b) == \E i, j \in 1 .. Len(s) : i < j /\ s[i] = a /\ s[j] = b

\* w is s without its k-th element, and w is s with n as the k-th one.
IsCut(w, s, k) ==
    /\ w \in Seq(Node) /\ Len(w) = Len(s) - 1
    /\ \A i \in 1 .. Len(s) - 1 : w[i] = IF i < k THEN s[i] ELSE s[i + 1]
IsPut(w, s, k, n) ==
    /\ w \in Seq(Node) /\ Len(w) = Len(s) + 1
    /\ \A i \in 1 .. Len(s) + 1 :
          w[i] = IF i < k THEN s[i] ELSE IF i = k THEN n ELSE s[i - 1]

\* The i-th cell of the ring of list l: the list itself is before the first
\* node, and after the last.
Around(s, l, i) == IF i \in 1 .. Len(s) THEN s[i] ELSE l

IsRing(next, prev, s, l) ==
    \A i \in 0 .. Len(s) : /\ next[Around(s, l, i)] = Around(s, l, i + 1)
                           /\ prev[Around(s, l, i + 1)] = Around(s, l, i)

\* No node is on two lists, or twice on one.
Separate(ls) ==
    /\ \A l \in ListId : Injective(ls[l])
    /\ \A k, l \in ListId, n \in Node : Has(ls[k], n) /\ Has(ls[l], n) => k = l

HeapTypes(h) ==
    /\ h.next \in [Cell -> Cell \cup {NULL}] /\ h.prev \in [Cell -> Cell \cup {NULL}]
    /\ h.list \in [Node -> ListId \cup {NULL}]
    /\ h.length \in [ListId -> Int]

\* The heap h stands for the sequences ls.
Represents(h, ls) ==
    /\ HeapTypes(h)
    /\ ls \in [ListId -> Seq(Node)]
    /\ \A l \in ListId : /\ IsRing(h.next, h.prev, ls[l], l)
                         /\ h.length[l] = Len(ls[l])
                         /\ Injective(ls[l])
    /\ \A l \in ListId, n \in Node : h.list[n] = l <=> Has(ls[l], n)

-----------------------------------------------------------------------------
\* The lists of a heap are separate, as a node names one list.
LEMMA ListsAreSeparate ==
    ASSUME NEW h, NEW ls, Represents(h, ls)
    PROVE  Separate(ls)
BY DEF Represents, Separate

\* The cells of the rings are all different.
LEMMA CellsDiffer ==
    ASSUME NEW ls \in [ListId -> Seq(Node)], Separate(ls),
           NEW k \in ListId, NEW l \in ListId,
           NEW i \in 0 .. Len(ls[k]) + 1, NEW j \in 0 .. Len(ls[l]) + 1,
           Around(ls[k], k, i) = Around(ls[l], l, j)
    PROVE  /\ k = l
           /\ i \in 0 .. Len(ls[k]) /\ j \in 0 .. Len(ls[l]) => i = j
           /\ i \in 1 .. Len(ls[k]) + 1 /\ j \in 1 .. Len(ls[l]) + 1 => i = j
<1>1. ls[k] \in Seq(Node) /\ ls[l] \in Seq(Node)
  OBVIOUS
<1>2. /\ i \in 1 .. Len(ls[k]) => ls[k][i] \in Node
      /\ j \in 1 .. Len(ls[l]) => ls[l][j] \in Node
  BY <1>1
<1>3. k \notin Node /\ l \notin Node
  BY NodeAssumption
<1>4. i \in 1 .. Len(ls[k]) <=> j \in 1 .. Len(ls[l])
  BY <1>2, <1>3 DEF Around
<1>5. CASE i \in 1 .. Len(ls[k]) /\ j \in 1 .. Len(ls[l])
  <2>1. ls[k][i] = ls[l][j] /\ ls[k][i] \in Node
    BY <1>2, <1>5 DEF Around
  <2>2. Has(ls[k], ls[k][i]) /\ Has(ls[l], ls[k][i])
    BY <1>5, <2>1 DEF Has
  <2>3. k = l
    BY <2>1, <2>2 DEF Separate
  <2> QED BY <1>5, <2>1, <2>3 DEF Separate, Injective
<1>6. CASE i \notin 1 .. Len(ls[k]) /\ j \notin 1 .. Len(ls[l])
  <2>1. k = l
    BY <1>6 DEF Around
  <2>2. Len(ls[k]) \in Nat
    BY <1>1
  <2> QED BY <1>6, <2>1, <2>2
<1> QED BY <1>4, <1>5, <1>6

\* In one ring, and next to another.
LEMMA RingCellsDiffer ==
    ASSUME NEW ls \in [ListId -> Seq(Node)], Separate(ls), NEW l \in ListId
    PROVE  /\ \A i, j \in 0 .. Len(ls[l]) :
                 Around(ls[l], l, i) = Around(ls[l], l, j) => i = j
           /\ \A i, j \in 1 .. Len(ls[l]) + 1 :
                 Around(ls[l], l, i) = Around(ls[l], l, j) => i = j
<1>1. Len(ls[l]) \in Nat
  BY ls[l] \in Seq(Node)
<1>2. ASSUME NEW i \in 0 .. Len(ls[l]), NEW j \in 0 .. Len(ls[l]),
             Around(ls[l], l, i) = Around(ls[l], l, j)
      PROVE  i = j
  <2>1. i \in 0 .. Len(ls[l]) + 1 /\ j \in 0 .. Len(ls[l]) + 1
    BY <1>1
  <2> QED BY <1>2, <2>1, CellsDiffer
<1>3. ASSUME NEW i \in 1 .. Len(ls[l]) + 1, NEW j \in 1 .. Len(ls[l]) + 1,
             Around(ls[l], l, i) = Around(ls[l], l, j)
      PROVE  i = j
  <2>1. i \in 0 .. Len(ls[l]) + 1 /\ j \in 0 .. Len(ls[l]) + 1
    BY <1>1
  <2> QED BY <1>3, <2>1, CellsDiffer
<1> QED BY <1>2, <1>3

LEMMA OtherCellsDiffer ==
    ASSUME NEW ls \in [ListId -> Seq(Node)], Separate(ls),
           NEW k \in ListId, NEW l \in ListId, k # l,
           NEW i \in 0 .. Len(ls[k]) + 1, NEW j \in 0 .. Len(ls[l]) + 1
    PROVE  Around(ls[k], k, i) # Around(ls[l], l, j)
BY CellsDiffer

\* The cells of a ring are cells.
LEMMA CellsAre ==
    ASSUME NEW s \in Seq(Node), NEW l \in ListId, NEW i
    PROVE  /\ Around(s, l, i) \in Cell
           /\ i \in 1 .. Len(s) => Around(s, l, i) \in Node
BY DEF Around, Cell

\* The ring of s without its k-th node.
LEMMA AroundCut ==
    ASSUME NEW s \in Seq(Node), NEW k \in 1 .. Len(s), NEW w, IsCut(w, s, k),
           NEW l, NEW i \in 0 .. Len(s)
    PROVE  Around(w, l, i) = Around(s, l, IF i < k THEN i ELSE i + 1)
<1>1. Len(s) \in Nat /\ Len(w) = Len(s) - 1
  BY DEF IsCut
<1>2. CASE i \in 1 .. Len(s) - 1
  BY <1>1, <1>2 DEF IsCut, Around
<1>3. CASE i = 0
  BY <1>1, <1>3 DEF Around
<1>4. CASE i = Len(s)
  BY <1>1, <1>4 DEF Around
<1> QED BY <1>1, <1>2, <1>3, <1>4

\* The ring of s with n in the k-th place.
LEMMA AroundPut ==
    ASSUME NEW s \in Seq(Node), NEW k \in 1 .. Len(s) + 1, NEW n \in Node,
           NEW w, IsPut(w, s, k, n),
           NEW l, NEW i \in 0 .. Len(s) + 2
    PROVE  Around(w, l, i) =
              IF i < k THEN Around(s, l, i) ELSE IF i = k THEN n ELSE Around(s, l, i - 1)
<1>1. Len(s) \in Nat /\ Len(w) = Len(s) + 1
  BY DEF IsPut
<1>2. CASE i \in 1 .. Len(s) + 1
  BY <1>1, <1>2 DEF IsPut, Around
<1>3. CASE i = 0
  BY <1>1, <1>3 DEF Around
<1>4. CASE i = Len(s) + 2
  BY <1>1, <1>4 DEF Around
<1> QED BY <1>1, <1>2, <1>3, <1>4

\* A list has no more nodes than there are, and so its counter does not wrap.
LEMMA ListIsShort ==
    ASSUME NEW s \in Seq(Node), Injective(s)
    PROVE  Len(s) <= Cardinality(Node) /\ Cardinality(Node) \in Nat
<1>1. IsFiniteSet(Node) /\ Len(s) \in Nat
  BY NodeAssumption
<1>2. s \in Injection(1 .. Len(s), Node)
  <2>1. s \in [1 .. Len(s) -> Node] /\ DOMAIN s = 1 .. Len(s)
    OBVIOUS
  <2> QED BY <2>1 DEF Injection, IsInjective, Injective
<1>3. IsFiniteSet(1 .. Len(s)) /\ Cardinality(1 .. Len(s)) = Len(s)
  BY <1>1, FS_Interval
<1> QED BY <1>1, <1>2, <1>3, FS_Injection, FS_CardinalityType

LEMMA NoWrap == \A i \in 0 .. LengthMod - 1 : i % LengthMod = i
BY LengthAssumption

-----------------------------------------------------------------------------
(* list_remove().                                                            *)

\* The neighbours of a node on a list are those of its place in the sequence.
LEMMA Neighbours ==
    ASSUME NEW h, NEW ls, Represents(h, ls), NEW l \in ListId,
           NEW k \in 1 .. Len(ls[l])
    PROVE  /\ h.prev[ls[l][k]] = Around(ls[l], l, k - 1)
           /\ h.next[ls[l][k]] = Around(ls[l], l, k + 1)
           /\ ls[l][k] \in Node /\ h.list[ls[l][k]] = l
<1>1. ls[l] \in Seq(Node) /\ IsRing(h.next, h.prev, ls[l], l)
  BY DEF Represents
<1>2. /\ k \in 0 .. Len(ls[l]) /\ k - 1 \in 0 .. Len(ls[l]) /\ (k - 1) + 1 = k
      /\ Around(ls[l], l, k) = ls[l][k]
  BY <1>1 DEF Around
<1>3. ls[l][k] \in Node /\ h.list[ls[l][k]] = l
  BY <1>1 DEF Represents, Has
<1> QED BY <1>1, <1>2, <1>3 DEF IsRing

\* The node n between p and q is taken out.
Unlinks(next2, prev2, next, prev, p, n, q) ==
    /\ next2[p] = q /\ \A c \in Cell \ {p, n} : next2[c] = next[c]
    /\ prev2[q] = p /\ \A c \in Cell \ {q, n} : prev2[c] = prev[c]

\* Of a ring, list_remove() makes the ring without the node.
LEMMA CutRing ==
    ASSUME NEW ls \in [ListId -> Seq(Node)], Separate(ls), NEW l \in ListId,
           NEW k \in 1 .. Len(ls[l]), NEW w, IsCut(w, ls[l], k),
           NEW next, NEW prev, IsRing(next, prev, ls[l], l), NEW next2, NEW prev2,
           Unlinks(next2, prev2, next, prev, Around(ls[l], l, k - 1),
                   Around(ls[l], l, k), Around(ls[l], l, k + 1))
    PROVE  IsRing(next2, prev2, w, l)
<1> DEFINE s == ls[l]
<1> DEFINE A(i) == Around(s, l, i)
<1>1. s \in Seq(Node) /\ Len(s) \in Nat /\ Len(w) = Len(s) - 1
  BY DEF IsCut
<1>2. \A i, j \in 0 .. Len(s) : A(i) = A(j) => i = j
  BY RingCellsDiffer
<1>3. \A i, j \in 1 .. Len(s) + 1 : A(i) = A(j) => i = j
  BY RingCellsDiffer
<1>4. \A i : A(i) \in Cell
  BY <1>1, CellsAre
<1>5. \A i \in 0 .. Len(s) : next[A(i)] = A(i + 1) /\ prev[A(i + 1)] = A(i)
  BY DEF IsRing
<1>6. \A i \in 0 .. Len(s) : Around(w, l, i) = A(IF i < k THEN i ELSE i + 1)
  BY <1>1, AroundCut
<1>7. /\ next2[A(k - 1)] = A(k + 1) /\ prev2[A(k + 1)] = A(k - 1)
      /\ \A c \in Cell \ {A(k - 1), A(k)} : next2[c] = next[c]
      /\ \A c \in Cell \ {A(k + 1), A(k)} : prev2[c] = prev[c]
  BY DEF Unlinks
<1> HIDE DEF A
<1>8. ASSUME NEW i \in 0 .. Len(w)
      PROVE  /\ next2[Around(w, l, i)] = Around(w, l, i + 1)
             /\ prev2[Around(w, l, i + 1)] = Around(w, l, i)
  <2>1. i \in 0 .. Len(s) /\ i + 1 \in 0 .. Len(s) /\ k \in 1 .. Len(s)
    BY <1>1
  <2>2. CASE i + 1 < k
    <3>1. Around(w, l, i) = A(i) /\ Around(w, l, i + 1) = A(i + 1)
      BY <1>6, <2>1, <2>2
    <3>2. A(i) # A(k - 1) /\ A(i) # A(k)
      BY <1>1, <1>2, <2>1, <2>2
    <3>3. A(i + 1) # A(k + 1) /\ A(i + 1) # A(k)
      BY <1>1, <1>3, <2>1, <2>2
    <3> QED BY <1>4, <1>5, <1>7, <2>1, <3>1, <3>2, <3>3
  <2>3. CASE i + 1 = k
    <3>1. Around(w, l, i) = A(i) /\ Around(w, l, i + 1) = A(k + 1) /\ i = k - 1
      BY <1>6, <2>1, <2>3
    <3> QED BY <1>7, <3>1
  <2>4. CASE i + 1 > k
    <3>1. Around(w, l, i) = A(i + 1) /\ Around(w, l, i + 1) = A((i + 1) + 1)
      BY <1>6, <2>1, <2>4
    <3>2. A(i + 1) # A(k - 1) /\ A(i + 1) # A(k)
      BY <1>1, <1>2, <2>1, <2>4
    <3>3. A((i + 1) + 1) # A(k + 1) /\ A((i + 1) + 1) # A(k)
      BY <1>1, <1>3, <2>1, <2>4
    <3> QED BY <1>4, <1>5, <1>7, <2>1, <3>1, <3>2, <3>3
  <2> QED BY <1>1, <2>2, <2>3, <2>4
<1> QED BY <1>8 DEF IsRing

\* The rings of the other lists do not notice.
LEMMA OtherRing ==
    ASSUME NEW s \in Seq(Node), NEW l \in ListId, NEW next, NEW prev,
           IsRing(next, prev, s, l), NEW next2, NEW prev2,
           \A i \in 0 .. Len(s) : next2[Around(s, l, i)] = next[Around(s, l, i)],
           \A i \in 1 .. Len(s) + 1 : prev2[Around(s, l, i)] = prev[Around(s, l, i)]
    PROVE  IsRing(next2, prev2, s, l)
<1>1. \A i \in 0 .. Len(s) : i + 1 \in 1 .. Len(s) + 1
  OBVIOUS
<1> QED BY <1>1 DEF IsRing

\* The nodes of a sequence that is cut.
LEMMA CutHas ==
    ASSUME NEW s \in Seq(Node), Injective(s), NEW k \in 1 .. Len(s),
           NEW w, IsCut(w, s, k)
    PROVE  /\ w \in Seq(Node) /\ Injective(w)
           /\ \A m \in Node : Has(w, m) <=> Has(s, m) /\ m # s[k]
<1>1. /\ w \in Seq(Node) /\ Len(s) \in Nat /\ Len(w) = Len(s) - 1
      /\ \A i \in 1 .. Len(w) : w[i] = IF i < k THEN s[i] ELSE s[i + 1]
  BY DEF IsCut
<1>2. Injective(w)
  BY <1>1 DEF Injective
<1>3. ASSUME NEW m \in Node, Has(w, m) PROVE Has(s, m) /\ m # s[k]
  BY <1>1, <1>3 DEF Has, Injective
<1>4. ASSUME NEW m \in Node, Has(s, m), m # s[k] PROVE Has(w, m)
  <2>1. PICK i \in 1 .. Len(s) : s[i] = m /\ i # k
    BY <1>4 DEF Has
  <2>2. CASE i < k
    BY <1>1, <2>1, <2>2 DEF Has
  <2>3. CASE i > k
    <3>1. i - 1 \in 1 .. Len(w) /\ ~(i - 1 < k) /\ (i - 1) + 1 = i
      BY <1>1, <2>3
    <3> QED BY <1>1, <2>1, <3>1 DEF Has
  <2> QED BY <2>1, <2>2, <2>3
<1> QED BY <1>1, <1>2, <1>3, <1>4

\* list_remove(n) takes n out of the sequence of its list.
LEMMA RemoveRepresents ==
    ASSUME NEW h, NEW ls, Represents(h, ls), NEW l \in ListId,
           NEW k \in 1 .. Len(ls[l]), NEW n, n = ls[l][k],
           NEW new \in [ListId -> Seq(Node)], IsCut(new[l], ls[l], k),
           \A m \in ListId \ {l} : new[m] = ls[m]
    PROVE  Represents(ListRemove(h, n), new)
<1> DEFINE g == ListRemove(h, n)
<1> DEFINE p == Around(ls[l], l, k - 1)
<1> DEFINE q == Around(ls[l], l, k + 1)
<1>0. Separate(ls)
  BY ListsAreSeparate
<1>1. /\ HeapTypes(h) /\ ls \in [ListId -> Seq(Node)]
      /\ ls[l] \in Seq(Node) /\ Len(ls[l]) \in Nat
      /\ IsRing(h.next, h.prev, ls[l], l)
  BY DEF Represents
<1>2. h.prev[n] = p /\ h.next[n] = q /\ n \in Node /\ h.list[n] = l
  BY Neighbours
<1>3. p \in Cell /\ q \in Cell /\ n \in Cell /\ Around(ls[l], l, k) = n
  BY <1>1, <1>2, CellsAre DEF Around, Cell
<1>4. p # n /\ q # n
  <2>1. k \in 0 .. Len(ls[l]) /\ k - 1 \in 0 .. Len(ls[l])
        /\ k \in 1 .. Len(ls[l]) + 1 /\ k + 1 \in 1 .. Len(ls[l]) + 1
        /\ k - 1 # k /\ k + 1 # k
    BY <1>1
  <2>2. \A i, j \in 0 .. Len(ls[l]) : Around(ls[l], l, i) = Around(ls[l], l, j) => i = j
    BY <1>0, <1>1, RingCellsDiffer
  <2>3. \A i, j \in 1 .. Len(ls[l]) + 1 :
            Around(ls[l], l, i) = Around(ls[l], l, j) => i = j
    BY <1>0, <1>1, RingCellsDiffer
  <2> QED BY <1>3, <2>1, <2>2, <2>3
<1>5. /\ g.next = [h.next EXCEPT ![p] = q, ![n] = NULL]
      /\ g.prev = [h.prev EXCEPT ![q] = p, ![n] = NULL]
      /\ g.list = [h.list EXCEPT ![n] = NULL]
      /\ g.length = [h.length EXCEPT ![l] = (@ - 1) % LengthMod]
  BY <1>2 DEF ListRemove
<1> HIDE DEF g, p, q
<1>6. /\ g.next \in [Cell -> Cell \cup {NULL}] /\ g.prev \in [Cell -> Cell \cup {NULL}]
      /\ g.next[p] = q /\ g.prev[q] = p
      /\ \A c \in Cell \ {p, n} : g.next[c] = h.next[c]
      /\ \A c \in Cell \ {q, n} : g.prev[c] = h.prev[c]
  <2>1. /\ h.next \in [Cell -> Cell \cup {NULL}] /\ h.prev \in [Cell -> Cell \cup {NULL}]
    BY <1>1 DEF HeapTypes
  <2>2. g.next = [h.next EXCEPT ![p] = q, ![n] = NULL]
    BY <1>5
  <2>3. g.prev = [h.prev EXCEPT ![q] = p, ![n] = NULL]
    BY <1>5
  <2>4. /\ g.next \in [Cell -> Cell \cup {NULL}] /\ g.next[p] = q
        /\ \A c \in Cell \ {p, n} : g.next[c] = h.next[c]
    BY <1>3, <1>4, <2>1, <2>2
  <2>5. /\ g.prev \in [Cell -> Cell \cup {NULL}] /\ g.prev[q] = p
        /\ \A c \in Cell \ {q, n} : g.prev[c] = h.prev[c]
    BY <1>3, <1>4, <2>1, <2>3
  <2> QED BY <2>4, <2>5
<1>7. /\ g.list \in [Node -> ListId \cup {NULL}] /\ g.list[n] = NULL
      /\ \A m \in Node \ {n} : g.list[m] = h.list[m]
  BY <1>1, <1>2, <1>5 DEF HeapTypes
<1>8. /\ g.length \in [ListId -> Int] /\ g.length[l] = Len(new[l])
      /\ \A m \in ListId \ {l} : g.length[m] = h.length[m]
  <2>1. h.length \in [ListId -> Int] /\ h.length[l] = Len(ls[l])
    BY <1>1 DEF HeapTypes, Represents
  <2>2. Len(ls[l]) <= Cardinality(Node) /\ Cardinality(Node) \in Nat
    BY <1>0, <1>1, ListIsShort DEF Separate
  <2>3. (Len(ls[l]) - 1) % LengthMod = Len(ls[l]) - 1
    BY <1>1, <2>2, NoWrap, LengthAssumption
  <2>4. Len(new[l]) = Len(ls[l]) - 1
    BY DEF IsCut
  <2> QED BY <1>1, <1>5, <2>1, <2>3, <2>4
<1>9. /\ new[l] \in Seq(Node) /\ Injective(new[l])
      /\ \A m \in Node : Has(new[l], m) <=> Has(ls[l], m) /\ m # n
  BY <1>0, <1>1, CutHas DEF Separate
<1>10. IsRing(g.next, g.prev, new[l], l)
  <2>1. Unlinks(g.next, g.prev, h.next, h.prev, Around(ls[l], l, k - 1),
                Around(ls[l], l, k), Around(ls[l], l, k + 1))
    BY <1>3, <1>6 DEF p, q, Unlinks
  <2> QED BY <1>0, <1>1, <2>1, CutRing
<1>11. ASSUME NEW m \in ListId \ {l}
       PROVE  IsRing(g.next, g.prev, new[m], m)
  <2>1. /\ ls[m] \in Seq(Node) /\ Len(ls[m]) \in Nat /\ IsRing(h.next, h.prev, ls[m], m)
        /\ new[m] = ls[m]
    BY <1>1 DEF Represents
  <2>2. k - 1 \in 0 .. Len(ls[l]) + 1 /\ k \in 0 .. Len(ls[l]) + 1
        /\ k + 1 \in 0 .. Len(ls[l]) + 1
    BY <1>1
  <2>3. ASSUME NEW i \in 0 .. Len(ls[m]) + 1
        PROVE  Around(ls[m], m, i) \in Cell \ {p, q, n}
    BY SMTT(30), <1>0, <1>1, <1>3, <2>1, <2>2, OtherCellsDiffer, CellsAre DEF p, q
  <2>4. /\ \A i \in 0 .. Len(ls[m]) :
              g.next[Around(ls[m], m, i)] = h.next[Around(ls[m], m, i)]
        /\ \A i \in 1 .. Len(ls[m]) + 1 :
              g.prev[Around(ls[m], m, i)] = h.prev[Around(ls[m], m, i)]
    BY SMTT(30), <1>6, <2>1, <2>3
  <2> HIDE DEF Represents
  <2>5. IsRing(g.next, g.prev, ls[m], m)
    BY <2>1, <2>4, OtherRing
  <2> QED BY <2>1, <2>5
<1>12. \A m \in ListId, u \in Node : g.list[u] = m <=> Has(new[m], u)
  <2> SUFFICES ASSUME NEW m \in ListId, NEW u \in Node
               PROVE  g.list[u] = m <=> Has(new[m], u)
    OBVIOUS
  <2>1. h.list[u] = m <=> Has(ls[m], u)
    BY DEF Represents
  <2>2. NULL # m
    BY NodeAssumption DEF Cell
  <2>3. CASE m = l
    BY <1>7, <1>9, <2>1, <2>2, <2>3
  <2>4. CASE m # l
    BY <1>2, <1>7, <2>1, <2>2, <2>4
  <2> QED BY <2>3, <2>4
<1>13. HeapTypes(g)
  BY <1>6, <1>7, <1>8 DEF HeapTypes
<1> QED
  BY <1>1, <1>8, <1>9, <1>10, <1>11, <1>12, <1>13 DEF Represents, Separate, g

-----------------------------------------------------------------------------
(* list_insert_after().                                                      *)

\* The node n comes between p and q.
Links(next2, prev2, next, prev, p, n, q) ==
    /\ next2[p] = n /\ next2[n] = q /\ \A c \in Cell \ {p, n} : next2[c] = next[c]
    /\ prev2[q] = n /\ prev2[n] = p /\ \A c \in Cell \ {q, n} : prev2[c] = prev[c]

\* Of a ring, list_insert_after() makes the ring with the node.
LEMMA PutRing ==
    ASSUME NEW ls \in [ListId -> Seq(Node)], Separate(ls), NEW l \in ListId,
           NEW k \in 1 .. Len(ls[l]) + 1, NEW n \in Node, ~Has(ls[l], n),
           NEW w, IsPut(w, ls[l], k, n),
           NEW next, NEW prev, IsRing(next, prev, ls[l], l), NEW next2, NEW prev2,
           Links(next2, prev2, next, prev, Around(ls[l], l, k - 1), n,
                 Around(ls[l], l, k))
    PROVE  IsRing(next2, prev2, w, l)
<1> DEFINE s == ls[l]
<1> DEFINE A(i) == Around(s, l, i)
<1>1. s \in Seq(Node) /\ Len(s) \in Nat /\ Len(w) = Len(s) + 1
  BY DEF IsPut
<1>2. \A i, j \in 0 .. Len(s) : A(i) = A(j) => i = j
  BY RingCellsDiffer
<1>3. \A i, j \in 1 .. Len(s) + 1 : A(i) = A(j) => i = j
  BY RingCellsDiffer
<1>4. \A i : A(i) \in Cell /\ A(i) # n
  BY <1>1, CellsAre, NodeAssumption DEF Around, Has
<1>5. \A i \in 0 .. Len(s) : next[A(i)] = A(i + 1) /\ prev[A(i + 1)] = A(i)
  BY DEF IsRing
<1>6. \A i \in 0 .. Len(s) + 2 :
          Around(w, l, i) = IF i < k THEN A(i) ELSE IF i = k THEN n ELSE A(i - 1)
  BY <1>1, AroundPut
<1>7. /\ next2[A(k - 1)] = n /\ next2[n] = A(k)
      /\ prev2[A(k)] = n /\ prev2[n] = A(k - 1)
      /\ \A c \in Cell \ {A(k - 1), n} : next2[c] = next[c]
      /\ \A c \in Cell \ {A(k), n} : prev2[c] = prev[c]
  BY DEF Links
<1> HIDE DEF A
<1>8. ASSUME NEW i \in 0 .. Len(w)
      PROVE  /\ next2[Around(w, l, i)] = Around(w, l, i + 1)
             /\ prev2[Around(w, l, i + 1)] = Around(w, l, i)
  <2>1. i \in 0 .. Len(s) + 2 /\ i + 1 \in 0 .. Len(s) + 2 /\ k \in 1 .. Len(s) + 1
    BY <1>1
  <2>2. CASE i + 1 < k
    <3>1. Around(w, l, i) = A(i) /\ Around(w, l, i + 1) = A(i + 1)
      BY <1>6, <2>1, <2>2
    <3>2. A(i) # A(k - 1) /\ A(i + 1) # A(k)
      BY <1>1, <1>2, <1>3, <2>1, <2>2
    <3>3. i \in 0 .. Len(s)
      BY <1>1, <2>1, <2>2
    <3> QED BY <1>4, <1>5, <1>7, <3>1, <3>2, <3>3
  <2>3. CASE i + 1 = k
    <3>1. Around(w, l, i) = A(k - 1) /\ Around(w, l, i + 1) = n
      BY <1>6, <2>1, <2>3
    <3> QED BY <1>7, <3>1
  <2>4. CASE i = k
    <3>1. Around(w, l, i) = n /\ Around(w, l, i + 1) = A(k)
      BY <1>6, <2>1, <2>4
    <3> QED BY <1>7, <3>1
  <2>5. CASE i > k
    <3>1. /\ i - 1 \in 0 .. Len(s) /\ (i - 1) + 1 = i /\ (i + 1) - 1 = i
          /\ i # k /\ i - 1 # k - 1 /\ i \in 1 .. Len(s) + 1
      BY <1>1, <2>1, <2>5
    <3>2. Around(w, l, i) = A(i - 1) /\ Around(w, l, i + 1) = A(i)
      BY <1>6, <2>1, <2>5, <3>1
    <3>3. A(i - 1) # A(k - 1) /\ A(i) # A(k)
      BY <1>1, <1>2, <1>3, <2>1, <2>5, <3>1
    <3>4. next[A(i - 1)] = A(i) /\ prev[A(i)] = A(i - 1)
      BY <1>5, <3>1
    <3> QED BY <1>4, <1>7, <3>2, <3>3, <3>4
  <2> QED BY <1>1, <2>2, <2>3, <2>4, <2>5
<1> QED BY <1>8 DEF IsRing

\* The nodes of a sequence that gets one more.
LEMMA PutHas ==
    ASSUME NEW s \in Seq(Node), Injective(s), NEW k \in 1 .. Len(s) + 1,
           NEW n \in Node, ~Has(s, n), NEW w, IsPut(w, s, k, n)
    PROVE  /\ w \in Seq(Node) /\ Injective(w)
           /\ \A m \in Node : Has(w, m) <=> Has(s, m) \/ m = n
<1>1. /\ w \in Seq(Node) /\ Len(s) \in Nat /\ Len(w) = Len(s) + 1
      /\ \A i \in 1 .. Len(w) :
            w[i] = IF i < k THEN s[i] ELSE IF i = k THEN n ELSE s[i - 1]
  BY DEF IsPut
<1>2. Injective(w)
  <2> DEFINE from(i) == IF i < k THEN i ELSE i - 1
  <2>1. \A i \in 1 .. Len(w) : i # k => from(i) \in 1 .. Len(s) /\ w[i] = s[from(i)]
    BY <1>1
  <2>2. w[k] = n /\ \A i \in 1 .. Len(s) : s[i] # n
    BY <1>1 DEF Has
  <2>3. \A i, j \in 1 .. Len(w) : i # k /\ j # k /\ from(i) = from(j) => i = j
    BY <1>1
  <2> HIDE DEF from
  <2> QED BY <2>1, <2>2, <2>3 DEF Injective
<1>3. ASSUME NEW m \in Node, Has(w, m) PROVE Has(s, m) \/ m = n
  BY <1>1, <1>3 DEF Has
<1>4. ASSUME NEW m \in Node, Has(s, m) PROVE Has(w, m)
  <2>1. PICK i \in 1 .. Len(s) : s[i] = m
    BY <1>4 DEF Has
  <2>2. CASE i < k
    BY <1>1, <2>1, <2>2 DEF Has
  <2>3. CASE i >= k
    <3>1. i + 1 \in 1 .. Len(w) /\ ~(i + 1 < k) /\ i + 1 # k /\ (i + 1) - 1 = i
      BY <1>1, <2>3
    <3> QED BY <1>1, <2>1, <3>1 DEF Has
  <2> QED BY <2>1, <2>2, <2>3
<1>5. Has(w, n)
  BY <1>1 DEF Has
<1> QED BY <1>1, <1>2, <1>3, <1>4, <1>5

\* list_insert_after(l, pos, n) puts n behind pos into the sequence of l; pos
\* is the list itself in front of its first node.
LEMMA InsertRepresents ==
    ASSUME NEW h, NEW ls, Represents(h, ls), NEW l \in ListId,
           NEW k \in 1 .. Len(ls[l]) + 1, NEW n \in Node, ~NodeInList(h, n),
           NEW pos, pos = Around(ls[l], l, k - 1),
           NEW new \in [ListId -> Seq(Node)], IsPut(new[l], ls[l], k, n),
           \A m \in ListId \ {l} : new[m] = ls[m]
    PROVE  Represents(InsertAfter(h, l, pos, n), new)
<1> DEFINE g == InsertAfter(h, l, pos, n)
<1> DEFINE q == Around(ls[l], l, k)
<1>0. Separate(ls)
  BY ListsAreSeparate
<1>1. /\ HeapTypes(h) /\ ls \in [ListId -> Seq(Node)]
      /\ ls[l] \in Seq(Node) /\ Len(ls[l]) \in Nat
      /\ IsRing(h.next, h.prev, ls[l], l)
  BY DEF Represents
<1>2. \A m \in ListId : ~Has(ls[m], n)
  BY NodeAssumption DEF Represents, NodeInList, Cell
<1>3. h.next[pos] = q /\ pos \in Cell /\ q \in Cell /\ n \in Cell /\ pos # n /\ q # n
  <2>1. k - 1 \in 0 .. Len(ls[l]) /\ (k - 1) + 1 = k
    BY <1>1
  <2>2. pos \in Cell /\ q \in Cell /\ n \in Cell
    BY <1>1, CellsAre DEF Cell
  <2>3. pos # n /\ q # n
    BY <1>2, NodeAssumption DEF Around, Has
  <2> QED BY <1>1, <2>1, <2>2, <2>3 DEF IsRing
<1>5. /\ g.next = [h.next EXCEPT ![n] = q, ![pos] = n]
      /\ g.prev = [h.prev EXCEPT ![n] = pos, ![q] = n]
      /\ g.list = [h.list EXCEPT ![n] = l]
      /\ g.length = [h.length EXCEPT ![l] = (@ + 1) % LengthMod]
  BY <1>3 DEF InsertAfter
<1> HIDE DEF g, q
<1>6. /\ g.next \in [Cell -> Cell \cup {NULL}] /\ g.prev \in [Cell -> Cell \cup {NULL}]
      /\ Links(g.next, g.prev, h.next, h.prev, pos, n, q)
  <2>1. /\ h.next \in [Cell -> Cell \cup {NULL}] /\ h.prev \in [Cell -> Cell \cup {NULL}]
    BY <1>1 DEF HeapTypes
  <2>2. g.next = [h.next EXCEPT ![n] = q, ![pos] = n]
    BY <1>5
  <2>3. g.prev = [h.prev EXCEPT ![n] = pos, ![q] = n]
    BY <1>5
  <2>4. /\ g.next \in [Cell -> Cell \cup {NULL}] /\ g.next[pos] = n /\ g.next[n] = q
        /\ \A c \in Cell \ {pos, n} : g.next[c] = h.next[c]
    BY <1>3, <2>1, <2>2
  <2>5. /\ g.prev \in [Cell -> Cell \cup {NULL}] /\ g.prev[q] = n /\ g.prev[n] = pos
        /\ \A c \in Cell \ {q, n} : g.prev[c] = h.prev[c]
    BY <1>3, <2>1, <2>3
  <2> QED BY <2>4, <2>5 DEF Links
<1>7. /\ g.list \in [Node -> ListId \cup {NULL}] /\ g.list[n] = l
      /\ \A m \in Node \ {n} : g.list[m] = h.list[m]
  BY <1>1, <1>5 DEF HeapTypes
<1>9. /\ new[l] \in Seq(Node) /\ Injective(new[l])
      /\ \A m \in Node : Has(new[l], m) <=> Has(ls[l], m) \/ m = n
  BY <1>0, <1>1, <1>2, PutHas DEF Separate
<1>8. /\ g.length \in [ListId -> Int] /\ g.length[l] = Len(new[l])
      /\ \A m \in ListId \ {l} : g.length[m] = h.length[m]
  <2>1. h.length \in [ListId -> Int] /\ h.length[l] = Len(ls[l])
    BY <1>1 DEF HeapTypes, Represents
  <2>2. Len(new[l]) <= Cardinality(Node) /\ Cardinality(Node) \in Nat
    BY <1>9, ListIsShort
  <2>4. Len(new[l]) = Len(ls[l]) + 1
    BY DEF IsPut
  <2>3. (Len(ls[l]) + 1) % LengthMod = Len(ls[l]) + 1
    BY <1>1, <2>2, <2>4, NoWrap, LengthAssumption
  <2> QED BY <1>1, <1>5, <2>1, <2>3, <2>4
<1>10. IsRing(g.next, g.prev, new[l], l)
  <2>1. Links(g.next, g.prev, h.next, h.prev, Around(ls[l], l, k - 1), n,
              Around(ls[l], l, k))
    BY <1>6 DEF q
  <2> QED BY <1>0, <1>1, <1>2, <2>1, PutRing
<1>11. ASSUME NEW m \in ListId \ {l}
       PROVE  IsRing(g.next, g.prev, new[m], m)
  <2>1. /\ ls[m] \in Seq(Node) /\ Len(ls[m]) \in Nat /\ IsRing(h.next, h.prev, ls[m], m)
        /\ new[m] = ls[m]
    BY <1>1 DEF Represents
  <2>2. k - 1 \in 0 .. Len(ls[l]) + 1 /\ k \in 0 .. Len(ls[l]) + 1
    BY <1>1
  <2>3. ASSUME NEW i \in 0 .. Len(ls[m]) + 1
        PROVE  Around(ls[m], m, i) \in Cell \ {pos, q, n}
    <3>1. Around(ls[m], m, i) # pos /\ Around(ls[m], m, i) # q
      BY SMTT(30), <1>0, <1>1, <2>1, <2>2, OtherCellsDiffer DEF q
    <3>2. Around(ls[m], m, i) # n
      BY <1>2, NodeAssumption DEF Around, Has
    <3> QED BY <2>1, <3>1, <3>2, CellsAre
  <2>4. /\ \A i \in 0 .. Len(ls[m]) :
              g.next[Around(ls[m], m, i)] = h.next[Around(ls[m], m, i)]
        /\ \A i \in 1 .. Len(ls[m]) + 1 :
              g.prev[Around(ls[m], m, i)] = h.prev[Around(ls[m], m, i)]
    BY SMTT(30), <1>6, <2>1, <2>3 DEF Links
  <2>5. IsRing(g.next, g.prev, ls[m], m)
    BY <2>1, <2>4, OtherRing
  <2> QED BY <2>1, <2>5
<1>12. \A m \in ListId, u \in Node : g.list[u] = m <=> Has(new[m], u)
  <2> SUFFICES ASSUME NEW m \in ListId, NEW u \in Node
               PROVE  g.list[u] = m <=> Has(new[m], u)
    OBVIOUS
  <2>1. h.list[u] = m <=> Has(ls[m], u)
    BY DEF Represents
  <2>3. CASE m = l
    BY <1>7, <1>9, <2>1, <2>3
  <2>4. CASE m # l
    BY <1>2, <1>7, <2>1, <2>4
  <2> QED BY <2>3, <2>4
<1>13. HeapTypes(g)
  BY <1>6, <1>7, <1>8 DEF HeapTypes
<1> QED
  BY <1>1, <1>8, <1>9, <1>10, <1>11, <1>12, <1>13 DEF Represents, Separate, g

-----------------------------------------------------------------------------
(* SequenceOf: what a walk from the head of a list meets.                    *)

LEMMA LeastOf ==
    ASSUME NEW S \in SUBSET Nat, S # {}
    PROVE  \E i \in S : \A j \in S : i <= j
<1>1. PICK i \in S : \A j \in S : ~ (<<j, i>> \in OpToRel(<, Nat))
  BY WFMin, NatLessThanWellFounded
<1>2. \A j \in S : i \in Nat /\ j \in Nat /\ ~(j < i)
  BY <1>1 DEF OpToRel
<1> QED BY <1>2

\* A walk of as many steps as the list is long meets the nodes that the list
\* stands for: by the first step that would lead anywhere else.
LEMMA SequenceIs ==
    ASSUME NEW h, NEW ls, Represents(h, ls), NEW l \in ListId
    PROVE  SequenceOf(h, l) = ls[l]
<1> DEFINE n == h.length[l]
<1> DEFINE G == [i \in 0 .. n |-> Around(ls[l], l, i)]
<1> DEFINE Steps(f) == [i \in 0 .. n |-> IF i = 0 THEN l ELSE h.next[f[i - 1]]]
<1> DEFINE walkOf == CHOOSE f : f = Steps(f)
<1>1. /\ ls[l] \in Seq(Node) /\ n = Len(ls[l]) /\ n \in Nat
      /\ IsRing(h.next, h.prev, ls[l], l)
  BY DEF Represents
<1> HIDE DEF n
<1>2. G = Steps(G)
  <2>1. ASSUME NEW i \in 0 .. n PROVE G[i] = Steps(G)[i]
    <3>1. CASE i = 0
      BY <1>1, <3>1 DEF Around
    <3>2. CASE i # 0
      <4>1. i - 1 \in 0 .. n /\ (i - 1) + 1 = i
        BY <1>1, <3>2
      <4>2. G[i] = Around(ls[l], l, i) /\ G[i - 1] = Around(ls[l], l, i - 1)
        BY <4>1
      <4>3. h.next[Around(ls[l], l, i - 1)] = Around(ls[l], l, i)
        BY <1>1, <4>1 DEF IsRing
      <4> QED BY <3>2, <4>2, <4>3
    <3> QED BY <3>1, <3>2
  <2> QED BY <2>1
<1> HIDE DEF Steps
<1>3. walkOf = Steps(walkOf)
  BY <1>2
<1> HIDE DEF walkOf
<1>4. \A i \in 0 .. n : walkOf[i] = G[i]
  <2> DEFINE Wrong == {i \in 0 .. n : walkOf[i] # G[i]}
  <2> SUFFICES ASSUME Wrong # {} PROVE FALSE
    OBVIOUS
  <2>1. Wrong \subseteq Nat
    OBVIOUS
  <2>2. PICK i \in Wrong : \A j \in Wrong : i <= j
    BY <2>1, LeastOf
  <2>3. i \in 0 .. n /\ walkOf[i] # G[i]
    OBVIOUS
  <2>4. walkOf[i] = Steps(walkOf)[i] /\ G[i] = Steps(G)[i]
    BY <1>2, <1>3
  <2>5. CASE i = 0
    BY <2>3, <2>4, <2>5 DEF Steps
  <2>6. CASE i # 0
    <3>1. i - 1 \in 0 .. n /\ i - 1 < i
      BY <1>1, <2>3, <2>6
    <3>2. walkOf[i - 1] = G[i - 1]
      BY SMTT(30), <1>1, <2>2, <2>3, <3>1
    <3> QED BY <2>3, <2>4, <2>6, <3>2 DEF Steps
  <2> QED BY <2>5, <2>6
<1>5. SequenceOf(h, l) = [i \in 1 .. n |-> walkOf[i]]
  BY DEF SequenceOf, walkOf, Steps, n
<1>6. ASSUME NEW i \in 1 .. n PROVE walkOf[i] = ls[l][i]
  <2>1. i \in 0 .. n /\ i \in 1 .. Len(ls[l])
    BY <1>1
  <2>2. walkOf[i] = G[i] /\ G[i] = Around(ls[l], l, i)
    BY <1>4, <2>1
  <2> QED BY <2>1, <2>2 DEF Around
<1> QED BY <1>1, <1>5, <1>6

Sequences(h) == [l \in ListId |-> SequenceOf(h, l)]

LEMMA SequencesAre ==
    ASSUME NEW h, NEW ls, Represents(h, ls)
    PROVE  Sequences(h) = ls
<1>1. \A l \in ListId : SequenceOf(h, l) = ls[l]
  BY SequenceIs
<1>2. ls \in [ListId -> Seq(Node)]
  BY DEF Represents
<1> QED BY <1>1, <1>2 DEF Sequences

-----------------------------------------------------------------------------
(* The moves of one node, and what they make of the sequences.               *)

LEMMA WithoutIs ==
    ASSUME NEW s \in Seq(Node), Injective(s), NEW n \in Node
    PROVE  /\ ~Has(s, n) => SL!Without(s, n) = s
           /\ \A k \in 1 .. Len(s) : s[k] = n => IsCut(SL!Without(s, n), s, k)
<1>1. ~Has(s, n) => SL!Without(s, n) = s
  BY DEF Has, SL!Without
<1>2. ASSUME NEW k \in 1 .. Len(s), s[k] = n
      PROVE  IsCut(SL!Without(s, n), s, k)
  <2>1. k = CHOOSE i \in 1 .. Len(s) : s[i] = n
    BY <1>2 DEF Injective
  <2>2. SL!Without(s, n) = SL!RemoveAt(s, k)
    BY <1>2, <2>1 DEF SL!Without
  <2>3. SL!RemoveAt(s, k) = T!RemoveAt(s, k)
    BY DEF SL!RemoveAt, T!RemoveAt
  <2> QED BY <2>2, <2>3, T!RemovalIs DEF IsCut
<1> QED BY <1>1, <1>2

LEMMA InsertIs ==
    ASSUME NEW s \in Seq(Node), NEW n \in Node
    PROVE  /\ \A k \in 1 .. Len(s) + 1 : IsPut(SL!InsertAt(s, k, n), s, k, n)
           /\ IsPut(Append(s, n), s, Len(s) + 1, n)
           /\ IsPut(<<n>> \o s, s, 1, n)
<1>1. ASSUME NEW k \in 1 .. Len(s) + 1
      PROVE  IsPut(SL!InsertAt(s, k, n), s, k, n)
  <2>1. SL!InsertAt(s, k, n) = T!InsertAt(s, k, n)
    BY DEF SL!InsertAt, T!InsertAt
  <2> QED BY SMTT(30), <2>1, T!InsertionIs DEF IsPut, T!Inserted
<1>2. IsPut(Append(s, n), s, Len(s) + 1, n)
  BY DEF IsPut
<1>3. IsPut(<<n>> \o s, s, 1, n)
  <2>1. <<n>> \in Seq(Node) /\ Len(<<n>>) = 1 /\ <<n>>[1] = n
    OBVIOUS
  <2> QED BY <2>1, T!ConcatenationIs DEF IsPut
<1> QED BY <1>1, <1>2, <1>3

\* The lists without n.
Removed(ls, n) == [l \in ListId |-> SL!Without(ls[l], n)]

LEMMA RemovedRepresents ==
    ASSUME NEW h, NEW ls, Represents(h, ls), NEW n \in Node, NodeInList(h, n)
    PROVE  /\ Represents(ListRemove(h, n), Removed(ls, n))
           /\ ~NodeInList(ListRemove(h, n), n)
<1>1. /\ HeapTypes(h) /\ ls \in [ListId -> Seq(Node)]
      /\ \A l \in ListId : Injective(ls[l])
      /\ \A l \in ListId : h.list[n] = l <=> Has(ls[l], n)
  BY DEF Represents
<1>2. h.list[n] \in ListId
  BY <1>1 DEF HeapTypes, NodeInList
<1>3. PICK l \in ListId : h.list[n] = l
  BY <1>2
<1>4. PICK k \in 1 .. Len(ls[l]) : ls[l][k] = n
  BY <1>1, <1>3 DEF Has
<1>5. IsCut(SL!Without(ls[l], n), ls[l], k)
  BY <1>1, <1>4, WithoutIs
<1>6. \A m \in ListId \ {l} : SL!Without(ls[m], n) = ls[m]
  BY <1>1, <1>3, WithoutIs
<1> DEFINE new == Removed(ls, n)
<1>7. /\ new \in [ListId -> Seq(Node)] /\ IsCut(new[l], ls[l], k)
      /\ \A m \in ListId \ {l} : new[m] = ls[m]
  BY <1>1, <1>5, <1>6 DEF Removed, IsCut
<1> HIDE DEF new
<1>8. Represents(ListRemove(h, n), new)
  BY <1>4, <1>7, RemoveRepresents
<1>9. ListRemove(h, n).list[n] = NULL
  BY <1>1 DEF ListRemove, HeapTypes
<1> QED BY <1>8, <1>9 DEF new, NodeInList

\* The end of the ring is where prev of the list leads.
LEMMA InsertLastRepresents ==
    ASSUME NEW h, NEW ls, Represents(h, ls), NEW n \in Node, ~NodeInList(h, n),
           NEW l \in ListId
    PROVE  Represents(InsertLast(h, l, n), [ls EXCEPT ![l] = Append(@, n)])
<1> DEFINE new == [ls EXCEPT ![l] = Append(@, n)]
<1>1. /\ ls \in [ListId -> Seq(Node)] /\ ls[l] \in Seq(Node) /\ Len(ls[l]) \in Nat
      /\ IsRing(h.next, h.prev, ls[l], l)
  BY DEF Represents
<1>2. h.prev[l] = Around(ls[l], l, Len(ls[l]))
  <2>1. Len(ls[l]) \in 0 .. Len(ls[l]) /\ Around(ls[l], l, Len(ls[l]) + 1) = l
    BY <1>1 DEF Around
  <2> QED BY <1>1, <2>1 DEF IsRing
<1>3. /\ new \in [ListId -> Seq(Node)] /\ IsPut(new[l], ls[l], Len(ls[l]) + 1, n)
      /\ \A m \in ListId \ {l} : new[m] = ls[m]
  <2>1. Append(ls[l], n) \in Seq(Node)
        /\ IsPut(Append(ls[l], n), ls[l], Len(ls[l]) + 1, n)
    <3>1. IsPut(Append(ls[l], n), ls[l], Len(ls[l]) + 1, n)
      BY <1>1, InsertIs
    <3> QED BY <3>1 DEF IsPut
  <2> QED BY <1>1, <2>1
<1> HIDE DEF new
<1>4. Len(ls[l]) + 1 \in 1 .. Len(ls[l]) + 1 /\ (Len(ls[l]) + 1) - 1 = Len(ls[l])
  BY <1>1
<1> QED BY <1>2, <1>3, <1>4, InsertRepresents DEF InsertLast, new

LEMMA InsertFirstRepresents ==
    ASSUME NEW h, NEW ls, Represents(h, ls), NEW n \in Node, ~NodeInList(h, n),
           NEW l \in ListId
    PROVE  Represents(InsertFirst(h, l, n), [ls EXCEPT ![l] = <<n>> \o @])
<1> DEFINE new == [ls EXCEPT ![l] = <<n>> \o @]
<1>1. /\ ls \in [ListId -> Seq(Node)] /\ ls[l] \in Seq(Node) /\ Len(ls[l]) \in Nat
  BY DEF Represents
<1>2. l = Around(ls[l], l, 1 - 1)
  BY DEF Around
<1>3. /\ new \in [ListId -> Seq(Node)] /\ IsPut(new[l], ls[l], 1, n)
      /\ \A m \in ListId \ {l} : new[m] = ls[m]
  <2>1. <<n>> \o ls[l] \in Seq(Node) /\ IsPut(<<n>> \o ls[l], ls[l], 1, n)
    BY <1>1, InsertIs DEF IsPut
  <2> QED BY <1>1, <2>1
<1> HIDE DEF new
<1>4. 1 \in 1 .. Len(ls[l]) + 1
  BY <1>1
<1> QED BY <1>2, <1>3, <1>4, InsertRepresents DEF InsertFirst, new

\* InsertAfter behind the head of l, or behind a node of l.
LEMMA InsertAfterRepresents ==
    ASSUME NEW h, NEW ls, Represents(h, ls), NEW n \in Node, ~NodeInList(h, n),
           NEW l \in ListId, NEW pos, pos = l \/ Has(ls[l], pos)
    PROVE  \E k \in 1 .. Len(ls[l]) + 1 :
              Represents(InsertAfter(h, l, pos, n),
                         [ls EXCEPT ![l] = SL!InsertAt(@, k, n)])
<1>1. ls \in [ListId -> Seq(Node)] /\ ls[l] \in Seq(Node) /\ Len(ls[l]) \in Nat
  BY DEF Represents
<1>2. PICK k \in 1 .. Len(ls[l]) + 1 : pos = Around(ls[l], l, k - 1)
  <2>1. CASE pos = l
    <3>1. 1 \in 1 .. Len(ls[l]) + 1 /\ pos = Around(ls[l], l, 1 - 1)
      BY <1>1, <2>1 DEF Around
    <3> QED BY <3>1
  <2>2. CASE Has(ls[l], pos)
    <3>1. PICK i \in 1 .. Len(ls[l]) : ls[l][i] = pos
      BY <2>2 DEF Has
    <3>2. i + 1 \in 1 .. Len(ls[l]) + 1 /\ (i + 1) - 1 = i
          /\ pos = Around(ls[l], l, i)
      BY <1>1, <3>1 DEF Around
    <3> QED BY <3>2
  <2> QED BY <2>1, <2>2
<1> DEFINE new == [ls EXCEPT ![l] = SL!InsertAt(@, k, n)]
<1>3. /\ new \in [ListId -> Seq(Node)] /\ IsPut(new[l], ls[l], k, n)
      /\ \A m \in ListId \ {l} : new[m] = ls[m]
  <2>1. /\ SL!InsertAt(ls[l], k, n) \in Seq(Node)
        /\ IsPut(SL!InsertAt(ls[l], k, n), ls[l], k, n)
    <3>1. IsPut(SL!InsertAt(ls[l], k, n), ls[l], k, n)
      BY <1>1, InsertIs
    <3> QED BY <3>1 DEF IsPut
  <2> QED BY <1>1, <2>1
<1> HIDE DEF new
<1>4. Represents(InsertAfter(h, l, pos, n), new)
  BY <1>2, <1>3, InsertRepresents
<1> QED BY <1>4 DEF new

\* What SequenceLists makes of the lists.
Ready(ls, n) == [Removed(ls, n) EXCEPT !["ready"] = Append(@, n)]
AtFront(ls, n) == [Removed(ls, n) EXCEPT !["suspended"] = <<n>> \o @]
Placed(ls, l, k, n) == [Removed(ls, n) EXCEPT ![l] = SL!InsertAt(@, k, n)]

LEMMA ResumedRepresents ==
    ASSUME NEW h, NEW ls, Represents(h, ls), NEW n \in Node, NodeInList(h, n)
    PROVE  Represents(Resumed(h, n), Ready(ls, n))
BY RemovedRepresents, InsertLastRepresents DEF Resumed, Ready, ListId

LEMMA SuspendedRepresents ==
    ASSUME NEW h, NEW ls, Represents(h, ls), NEW n \in Node, NodeInList(h, n)
    PROVE  Represents(InsertFirst(ListRemove(h, n), "suspended", n), AtFront(ls, n))
BY RemovedRepresents, InsertFirstRepresents DEF AtFront, ListId

LEMMA DelayedRepresents ==
    ASSUME NEW h, NEW ls, Represents(h, ls), NEW n \in Node, NodeInList(h, n),
           NEW l \in ListId, NEW pos,
           pos \in {l} \cup {m \in Node \ {n} : h.list[m] = l}
    PROVE  \E k \in 1 .. Len(Removed(ls, n)[l]) + 1 :
              Represents(InsertAfter(ListRemove(h, n), l, pos, n), Placed(ls, l, k, n))
<1>1. /\ Represents(ListRemove(h, n), Removed(ls, n))
      /\ ~NodeInList(ListRemove(h, n), n)
  BY RemovedRepresents
<1>2. pos = l \/ Has(Removed(ls, n)[l], pos)
  <2> SUFFICES ASSUME pos # l PROVE Has(Removed(ls, n)[l], pos)
    OBVIOUS
  <2>1. pos \in Node \ {n} /\ h.list[pos] = l
    OBVIOUS
  <2>2. h.list \in [Node -> ListId \cup {NULL}]
    BY DEF Represents, HeapTypes
  <2>3. ListRemove(h, n).list[pos] = l
    BY <2>1, <2>2 DEF ListRemove
  <2> QED BY <1>1, <2>1, <2>3 DEF Represents
<1> QED BY <1>1, <1>2, InsertAfterRepresents DEF Placed

\* A node that is created on the suspended list, and resumed, has come to the
\* end of the ready list.
LEMMA CreatedRepresents ==
    ASSUME NEW h, NEW ls, Represents(h, ls), NEW n \in Node, ~NodeInList(h, n)
    PROVE  Represents(Resumed(InsertLast(h, "suspended", n), n),
                      [ls EXCEPT !["ready"] = Append(@, n)])
<1> DEFINE g == InsertLast(h, "suspended", n)
<1> DEFINE mid == [ls EXCEPT !["suspended"] = Append(@, n)]
<1>1. /\ ls \in [ListId -> Seq(Node)] /\ HeapTypes(h)
      /\ \A l \in ListId : Injective(ls[l]) /\ ls[l] \in Seq(Node) /\ ~Has(ls[l], n)
  BY NodeAssumption DEF Represents, NodeInList, Cell
<1>2. Represents(g, mid)
  BY InsertLastRepresents DEF ListId
<1>3. NodeInList(g, n)
  <2>1. g.list[n] = "suspended"
    BY <1>1 DEF InsertLast, InsertAfter, HeapTypes
  <2> QED BY <2>1, NodeAssumption DEF NodeInList, Cell, ListId
<1>4. Represents(Resumed(g, n), Ready(mid, n))
  <2> HIDE DEF g, mid
  <2> QED BY <1>2, <1>3, ResumedRepresents
<1>5. Removed(mid, n) = ls
  <2>1. ASSUME NEW l \in ListId PROVE SL!Without(mid[l], n) = ls[l]
    <3>1. CASE l = "suspended"
      <4> DEFINE s == ls[l]
      <4>1. /\ s \in Seq(Node) /\ ~Has(s, n) /\ mid[l] = Append(s, n)
            /\ Len(s) \in Nat /\ Injective(s)
        BY <1>1, <3>1
      <4>2. /\ Append(s, n) \in Seq(Node) /\ Len(Append(s, n)) = Len(s) + 1
            /\ Append(s, n)[Len(s) + 1] = n
            /\ \A i \in 1 .. Len(s) : Append(s, n)[i] = s[i]
        BY <4>1
      <4>3. Injective(Append(s, n))
        BY <1>2, <4>1 DEF Represents
      <4> DEFINE e == Append(s, n)
      <4> DEFINE w == SL!Without(e, n)
      <4>4. IsCut(w, e, Len(s) + 1)
        <5>1. /\ e \in Seq(Node) /\ Injective(e) /\ Len(s) + 1 \in 1 .. Len(e)
              /\ e[Len(s) + 1] = n
          BY <4>1, <4>2, <4>3
        <5> HIDE DEF e
        <5> QED BY <5>1, WithoutIs
      <4> HIDE DEF w, s
      <4>5. w \in Seq(Node) /\ Len(w) = Len(s) /\ \A i \in 1 .. Len(s) : w[i] = s[i]
        BY <4>1, <4>2, <4>4 DEF IsCut
      <4>6. w = s
        BY <4>1, <4>5
      <4> QED BY <4>1, <4>6 DEF w, s
    <3>2. CASE l # "suspended"
      BY <1>1, <3>2, WithoutIs
    <3> QED BY <3>1, <3>2
  <2> QED BY <1>1, <2>1 DEF Removed
<1> QED BY <1>4, <1>5 DEF Ready

-----------------------------------------------------------------------------
(* The heap of every reachable state.                                        *)

HeapInv == Represents(heap, Sequences(heap))

LEMMA EmptyRepresents == Represents(EmptyHeap, [l \in ListId |-> <<>>])
<1> DEFINE ls == [l \in ListId |-> <<>>]
<1>1. ASSUME NEW l \in ListId, NEW i \in 0 .. Len(ls[l]) + 1
      PROVE  Around(ls[l], l, i) = l
  BY DEF Around
<1>2. ASSUME NEW l \in ListId
      PROVE  /\ IsRing(EmptyHeap.next, EmptyHeap.prev, ls[l], l)
             /\ EmptyHeap.length[l] = Len(ls[l]) /\ Injective(ls[l])
             /\ \A n \in Node : ~Has(ls[l], n)
  <2>1. l \in Cell /\ l \notin Node /\ Len(ls[l]) = 0
    BY NodeAssumption DEF Cell
  <2> QED BY <1>1, <2>1 DEF IsRing, EmptyHeap, Injective, Has
<1>3. HeapTypes(EmptyHeap)
  BY DEF HeapTypes, EmptyHeap, Cell
<1>4. \A n \in Node : EmptyHeap.list[n] = NULL
  BY DEF EmptyHeap
<1> QED BY <1>2, <1>3, <1>4, NodeAssumption DEF Represents, Cell

\* The ring of each list, from what it represents.
LEMMA RingsFollow ==
    ASSUME HeapInv, walk \in Walk
    PROVE  RingsOK
<1> DEFINE ls == Sequences(heap)
<1>1. /\ HeapTypes(heap) /\ ls \in [ListId -> Seq(Node)]
      /\ \A l \in ListId : /\ IsRing(heap.next, heap.prev, ls[l], l)
                           /\ heap.length[l] = Len(ls[l])
                           /\ Injective(ls[l]) /\ ls[l] \in Seq(Node)
                           /\ Len(ls[l]) \in Nat
      /\ \A l \in ListId, n \in Node : heap.list[n] = l <=> Has(ls[l], n)
  BY DEF HeapInv, Represents
<1>2. \A l \in ListId : ls[l] = SequenceOf(heap, l)
  BY DEF Sequences
<1> HIDE DEF ls
<1>3. ASSUME NEW c \in {n \in Node : NodeInList(heap, n)} \cup ListId
      PROVE  /\ heap.next[c] \in Cell /\ heap.prev[c] \in Cell
             /\ heap.prev[heap.next[c]] = c
  <2>1. \E l \in ListId : \E i \in 0 .. Len(ls[l]) : c = Around(ls[l], l, i)
    <3>1. CASE c \in ListId
      <4>1. 0 \in 0 .. Len(ls[c]) /\ c = Around(ls[c], c, 0)
        BY <1>1, <3>1 DEF Around
      <4> QED BY <3>1, <4>1
    <3>2. CASE c \in Node /\ NodeInList(heap, c)
      <4>1. heap.list[c] \in ListId
        BY <1>1, <3>2 DEF HeapTypes, NodeInList
      <4>2. PICK l \in ListId : heap.list[c] = l
        BY <4>1
      <4>3. PICK i \in 1 .. Len(ls[l]) : ls[l][i] = c
        BY <1>1, <3>2, <4>2 DEF Has
      <4>4. i \in 0 .. Len(ls[l]) /\ c = Around(ls[l], l, i)
        BY <1>1, <4>3 DEF Around
      <4> QED BY <4>4
    <3> QED BY <3>1, <3>2
  <2>1a. PICK l \in ListId : \E i \in 0 .. Len(ls[l]) : c = Around(ls[l], l, i)
    BY <2>1
  <2>1b. PICK i \in 0 .. Len(ls[l]) : c = Around(ls[l], l, i)
    BY <2>1a
  <2>2. ls[l] \in Seq(Node) /\ Len(ls[l]) \in Nat
    BY <1>1
  <2>3. /\ heap.next[c] = Around(ls[l], l, i + 1)
        /\ heap.prev[Around(ls[l], l, i + 1)] = c
    BY <1>1, <2>1b DEF IsRing
  <2>4. heap.prev[c] \in Cell
    <3>1. CASE i = 0
      <4>1. c = Around(ls[l], l, Len(ls[l]) + 1) /\ Len(ls[l]) \in 0 .. Len(ls[l])
        BY <2>1b, <2>2, <3>1 DEF Around
      <4>2. heap.prev[c] = Around(ls[l], l, Len(ls[l]))
        BY <1>1, <4>1 DEF IsRing
      <4> QED BY <2>2, <4>2, CellsAre
    <3>2. CASE i # 0
      <4>1. i - 1 \in 0 .. Len(ls[l]) /\ (i - 1) + 1 = i
        BY <2>2, <3>2
      <4>2. heap.prev[c] = Around(ls[l], l, i - 1)
        BY <1>1, <2>1b, <4>1 DEF IsRing
      <4> QED BY <2>2, <4>2, CellsAre
    <3> QED BY <3>1, <3>2
  <2> QED BY <2>2, <2>3, <2>4, CellsAre
<1>4. ASSUME NEW l \in ListId
      PROVE  /\ ToSet(ls[l]) = {n \in Node : heap.list[n] = l}
             /\ Cardinality({n \in Node : heap.list[n] = l}) = heap.length[l]
  <2> DEFINE S == {n \in Node : heap.list[n] = l}
  <2>1. ls[l] \in [1 .. Len(ls[l]) -> Node] /\ DOMAIN ls[l] = 1 .. Len(ls[l])
    BY <1>1
  <2>2. \A n : n \in S <=> n \in Node /\ Has(ls[l], n)
    BY <1>1
  <2>3. \A i \in 1 .. Len(ls[l]) : ls[l][i] \in S
    BY <2>1, <2>2 DEF Has
  <2>4. \A n \in S : \E i \in 1 .. Len(ls[l]) : ls[l][i] = n
    BY <2>2 DEF Has
  <2> HIDE DEF S
  <2>5. ToSet(ls[l]) = S
    BY <2>1, <2>3, <2>4 DEF ToSet
  <2>6. ls[l] \in Bijection(1 .. Len(ls[l]), S)
    <3>1. ls[l] \in [1 .. Len(ls[l]) -> S]
      BY <2>1, <2>3
    <3> QED BY <1>1, <2>1, <2>4, <3>1
            DEF Bijection, Injection, Surjection, IsInjective, Injective
  <2>7. Cardinality(S) = Len(ls[l])
    BY <1>1, <2>6, FS_CountingElements DEF ExistsBijection
  <2> QED BY <1>1, <2>5, <2>7 DEF S
<1> QED BY <1>2, <1>3, <1>4 DEF RingsOK

-----------------------------------------------------------------------------
(* A move leaves all other nodes where they are, and in their order.         *)

Kept(new, old, n) ==
    \A l \in ListId : \A a \in Node \ {n} :
        /\ Has(new[l], a) <=> Has(old[l], a)
        /\ \A b \in Node \ {n} : Before(old[l], a, b) => Before(new[l], a, b)

LEMMA CutOrder ==
    ASSUME NEW s \in Seq(Node), NEW k \in 1 .. Len(s), NEW w, IsCut(w, s, k),
           NEW a, NEW b, a # s[k], b # s[k], Before(s, a, b)
    PROVE  Before(w, a, b)
<1> DEFINE to(i) == IF i < k THEN i ELSE i - 1
<1>1. PICK i \in 1 .. Len(s), j \in 1 .. Len(s) : i < j /\ s[i] = a /\ s[j] = b
  BY DEF Before
<1>2. /\ Len(s) \in Nat /\ Len(w) = Len(s) - 1
      /\ \A m \in 1 .. Len(w) : w[m] = IF m < k THEN s[m] ELSE s[m + 1]
  BY DEF IsCut
<1>3. \A m \in 1 .. Len(s) : m # k => to(m) \in 1 .. Len(w) /\ w[to(m)] = s[m]
  BY <1>2
<1>4. i # k /\ j # k /\ to(i) < to(j)
  BY <1>1
<1> HIDE DEF to
<1> QED BY <1>1, <1>3, <1>4 DEF Before

LEMMA PutOrder ==
    ASSUME NEW s \in Seq(Node), NEW k \in 1 .. Len(s) + 1, NEW n,
           NEW w, IsPut(w, s, k, n), NEW a, NEW b, Before(s, a, b)
    PROVE  Before(w, a, b)
<1> DEFINE to(i) == IF i < k THEN i ELSE i + 1
<1>1. PICK i \in 1 .. Len(s), j \in 1 .. Len(s) : i < j /\ s[i] = a /\ s[j] = b
  BY DEF Before
<1>2. /\ Len(s) \in Nat /\ Len(w) = Len(s) + 1
      /\ \A m \in 1 .. Len(w) : w[m] = IF m < k THEN s[m] ELSE IF m = k THEN n ELSE s[m - 1]
  BY DEF IsPut
<1>3. \A m \in 1 .. Len(s) : to(m) \in 1 .. Len(w) /\ w[to(m)] = s[m]
  BY <1>2
<1>4. to(i) < to(j)
  BY <1>1
<1> HIDE DEF to
<1> QED BY <1>1, <1>3, <1>4 DEF Before

\* A list that n has left, if it was there.
LEMMA WithoutKeeps ==
    ASSUME NEW s \in Seq(Node), Injective(s), NEW n \in Node,
           NEW a \in Node \ {n}
    PROVE  /\ Has(SL!Without(s, n), a) <=> Has(s, a)
           /\ \A b \in Node \ {n} : Before(s, a, b) => Before(SL!Without(s, n), a, b)
<1>1. CASE ~Has(s, n)
  BY <1>1, WithoutIs
<1>2. CASE Has(s, n)
  <2>1. PICK k \in 1 .. Len(s) : s[k] = n
    BY <1>2 DEF Has
  <2>2. IsCut(SL!Without(s, n), s, k)
    BY <2>1, WithoutIs
  <2>3. Has(SL!Without(s, n), a) <=> Has(s, a)
    BY <2>1, <2>2, CutHas
  <2> QED BY <2>1, <2>2, <2>3, CutOrder
<1> QED BY <1>1, <1>2

LEMMA RemovedKeeps ==
    ASSUME NEW h, NEW ls, Represents(h, ls), NEW n \in Node
    PROVE  Kept(Removed(ls, n), ls, n)
<1>1. \A l \in ListId : ls[l] \in Seq(Node) /\ Injective(ls[l])
  BY DEF Represents
<1> QED BY <1>1, WithoutKeeps DEF Kept, Removed

\* One list that n comes to.
LEMMA PutKeeps ==
    ASSUME NEW h, NEW ls, Represents(h, ls), NEW n \in Node,
           NEW l \in ListId, ~Has(ls[l], n), NEW k \in 1 .. Len(ls[l]) + 1,
           NEW w, IsPut(w, ls[l], k, n)
    PROVE  Kept([ls EXCEPT ![l] = w], ls, n)
<1>1. ls \in [ListId -> Seq(Node)] /\ Injective(ls[l]) /\ ls[l] \in Seq(Node)
  BY DEF Represents
<1>2. ASSUME NEW a \in Node \ {n}
      PROVE  /\ Has(w, a) <=> Has(ls[l], a)
             /\ \A b \in Node \ {n} : Before(ls[l], a, b) => Before(w, a, b)
  BY <1>1, PutHas, PutOrder
<1> QED BY <1>1, <1>2 DEF Kept

LEMMA KeptTwice ==
    ASSUME NEW new, NEW mid, NEW old, NEW n, Kept(new, mid, n), Kept(mid, old, n)
    PROVE  Kept(new, old, n)
BY DEF Kept

\* The moves of SequenceLists.
LEMMA MovesKeep ==
    ASSUME NEW h, NEW ls, Represents(h, ls), NEW n \in Node, NodeInList(h, n)
    PROVE  /\ Kept(Ready(ls, n), ls, n)
           /\ Kept(AtFront(ls, n), ls, n)
           /\ \A l \in ListId : \A k \in 1 .. Len(Removed(ls, n)[l]) + 1 :
                 Kept(Placed(ls, l, k, n), ls, n)
<1> DEFINE mid == Removed(ls, n)
<1> DEFINE g == ListRemove(h, n)
<1>1. Represents(g, mid) /\ ~NodeInList(g, n)
  BY RemovedRepresents
<1>2. Kept(mid, ls, n)
  BY RemovedKeeps
<1> HIDE DEF mid, g
<1>3. ASSUME NEW l \in ListId
      PROVE  mid[l] \in Seq(Node) /\ Len(mid[l]) \in Nat /\ ~Has(mid[l], n)
  BY <1>1, NodeAssumption DEF Represents, NodeInList, Cell
<1>4. ASSUME NEW l \in ListId, NEW k \in 1 .. Len(mid[l]) + 1, NEW w,
             IsPut(w, mid[l], k, n)
      PROVE  Kept([mid EXCEPT ![l] = w], ls, n)
  BY <1>1, <1>2, <1>3, <1>4, PutKeeps, KeptTwice
<1>5. Kept(Ready(ls, n), ls, n)
  <2>1. /\ "ready" \in ListId /\ Len(mid["ready"]) + 1 \in 1 .. Len(mid["ready"]) + 1
        /\ mid["ready"] \in Seq(Node)
    BY <1>3 DEF ListId
  <2>2. IsPut(Append(mid["ready"], n), mid["ready"], Len(mid["ready"]) + 1, n)
    BY <2>1, InsertIs
  <2> QED BY <1>4, <2>1, <2>2 DEF Ready, mid
<1>6. Kept(AtFront(ls, n), ls, n)
  <2>1. /\ "suspended" \in ListId /\ 1 \in 1 .. Len(mid["suspended"]) + 1
        /\ mid["suspended"] \in Seq(Node)
    BY <1>3 DEF ListId
  <2>2. IsPut(<<n>> \o mid["suspended"], mid["suspended"], 1, n)
    BY <2>1, InsertIs
  <2> QED BY <1>4, <2>1, <2>2 DEF AtFront, mid
<1>7. ASSUME NEW l \in ListId, NEW k \in 1 .. Len(mid[l]) + 1
      PROVE  Kept(Placed(ls, l, k, n), ls, n)
  <2>1. mid[l] \in Seq(Node)
    BY <1>3
  <2>2. IsPut(SL!InsertAt(mid[l], k, n), mid[l], k, n)
    BY <2>1, InsertIs
  <2> QED BY <1>4, <2>2 DEF Placed, mid
<1> QED BY <1>5, <1>6, <1>7 DEF mid

-----------------------------------------------------------------------------
(* The moves in the heap of ResumeAll.                                       *)

\* Node n, and nobody else, was moved, or created.
Moves(n) ==
    /\ HeapInv'
    /\ Kept(Sequences(heap'), Sequences(heap), n)
    /\ NodeInList(heap', n)

LEMMA MoveIs ==
    ASSUME HeapInv, NEW n \in Node, NEW new, Represents(heap', new),
           Kept(new, Sequences(heap), n), NEW l \in ListId, Has(new[l], n)
    PROVE  Moves(n) /\ Sequences(heap)' = new
<1>1. Sequences(heap') = new
  BY SequencesAre
<1>2. heap'.list[n] = l
  BY DEF Represents
<1> QED BY <1>1, <1>2, NodeAssumption DEF Moves, HeapInv, NodeInList, Cell

\* Of everything but n, the list stays the same.
LEMMA OthersStay ==
    ASSUME HeapInv, NEW n \in Node, Moves(n), NEW u \in Node \ {n}
    PROVE  heap'.list[u] = heap.list[u]
<1>1. /\ HeapTypes(heap) /\ HeapTypes(heap')
      /\ \A l \in ListId : heap.list[u] = l <=> Has(Sequences(heap)[l], u)
      /\ \A l \in ListId : heap'.list[u] = l <=> Has(Sequences(heap')[l], u)
  BY DEF HeapInv, Represents, Moves
<1>2. \A l \in ListId : Has(Sequences(heap')[l], u) <=> Has(Sequences(heap)[l], u)
  BY DEF Moves, Kept
<1>3. heap.list[u] \in ListId \cup {NULL} /\ heap'.list[u] \in ListId \cup {NULL}
  BY <1>1 DEF HeapTypes
<1> QED BY <1>1, <1>2, <1>3

\* The nodes that have come somewhere.
LEMMA ArrivalIs ==
    ASSUME NEW old \in [ListId -> Seq(Node)], NEW l \in ListId, NEW n \in Node,
           NEW k \in 1 .. Len(old[l]) + 1, NEW w, IsPut(w, old[l], k, n)
    PROVE  Has([old EXCEPT ![l] = w][l], n)
<1>1. old[l] \in Seq(Node) /\ Len(old[l]) \in Nat /\ k \in 1 .. Len(w) /\ w[k] = n
  BY DEF IsPut
<1> QED BY <1>1 DEF Has

LEMMA ResumeMoves ==
    ASSUME HeapInv, NEW n \in Node, NodeInList(heap, n), heap' = Resumed(heap, n)
    PROVE  Moves(n) /\ Sequences(heap)' = Ready(Sequences(heap), n)
<1> DEFINE ls == Sequences(heap)
<1>1. Represents(heap, ls)
  BY DEF HeapInv
<1>2. Represents(heap', Ready(ls, n)) /\ Kept(Ready(ls, n), ls, n)
  BY <1>1, ResumedRepresents, MovesKeep
<1>3. /\ Removed(ls, n) \in [ListId -> Seq(Node)] /\ "ready" \in ListId
  BY <1>1, RemovedRepresents DEF Represents, ListId
<1>4. Has(Ready(ls, n)["ready"], n)
  <2> DEFINE mid == Removed(ls, n)
  <2>1. /\ mid \in [ListId -> Seq(Node)] /\ mid["ready"] \in Seq(Node)
        /\ Len(mid["ready"]) + 1 \in 1 .. Len(mid["ready"]) + 1
    BY <1>3
  <2> HIDE DEF mid
  <2>2. IsPut(Append(mid["ready"], n), mid["ready"], Len(mid["ready"]) + 1, n)
    BY <2>1, InsertIs
  <2> QED BY <1>3, <2>1, <2>2, ArrivalIs DEF Ready, mid
<1> QED BY <1>2, <1>3, <1>4, MoveIs

LEMMA SuspendMoves ==
    ASSUME HeapInv, NEW n \in Node, NodeInList(heap, n),
           heap' = InsertFirst(ListRemove(heap, n), "suspended", n)
    PROVE  Moves(n) /\ Sequences(heap)' = AtFront(Sequences(heap), n)
<1> DEFINE ls == Sequences(heap)
<1>1. Represents(heap, ls)
  BY DEF HeapInv
<1>2. Represents(heap', AtFront(ls, n)) /\ Kept(AtFront(ls, n), ls, n)
  BY <1>1, SuspendedRepresents, MovesKeep
<1>3. /\ Removed(ls, n) \in [ListId -> Seq(Node)] /\ "suspended" \in ListId
  BY <1>1, RemovedRepresents DEF Represents, ListId
<1>4. Has(AtFront(ls, n)["suspended"], n)
  <2> DEFINE mid == Removed(ls, n)
  <2>1. /\ mid \in [ListId -> Seq(Node)] /\ mid["suspended"] \in Seq(Node)
        /\ 1 \in 1 .. Len(mid["suspended"]) + 1
    BY <1>3
  <2> HIDE DEF mid
  <2>2. IsPut(<<n>> \o mid["suspended"], mid["suspended"], 1, n)
    BY <2>1, InsertIs
  <2> QED BY <1>3, <2>1, <2>2, ArrivalIs DEF AtFront, mid
<1> QED BY <1>2, <1>3, <1>4, MoveIs

LEMMA DelayMoves ==
    ASSUME HeapInv, NEW n \in Node, NodeInList(heap, n), NEW l \in ListId, NEW pos,
           pos \in {l} \cup {m \in Node \ {n} : heap.list[m] = l},
           heap' = InsertAfter(ListRemove(heap, n), l, pos, n)
    PROVE  /\ Moves(n)
           /\ \E k \in 1 .. Len(Removed(Sequences(heap), n)[l]) + 1 :
                 Sequences(heap)' = Placed(Sequences(heap), l, k, n)
<1> DEFINE ls == Sequences(heap)
<1>1. Represents(heap, ls)
  BY DEF HeapInv
<1>2. PICK k \in 1 .. Len(Removed(ls, n)[l]) + 1 : Represents(heap', Placed(ls, l, k, n))
  <2> HIDE DEF ls
  <2> QED BY <1>1, DelayedRepresents
<1>3. Kept(Placed(ls, l, k, n), ls, n)
  <2> HIDE DEF ls
  <2> QED BY <1>1, MovesKeep
<1>4. Removed(ls, n) \in [ListId -> Seq(Node)]
  BY <1>1, RemovedRepresents DEF Represents
<1>5. Has(Placed(ls, l, k, n)[l], n)
  <2> DEFINE mid == Removed(ls, n)
  <2>1. mid \in [ListId -> Seq(Node)] /\ mid[l] \in Seq(Node) /\ k \in 1 .. Len(mid[l]) + 1
    BY <1>4
  <2> HIDE DEF mid
  <2>2. IsPut(SL!InsertAt(mid[l], k, n), mid[l], k, n)
    BY <2>1, InsertIs
  <2> QED BY <2>1, <2>2, ArrivalIs DEF Placed, mid
<1> QED BY <1>2, <1>3, <1>5, MoveIs

LEMMA CreateMoves ==
    ASSUME HeapInv, NEW n \in Node, ~NodeInList(heap, n),
           heap' = Resumed(InsertLast(heap, "suspended", n), n)
    PROVE  /\ Moves(n)
           /\ Sequences(heap)' = [Sequences(heap) EXCEPT !["ready"] = Append(@, n)]
<1> DEFINE ls == Sequences(heap)
<1> DEFINE s == ls["ready"]
<1>1. Represents(heap, ls) /\ "ready" \in ListId
  BY DEF HeapInv, ListId
<1>2. /\ ls \in [ListId -> Seq(Node)] /\ s \in Seq(Node) /\ ~Has(s, n)
      /\ Len(s) + 1 \in 1 .. Len(s) + 1
  BY <1>1, NodeAssumption DEF Represents, NodeInList, Cell
<1> HIDE DEF ls
<1>3. Represents(heap', [ls EXCEPT !["ready"] = Append(s, n)])
  BY <1>1, CreatedRepresents
<1>4. IsPut(Append(s, n), s, Len(s) + 1, n)
  BY <1>2, InsertIs
<1>5. Kept([ls EXCEPT !["ready"] = Append(s, n)], ls, n)
  BY <1>1, <1>2, <1>4, PutKeeps
<1>6. Has([ls EXCEPT !["ready"] = Append(s, n)]["ready"], n)
  BY <1>1, <1>2, <1>4, ArrivalIs
<1> QED BY <1>1, <1>3, <1>5, <1>6, MoveIs DEF ls

-----------------------------------------------------------------------------
(* The walk.  As long as no handler moved the node that was read as the next *)
(* one, that node is on the list still, or is its end, and whoever is left   *)
(* to be resumed is behind it, or on a later list.                           *)

Reaches(w, h, u) ==
    \/ w.pc = "before" /\ u = w.node
    \/ \E j \in w.at + 1 .. Len(Walked) : h.list[u] = Walked[j]
    \/ u = w.next
    \/ Before(Sequences(h)[Walked[w.at]], w.next, u)

Going(w, h, waits) ==
    /\ w.pc \in {"before", "after"} /\ w.at \in 1 .. Len(Walked)
    /\ w.node # w.next
    /\ w.next = Walked[w.at] \/ (w.next \in Node /\ h.list[w.next] = Walked[w.at])
    /\ \A u \in waits : Reaches(w, h, u)

\* The walk holds nodes that were created.
Holds(w, h) ==
    w.pc # "idle" => /\ w.node \in Node /\ NodeInList(h, w.node)
                     /\ w.next \in Node => NodeInList(h, w.next)

WalkInv ==
    /\ walk \in Walk
    /\ left \subseteq Node \ Timers
    /\ Holds(walk, heap)
    /\ ~nextMoved => IF walk.pc = "idle" THEN left = {} ELSE Going(walk, heap, left)

ResumeInv == HeapInv /\ WalkInv

LEMMA WalkedIs ==
    /\ Len(Walked) = 3
    /\ \A j \in 1 .. 3 : Walked[j] \in ListId
    /\ ToSet(Walked) = {Walked[j] : j \in 1 .. 3}
BY DEF Walked, ListId, ToSet

\* A move of another node than the next one leaves the walk where it is.
LEMMA MoveKeepsGoing ==
    ASSUME HeapInv, NEW n \in Node, Moves(n), Going(walk, heap, left),
           walk.next # n, left \subseteq Node,
           NEW w, w.at = walk.at, w.node = walk.node, w.next = walk.next,
           w.pc = walk.pc \/ (w.pc = "after" /\ walk.node = n)
    PROVE  Going(w, heap', left \ {n})
<1>1. /\ Walked[walk.at] \in ListId /\ Walked[walk.at] \notin Node
      /\ walk.at \in 1 .. Len(Walked)
  BY WalkedIs, NodeAssumption DEF Going
<1>2. \A u \in Node \ {n} : heap'.list[u] = heap.list[u]
  BY OthersStay
<1>3. Sequences(heap)[Walked[walk.at]] \in Seq(Node)
  BY <1>1 DEF HeapInv, Represents
<1>4. ASSUME NEW u \in left \ {n} PROVE Reaches(w, heap', u)
  <2>1. Reaches(walk, heap, u) /\ u \in Node \ {n}
    BY DEF Going
  <2>2. CASE walk.pc = "before" /\ u = walk.node
    BY <2>2 DEF Reaches
  <2>3. CASE \E j \in walk.at + 1 .. Len(Walked) : heap.list[u] = Walked[j]
    BY <1>2, <2>3 DEF Reaches
  <2>4. CASE u = walk.next
    BY <2>4 DEF Reaches
  <2>5. CASE Before(Sequences(heap)[Walked[walk.at]], walk.next, u)
    <3>1. walk.next \in Node \ {n}
      BY <1>3, <2>5 DEF Before
    <3>2. Before(Sequences(heap')[Walked[walk.at]], walk.next, u)
      BY <1>1, <2>1, <2>5, <3>1 DEF Moves, Kept
    <3> QED BY <3>2 DEF Reaches
  <2> QED BY <2>1, <2>2, <2>3, <2>4, <2>5 DEF Reaches
<1>5. w.next = Walked[w.at] \/ (w.next \in Node /\ heap'.list[w.next] = Walked[w.at])
  BY <1>2 DEF Going
<1> QED BY <1>1, <1>4, <1>5 DEF Going

LEMMA MoveKeepsHolds ==
    ASSUME HeapInv, NEW n \in Node, Moves(n), Holds(walk, heap), walk.pc # "idle",
           NEW w, w.node = walk.node, w.next = walk.next
    PROVE  Holds(w, heap')
<1>1. \A u \in Node \ {n} : heap'.list[u] = heap.list[u]
  BY OthersStay
<1>2. \A u \in Node : NodeInList(heap, u) => NodeInList(heap', u)
  BY <1>1 DEF NodeInList, Moves
<1> QED BY <1>2 DEF Holds

-----------------------------------------------------------------------------
(* The steps of the walk.                                                    *)

\* The loop comes to a node: the next one is behind it, and so is everyone
\* who was, but that node.
LEMMA AtIs ==
    ASSUME HeapInv, NEW i \in 1 .. Len(Walked), NEW n \in Node, NodeInList(heap, n)
    PROVE  LET w == At(heap, i, n) IN
           /\ w \in Walk /\ Holds(w, heap) /\ w.pc = "before"
           /\ \A waits \in SUBSET Node :
                 /\ heap.list[n] = Walked[i]
                 /\ \A u \in waits : \/ u = n
                                     \/ Before(Sequences(heap)[Walked[i]], n, u)
                                     \/ \E j \in i + 1 .. Len(Walked) :
                                           heap.list[u] = Walked[j]
                 => Going(w, heap, waits)
<1> DEFINE ls == Sequences(heap)
<1> DEFINE w == At(heap, i, n)
<1>1. Represents(heap, ls) /\ Separate(ls) /\ ls \in [ListId -> Seq(Node)]
  BY ListsAreSeparate DEF HeapInv, Represents
<1>2. heap.list[n] \in ListId
  BY <1>1 DEF Represents, HeapTypes, NodeInList
<1>3. PICK l \in ListId : heap.list[n] = l
  BY <1>2
<1>4. PICK k \in 1 .. Len(ls[l]) : ls[l][k] = n
  BY <1>1, <1>3 DEF Represents, Has
<1> DEFINE next == Around(ls[l], l, k + 1)
<1>5. ls[l] \in Seq(Node) /\ Len(ls[l]) \in Nat
  BY <1>1
<1>6. heap.next[n] = next /\ next \in Cell
  BY <1>1, <1>4, <1>5, Neighbours, CellsAre
<1>7. next # n
  <2>1. k \in 1 .. Len(ls[l]) + 1 /\ k + 1 \in 1 .. Len(ls[l]) + 1 /\ k # k + 1
    BY <1>5
  <2>2. Around(ls[l], l, k) = n
    BY <1>4 DEF Around
  <2> HIDE DEF ls
  <2> QED BY <1>1, <2>1, <2>2, RingCellsDiffer
<1>8. next = l \/ (next \in Node /\ heap.list[next] = l)
  <2>1. CASE k + 1 \in 1 .. Len(ls[l])
    <3>1. next = ls[l][k + 1]
      BY <2>1 DEF Around
    <3> QED BY <1>1, <2>1, <3>1, Neighbours
  <2>2. CASE k + 1 \notin 1 .. Len(ls[l])
    BY <2>2 DEF Around
  <2> QED BY <2>1, <2>2
<1>9. /\ w.pc = "before" /\ w.at = i /\ w.node = n /\ w.next = next
      /\ w = [pc |-> "before", at |-> i, node |-> n, next |-> next]
  BY <1>6 DEF At
<1> HIDE DEF w
<1>10. w \in Walk
  BY <1>6, <1>9 DEF Walk
<1>11. Holds(w, heap)
  BY <1>3, <1>8, <1>9, NodeAssumption DEF Holds, NodeInList, Cell
<1>12. ASSUME NEW waits \in SUBSET Node, heap.list[n] = Walked[i],
              \A u \in waits : \/ u = n
                               \/ Before(ls[Walked[i]], n, u)
                               \/ \E j \in i + 1 .. Len(Walked) : heap.list[u] = Walked[j]
       PROVE  Going(w, heap, waits \ {n}) /\ \A u \in waits : Reaches(w, heap, u)
  <2>1. l = Walked[i]
    BY <1>3, <1>12
  <2>2. ASSUME NEW u \in waits PROVE Reaches(w, heap, u)
    <3>1. CASE u = n
      BY <1>9, <3>1 DEF Reaches
    <3>2. CASE Before(ls[l], n, u)
      <4>1. PICK a \in 1 .. Len(ls[l]), b \in 1 .. Len(ls[l]) :
                a < b /\ ls[l][a] = n /\ ls[l][b] = u
        BY <3>2 DEF Before
      <4>2. a = k
        BY <1>1, <1>4, <4>1 DEF Separate, Injective
      <4>3. k + 1 \in 1 .. Len(ls[l]) /\ next = ls[l][k + 1]
        BY <1>5, <4>1, <4>2 DEF Around
      <4>4. CASE b = k + 1
        BY <1>9, <4>1, <4>3, <4>4 DEF Reaches
      <4>5. CASE b > k + 1
        <5>1. Before(ls[l], next, u)
          BY <4>1, <4>3, <4>5 DEF Before
        <5> QED BY <1>9, <2>1, <5>1 DEF Reaches
      <4> QED BY <4>1, <4>2, <4>4, <4>5
    <3>3. CASE \E j \in i + 1 .. Len(Walked) : heap.list[u] = Walked[j]
      BY <1>9, <3>3 DEF Reaches
    <3> QED BY <1>12, <2>1, <3>1, <3>2, <3>3
  <2> QED BY <1>7, <1>8, <1>9, <2>1, <2>2 DEF Going
<1>13. ASSUME NEW waits \in SUBSET Node, heap.list[n] = Walked[i],
              \A u \in waits : \/ u = n
                               \/ Before(ls[Walked[i]], n, u)
                               \/ \E j \in i + 1 .. Len(Walked) : heap.list[u] = Walked[j]
       PROVE  Going(w, heap, waits)
  <2>1. Going(w, heap, waits \ {n}) /\ \A u \in waits : Reaches(w, heap, u)
    BY <1>12, <1>13
  <2> QED BY <2>1 DEF Going
<1> QED BY <1>9, <1>10, <1>11, <1>13 DEF w

\* The walk comes to the next list that is not empty, if there is one.
LEMMA WalkFromIs ==
    ASSUME HeapInv, NEW k \in 1 .. Len(Walked) + 1
    PROVE  LET w == WalkFrom(heap, k) IN
           /\ w \in Walk /\ Holds(w, heap)
           /\ \A waits \in SUBSET Node :
                 (\A u \in waits : \E j \in k .. Len(Walked) : heap.list[u] = Walked[j])
                 => IF w.pc = "idle" THEN waits = {} ELSE Going(w, heap, waits)
<1> DEFINE ls == Sequences(heap)
<1> DEFINE w == WalkFrom(heap, k)
<1> DEFINE full == {i \in k .. Len(Walked) : heap.next[Walked[i]] # Walked[i]}
<1>1. Represents(heap, ls) /\ Separate(ls) /\ ls \in [ListId -> Seq(Node)]
  BY ListsAreSeparate DEF HeapInv, Represents
<1>2. \A i \in 1 .. Len(Walked) : Walked[i] \in ListId /\ Walked[i] \notin Node
  BY WalkedIs, NodeAssumption
<1>3. ASSUME NEW l \in ListId
      PROVE  heap.next[l] = Around(ls[l], l, 1) /\ Len(ls[l]) \in Nat
  <2>1. /\ ls[l] \in Seq(Node) /\ Len(ls[l]) \in Nat /\ 0 \in 0 .. Len(ls[l])
        /\ IsRing(heap.next, heap.prev, ls[l], l)
    BY <1>1 DEF Represents
  <2>2. Around(ls[l], l, 0) = l /\ 0 + 1 = 1
    BY DEF Around
  <2> QED BY <2>1, <2>2 DEF IsRing
<1>4. ASSUME NEW u \in Node, NEW j \in k .. Len(Walked), heap.list[u] = Walked[j]
      PROVE  j \in full
  <2>1. j \in 1 .. Len(Walked) /\ Walked[j] \in ListId
    BY <1>2, WalkedIs
  <2>2. PICK i \in 1 .. Len(ls[Walked[j]]) : ls[Walked[j]][i] = u
    BY <1>1, <1>4, <2>1 DEF Represents, Has
  <2>3. 1 \in 1 .. Len(ls[Walked[j]]) /\ ls[Walked[j]] \in Seq(Node)
    BY <1>1, <2>1, <2>2
  <2>4. heap.next[Walked[j]] \in Node
    BY <1>3, <2>1, <2>3 DEF Around
  <2> QED BY <1>2, <2>1, <2>4
<1>5. CASE full = {}
  <2>1. w = Idle
    BY <1>5 DEF WalkFrom
  <2>2. w \in Walk /\ Holds(w, heap) /\ w.pc = "idle"
    BY <2>1 DEF Walk, Holds, Idle
  <2> HIDE DEF full, w
  <2> QED BY <1>4, <1>5, <2>2 DEF w
<1>6. CASE full # {}
  <2>1. full \in SUBSET Nat
    BY WalkedIs
  <2> DEFINE i == CHOOSE j \in full : \A other \in full : j <= other
  <2>2. i \in full /\ \A other \in full : i <= other
    <3> HIDE DEF full
    <3> QED BY <1>6, <2>1, LeastOf
  <2> DEFINE l == Walked[i]
  <2> DEFINE n == heap.next[l]
  <2>4. w = At(heap, i, n)
    BY <1>6 DEF WalkFrom
  <2> HIDE DEF i
  <2>5. i \in k .. Len(Walked) /\ i \in 1 .. Len(Walked) /\ l \in ListId /\ n # l
    BY <1>2, <2>2, WalkedIs
  <2>6. 1 \in 1 .. Len(ls[l]) /\ ls[l][1] = n /\ ls[l] \in Seq(Node)
    BY <1>1, <1>3, <2>5 DEF Around
  <2>7. n \in Node /\ heap.list[n] = l
    BY <1>1, <2>5, <2>6, Neighbours
  <2>8. NodeInList(heap, n)
    BY <2>5, <2>7, NodeAssumption DEF NodeInList, Cell
  <2>9. ASSUME NEW waits \in SUBSET Node,
               \A u \in waits : \E j \in k .. Len(Walked) : heap.list[u] = Walked[j],
               NEW u \in waits
        PROVE  \/ u = n
               \/ Before(ls[l], n, u)
               \/ \E j \in i + 1 .. Len(Walked) : heap.list[u] = Walked[j]
    <3>1. PICK j \in k .. Len(Walked) : heap.list[u] = Walked[j]
      BY <2>9
    <3>2. i <= j
      BY <1>4, <2>2, <3>1
    <3>3. CASE j = i
      <4>1. PICK b \in 1 .. Len(ls[l]) : ls[l][b] = u
        BY <1>1, <2>5, <3>1, <3>3 DEF Represents, Has
      <4> QED BY <2>6, <4>1 DEF Before
    <3>4. CASE j # i
      BY <2>5, <3>1, <3>2, <3>4
    <3> QED BY <3>3, <3>4
  <2> HIDE DEF w, n, l, full, ls
  <2>10. w \in Walk /\ Holds(w, heap) /\ w.pc = "before"
    BY <2>4, <2>5, <2>7, <2>8, AtIs
  <2>11. ASSUME NEW waits \in SUBSET Node,
               \A u \in waits : \E j \in k .. Len(Walked) : heap.list[u] = Walked[j]
         PROVE  Going(w, heap, waits)
    BY <2>4, <2>5, <2>7, <2>8, <2>9, <2>11, AtIs DEF l, ls
  <2> QED BY <2>10, <2>11 DEF w
<1> QED BY <1>5, <1>6

\* An iteration ends, after the task was resumed or the timer skipped.
LEMMA ContinueKeeps ==
    ASSUME HeapInv, WalkInv, Continue, UNCHANGED <<heap, left, nextMoved>>,
           walk.pc = "after" \/ (walk.pc = "before" /\ walk.node \in Timers)
    PROVE  WalkInv'
<1> DEFINE l == Walked[walk.at]
<1> DEFINE next == walk.next
<1>1. walk \in [pc : {"before", "after", "astray"}, at : 1 .. Len(Walked),
                node : Node, next : Cell]
  BY DEF WalkInv, Walk, Idle
<1>2. /\ walk.at \in 1 .. Len(Walked) /\ walk.node \in Node /\ next \in Cell
      /\ Holds(walk, heap) /\ left \subseteq Node \ Timers /\ walk.pc # "idle"
      /\ l \in ListId /\ l \notin Node
  BY <1>1, WalkedIs, NodeAssumption DEF WalkInv
<1>3. ASSUME ~nextMoved
      PROVE  /\ Going(walk, heap, left)
             /\ \A u \in left : \/ \E j \in walk.at + 1 .. Len(Walked) :
                                      heap.list[u] = Walked[j]
                                \/ u = next
                                \/ Before(Sequences(heap)[l], next, u)
  BY <1>2, <1>3 DEF WalkInv, Going, Reaches
<1>4. CASE next = l
  <2>1. walk' = WalkFrom(heap, walk.at + 1) /\ walk.at + 1 \in 1 .. Len(Walked) + 1
    BY <1>2, <1>4, WalkedIs DEF Continue, NextNode
  <2>2. ASSUME ~nextMoved, NEW u \in left
        PROVE  \E j \in walk.at + 1 .. Len(Walked) : heap.list[u] = Walked[j]
    <3>1. Sequences(heap)[l] \in Seq(Node)
      BY <1>2 DEF HeapInv, Represents
    <3>2. ~Before(Sequences(heap)[l], next, u)
      BY <1>2, <1>4, <3>1 DEF Before
    <3> QED BY <1>2, <1>3, <1>4, <2>2, <3>2
  <2>3. walk' \in Walk /\ Holds(walk', heap)
    BY <2>1, WalkFromIs
  <2>4. ~nextMoved => IF walk'.pc = "idle" THEN left = {} ELSE Going(walk', heap, left)
    BY <1>2, <2>1, <2>2, WalkFromIs
  <2> QED BY <1>2, <2>3, <2>4 DEF WalkInv
<1>5. CASE next # l /\ next \in ListId
  <2>1. walk' = [walk EXCEPT !.pc = "astray"]
    BY <1>5 DEF Continue, NextNode
  <2>2. nextMoved
    BY <1>3, <1>5, NodeAssumption DEF Going
  <2>3. walk' \in Walk /\ Holds(walk', heap)
    BY <1>1, <1>2, <2>1 DEF Walk, Holds
  <2> QED BY <1>2, <2>2, <2>3 DEF WalkInv
<1>6. CASE next \in Node
  <2>1. walk' = At(heap, walk.at, next)
    BY <1>2, <1>6, NodeAssumption DEF Continue, NextNode
  <2>2. NodeInList(heap, next)
    BY <1>2, <1>6 DEF Holds
  <2>3. walk' \in Walk /\ Holds(walk', heap) /\ walk'.pc = "before"
    BY <1>2, <1>6, <2>1, <2>2, AtIs
  <2>4. ASSUME ~nextMoved PROVE Going(walk', heap, left)
    <3>1. heap.list[next] = Walked[walk.at]
      BY <1>2, <1>3, <1>6, <2>4 DEF Going
    <3>2. left \in SUBSET Node
      BY <1>2
    <3> QED BY <1>2, <1>3, <1>6, <2>1, <2>2, <2>4, <3>1, <3>2, AtIs
  <2> QED BY <1>2, <2>3, <2>4 DEF WalkInv
<1> QED BY <1>2, <1>4, <1>5, <1>6 DEF Cell

-----------------------------------------------------------------------------
(* The invariant.                                                            *)

\* A move by a task or a handler.
LEMMA TouchKeeps ==
    ASSUME HeapInv, WalkInv, NEW n \in Node, Moves(n), Touch(n)
    PROVE  WalkInv'
<1>1. /\ walk' = walk /\ left' = left \ {n}
      /\ ~nextMoved' => ~nextMoved /\ walk.next # n
  BY DEF Touch
<1>2. walk \in Walk /\ left \subseteq Node \ Timers /\ Holds(walk, heap)
  BY DEF WalkInv
<1>3. Holds(walk, heap')
  BY <1>2, MoveKeepsHolds DEF Holds
<1>4. ASSUME ~nextMoved', walk.pc # "idle" PROVE Going(walk, heap', left \ {n})
  BY <1>1, <1>2, <1>4, MoveKeepsGoing DEF WalkInv
<1>5. ASSUME ~nextMoved', walk.pc = "idle" PROVE left \ {n} = {}
  BY <1>1, <1>5 DEF WalkInv
<1> QED BY <1>1, <1>2, <1>3, <1>4, <1>5 DEF WalkInv

\* The walk resumes its task.
LEMMA ResumeNodeKeeps ==
    ASSUME HeapInv, WalkInv, ResumeNode
    PROVE  WalkInv' /\ NodeInList(heap, walk.node) /\ walk.node \in Node
<1> DEFINE n == walk.node
<1>1. /\ walk.pc = "before" /\ heap' = Resumed(heap, n) /\ left' = left \ {n}
      /\ walk' = [walk EXCEPT !.pc = "after"] /\ nextMoved' = nextMoved
  BY DEF ResumeNode
<1>2. /\ walk \in [pc : {"before", "after", "astray"}, at : 1 .. Len(Walked),
                   node : Node, next : Cell]
      /\ left \subseteq Node \ Timers /\ Holds(walk, heap)
  BY <1>1 DEF WalkInv, Walk, Idle
<1>3. n \in Node /\ NodeInList(heap, n)
  BY <1>1, <1>2 DEF Holds
<1>4. Moves(n)
  BY <1>1, <1>3, ResumeMoves
<1>5. /\ walk' \in Walk /\ walk'.pc = "after" /\ walk'.at = walk.at
      /\ walk'.node = walk.node /\ walk'.next = walk.next
  BY <1>1, <1>2 DEF Walk
<1>6. Holds(walk', heap')
  BY <1>1, <1>2, <1>3, <1>4, <1>5, MoveKeepsHolds
<1>7. ASSUME ~nextMoved PROVE Going(walk', heap', left \ {n})
  <2>1. Going(walk, heap, left)
    BY <1>1, <1>7 DEF WalkInv
  <2>2. walk.next # n /\ left \subseteq Node
    BY <1>2, <2>1 DEF Going
  <2> QED BY <1>3, <1>4, <1>5, <2>1, <2>2, MoveKeepsGoing
<1> QED BY <1>1, <1>2, <1>3, <1>5, <1>6, <1>7 DEF WalkInv

\* task_resume_all() is called.
LEMMA CallKeeps ==
    ASSUME HeapInv, WalkInv, TaskResumeAll
    PROVE  WalkInv'
<1>1. /\ walk' = WalkFrom(heap, 1) /\ heap' = heap /\ ~nextMoved'
      /\ left' = {n \in Node \ Timers : heap.list[n] \in ToSet(Walked)}
  BY DEF TaskResumeAll
<1>2. 1 \in 1 .. Len(Walked) + 1
  BY WalkedIs
<1>3. \A u \in left' : \E j \in 1 .. Len(Walked) : heap.list[u] = Walked[j]
  BY <1>1, WalkedIs
<1>4. walk' \in Walk /\ Holds(walk', heap)
  BY <1>1, <1>2, WalkFromIs
<1>5. left' \in SUBSET Node /\ left' \subseteq Node \ Timers
  BY <1>1
<1>6. IF walk'.pc = "idle" THEN left' = {} ELSE Going(walk', heap, left')
  BY <1>1, <1>2, <1>3, <1>5, WalkFromIs
<1> QED BY <1>1, <1>4, <1>5, <1>6 DEF WalkInv

\* Where a move can go.
LEMMA MoveStep ==
    ASSUME HeapInv, NEW n \in Node,
           \/ ~NodeInList(heap, n) /\ TaskCreate(n)
           \/ /\ NodeInList(heap, n)
              /\ \/ TaskResume(n)
                 \/ TaskSuspend(n)
                 \/ \E l \in {"delayed0", "delayed1"} : \E pos \in Node \cup {l} :
                       Delay(n, l, pos)
    PROVE  Moves(n) /\ Touch(n)
<1>1. CASE ~NodeInList(heap, n) /\ TaskCreate(n)
  BY <1>1, CreateMoves DEF TaskCreate
<1>2. CASE NodeInList(heap, n) /\ TaskResume(n)
  BY <1>2, ResumeMoves DEF TaskResume
<1>3. CASE NodeInList(heap, n) /\ TaskSuspend(n)
  BY <1>3, SuspendMoves DEF TaskSuspend
<1>4. ASSUME NodeInList(heap, n), NEW l \in {"delayed0", "delayed1"},
             NEW pos \in Node \cup {l}, Delay(n, l, pos)
      PROVE  Moves(n) /\ Touch(n)
  BY <1>4, DelayMoves DEF Delay, ListId
<1> QED BY <1>1, <1>2, <1>3, <1>4

LEMMA ResumeInvInit == Init => ResumeInv
<1> SUFFICES ASSUME Init PROVE ResumeInv
  OBVIOUS
<1>1. heap = EmptyHeap /\ walk = Idle /\ left = {}
  BY DEF Init
<1>2. Sequences(heap) = [l \in ListId |-> <<>>]
  BY <1>1, EmptyRepresents, SequencesAre
<1>3. HeapInv
  BY <1>1, <1>2, EmptyRepresents DEF HeapInv
<1>4. WalkInv
  BY <1>1 DEF WalkInv, Walk, Idle, Holds
<1> QED BY <1>3, <1>4 DEF ResumeInv

LEMMA ResumeInvNext == ResumeInv /\ [Next]_vars => ResumeInv'
<1> SUFFICES ASSUME HeapInv, WalkInv, [Next]_vars
             PROVE  HeapInv' /\ WalkInv'
  BY DEF ResumeInv
<1>1. CASE TaskResumeAll
  <2>1. HeapInv'
    BY <1>1 DEF TaskResumeAll, HeapInv
  <2> QED BY <1>1, <2>1, CallKeeps
<1>2. CASE SkipTimer
  <2>1. HeapInv'
    BY <1>2 DEF SkipTimer, HeapInv
  <2> QED BY <1>2, <2>1, ContinueKeeps DEF SkipTimer
<1>3. CASE ResumeNode
  <2>1. WalkInv' /\ NodeInList(heap, walk.node) /\ walk.node \in Node
    BY <1>3, ResumeNodeKeeps
  <2>2. Moves(walk.node)
    BY <1>3, <2>1, ResumeMoves DEF ResumeNode
  <2> QED BY <2>1, <2>2 DEF Moves
<1>4. CASE NextIteration
  <2>1. HeapInv'
    BY <1>4 DEF NextIteration, HeapInv
  <2> QED BY <1>4, <2>1, ContinueKeeps DEF NextIteration
<1>5. ASSUME NEW n \in Node,
             \/ ~NodeInList(heap, n) /\ TaskCreate(n)
             \/ /\ NodeInList(heap, n)
                /\ \/ TaskResume(n)
                   \/ TaskSuspend(n)
                   \/ \E l \in {"delayed0", "delayed1"} : \E pos \in Node \cup {l} :
                         Delay(n, l, pos)
      PROVE  HeapInv' /\ WalkInv'
  <2>1. Moves(n) /\ Touch(n)
    BY <1>5, MoveStep
  <2> QED BY <2>1, TouchKeeps DEF Moves
<1>6. CASE UNCHANGED vars
  BY <1>6 DEF vars, HeapInv, WalkInv
<1> QED BY <1>1, <1>2, <1>3, <1>4, <1>5, <1>6 DEF Next

\* The heap stands for sequences of nodes at every moment, and the walk of
\* task_resume_all() has everybody who is left to be resumed ahead of it.
THEOREM ResumeInvariantHolds == Spec => []ResumeInv
<1> QED BY ResumeInvInit, ResumeInvNext, PTL DEF Spec

\* prev undoes next, each node is on the list that it names, and length
\* counts it, however insertions and removals follow one another (lines
\* 859-920), for any number of nodes that the counter can count.
THEOREM RingsHold == Spec => []RingsOK
<1>1. ResumeInv => RingsOK
  BY RingsFollow DEF ResumeInv, WalkInv
<1> QED BY <1>1, ResumeInvariantHolds, PTL

\* task_resume_all() resumes everybody that no handler moved meanwhile, and
\* comes to its end, unless a handler moves the node it is about to go to.
THEOREM EverybodyIsResumed == Spec => []ResumesAll
<1>1. ResumeInv => ResumesAll
  BY DEF ResumeInv, WalkInv, Going, ResumesAll
<1> QED BY <1>1, ResumeInvariantHolds, PTL

-----------------------------------------------------------------------------
(* The refinement of SequenceLists.                                          *)

LEMMA ListsAre ==
    ASSUME HeapInv
    PROVE  /\ [l \in ListId |-> SequenceOf(heap, l)] = Sequences(heap)
           /\ \A n \in Node : SL!Listed(n) <=> NodeInList(heap, n)
           /\ \A n \in Node : SL!Removed(n) = Removed(Sequences(heap), n)
<1>1. [l \in ListId |-> SequenceOf(heap, l)] = Sequences(heap)
  BY DEF Sequences
<1>2. ASSUME NEW n \in Node PROVE SL!Listed(n) <=> NodeInList(heap, n)
  <2>1. SL!Listed(n) <=> \E l \in ListId : Has(Sequences(heap)[l], n)
    BY DEF SL!Listed, SL!Contains, Has, Sequences
  <2>2. \A l \in ListId : heap.list[n] = l <=> Has(Sequences(heap)[l], n)
    BY DEF HeapInv, Represents
  <2>3. heap.list[n] \in ListId \cup {NULL}
    BY DEF HeapInv, Represents, HeapTypes
  <2> QED BY <2>1, <2>2, <2>3, NodeAssumption DEF NodeInList, Cell
<1>3. ASSUME NEW n \in Node PROVE SL!Removed(n) = Removed(Sequences(heap), n)
  BY DEF SL!Removed, Removed, Sequences
<1> QED BY <1>1, <1>2, <1>3

LEMMA MoveRefines ==
    ASSUME HeapInv, NEW n \in Node,
           \/ ~NodeInList(heap, n) /\ TaskCreate(n)
           \/ NodeInList(heap, n) /\ heap' = Resumed(heap, n)
           \/ NodeInList(heap, n) /\ TaskSuspend(n)
           \/ \E l \in {"delayed0", "delayed1"} : \E pos \in Node \cup {l} :
                 NodeInList(heap, n) /\ Delay(n, l, pos)
    PROVE  SL!Next
<1>1. CASE ~NodeInList(heap, n) /\ TaskCreate(n)
  <2>1. Sequences(heap)' = [Sequences(heap) EXCEPT !["ready"] = Append(@, n)]
    BY <1>1, CreateMoves DEF TaskCreate
  <2>2. SL!Create(n)
    BY <1>1, <2>1, ListsAre DEF SL!Create, Sequences
  <2> QED BY <2>2 DEF SL!Next
<1>2. CASE NodeInList(heap, n) /\ heap' = Resumed(heap, n)
  <2>1. Sequences(heap)' = Ready(Sequences(heap), n)
    BY <1>2, ResumeMoves
  <2>2. SL!Resume(n)
    BY <1>2, <2>1, ListsAre DEF SL!Resume, Sequences, Ready
  <2> QED BY <2>2 DEF SL!Next
<1>3. CASE NodeInList(heap, n) /\ TaskSuspend(n)
  <2>1. Sequences(heap)' = AtFront(Sequences(heap), n)
    BY <1>3, SuspendMoves DEF TaskSuspend
  <2>2. SL!Suspend(n)
    BY <1>3, <2>1, ListsAre DEF SL!Suspend, Sequences, AtFront
  <2> QED BY <2>2 DEF SL!Next
<1>4. ASSUME NEW l \in {"delayed0", "delayed1"}, NEW pos \in Node \cup {l},
             NodeInList(heap, n), Delay(n, l, pos)
      PROVE  SL!Next
  <2>1. /\ pos \in {l} \cup {m \in Node \ {n} : heap.list[m] = l}
        /\ heap' = InsertAfter(ListRemove(heap, n), l, pos, n) /\ l \in ListId
    BY <1>4 DEF Delay, ListId
  <2>2. PICK k \in 1 .. Len(Removed(Sequences(heap), n)[l]) + 1 :
            Sequences(heap)' = Placed(Sequences(heap), l, k, n)
    BY <1>4, <2>1, DelayMoves
  <2>3. SL!Delay(n)
    BY <1>4, <2>2, ListsAre DEF SL!Delay, Sequences, Placed
  <2> QED BY <2>3 DEF SL!Next
<1> QED BY <1>1, <1>2, <1>3, <1>4

\* The list functions do to the pointers what SequenceLists says of sequences:
\* one node moves, and the others keep their order, in every step of every
\* handler in the middle of the walk (lines 859-920).
THEOREM ListsAreSequences == Spec => ImplementsSequences
<1>1. Init => SL!Init
  <2> SUFFICES ASSUME Init PROVE SL!Init
    OBVIOUS
  <2>1. Sequences(heap) = [l \in ListId |-> <<>>]
    BY EmptyRepresents, SequencesAre DEF Init
  <2> QED BY <2>1 DEF SL!Init, Sequences, ListId
<1>2. ResumeInv /\ [Next]_vars => [SL!Next]_(Sequences(heap))
  <2> SUFFICES ASSUME HeapInv, WalkInv, [Next]_vars
               PROVE  SL!Next \/ UNCHANGED Sequences(heap)
    BY DEF ResumeInv
  <2>1. CASE TaskResumeAll
    BY <2>1 DEF TaskResumeAll
  <2>2. CASE SkipTimer
    BY <2>2 DEF SkipTimer
  <2>3. CASE ResumeNode
    <3>1. NodeInList(heap, walk.node) /\ walk.node \in Node
          /\ heap' = Resumed(heap, walk.node)
      BY <2>3, ResumeNodeKeeps DEF ResumeNode
    <3> QED BY <3>1, MoveRefines
  <2>4. CASE NextIteration
    BY <2>4 DEF NextIteration
  <2>5. ASSUME NEW n \in Node,
               \/ ~NodeInList(heap, n) /\ TaskCreate(n)
               \/ NodeInList(heap, n) /\ TaskResume(n)
               \/ NodeInList(heap, n) /\ TaskSuspend(n)
               \/ \E l \in {"delayed0", "delayed1"} : \E pos \in Node \cup {l} :
                     NodeInList(heap, n) /\ Delay(n, l, pos)
        PROVE  SL!Next
    BY <2>5, MoveRefines DEF TaskResume
  <2>6. CASE UNCHANGED vars
    BY <2>6 DEF vars
  <2> QED BY <2>1, <2>2, <2>3, <2>4, <2>5, <2>6 DEF Next
<1>3. [SL!Next]_(Sequences(heap)) => [SL!Next]_([l \in ListId |-> SequenceOf(heap, l)])
  BY DEF Sequences
<1> QED BY <1>1, <1>2, <1>3, ResumeInvariantHolds, PTL
        DEF Spec, ImplementsSequences, SL!Spec
=============================================================================
