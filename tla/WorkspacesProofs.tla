-------------------------- MODULE WorkspacesProofs --------------------------
(***************************************************************************)
(* Proofs about Workspaces for any use of the server.                      *)
(***************************************************************************)
EXTENDS Workspaces, SequenceTheorems, FiniteSetTheorems, WellFoundedInduction, TLAPS

\* No element is twice in the sequence.
Once(s) == \A i, j \in DOMAIN s : s[i] = s[j] => i = j

TabRecord ==
    [number : Nat, root : Nat, layout : Seq(Nat), focus : Nat, zoomed : BOOLEAN, panes : SUBSET Nat]

\* A tab's layout has its panes, each once; its focus and its root are among them.
TabOK(t) ==
    /\ t \in TabRecord /\ Once(t.layout) /\ ToSet(t.layout) = t.panes
    /\ t.focus \in t.panes /\ t.root \in t.panes

\* Tabs of a workspace have different numbers and no common pane.
TabsOK(s) ==
    /\ s \in Seq(TabRecord) /\ \A i \in DOMAIN s : TabOK(s[i])
    /\ \A i, j \in DOMAIN s : i # j => s[i].number # s[j].number /\ s[i].panes \cap s[j].panes = {}

PanesIn(s) == UNION {s[t].panes : t \in DOMAIN s}

\* Public numbers: each once, below the next one.
NumberMap == UNION {[D -> Nat] : D \in SUBSET Nat}
NumbersOK(f, D, n) ==
    /\ f \in NumberMap /\ DOMAIN f = D
    /\ \A p, q \in D : f[p] = f[q] => p = q
    /\ \A p \in D : f[p] < n

SpaceRecord ==
    [id : Nat, tabs : Seq(TabRecord), active_tab : Nat, numbers : NumberMap,
     next_pane : Nat, next_tab : Nat, space : {"none", "main", "linked"}]

\* A workspace whose numbers go up to N.  The panes X are numbered in it, but in
\* none of its tabs: they are on the way out, in, or to another tab.
SpaceOK(w, X, N) ==
    /\ w \in SpaceRecord /\ TabsOK(w.tabs)
    /\ w.tabs # <<>> => w.active_tab \in DOMAIN w.tabs
    /\ X \cap PanesIn(w.tabs) = {}
    /\ NumbersOK(w.numbers, PanesIn(w.tabs) \cup X, w.next_pane)
    /\ \A t \in DOMAIN w.tabs : w.tabs[t].number \in 1 .. w.next_tab - 1
    /\ w.next_pane \in 1 .. N + 1 /\ w.next_tab \in 1 .. N + 1

\* w is what became of v: panes keep their numbers, and no number is used again.
Kin(v, w) ==
    /\ w.id = v.id /\ v.next_pane <= w.next_pane
    /\ \A p \in DOMAIN w.numbers :
          IF p \in DOMAIN v.numbers THEN w.numbers[p] = v.numbers[p] ELSE v.next_pane <= w.numbers[p]

-----------------------------------------------------------------------------
(* Numbers and sequences.                                                  *)

\* A set of naturals that is not empty has a least element.
LEMMA LeastNumber ==
    ASSUME NEW N, N \subseteq Nat, N # {}
    PROVE  \E n \in N : \A m \in N : n <= m
<1> DEFINE R == OpToRel(<, Nat)
<1>1. IsWellFoundedOn(R, Nat)
  BY NatLessThanWellFounded
<1> HIDE DEF R
<1>2. PICK n \in N : \A m \in N : ~(<<m, n>> \in R)
  BY <1>1, WFMin
<1>3. \A m \in N : ~(m < n)
  BY <1>2 DEF R, OpToRel
<1>4. QED
  BY <1>3

\* A set of positions that is not empty has a first and a last one.
LEMMA FirstPosition ==
    ASSUME NEW n \in Nat, NEW P, P \subseteq 1 .. n, P # {}
    PROVE  Min(P) \in P /\ \A k \in P : Min(P) <= k
<1>1. P \subseteq Nat
  OBVIOUS
<1>2. \E i \in P : \A k \in P : i <= k
  BY <1>1, LeastNumber
<1>3. QED
  BY <1>2 DEF Min

LEMMA HighestNumber ==
    ASSUME NEW n \in Nat, NEW P, P \subseteq 0 .. n, P # {}
    PROVE  Max(P) \in P /\ \A k \in P : Max(P) >= k
<1> DEFINE Q == {m \in Nat : n - m \in P}
<1>1. Q # {}
  <2>1. PICK k \in P : TRUE
    OBVIOUS
  <2>2. n - k \in Q
    OBVIOUS
  <2>3. QED
    BY <2>2
<1>2. PICK m \in Q : \A k \in Q : m <= k
  BY <1>1, LeastNumber
<1>3. \A k \in P : n - m >= k
  <2>1. SUFFICES ASSUME NEW k \in P PROVE n - m >= k
    OBVIOUS
  <2>2. n - k \in Q /\ k \in Nat /\ m \in Nat
    OBVIOUS
  <2>3. m <= n - k
    BY <1>2, <2>2
  <2>4. QED
    BY <2>2, <2>3
<1>4. n - m \in P
  OBVIOUS
<1>5. QED
  BY <1>3, <1>4 DEF Max

LEMMA LastPosition ==
    ASSUME NEW n \in Nat, NEW P, P \subseteq 1 .. n, P # {}
    PROVE  Max(P) \in P /\ \A k \in P : Max(P) >= k
<1>1. P \subseteq 0 .. n
  OBVIOUS
<1>2. QED
  BY <1>1, HighestNumber

\* What holds of 0 and of every next number holds of all up to n.
LEMMA UpTo ==
    ASSUME NEW n \in Nat, NEW G, 0 \in G, \A k \in 0 .. n - 1 : k \in G => k + 1 \in G
    PROVE  \A k \in 0 .. n : k \in G
<1> DEFINE N == {k \in Nat : k <= n /\ k \notin G}
<1>1. ASSUME N # {} PROVE FALSE
  <2>1. PICK k \in N : \A m \in N : k <= m
    BY <1>1, LeastNumber
  <2>2. k # 0 /\ k - 1 \in 0 .. n - 1
    BY <2>1
  <2>3. k - 1 \notin N
    BY <2>1, <2>2
  <2>4. k - 1 \in G
    BY <2>2, <2>3
  <2>5. k - 1 + 1 \in G
    BY <2>2, <2>4
  <2>6. QED
    BY <2>1, <2>2, <2>5
<1>2. QED
  BY <1>1

\* RemoveAt leaves the others in their order.
LEMMA RemoveAtFacts ==
    ASSUME NEW T, NEW s \in Seq(T), NEW p \in 1 .. Len(s)
    PROVE  /\ RemoveAt(s, p) \in Seq(T) /\ Len(RemoveAt(s, p)) = Len(s) - 1
           /\ DOMAIN RemoveAt(s, p) = 1 .. Len(s) - 1
           /\ \A k \in 1 .. Len(s) - 1 : RemoveAt(s, p)[k] = IF k < p THEN s[k] ELSE s[k + 1]
<1> DEFINE a == SubSeq(s, 1, p - 1)
           b == SubSeq(s, p + 1, Len(s))
           r == a \o b
<1>1. a \in Seq(T) /\ Len(a) = p - 1 /\ \A i \in 1 .. p - 1 : a[i] = s[i]
  BY SubSeqProperties
<1>2. b \in Seq(T) /\ Len(b) = Len(s) - p /\ \A i \in 1 .. Len(s) - p : b[i] = s[i + p]
  BY SubSeqProperties
<1>3. RemoveAt(s, p) = r
  BY DEF RemoveAt
<1> HIDE DEF a, b
<1>4. r \in Seq(T) /\ Len(r) = Len(s) - 1
  <2>1. r \in Seq(T) /\ Len(r) = Len(a) + Len(b)
    BY <1>1, <1>2, ConcatProperties
  <2>2. Len(s) \in Nat /\ p \in Nat
    OBVIOUS
  <2> HIDE DEF r
  <2>3. QED
    BY <1>1, <1>2, <2>1, <2>2
<1>5. \A k \in 1 .. Len(s) - 1 : r[k] = IF k < p THEN s[k] ELSE s[k + 1]
  BY <1>1, <1>2, <1>4, ConcatProperties
<1> HIDE DEF r
<1>6. DOMAIN r = 1 .. Len(s) - 1
  BY <1>4
<1>7. QED
  BY <1>3, <1>4, <1>5, <1>6

LEMMA RemoveAtOnce ==
    ASSUME NEW T, NEW s \in Seq(T), NEW p \in 1 .. Len(s), Once(s)
    PROVE  Once(RemoveAt(s, p)) /\ ToSet(RemoveAt(s, p)) = ToSet(s) \ {s[p]}
<1> DEFINE r == RemoveAt(s, p)
<1>1. /\ r \in Seq(T) /\ DOMAIN r = 1 .. Len(s) - 1 /\ Len(s) \in Nat /\ DOMAIN s = 1 .. Len(s)
      /\ \A k \in 1 .. Len(s) - 1 : r[k] = IF k < p THEN s[k] ELSE s[k + 1]
  BY RemoveAtFacts
<1> HIDE DEF r
<1>2. \A k, l \in 1 .. Len(s) : s[k] = s[l] => k = l
  BY <1>1 DEF Once
<1>3. Once(r)
  <2>1. SUFFICES ASSUME NEW i \in 1 .. Len(s) - 1, NEW j \in 1 .. Len(s) - 1, r[i] = r[j] PROVE i = j
    BY <1>1 DEF Once
  <2>2. \A k \in 1 .. Len(s) - 1 : k \in 1 .. Len(s) /\ k + 1 \in 1 .. Len(s)
    BY <1>1
  <2>3. CASE i < p /\ j < p
    BY <1>1, <1>2, <2>1, <2>2, <2>3
  <2>4. CASE ~(i < p) /\ ~(j < p)
    <3>1. i + 1 = j + 1
      BY <1>1, <1>2, <2>1, <2>2, <2>4
    <3>2. QED
      BY <2>1, <3>1
  <2>5. CASE i < p /\ ~(j < p)
    <3>1. i = j + 1
      BY <1>1, <1>2, <2>1, <2>2, <2>5
    <3>2. QED
      BY <2>1, <2>5, <3>1
  <2>6. CASE ~(i < p) /\ j < p
    <3>1. i + 1 = j
      BY <1>1, <1>2, <2>1, <2>2, <2>6
    <3>2. QED
      BY <2>1, <2>6, <3>1
  <2>7. QED
    BY <2>3, <2>4, <2>5, <2>6
<1>4. ToSet(r) \subseteq ToSet(s) \ {s[p]}
  <2>1. SUFFICES ASSUME NEW i \in 1 .. Len(s) - 1 PROVE r[i] \in ToSet(s) /\ r[i] # s[p]
    BY <1>1 DEF ToSet
  <2>2. \A k \in 1 .. Len(s) : s[k] \in ToSet(s) /\ (s[k] = s[p] => k = p)
    BY <1>1, <1>2 DEF ToSet
  <2>3. CASE i < p
    <3>1. i \in 1 .. Len(s) /\ i # p /\ r[i] = s[i]
      BY <1>1, <2>1, <2>3
    <3>2. QED
      BY <2>2, <3>1
  <2>4. CASE ~(i < p)
    <3>1. i + 1 \in 1 .. Len(s) /\ i + 1 # p /\ r[i] = s[i + 1]
      BY <1>1, <2>1, <2>4
    <3>2. QED
      BY <2>2, <3>1
  <2>5. QED
    BY <2>3, <2>4
<1>5. ToSet(s) \ {s[p]} \subseteq ToSet(r)
  <2>1. SUFFICES ASSUME NEW i \in 1 .. Len(s), i # p PROVE s[i] \in ToSet(r)
    BY <1>1 DEF ToSet
  <2>2. CASE i < p
    <3>1. i \in 1 .. Len(s) - 1 /\ r[i] = s[i]
      BY <1>1, <2>1, <2>2
    <3>2. QED
      BY <1>1, <3>1 DEF ToSet
  <2>3. CASE i > p
    <3>1. i - 1 \in 1 .. Len(s) - 1 /\ ~(i - 1 < p) /\ i - 1 + 1 = i
      BY <1>1, <2>1, <2>3
    <3>2. r[i - 1] = s[i]
      BY <1>1, <3>1
    <3>3. QED
      BY <1>1, <3>1, <3>2 DEF ToSet
  <2>4. QED
    BY <2>1, <2>2, <2>3
<1>6. QED
  BY <1>3, <1>4, <1>5 DEF r

\* InsertAt puts an element in.
LEMMA InsertAtFacts ==
    ASSUME NEW T, NEW s \in Seq(T), NEW p \in 1 .. Len(s) + 1, NEW e \in T
    PROVE  /\ InsertAt(s, p, e) \in Seq(T) /\ Len(InsertAt(s, p, e)) = Len(s) + 1
           /\ DOMAIN InsertAt(s, p, e) = 1 .. Len(s) + 1
           /\ \A k \in 1 .. Len(s) + 1 :
                 InsertAt(s, p, e)[k] = IF k < p THEN s[k] ELSE IF k = p THEN e ELSE s[k - 1]
<1> DEFINE a == SubSeq(s, 1, p - 1)
           b == SubSeq(s, p, Len(s))
           c == a \o <<e>>
           r == c \o b
<1>1. a \in Seq(T) /\ Len(a) = p - 1 /\ \A i \in 1 .. p - 1 : a[i] = s[i]
  BY SubSeqProperties
<1>2. b \in Seq(T) /\ Len(b) = Len(s) - p + 1 /\ \A i \in 1 .. Len(s) - p + 1 : b[i] = s[i + p - 1]
  BY SubSeqProperties
<1>3. InsertAt(s, p, e) = r
  BY DEF InsertAt
<1> HIDE DEF a, b
<1>4. c \in Seq(T) /\ Len(c) = p /\ c[p] = e /\ \A i \in 1 .. p - 1 : c[i] = s[i]
  BY <1>1
<1> HIDE DEF c
<1>5. r \in Seq(T) /\ Len(r) = Len(s) + 1
  <2>1. r \in Seq(T) /\ Len(r) = Len(c) + Len(b)
    BY <1>2, <1>4, ConcatProperties
  <2>2. Len(s) \in Nat /\ p \in Nat
    OBVIOUS
  <2> HIDE DEF r
  <2>3. QED
    BY <1>2, <1>4, <2>1, <2>2
<1>6. ASSUME NEW k \in 1 .. Len(s) + 1
      PROVE  r[k] = IF k < p THEN s[k] ELSE IF k = p THEN e ELSE s[k - 1]
  <2>0. k \in Nat /\ p \in Nat
    OBVIOUS
  <2>1. r[k] = IF k <= Len(c) THEN c[k] ELSE b[k - Len(c)]
    BY <1>2, <1>4, <1>5, ConcatProperties
  <2> HIDE DEF r
  <2>2. CASE k < p
    BY <1>4, <2>1, <2>2
  <2>3. CASE k = p
    BY <1>4, <2>1, <2>3
  <2>4. CASE k > p
    <3>1. k - p \in 1 .. Len(s) - p + 1 /\ k - p + p - 1 = k - 1
      BY <2>4
    <3>2. b[k - p] = s[k - 1]
      BY <1>2, <3>1
    <3>3. QED
      BY <1>4, <2>1, <2>4, <3>2
  <2>5. QED
    BY <2>0, <2>2, <2>3, <2>4
<1> HIDE DEF r
<1>7. DOMAIN r = 1 .. Len(s) + 1
  BY <1>5
<1>8. QED
  BY <1>3, <1>5, <1>6, <1>7

LEMMA InsertAtOnce ==
    ASSUME NEW T, NEW s \in Seq(T), NEW p \in 1 .. Len(s) + 1, NEW e \in T, Once(s), e \notin ToSet(s)
    PROVE  Once(InsertAt(s, p, e)) /\ ToSet(InsertAt(s, p, e)) = ToSet(s) \cup {e}
<1> DEFINE r == InsertAt(s, p, e)
<1>1. /\ r \in Seq(T) /\ DOMAIN r = 1 .. Len(s) + 1 /\ Len(s) \in Nat /\ DOMAIN s = 1 .. Len(s)
      /\ \A k \in 1 .. Len(s) + 1 : r[k] = IF k < p THEN s[k] ELSE IF k = p THEN e ELSE s[k - 1]
  BY InsertAtFacts
<1> HIDE DEF r
<1>2. \A k, l \in 1 .. Len(s) : s[k] = s[l] => k = l
  BY <1>1 DEF Once
<1>3. \A k \in 1 .. Len(s) : s[k] \in ToSet(s) /\ s[k] # e
  BY <1>1 DEF ToSet
<1> DEFINE at(k) == IF k < p THEN k ELSE k - 1
<1>4. /\ r[p] = e /\ p \in Nat
      /\ \A k \in 1 .. Len(s) + 1 : k # p => at(k) \in 1 .. Len(s) /\ r[k] = s[at(k)]
      /\ \A k, l \in 1 .. Len(s) + 1 : k # p /\ l # p /\ at(k) = at(l) => k = l
  BY <1>1
<1>5. \A i \in 1 .. Len(s) : \E k \in 1 .. Len(s) + 1 : k # p /\ at(k) = i
  <2>1. SUFFICES ASSUME NEW i \in 1 .. Len(s) PROVE \E k \in 1 .. Len(s) + 1 : k # p /\ at(k) = i
    OBVIOUS
  <2>2. CASE i < p
    BY <1>1, <1>4, <2>2
  <2>3. CASE ~(i < p)
    <3>1. i + 1 \in 1 .. Len(s) + 1 /\ i + 1 # p /\ at(i + 1) = i
      BY <1>1, <1>4, <2>3
    <3>2. QED
      BY <3>1
  <2>4. QED
    BY <2>2, <2>3
<1> HIDE DEF at
<1>6. Once(r)
  <2>1. SUFFICES ASSUME NEW i \in 1 .. Len(s) + 1, NEW j \in 1 .. Len(s) + 1, r[i] = r[j] PROVE i = j
    BY <1>1 DEF Once
  <2>2. CASE i = p
    BY <1>3, <1>4, <2>1, <2>2
  <2>3. CASE j = p
    BY <1>3, <1>4, <2>1, <2>3
  <2>4. CASE i # p /\ j # p
    <3>1. at(i) = at(j)
      BY <1>2, <1>4, <2>1, <2>4
    <3>2. QED
      BY <1>4, <2>4, <3>1
  <2>5. QED
    BY <2>2, <2>3, <2>4
<1>7. ToSet(r) \subseteq ToSet(s) \cup {e}
  BY <1>1, <1>3, <1>4 DEF ToSet
<1>8. e \in ToSet(r)
  BY <1>1, <1>4 DEF ToSet
<1>9. ToSet(s) \subseteq ToSet(r)
  <2>1. SUFFICES ASSUME NEW i \in 1 .. Len(s) PROVE s[i] \in ToSet(r)
    BY <1>1 DEF ToSet
  <2>2. PICK k \in 1 .. Len(s) + 1 : k # p /\ at(k) = i
    BY <1>5
  <2>3. r[k] = s[i]
    BY <1>4, <2>2
  <2>4. QED
    BY <1>1, <2>3 DEF ToSet
<1>10. QED
  BY <1>6, <1>7, <1>8, <1>9 DEF r

LEMMA AppendOnce ==
    ASSUME NEW T, NEW s \in Seq(T), Once(s), NEW c \in T, c \notin ToSet(s)
    PROVE  /\ Append(s, c) \in Seq(T) /\ Once(Append(s, c))
           /\ ToSet(Append(s, c)) = ToSet(s) \cup {c}
<1>1. Append(s, c) \in Seq(T) /\ Len(Append(s, c)) = Len(s) + 1
  OBVIOUS
<1>2. \A i \in 1 .. Len(s) : Append(s, c)[i] = s[i]
  OBVIOUS
<1>3. Append(s, c)[Len(s) + 1] = c
  OBVIOUS
<1>4. Once(Append(s, c))
  BY <1>1, <1>2, <1>3 DEF Once, ToSet
<1>5. ToSet(Append(s, c)) = ToSet(s) \cup {c}
  BY <1>1, <1>2, <1>3 DEF ToSet
<1>6. QED
  BY <1>1, <1>4, <1>5

\* A sequence without repetitions is as long as its set is large.
LEMMA OnceLen ==
    ASSUME NEW T, NEW s \in Seq(T), Once(s)
    PROVE  IsFiniteSet(ToSet(s)) /\ Cardinality(ToSet(s)) = Len(s)
<1>1. Len(s) \in Nat /\ DOMAIN s = 1 .. Len(s) /\ s = [i \in 1 .. Len(s) |-> s[i]]
  OBVIOUS
<1>2. s \in [1 .. Len(s) -> ToSet(s)]
  BY <1>1 DEF ToSet
<1>3. s \in Bijection(1 .. Len(s), ToSet(s))
  <2>1. \A a, b \in 1 .. Len(s) : s[a] = s[b] => a = b
    BY <1>1 DEF Once
  <2>2. \A t \in ToSet(s) : \E i \in 1 .. Len(s) : s[i] = t
    BY <1>1 DEF ToSet
  <2>3. QED
    BY <1>2, <2>1, <2>2 DEF Bijection, Injection, Surjection, IsInjective
<1>4. ExistsBijection(1 .. Len(s), ToSet(s))
  BY <1>3 DEF ExistsBijection
<1>5. IsFiniteSet(1 .. Len(s)) /\ Cardinality(1 .. Len(s)) = Len(s)
  <2>1. /\ IsFiniteSet(1 .. Len(s))
        /\ Cardinality(1 .. Len(s)) = IF 1 > Len(s) THEN 0 ELSE Len(s) - 1 + 1
    <3>1. 1 \in Int /\ Len(s) \in Int
      BY <1>1
    <3>2. QED
      BY <3>1, FS_Interval
  <2>2. QED
    BY <1>1, <2>1
<1>6. QED
  BY <1>4, <1>5, FS_Bijection

\* Position finds an element.
LEMMA PositionFacts ==
    ASSUME NEW T, NEW s \in Seq(T), NEW e
    PROVE  IF e \in ToSet(s) THEN Position(s, e) \in 1 .. Len(s) /\ s[Position(s, e)] = e
           ELSE Position(s, e) = 0
<1> DEFINE P == {i \in 1 .. Len(s) : s[i] = e}
<1>1. Position(s, e) = IF P # {} THEN Min(P) ELSE 0
  BY DEF Position, SelectInSeq
<1>2. P # {} <=> e \in ToSet(s)
  BY DEF ToSet
<1>3. CASE P # {}
  <2>1. Len(s) \in Nat /\ P \subseteq 1 .. Len(s)
    OBVIOUS
  <2>2. Min(P) \in P
    BY <1>3, <2>1, FirstPosition
  <2>3. QED
    BY <1>1, <1>2, <1>3, <2>2
<1>4. QED
  BY <1>1, <1>2, <1>3

\* Only, as the last of the sequences that it builds.
LEMMA OnlySteps ==
    ASSUME NEW T, NEW s \in Seq(T), NEW K
    PROVE  \E f : /\ f[0] = <<>>
                  /\ \A n \in 1 .. Len(s) : f[n] = IF n \in K THEN Append(f[n - 1], s[n]) ELSE f[n - 1]
                  /\ Only(s, K) = f[Len(s)]
<1> DEFINE N == Len(s)
           Next1(q, n) == IF n \in K THEN Append(q, s[n]) ELSE q
           Run(f, n) == f[0] = <<>> /\ \A k \in 1 .. n : f[k] = Next1(f[k - 1], k)
           Runs(n) == \E f : Run(f, n)
           G == {n \in 0 .. N : Runs(n)}
<1>1. N \in Nat
  OBVIOUS
<1> HIDE DEF N, Next1
<1>2. 0 \in G
  <2> DEFINE f == [k \in {0} |-> <<>>]
  <2>1. Run(f, 0)
    OBVIOUS
  <2> HIDE DEF Run
  <2>2. Runs(0)
    BY <2>1
  <2> HIDE DEF Runs
  <2>3. QED
    BY <1>1, <2>2
<1>3. ASSUME NEW n \in 0 .. N - 1, n \in G PROVE n + 1 \in G
  <2>1. PICK f : Run(f, n)
    <3> HIDE DEF Run
    <3>1. QED
      BY <1>3
  <2> DEFINE g == [k \in 0 .. n + 1 |-> IF k = n + 1 THEN Next1(f[n], n + 1) ELSE f[k]]
  <2>2. g[0] = <<>>
    BY <2>1
  <2>3. ASSUME NEW k \in 1 .. n + 1 PROVE g[k] = Next1(g[k - 1], k)
    <3>1. n \in Nat /\ k - 1 \in 0 .. n /\ k \in 0 .. n + 1
      BY <1>1
    <3>2. g[k - 1] = f[k - 1]
      BY <3>1
    <3>3. CASE k = n + 1
      <4>1. g[k] = Next1(f[n], n + 1) /\ f[k - 1] = f[n]
        BY <3>1, <3>3
      <4>2. QED
        BY <3>2, <3>3, <4>1
    <3>4. CASE k # n + 1
      <4>1. g[k] = f[k] /\ k \in 1 .. n
        BY <3>1, <3>4
      <4>2. QED
        BY <2>1, <3>2, <4>1
    <3>5. QED
      BY <3>3, <3>4
  <2> HIDE DEF g
  <2>4. Run(g, n + 1)
    BY <2>2, <2>3
  <2> HIDE DEF Run
  <2>5. Runs(n + 1)
    BY <2>4
  <2> HIDE DEF Runs
  <2>6. QED
    BY <1>1, <2>5
<1>4. N \in G
  <2> HIDE DEF G
  <2>1. \A k \in 0 .. N : k \in G
    BY <1>1, <1>2, <1>3, UpTo
  <2>2. QED
    BY <1>1, <2>1
<1>5. PICK f : Run(f, N)
  <2> HIDE DEF Run
  <2>1. QED
    BY <1>4
<1> DEFINE Eq(g) == g = [n \in 0 .. N |-> IF n = 0 THEN <<>> ELSE Next1(g[n - 1], n)]
           h == [n \in 0 .. N |-> f[n]]
           taken == CHOOSE g : Eq(g)
<1>6. Eq(h)
  <2>1. SUFFICES ASSUME NEW n \in 0 .. N PROVE h[n] = IF n = 0 THEN <<>> ELSE Next1(h[n - 1], n)
    BY Zenon
  <2>2. CASE n = 0
    BY <1>5, <2>2
  <2>3. CASE n # 0
    BY <1>1, <1>5, <2>3
  <2>4. QED
    BY <2>2, <2>3
<1>7. Eq(taken)
  BY <1>6, Zenon
<1>8. Only(s, K) = taken[N]
  <2>1. taken = CHOOSE g : g = [n \in 0 .. Len(s) |->
                    IF n = 0 THEN <<>> ELSE IF n \in K THEN Append(g[n - 1], s[n]) ELSE g[n - 1]]
    BY Zenon DEF N, Next1
  <2> HIDE DEF taken
  <2>2. QED
    BY <2>1 DEF Only, N
<1> HIDE DEF taken
<1>9. taken[0] = <<>>
  BY <1>1, <1>7
<1>10. ASSUME NEW n \in 1 .. N PROVE taken[n] = Next1(taken[n - 1], n)
  BY <1>1, <1>7
<1>11. QED
  BY <1>8, <1>9, <1>10 DEF N, Next1

\* Only keeps what is at the positions of K.
LEMMA OnlyFacts ==
    ASSUME NEW T, NEW s \in Seq(T), NEW K, K \subseteq 1 .. Len(s), Once(s)
    PROVE  /\ Only(s, K) \in Seq(T) /\ Once(Only(s, K)) /\ Len(Only(s, K)) <= Len(s)
           /\ ToSet(Only(s, K)) = {s[k] : k \in K}
<1>1. PICK f : /\ f[0] = <<>>
               /\ \A n \in 1 .. Len(s) : f[n] = IF n \in K THEN Append(f[n - 1], s[n]) ELSE f[n - 1]
               /\ Only(s, K) = f[Len(s)]
  BY OnlySteps
<1> DEFINE first == [n \in 0 .. Len(s) |-> {s[k] : k \in {k \in K : k <= n}}]
           Good(q, S, n) == q \in Seq(T) /\ Once(q) /\ Len(q) <= n /\ ToSet(q) = S
           G == {n \in 0 .. Len(s) : Good(f[n], first[n], n)}
<1>2. Len(s) \in Nat /\ DOMAIN s = 1 .. Len(s) /\ \A k \in K : k \in Nat /\ k >= 1 /\ k <= Len(s)
  OBVIOUS
<1>3. Good(f[0], first[0], 0)
  <2>1. \A k \in K : ~(k <= 0)
    BY <1>2
  <2>2. {k \in K : k <= 0} = {}
    BY <2>1
  <2>3. first[0] = {}
    BY <1>2, <2>2
  <2>4. Good(<<>>, {}, 0)
    BY DEF Once, ToSet
  <2> HIDE DEF Good, first
  <2>5. QED
    BY <1>1, <2>3, <2>4
<1>4. ASSUME NEW n \in 0 .. Len(s) - 1, Good(f[n], first[n], n) PROVE Good(f[n + 1], first[n + 1], n + 1)
  <2>1. n + 1 \in 1 .. Len(s) /\ n + 1 - 1 = n /\ s[n + 1] \in T /\ n \in Nat
    BY <1>2
  <2>2. f[n + 1] = IF n + 1 \in K THEN Append(f[n], s[n + 1]) ELSE f[n]
    BY <1>1, <2>1
  <2>3. CASE n + 1 \in K
    <3>1. first[n + 1] = first[n] \cup {s[n + 1]}
      BY <1>2, <2>1, <2>3
    <3>2. s[n + 1] \notin first[n]
      BY <1>2, <2>1 DEF Once
    <3> DEFINE q == f[n]
               x == s[n + 1]
               S == first[n]
    <3>3. q \in Seq(T) /\ Once(q) /\ ToSet(q) = S /\ x \in T /\ x \notin S /\ Len(q) <= n
      BY <1>4, <2>1, <3>2
    <3>4. f[n + 1] = Append(q, x) /\ first[n + 1] = S \cup {x}
      BY <2>2, <2>3, <3>1
    <3> HIDE DEF q, x, S, first
    <3>5. Append(q, x) \in Seq(T) /\ Once(Append(q, x)) /\ ToSet(Append(q, x)) = S \cup {x}
      BY <3>3, AppendOnce
    <3>6. Len(Append(q, x)) <= n + 1
      BY <2>1, <3>3
    <3>7. QED
      BY <3>4, <3>5, <3>6
  <2>4. CASE n + 1 \notin K
    <3>1. first[n + 1] = first[n]
      <4>1. {k \in K : k <= n + 1} = {k \in K : k <= n}
        <5>1. \A k \in K : k <= n + 1 <=> k <= n
          BY <1>2, <2>1, <2>4
        <5>2. QED
          BY <5>1
      <4>2. n \in 0 .. Len(s) /\ n + 1 \in 0 .. Len(s)
        BY <2>1
      <4>3. first[n + 1] = {s[k] : k \in {k \in K : k <= n + 1}} /\ first[n] = {s[k] : k \in {k \in K : k <= n}}
        BY <4>2
      <4> HIDE DEF first
      <4>4. QED
        BY <4>1, <4>3, Zenon
    <3>2. Len(f[n]) \in Nat
      BY <1>4
    <3> HIDE DEF first
    <3>3. QED
      BY <1>4, <2>1, <2>2, <2>4, <3>1, <3>2
  <2>5. QED
    BY <2>3, <2>4
<1> HIDE DEF Good, first
<1>5. \A n \in 0 .. Len(s) : n \in G
  <2>1. 0 \in G /\ \A n \in 0 .. Len(s) - 1 : n \in G => n + 1 \in G
    BY <1>2, <1>3, <1>4
  <2> HIDE DEF G
  <2>2. QED
    BY <1>2, <2>1, UpTo
<1>6. Good(f[Len(s)], first[Len(s)], Len(s))
  BY <1>2, <1>5
<1>7. first[Len(s)] = {s[k] : k \in K}
  <2>1. {k \in K : k <= Len(s)} = K
    BY <1>2
  <2>2. Len(s) \in 0 .. Len(s)
    BY <1>2
  <2>3. first[Len(s)] = {s[k] : k \in {k \in K : k <= Len(s)}}
    BY <2>2 DEF first
  <2>4. QED
    BY <2>1, <2>3, Zenon
<1>8. QED
  BY <1>1, <1>6, <1>7 DEF Good

LEMMA OnlySet ==
    ASSUME NEW T, NEW s \in Seq(T), NEW K, K \subseteq 1 .. Len(s), Once(s)
    PROVE  ToSet(Only(s, K)) = {s[k] : k \in K}
BY OnlyFacts

-----------------------------------------------------------------------------
(* Tabs.                                                                   *)

LEMMA TabFields ==
    ASSUME NEW t \in TabRecord
    PROVE  /\ t.number \in Nat /\ t.root \in Nat /\ t.layout \in Seq(Nat) /\ t.focus \in Nat
           /\ t.zoomed \in BOOLEAN /\ t.panes \in SUBSET Nat
BY DEF TabRecord

\* A tab with other panes, and with another focus or zoom.
LEMMA TabBuilt ==
    ASSUME NEW t \in TabRecord, NEW root \in Nat, NEW layout \in Seq(Nat), NEW focus \in Nat,
           NEW zoomed \in BOOLEAN, NEW panes \in SUBSET Nat
    PROVE  LET b == [t EXCEPT !.root = root, !.layout = layout, !.focus = focus,
                              !.zoomed = zoomed, !.panes = panes]
           IN  /\ b \in TabRecord /\ b.number = t.number /\ b.root = root /\ b.layout = layout
               /\ b.focus = focus /\ b.zoomed = zoomed /\ b.panes = panes
BY DEF TabRecord

LEMMA TabTouched ==
    ASSUME NEW t, TabOK(t), NEW focus \in t.panes, NEW zoomed \in BOOLEAN
    PROVE  LET b == [t EXCEPT !.focus = focus, !.zoomed = zoomed]
           IN  /\ TabOK(b) /\ b.number = t.number /\ b.panes = t.panes /\ b.layout = t.layout
               /\ b.focus = focus /\ b.zoomed = zoomed /\ b.root = t.root
<1>1. t \in TabRecord /\ focus \in Nat
  BY TabFields DEF TabOK
<1> DEFINE b == [t EXCEPT !.focus = focus, !.zoomed = zoomed]
<1>2. /\ b \in TabRecord /\ b.number = t.number /\ b.panes = t.panes /\ b.layout = t.layout
      /\ b.focus = focus /\ b.zoomed = zoomed /\ b.root = t.root
  BY <1>1 DEF TabRecord
<1> HIDE DEF b
<1>3. TabOK(b)
  BY <1>2 DEF TabOK
<1> USE DEF b
<1>4. QED
  BY <1>2, <1>3

LEMMA NewTabOK ==
    ASSUME NEW number \in Nat, NEW p \in Nat
    PROVE  LET t == NewTab(number, p)
           IN  TabOK(t) /\ t.number = number /\ t.panes = {p} /\ t.layout = <<p>> /\ Len(t.layout) = 1
<1> DEFINE t == NewTab(number, p)
<1>1. t \in TabRecord
  BY DEF NewTab, TabRecord
<1>2. t.number = number /\ t.panes = {p} /\ t.layout = <<p>> /\ t.focus = p /\ t.root = p
  BY DEF NewTab
<1>3. Once(<<p>>) /\ ToSet(<<p>>) = {p} /\ Len(<<p>>) = 1
  BY DEF Once, ToSet
<1> HIDE DEF t
<1>4. TabOK(t)
  BY <1>1, <1>2, <1>3 DEF TabOK
<1> USE DEF t
<1>5. QED
  BY <1>2, <1>3, <1>4

\* A pane beside another one.
LEMMA AfterFacts ==
    ASSUME NEW s \in Seq(Nat), Once(s), NEW target \in ToSet(s), NEW p \in Nat, p \notin ToSet(s)
    PROVE  /\ After(s, target, p) \in Seq(Nat) /\ Once(After(s, target, p))
           /\ ToSet(After(s, target, p)) = ToSet(s) \cup {p}
           /\ Len(After(s, target, p)) = Len(s) + 1
<1> DEFINE at == Position(s, target)
<1>1. at \in 1 .. Len(s)
  BY PositionFacts
<1> HIDE DEF at
<1>2. at + 1 \in 1 .. Len(s) + 1
  BY <1>1
<1>3. After(s, target, p) = InsertAt(s, at + 1, p)
  BY DEF After, at
<1>4. QED
  BY <1>2, <1>3, InsertAtFacts, InsertAtOnce

LEMMA RemoveFirstFacts ==
    ASSUME NEW s \in Seq(Nat), Once(s), NEW p \in ToSet(s)
    PROVE  /\ RemoveFirst(s, p) \in Seq(Nat) /\ Once(RemoveFirst(s, p))
           /\ ToSet(RemoveFirst(s, p)) = ToSet(s) \ {p} /\ Len(RemoveFirst(s, p)) = Len(s) - 1
<1> DEFINE at == Position(s, p)
<1>1. at \in 1 .. Len(s) /\ s[at] = p
  BY PositionFacts
<1>2. RemoveFirst(s, p) = RemoveAt(s, at)
  <2>1. \E i \in 1 .. Len(s) : s[i] = p
    BY <1>1
  <2>2. QED
    BY <2>1, Zenon DEF RemoveFirst, Position
<1> HIDE DEF at
<1>3. RemoveAt(s, at) \in Seq(Nat) /\ Len(RemoveAt(s, at)) = Len(s) - 1
  BY <1>1, RemoveAtFacts
<1>4. Once(RemoveAt(s, at)) /\ ToSet(RemoveAt(s, at)) = ToSet(s) \ {p}
  BY <1>1, RemoveAtOnce
<1>5. QED
  BY <1>2, <1>3, <1>4

\* The leaf that has the focus is closed.
LEMMA CloseFocusedFacts ==
    ASSUME NEW t \in TabRecord, Once(t.layout), t.focus \in ToSet(t.layout), Len(t.layout) # 1
    PROVE  LET c == CloseFocused(t)
           IN  /\ c \in TabRecord /\ Once(c.layout) /\ ToSet(c.layout) = ToSet(t.layout) \ {t.focus}
               /\ c.focus \in ToSet(c.layout) /\ Len(c.layout) = Len(t.layout) - 1
               /\ c.layout[1] \in ToSet(c.layout) /\ c.layout[1] \in Nat
               /\ c.number = t.number /\ c.root = t.root /\ c.zoomed = t.zoomed /\ c.panes = t.panes
<1> DEFINE s == t.layout
           at == Position(s, t.focus)
           to == IF at < Len(s) THEN at + 1 ELSE at - 1
           r == RemoveFirst(s, t.focus)
           c == CloseFocused(t)
<1>1. s \in Seq(Nat) /\ Len(s) \in Nat /\ DOMAIN s = 1 .. Len(s)
  BY TabFields
<1>2. at \in 1 .. Len(s) /\ s[at] = t.focus
  BY <1>1, PositionFacts
<1> HIDE DEF at
<1>3. to \in 1 .. Len(s) /\ to # at /\ Len(s) >= 2
  <2>1. Len(s) # 1
    OBVIOUS
  <2> HIDE DEF s
  <2>2. QED
    BY <1>1, <1>2, <2>1
<1>4. s[to] \in ToSet(s) /\ s[to] # t.focus /\ s[to] \in Nat
  <2> HIDE DEF to
  <2>1. s[to] \in ToSet(s) /\ s[to] \in Nat
    BY <1>1, <1>3 DEF ToSet
  <2>2. s[to] # s[at]
    BY <1>1, <1>2, <1>3 DEF Once
  <2>3. QED
    BY <1>2, <2>1, <2>2
<1>5. r \in Seq(Nat) /\ Once(r) /\ ToSet(r) = ToSet(s) \ {t.focus} /\ Len(r) = Len(s) - 1
  BY <1>1, RemoveFirstFacts
<1>6. c = [t EXCEPT !.layout = r, !.focus = s[to]]
  BY DEF CloseFocused, at
<1> HIDE DEF r, c, to
<1>7. /\ c \in TabRecord /\ c.layout = r /\ c.focus = s[to]
      /\ c.number = t.number /\ c.root = t.root /\ c.zoomed = t.zoomed /\ c.panes = t.panes
  <2> HIDE DEF s
  <2>1. QED
    BY <1>4, <1>5, <1>6 DEF TabRecord
<1>8. r[1] \in ToSet(r) /\ r[1] \in Nat
  <2>1. 1 \in 1 .. Len(r) /\ DOMAIN r = 1 .. Len(r)
    <3> HIDE DEF s
    <3>1. QED
      BY <1>1, <1>3, <1>5
  <2>2. QED
    BY <1>5, <2>1 DEF ToSet
<1>9. /\ c \in TabRecord /\ Once(c.layout) /\ ToSet(c.layout) = ToSet(t.layout) \ {t.focus}
      /\ c.focus \in ToSet(c.layout) /\ Len(c.layout) = Len(t.layout) - 1
      /\ c.layout[1] \in ToSet(c.layout) /\ c.layout[1] \in Nat
  BY <1>4, <1>5, <1>7, <1>8
<1> USE DEF c
<1>10. QED
  BY <1>7, <1>9

LEMMA InsertOK ==
    ASSUME NEW t, TabOK(t), NEW target \in t.panes, NEW p \in Nat, p \notin t.panes
    PROVE  LET b == Insert(t, target, p)
           IN  TabOK(b) /\ b.number = t.number /\ b.panes = t.panes \cup {p} /\ t.focus \in b.panes
<1> DEFINE l == After(t.layout, target, p)
           b == Insert(t, target, p)
<1>1. /\ t \in TabRecord /\ t.layout \in Seq(Nat) /\ t.panes \in SUBSET Nat
      /\ Once(t.layout) /\ ToSet(t.layout) = t.panes /\ t.root \in t.panes /\ t.focus \in t.panes
  BY TabFields DEF TabOK
<1>2. l \in Seq(Nat) /\ Once(l) /\ ToSet(l) = t.panes \cup {p}
  BY <1>1, AfterFacts
<1>3. b = [t EXCEPT !.layout = l, !.focus = p, !.panes = t.panes \cup {p}, !.zoomed = FALSE]
  BY DEF Insert
<1> HIDE DEF b, l
<1>4. /\ b \in TabRecord /\ b.number = t.number /\ b.root = t.root /\ b.layout = l
      /\ b.focus = p /\ b.panes = t.panes \cup {p}
  BY <1>1, <1>2, <1>3 DEF TabRecord
<1>5. TabOK(b)
  BY <1>1, <1>2, <1>4 DEF TabOK
<1>6. QED
  BY <1>1, <1>4, <1>5 DEF b

LEMMA DetachOK ==
    ASSUME NEW t, TabOK(t), NEW p \in t.panes, Len(t.layout) # 1
    PROVE  LET b == Detach(t, p)
           IN  TabOK(b) /\ b.number = t.number /\ b.panes = t.panes \ {p}
<1> DEFINE u == [t EXCEPT !.focus = p]
           c == CloseFocused(u)
           focus == IF t.focus = p THEN c.focus ELSE t.focus
           root == IF t.root = p THEN c.layout[1] ELSE t.root
           b == Detach(t, p)
<1>1. /\ t \in TabRecord /\ t.layout \in Seq(Nat) /\ t.panes \in SUBSET Nat /\ p \in Nat
      /\ Once(t.layout) /\ ToSet(t.layout) = t.panes /\ t.root \in t.panes /\ t.focus \in t.panes
  BY TabFields DEF TabOK
<1>2. u \in TabRecord /\ u.layout = t.layout /\ u.focus = p /\ u.number = t.number /\ u.root = t.root /\ u.panes = t.panes
  BY <1>1 DEF TabRecord
<1> HIDE DEF u
<1>3. /\ c \in TabRecord /\ Once(c.layout) /\ ToSet(c.layout) = t.panes \ {p}
      /\ c.focus \in ToSet(c.layout) /\ c.layout[1] \in ToSet(c.layout)
      /\ c.number = t.number /\ c.root = t.root /\ c.panes = t.panes
  BY <1>1, <1>2, CloseFocusedFacts
<1>4. b = [c EXCEPT !.focus = focus, !.root = root, !.panes = t.panes \ {p}, !.zoomed = FALSE]
  BY <1>3 DEF Detach, u
<1>5. focus \in t.panes \ {p} /\ root \in t.panes \ {p}
  BY <1>1, <1>3
<1> HIDE DEF b, c, focus, root
<1>6. /\ b \in TabRecord /\ b.number = c.number /\ b.root = root /\ b.layout = c.layout
      /\ b.focus = focus /\ b.panes = t.panes \ {p}
  BY <1>1, <1>3, <1>4, <1>5 DEF TabRecord
<1>7. TabOK(b)
  BY <1>3, <1>5, <1>6 DEF TabOK
<1>8. QED
  BY <1>3, <1>6, <1>7 DEF b

\* A split that is taken back.
LEMMA UndoSplitOK ==
    ASSUME NEW t, TabOK(t), NEW target \in t.panes, NEW p \in Nat, p \notin t.panes
    PROVE  LET b == UndoSplit(t, target, p)
           IN  TabOK(b) /\ b.number = t.number /\ b.panes = t.panes
<1> DEFINE l == After(t.layout, target, p)
           u == [t EXCEPT !.layout = l, !.focus = p]
           c == CloseFocused(u)
           b == UndoSplit(t, target, p)
<1>1. /\ t \in TabRecord /\ t.layout \in Seq(Nat) /\ t.panes \in SUBSET Nat /\ p \in Nat
      /\ Once(t.layout) /\ ToSet(t.layout) = t.panes /\ t.root \in t.panes /\ t.focus \in t.panes
  BY TabFields DEF TabOK
<1>2. l \in Seq(Nat) /\ Once(l) /\ ToSet(l) = t.panes \cup {p} /\ Len(l) = Len(t.layout) + 1
  <2> DEFINE s == t.layout
  <2>1. s \in Seq(Nat) /\ Once(s) /\ ToSet(s) = t.panes /\ l = After(s, target, p)
    BY <1>1
  <2> HIDE DEF s, l
  <2>2. /\ After(s, target, p) \in Seq(Nat) /\ Once(After(s, target, p))
        /\ ToSet(After(s, target, p)) = ToSet(s) \cup {p} /\ Len(After(s, target, p)) = Len(s) + 1
    BY <1>1, <2>1, AfterFacts
  <2>3. QED
    BY <2>1, <2>2 DEF s
<1>3. Len(l) # 1
  <2>1. Len(t.layout) # 0
    BY <1>1 DEF ToSet
  <2>2. Len(t.layout) \in Nat
    BY <1>1
  <2> HIDE DEF l
  <2>3. QED
    BY <1>2, <2>1, <2>2
<1>4. b = [c EXCEPT !.focus = t.focus]
  BY DEF UndoSplit
<1> HIDE DEF b, l
<1>5. u \in TabRecord /\ u.layout = l /\ u.focus = p /\ u.number = t.number /\ u.root = t.root /\ u.panes = t.panes
  BY <1>1, <1>2 DEF TabRecord
<1> HIDE DEF u
<1>6. /\ c \in TabRecord /\ Once(c.layout) /\ ToSet(c.layout) = t.panes
      /\ c.number = t.number /\ c.root = t.root /\ c.panes = t.panes
  <2>1. u \in TabRecord /\ Once(u.layout) /\ u.focus \in ToSet(u.layout) /\ Len(u.layout) # 1
    BY <1>2, <1>3, <1>5
  <2>2. /\ c \in TabRecord /\ Once(c.layout) /\ ToSet(c.layout) = ToSet(u.layout) \ {u.focus}
        /\ c.number = u.number /\ c.root = u.root /\ c.panes = u.panes
    BY <2>1, CloseFocusedFacts
  <2>3. ToSet(u.layout) \ {u.focus} = t.panes
    BY <1>2, <1>5
  <2>4. QED
    BY <1>5, <2>2, <2>3
<1> HIDE DEF c
<1>7. /\ b \in TabRecord /\ b.number = t.number /\ b.root = t.root /\ b.layout = c.layout
      /\ b.focus = t.focus /\ b.panes = t.panes
  BY <1>1, <1>4, <1>6 DEF TabRecord
<1>8. TabOK(b)
  BY <1>1, <1>6, <1>7 DEF TabOK
<1>9. QED
  BY <1>7, <1>8 DEF b

\* Two leaves change places.
LEMMA SwapOK ==
    ASSUME NEW t, TabOK(t), NEW p \in t.panes, NEW q \in t.panes
    PROVE  LET l == [k \in DOMAIN t.layout |->
                        IF t.layout[k] = p THEN q ELSE IF t.layout[k] = q THEN p ELSE t.layout[k]]
               b == [t EXCEPT !.layout = l, !.focus = p]
           IN  TabOK(b) /\ b.number = t.number /\ b.panes = t.panes
<1> DEFINE s == t.layout
           l == [k \in DOMAIN s |-> IF s[k] = p THEN q ELSE IF s[k] = q THEN p ELSE s[k]]
           b == [t EXCEPT !.layout = l, !.focus = p]
<1>1. /\ t \in TabRecord /\ s \in Seq(Nat) /\ t.panes \in SUBSET Nat /\ p \in Nat /\ q \in Nat
      /\ Once(s) /\ ToSet(s) = t.panes /\ t.root \in t.panes /\ DOMAIN s = 1 .. Len(s) /\ Len(s) \in Nat
  BY TabFields DEF TabOK
<1> HIDE DEF s
<1>2. /\ \A k \in DOMAIN s : l[k] = IF s[k] = p THEN q ELSE IF s[k] = q THEN p ELSE s[k]
      /\ DOMAIN l = DOMAIN s /\ l \in [1 .. Len(s) -> Nat]
  <2>1. \A k \in DOMAIN s : s[k] \in Nat
    BY <1>1
  <2>2. QED
    BY <1>1, <2>1
<1>3. l \in Seq(Nat)
  BY <1>1, <1>2
<1> HIDE DEF l
<1>4. Once(l)
  BY <1>1, <1>2 DEF Once
<1>5. ToSet(l) \subseteq ToSet(s)
  BY <1>1, <1>2 DEF ToSet
<1>6. ToSet(s) \subseteq ToSet(l)
  <2>0. \A x : (x \in ToSet(s) <=> \E k \in DOMAIN s : s[k] = x) /\ (x \in ToSet(l) <=> \E k \in DOMAIN l : l[k] = x)
    BY DEF ToSet
  <2>1. SUFFICES ASSUME NEW k \in DOMAIN s PROVE \E j \in DOMAIN s : l[j] = s[k]
    BY <1>2, <2>0
  <2>2. PICK kp \in DOMAIN s, kq \in DOMAIN s : s[kp] = p /\ s[kq] = q
    BY <1>1, <2>0
  <2>3. CASE s[k] = p
    BY <1>2, <2>2, <2>3
  <2>4. CASE s[k] = q
    BY <1>2, <2>2, <2>4
  <2>5. QED
    BY <1>2, <2>3, <2>4
<1>7. b \in TabRecord /\ b.number = t.number /\ b.root = t.root /\ b.layout = l /\ b.focus = p /\ b.panes = t.panes
  BY <1>1, <1>3 DEF TabRecord
<1> HIDE DEF b
<1>8. TabOK(b)
  BY <1>1, <1>3, <1>4, <1>5, <1>6, <1>7 DEF TabOK
<1>9. QED
  BY <1>7, <1>8 DEF b, l, s

\* The panes that are lost leave the tab.
LEMMA RestoreTabOK ==
    ASSUME NEW t, TabOK(t), NEW lost, ~(t.panes \subseteq lost)
    PROVE  LET b == RestoreTab(t, lost)
           IN  TabOK(b) /\ b.number = t.number /\ b.panes = t.panes \ lost
<1> DEFINE s == t.layout
           K == {k \in DOMAIN s : s[k] \notin lost}
           l == Only(s, K)
           focus == IF t.focus \in lost THEN l[1] ELSE t.focus
           root == IF t.root \in lost THEN l[1] ELSE t.root
           b == RestoreTab(t, lost)
<1>1. /\ t \in TabRecord /\ s \in Seq(Nat) /\ t.panes \in SUBSET Nat /\ t.focus \in t.panes
      /\ Once(s) /\ ToSet(s) = t.panes /\ t.root \in t.panes /\ DOMAIN s = 1 .. Len(s) /\ Len(s) \in Nat
  BY TabFields DEF TabOK
<1>2. b = [t EXCEPT !.layout = l, !.panes = t.panes \ lost, !.focus = focus, !.root = root]
  BY DEF RestoreTab
<1> HIDE DEF s, b
<1>3. K \subseteq 1 .. Len(s)
  BY <1>1
<1>4. {s[k] : k \in K} = ToSet(s) \ lost
  BY DEF ToSet
<1> HIDE DEF K
<1>5. l \in Seq(Nat) /\ Once(l) /\ ToSet(l) = t.panes \ lost
  BY <1>1, <1>3, <1>4, OnlyFacts
<1>6. l[1] \in t.panes \ lost
  <2>1. l # <<>>
    BY <1>5 DEF ToSet
  <2> HIDE DEF l
  <2>2. 1 \in DOMAIN l
    BY <1>5, <2>1
  <2>3. QED
    BY <1>5, <2>2 DEF ToSet
<1> HIDE DEF l
<1>7. focus \in t.panes \ lost /\ root \in t.panes \ lost
  BY <1>1, <1>6
<1> HIDE DEF focus, root
<1>8. b \in TabRecord /\ b.number = t.number /\ b.root = root /\ b.layout = l /\ b.focus = focus /\ b.panes = t.panes \ lost
  BY <1>1, <1>2, <1>5, <1>7 DEF TabRecord
<1>9. TabOK(b)
  BY <1>5, <1>7, <1>8 DEF TabOK
<1>10. QED
  BY <1>8, <1>9 DEF b

-----------------------------------------------------------------------------
(* The tabs of a workspace.                                                *)

LEMMA PanesInFacts ==
    ASSUME NEW s, NEW p
    PROVE  p \in PanesIn(s) <=> \E i \in DOMAIN s : p \in s[i].panes
BY DEF PanesIn

LEMMA TabsOnce ==
    ASSUME NEW s, TabsOK(s)
    PROVE  Once(s)
BY DEF TabsOK, Once

\* Some of the tabs, in any order.
LEMMA TabsPicked ==
    ASSUME NEW s, TabsOK(s), NEW r \in Seq(TabRecord), Once(r), ToSet(r) \subseteq ToSet(s)
    PROVE  TabsOK(r) /\ \A k \in DOMAIN r : \E i \in DOMAIN s : r[k] = s[i]
<1>1. \A k \in DOMAIN r : \E i \in DOMAIN s : r[k] = s[i]
  BY DEF ToSet
<1>2. \A k \in DOMAIN r : TabOK(r[k])
  BY <1>1 DEF TabsOK
<1>3. ASSUME NEW k \in DOMAIN r, NEW l \in DOMAIN r, k # l
      PROVE  r[k].number # r[l].number /\ r[k].panes \cap r[l].panes = {}
  <2>1. PICK i \in DOMAIN s, j \in DOMAIN s : r[k] = s[i] /\ r[l] = s[j]
    BY <1>1
  <2>2. r[k] # r[l]
    BY <1>3 DEF Once
  <2>3. i # j
    BY <2>1, <2>2
  <2>4. QED
    BY <2>1, <2>3 DEF TabsOK
<1>4. QED
  BY <1>1, <1>2, <1>3 DEF TabsOK

LEMMA TabsRemoved ==
    ASSUME NEW s, TabsOK(s), NEW i \in DOMAIN s
    PROVE  /\ TabsOK(RemoveAt(s, i)) /\ PanesIn(RemoveAt(s, i)) = PanesIn(s) \ s[i].panes
           /\ Len(RemoveAt(s, i)) = Len(s) - 1
           /\ \A k \in DOMAIN RemoveAt(s, i) : \E j \in DOMAIN s : RemoveAt(s, i)[k] = s[j]
<1> DEFINE r == RemoveAt(s, i)
<1>1. s \in Seq(TabRecord) /\ Once(s) /\ i \in 1 .. Len(s)
  BY TabsOnce DEF TabsOK
<1>2. r \in Seq(TabRecord) /\ Len(r) = Len(s) - 1
  BY <1>1, RemoveAtFacts
<1>3. Once(r) /\ ToSet(r) = ToSet(s) \ {s[i]}
  BY <1>1, RemoveAtOnce
<1> HIDE DEF r
<1>4. TabsOK(r) /\ \A k \in DOMAIN r : \E j \in DOMAIN s : r[k] = s[j]
  BY <1>2, <1>3, TabsPicked
<1>5. ASSUME NEW p \in PanesIn(r) PROVE p \in PanesIn(s) \ s[i].panes
  <2>1. PICK k \in DOMAIN r : p \in r[k].panes
    BY <1>5, PanesInFacts
  <2>2. PICK j \in DOMAIN s : r[k] = s[j]
    BY <1>4
  <2>3. s[j] # s[i]
    BY <1>3, <2>2 DEF ToSet
  <2>4. s[i].panes \cap s[j].panes = {}
    BY <2>3 DEF TabsOK
  <2>5. QED
    BY <2>1, <2>2, <2>4, PanesInFacts
<1>6. ASSUME NEW p \in PanesIn(s), p \notin s[i].panes PROVE p \in PanesIn(r)
  <2>1. PICK j \in DOMAIN s : p \in s[j].panes
    BY <1>6, PanesInFacts
  <2>2. s[j] \in ToSet(r)
    BY <1>3, <1>6, <2>1 DEF ToSet
  <2>3. PICK k \in DOMAIN r : r[k] = s[j]
    BY <2>2 DEF ToSet
  <2>4. QED
    BY <2>1, <2>3, PanesInFacts
<1>7. PanesIn(r) = PanesIn(s) \ s[i].panes
  BY <1>5, <1>6
<1>8. QED
  BY <1>2, <1>4, <1>7 DEF r

LEMMA TabsAppended ==
    ASSUME NEW s, TabsOK(s), NEW t, TabOK(t), \A i \in DOMAIN s : s[i].number # t.number,
           t.panes \cap PanesIn(s) = {}
    PROVE  /\ TabsOK(Append(s, t)) /\ PanesIn(Append(s, t)) = PanesIn(s) \cup t.panes
           /\ Len(Append(s, t)) = Len(s) + 1 /\ DOMAIN Append(s, t) = 1 .. Len(s) + 1
           /\ Append(s, t)[Len(s) + 1] = t /\ \A i \in DOMAIN s : Append(s, t)[i] = s[i]
<1> DEFINE r == Append(s, t)
<1>1. s \in Seq(TabRecord) /\ t \in TabRecord /\ DOMAIN s = 1 .. Len(s) /\ Len(s) \in Nat
  BY DEF TabsOK, TabOK
<1>2. /\ r \in Seq(TabRecord) /\ Len(r) = Len(s) + 1 /\ DOMAIN r = 1 .. Len(s) + 1
      /\ r[Len(s) + 1] = t /\ \A i \in DOMAIN s : r[i] = s[i]
  BY <1>1
<1> HIDE DEF r
<1>3. \A i \in DOMAIN r : i = Len(s) + 1 \/ i \in DOMAIN s
  BY <1>1, <1>2
<1>4. \A i \in DOMAIN s : TabOK(s[i]) /\ s[i].panes \cap t.panes = {}
  BY PanesInFacts DEF TabsOK
<1>5. \A i \in DOMAIN r : TabOK(r[i])
  BY <1>2, <1>3, <1>4
<1>6. ASSUME NEW i \in DOMAIN r, NEW j \in DOMAIN r, i # j
      PROVE  r[i].number # r[j].number /\ r[i].panes \cap r[j].panes = {}
  <2>1. CASE i \in DOMAIN s /\ j \in DOMAIN s
    BY <1>2, <1>6, <2>1 DEF TabsOK
  <2>2. CASE i = Len(s) + 1 /\ j \in DOMAIN s
    BY <1>2, <1>4, <2>2
  <2>3. CASE i \in DOMAIN s /\ j = Len(s) + 1
    BY <1>2, <1>4, <2>3
  <2>4. QED
    BY <1>3, <1>6, <2>1, <2>2, <2>3
<1>7. TabsOK(r)
  BY <1>2, <1>5, <1>6 DEF TabsOK
<1>8. DOMAIN s \subseteq DOMAIN r /\ Len(s) + 1 \in DOMAIN r
  BY <1>1, <1>2
<1>9. ASSUME NEW p PROVE p \in PanesIn(r) <=> p \in PanesIn(s) \/ p \in t.panes
  BY <1>2, <1>3, <1>8, PanesInFacts
<1>10. PanesIn(r) = PanesIn(s) \cup t.panes
  BY <1>9
<1>11. QED
  BY <1>2, <1>7, <1>10 DEF r

\* Another tab in the place of one.
LEMMA TabsPut ==
    ASSUME NEW s, TabsOK(s), NEW i \in DOMAIN s, NEW t, TabOK(t), t.number = s[i].number,
           t.panes \cap (PanesIn(s) \ s[i].panes) = {}
    PROVE  LET r == [s EXCEPT ![i] = t]
           IN  /\ TabsOK(r) /\ PanesIn(r) = (PanesIn(s) \ s[i].panes) \cup t.panes
               /\ DOMAIN r = DOMAIN s /\ Len(r) = Len(s) /\ r[i] = t /\ \A j \in DOMAIN s : j # i => r[j] = s[j]
<1> DEFINE r == [s EXCEPT ![i] = t]
<1>1. s \in Seq(TabRecord) /\ t \in TabRecord /\ DOMAIN s = 1 .. Len(s) /\ Len(s) \in Nat
  BY DEF TabsOK, TabOK
<1>2. /\ r \in Seq(TabRecord) /\ DOMAIN r = DOMAIN s /\ Len(r) = Len(s)
      /\ r[i] = t /\ \A j \in DOMAIN s : j # i => r[j] = s[j]
  BY <1>1
<1> HIDE DEF r
<1>3. \A j \in DOMAIN s : j # i => s[j].panes \cap s[i].panes = {} /\ s[j].number # s[i].number
  BY DEF TabsOK
<1>4. \A j \in DOMAIN s : j # i => s[j].panes \cap t.panes = {}
  BY <1>3, PanesInFacts
<1>5. \A j \in DOMAIN r : TabOK(r[j])
  BY <1>2 DEF TabsOK
<1>6. ASSUME NEW k \in DOMAIN r, NEW l \in DOMAIN r, k # l
      PROVE  r[k].number # r[l].number /\ r[k].panes \cap r[l].panes = {}
  <2>1. CASE k # i /\ l # i
    BY <1>2, <1>6, <2>1 DEF TabsOK
  <2>2. CASE k = i
    BY <1>2, <1>3, <1>4, <1>6, <2>2
  <2>3. CASE l = i
    BY <1>2, <1>3, <1>4, <1>6, <2>3
  <2>4. QED
    BY <2>1, <2>2, <2>3
<1>7. TabsOK(r)
  BY <1>2, <1>5, <1>6 DEF TabsOK
<1>8. ASSUME NEW p PROVE p \in PanesIn(r) <=> (p \in PanesIn(s) /\ p \notin s[i].panes) \/ p \in t.panes
  BY <1>2, <1>3, PanesInFacts
<1>9. PanesIn(r) = (PanesIn(s) \ s[i].panes) \cup t.panes
  BY <1>8
<1>10. QED
  BY <1>2, <1>7, <1>9 DEF r

\* TabOf finds the tab of a pane.
LEMMA TabOfFacts ==
    ASSUME NEW w, NEW T, w.tabs \in Seq(T), NEW p
    PROVE  IF p \in PanesOf(w) THEN TabOf(w, p) \in DOMAIN w.tabs /\ p \in w.tabs[TabOf(w, p)].panes
           ELSE TabOf(w, p) = 0
<1> DEFINE s == w.tabs
           P == {i \in 1 .. Len(s) : p \in s[i].panes}
<1>1. TabOf(w, p) = IF P # {} THEN Min(P) ELSE 0
  BY DEF TabOf, SelectInSeq
<1>2. Len(s) \in Nat /\ DOMAIN s = 1 .. Len(s)
  OBVIOUS
<1>3. P # {} <=> p \in PanesOf(w)
  BY <1>2 DEF PanesOf
<1>4. CASE P # {}
  <2>1. Min(P) \in P
    BY <1>2, <1>4, FirstPosition
  <2>2. QED
    BY <1>1, <1>2, <1>3, <1>4, <2>1
<1>5. QED
  BY <1>1, <1>3, <1>4

-----------------------------------------------------------------------------
(* A workspace.                                                            *)

LEMMA NumberMapFacts ==
    ASSUME NEW f \in NumberMap
    PROVE  DOMAIN f \subseteq Nat /\ f = [p \in DOMAIN f |-> f[p]] /\ \A p \in DOMAIN f : f[p] \in Nat
<1>1. PICK D \in SUBSET Nat : f \in [D -> Nat]
  BY DEF NumberMap
<1>2. QED
  BY <1>1

LEMMA NumberMapBuilt ==
    ASSUME NEW D \in SUBSET Nat, NEW f \in [D -> Nat]
    PROVE  f \in NumberMap /\ DOMAIN f = D
BY DEF NumberMap

LEMMA SpaceFields ==
    ASSUME NEW w \in SpaceRecord
    PROVE  /\ w.id \in Nat /\ w.tabs \in Seq(TabRecord) /\ w.active_tab \in Nat /\ w.numbers \in NumberMap
           /\ w.next_pane \in Nat /\ w.next_tab \in Nat /\ w.space \in {"none", "main", "linked"}
BY DEF SpaceRecord

LEMMA PanesOfIn == \A w : PanesOf(w) = PanesIn(w.tabs)
BY DEF PanesOf, PanesIn

\* A workspace with other tabs and numbers.
LEMMA SpaceBuilt ==
    ASSUME NEW w \in SpaceRecord, NEW tabs \in Seq(TabRecord), NEW active_tab \in Nat, NEW numbers \in NumberMap,
           NEW next_pane \in Nat, NEW next_tab \in Nat
    PROVE  LET b == [w EXCEPT !.tabs = tabs, !.active_tab = active_tab, !.numbers = numbers,
                              !.next_pane = next_pane, !.next_tab = next_tab]
           IN  /\ b \in SpaceRecord /\ b.id = w.id /\ b.space = w.space /\ b.tabs = tabs /\ b.numbers = numbers
               /\ b.active_tab = active_tab /\ b.next_pane = next_pane /\ b.next_tab = next_tab
BY DEF SpaceRecord

\* What follows from SpaceOK, without quantifiers over tabs.
LEMMA SpaceFacts ==
    ASSUME NEW w, NEW X, NEW N \in Nat, SpaceOK(w, X, N)
    PROVE  /\ w \in SpaceRecord /\ w.tabs \in Seq(TabRecord) /\ DOMAIN w.tabs = 1 .. Len(w.tabs)
           /\ Len(w.tabs) \in Nat /\ TabsOK(w.tabs) /\ w.numbers \in NumberMap
           /\ DOMAIN w.numbers = PanesIn(w.tabs) \cup X /\ X \cap PanesIn(w.tabs) = {}
           /\ DOMAIN w.numbers \subseteq Nat /\ \A p \in DOMAIN w.numbers : w.numbers[p] \in Nat
           /\ \A p \in DOMAIN w.numbers : w.numbers[p] < w.next_pane
           /\ \A p, q \in DOMAIN w.numbers : w.numbers[p] = w.numbers[q] => p = q
           /\ w.next_pane \in Nat /\ w.next_tab \in Nat /\ w.id \in Nat /\ w.active_tab \in Nat
           /\ w.next_pane <= N + 1 /\ w.next_tab <= N + 1 /\ w.next_pane >= 1 /\ w.next_tab >= 1
<1>1. w \in SpaceRecord /\ TabsOK(w.tabs) /\ NumbersOK(w.numbers, PanesIn(w.tabs) \cup X, w.next_pane)
      /\ X \cap PanesIn(w.tabs) = {} /\ w.next_pane \in 1 .. N + 1 /\ w.next_tab \in 1 .. N + 1
  BY DEF SpaceOK
<1>2. w.tabs \in Seq(TabRecord) /\ w.numbers \in NumberMap /\ w.id \in Nat /\ w.active_tab \in Nat
  BY <1>1, SpaceFields
<1>3. DOMAIN w.numbers \subseteq Nat /\ \A p \in DOMAIN w.numbers : w.numbers[p] \in Nat
  BY <1>2, NumberMapFacts
<1>4. /\ DOMAIN w.numbers = PanesIn(w.tabs) \cup X
      /\ \A p \in DOMAIN w.numbers : w.numbers[p] < w.next_pane
      /\ \A p, q \in DOMAIN w.numbers : w.numbers[p] = w.numbers[q] => p = q
  BY <1>1 DEF NumbersOK
<1>5. DOMAIN w.tabs = 1 .. Len(w.tabs) /\ Len(w.tabs) \in Nat
  BY <1>2
<1>6. /\ w.next_pane \in Nat /\ w.next_tab \in Nat
      /\ w.next_pane <= N + 1 /\ w.next_tab <= N + 1 /\ w.next_pane >= 1 /\ w.next_tab >= 1
  BY <1>1
<1>7. QED
  BY <1>1, <1>2, <1>3, <1>4, <1>5, <1>6

LEMMA KinSame ==
    ASSUME NEW v, NEW w, w.id = v.id, w.next_pane = v.next_pane, v.next_pane \in Nat,
           DOMAIN w.numbers \subseteq DOMAIN v.numbers,
           \A p \in DOMAIN w.numbers : w.numbers[p] = v.numbers[p]
    PROVE  Kin(v, w)
BY DEF Kin

LEMMA KinTransitive ==
    ASSUME NEW u, NEW v, NEW w, Kin(u, v), Kin(v, w), u.next_pane \in Nat, v.next_pane \in Nat, w.next_pane \in Nat,
           DOMAIN w.numbers \cap DOMAIN u.numbers \subseteq DOMAIN v.numbers,
           \A p \in DOMAIN w.numbers : w.numbers[p] \in Nat
    PROVE  Kin(u, w)
<1>1. w.id = u.id /\ u.next_pane <= w.next_pane
  BY DEF Kin
<1>2. ASSUME NEW p \in DOMAIN w.numbers
      PROVE  IF p \in DOMAIN u.numbers THEN w.numbers[p] = u.numbers[p] ELSE u.next_pane <= w.numbers[p]
  <2>1. CASE p \in DOMAIN v.numbers
    BY <1>2, <2>1 DEF Kin
  <2>2. CASE p \notin DOMAIN v.numbers
    BY <1>2, <2>2 DEF Kin
  <2>3. QED
    BY <2>1, <2>2
<1>3. QED
  BY <1>1, <1>2 DEF Kin

\* A pane gets the next number.
LEMMA RegisterOK ==
    ASSUME NEW w, NEW X, NEW N \in Nat, SpaceOK(w, X, N), NEW p \in Nat, p \notin DOMAIN w.numbers, w.next_pane <= N
    PROVE  LET b == Register(w, p)
           IN  /\ SpaceOK(b, X \cup {p}, N) /\ Kin(w, b)
               /\ b.tabs = w.tabs /\ b.active_tab = w.active_tab /\ b.next_tab = w.next_tab /\ b.id = w.id
               /\ b.numbers = With(w.numbers, p, w.next_pane) /\ b.next_pane = w.next_pane + 1 /\ b.space = w.space
<1> DEFINE f == With(w.numbers, p, w.next_pane)
           n == w.next_pane + 1
           b == Register(w, p)
<1>1. /\ w \in SpaceRecord /\ w.tabs \in Seq(TabRecord) /\ w.numbers \in NumberMap
      /\ DOMAIN w.numbers = PanesIn(w.tabs) \cup X /\ X \cap PanesIn(w.tabs) = {}
      /\ DOMAIN w.numbers \subseteq Nat /\ \A q \in DOMAIN w.numbers : w.numbers[q] \in Nat
      /\ \A q \in DOMAIN w.numbers : w.numbers[q] < w.next_pane
      /\ \A q, r \in DOMAIN w.numbers : w.numbers[q] = w.numbers[r] => q = r
      /\ w.next_pane \in Nat /\ w.next_pane >= 1 /\ w.next_tab \in Nat /\ w.active_tab \in Nat
  BY SpaceFacts
<1>2. /\ DOMAIN f = DOMAIN w.numbers \cup {p} /\ f[p] = w.next_pane
      /\ \A q \in DOMAIN w.numbers : f[q] = w.numbers[q]
  BY DEF With
<1>3. f \in [DOMAIN w.numbers \cup {p} -> Nat]
  BY <1>1 DEF With
<1>4. f \in NumberMap
  <2>1. DOMAIN w.numbers \cup {p} \in SUBSET Nat
    BY <1>1
  <2> HIDE DEF f
  <2>2. QED
    BY <1>3, <2>1, NumberMapBuilt
<1>5. b = [w EXCEPT !.numbers = f, !.next_pane = n] /\ n \in Nat
  BY <1>1 DEF Register
<1> HIDE DEF f, b
<1>6. /\ b \in SpaceRecord /\ b.tabs = w.tabs /\ b.active_tab = w.active_tab /\ b.next_tab = w.next_tab
      /\ b.id = w.id /\ b.numbers = f /\ b.next_pane = n /\ b.space = w.space
  <2> HIDE DEF n
  <2>1. QED
    BY <1>1, <1>4, <1>5 DEF SpaceRecord
<1>7. NumbersOK(f, PanesIn(w.tabs) \cup (X \cup {p}), n)
  <2>1. DOMAIN f = PanesIn(w.tabs) \cup (X \cup {p})
    BY <1>1, <1>2
  <2>2. \A q \in DOMAIN f : f[q] < n
    BY <1>1, <1>2
  <2>3. \A q, r \in DOMAIN f : f[q] = f[r] => q = r
    BY <1>1, <1>2
  <2>4. QED
    BY <1>4, <2>1, <2>2, <2>3 DEF NumbersOK
<1>8. n \in 1 .. N + 1
  BY <1>1
<1>9. SpaceOK(b, X \cup {p}, N)
  BY <1>1, <1>6, <1>7, <1>8 DEF SpaceOK
<1>10. Kin(w, b)
  BY <1>1, <1>2, <1>6 DEF Kin
<1>11. QED
  BY <1>6, <1>9, <1>10 DEF b, f

\* Panes lose their numbers.
LEMMA UnregisterOK ==
    ASSUME NEW w, NEW X, NEW N \in Nat, SpaceOK(w, X, N), NEW P, P \subseteq X
    PROVE  LET b == Unregister(w, P)
           IN  /\ SpaceOK(b, X \ P, N) /\ Kin(w, b)
               /\ b.tabs = w.tabs /\ b.active_tab = w.active_tab /\ b.next_tab = w.next_tab /\ b.id = w.id
               /\ DOMAIN b.numbers = DOMAIN w.numbers \ P /\ b.next_pane = w.next_pane /\ b.space = w.space
               /\ \A q \in DOMAIN b.numbers : b.numbers[q] = w.numbers[q]
<1> DEFINE f == [q \in DOMAIN w.numbers \ P |-> w.numbers[q]]
           b == Unregister(w, P)
<1>1. /\ w \in SpaceRecord /\ w.tabs \in Seq(TabRecord) /\ w.numbers \in NumberMap
      /\ DOMAIN w.numbers = PanesIn(w.tabs) \cup X /\ X \cap PanesIn(w.tabs) = {}
      /\ DOMAIN w.numbers \subseteq Nat /\ \A q \in DOMAIN w.numbers : w.numbers[q] \in Nat
      /\ \A q \in DOMAIN w.numbers : w.numbers[q] < w.next_pane
      /\ \A q, r \in DOMAIN w.numbers : w.numbers[q] = w.numbers[r] => q = r
      /\ w.next_pane \in Nat
  BY SpaceFacts
<1>2. /\ DOMAIN f = DOMAIN w.numbers \ P /\ \A q \in DOMAIN f : f[q] = w.numbers[q]
      /\ f \in [DOMAIN w.numbers \ P -> Nat]
  BY <1>1
<1>3. f \in NumberMap
  BY <1>1, <1>2, NumberMapBuilt
<1>4. b = [w EXCEPT !.numbers = f]
  BY DEF Unregister
<1> HIDE DEF f, b
<1>5. /\ b \in SpaceRecord /\ b.tabs = w.tabs /\ b.active_tab = w.active_tab /\ b.next_tab = w.next_tab
      /\ b.id = w.id /\ b.numbers = f /\ b.next_pane = w.next_pane /\ b.space = w.space
  BY <1>1, <1>3, <1>4 DEF SpaceRecord
<1>6. NumbersOK(f, PanesIn(w.tabs) \cup (X \ P), w.next_pane)
  <2>1. DOMAIN f = PanesIn(w.tabs) \cup (X \ P)
    BY <1>1, <1>2
  <2>2. QED
    BY <1>1, <1>2, <1>3, <2>1 DEF NumbersOK
<1>7. SpaceOK(b, X \ P, N)
  BY <1>1, <1>5, <1>6 DEF SpaceOK
<1>8. Kin(w, b)
  BY <1>1, <1>2, <1>5, KinSame
<1>9. QED
  BY <1>2, <1>5, <1>7, <1>8 DEF b

\* A tab is taken out; its panes keep their numbers for now.
LEMMA WithoutTabOK ==
    ASSUME NEW w, NEW X, NEW N \in Nat, SpaceOK(w, X, N), NEW t \in DOMAIN w.tabs
    PROVE  LET b == WithoutTab(w, t)
           IN  /\ SpaceOK(b, X \cup w.tabs[t].panes, N) /\ Kin(w, b)
               /\ PanesIn(b.tabs) = PanesIn(w.tabs) \ w.tabs[t].panes /\ Len(b.tabs) = Len(w.tabs) - 1
               /\ b.next_tab = w.next_tab /\ b.next_pane = w.next_pane /\ b.numbers = w.numbers /\ b.id = w.id
               /\ b.space = w.space
<1> DEFINE s == w.tabs
           r == RemoveAt(s, t)
           at == IF r = <<>> THEN 1
                 ELSE IF w.active_tab > Len(r) THEN Len(r)
                 ELSE IF t <= w.active_tab /\ w.active_tab > 1 THEN w.active_tab - 1 ELSE w.active_tab
           b == WithoutTab(w, t)
<1>1. /\ w \in SpaceRecord /\ s \in Seq(TabRecord) /\ w.numbers \in NumberMap /\ TabsOK(s)
      /\ DOMAIN w.numbers = PanesIn(s) \cup X /\ X \cap PanesIn(s) = {} /\ DOMAIN s = 1 .. Len(s)
      /\ w.next_pane \in Nat /\ w.next_tab \in Nat /\ w.active_tab \in Nat /\ Len(s) \in Nat
  BY SpaceFacts
<1>2. s # <<>> => w.active_tab \in DOMAIN s
  BY DEF SpaceOK
<1>3. b = [w EXCEPT !.tabs = r, !.active_tab = at]
  BY DEF WithoutTab
<1>4. /\ TabsOK(r) /\ PanesIn(r) = PanesIn(s) \ s[t].panes /\ Len(r) = Len(s) - 1
      /\ \A k \in DOMAIN r : \E j \in DOMAIN s : r[k] = s[j]
  BY <1>1, TabsRemoved
<1> HIDE DEF r, b
<1>5. r \in Seq(TabRecord) /\ DOMAIN r = 1 .. Len(r) /\ Len(r) \in Nat
  BY <1>4 DEF TabsOK
<1>6. at \in Nat /\ (r # <<>> => at \in 1 .. Len(r))
  <2>1. CASE r = <<>>
    BY <2>1
  <2>2. CASE r # <<>>
    <3>1. Len(r) >= 1
      BY <1>5, <2>2
    <3>2. s # <<>>
      BY <1>1, <1>4, <3>1
    <3>3. w.active_tab \in 1 .. Len(s)
      BY <1>1, <1>2, <3>2
    <3> HIDE DEF s
    <3>4. QED
      BY <1>1, <1>4, <1>5, <2>2, <3>1, <3>3
  <2>3. QED
    BY <2>1, <2>2
<1> HIDE DEF at
<1>7. /\ b \in SpaceRecord /\ b.tabs = r /\ b.active_tab = at /\ b.next_tab = w.next_tab
      /\ b.id = w.id /\ b.numbers = w.numbers /\ b.next_pane = w.next_pane /\ b.space = w.space
  BY <1>1, <1>3, <1>5, <1>6 DEF SpaceRecord
<1>8. s[t].panes \subseteq PanesIn(s)
  BY PanesInFacts
<1>9. NumbersOK(w.numbers, PanesIn(r) \cup (X \cup s[t].panes), w.next_pane)
  <2>1. PanesIn(r) \cup (X \cup s[t].panes) = PanesIn(s) \cup X
    BY <1>4, <1>8
  <2>2. NumbersOK(w.numbers, PanesIn(s) \cup X, w.next_pane)
    BY DEF SpaceOK
  <2>3. QED
    BY <2>1, <2>2
<1>10. (X \cup s[t].panes) \cap PanesIn(r) = {}
  BY <1>1, <1>4
<1>11. \A k \in DOMAIN r : r[k].number \in 1 .. w.next_tab - 1
  BY <1>4 DEF SpaceOK
<1>12. SpaceOK(b, X \cup s[t].panes, N)
  BY <1>1, <1>4, <1>5, <1>6, <1>7, <1>9, <1>10, <1>11 DEF SpaceOK
<1>13. Kin(w, b)
  BY <1>1, <1>7, KinSame
<1>14. QED
  BY <1>4, <1>7, <1>12, <1>13 DEF b

\* A tab changes.  Panes may come in that have numbers, and go out.
LEMMA PutTabOK ==
    ASSUME NEW w, NEW X, NEW N \in Nat, SpaceOK(w, X, N), NEW t \in DOMAIN w.tabs,
           NEW u, TabOK(u), u.number = w.tabs[t].number, u.panes \ w.tabs[t].panes \subseteq X
    PROVE  LET b == [w EXCEPT !.tabs[t] = u]
           IN  /\ SpaceOK(b, (X \cup w.tabs[t].panes) \ u.panes, N) /\ Kin(w, b)
               /\ PanesIn(b.tabs) = (PanesIn(w.tabs) \ w.tabs[t].panes) \cup u.panes
               /\ DOMAIN b.tabs = DOMAIN w.tabs /\ Len(b.tabs) = Len(w.tabs) /\ b.tabs[t] = u
               /\ \A k \in DOMAIN w.tabs : k # t => b.tabs[k] = w.tabs[k]
               /\ b.active_tab = w.active_tab /\ b.next_tab = w.next_tab /\ b.next_pane = w.next_pane
               /\ b.numbers = w.numbers /\ b.id = w.id /\ b.space = w.space
<1> DEFINE s == w.tabs
           r == [s EXCEPT ![t] = u]
           b == [w EXCEPT !.tabs[t] = u]
           Y == (X \cup s[t].panes) \ u.panes
<1>1. /\ w \in SpaceRecord /\ s \in Seq(TabRecord) /\ w.numbers \in NumberMap /\ TabsOK(s)
      /\ DOMAIN w.numbers = PanesIn(s) \cup X /\ X \cap PanesIn(s) = {} /\ DOMAIN s = 1 .. Len(s)
      /\ w.next_pane \in Nat /\ w.next_tab \in Nat /\ w.active_tab \in Nat /\ Len(s) \in Nat
  BY SpaceFacts
<1>2. b = [w EXCEPT !.tabs = r]
  BY <1>1 DEF SpaceRecord
<1>3. u.panes \cap (PanesIn(s) \ s[t].panes) = {}
  BY <1>1
<1>4. /\ TabsOK(r) /\ PanesIn(r) = (PanesIn(s) \ s[t].panes) \cup u.panes
      /\ DOMAIN r = DOMAIN s /\ Len(r) = Len(s) /\ r[t] = u /\ \A k \in DOMAIN s : k # t => r[k] = s[k]
  BY <1>1, <1>3, TabsPut
<1> HIDE DEF r, b
<1>5. r \in Seq(TabRecord)
  BY <1>4 DEF TabsOK
<1>6. /\ b \in SpaceRecord /\ b.tabs = r /\ b.active_tab = w.active_tab /\ b.next_tab = w.next_tab
      /\ b.id = w.id /\ b.numbers = w.numbers /\ b.next_pane = w.next_pane /\ b.space = w.space
  BY <1>1, <1>2, <1>5 DEF SpaceRecord
<1>7. s[t].panes \subseteq PanesIn(s)
  BY PanesInFacts
<1>8. NumbersOK(w.numbers, PanesIn(r) \cup Y, w.next_pane)
  <2>1. PanesIn(r) \cup Y = PanesIn(s) \cup X
    BY <1>4, <1>7
  <2>2. NumbersOK(w.numbers, PanesIn(s) \cup X, w.next_pane)
    BY DEF SpaceOK
  <2>3. QED
    BY <2>1, <2>2
<1>9. Y \cap PanesIn(r) = {}
  BY <1>1, <1>4
<1>10. \A k \in DOMAIN r : r[k].number \in 1 .. w.next_tab - 1
  <2>1. \A k \in DOMAIN s : s[k].number \in 1 .. w.next_tab - 1
    BY DEF SpaceOK
  <2>2. QED
    BY <1>4, <2>1
<1>11. r # <<>> /\ w.active_tab \in DOMAIN r
  <2>1. s # <<>>
    BY <1>1
  <2>2. w.active_tab \in DOMAIN s
    BY <2>1 DEF SpaceOK
  <2>3. QED
    BY <1>4, <2>2
<1> HIDE DEF Y
<1>12. SpaceOK(b, Y, N)
  BY <1>1, <1>4, <1>6, <1>8, <1>9, <1>10, <1>11 DEF SpaceOK
<1>13. Kin(w, b)
  BY <1>1, <1>6, KinSame
<1>14. QED
  BY <1>4, <1>6, <1>12, <1>13 DEF b, Y

\* Another tab is shown.
LEMMA ShowTabOK ==
    ASSUME NEW w, NEW X, NEW N \in Nat, SpaceOK(w, X, N), NEW t \in DOMAIN w.tabs
    PROVE  LET b == [w EXCEPT !.active_tab = t]
           IN  /\ SpaceOK(b, X, N) /\ Kin(w, b) /\ b.tabs = w.tabs /\ b.next_tab = w.next_tab
               /\ b.next_pane = w.next_pane /\ b.numbers = w.numbers /\ b.id = w.id /\ b.active_tab = t
<1> DEFINE b == [w EXCEPT !.active_tab = t]
<1>1. w \in SpaceRecord /\ w.next_pane \in Nat /\ t \in Nat
  BY SpaceFacts
<1>2. /\ b \in SpaceRecord /\ b.tabs = w.tabs /\ b.next_tab = w.next_tab /\ b.next_pane = w.next_pane
      /\ b.numbers = w.numbers /\ b.id = w.id /\ b.active_tab = t
  BY <1>1 DEF SpaceRecord
<1> HIDE DEF b
<1>3. SpaceOK(b, X, N)
  BY <1>2 DEF SpaceOK
<1>4. Kin(w, b)
  BY <1>1, <1>2, KinSame
<1>5. QED
  BY <1>2, <1>3, <1>4 DEF b

\* A workspace with one pane.
LEMMA NewWorkspaceOK ==
    ASSUME NEW id \in Nat, NEW p \in Nat, NEW N \in Nat \ {0}
    PROVE  LET w == NewWorkspace(id, p)
           IN  /\ SpaceOK(w, {}, N) /\ w.id = id /\ PanesIn(w.tabs) = {p} /\ w.tabs # <<>> /\ w.space = "none"
               /\ DOMAIN w.numbers = {p} /\ w.numbers[p] = 1 /\ w.next_pane = 2 /\ Len(w.tabs) = 1
<1> DEFINE t == NewTab(1, p)
           s == <<t>>
           f == [q \in {p} |-> 1]
           w == NewWorkspace(id, p)
<1>1. TabOK(t) /\ t.number = 1 /\ t.panes = {p}
  BY NewTabOK
<1> HIDE DEF t
<1>2. s \in Seq(TabRecord) /\ DOMAIN s = {1} /\ s[1] = t /\ s # <<>> /\ Len(s) = 1
  BY <1>1 DEF TabOK
<1>3. w = [id |-> id, tabs |-> s, active_tab |-> 1, numbers |-> f, next_pane |-> 2, next_tab |-> 2, space |-> "none"]
  BY DEF NewWorkspace, t
<1> HIDE DEF s, w
<1>4. TabsOK(s)
  BY <1>1, <1>2 DEF TabsOK
<1>5. PanesIn(s) = {p}
  BY <1>1, <1>2 DEF PanesIn
<1>6. DOMAIN f = {p} /\ f[p] = 1 /\ f \in [{p} -> Nat] /\ {p} \in SUBSET Nat
  OBVIOUS
<1> HIDE DEF f
<1>7. f \in NumberMap
  BY <1>6, NumberMapBuilt
<1>8. /\ w \in SpaceRecord /\ w.id = id /\ w.tabs = s /\ w.active_tab = 1 /\ w.numbers = f /\ w.next_pane = 2
      /\ w.next_tab = 2 /\ w.space = "none"
  BY <1>2, <1>3, <1>7 DEF SpaceRecord
<1>9. NumbersOK(f, PanesIn(s) \cup {}, 2)
  BY <1>5, <1>6, <1>7 DEF NumbersOK
<1>10. \A k \in DOMAIN s : s[k].number \in 1 .. 2 - 1
  BY <1>1, <1>2
<1>11. 2 \in 1 .. N + 1 /\ 1 \in DOMAIN s
  BY <1>2
<1>12. SpaceOK(w, {}, N)
  BY <1>4, <1>8, <1>9, <1>10, <1>11 DEF SpaceOK
<1>13. QED
  BY <1>2, <1>5, <1>6, <1>8, <1>12 DEF w

\* The workspace of a repository is marked.
LEMMA MarkedOK ==
    ASSUME NEW w, NEW X, NEW N \in Nat, SpaceOK(w, X, N), NEW space \in {"none", "main", "linked"}
    PROVE  LET b == [w EXCEPT !.space = space]
           IN  /\ SpaceOK(b, X, N) /\ Kin(w, b) /\ b.tabs = w.tabs /\ b.numbers = w.numbers /\ b.id = w.id
               /\ b.next_pane = w.next_pane
<1> DEFINE b == [w EXCEPT !.space = space]
<1>1. w \in SpaceRecord /\ w.next_pane \in Nat
  BY SpaceFacts
<1>2. /\ b \in SpaceRecord /\ b.tabs = w.tabs /\ b.next_tab = w.next_tab /\ b.next_pane = w.next_pane
      /\ b.numbers = w.numbers /\ b.id = w.id /\ b.active_tab = w.active_tab
  BY <1>1 DEF SpaceRecord
<1> HIDE DEF b
<1>3. SpaceOK(b, X, N)
  BY <1>2 DEF SpaceOK
<1>4. Kin(w, b)
  BY <1>1, <1>2, KinSame
<1>5. QED
  BY <1>2, <1>3, <1>4 DEF b

\* A tab number is used up.
LEMMA SkipTabOK ==
    ASSUME NEW w, NEW X, NEW N \in Nat, SpaceOK(w, X, N), w.next_tab <= N
    PROVE  LET b == [w EXCEPT !.next_tab = w.next_tab + 1]
           IN  /\ SpaceOK(b, X, N) /\ Kin(w, b) /\ b.tabs = w.tabs /\ b.numbers = w.numbers /\ b.id = w.id
               /\ b.next_pane = w.next_pane
<1> DEFINE n == w.next_tab + 1
           b == [w EXCEPT !.next_tab = n]
<1>1. /\ w \in SpaceRecord /\ w.next_pane \in Nat /\ w.next_tab \in Nat /\ w.next_tab >= 1 /\ TabsOK(w.tabs)
  BY SpaceFacts
<1>2. n \in Nat /\ n \in 1 .. N + 1 /\ \A k \in 1 .. w.next_tab - 1 : k \in 1 .. n - 1
  BY <1>1
<1> HIDE DEF n
<1>3. /\ b \in SpaceRecord /\ b.tabs = w.tabs /\ b.next_tab = n /\ b.next_pane = w.next_pane
      /\ b.numbers = w.numbers /\ b.id = w.id /\ b.active_tab = w.active_tab
  BY <1>1, <1>2 DEF SpaceRecord
<1> HIDE DEF b
<1>4. SpaceOK(b, X, N)
  BY <1>2, <1>3 DEF SpaceOK
<1>5. Kin(w, b)
  BY <1>1, <1>3, KinSame
<1>6. QED
  BY <1>3, <1>4, <1>5 DEF b, n

\* A numbered pane that is in no tab gets one.
TabAdded(w, p) == [w EXCEPT !.tabs = Append(w.tabs, NewTab(w.next_tab, p)), !.next_tab = w.next_tab + 1]

LEMMA TabAddedFacts ==
    ASSUME NEW w \in SpaceRecord, NEW p \in Nat
    PROVE  LET b == TabAdded(w, p)
           IN  /\ b.numbers = w.numbers /\ b.id = w.id /\ b.next_pane = w.next_pane /\ b.space = w.space
               /\ b.active_tab = w.active_tab /\ b.next_tab = w.next_tab + 1
               /\ Len(b.tabs) = Len(w.tabs) + 1 /\ \A k \in DOMAIN w.tabs : b.tabs[k] = w.tabs[k]
               /\ PanesIn(b.tabs) = PanesIn(w.tabs) \cup {p}
<1> DEFINE t == NewTab(w.next_tab, p)
           s == w.tabs
           r == Append(s, t)
           b == TabAdded(w, p)
<1>1. t \in TabRecord /\ t.panes = {p}
  <2>1. w.next_tab \in Nat
    BY SpaceFields
  <2>2. QED
    BY <2>1, NewTabOK DEF TabOK
<1>2. s \in Seq(TabRecord)
  BY SpaceFields
<1>3. /\ b.numbers = w.numbers /\ b.id = w.id /\ b.next_pane = w.next_pane /\ b.space = w.space
      /\ b.active_tab = w.active_tab /\ b.next_tab = w.next_tab + 1 /\ b.tabs = r
  BY DEF TabAdded, SpaceRecord
<1> HIDE DEF t, s, b
<1>4. /\ Len(r) = Len(s) + 1 /\ DOMAIN s = 1 .. Len(s) /\ Len(s) \in Nat
      /\ DOMAIN r = 1 .. Len(s) + 1 /\ \A k \in DOMAIN s : r[k] = s[k]
      /\ r[Len(s) + 1] = t
  BY <1>1, <1>2
<1> HIDE DEF r
<1>5. \A k \in DOMAIN r : k = Len(s) + 1 \/ k \in DOMAIN s
  BY <1>4
<1>6. DOMAIN s \subseteq DOMAIN r /\ Len(s) + 1 \in DOMAIN r
  BY <1>4
<1>7. \A q : q \in PanesIn(r) <=> q \in PanesIn(s) \/ q \in t.panes
  BY <1>4, <1>5, <1>6, PanesInFacts
<1>8. PanesIn(r) = PanesIn(s) \cup {p}
  BY <1>1, <1>7
<1>9. QED
  BY <1>3, <1>4, <1>8 DEF b, s

LEMMA TabAddedOK ==
    ASSUME NEW w, NEW X, NEW N \in Nat, SpaceOK(w, X, N), NEW p \in X, w.next_tab <= N,
           w.tabs = <<>> => w.active_tab = 1
    PROVE  LET b == TabAdded(w, p)
           IN  SpaceOK(b, X \ {p}, N) /\ Kin(w, b)
<1> DEFINE s == w.tabs
           t == NewTab(w.next_tab, p)
           r == Append(s, t)
           n == w.next_tab + 1
           b == TabAdded(w, p)
<1>0. b = [w EXCEPT !.tabs = r, !.next_tab = n]
  BY DEF TabAdded
<1> HIDE DEF b
<1>1. /\ w \in SpaceRecord /\ s \in Seq(TabRecord) /\ w.numbers \in NumberMap /\ TabsOK(s)
      /\ DOMAIN w.numbers = PanesIn(s) \cup X /\ X \cap PanesIn(s) = {} /\ DOMAIN s = 1 .. Len(s)
      /\ w.next_pane \in Nat /\ w.next_tab \in Nat /\ w.active_tab \in Nat /\ Len(s) \in Nat
      /\ DOMAIN w.numbers \subseteq Nat /\ w.next_tab >= 1
  BY SpaceFacts
<1>2. TabOK(t) /\ t.number = w.next_tab /\ t.panes = {p}
  <2>1. p \in Nat
    BY <1>1
  <2>2. QED
    BY <1>1, <2>1, NewTabOK
<1> HIDE DEF t, s
<1>3. \A k \in DOMAIN s : s[k].number \in 1 .. w.next_tab - 1
  BY DEF SpaceOK, s
<1>4. \A k \in DOMAIN s : s[k].number # t.number
  BY <1>1, <1>2, <1>3
<1>5. t.panes \cap PanesIn(s) = {}
  BY <1>1, <1>2
<1>6. /\ TabsOK(r) /\ PanesIn(r) = PanesIn(s) \cup t.panes
      /\ Len(r) = Len(s) + 1 /\ DOMAIN r = 1 .. Len(s) + 1
      /\ r[Len(s) + 1] = t /\ \A i \in DOMAIN s : r[i] = s[i]
  BY <1>1, <1>2, <1>4, <1>5, TabsAppended
<1> HIDE DEF r
<1>7. r \in Seq(TabRecord)
  BY <1>6 DEF TabsOK
<1>8. n \in Nat /\ n \in 1 .. N + 1 /\ w.next_tab \in 1 .. n - 1 /\ \A k \in 1 .. w.next_tab - 1 : k \in 1 .. n - 1
  BY <1>1
<1> HIDE DEF n
<1>9. /\ b \in SpaceRecord /\ b.tabs = r /\ b.active_tab = w.active_tab /\ b.next_tab = n
      /\ b.id = w.id /\ b.numbers = w.numbers /\ b.next_pane = w.next_pane /\ b.space = w.space
  BY <1>0, <1>1, <1>7, <1>8 DEF SpaceRecord
<1>10. \A k \in DOMAIN r : r[k].number \in 1 .. n - 1
  <2>1. \A k \in DOMAIN r : k = Len(s) + 1 \/ k \in DOMAIN s
    BY <1>1, <1>6
  <2>2. QED
    BY <1>2, <1>3, <1>6, <1>8, <2>1
<1>11. NumbersOK(w.numbers, PanesIn(r) \cup (X \ {p}), w.next_pane)
  <2>1. PanesIn(r) \cup (X \ {p}) = PanesIn(s) \cup X
    BY <1>2, <1>6
  <2>2. NumbersOK(w.numbers, PanesIn(s) \cup X, w.next_pane)
    BY DEF SpaceOK, s
  <2>3. QED
    BY <2>1, <2>2
<1>12. (X \ {p}) \cap PanesIn(r) = {}
  BY <1>1, <1>2, <1>6
<1>13. w.active_tab \in DOMAIN r => SpaceOK(b, X \ {p}, N)
  <2>1. w.next_pane \in 1 .. N + 1
    BY DEF SpaceOK
  <2>2. QED
    BY <1>6, <1>8, <1>9, <1>10, <1>11, <1>12, <2>1 DEF SpaceOK
<1>14. s # <<>> => w.active_tab \in DOMAIN s
  BY DEF SpaceOK, s
<1>15. w.active_tab \in DOMAIN r
  BY <1>1, <1>6, <1>14 DEF s
<1>16. Kin(w, b)
  BY <1>1, <1>9, KinSame
<1>17. QED
  BY <1>2, <1>6, <1>9, <1>13, <1>15, <1>16 DEF b, r, n, s, t

\* A pane is numbered, if it has no number from before.
Numbered(w, p) == IF p \in DOMAIN w.numbers THEN w ELSE Register(w, p)

LEMMA NumberedFacts ==
    ASSUME NEW w \in SpaceRecord, NEW p
    PROVE  LET v == Numbered(w, p)
           IN  /\ v.tabs = w.tabs /\ v.active_tab = w.active_tab /\ v.id = w.id /\ v.next_tab = w.next_tab
               /\ v.space = w.space
               /\ v.next_pane = IF p \in DOMAIN w.numbers THEN w.next_pane ELSE w.next_pane + 1
               /\ v.numbers = IF p \in DOMAIN w.numbers THEN w.numbers ELSE With(w.numbers, p, w.next_pane)
BY DEF Numbered, Register, SpaceRecord

LEMMA NumberedOK ==
    ASSUME NEW w, NEW X, NEW N \in Nat, SpaceOK(w, X, N), NEW p \in Nat, X \subseteq {p},
           p \notin PanesIn(w.tabs), p \in X \/ w.next_pane <= N, NEW Z, Z = {p}
    PROVE  SpaceOK(Numbered(w, p), Z, N) /\ Kin(w, Numbered(w, p))
<1>1. DOMAIN w.numbers = PanesIn(w.tabs) \cup X /\ w.next_pane \in Nat
  BY SpaceFacts
<1>2. CASE p \in X
  <2>1. X = Z /\ Numbered(w, p) = w
    BY <1>1, <1>2 DEF Numbered
  <2>2. Kin(w, w)
    BY <1>1, KinSame
  <2>3. QED
    BY <2>1, <2>2
<1>3. CASE p \notin X
  <2>1. Numbered(w, p) = Register(w, p) /\ X \cup {p} = Z /\ w.next_pane <= N /\ p \notin DOMAIN w.numbers
    BY <1>1, <1>3 DEF Numbered
  <2>2. SpaceOK(Register(w, p), X \cup {p}, N) /\ Kin(w, Register(w, p))
    <3>1. w.next_pane <= N /\ p \notin DOMAIN w.numbers
      BY <2>1
    <3>2. QED
      BY <3>1, RegisterOK
  <2>3. QED
    BY <2>1, <2>2
<1>4. QED
  BY <1>2, <1>3

\* What becomes of a workspace that gets a tab with a pane, and of one that loses panes.
GainsTab(w, p, b, N) ==
    /\ SpaceOK(b, {}, N) /\ Kin(w, b) /\ PanesIn(b.tabs) = PanesIn(w.tabs) \cup {p}
    /\ Len(b.tabs) = Len(w.tabs) + 1 /\ b.id = w.id /\ b.numbers = Numbered(w, p).numbers
    /\ b.active_tab = w.active_tab /\ \A k \in DOMAIN w.tabs : b.tabs[k] = w.tabs[k]
    /\ b.next_pane = Numbered(w, p).next_pane /\ b.next_tab = w.next_tab + 1
Loses(w, P, b, N) ==
    SpaceOK(b, {}, N) /\ Kin(w, b) /\ b.id = w.id /\ PanesIn(b.tabs) = PanesIn(w.tabs) \ P

\* A tab for a pane that is new in the workspace, or on its way inside it.
LEMMA AddTabOK ==
    ASSUME NEW w, NEW X, NEW N \in Nat, SpaceOK(w, X, N), NEW p \in Nat, w.next_tab <= N, X \subseteq {p},
           p \notin PanesIn(w.tabs), p \in X \/ w.next_pane <= N,
           w.tabs = <<>> => w.active_tab = 1
    PROVE  GainsTab(w, p, AddTab(w, p), N)
<1> DEFINE v == Numbered(w, p)
           b == AddTab(w, p)
           Z == {p}
<1>1. /\ SpaceOK(v, Z, N) /\ Kin(w, v) /\ v.tabs = w.tabs /\ v.active_tab = w.active_tab /\ v.id = w.id
      /\ v.next_tab = w.next_tab
  <2>1. Z = {p}
    OBVIOUS
  <2> HIDE DEF Z, v
  <2>2. SpaceOK(v, Z, N) /\ Kin(w, v)
    BY <2>1, NumberedOK DEF v
  <2>3. w \in SpaceRecord
    BY SpaceFacts
  <2>4. QED
    BY <2>2, <2>3, NumberedFacts DEF v
<1> HIDE DEF v
<1>2. b = TabAdded(v, p)
  BY <1>1, Zenon DEF AddTab, TabAdded, Numbered, v
<1> HIDE DEF b
<1>3. p \in Z /\ v.next_tab <= N /\ (v.tabs = <<>> => v.active_tab = 1)
  BY <1>1
<1> HIDE DEF Z
<1>4. SpaceOK(b, Z \ {p}, N) /\ Kin(v, b)
  BY <1>1, <1>2, <1>3, TabAddedOK
<1>5. v \in SpaceRecord
  BY <1>1, SpaceFacts
<1>6. /\ b.numbers = v.numbers /\ b.id = v.id /\ b.next_pane = v.next_pane
      /\ b.active_tab = v.active_tab /\ b.next_tab = v.next_tab + 1
      /\ Len(b.tabs) = Len(v.tabs) + 1 /\ \A k \in DOMAIN v.tabs : b.tabs[k] = v.tabs[k]
      /\ PanesIn(b.tabs) = PanesIn(v.tabs) \cup {p}
  BY <1>2, <1>5, TabAddedFacts
<1>7. Z \ {p} = {}
  BY DEF Z
<1>8. Kin(w, b)
  BY <1>1, <1>4, <1>6 DEF Kin
<1>9. QED
  BY <1>1, <1>4, <1>6, <1>7, <1>8 DEF b, v, GainsTab

\* A pane comes into a tab.
LEMMA ArriveTabOK ==
    ASSUME NEW w, NEW X, NEW N \in Nat, SpaceOK(w, X, N), NEW p \in Nat, X \subseteq {p},
           p \notin PanesIn(w.tabs), p \in X \/ w.next_pane <= N,
           NEW t \in DOMAIN w.tabs, NEW u, TabOK(u), u.number = w.tabs[t].number, u.panes = w.tabs[t].panes \cup {p}
    PROVE  LET b == [Numbered(w, p) EXCEPT !.tabs[t] = u]
           IN  /\ SpaceOK(b, {}, N) /\ Kin(w, b) /\ PanesIn(b.tabs) = PanesIn(w.tabs) \cup {p}
               /\ DOMAIN b.tabs = DOMAIN w.tabs /\ Len(b.tabs) = Len(w.tabs) /\ b.tabs[t] = u /\ b.id = w.id
               /\ b.numbers = Numbered(w, p).numbers /\ b.next_pane = Numbered(w, p).next_pane
               /\ b.active_tab = w.active_tab /\ \A k \in DOMAIN w.tabs : k # t => b.tabs[k] = w.tabs[k]
<1> DEFINE v == Numbered(w, p)
           b == [v EXCEPT !.tabs[t] = u]
           Z == {p}
<1>1. /\ SpaceOK(v, Z, N) /\ Kin(w, v) /\ v.tabs = w.tabs /\ v.active_tab = w.active_tab /\ v.id = w.id
  <2>1. Z = {p}
    OBVIOUS
  <2> HIDE DEF Z, v
  <2>2. SpaceOK(v, Z, N) /\ Kin(w, v)
    BY <2>1, NumberedOK DEF v
  <2>3. w \in SpaceRecord
    BY SpaceFacts
  <2>4. QED
    BY <2>2, <2>3, NumberedFacts DEF v
<1> HIDE DEF v
<1>2. t \in DOMAIN v.tabs /\ u.number = v.tabs[t].number /\ u.panes \ v.tabs[t].panes \subseteq Z
  BY <1>1
<1>3. (Z \cup v.tabs[t].panes) \ u.panes = {} /\ w.tabs[t].panes \subseteq PanesIn(w.tabs)
  BY <1>1, PanesInFacts
<1> HIDE DEF Z
<1>4. /\ SpaceOK(b, (Z \cup v.tabs[t].panes) \ u.panes, N) /\ Kin(v, b)
      /\ PanesIn(b.tabs) = (PanesIn(v.tabs) \ v.tabs[t].panes) \cup u.panes
      /\ DOMAIN b.tabs = DOMAIN v.tabs /\ Len(b.tabs) = Len(v.tabs) /\ b.tabs[t] = u
      /\ \A k \in DOMAIN v.tabs : k # t => b.tabs[k] = v.tabs[k]
      /\ b.active_tab = v.active_tab /\ b.next_pane = v.next_pane
      /\ b.numbers = v.numbers /\ b.id = v.id
  BY <1>1, <1>2, PutTabOK
<1> HIDE DEF b
<1>5. Kin(w, b)
  BY <1>1, <1>4 DEF Kin
<1>6. SpaceOK(b, {}, N)
  BY <1>3, <1>4
<1>7. PanesIn(b.tabs) = PanesIn(w.tabs) \cup {p}
  BY <1>1, <1>3, <1>4
<1>8. QED
  BY <1>1, <1>4, <1>5, <1>6, <1>7 DEF b, v

LEMMA UnregisterFacts ==
    ASSUME NEW w \in SpaceRecord, NEW P
    PROVE  LET b == Unregister(w, P)
           IN  /\ b.tabs = w.tabs /\ b.active_tab = w.active_tab /\ b.next_tab = w.next_tab /\ b.id = w.id
               /\ b.next_pane = w.next_pane /\ b.space = w.space
               /\ b.numbers = [q \in DOMAIN w.numbers \ P |-> w.numbers[q]]
BY DEF Unregister, SpaceRecord

LEMMA UnregisterAll ==
    ASSUME NEW w, NEW X, NEW N \in Nat, SpaceOK(w, X, N), NEW P, P \subseteq X, NEW Y, Y = X \ P
    PROVE  SpaceOK(Unregister(w, P), Y, N) /\ Kin(w, Unregister(w, P))
<1>1. SpaceOK(Unregister(w, P), X \ P, N) /\ Kin(w, Unregister(w, P))
  BY UnregisterOK
<1>2. QED
  BY <1>1

\* A tab and the numbers of its panes go.
LEMMA CloseTabOK ==
    ASSUME NEW w, NEW N \in Nat, SpaceOK(w, {}, N), NEW t \in DOMAIN w.tabs
    PROVE  LET b == CloseTab(w, t)
           IN  Loses(w, w.tabs[t].panes, b, N) /\ Len(b.tabs) = Len(w.tabs) - 1
<1> DEFINE P == w.tabs[t].panes
           Q == {} \cup P
           v == WithoutTab(w, t)
           b == CloseTab(w, t)
<1>1. /\ SpaceOK(v, Q, N) /\ Kin(w, v) /\ v.id = w.id
      /\ PanesIn(v.tabs) = PanesIn(w.tabs) \ P /\ Len(v.tabs) = Len(w.tabs) - 1
  BY WithoutTabOK
<1>2. P \subseteq Q /\ {} = Q \ P
  OBVIOUS
<1>3. b = Unregister(v, P)
  BY DEF CloseTab
<1> HIDE DEF P, Q, v, b
<1>4. /\ SpaceOK(b, {}, N) /\ Kin(v, b) /\ b.tabs = v.tabs /\ b.id = v.id
      /\ DOMAIN b.numbers = DOMAIN v.numbers \ P
  <2>1. SpaceOK(b, {}, N) /\ Kin(v, b)
    BY <1>1, <1>2, <1>3, UnregisterAll
  <2>2. v \in SpaceRecord
    BY <1>1, SpaceFacts
  <2>3. b.tabs = v.tabs /\ b.id = v.id /\ b.numbers = [q \in DOMAIN v.numbers \ P |-> v.numbers[q]]
    BY <1>3, <2>2, UnregisterFacts
  <2>4. QED
    BY <2>1, <2>3
<1>5. w.next_pane \in Nat /\ v.next_pane \in Nat /\ b.next_pane \in Nat /\ \A p \in DOMAIN b.numbers : b.numbers[p] \in Nat
  BY <1>1, <1>4, SpaceFacts
<1>6. Kin(w, b)
  BY <1>1, <1>4, <1>5, KinTransitive
<1>7. QED
  BY <1>1, <1>4, <1>6 DEF P, b, Loses

\* The workspace that is left.
IsTaken(w, p, Z, N, b) ==
    /\ SpaceOK(b, Z, N) /\ Kin(w, b) /\ PanesIn(b.tabs) = PanesIn(w.tabs) \ Z
    /\ b.numbers = w.numbers /\ b.id = w.id /\ b.next_pane = w.next_pane /\ b.next_tab = w.next_tab
    /\ b.tabs = <<>> => b.active_tab = 1

\* A pane leaves its tab, and the tab goes with the last one.
LEMMA TakeOK ==
    ASSUME NEW w, NEW N \in Nat, SpaceOK(w, {}, N), NEW p \in PanesIn(w.tabs), NEW Z, Z = {p}
    PROVE  IsTaken(w, p, Z, N, Take(w, p)) /\ (Take(w, p).tabs = <<>> <=> LastPane(w, p))
<1> DEFINE t == TabOf(w, p)
           tab == w.tabs[t]
           b == Take(w, p)
<1>1. /\ w.tabs \in Seq(TabRecord) /\ TabsOK(w.tabs) /\ Len(w.tabs) \in Nat /\ DOMAIN w.tabs = 1 .. Len(w.tabs)
  BY SpaceFacts
<1>2. t \in DOMAIN w.tabs /\ p \in tab.panes
  BY <1>1, PanesOfIn, TabOfFacts
<1>3. TabOK(tab)
  BY <1>1, <1>2 DEF TabsOK
<1> DEFINE with(v) == [w EXCEPT !.tabs[t] = v]
<1>4. b = IF Len(tab.layout) = 1 THEN WithoutTab(w, t) ELSE with(Detach(tab, p))
  BY <1>1, <1>2 DEF Take
<1> HIDE DEF t, b, with
<1>5. Len(w.tabs) = 1 => t = 1
  BY <1>1, <1>2
<1>6. CASE Len(tab.layout) = 1
  <2>1. tab.panes = Z
    <3>1. tab.layout \in Seq(Nat) /\ ToSet(tab.layout) = tab.panes
      BY <1>3, TabFields DEF TabOK
    <3>2. DOMAIN tab.layout = {1}
      BY <1>6, <3>1
    <3>3. QED
      BY <1>2, <3>1, <3>2 DEF ToSet
  <2>2. b = WithoutTab(w, t)
    BY <1>4, <1>6
  <2>3. /\ SpaceOK(b, {} \cup tab.panes, N) /\ Kin(w, b)
        /\ PanesIn(b.tabs) = PanesIn(w.tabs) \ tab.panes /\ Len(b.tabs) = Len(w.tabs) - 1
        /\ b.next_tab = w.next_tab /\ b.next_pane = w.next_pane /\ b.numbers = w.numbers /\ b.id = w.id
    BY <1>2, <2>2, WithoutTabOK, ZenonT(30)
  <2>4. {} \cup tab.panes = Z
    BY <2>1
  <2>5. b.tabs \in Seq(TabRecord)
    BY <2>3, <2>4, SpaceFacts
  <2>6. b.tabs = <<>> <=> Len(w.tabs) = 1
    <3>1. b.tabs = <<>> <=> Len(b.tabs) = 0
      BY <2>5
    <3>2. Len(b.tabs) = 0 <=> Len(w.tabs) = 1
      BY <1>1, <2>3
    <3>3. QED
      BY <3>1, <3>2
  <2>7. LastPane(w, p) <=> Len(w.tabs) = 1
    BY <1>5, <1>6 DEF LastPane
  <2>8. b.tabs = <<>> => b.active_tab = 1
    <3>1. b = [w EXCEPT !.tabs = RemoveAt(w.tabs, t),
                        !.active_tab = IF RemoveAt(w.tabs, t) = <<>> THEN 1
                                       ELSE IF @ > Len(RemoveAt(w.tabs, t)) THEN Len(RemoveAt(w.tabs, t))
                                       ELSE IF t <= @ /\ @ > 1 THEN @ - 1 ELSE @]
      BY <2>2 DEF WithoutTab
    <3>2. w \in SpaceRecord
      BY SpaceFacts
    <3>3. QED
      BY <3>1, <3>2 DEF SpaceRecord
  <2>9. QED
    BY <2>1, <2>3, <2>4, <2>6, <2>7, <2>8 DEF b, IsTaken
<1>7. CASE Len(tab.layout) # 1
  <2> DEFINE u == Detach(tab, p)
  <2>1. TabOK(u) /\ u.number = tab.number /\ u.panes = tab.panes \ {p}
    BY <1>2, <1>3, <1>7, DetachOK
  <2>2. b = [w EXCEPT !.tabs[t] = u]
    BY <1>4, <1>7 DEF with
  <2> HIDE DEF u
  <2>3. u.panes \ w.tabs[t].panes \subseteq {}
    BY <2>1
  <2>4. /\ SpaceOK(b, ({} \cup w.tabs[t].panes) \ u.panes, N) /\ Kin(w, b)
        /\ PanesIn(b.tabs) = (PanesIn(w.tabs) \ w.tabs[t].panes) \cup u.panes
        /\ Len(b.tabs) = Len(w.tabs)
        /\ b.next_tab = w.next_tab /\ b.next_pane = w.next_pane /\ b.numbers = w.numbers /\ b.id = w.id
    BY <1>2, <2>1, <2>2, <2>3, PutTabOK
  <2>5. ({} \cup w.tabs[t].panes) \ u.panes = Z
    BY <1>2, <2>1
  <2>6. PanesIn(b.tabs) = PanesIn(w.tabs) \ Z
    <3>1. \A k \in DOMAIN w.tabs : k # t => w.tabs[k].panes \cap tab.panes = {}
      BY <1>1, <1>2 DEF TabsOK
    <3>2. tab.panes \subseteq PanesIn(w.tabs)
      BY <1>2, PanesInFacts
    <3>3. QED
      BY <1>2, <2>1, <2>4, <3>2
  <2>7. b.tabs # <<>>
    <3>1. Len(b.tabs) # 0
      BY <1>1, <1>2, <2>4
    <3>2. QED
      BY <3>1
  <2>8. ~LastPane(w, p)
    BY <1>5, <1>7 DEF LastPane
  <2>9. QED
    BY <2>4, <2>5, <2>6, <2>7, <2>8 DEF b, IsTaken
<1>8. QED
  BY <1>6, <1>7

\* A pane closes that is not the last one of its workspace.
LEMMA ClosePaneOK ==
    ASSUME NEW w, NEW N \in Nat, SpaceOK(w, {}, N), NEW p \in PanesIn(w.tabs)
    PROVE  LET b == ClosePane(w, p)
           IN  Loses(w, {p}, b, N) /\ (b.tabs = <<>> <=> LastPane(w, p))
<1> DEFINE Z == {p}
           v == Take(w, p)
           b == ClosePane(w, p)
<1>1. b = Unregister(v, Z) /\ Z = {p} /\ Z \subseteq Z /\ {} = Z \ Z
  BY DEF ClosePane
<1> HIDE DEF Z, v, b
<1>2. /\ SpaceOK(v, Z, N) /\ Kin(w, v) /\ PanesIn(v.tabs) = PanesIn(w.tabs) \ Z
      /\ v.id = w.id /\ (v.tabs = <<>> <=> LastPane(w, p))
  <2>1. IsTaken(w, p, Z, N, v) /\ (v.tabs = <<>> <=> LastPane(w, p))
    BY <1>1, TakeOK DEF v
  <2>2. QED
    BY <2>1 DEF IsTaken
<1>3. /\ SpaceOK(b, {}, N) /\ Kin(v, b) /\ b.tabs = v.tabs /\ b.id = v.id
      /\ DOMAIN b.numbers = DOMAIN v.numbers \ Z
  <2>1. SpaceOK(b, {}, N) /\ Kin(v, b)
    BY <1>1, <1>2, UnregisterAll
  <2>2. v \in SpaceRecord
    BY <1>2, SpaceFacts
  <2>3. b.tabs = v.tabs /\ b.id = v.id /\ b.numbers = [q \in DOMAIN v.numbers \ Z |-> v.numbers[q]]
    BY <1>1, <2>2, UnregisterFacts
  <2>4. QED
    BY <2>1, <2>3
<1>4. w.next_pane \in Nat /\ v.next_pane \in Nat /\ b.next_pane \in Nat /\ \A q \in DOMAIN b.numbers : b.numbers[q] \in Nat
  BY <1>2, <1>3, SpaceFacts
<1>5. Kin(w, b)
  BY <1>2, <1>3, <1>4, KinTransitive
<1>6. (b.tabs = <<>> <=> LastPane(w, p)) /\ b.id = w.id
  BY <1>2, <1>3
<1>7. PanesIn(b.tabs) = PanesIn(w.tabs) \ {p}
  BY <1>1, <1>2, <1>3
<1>8. QED
  BY <1>3, <1>5, <1>6, <1>7 DEF b, Loses

\* The panes are those of the tabs, in whatever order.
LEMMA PanesInSet ==
    ASSUME NEW r, NEW s, ToSet(r) = ToSet(s)
    PROVE  PanesIn(r) = PanesIn(s)
<1>1. \A q : PanesIn(q) = UNION {t.panes : t \in ToSet(q)}
  BY DEF PanesIn, ToSet
<1>2. QED
  BY <1>1

\* Tabs in another order; the one that was shown is found again by its root.
LEMMA MoveTabInOK ==
    ASSUME NEW w, NEW N \in Nat, SpaceOK(w, {}, N), NEW from \in DOMAIN w.tabs, NEW to \in DOMAIN w.tabs
    PROVE  LET b == MoveTabIn(w, from, to)
           IN  /\ SpaceOK(b, {}, N) /\ Kin(w, b) /\ b.id = w.id
               /\ PanesIn(b.tabs) = PanesIn(w.tabs) /\ b.tabs # <<>>
<1> DEFINE s == w.tabs
           x == s[from]
           r == RemoveAt(s, from)
           m == InsertAt(r, to, x)
           root == s[w.active_tab].root
           P == {i \in 1 .. Len(m) : m[i].root = root}
           at == SelectInSeq(m, LAMBDA t : t.root = root)
           b == MoveTabIn(w, from, to)
<1>1. /\ w \in SpaceRecord /\ s \in Seq(TabRecord) /\ TabsOK(s) /\ DOMAIN s = 1 .. Len(s) /\ Len(s) \in Nat
      /\ w.next_pane \in Nat /\ Once(s)
  BY SpaceFacts, TabsOnce
<1>2. s # <<>> /\ w.active_tab \in DOMAIN s
  <2>1. s # <<>>
    BY <1>1
  <2>2. QED
    BY <2>1 DEF SpaceOK
<1>3. b = [w EXCEPT !.tabs = m, !.active_tab = at]
  BY DEF MoveTabIn
<1> HIDE DEF s, b
<1>4. x \in TabRecord /\ x \in ToSet(s) /\ from \in 1 .. Len(s) /\ to \in 1 .. Len(s)
  BY <1>1 DEF ToSet, s
<1>5. r \in Seq(TabRecord) /\ Len(r) = Len(s) - 1 /\ Once(r) /\ ToSet(r) = ToSet(s) \ {x}
  BY <1>1, <1>4, RemoveAtFacts, RemoveAtOnce
<1> HIDE DEF x, r
<1>6. to \in 1 .. Len(r) + 1 /\ x \notin ToSet(r)
  BY <1>1, <1>4, <1>5
<1>7. m \in Seq(TabRecord) /\ Len(m) = Len(r) + 1 /\ Once(m) /\ ToSet(m) = ToSet(r) \cup {x}
  <2> HIDE DEF root, P, at
  <2>1. InsertAt(r, to, x) \in Seq(TabRecord) /\ Len(InsertAt(r, to, x)) = Len(r) + 1
    BY <1>4, <1>5, <1>6, InsertAtFacts
  <2>2. Once(InsertAt(r, to, x)) /\ ToSet(InsertAt(r, to, x)) = ToSet(r) \cup {x}
    BY <1>4, <1>5, <1>6, InsertAtOnce
  <2>3. QED
    BY <2>1, <2>2
<1> HIDE DEF m
<1>8. ToSet(m) = ToSet(s) /\ Len(m) = Len(s)
  BY <1>1, <1>4, <1>5, <1>7
<1>9. TabsOK(m) /\ \A k \in DOMAIN m : \E i \in DOMAIN s : m[k] = s[i]
  <2>1. ToSet(m) \subseteq ToSet(s)
    BY <1>8
  <2>2. TabsOK(m)
    BY <1>1, <1>7, <2>1, TabsPicked
  <2>3. \A k \in DOMAIN m : \E i \in DOMAIN s : m[k] = s[i]
    BY <2>1 DEF ToSet
  <2>4. QED
    BY <2>2, <2>3
<1>10. PanesIn(m) = PanesIn(s)
  BY <1>8, PanesInSet
<1>11. at \in DOMAIN m
  <2>1. s[w.active_tab] \in ToSet(m)
    BY <1>2, <1>8 DEF ToSet
  <2>2. PICK i \in DOMAIN m : m[i] = s[w.active_tab]
    BY <2>1 DEF ToSet
  <2>3. Len(m) \in Nat /\ DOMAIN m = 1 .. Len(m)
    BY <1>7
  <2>4. i \in P
    BY <2>2, <2>3
  <2>5. at = IF P # {} THEN Min(P) ELSE 0
    BY DEF SelectInSeq
  <2>6. P \subseteq 1 .. Len(m)
    OBVIOUS
  <2> HIDE DEF P, at
  <2>7. Min(P) \in P
    BY <2>3, <2>4, <2>6, FirstPosition
  <2>8. QED
    BY <2>3, <2>4, <2>5, <2>6, <2>7
<1> HIDE DEF at
<1>12. at \in Nat
  BY <1>7, <1>11
<1>13. /\ b \in SpaceRecord /\ b.tabs = m /\ b.active_tab = at /\ b.next_tab = w.next_tab /\ b.id = w.id
       /\ b.numbers = w.numbers /\ b.next_pane = w.next_pane
  BY <1>1, <1>3, <1>7, <1>12 DEF SpaceRecord
<1>14. SpaceOK(b, {}, N)
  BY <1>9, <1>10, <1>11, <1>13 DEF SpaceOK, s
<1>15. Kin(w, b)
  BY <1>1, <1>13, KinSame
<1>16. m # <<>>
  BY <1>11
<1>17. QED
  BY <1>10, <1>13, <1>14, <1>15, <1>16 DEF b, s

\* The panes that are lost leave their tabs, and tabs without panes go.
LEMMA RestoreWorkspaceOK ==
    ASSUME NEW w, NEW N \in Nat, SpaceOK(w, {}, N), NEW lost, ~(PanesIn(w.tabs) \subseteq lost)
    PROVE  LET b == RestoreWorkspace(w, lost)
           IN  Loses(w, lost, b, N) /\ b.tabs # <<>>
<1> DEFINE s == w.tabs
           K == {t \in DOMAIN s : ~(s[t].panes \subseteq lost)}
           left == Only(s, K)
           r == [k \in DOMAIN left |-> RestoreTab(left[k], lost)]
           at == Clip(w.active_tab, Len(r))
           f == [q \in DOMAIN w.numbers \ lost |-> w.numbers[q]]
           b == RestoreWorkspace(w, lost)
<1>1. /\ w \in SpaceRecord /\ s \in Seq(TabRecord) /\ TabsOK(s) /\ DOMAIN s = 1 .. Len(s) /\ Len(s) \in Nat
      /\ w.next_pane \in Nat /\ Once(s) /\ w.numbers \in NumberMap
      /\ DOMAIN w.numbers = PanesIn(w.tabs) \cup {}
      /\ DOMAIN w.numbers \subseteq Nat /\ \A p \in DOMAIN w.numbers : w.numbers[p] \in Nat
      /\ \A p \in DOMAIN w.numbers : w.numbers[p] < w.next_pane
      /\ \A p, q \in DOMAIN w.numbers : w.numbers[p] = w.numbers[q] => p = q
  BY SpaceFacts, TabsOnce
<1>2. PICK p \in PanesIn(s) : p \notin lost
  OBVIOUS
<1>3. PICK t \in K : TRUE
  <2>1. PICK t \in DOMAIN s : p \in s[t].panes
    BY PanesInFacts
  <2>2. t \in K
    BY <1>2, <2>1
  <2>3. QED
    BY <2>2
<1>4. w.active_tab \in DOMAIN s
  <2>1. s # <<>>
    BY <1>1, <1>3
  <2>2. QED
    BY <2>1 DEF SpaceOK
<1>5. b = [w EXCEPT !.numbers = f, !.tabs = r, !.active_tab = at]
  BY <1>1 DEF RestoreWorkspace, Unregister, SpaceRecord
<1>6. K \subseteq 1 .. Len(s)
  BY <1>1
<1> HIDE DEF s, b
<1>7. left \in Seq(TabRecord) /\ Once(left) /\ ToSet(left) = {s[k] : k \in K}
  <2> HIDE DEF K
  <2>1. left \in Seq(TabRecord) /\ Once(left)
    BY <1>1, <1>6, OnlyFacts
  <2>2. ToSet(left) = {s[k] : k \in K}
    <3> HIDE DEF r
    <3>1. s \in Seq(TabRecord) /\ K \subseteq 1 .. Len(s) /\ Once(s)
      BY <1>1, <1>6
    <3>2. ToSet(Only(s, K)) = {s[k] : k \in K}
      BY <3>1, OnlySet, Zenon
    <3> QED
      BY <3>2
  <2>3. QED
    BY <2>1, <2>2
<1> HIDE DEF left
<1>8. ToSet(left) \subseteq ToSet(s) /\ s[t] \in ToSet(left)
  BY <1>3, <1>7 DEF ToSet
<1>9. TabsOK(left)
  BY <1>1, <1>7, <1>8, TabsPicked
<1>10. \A k \in DOMAIN left : ~(left[k].panes \subseteq lost)
  BY <1>7 DEF ToSet
<1>11. /\ DOMAIN r = DOMAIN left
       /\ \A k \in DOMAIN left : TabOK(r[k]) /\ r[k].number = left[k].number /\ r[k].panes = left[k].panes \ lost
  <2>1. SUFFICES ASSUME NEW k \in DOMAIN left
                 PROVE  TabOK(r[k]) /\ r[k].number = left[k].number /\ r[k].panes = left[k].panes \ lost
    BY Zenon
  <2>2. TabOK(left[k]) /\ ~(left[k].panes \subseteq lost) /\ r[k] = RestoreTab(left[k], lost)
    BY <1>9, <1>10 DEF TabsOK
  <2> HIDE DEF r
  <2>3. QED
    BY <2>2, RestoreTabOK
<1>12. DOMAIN left = 1 .. Len(left) /\ Len(left) \in Nat
  BY <1>7
<1>13. r \in Seq(TabRecord) /\ Len(r) = Len(left)
  <2>1. r \in [1 .. Len(left) -> TabRecord]
    BY <1>11, <1>12 DEF TabOK
  <2> HIDE DEF r
  <2>2. r \in Seq(TabRecord)
    BY <1>12, <2>1
  <2>3. QED
    BY <1>11, <1>12, <2>2
<1> HIDE DEF r
<1>14. TabsOK(r)
  BY <1>9, <1>11, <1>13 DEF TabsOK
<1>15. PanesIn(r) = PanesIn(s) \ lost
  <2>1. ASSUME NEW q \in PanesIn(r) PROVE q \in PanesIn(s) \ lost
    <3>1. PICK k \in DOMAIN left : q \in left[k].panes /\ q \notin lost
      BY <1>11, <2>1, PanesInFacts
    <3>2. PICK i \in DOMAIN s : left[k] = s[i]
      BY <1>8 DEF ToSet
    <3>3. QED
      BY <3>1, <3>2, PanesInFacts
  <2>2. ASSUME NEW q \in PanesIn(s), q \notin lost PROVE q \in PanesIn(r)
    <3>1. PICK i \in DOMAIN s : q \in s[i].panes
      BY PanesInFacts
    <3>2. i \in K
      BY <2>2, <3>1
    <3>3. PICK k \in DOMAIN left : left[k] = s[i]
      BY <1>7, <3>2 DEF ToSet
    <3>4. QED
      BY <1>11, <2>2, <3>1, <3>3, PanesInFacts
  <2>3. QED
    BY <2>1, <2>2
<1>16. r # <<>> /\ at \in DOMAIN r /\ at \in Nat
  <2>1. PICK k \in DOMAIN left : left[k] = s[t]
    BY <1>8 DEF ToSet
  <2>2. Len(r) >= 1 /\ Len(r) \in Nat /\ DOMAIN r = 1 .. Len(r)
    BY <1>12, <1>13, <2>1
  <2>3. w.active_tab \in Nat /\ w.active_tab >= 1
    BY <1>1, <1>4
  <2>4. QED
    BY <2>2, <2>3 DEF Clip
<1> HIDE DEF at
<1>17. /\ DOMAIN f = PanesIn(r) /\ \A q \in DOMAIN f : f[q] = w.numbers[q]
       /\ f \in [PanesIn(r) -> Nat] /\ PanesIn(r) \subseteq DOMAIN w.numbers /\ PanesIn(r) \in SUBSET Nat
  <2>1. DOMAIN w.numbers \ lost = PanesIn(r)
    BY <1>1, <1>15 DEF s
  <2>2. f = [q \in PanesIn(r) |-> w.numbers[q]] /\ PanesIn(r) \subseteq DOMAIN w.numbers
    BY <2>1
  <2> HIDE DEF f
  <2>3. QED
    BY <1>1, <2>2
<1> HIDE DEF f
<1>18. f \in NumberMap
  BY <1>17, NumberMapBuilt
<1>19. NumbersOK(f, PanesIn(r) \cup {}, w.next_pane)
  <2>1. PanesIn(r) \cup {} = PanesIn(r)
    OBVIOUS
  <2>2. NumbersOK(f, PanesIn(r), w.next_pane)
    BY <1>1, <1>17, <1>18 DEF NumbersOK
  <2>3. QED
    BY <2>1, <2>2
<1>20. /\ b \in SpaceRecord /\ b.tabs = r /\ b.active_tab = at /\ b.next_tab = w.next_tab /\ b.id = w.id
       /\ b.numbers = f /\ b.next_pane = w.next_pane
  BY <1>1, <1>5, <1>13, <1>16, <1>18 DEF SpaceRecord
<1>21. \A k \in DOMAIN r : r[k].number \in 1 .. w.next_tab - 1
  <2>1. SUFFICES ASSUME NEW k \in DOMAIN left PROVE left[k].number \in 1 .. w.next_tab - 1
    BY <1>11
  <2>2. PICK i \in DOMAIN s : left[k] = s[i]
    BY <1>8 DEF ToSet
  <2>3. QED
    BY <2>2 DEF SpaceOK, s
<1>22. w.next_pane \in 1 .. N + 1 /\ w.next_tab \in 1 .. N + 1
  BY DEF SpaceOK
<1>23. SpaceOK(b, {}, N)
  BY <1>14, <1>16, <1>19, <1>20, <1>21, <1>22 DEF SpaceOK
<1>24. Kin(w, b)
  BY <1>1, <1>17, <1>20, KinSame
<1>25. QED
  BY <1>15, <1>16, <1>20, <1>23, <1>24 DEF b, s, Loses

-----------------------------------------------------------------------------
(* The workspaces.                                                         *)

\* Workspaces have different ids, below nw, and no common pane; each has a tab.
SpacesOK(S, N, nw) ==
    /\ S \in Seq(SpaceRecord)
    /\ \A i \in DOMAIN S : SpaceOK(S[i], {}, N) /\ S[i].tabs # <<>> /\ S[i].id \in 1 .. nw - 1
    /\ \A i, j \in DOMAIN S : i # j => S[i].id # S[j].id /\ PanesIn(S[i].tabs) \cap PanesIn(S[j].tabs) = {}

PanesAll(S) == UNION {PanesIn(S[i].tabs) : i \in DOMAIN S}

\* Each workspace of T is what became of one of S, or is new.  Its panes were in
\* it before, are the panes M that move, or are new.
Follows(S, T, M, np, nw) ==
    \A j \in DOMAIN T :
        \/ \E i \in DOMAIN S :
              Kin(S[i], T[j]) /\ \A p \in PanesIn(T[j].tabs) : p \in PanesIn(S[i].tabs) \/ p \in M \/ np <= p
        \/ nw <= T[j].id /\ \A p \in PanesIn(T[j].tabs) : p \in M \/ np <= p

LEMMA PanesAllFacts ==
    ASSUME NEW S, NEW p
    PROVE  p \in PanesAll(S) <=> \E i \in DOMAIN S : p \in PanesIn(S[i].tabs)
BY DEF PanesAll

LEMMA AllPanesIn == \A a : AllPanes(a) = PanesAll(a.workspaces)
BY DEF AllPanes, PanesAll, PanesOf, PanesIn

\* What follows from SpacesOK for one workspace.
LEMMA SpacesFacts ==
    ASSUME NEW N \in Nat, NEW nw \in Nat, NEW S, SpacesOK(S, N, nw)
    PROVE  /\ S \in Seq(SpaceRecord) /\ DOMAIN S = 1 .. Len(S) /\ Len(S) \in Nat
           /\ \A i \in DOMAIN S : /\ SpaceOK(S[i], {}, N) /\ S[i] \in SpaceRecord /\ S[i].tabs # <<>>
                                  /\ S[i].id \in Nat /\ S[i].id >= 1 /\ S[i].id < nw
                                  /\ DOMAIN S[i].numbers = PanesIn(S[i].tabs) /\ S[i].next_pane \in Nat
                                  /\ S[i].active_tab \in DOMAIN S[i].tabs /\ S[i].tabs \in Seq(TabRecord)
                                  /\ TabsOK(S[i].tabs)
<1>1. S \in Seq(SpaceRecord) /\ DOMAIN S = 1 .. Len(S) /\ Len(S) \in Nat
  BY DEF SpacesOK
<1>2. ASSUME NEW i \in DOMAIN S
      PROVE  /\ SpaceOK(S[i], {}, N) /\ S[i] \in SpaceRecord /\ S[i].tabs # <<>>
             /\ S[i].id \in Nat /\ S[i].id >= 1 /\ S[i].id < nw
             /\ DOMAIN S[i].numbers = PanesIn(S[i].tabs) /\ S[i].next_pane \in Nat
             /\ S[i].active_tab \in DOMAIN S[i].tabs /\ S[i].tabs \in Seq(TabRecord)
             /\ TabsOK(S[i].tabs)
  <2> DEFINE w == S[i]
  <2>1. SpaceOK(w, {}, N) /\ w.tabs # <<>> /\ w.id \in 1 .. nw - 1
    BY DEF SpacesOK
  <2> HIDE DEF w
  <2>2. /\ w \in SpaceRecord /\ DOMAIN w.numbers = PanesIn(w.tabs) \cup {} /\ w.next_pane \in Nat
        /\ w.tabs \in Seq(TabRecord) /\ TabsOK(w.tabs)
    BY <2>1, SpaceFacts
  <2>3. w.active_tab \in DOMAIN w.tabs
    BY <2>1 DEF SpaceOK
  <2>4. w.id \in Nat /\ w.id >= 1 /\ w.id < nw
    BY <2>1
  <2>5. DOMAIN w.numbers = PanesIn(w.tabs)
    BY <2>2
  <2> USE DEF w
  <2>6. QED
    BY <2>1, <2>2, <2>3, <2>4, <2>5
<1>3. QED
  BY <1>1, <1>2

LEMMA SpacesApart ==
    ASSUME NEW N, NEW nw, NEW S, SpacesOK(S, N, nw)
    PROVE  /\ Once(S) /\ \A i, j \in DOMAIN S : S[i].id = S[j].id => i = j
           /\ \A i, j \in DOMAIN S : \A p \in PanesIn(S[i].tabs) : p \in PanesIn(S[j].tabs) => i = j
BY DEF SpacesOK, Once

LEMMA KinItself ==
    ASSUME NEW w, w.next_pane \in Nat
    PROVE  Kin(w, w)
BY KinSame

\* Some of the workspaces, in any order.
LEMMA SpacesPicked ==
    ASSUME NEW N \in Nat, NEW nw \in Nat, NEW S, SpacesOK(S, N, nw),
           NEW T \in Seq(SpaceRecord), Once(T), ToSet(T) \subseteq ToSet(S)
    PROVE  SpacesOK(T, N, nw)
<1>1. \A k \in DOMAIN T : \E i \in DOMAIN S : T[k] = S[i]
  BY DEF ToSet
<1>2. \A k \in DOMAIN T : SpaceOK(T[k], {}, N) /\ T[k].tabs # <<>> /\ T[k].id \in 1 .. nw - 1
  BY <1>1 DEF SpacesOK
<1>3. ASSUME NEW k \in DOMAIN T, NEW l \in DOMAIN T, k # l
      PROVE  T[k].id # T[l].id /\ PanesIn(T[k].tabs) \cap PanesIn(T[l].tabs) = {}
  <2>1. PICK i \in DOMAIN S, j \in DOMAIN S : T[k] = S[i] /\ T[l] = S[j]
    BY <1>1
  <2>2. T[k] # T[l]
    BY <1>3 DEF Once
  <2>3. i # j
    BY <2>1, <2>2
  <2>4. QED
    BY <2>1, <2>3 DEF SpacesOK
<1>4. QED
  BY <1>2, <1>3 DEF SpacesOK

LEMMA FollowsPicked ==
    ASSUME NEW N \in Nat, NEW nw \in Nat, NEW np, NEW S, SpacesOK(S, N, nw), NEW T, ToSet(T) \subseteq ToSet(S)
    PROVE  Follows(S, T, {}, np, nw)
<1>1. \A k \in DOMAIN T : \E i \in DOMAIN S : T[k] = S[i]
  BY DEF ToSet
<1>2. \A i \in DOMAIN S : S[i].next_pane \in Nat
  BY SpacesFacts
<1>3. \A i \in DOMAIN S : Kin(S[i], S[i])
  BY <1>2, KinItself
<1>4. QED
  BY <1>1, <1>3 DEF Follows

\* The panes of workspaces that are left.
LEMMA PanesPicked ==
    ASSUME NEW S, NEW T, ToSet(T) \subseteq ToSet(S)
    PROVE  PanesAll(T) \subseteq PanesAll(S) /\ (ToSet(T) = ToSet(S) => PanesAll(T) = PanesAll(S))
<1>1. \A q : PanesAll(q) = UNION {PanesIn(w.tabs) : w \in ToSet(q)}
  BY DEF PanesAll, ToSet
<1>2. QED
  BY <1>1

LEMMA SpacesRemoved ==
    ASSUME NEW N \in Nat, NEW nw \in Nat, NEW S, SpacesOK(S, N, nw), NEW i \in DOMAIN S
    PROVE  /\ SpacesOK(RemoveAt(S, i), N, nw) /\ Len(RemoveAt(S, i)) = Len(S) - 1
           /\ PanesAll(RemoveAt(S, i)) = PanesAll(S) \ PanesIn(S[i].tabs)
           /\ ToSet(RemoveAt(S, i)) = ToSet(S) \ {S[i]}
<1> DEFINE r == RemoveAt(S, i)
<1>1. S \in Seq(SpaceRecord) /\ Once(S) /\ i \in 1 .. Len(S)
  <2>1. Once(S)
    BY SpacesApart
  <2>2. S \in Seq(SpaceRecord) /\ i \in 1 .. Len(S)
    BY DEF SpacesOK
  <2>3. QED
    BY <2>1, <2>2
<1>2. r \in Seq(SpaceRecord) /\ Len(r) = Len(S) - 1
  BY <1>1, RemoveAtFacts
<1>3. Once(r) /\ ToSet(r) = ToSet(S) \ {S[i]}
  BY <1>1, RemoveAtOnce
<1> HIDE DEF r
<1>4. SpacesOK(r, N, nw)
  <2>1. ToSet(r) \subseteq ToSet(S)
    BY <1>3
  <2>2. QED
    BY <1>2, <1>3, <2>1, SpacesPicked
<1>5. ASSUME NEW p \in PanesAll(r) PROVE p \in PanesAll(S) \ PanesIn(S[i].tabs)
  <2>1. PICK k \in DOMAIN r : p \in PanesIn(r[k].tabs)
    BY <1>5, PanesAllFacts
  <2>2. PICK j \in DOMAIN S : r[k] = S[j] /\ S[j] # S[i]
    BY <1>3 DEF ToSet
  <2>3. j # i /\ p \in PanesIn(S[j].tabs)
    BY <2>1, <2>2
  <2>4. p \notin PanesIn(S[i].tabs)
    BY <2>3, SpacesApart
  <2>5. QED
    BY <2>3, <2>4, PanesAllFacts
<1>6. ASSUME NEW p \in PanesAll(S), p \notin PanesIn(S[i].tabs) PROVE p \in PanesAll(r)
  <2>1. PICK j \in DOMAIN S : p \in PanesIn(S[j].tabs)
    BY <1>6, PanesAllFacts
  <2>2. S[j] \in ToSet(r)
    BY <1>3, <1>6, <2>1 DEF ToSet
  <2>3. PICK k \in DOMAIN r : r[k] = S[j]
    BY <2>2 DEF ToSet
  <2>4. QED
    BY <2>1, <2>3, PanesAllFacts
<1>7. PanesAll(r) = PanesAll(S) \ PanesIn(S[i].tabs)
  BY <1>5, <1>6
<1>8. QED
  BY <1>2, <1>3, <1>4, <1>7 DEF r

LEMMA SpacesAppended ==
    ASSUME NEW N \in Nat, NEW nw \in Nat, NEW S, SpacesOK(S, N, nw), NEW w, SpaceOK(w, {}, N), w.tabs # <<>>,
           w.id \in Nat, w.id >= nw, w.id >= 1, PanesIn(w.tabs) \cap PanesAll(S) = {}
    PROVE  /\ SpacesOK(Append(S, w), N, w.id + 1) /\ PanesAll(Append(S, w)) = PanesAll(S) \cup PanesIn(w.tabs)
           /\ Len(Append(S, w)) = Len(S) + 1
<1> DEFINE r == Append(S, w)
<1>1. S \in Seq(SpaceRecord) /\ w \in SpaceRecord /\ DOMAIN S = 1 .. Len(S) /\ Len(S) \in Nat
  BY DEF SpacesOK, SpaceOK
<1>2. /\ r \in Seq(SpaceRecord) /\ Len(r) = Len(S) + 1 /\ DOMAIN r = 1 .. Len(S) + 1
      /\ r[Len(S) + 1] = w /\ \A i \in DOMAIN S : r[i] = S[i]
  BY <1>1
<1> HIDE DEF r
<1>3. \A i \in DOMAIN r : i = Len(S) + 1 \/ i \in DOMAIN S
  BY <1>1, <1>2
<1>4. \A i \in DOMAIN S : /\ SpaceOK(S[i], {}, N) /\ S[i].tabs # <<>>
                          /\ S[i].id \in 1 .. w.id + 1 - 1 /\ S[i].id # w.id
                          /\ PanesIn(S[i].tabs) \cap PanesIn(w.tabs) = {}
  <2>1. SUFFICES ASSUME NEW i \in DOMAIN S
                 PROVE  /\ SpaceOK(S[i], {}, N) /\ S[i].tabs # <<>>
                        /\ S[i].id \in 1 .. w.id + 1 - 1 /\ S[i].id # w.id
                        /\ PanesIn(S[i].tabs) \cap PanesIn(w.tabs) = {}
    OBVIOUS
  <2>2. SpaceOK(S[i], {}, N) /\ S[i].tabs # <<>> /\ S[i].id \in 1 .. nw - 1
    BY DEF SpacesOK
  <2>3. S[i].id \in 1 .. w.id + 1 - 1 /\ S[i].id # w.id
    BY <2>2
  <2>4. PanesIn(S[i].tabs) \cap PanesIn(w.tabs) = {}
    BY PanesAllFacts
  <2>5. QED
    BY <2>2, <2>3, <2>4
<1>5. w.id \in 1 .. w.id + 1 - 1
  OBVIOUS
<1>6. \A i \in DOMAIN r : SpaceOK(r[i], {}, N) /\ r[i].tabs # <<>> /\ r[i].id \in 1 .. w.id + 1 - 1
  BY <1>2, <1>3, <1>4, <1>5
<1>7. ASSUME NEW i \in DOMAIN r, NEW j \in DOMAIN r, i # j
      PROVE  r[i].id # r[j].id /\ PanesIn(r[i].tabs) \cap PanesIn(r[j].tabs) = {}
  <2>1. CASE i \in DOMAIN S /\ j \in DOMAIN S
    BY <1>2, <1>7, <2>1 DEF SpacesOK
  <2>2. CASE i = Len(S) + 1 /\ j \in DOMAIN S
    BY <1>2, <1>4, <2>2
  <2>3. CASE i \in DOMAIN S /\ j = Len(S) + 1
    BY <1>2, <1>4, <2>3
  <2>4. QED
    BY <1>3, <1>7, <2>1, <2>2, <2>3
<1>8. SpacesOK(r, N, w.id + 1)
  <2> DEFINE m == w.id + 1
  <2>1. \A i \in DOMAIN r : SpaceOK(r[i], {}, N) /\ r[i].tabs # <<>> /\ r[i].id \in 1 .. m - 1
    BY <1>6
  <2> HIDE DEF m
  <2>2. SpacesOK(r, N, m)
    BY <1>2, <1>7, <2>1 DEF SpacesOK
  <2>3. QED
    BY <2>2 DEF m
<1>9. DOMAIN S \subseteq DOMAIN r /\ Len(S) + 1 \in DOMAIN r
  BY <1>1, <1>2
<1>10. ASSUME NEW p PROVE p \in PanesAll(r) <=> p \in PanesAll(S) \/ p \in PanesIn(w.tabs)
  BY <1>2, <1>3, <1>9, PanesAllFacts
<1>11. QED
  BY <1>2, <1>8, <1>10 DEF r

LEMMA FollowsAppended ==
    ASSUME NEW np, NEW nw, NEW M, NEW S, NEW T \in Seq(SpaceRecord), Follows(S, T, M, np, nw),
           NEW w \in SpaceRecord, nw <= w.id, \A p \in PanesIn(w.tabs) : p \in M \/ np <= p
    PROVE  Follows(S, Append(T, w), M, np, nw)
<1> DEFINE r == Append(T, w)
<1>1. \A j \in DOMAIN r : (j \in DOMAIN T /\ r[j] = T[j]) \/ r[j] = w
  OBVIOUS
<1> HIDE DEF r
<1>2. Follows(S, r, M, np, nw)
  BY <1>1 DEF Follows
<1>3. QED
  BY <1>2 DEF r

\* Another workspace in the place of one.
Separate(S, i, w) == PanesIn(w.tabs) \cap (PanesAll(S) \ PanesIn(S[i].tabs)) = {}

IsSpacesPut(S, i, w, N, nw, r) ==
    /\ SpacesOK(r, N, nw) /\ PanesAll(r) = (PanesAll(S) \ PanesIn(S[i].tabs)) \cup PanesIn(w.tabs)
    /\ DOMAIN r = DOMAIN S /\ Len(r) = Len(S) /\ r[i] = w /\ \A j \in DOMAIN S : j # i => r[j] = S[j]

LEMMA SpacesPutIs ==
    ASSUME NEW N \in Nat, NEW nw \in Nat, NEW S, SpacesOK(S, N, nw), NEW i \in DOMAIN S,
           NEW w, SpaceOK(w, {}, N), w.tabs # <<>>, w.id = S[i].id, Separate(S, i, w)
    PROVE  IsSpacesPut(S, i, w, N, nw, [S EXCEPT ![i] = w])
<1> DEFINE r == [S EXCEPT ![i] = w]
<1>1. S \in Seq(SpaceRecord) /\ w \in SpaceRecord /\ DOMAIN S = 1 .. Len(S) /\ Len(S) \in Nat
  BY DEF SpacesOK, SpaceOK
<1>2. /\ r \in Seq(SpaceRecord) /\ DOMAIN r = DOMAIN S /\ Len(r) = Len(S)
      /\ r[i] = w /\ \A j \in DOMAIN S : j # i => r[j] = S[j]
  BY <1>1
<1> HIDE DEF r
<1>3. \A j \in DOMAIN S : j # i => S[j].id # S[i].id /\ PanesIn(S[j].tabs) \cap PanesIn(S[i].tabs) = {}
  BY DEF SpacesOK
<1>4. \A j \in DOMAIN S : j # i => PanesIn(S[j].tabs) \cap PanesIn(w.tabs) = {}
  BY <1>3, PanesAllFacts DEF Separate
<1>5. \A j \in DOMAIN r : SpaceOK(r[j], {}, N) /\ r[j].tabs # <<>> /\ r[j].id \in 1 .. nw - 1
  BY <1>2 DEF SpacesOK
<1>6. ASSUME NEW k \in DOMAIN r, NEW l \in DOMAIN r, k # l
      PROVE  r[k].id # r[l].id /\ PanesIn(r[k].tabs) \cap PanesIn(r[l].tabs) = {}
  <2>1. CASE k # i /\ l # i
    BY <1>2, <1>6, <2>1 DEF SpacesOK
  <2>2. CASE k = i
    BY <1>2, <1>3, <1>4, <1>6, <2>2
  <2>3. CASE l = i
    BY <1>2, <1>3, <1>4, <1>6, <2>3
  <2>4. QED
    BY <2>1, <2>2, <2>3
<1>7. SpacesOK(r, N, nw)
  BY <1>2, <1>5, <1>6 DEF SpacesOK
<1>8. ASSUME NEW p PROVE p \in PanesAll(r) <=> (p \in PanesAll(S) /\ p \notin PanesIn(S[i].tabs)) \/ p \in PanesIn(w.tabs)
  BY <1>2, <1>3, PanesAllFacts
<1>9. PanesAll(r) = (PanesAll(S) \ PanesIn(S[i].tabs)) \cup PanesIn(w.tabs)
  BY <1>8
<1>10. QED
  BY <1>2, <1>7, <1>9 DEF r, IsSpacesPut

LEMMA SpacesPut ==
    ASSUME NEW N \in Nat, NEW nw \in Nat, NEW S, SpacesOK(S, N, nw), NEW i \in DOMAIN S,
           NEW w, SpaceOK(w, {}, N), w.tabs # <<>>, w.id = S[i].id,
           PanesIn(w.tabs) \cap (PanesAll(S) \ PanesIn(S[i].tabs)) = {}
    PROVE  LET r == [S EXCEPT ![i] = w]
           IN  /\ SpacesOK(r, N, nw) /\ PanesAll(r) = (PanesAll(S) \ PanesIn(S[i].tabs)) \cup PanesIn(w.tabs)
               /\ DOMAIN r = DOMAIN S /\ Len(r) = Len(S) /\ r[i] = w /\ \A j \in DOMAIN S : j # i => r[j] = S[j]
<1>1. Separate(S, i, w)
  BY DEF Separate
<1>2. IsSpacesPut(S, i, w, N, nw, [S EXCEPT ![i] = w])
  BY <1>1, SpacesPutIs
<1>3. QED
  BY <1>2 DEF IsSpacesPut

LEMMA FollowsPut ==
    ASSUME NEW N \in Nat, NEW nw \in Nat, NEW np, NEW M, NEW S, SpacesOK(S, N, nw), NEW i \in DOMAIN S,
           NEW w, Kin(S[i], w), \A p \in PanesIn(w.tabs) : p \in PanesIn(S[i].tabs) \/ p \in M \/ np <= p
    PROVE  Follows(S, [S EXCEPT ![i] = w], M, np, nw)
<1> DEFINE r == [S EXCEPT ![i] = w]
<1>1. \A j \in DOMAIN r : j \in DOMAIN S /\ r[j] = IF j = i THEN w ELSE S[j]
  OBVIOUS
<1> HIDE DEF r
<1>2. \A j \in DOMAIN S : Kin(S[j], S[j])
  <2>1. \A j \in DOMAIN S : S[j].next_pane \in Nat
    BY SpacesFacts
  <2>2. QED
    BY <2>1, KinItself
<1>3. Follows(S, r, M, np, nw)
  BY <1>1, <1>2 DEF Follows
<1>4. QED
  BY <1>3 DEF r

\* What becomes of what became of them, if no pane moves the second time.
LEMMA FollowsTransitive ==
    ASSUME NEW N \in Nat, NEW np \in Nat, NEW nw \in Nat, NEW np1 \in Nat, NEW nw1 \in Nat, NEW nw2 \in Nat,
           np <= np1, nw <= nw1, NEW S, NEW T, NEW U, NEW M,
           SpacesOK(S, N, nw), SpacesOK(T, N, nw1), SpacesOK(U, N, nw2),
           \A p \in PanesAll(S) : p \in Nat /\ p < np, \A p \in PanesAll(U) : p \in Nat,
           Follows(S, T, M, np, nw), Follows(T, U, {}, np1, nw1)
    PROVE  Follows(S, U, M, np, nw)
<1> SUFFICES ASSUME NEW k \in DOMAIN U
             PROVE  \/ \E i \in DOMAIN S :
                         /\ Kin(S[i], U[k])
                         /\ \A p \in PanesIn(U[k].tabs) : p \in PanesIn(S[i].tabs) \/ p \in M \/ np <= p
                    \/ nw <= U[k].id /\ \A p \in PanesIn(U[k].tabs) : p \in M \/ np <= p
  BY DEF Follows
<1>1. /\ \A p \in PanesIn(U[k].tabs) : p \in Nat
      /\ U[k].id \in Nat /\ DOMAIN U[k].numbers = PanesIn(U[k].tabs) /\ U[k].next_pane \in Nat
      /\ \A p \in DOMAIN U[k].numbers : U[k].numbers[p] \in Nat
  <2>1. \A p \in PanesIn(U[k].tabs) : p \in Nat
    BY PanesAllFacts
  <2>2. U[k].id \in Nat /\ DOMAIN U[k].numbers = PanesIn(U[k].tabs) /\ U[k].next_pane \in Nat /\ SpaceOK(U[k], {}, N)
    BY SpacesFacts
  <2>3. \A p \in DOMAIN U[k].numbers : U[k].numbers[p] \in Nat
    BY <2>2, SpaceFacts
  <2>4. QED
    BY <2>1, <2>2, <2>3
<1>2. CASE nw1 <= U[k].id /\ \A p \in PanesIn(U[k].tabs) : np1 <= p
  BY <1>1, <1>2
<1>3. ASSUME NEW j \in DOMAIN T, Kin(T[j], U[k]),
             \A p \in PanesIn(U[k].tabs) : p \in PanesIn(T[j].tabs) \/ np1 <= p,
             NEW i \in DOMAIN S, Kin(S[i], T[j]),
             \A p \in PanesIn(T[j].tabs) : p \in PanesIn(S[i].tabs) \/ p \in M \/ np <= p
      PROVE  /\ Kin(S[i], U[k])
             /\ \A p \in PanesIn(U[k].tabs) : p \in PanesIn(S[i].tabs) \/ p \in M \/ np <= p
  <2>1. /\ DOMAIN S[i].numbers = PanesIn(S[i].tabs) /\ S[i].next_pane \in Nat
        /\ DOMAIN T[j].numbers = PanesIn(T[j].tabs) /\ T[j].next_pane \in Nat
    <3>1. DOMAIN S[i].numbers = PanesIn(S[i].tabs) /\ S[i].next_pane \in Nat
      BY SpacesFacts
    <3>2. DOMAIN T[j].numbers = PanesIn(T[j].tabs) /\ T[j].next_pane \in Nat
      BY SpacesFacts
    <3>3. QED
      BY <3>1, <3>2
  <2>2. \A p \in PanesIn(S[i].tabs) : p \in Nat /\ p < np
    BY PanesAllFacts
  <2>3. DOMAIN U[k].numbers \cap DOMAIN S[i].numbers \subseteq DOMAIN T[j].numbers
    BY <1>1, <1>3, <2>1, <2>2
  <2>4. Kin(S[i], U[k])
    BY <1>1, <1>3, <2>1, <2>3, KinTransitive
  <2>5. \A p \in PanesIn(U[k].tabs) : p \in PanesIn(S[i].tabs) \/ p \in M \/ np <= p
    BY <1>1, <1>3
  <2>6. QED
    BY <2>4, <2>5
<1>4. ASSUME NEW j \in DOMAIN T, Kin(T[j], U[k]),
             \A p \in PanesIn(U[k].tabs) : p \in PanesIn(T[j].tabs) \/ np1 <= p,
             nw <= T[j].id, \A p \in PanesIn(T[j].tabs) : p \in M \/ np <= p
      PROVE  nw <= U[k].id /\ \A p \in PanesIn(U[k].tabs) : p \in M \/ np <= p
  <2>1. U[k].id = T[j].id
    BY <1>4 DEF Kin
  <2>2. QED
    BY <1>1, <1>4, <2>1
<1>5. CASE \E j \in DOMAIN T : Kin(T[j], U[k]) /\ \A p \in PanesIn(U[k].tabs) : p \in PanesIn(T[j].tabs) \/ np1 <= p
  <2>1. PICK j \in DOMAIN T : Kin(T[j], U[k]) /\ \A p \in PanesIn(U[k].tabs) : p \in PanesIn(T[j].tabs) \/ np1 <= p
    BY <1>5
  <2>2. \/ \E i \in DOMAIN S :
              Kin(S[i], T[j]) /\ \A p \in PanesIn(T[j].tabs) : p \in PanesIn(S[i].tabs) \/ p \in M \/ np <= p
        \/ nw <= T[j].id /\ \A p \in PanesIn(T[j].tabs) : p \in M \/ np <= p
    BY DEF Follows
  <2>3. CASE nw <= T[j].id /\ \A p \in PanesIn(T[j].tabs) : p \in M \/ np <= p
    BY <1>4, <2>1, <2>3
  <2>4. ASSUME NEW i \in DOMAIN S, Kin(S[i], T[j]),
               \A p \in PanesIn(T[j].tabs) : p \in PanesIn(S[i].tabs) \/ p \in M \/ np <= p
        PROVE  \E h \in DOMAIN S :
                         /\ Kin(S[h], U[k])
                         /\ \A p \in PanesIn(U[k].tabs) : p \in PanesIn(S[h].tabs) \/ p \in M \/ np <= p
    BY <1>3, <2>1, <2>4
  <2>5. QED
    BY <2>2, <2>3, <2>4
<1>6. QED
  BY <1>2, <1>5 DEF Follows

-----------------------------------------------------------------------------
(* The app.                                                                *)

AliasMap == UNION {[D -> Nat] : D \in SUBSET [ws : Nat, number : Nat]}

AppRecord ==
    [workspaces : Seq(SpaceRecord), active : Nat, selected : Nat, previous : [ws : Nat, pane : Nat],
     aliases : AliasMap, terminals : SUBSET Nat]

\* Every pane, below np, has a terminal, and beside those X no other one exists.
AppOK(a, X, N, np, nw) ==
    /\ a \in AppRecord /\ SpacesOK(a.workspaces, N, nw)
    /\ a.terminals = PanesAll(a.workspaces) \cup X /\ \A p \in a.terminals : p \in 1 .. np - 1
    /\ a.previous.ws < nw /\ a.previous.pane < np

\* What the user looks at exists; nothing is active only after a restart that lost it.
ViewOK(a, lose) ==
    IF a.workspaces = <<>> THEN a.active = 0 /\ a.selected = 1
    ELSE a.selected \in DOMAIN a.workspaces /\ (a.active \in DOMAIN a.workspaces \/ (a.active = 0 /\ lose))

LEMMA AppFields ==
    ASSUME NEW a \in AppRecord
    PROVE  /\ a.workspaces \in Seq(SpaceRecord) /\ DOMAIN a.workspaces = 1 .. Len(a.workspaces)
           /\ a.active \in Nat /\ a.selected \in Nat
           /\ a.previous \in [ws : Nat, pane : Nat] /\ a.previous.ws \in Nat /\ a.previous.pane \in Nat
           /\ a.aliases \in AliasMap /\ a.terminals \in SUBSET Nat
BY DEF AppRecord

LEMMA AppFacts ==
    ASSUME NEW N \in Nat, NEW np \in Nat, NEW nw \in Nat, NEW X, NEW a, AppOK(a, X, N, np, nw)
    PROVE  /\ a \in AppRecord /\ SpacesOK(a.workspaces, N, nw) /\ DOMAIN a.workspaces = 1 .. Len(a.workspaces)
           /\ Len(a.workspaces) \in Nat
           /\ a.terminals = PanesAll(a.workspaces) \cup X
           /\ \A p \in a.terminals : p \in Nat /\ p >= 1 /\ p < np
           /\ a.previous.ws < nw /\ a.previous.pane < np
<1>1. a \in AppRecord /\ SpacesOK(a.workspaces, N, nw) /\ a.terminals = PanesAll(a.workspaces) \cup X
      /\ \A p \in a.terminals : p \in 1 .. np - 1
  BY DEF AppOK
<1>2. DOMAIN a.workspaces = 1 .. Len(a.workspaces) /\ Len(a.workspaces) \in Nat
  BY <1>1, SpacesFacts
<1>3. \A p \in a.terminals : p \in Nat /\ p >= 1 /\ p < np
  BY <1>1
<1>4. QED
  BY <1>1, <1>2, <1>3 DEF AppOK

\* The focus is on a pane.
LEMMA CurrentFocusFacts ==
    ASSUME NEW N \in Nat, NEW np \in Nat \ {0}, NEW nw \in Nat \ {0}, NEW X, NEW a, AppOK(a, X, N, np, nw)
    PROVE  CurrentFocus(a) \in [ws : Nat, pane : Nat] /\ CurrentFocus(a).ws < nw /\ CurrentFocus(a).pane < np
<1> DEFINE S == a.workspaces
           w == S[a.active]
           p == w.tabs[w.active_tab].focus
<1>1. CASE a.active \notin DOMAIN S
  <2>1. CurrentFocus(a) = [ws |-> 0, pane |-> 0]
    BY <1>1 DEF CurrentFocus, NoFocus, Indices
  <2>2. QED
    BY <2>1
<1>2. CASE a.active \in DOMAIN S
  <2>1. CurrentFocus(a) = [ws |-> w.id, pane |-> p]
    BY <1>2 DEF CurrentFocus, Indices
  <2>2. SpacesOK(S, N, nw)
    BY AppFacts
  <2>3. /\ w.id \in Nat /\ w.id < nw /\ w.active_tab \in DOMAIN w.tabs /\ TabsOK(w.tabs)
    BY <1>2, <2>2, SpacesFacts
  <2>4. p \in PanesIn(w.tabs)
    BY <2>3, PanesInFacts DEF TabsOK, TabOK
  <2>5. p \in PanesAll(S)
    BY <1>2, <2>4, PanesAllFacts
  <2>6. p \in Nat /\ p < np
    <3>1. a.terminals = PanesAll(S) \cup X /\ \A q \in a.terminals : q \in Nat /\ q >= 1 /\ q < np
      BY AppFacts
    <3>2. QED
      BY <2>5, <3>1
  <2> HIDE DEF p, w
  <2>7. QED
    BY <2>1, <2>3, <2>6
<1>3. QED
  BY <1>1, <1>2

\* The focus from before is recorded.
LEMMA RecordOK ==
    ASSUME NEW N \in Nat, NEW np \in Nat, NEW nw \in Nat, NEW X, NEW a, AppOK(a, X, N, np, nw),
           NEW f \in [ws : Nat, pane : Nat], f.ws < nw, f.pane < np
    PROVE  LET b == Record(a, f)
           IN  /\ AppOK(b, X, N, np, nw) /\ b.workspaces = a.workspaces /\ b.active = a.active
               /\ b.selected = a.selected /\ b.aliases = a.aliases /\ b.terminals = a.terminals
<1> DEFINE b == Record(a, f)
<1>1. a \in AppRecord
  BY DEF AppOK
<1>2. /\ b \in AppRecord /\ b.workspaces = a.workspaces /\ b.active = a.active
      /\ b.selected = a.selected /\ b.aliases = a.aliases /\ b.terminals = a.terminals
      /\ (b.previous = f \/ b.previous = a.previous)
  BY <1>1 DEF Record, AppRecord
<1> HIDE DEF b
<1>3. AppOK(b, X, N, np, nw)
  BY <1>2 DEF AppOK
<1>4. QED
  BY <1>2, <1>3 DEF b

PutTab(w, t, u) == [w EXCEPT !.tabs[t] = u]

LEMMA PutTabAll ==
    ASSUME NEW w, NEW X, NEW N \in Nat, SpaceOK(w, X, N), NEW t \in DOMAIN w.tabs,
           NEW u, TabOK(u), u.number = w.tabs[t].number, u.panes \ w.tabs[t].panes \subseteq X,
           NEW Y, Y = (X \cup w.tabs[t].panes) \ u.panes
    PROVE  SpaceOK(PutTab(w, t, u), Y, N) /\ Kin(w, PutTab(w, t, u))
<1> DEFINE b == [w EXCEPT !.tabs[t] = u]
<1>1. SpaceOK(b, (X \cup w.tabs[t].panes) \ u.panes, N) /\ Kin(w, b)
  BY PutTabOK
<1> HIDE DEF b
<1>2. SpaceOK(b, Y, N) /\ Kin(w, b)
  BY <1>1
<1>3. QED
  BY <1>2 DEF b, PutTab

LEMMA PutTabFacts ==
    ASSUME NEW w \in SpaceRecord, NEW t \in DOMAIN w.tabs, NEW u \in TabRecord
    PROVE  LET b == PutTab(w, t, u)
           IN  /\ DOMAIN b.tabs = DOMAIN w.tabs /\ Len(b.tabs) = Len(w.tabs) /\ b.tabs[t] = u
               /\ \A k \in DOMAIN w.tabs : k # t => b.tabs[k] = w.tabs[k]
               /\ b.active_tab = w.active_tab /\ b.next_tab = w.next_tab /\ b.next_pane = w.next_pane
               /\ b.numbers = w.numbers /\ b.id = w.id /\ b.space = w.space
<1> DEFINE r == [w.tabs EXCEPT ![t] = u]
           b == PutTab(w, t, u)
<1>1. w.tabs \in Seq(TabRecord) /\ t \in 1 .. Len(w.tabs)
  BY SpaceFields
<1>2. /\ DOMAIN r = DOMAIN w.tabs /\ Len(r) = Len(w.tabs) /\ r[t] = u
      /\ \A k \in DOMAIN w.tabs : k # t => r[k] = w.tabs[k]
  BY <1>1
<1>3. b = [w EXCEPT !.tabs = r]
  BY DEF PutTab, SpaceRecord
<1> HIDE DEF r
<1>4. /\ b.tabs = r /\ b.active_tab = w.active_tab /\ b.next_tab = w.next_tab /\ b.next_pane = w.next_pane
      /\ b.numbers = w.numbers /\ b.id = w.id /\ b.space = w.space
  BY <1>3 DEF SpaceRecord
<1>5. QED
  BY <1>2, <1>4

\* A tab changes that keeps its panes.
LEMMA TouchTabOK ==
    ASSUME NEW w, NEW N \in Nat, SpaceOK(w, {}, N), NEW t \in DOMAIN w.tabs,
           NEW u, TabOK(u), u.number = w.tabs[t].number, u.panes = w.tabs[t].panes
    PROVE  LET b == PutTab(w, t, u)
           IN  SpaceOK(b, {}, N) /\ Kin(w, b) /\ PanesIn(b.tabs) = PanesIn(w.tabs) /\ b.tabs # <<>>
<1> DEFINE b == PutTab(w, t, u)
           X == {}
<1>1. u.panes \ w.tabs[t].panes \subseteq X /\ X = (X \cup w.tabs[t].panes) \ u.panes /\ SpaceOK(w, X, N)
  OBVIOUS
<1>2. w \in SpaceRecord /\ u \in TabRecord
  BY SpaceFacts DEF TabOK
<1> HIDE DEF X
<1>3. SpaceOK(b, X, N) /\ Kin(w, b)
  BY <1>1, PutTabAll
<1>4. /\ DOMAIN b.tabs = DOMAIN w.tabs /\ b.tabs[t] = u
      /\ \A k \in DOMAIN w.tabs : k # t => b.tabs[k] = w.tabs[k]
  BY <1>2, PutTabFacts
<1> HIDE DEF b
<1>5. \A k \in DOMAIN w.tabs : b.tabs[k].panes = w.tabs[k].panes
  BY <1>4
<1>6. PanesIn(b.tabs) = PanesIn(w.tabs)
  BY <1>4, <1>5 DEF PanesIn
<1>7. b.tabs # <<>>
  BY <1>4
<1>8. QED
  BY <1>3, <1>6, <1>7 DEF X, b

\* A workspace of the app changes that keeps its panes.
LEMMA TouchOK ==
    ASSUME NEW N \in Nat, NEW np \in Nat, NEW nw \in Nat, NEW X, NEW a, AppOK(a, X, N, np, nw),
           NEW i \in DOMAIN a.workspaces, NEW w, SpaceOK(w, {}, N), Kin(a.workspaces[i], w), w.tabs # <<>>,
           PanesIn(w.tabs) = PanesIn(a.workspaces[i].tabs),
           NEW b \in AppRecord, b.workspaces = [a.workspaces EXCEPT ![i] = w], b.terminals = a.terminals,
           b.previous.ws < nw, b.previous.pane < np
    PROVE  /\ AppOK(b, X, N, np, nw) /\ Follows(a.workspaces, b.workspaces, {}, np, nw)
           /\ PanesAll(b.workspaces) = PanesAll(a.workspaces)
<1> DEFINE S == a.workspaces
           r == [S EXCEPT ![i] = w]
<1>1. /\ SpacesOK(S, N, nw) /\ a.terminals = PanesAll(S) \cup X
      /\ \A p \in a.terminals : p \in 1 .. np - 1
  BY DEF AppOK
<1>2. w.id = S[i].id
  BY DEF Kin
<1> HIDE DEF S
<1>3. PanesIn(w.tabs) \cap (PanesAll(S) \ PanesIn(S[i].tabs)) = {}
  BY DEF S
<1>4. SpacesOK(r, N, nw) /\ PanesAll(r) = (PanesAll(S) \ PanesIn(S[i].tabs)) \cup PanesIn(w.tabs)
  BY <1>1, <1>2, <1>3, SpacesPut DEF S
<1>5. PanesAll(r) = PanesAll(S)
  <2>1. PanesIn(S[i].tabs) \subseteq PanesAll(S)
    BY PanesAllFacts DEF S
  <2>2. QED
    BY <1>4, <2>1 DEF S
<1>6. Follows(S, r, {}, np, nw)
  <2>1. \A p \in PanesIn(w.tabs) : p \in PanesIn(S[i].tabs)
    BY DEF S
  <2>2. Kin(S[i], w) /\ i \in DOMAIN S
    BY DEF S
  <2>3. QED
    BY <1>1, <2>1, <2>2, FollowsPut
<1>7. b.workspaces = r
  BY DEF S
<1> HIDE DEF r
<1>8. AppOK(b, X, N, np, nw)
  BY <1>1, <1>4, <1>5, <1>7 DEF AppOK, S
<1>9. QED
  BY <1>5, <1>6, <1>7, <1>8 DEF S

\* A tab of the app changes that keeps its panes.
TabPut(a, i, t, u) == [a EXCEPT !.workspaces[i].tabs[t] = u]

LEMMA TabPutOK ==
    ASSUME NEW N \in Nat, NEW np \in Nat, NEW nw \in Nat, NEW X, NEW a, AppOK(a, X, N, np, nw),
           NEW i \in DOMAIN a.workspaces, NEW t \in DOMAIN a.workspaces[i].tabs,
           NEW u, TabOK(u), u.number = a.workspaces[i].tabs[t].number, u.panes = a.workspaces[i].tabs[t].panes
    PROVE  LET b == TabPut(a, i, t, u)
           IN  /\ AppOK(b, X, N, np, nw) /\ Follows(a.workspaces, b.workspaces, {}, np, nw)
               /\ PanesAll(b.workspaces) = PanesAll(a.workspaces) /\ DOMAIN b.workspaces = DOMAIN a.workspaces
               /\ b.active = a.active /\ b.selected = a.selected /\ b.aliases = a.aliases
               /\ b.workspaces[i] = PutTab(a.workspaces[i], t, u)
               /\ DOMAIN b.workspaces[i].tabs = DOMAIN a.workspaces[i].tabs
               /\ PanesIn(b.workspaces[i].tabs) = PanesIn(a.workspaces[i].tabs)
<1> DEFINE S == a.workspaces
           w == PutTab(S[i], t, u)
           r == [S EXCEPT ![i] = w]
           b == TabPut(a, i, t, u)
<1>1. a \in AppRecord /\ SpacesOK(S, N, nw) /\ a.previous.ws < nw /\ a.previous.pane < np /\ S \in Seq(SpaceRecord)
  BY AppFields DEF AppOK
<1>2. SpaceOK(S[i], {}, N)
  BY DEF SpacesOK, AppOK
<1>3. /\ SpaceOK(w, {}, N) /\ Kin(S[i], w) /\ PanesIn(w.tabs) = PanesIn(S[i].tabs) /\ w.tabs # <<>>
  <2> DEFINE v == S[i]
           c == PutTab(v, t, u)
  <2>1. SpaceOK(v, {}, N) /\ t \in DOMAIN v.tabs /\ u.number = v.tabs[t].number /\ u.panes = v.tabs[t].panes
    BY <1>2
  <2>2. w = c
    OBVIOUS
  <2> HIDE DEF v
  <2>3. SpaceOK(c, {}, N) /\ Kin(v, c) /\ PanesIn(c.tabs) = PanesIn(v.tabs) /\ c.tabs # <<>>
    BY <2>1, TouchTabOK
  <2> HIDE DEF c
  <2>4. QED
    BY <2>2, <2>3 DEF v
<1>4. b = [a EXCEPT !.workspaces = r]
  BY <1>1, Zenon DEF TabPut, PutTab
<1> HIDE DEF b, w
<1>5. r \in Seq(SpaceRecord)
  BY <1>1, <1>3 DEF SpaceOK
<1>10. r[i] = w
  BY <1>1
<1>11. DOMAIN w.tabs = DOMAIN S[i].tabs
  <2> DEFINE v == S[i]
  <2>1. v \in SpaceRecord /\ u \in TabRecord /\ t \in DOMAIN v.tabs
    BY <1>1 DEF TabOK
  <2> HIDE DEF v
  <2>2. DOMAIN PutTab(v, t, u).tabs = DOMAIN v.tabs
    BY <2>1, PutTabFacts
  <2>3. QED
    BY <2>2 DEF v, w
<1> HIDE DEF r
<1>6. /\ b \in AppRecord /\ b.workspaces = r /\ b.terminals = a.terminals /\ b.previous = a.previous
      /\ b.active = a.active /\ b.selected = a.selected /\ b.aliases = a.aliases
  BY <1>1, <1>4, <1>5 DEF AppRecord
<1>7. /\ AppOK(b, X, N, np, nw) /\ Follows(S, b.workspaces, {}, np, nw)
      /\ PanesAll(b.workspaces) = PanesAll(S)
  BY <1>1, <1>3, <1>6, TouchOK DEF r
<1>8. DOMAIN b.workspaces = DOMAIN S
  BY <1>6 DEF r
<1>9. QED
  BY <1>3, <1>6, <1>7, <1>8, <1>10, <1>11 DEF b, w

\* What the user looks at.
LEMMA ViewActive ==
    ASSUME NEW a, NEW lose, a.active \in DOMAIN a.workspaces, a.selected \in DOMAIN a.workspaces
    PROVE  ViewOK(a, lose)
BY DEF ViewOK

LEMMA ViewSame ==
    ASSUME NEW a, NEW b, NEW lose, ViewOK(a, lose), NEW n, DOMAIN a.workspaces = 1 .. n, n \in Nat,
           DOMAIN b.workspaces = DOMAIN a.workspaces, n # 0,
           b.active = a.active, b.selected = a.selected
    PROVE  ViewOK(b, lose)
<1>1. a.workspaces # <<>> /\ b.workspaces # <<>>
  OBVIOUS
<1>2. QED
  BY <1>1 DEF ViewOK

LEMMA SwitchTabOK ==
    ASSUME NEW N \in Nat, NEW np \in Nat \ {0}, NEW nw \in Nat \ {0}, NEW X, NEW a, AppOK(a, X, N, np, nw),
           NEW i \in DOMAIN a.workspaces, NEW t \in DOMAIN a.workspaces[i].tabs
    PROVE  LET b == SwitchTab(a, i, t)
           IN  /\ AppOK(b, X, N, np, nw) /\ Follows(a.workspaces, b.workspaces, {}, np, nw)
               /\ PanesAll(b.workspaces) = PanesAll(a.workspaces) /\ DOMAIN b.workspaces = DOMAIN a.workspaces
               /\ b.active = i /\ b.selected = i /\ b.aliases = a.aliases
               /\ b.workspaces[i].tabs = a.workspaces[i].tabs
<1> DEFINE S == a.workspaces
           w == [S[i] EXCEPT !.active_tab = t]
           r == [S EXCEPT ![i] = w]
           c == [a EXCEPT !.active = i, !.selected = i, !.workspaces[i].active_tab = t]
           f == CurrentFocus(a)
           b == SwitchTab(a, i, t)
<1>1. a \in AppRecord /\ SpacesOK(S, N, nw) /\ a.previous.ws < nw /\ a.previous.pane < np /\ S \in Seq(SpaceRecord)
  BY AppFields DEF AppOK
<1>2. SpaceOK(S[i], {}, N) /\ S[i].tabs # <<>>
  BY DEF SpacesOK, AppOK
<1>3. SpaceOK(w, {}, N) /\ Kin(S[i], w) /\ w.tabs = S[i].tabs
  <2> DEFINE v == S[i]
  <2>1. SpaceOK(v, {}, N) /\ t \in DOMAIN v.tabs
    BY <1>2
  <2> HIDE DEF v
  <2>2. LET d == [v EXCEPT !.active_tab = t]
        IN  SpaceOK(d, {}, N) /\ Kin(v, d) /\ d.tabs = v.tabs
    BY <2>1, ShowTabOK
  <2>3. QED
    BY <2>2 DEF v
<1>4. c = [a EXCEPT !.workspaces = r, !.active = i, !.selected = i]
  BY <1>1 DEF AppRecord
<1>5. f \in [ws : Nat, pane : Nat] /\ f.ws < nw /\ f.pane < np
  BY CurrentFocusFacts
<1>6. b = Record(c, f)
  BY DEF SwitchTab
<1> HIDE DEF b, c, w, f
<1>7. r \in Seq(SpaceRecord) /\ DOMAIN r = DOMAIN S /\ r[i] = w
  BY <1>1, <1>3 DEF SpaceOK
<1>8. i \in Nat
  BY <1>1
<1> HIDE DEF r
<1>9. /\ c \in AppRecord /\ c.workspaces = r /\ c.terminals = a.terminals /\ c.previous = a.previous
      /\ c.active = i /\ c.selected = i /\ c.aliases = a.aliases
  BY <1>1, <1>4, <1>7, <1>8 DEF AppRecord
<1>10. /\ AppOK(c, X, N, np, nw) /\ Follows(S, c.workspaces, {}, np, nw)
       /\ PanesAll(c.workspaces) = PanesAll(S)
  <2>1. w.tabs # <<>> /\ PanesIn(w.tabs) = PanesIn(S[i].tabs)
    BY <1>2, <1>3
  <2>2. QED
    BY <1>1, <1>3, <1>9, <2>1, TouchOK DEF r
<1>11. /\ AppOK(b, X, N, np, nw) /\ b.workspaces = c.workspaces /\ b.active = c.active
       /\ b.selected = c.selected /\ b.aliases = c.aliases
  BY <1>5, <1>6, <1>10, RecordOK
<1>12. b.workspaces[i].tabs = S[i].tabs /\ DOMAIN b.workspaces = DOMAIN S
  BY <1>3, <1>7, <1>9, <1>11
<1>13. QED
  BY <1>9, <1>10, <1>11, <1>12 DEF b

\* Another workspace in the place of one, and other terminals.
AppPut(a, i, w, T) == [a EXCEPT !.workspaces = [a.workspaces EXCEPT ![i] = w], !.terminals = T]

IsPut(a, i, w, T, b) ==
    /\ b \in AppRecord /\ b.workspaces = [a.workspaces EXCEPT ![i] = w] /\ b.terminals = T
    /\ b.active = a.active /\ b.selected = a.selected /\ b.aliases = a.aliases
    /\ b.previous = a.previous /\ DOMAIN b.workspaces = DOMAIN a.workspaces /\ b.workspaces[i] = w

LEMMA AppPutFields ==
    ASSUME NEW a \in AppRecord, NEW i \in DOMAIN a.workspaces, NEW w \in SpaceRecord, NEW T \in SUBSET Nat
    PROVE  IsPut(a, i, w, T, AppPut(a, i, w, T))
<1> DEFINE r == [a.workspaces EXCEPT ![i] = w]
           b == AppPut(a, i, w, T)
<1>1. r \in Seq(SpaceRecord) /\ DOMAIN r = DOMAIN a.workspaces /\ r[i] = w
  BY AppFields
<1>2. b = [a EXCEPT !.workspaces = r, !.terminals = T]
  BY DEF AppPut
<1> HIDE DEF r, b
<1>3. /\ b \in AppRecord /\ b.workspaces = r /\ b.terminals = T /\ b.active = a.active /\ b.selected = a.selected
      /\ b.aliases = a.aliases /\ b.previous = a.previous
  BY <1>1, <1>2 DEF AppRecord
<1>4. QED
  BY <1>1, <1>3 DEF r, b, IsPut

\* A workspace gets the next pane.
LEMMA GrownOK ==
    ASSUME NEW N \in Nat, NEW np \in Nat \ {0}, NEW nw \in Nat, NEW a, AppOK(a, {}, N, np, nw),
           NEW i \in DOMAIN a.workspaces, NEW w, SpaceOK(w, {}, N), Kin(a.workspaces[i], w), w.tabs # <<>>,
           PanesIn(w.tabs) = PanesIn(a.workspaces[i].tabs) \cup {np}, NEW T, T = a.terminals \cup {np}
    PROVE  LET b == AppPut(a, i, w, T)
           IN  AppOK(b, {}, N, np + 1, nw) /\ Follows(a.workspaces, b.workspaces, {}, np, nw)
<1> DEFINE S == a.workspaces
           r == [S EXCEPT ![i] = w]
           b == AppPut(a, i, w, T)
<1>1. /\ a \in AppRecord /\ SpacesOK(S, N, nw) /\ a.terminals = PanesAll(S)
      /\ \A p \in a.terminals : p \in Nat /\ p >= 1 /\ p < np
  <2>1. a \in AppRecord /\ SpacesOK(S, N, nw) /\ a.terminals = PanesAll(S)
    BY DEF AppOK
  <2>2. \A p \in a.terminals : p \in Nat /\ p >= 1 /\ p < np
    <3>1. \A p \in a.terminals : p \in 1 .. np - 1
      BY DEF AppOK
    <3>2. QED
      BY <3>1
  <2>3. QED
    BY <2>1, <2>2
<1>2. a.previous.ws < nw /\ a.previous.pane < np /\ a.previous.pane \in Nat
  BY <1>1, AppFields DEF AppOK
<1>3. w \in SpaceRecord /\ T \in SUBSET Nat
  BY <1>1 DEF SpaceOK
<1>4. /\ b \in AppRecord /\ b.workspaces = r /\ b.terminals = T /\ b.previous = a.previous
  BY <1>1, <1>3, AppPutFields DEF IsPut
<1> HIDE DEF b, S
<1>5. w.id = S[i].id
  BY DEF Kin, S
<1>6. PanesIn(S[i].tabs) \subseteq PanesAll(S) /\ np \notin PanesAll(S) /\ i \in DOMAIN S
  BY <1>1, PanesAllFacts DEF S
<1>7. PanesIn(w.tabs) = PanesIn(S[i].tabs) \cup {np}
  BY DEF S
<1>8. PanesIn(w.tabs) \cap (PanesAll(S) \ PanesIn(S[i].tabs)) = {}
  BY <1>6, <1>7
<1>9. SpacesOK(r, N, nw) /\ PanesAll(r) = (PanesAll(S) \ PanesIn(S[i].tabs)) \cup PanesIn(w.tabs)
  BY <1>1, <1>5, <1>8, SpacesPut DEF S
<1>10. Follows(S, r, {}, np, nw)
  <2>1. \A p \in PanesIn(w.tabs) : p \in PanesIn(S[i].tabs) \/ p \in {} \/ np <= p
    BY <1>7
  <2>2. Kin(S[i], w)
    BY DEF S
  <2>3. QED
    BY <1>1, <1>6, <2>1, <2>2, FollowsPut
<1> HIDE DEF r
<1>11. PanesAll(r) = PanesAll(S) \cup {np}
  BY <1>6, <1>7, <1>9
<1>12. \A p \in T : p \in 1 .. (np + 1) - 1
  BY <1>1
<1>13. AppOK(b, {}, N, np + 1, nw)
  BY <1>1, <1>2, <1>4, <1>9, <1>11, <1>12 DEF AppOK
<1>14. QED
  BY <1>4, <1>10, <1>13 DEF b, S

\* A workspace loses panes; their terminals are still there.
LEMMA ShrunkOK ==
    ASSUME NEW N \in Nat, NEW np \in Nat, NEW nw \in Nat, NEW a, AppOK(a, {}, N, np, nw),
           NEW i \in DOMAIN a.workspaces, NEW w, SpaceOK(w, {}, N), Kin(a.workspaces[i], w), w.tabs # <<>>,
           NEW P, P \subseteq PanesIn(a.workspaces[i].tabs), PanesIn(w.tabs) = PanesIn(a.workspaces[i].tabs) \ P
    PROVE  LET b == AppPut(a, i, w, a.terminals)
           IN  AppOK(b, P, N, np, nw) /\ Follows(a.workspaces, b.workspaces, {}, np, nw)
<1> DEFINE S == a.workspaces
           r == [S EXCEPT ![i] = w]
           b == AppPut(a, i, w, a.terminals)
<1>1. /\ a \in AppRecord /\ SpacesOK(S, N, nw) /\ a.terminals = PanesAll(S)
      /\ \A p \in a.terminals : p \in 1 .. np - 1
      /\ a.previous.ws < nw /\ a.previous.pane < np
  BY DEF AppOK
<1>2. w \in SpaceRecord /\ a.terminals \in SUBSET Nat
  BY <1>1, AppFields DEF SpaceOK
<1>3. /\ b \in AppRecord /\ b.workspaces = r /\ b.terminals = a.terminals /\ b.previous = a.previous
  BY <1>1, <1>2, AppPutFields DEF IsPut
<1> HIDE DEF b, S
<1>4. w.id = S[i].id /\ Kin(S[i], w)
  BY DEF Kin, S
<1>5. PanesIn(S[i].tabs) \subseteq PanesAll(S) /\ i \in DOMAIN S
  BY PanesAllFacts DEF S
<1>6. PanesIn(w.tabs) = PanesIn(S[i].tabs) \ P /\ P \subseteq PanesIn(S[i].tabs)
  BY DEF S
<1>7. PanesIn(w.tabs) \cap (PanesAll(S) \ PanesIn(S[i].tabs)) = {}
  BY <1>6
<1>8. SpacesOK(r, N, nw) /\ PanesAll(r) = (PanesAll(S) \ PanesIn(S[i].tabs)) \cup PanesIn(w.tabs)
  BY <1>1, <1>4, <1>7, SpacesPut DEF S
<1>9. Follows(S, r, {}, np, nw)
  <2>1. \A p \in PanesIn(w.tabs) : p \in PanesIn(S[i].tabs) \/ p \in {} \/ np <= p
    BY <1>6
  <2>2. QED
    BY <1>1, <1>4, <1>5, <2>1, FollowsPut
<1> HIDE DEF r
<1>10. a.terminals = PanesAll(r) \cup P
  BY <1>1, <1>5, <1>6, <1>8
<1>11. AppOK(b, P, N, np, nw)
  BY <1>1, <1>3, <1>8, <1>10 DEF AppOK
<1>12. QED
  BY <1>3, <1>9, <1>11 DEF b, S

\* The terminals of panes that are gone go.
LEMMA ForgetOK ==
    ASSUME NEW N \in Nat, NEW np \in Nat \ {0}, NEW nw \in Nat \ {0}, NEW X, NEW a, AppOK(a, X, N, np, nw),
           NEW P, X \subseteq P
    PROVE  LET b == Forget(a, P)
           IN  /\ AppOK(b, {}, N, np, nw) /\ b.workspaces = a.workspaces /\ b.active = a.active
               /\ b.selected = a.selected /\ b.aliases = a.aliases
<1> DEFINE S == a.workspaces
           T == a.terminals \ (P \ AllPanes(a))
           f == IF a.previous.pane \in P THEN NoFocus ELSE a.previous
           b == Forget(a, P)
<1>1. /\ a \in AppRecord /\ SpacesOK(S, N, nw) /\ a.terminals = PanesAll(S) \cup X
      /\ \A p \in a.terminals : p \in 1 .. np - 1
      /\ a.previous.ws < nw /\ a.previous.pane < np
  BY DEF AppOK
<1>2. AllPanes(a) = PanesAll(S)
  BY AllPanesIn
<1>3. T = PanesAll(S)
  BY <1>1, <1>2
<1>4. f \in [ws : Nat, pane : Nat] /\ f.ws < nw /\ f.pane < np
  <2>1. NoFocus \in [ws : Nat, pane : Nat] /\ NoFocus.ws = 0 /\ NoFocus.pane = 0
    BY DEF NoFocus
  <2>2. a.previous \in [ws : Nat, pane : Nat]
    BY <1>1, AppFields
  <2>3. QED
    BY <1>1, <2>1, <2>2
<1>5. T \in SUBSET Nat /\ \A p \in T : p \in 1 .. np - 1
  BY <1>1, AppFields
<1>6. b = [a EXCEPT !.previous = f, !.terminals = T]
  BY DEF Forget
<1> HIDE DEF f, T, b
<1>7. /\ b \in AppRecord /\ b.workspaces = S /\ b.active = a.active /\ b.selected = a.selected
      /\ b.aliases = a.aliases /\ b.previous = f /\ b.terminals = T
  BY <1>1, <1>4, <1>5, <1>6 DEF AppRecord
<1>8. AppOK(b, {}, N, np, nw)
  BY <1>1, <1>3, <1>4, <1>5, <1>7 DEF AppOK
<1>9. QED
  BY <1>7, <1>8 DEF b

\* The same when no pane and no workspace comes up in between.
LEMMA FollowsTwice ==
    ASSUME NEW N \in Nat, NEW np \in Nat, NEW nw \in Nat, NEW a, NEW b, NEW c,
           AppOK(a, {}, N, np, nw), AppOK(b, {}, N, np, nw), AppOK(c, {}, N, np, nw),
           Follows(a.workspaces, b.workspaces, {}, np, nw), Follows(b.workspaces, c.workspaces, {}, np, nw)
    PROVE  Follows(a.workspaces, c.workspaces, {}, np, nw)
<1>1. SpacesOK(a.workspaces, N, nw) /\ SpacesOK(b.workspaces, N, nw) /\ SpacesOK(c.workspaces, N, nw)
  BY DEF AppOK
<1>2. \A p \in PanesAll(a.workspaces) : p \in Nat /\ p < np
  <2>1. \A p \in PanesAll(a.workspaces) : p \in 1 .. np - 1
    BY DEF AppOK
  <2>2. QED
    BY <2>1
<1>3. \A p \in PanesAll(c.workspaces) : p \in Nat
  <2>1. \A p \in PanesAll(c.workspaces) : p \in 1 .. np - 1
    BY DEF AppOK
  <2>2. QED
    BY <2>1
<1>4. np <= np /\ nw <= nw
  OBVIOUS
<1>5. QED
  BY <1>1, <1>2, <1>3, <1>4, FollowsTransitive

\* The focus goes to a pane.
LEMMA FocusPaneOK ==
    ASSUME NEW N \in Nat, NEW np \in Nat \ {0}, NEW nw \in Nat \ {0}, NEW a, AppOK(a, {}, N, np, nw),
           NEW i \in DOMAIN a.workspaces, NEW p \in PanesIn(a.workspaces[i].tabs)
    PROVE  LET b == FocusPane(a, i, p)
           IN  /\ AppOK(b, {}, N, np, nw) /\ Follows(a.workspaces, b.workspaces, {}, np, nw)
               /\ DOMAIN b.workspaces = DOMAIN a.workspaces /\ (b = a \/ (b.active = i /\ b.selected = i))
               /\ b.aliases = a.aliases /\ PanesAll(b.workspaces) = PanesAll(a.workspaces)
               /\ PanesIn(b.workspaces[i].tabs) = PanesIn(a.workspaces[i].tabs)
<1> DEFINE S == a.workspaces
           t == TabOf(S[i], p)
           c == SwitchTab(a, i, t)
           u == [c.workspaces[i].tabs[t] EXCEPT !.focus = p]
           d == TabPut(c, i, t, u)
           f == CurrentFocus(a)
           b == FocusPane(a, i, p)
           there == f = [ws |-> S[i].id, pane |-> p]
<1>1. SpacesOK(S, N, nw)
  BY DEF AppOK
<1>2. t \in DOMAIN S[i].tabs /\ p \in S[i].tabs[t].panes
  <2> DEFINE w == S[i]
  <2>1. w.tabs \in Seq(TabRecord)
    BY <1>1, SpacesFacts
  <2>2. p \in PanesOf(w)
    BY PanesOfIn
  <2> HIDE DEF w
  <2>3. TabOf(w, p) \in DOMAIN w.tabs /\ p \in w.tabs[TabOf(w, p)].panes
    BY <2>1, <2>2, TabOfFacts
  <2>4. QED
    BY <2>3 DEF w
<1> HIDE DEF t
<1>3. /\ AppOK(c, {}, N, np, nw) /\ Follows(S, c.workspaces, {}, np, nw)
      /\ PanesAll(c.workspaces) = PanesAll(S) /\ DOMAIN c.workspaces = DOMAIN S
      /\ c.active = i /\ c.selected = i /\ c.aliases = a.aliases
      /\ c.workspaces[i].tabs = S[i].tabs
  BY <1>2, SwitchTabOK
<1>4. b = IF there THEN a ELSE Record(d, f)
  BY DEF FocusPane, TabPut, t
<1>5. f \in [ws : Nat, pane : Nat] /\ f.ws < nw /\ f.pane < np
  BY CurrentFocusFacts
<1> HIDE DEF c, f, b, there
<1>6. TabOK(u) /\ u.number = c.workspaces[i].tabs[t].number /\ u.panes = c.workspaces[i].tabs[t].panes
  <2> DEFINE v == S[i].tabs[t]
  <2>1. TabOK(v)
    BY <1>1, <1>2, SpacesFacts DEF TabsOK
  <2>2. p \in v.panes /\ v.zoomed \in BOOLEAN
    BY <1>2, <2>1 DEF TabOK, TabRecord
  <2>3. u = [v EXCEPT !.focus = p]
    BY <1>3
  <2>4. c.workspaces[i].tabs[t] = v
    BY <1>3
  <2> HIDE DEF v, u
  <2>5. TabOK(u) /\ u.number = v.number /\ u.panes = v.panes
    <3>1. /\ u \in TabRecord /\ u.number = v.number /\ u.panes = v.panes /\ u.layout = v.layout
          /\ u.focus = p /\ u.root = v.root
      BY <2>1, <2>2, <2>3 DEF TabOK, TabRecord
    <3>2. QED
      BY <2>1, <2>2, <3>1 DEF TabOK
  <2>6. QED
    BY <2>4, <2>5
<1> HIDE DEF u
<1>7. /\ AppOK(d, {}, N, np, nw) /\ Follows(c.workspaces, d.workspaces, {}, np, nw)
      /\ PanesAll(d.workspaces) = PanesAll(c.workspaces) /\ DOMAIN d.workspaces = DOMAIN c.workspaces
      /\ d.active = c.active /\ d.selected = c.selected /\ d.aliases = c.aliases
      /\ PanesIn(d.workspaces[i].tabs) = PanesIn(c.workspaces[i].tabs)
  <2>1. i \in DOMAIN c.workspaces /\ t \in DOMAIN c.workspaces[i].tabs
    BY <1>2, <1>3
  <2>2. QED
    BY <1>3, <1>6, <2>1, TabPutOK
<1> HIDE DEF d
<1>8. CASE there
  <2>1. b = a
    BY <1>4, <1>8
  <2>2. Follows(S, S, {}, np, nw)
    BY <1>1, FollowsPicked
  <2>3. QED
    BY <2>1, <2>2 DEF b
<1>9. CASE ~there
  <2>1. /\ AppOK(b, {}, N, np, nw) /\ b.workspaces = d.workspaces /\ b.active = d.active
        /\ b.selected = d.selected /\ b.aliases = d.aliases
    BY <1>4, <1>5, <1>7, <1>9, RecordOK
  <2>2. Follows(S, d.workspaces, {}, np, nw)
    BY <1>3, <1>7, FollowsTwice DEF AppOK
  <2>3. QED
    BY <1>3, <1>7, <2>1, <2>2 DEF b
<1>10. QED
  BY <1>8, <1>9

\* What becomes of what became of it.
LEMMA FollowsThen ==
    ASSUME NEW N \in Nat, NEW np \in Nat, NEW nw \in Nat, NEW np1 \in Nat, NEW nw1 \in Nat, NEW nw2 \in Nat,
           NEW np2 \in Nat, NEW X, NEW Y, NEW Z, NEW M,
           np <= np1, nw <= nw1, NEW a, NEW b, NEW c,
           AppOK(a, X, N, np, nw), AppOK(b, Y, N, np1, nw1), AppOK(c, Z, N, np2, nw2),
           Follows(a.workspaces, b.workspaces, M, np, nw), Follows(b.workspaces, c.workspaces, {}, np1, nw1)
    PROVE  Follows(a.workspaces, c.workspaces, M, np, nw)
<1>1. SpacesOK(a.workspaces, N, nw) /\ SpacesOK(b.workspaces, N, nw1) /\ SpacesOK(c.workspaces, N, nw2)
  BY DEF AppOK
<1> DEFINE S == a.workspaces
           T == b.workspaces
           U == c.workspaces
<1>2. \A p \in PanesAll(a.workspaces) : p \in Nat /\ p < np
  <2>1. \A p \in PanesAll(a.workspaces) : p \in 1 .. np - 1
    BY DEF AppOK
  <2>2. QED
    BY <2>1
<1>3. \A p \in PanesAll(c.workspaces) : p \in Nat
  <2>1. \A p \in PanesAll(c.workspaces) : p \in 1 .. np2 - 1
    BY DEF AppOK
  <2>2. QED
    BY <2>1
<1>4. /\ SpacesOK(S, N, nw) /\ SpacesOK(T, N, nw1) /\ SpacesOK(U, N, nw2)
      /\ \A p \in PanesAll(S) : p \in Nat /\ p < np
      /\ \A p \in PanesAll(U) : p \in Nat
      /\ Follows(S, T, M, np, nw) /\ Follows(T, U, {}, np1, nw1)
  BY <1>1, <1>2, <1>3
<1> HIDE DEF S, T, U
<1>5. Follows(S, U, M, np, nw)
  BY <1>4, FollowsTransitive
<1>6. QED
  BY <1>5 DEF S, U

\* The workspace, if a pane is put into one of its tabs and then registered.
LEMMA RegisteredLast ==
    ASSUME NEW w \in SpaceRecord, NEW t, NEW u, NEW p, p \notin DOMAIN w.numbers
    PROVE  Register([w EXCEPT !.tabs[t] = u], p) = [Numbered(w, p) EXCEPT !.tabs[t] = u]
<1>1. Numbered(w, p) = [w EXCEPT !.numbers = With(w.numbers, p, w.next_pane), !.next_pane = w.next_pane + 1]
  BY DEF Numbered, Register
<1> DEFINE f == With(w.numbers, p, w.next_pane)
<1>2. Register([w EXCEPT !.tabs[t] = u], p) =
        [[w EXCEPT !.tabs[t] = u] EXCEPT !.numbers = f, !.next_pane = w.next_pane + 1]
  BY DEF Register, SpaceRecord
<1> HIDE DEF f
<1>3. QED
  BY <1>1, <1>2 DEF f, SpaceRecord

\* The tab of a pane.
LEMMA TabOfPane ==
    ASSUME NEW w, NEW N \in Nat, NEW X, SpaceOK(w, X, N), NEW p \in PanesIn(w.tabs)
    PROVE  /\ TabOf(w, p) \in DOMAIN w.tabs /\ p \in w.tabs[TabOf(w, p)].panes
           /\ TabOK(w.tabs[TabOf(w, p)])
<1>1. w.tabs \in Seq(TabRecord) /\ TabsOK(w.tabs)
  BY SpaceFacts
<1>2. p \in PanesOf(w)
  BY PanesOfIn
<1>3. TabOf(w, p) \in DOMAIN w.tabs /\ p \in w.tabs[TabOf(w, p)].panes
  BY <1>1, <1>2, TabOfFacts
<1>4. QED
  BY <1>1, <1>3 DEF TabsOK

\* A pane is split off one of a workspace.
SplitTab(t, target, p, focus) ==
    IF focus THEN Insert(t, target, p) ELSE [Insert(t, target, p) EXCEPT !.focus = t.focus]

LEMMA SplitTabOK ==
    ASSUME NEW t, TabOK(t), NEW target \in t.panes, NEW p \in Nat, p \notin t.panes, NEW focus
    PROVE  LET u == SplitTab(t, target, p, focus)
           IN  TabOK(u) /\ u.number = t.number /\ u.panes = t.panes \cup {p}
<1> DEFINE b == Insert(t, target, p)
           c == [b EXCEPT !.focus = t.focus]
<1>1. TabOK(b) /\ b.number = t.number /\ b.panes = t.panes \cup {p} /\ t.focus \in b.panes
  BY InsertOK
<1> HIDE DEF b
<1>2. TabOK(c) /\ c.number = t.number /\ c.panes = t.panes \cup {p}
  <2>1. b \in TabRecord /\ t.focus \in Nat
    BY <1>1 DEF TabOK, TabRecord
  <2>2. /\ c \in TabRecord /\ c.number = b.number /\ c.panes = b.panes /\ c.layout = b.layout
        /\ c.focus = t.focus /\ c.root = b.root
    BY <2>1 DEF TabRecord
  <2> HIDE DEF c
  <2>3. QED
    BY <1>1, <2>2 DEF TabOK
<1> HIDE DEF c
<1>3. SplitTab(t, target, p, focus) = IF focus THEN b ELSE c
  BY DEF SplitTab, b, c
<1>4. QED
  BY <1>1, <1>2, <1>3

\* A pane arrives in a tab of a workspace.
Arrived(w, p, t, u) == [Numbered(w, p) EXCEPT !.tabs[t] = u]

LEMMA ArrivedOK ==
    ASSUME NEW w, NEW X, NEW N \in Nat, SpaceOK(w, X, N), NEW p \in Nat, X \subseteq {p},
           p \notin PanesIn(w.tabs), p \in X \/ w.next_pane <= N,
           NEW t \in DOMAIN w.tabs, NEW u, TabOK(u), u.number = w.tabs[t].number, u.panes = w.tabs[t].panes \cup {p}
    PROVE  SpaceOK(Arrived(w, p, t, u), {}, N) /\ Kin(w, Arrived(w, p, t, u))
BY ArriveTabOK DEF Arrived

LEMMA ArrivedFacts ==
    ASSUME NEW w \in SpaceRecord, NEW p \in Nat, NEW t \in DOMAIN w.tabs,
           NEW u \in TabRecord
    PROVE  LET b == Arrived(w, p, t, u)
           IN  /\ \A k \in DOMAIN w.tabs : k # t => b.tabs[k] = w.tabs[k]
               /\ DOMAIN b.tabs = DOMAIN w.tabs /\ Len(b.tabs) = Len(w.tabs) /\ b.tabs[t] = u /\ b.id = w.id
               /\ b.numbers = Numbered(w, p).numbers /\ b.next_pane = Numbered(w, p).next_pane
               /\ b.active_tab = w.active_tab
<1> DEFINE v == Numbered(w, p)
           b == Arrived(w, p, t, u)
<1>1. v \in SpaceRecord
  <2> DEFINE f == With(w.numbers, p, w.next_pane)
  <2>1. f \in NumberMap /\ w.next_pane + 1 \in Nat
    <3>1. w.numbers \in NumberMap /\ w.next_pane \in Nat
      BY SpaceFields
    <3>2. DOMAIN w.numbers \subseteq Nat /\ \A q \in DOMAIN w.numbers : w.numbers[q] \in Nat
      BY <3>1, NumberMapFacts
    <3>3. f \in [DOMAIN w.numbers \cup {p} -> Nat] /\ DOMAIN w.numbers \cup {p} \in SUBSET Nat
      BY <3>1, <3>2 DEF With
    <3> HIDE DEF f
    <3>4. QED
      BY <3>1, <3>3, NumberMapBuilt
  <2> HIDE DEF f
  <2>2. [w EXCEPT !.numbers = f, !.next_pane = w.next_pane + 1] \in SpaceRecord
    BY <2>1 DEF SpaceRecord
  <2>3. QED
    BY <2>2 DEF Numbered, Register, f
<1>2. v.tabs = w.tabs /\ v.active_tab = w.active_tab /\ v.id = w.id
  BY NumberedFacts
<1>3. b = PutTab(v, t, u)
  BY DEF Arrived, PutTab
<1> HIDE DEF v, b
<1>4. t \in DOMAIN v.tabs
  BY <1>2
<1>5. /\ DOMAIN b.tabs = DOMAIN v.tabs /\ Len(b.tabs) = Len(v.tabs) /\ b.tabs[t] = u
      /\ \A k \in DOMAIN v.tabs : k # t => b.tabs[k] = v.tabs[k]
      /\ b.active_tab = v.active_tab /\ b.next_pane = v.next_pane
      /\ b.numbers = v.numbers /\ b.id = v.id
  BY <1>1, <1>3, <1>4, PutTabFacts
<1>6. QED
  BY <1>2, <1>5 DEF b, v

LEMMA ArrivedPanes ==
    ASSUME NEW w \in SpaceRecord, NEW p \in Nat, NEW t \in DOMAIN w.tabs,
           NEW u \in TabRecord, u.panes = w.tabs[t].panes \cup {p}, NEW q
    PROVE  q \in PanesIn(Arrived(w, p, t, u).tabs) <=> q \in PanesIn(w.tabs) \/ q = p
<1> DEFINE b == Arrived(w, p, t, u)
<1>1. /\ \A k \in DOMAIN w.tabs : k # t => b.tabs[k] = w.tabs[k]
      /\ DOMAIN b.tabs = DOMAIN w.tabs /\ b.tabs[t] = u
  BY ArrivedFacts
<1> HIDE DEF b
<1>2. q \in PanesIn(b.tabs) <=> q \in PanesIn(w.tabs) \/ q = p
  BY <1>1, PanesInFacts
<1>3. QED
  BY <1>2 DEF b

SplitSpace(w, target, p, focus) ==
    Register([w EXCEPT !.tabs[TabOf(w, target)] = SplitTab(w.tabs[TabOf(w, target)], target, p, focus)], p)

SplitsTab(w, p, t, u, b) ==
    /\ TabOK(u) /\ u.number = w.tabs[t].number /\ u.panes = w.tabs[t].panes \cup {p}
    /\ b = Arrived(w, p, t, u)

LEMMA SplitSpaceAs ==
    ASSUME NEW w, NEW N \in Nat, SpaceOK(w, {}, N), NEW target \in PanesIn(w.tabs),
           NEW p \in Nat, p \notin PanesIn(w.tabs), w.next_pane <= N, NEW focus
    PROVE  \E t \in DOMAIN w.tabs : \E u : SplitsTab(w, p, t, u, SplitSpace(w, target, p, focus))
<1> DEFINE t == TabOf(w, target)
           u == SplitTab(w.tabs[t], target, p, focus)
<1>1. t \in DOMAIN w.tabs /\ target \in w.tabs[t].panes /\ TabOK(w.tabs[t])
  BY TabOfPane
<1>2. w \in SpaceRecord /\ DOMAIN w.numbers = PanesIn(w.tabs) \cup {}
  BY SpaceFacts
<1>3. p \notin w.tabs[t].panes
  BY <1>1, PanesInFacts
<1> HIDE DEF t
<1>4. TabOK(u) /\ u.number = w.tabs[t].number /\ u.panes = w.tabs[t].panes \cup {p}
  <2> DEFINE v == w.tabs[t]
  <2>1. TabOK(v) /\ target \in v.panes /\ p \notin v.panes
    BY <1>1, <1>3
  <2> HIDE DEF v
  <2>2. LET d == SplitTab(v, target, p, focus) IN TabOK(d) /\ d.number = v.number /\ d.panes = v.panes \cup {p}
    BY <2>1, SplitTabOK
  <2>3. QED
    BY <2>2 DEF v
<1>5. p \notin DOMAIN w.numbers
  BY <1>2
<1>6. SplitSpace(w, target, p, focus) = Arrived(w, p, t, u)
  BY <1>2, <1>5, RegisteredLast DEF SplitSpace, t, Arrived
<1>7. SplitsTab(w, p, t, u, SplitSpace(w, target, p, focus))
  BY <1>4, <1>6 DEF SplitsTab
<1> HIDE DEF u
<1>8. QED
  BY <1>1, <1>7

LEMMA SplitSpaceKin ==
    ASSUME NEW w, NEW N \in Nat, SpaceOK(w, {}, N), NEW target \in PanesIn(w.tabs),
           NEW p \in Nat, p \notin PanesIn(w.tabs), w.next_pane <= N, NEW focus
    PROVE  SpaceOK(SplitSpace(w, target, p, focus), {}, N) /\ Kin(w, SplitSpace(w, target, p, focus))
<1> DEFINE X == {}
<1>a. PICK t \in DOMAIN w.tabs : \E u : SplitsTab(w, p, t, u, SplitSpace(w, target, p, focus))
  BY SplitSpaceAs
<1>0. PICK u : SplitsTab(w, p, t, u, SplitSpace(w, target, p, focus))
  BY <1>a
<1>1. /\ TabOK(u) /\ u.number = w.tabs[t].number /\ u.panes = w.tabs[t].panes \cup {p}
      /\ SplitSpace(w, target, p, focus) = Arrived(w, p, t, u)
  BY <1>0 DEF SplitsTab
<1>2. X \subseteq {p} /\ SpaceOK(w, X, N)
  OBVIOUS
<1> HIDE DEF X
<1>3. SpaceOK(Arrived(w, p, t, u), {}, N) /\ Kin(w, Arrived(w, p, t, u))
  BY <1>1, <1>2, ArrivedOK
<1>4. QED
  BY <1>1, <1>3

LEMMA SplitSpaceFacts ==
    ASSUME NEW w, NEW N \in Nat, SpaceOK(w, {}, N), NEW target \in PanesIn(w.tabs),
           NEW p \in Nat, p \notin PanesIn(w.tabs), w.next_pane <= N, NEW focus
    PROVE  LET b == SplitSpace(w, target, p, focus)
           IN  /\ DOMAIN b.tabs = DOMAIN w.tabs /\ Len(b.tabs) = Len(w.tabs) /\ b.next_pane = w.next_pane + 1
               /\ b.active_tab = w.active_tab
<1> DEFINE b == SplitSpace(w, target, p, focus)
<1>a. PICK t \in DOMAIN w.tabs : \E u : SplitsTab(w, p, t, u, b)
  BY SplitSpaceAs
<1>0. PICK u : SplitsTab(w, p, t, u, b)
  BY <1>a
<1>1. /\ TabOK(u) /\ u.number = w.tabs[t].number /\ u.panes = w.tabs[t].panes \cup {p}
      /\ b = Arrived(w, p, t, u)
  BY <1>0 DEF SplitsTab
<1>2. w \in SpaceRecord /\ DOMAIN w.numbers = PanesIn(w.tabs) \cup {} /\ u \in TabRecord
  BY <1>1, SpaceFacts DEF TabOK
<1>3. p \notin DOMAIN w.numbers
  BY <1>2
<1> HIDE DEF b
<1>4. /\ DOMAIN b.tabs = DOMAIN w.tabs /\ Len(b.tabs) = Len(w.tabs)
      /\ b.next_pane = Numbered(w, p).next_pane /\ b.active_tab = w.active_tab
  BY <1>1, <1>2, ArrivedFacts
<1>5. Numbered(w, p).next_pane = w.next_pane + 1
  BY <1>2, <1>3, NumberedFacts
<1>6. QED
  BY <1>4, <1>5 DEF b

LEMMA SplitSpacePanes ==
    ASSUME NEW w, NEW N \in Nat, SpaceOK(w, {}, N), NEW target \in PanesIn(w.tabs),
           NEW p \in Nat, p \notin PanesIn(w.tabs), w.next_pane <= N, NEW focus, NEW q
    PROVE  q \in PanesIn(SplitSpace(w, target, p, focus).tabs) <=> q \in PanesIn(w.tabs) \/ q = p
<1>a. PICK t \in DOMAIN w.tabs : \E u : SplitsTab(w, p, t, u, SplitSpace(w, target, p, focus))
  BY SplitSpaceAs
<1>0. PICK u : SplitsTab(w, p, t, u, SplitSpace(w, target, p, focus))
  BY <1>a
<1>1. /\ TabOK(u) /\ u.number = w.tabs[t].number /\ u.panes = w.tabs[t].panes \cup {p}
      /\ SplitSpace(w, target, p, focus) = Arrived(w, p, t, u)
  BY <1>0 DEF SplitsTab
<1>2. w \in SpaceRecord /\ u \in TabRecord
  BY <1>1, SpaceFacts DEF TabOK
<1>3. q \in PanesIn(Arrived(w, p, t, u).tabs) <=> q \in PanesIn(w.tabs) \/ q = p
  BY <1>1, <1>2, ArrivedPanes
<1>4. QED
  BY <1>1, <1>3

LEMMA SplitInOK ==
    ASSUME NEW N \in Nat, NEW np \in Nat \ {0}, NEW nw \in Nat \ {0}, NEW a, AppOK(a, {}, N, np, nw),
           NEW i \in DOMAIN a.workspaces, NEW target \in PanesIn(a.workspaces[i].tabs),
           a.workspaces[i].next_pane <= N, NEW focus
    PROVE  LET b == SplitIn(a, i, target, np, focus)
           IN  /\ AppOK(b, {}, N, np + 1, nw) /\ Follows(a.workspaces, b.workspaces, {}, np, nw)
               /\ DOMAIN b.workspaces = DOMAIN a.workspaces /\ b.active = a.active /\ b.selected = a.selected
               /\ b.aliases = a.aliases /\ b.workspaces[i] = SplitSpace(a.workspaces[i], target, np, focus)
<1> DEFINE S == a.workspaces
           w == SplitSpace(S[i], target, np, focus)
           T == a.terminals \cup {np}
           b == SplitIn(a, i, target, np, focus)
<1>1. a \in AppRecord /\ SpacesOK(S, N, nw) /\ a.terminals = PanesAll(S) /\ T \in SUBSET Nat
  BY AppFields DEF AppOK
<1>2. SpaceOK(S[i], {}, N)
  BY <1>1 DEF SpacesOK
<1>3. np \notin PanesIn(S[i].tabs)
  <2>1. \A p \in PanesIn(S[i].tabs) : p \in 1 .. np - 1
    BY <1>1, PanesAllFacts DEF AppOK
  <2>2. QED
    BY <2>1
<1>4. SpaceOK(w, {}, N) /\ Kin(S[i], w) /\ PanesIn(w.tabs) = PanesIn(S[i].tabs) \cup {np} /\ w.tabs # <<>>
  <2> DEFINE v == S[i]
             d == SplitSpace(v, target, np, focus)
  <2>1. SpaceOK(v, {}, N) /\ target \in PanesIn(v.tabs) /\ np \notin PanesIn(v.tabs) /\ v.next_pane <= N
    BY <1>2, <1>3
  <2>2. v.tabs # <<>>
    BY <1>1 DEF SpacesOK
  <2> HIDE DEF v
  <2>3. SpaceOK(d, {}, N) /\ Kin(v, d)
    BY <2>1, SplitSpaceKin
  <2>7. DOMAIN d.tabs = DOMAIN v.tabs
    BY <2>1, SplitSpaceFacts
  <2>8. \A q : q \in PanesIn(d.tabs) <=> q \in PanesIn(v.tabs) \/ q = np
    BY <2>1, SplitSpacePanes
  <2>4. v.tabs \in Seq(TabRecord) /\ d.tabs \in Seq(TabRecord)
    BY <2>1, <2>3, SpaceFacts
  <2> HIDE DEF d
  <2>5. d.tabs # <<>>
    BY <2>2, <2>4, <2>7
  <2>9. PanesIn(d.tabs) = PanesIn(v.tabs) \cup {np}
    BY <2>8
  <2>6. QED
    BY <2>3, <2>5, <2>9 DEF v, d
<1>5. b = AppPut(a, i, w, T)
  <2>1. a = [a EXCEPT !.aliases = a.aliases] /\ S \in Seq(SpaceRecord)
    BY <1>1, AppFields DEF AppRecord
  <2>2. SplitIn(a, i, target, np, focus) = [a EXCEPT !.workspaces[i] = w, !.terminals = T]
    BY Zenon DEF SplitIn, SplitSpace, SplitTab
  <2> HIDE DEF w, T
  <2>3. QED
    BY <1>1, <2>2 DEF AppPut, AppRecord
<1> HIDE DEF w, b
<1>6. w \in SpaceRecord
  BY <1>4 DEF SpaceOK
<1>7. AppOK(b, {}, N, np + 1, nw) /\ Follows(S, b.workspaces, {}, np, nw)
  BY <1>4, <1>5, GrownOK
<1> HIDE DEF T
<1>8. /\ DOMAIN b.workspaces = DOMAIN S /\ b.active = a.active /\ b.selected = a.selected
      /\ b.aliases = a.aliases /\ b.workspaces[i] = w
  <2>1. IsPut(a, i, w, T, b)
    BY <1>1, <1>5, <1>6, AppPutFields
  <2>2. QED
    BY <2>1 DEF IsPut
<1>9. QED
  BY <1>7, <1>8 DEF b, w

-----------------------------------------------------------------------------
(* The handlers.                                                           *)

\* An alias is kept as long as its pane lives; a new one is the public id that
\* one of the panes M had.
AliasesFollow(a, b, M) ==
    /\ \A k \in DOMAIN a.aliases : a.aliases[k] \in PanesAll(b.workspaces) => k \in DOMAIN b.aliases
    /\ \A k \in DOMAIN b.aliases :
          \/ k \in DOMAIN a.aliases /\ b.aliases[k] = a.aliases[k]
          \/ [ws |-> k.ws, number |-> k.number, pane |-> b.aliases[k]] \in Registered(a)
    /\ \A r \in Registered(a) : r.pane \in M => [ws |-> r.ws, number |-> r.number] \in DOMAIN b.aliases

\* Every overlay is a pane, or was one.
OverlaysOK(o, np) == \A p \in DOMAIN o : p \in 1 .. np - 1 /\ o[p].zoomed \in BOOLEAN

\* The app before a step.
AppInv ==
    /\ use \in Uses /\ nextPane \in 1 .. use.panes + 1 /\ nextWorkspace \in 1 .. use.workspaces + 1
    /\ OverlaysOK(overlays, nextPane)
    /\ AppOK(app, {}, use.numbers, nextPane, nextWorkspace) /\ ViewOK(app, Takes("lose"))

\* The app b after a step that moves the panes M.
Done(b, M, np, nw) ==
    /\ AppOK(b, {}, use.numbers, np, nw) /\ ViewOK(b, Takes("lose"))
    /\ Follows(app.workspaces, b.workspaces, M, nextPane, nextWorkspace) /\ AliasesFollow(app, b, M)

LEMMA Bounds ==
    ASSUME AppInv
    PROVE  /\ use.numbers \in Nat \ {0} /\ use.panes \in Nat \ {0} /\ use.workspaces \in Nat \ {0}
           /\ use.numbers \in Nat /\ nextPane \in Nat \ {0} /\ nextWorkspace \in Nat \ {0}
           /\ nextPane \in Nat /\ nextWorkspace \in Nat
           /\ nextPane <= use.panes + 1 /\ nextWorkspace <= use.workspaces + 1
<1>1. {use.panes, use.workspaces, use.numbers} \subseteq Nat \ {0}
  BY WorkspacesAssumption DEF AppInv
<1>2. use.numbers \in Nat \ {0} /\ use.panes \in Nat \ {0} /\ use.workspaces \in Nat \ {0}
  BY <1>1
<1>3. nextPane \in 1 .. use.panes + 1 /\ nextWorkspace \in 1 .. use.workspaces + 1
  BY DEF AppInv
<1>4. QED
  BY <1>2, <1>3

LEMMA AliasesSame ==
    ASSUME NEW a, NEW b, b.aliases = a.aliases
    PROVE  AliasesFollow(a, b, {})
BY DEF AliasesFollow

\* After a step that shows a workspace, or that leaves open what is shown.
LEMMA DoneShown ==
    ASSUME NEW b, NEW np, NEW nw, AppOK(b, {}, use.numbers, np, nw),
           Follows(app.workspaces, b.workspaces, {}, nextPane, nextWorkspace), b.aliases = app.aliases,
           b.active \in DOMAIN b.workspaces, b.selected \in DOMAIN b.workspaces
    PROVE  Done(b, {}, np, nw)
BY ViewActive, AliasesSame DEF Done

LEMMA DoneSame ==
    ASSUME AppInv, NEW b, NEW np, NEW nw, AppOK(b, {}, use.numbers, np, nw),
           Follows(app.workspaces, b.workspaces, {}, nextPane, nextWorkspace), b.aliases = app.aliases,
           DOMAIN b.workspaces = DOMAIN app.workspaces, b.active = app.active, b.selected = app.selected,
           NEW i \in DOMAIN app.workspaces
    PROVE  Done(b, {}, np, nw)
<1>1. /\ DOMAIN app.workspaces = 1 .. Len(app.workspaces) /\ Len(app.workspaces) \in Nat
  BY DEF AppInv, AppOK, SpacesOK
<1>2. Len(app.workspaces) # 0
  BY <1>1
<1>3. ViewOK(app, Takes("lose"))
  BY DEF AppInv
<1>4. ViewOK(b, Takes("lose"))
  BY <1>1, <1>2, <1>3, ViewSame
<1>5. QED
  BY <1>4, AliasesSame DEF Done

\* One workspace of the app.
LEMMA Space ==
    ASSUME AppInv, NEW i \in Indices(app)
    PROVE  /\ i \in DOMAIN app.workspaces /\ SpaceOK(app.workspaces[i], {}, use.numbers)
           /\ app.workspaces[i].tabs # <<>> /\ app.workspaces[i].active_tab \in DOMAIN app.workspaces[i].tabs
           /\ PanesOf(app.workspaces[i]) = PanesIn(app.workspaces[i].tabs)
           /\ app.workspaces[i].next_pane \in Nat /\ app.workspaces[i].next_tab \in Nat
           /\ nextPane \notin PanesIn(app.workspaces[i].tabs)
           /\ AppOK(app, {}, use.numbers, nextPane, nextWorkspace)
<1> DEFINE S == app.workspaces
           w == S[i]
<1>1. i \in DOMAIN S /\ AppOK(app, {}, use.numbers, nextPane, nextWorkspace)
  BY DEF Indices, AppInv
<1>2. SpaceOK(w, {}, use.numbers) /\ w.tabs # <<>>
  BY <1>1 DEF AppOK, SpacesOK
<1>3. \A p \in PanesIn(w.tabs) : p \in 1 .. nextPane - 1
  BY <1>1, PanesAllFacts DEF AppOK
<1> HIDE DEF w
<1>4. w.active_tab \in DOMAIN w.tabs /\ w \in SpaceRecord
  BY <1>2 DEF SpaceOK
<1>5. w.next_pane \in Nat /\ w.next_tab \in Nat
  BY <1>4, SpaceFields
<1>6. nextPane \notin PanesIn(w.tabs)
  BY <1>3, Bounds
<1>7. PanesOf(w) = PanesIn(w.tabs)
  BY PanesOfIn
<1>8. QED
  BY <1>1, <1>2, <1>4, <1>5, <1>6, <1>7 DEF w

\* More panes and workspaces may have been allocated.
LEMMA LaterOK ==
    ASSUME NEW N \in Nat, NEW np \in Nat, NEW nw \in Nat, NEW np1 \in Nat, NEW X, NEW a, AppOK(a, X, N, np, nw),
           np <= np1
    PROVE  AppOK(a, X, N, np1, nw)
<1>1. a.previous.pane \in Nat /\ a.previous.pane < np
  BY AppFields DEF AppOK
<1>2. \A p \in a.terminals : p \in 1 .. np - 1
  BY DEF AppOK
<1>3. \A p \in a.terminals : p \in 1 .. np1 - 1
  BY <1>2
<1>4. a.previous.pane < np1
  BY <1>1
<1>5. QED
  BY <1>3, <1>4 DEF AppOK

\* A step that changes a tab and keeps its panes.
LEMMA DoneTab ==
    ASSUME AppInv, NEW i \in Indices(app), NEW t \in DOMAIN app.workspaces[i].tabs, NEW u, TabOK(u),
           u.number = app.workspaces[i].tabs[t].number, u.panes = app.workspaces[i].tabs[t].panes,
           NEW np \in Nat, nextPane <= np
    PROVE  Done(TabPut(app, i, t, u), {}, np, nextWorkspace)
<1> DEFINE b == TabPut(app, i, t, u)
<1>1. i \in DOMAIN app.workspaces /\ AppOK(app, {}, use.numbers, nextPane, nextWorkspace)
  BY Space
<1>2. use.numbers \in Nat /\ nextPane \in Nat /\ nextWorkspace \in Nat
  BY Bounds
<1>3. /\ AppOK(b, {}, use.numbers, nextPane, nextWorkspace)
      /\ Follows(app.workspaces, b.workspaces, {}, nextPane, nextWorkspace)
      /\ DOMAIN b.workspaces = DOMAIN app.workspaces
      /\ b.active = app.active /\ b.selected = app.selected /\ b.aliases = app.aliases
  BY <1>1, <1>2, TabPutOK
<1> HIDE DEF b
<1>4. AppOK(b, {}, use.numbers, np, nextWorkspace)
  BY <1>2, <1>3, LaterOK
<1>5. Done(b, {}, np, nextWorkspace)
  BY <1>1, <1>3, <1>4, DoneSame
<1>6. QED
  BY <1>5 DEF b

\* A step that changes a workspace and keeps its panes.
LEMMA DoneSpace ==
    ASSUME AppInv, NEW i \in Indices(app), NEW w, SpaceOK(w, {}, use.numbers), Kin(app.workspaces[i], w),
           w.tabs # <<>>, PanesIn(w.tabs) = PanesIn(app.workspaces[i].tabs)
    PROVE  Done(AppPut(app, i, w, app.terminals), {}, nextPane, nextWorkspace)
<1> DEFINE b == AppPut(app, i, w, app.terminals)
<1>1. i \in DOMAIN app.workspaces /\ AppOK(app, {}, use.numbers, nextPane, nextWorkspace)
  BY Space
<1>2. use.numbers \in Nat /\ nextPane \in Nat /\ nextWorkspace \in Nat
  BY Bounds
<1>3. app \in AppRecord /\ app.terminals \in SUBSET Nat /\ w \in SpaceRecord
  BY <1>1, AppFields DEF AppOK, SpaceOK
<1>4. IsPut(app, i, w, app.terminals, b)
  BY <1>1, <1>3, AppPutFields
<1> HIDE DEF b
<1>5. /\ b \in AppRecord /\ b.workspaces = [app.workspaces EXCEPT ![i] = w] /\ b.terminals = app.terminals
      /\ b.active = app.active /\ b.selected = app.selected /\ b.aliases = app.aliases
      /\ b.previous = app.previous /\ DOMAIN b.workspaces = DOMAIN app.workspaces
  BY <1>4 DEF IsPut
<1>6. app.previous.ws < nextWorkspace /\ app.previous.pane < nextPane
  BY <1>1 DEF AppOK
<1>7. /\ AppOK(b, {}, use.numbers, nextPane, nextWorkspace)
      /\ Follows(app.workspaces, b.workspaces, {}, nextPane, nextWorkspace)
  BY <1>1, <1>2, <1>5, <1>6, TouchOK
<1>8. Done(b, {}, nextPane, nextWorkspace)
  BY <1>1, <1>5, <1>7, DoneSame
<1>9. QED
  BY <1>8 DEF b

\* FocusTab, Focus.
LEMMA DoneFocusTab ==
    ASSUME AppInv, NEW i \in Indices(app), NEW t \in DOMAIN app.workspaces[i].tabs
    PROVE  Done(SwitchTab(app, i, t), {}, nextPane, nextWorkspace)
<1> DEFINE b == SwitchTab(app, i, t)
<1>1. i \in DOMAIN app.workspaces /\ AppOK(app, {}, use.numbers, nextPane, nextWorkspace)
  BY Space
<1>2. use.numbers \in Nat /\ nextPane \in Nat \ {0} /\ nextWorkspace \in Nat \ {0}
  BY Bounds
<1>3. /\ AppOK(b, {}, use.numbers, nextPane, nextWorkspace)
      /\ Follows(app.workspaces, b.workspaces, {}, nextPane, nextWorkspace)
      /\ DOMAIN b.workspaces = DOMAIN app.workspaces
      /\ b.active = i /\ b.selected = i /\ b.aliases = app.aliases
  BY <1>1, <1>2, SwitchTabOK
<1> HIDE DEF b
<1>4. Done(b, {}, nextPane, nextWorkspace)
  BY <1>1, <1>3, DoneShown
<1>5. QED
  BY <1>4 DEF b

LEMMA DoneFocus ==
    ASSUME AppInv, NEW i \in Indices(app), NEW p \in PanesIn(app.workspaces[i].tabs)
    PROVE  Done(FocusPane(app, i, p), {}, nextPane, nextWorkspace)
<1> DEFINE b == FocusPane(app, i, p)
<1>1. i \in DOMAIN app.workspaces /\ AppOK(app, {}, use.numbers, nextPane, nextWorkspace)
  BY Space
<1>2. use.numbers \in Nat /\ nextPane \in Nat \ {0} /\ nextWorkspace \in Nat \ {0}
  BY Bounds
<1>3. /\ AppOK(b, {}, use.numbers, nextPane, nextWorkspace)
      /\ Follows(app.workspaces, b.workspaces, {}, nextPane, nextWorkspace)
      /\ DOMAIN b.workspaces = DOMAIN app.workspaces
      /\ (b = app \/ (b.active = i /\ b.selected = i)) /\ b.aliases = app.aliases
  BY <1>1, <1>2, FocusPaneOK
<1> HIDE DEF b
<1>4. Done(b, {}, nextPane, nextWorkspace)
  <2>1. CASE b.active = app.active /\ b.selected = app.selected
    BY <1>1, <1>3, <2>1, DoneSame
  <2>2. CASE b.active = i /\ b.selected = i
    BY <1>1, <1>3, <2>2, DoneShown
  <2>3. QED
    BY <1>3, <2>1, <2>2
<1>5. QED
  BY <1>4 DEF b

\* A step that moves the panes M and allocates within the bounds.
Stepped(M) ==
    /\ Done(app', M, nextPane', nextWorkspace') /\ OverlaysOK(overlays', nextPane')
    /\ nextPane' \in nextPane .. use.panes + 1 /\ nextWorkspace' \in nextWorkspace .. use.workspaces + 1

LEMMA OverlaysLater ==
    ASSUME NEW o, NEW np \in Nat, NEW np1 \in Nat, np <= np1, OverlaysOK(o, np)
    PROVE  OverlaysOK(o, np1)
<1>1. \A p \in DOMAIN o : p \in 1 .. np - 1 => p \in 1 .. np1 - 1
  OBVIOUS
<1>2. QED
  BY <1>1 DEF OverlaysOK

LEMMA SteppedQuietly ==
    ASSUME AppInv, NEW M, overlays' = overlays,
           nextPane' \in nextPane .. use.panes + 1, nextWorkspace' \in nextWorkspace .. use.workspaces + 1,
           Done(app', M, nextPane', nextWorkspace')
    PROVE  Stepped(M)
<1>1. nextPane \in Nat /\ nextPane' \in Nat /\ nextPane <= nextPane'
  BY Bounds
<1>2. OverlaysOK(overlays, nextPane)
  BY DEF AppInv
<1>3. OverlaysOK(overlays, nextPane')
  BY <1>1, <1>2, OverlaysLater
<1>4. QED
  BY <1>3 DEF Stepped

\* A step that allocates nothing.
LEMMA SteppedInPlace ==
    ASSUME AppInv, NEW M, overlays' = overlays, nextPane' = nextPane, nextWorkspace' = nextWorkspace,
           Done(app', M, nextPane, nextWorkspace)
    PROVE  Stepped(M)
<1>1. nextPane \in nextPane .. use.panes + 1 /\ nextWorkspace \in nextWorkspace .. use.workspaces + 1
  BY Bounds
<1>2. QED
  BY <1>1, SteppedQuietly

LEMMA FocusTabStep ==
    ASSUME AppInv, NEW i \in Indices(app), NEW t, FocusTab(i, t)
    PROVE  Stepped({})
<1>1. /\ t \in DOMAIN app.workspaces[i].tabs /\ app' = SwitchTab(app, i, t)
      /\ overlays' = overlays /\ nextPane' = nextPane /\ nextWorkspace' = nextWorkspace
  BY DEF FocusTab, Keep
<1>2. Done(app', {}, nextPane, nextWorkspace)
  BY <1>1, DoneFocusTab
<1>3. QED
  BY <1>1, <1>2, SteppedInPlace

LEMMA FocusStep ==
    ASSUME AppInv, NEW i \in Indices(app), NEW p \in PanesOf(app.workspaces[i]), Focus(i, p)
    PROVE  Stepped({})
<1>1. /\ app' = FocusPane(app, i, p)
      /\ overlays' = overlays /\ nextPane' = nextPane /\ nextWorkspace' = nextWorkspace
  BY DEF Focus, Keep
<1>2. p \in PanesIn(app.workspaces[i].tabs)
  BY PanesOfIn
<1>3. Done(app', {}, nextPane, nextWorkspace)
  BY <1>1, <1>2, DoneFocus
<1>4. QED
  BY <1>1, <1>3, SteppedInPlace

\* Index finds a workspace.
LEMMA IndexFacts ==
    ASSUME NEW T, NEW S \in Seq(T), NEW a, a.workspaces = S, NEW id
    PROVE  IF \E i \in DOMAIN S : S[i].id = id THEN Index(a, id) \in DOMAIN S /\ S[Index(a, id)].id = id
           ELSE Index(a, id) = 0
<1> DEFINE P == {i \in 1 .. Len(S) : S[i].id = id}
<1>1. Index(a, id) = IF P # {} THEN Min(P) ELSE 0
  BY DEF Index, SelectInSeq
<1>2. Len(S) \in Nat /\ DOMAIN S = 1 .. Len(S)
  OBVIOUS
<1>3. P # {} <=> \E i \in DOMAIN S : S[i].id = id
  BY <1>2
<1>4. CASE P # {}
  <2>1. Min(P) \in P
    BY <1>2, <1>4, FirstPosition
  <2>2. QED
    BY <1>1, <1>2, <1>3, <1>4, <2>1
<1>5. QED
  BY <1>1, <1>3, <1>4

LEMMA FocusLastStep ==
    ASSUME AppInv, FocusLast
    PROVE  Stepped({})
<1> DEFINE i == Index(app, app.previous.ws)
           p == app.previous.pane
           b == [app EXCEPT !.previous = NoFocus]
<1>1. /\ overlays' = overlays /\ nextPane' = nextPane /\ nextWorkspace' = nextWorkspace
      /\ \/ app' = b
         \/ i # 0 /\ TabOf(app.workspaces[i], p) # 0 /\ app' = FocusPane(app, i, p)
  BY DEF FocusLast, Keep
<1>2. /\ app \in AppRecord /\ app.workspaces \in Seq(SpaceRecord)
      /\ AppOK(app, {}, use.numbers, nextPane, nextWorkspace)
  BY AppFields DEF AppInv, AppOK
<1>3. CASE app' = b
  <2>1. NoFocus \in [ws : Nat, pane : Nat] /\ NoFocus.ws = 0 /\ NoFocus.pane = 0
    BY DEF NoFocus
  <2>2. /\ b \in AppRecord /\ b.workspaces = app.workspaces /\ b.active = app.active /\ b.selected = app.selected
        /\ b.aliases = app.aliases /\ b.terminals = app.terminals /\ b.previous = NoFocus
    BY <1>2, <2>1 DEF AppRecord
  <2> HIDE DEF b
  <2>3. AppOK(b, {}, use.numbers, nextPane, nextWorkspace)
    BY <1>2, <2>1, <2>2, Bounds DEF AppOK
  <2>4. ViewOK(b, Takes("lose"))
    BY <2>2 DEF ViewOK, AppInv
  <2>5. Follows(app.workspaces, b.workspaces, {}, nextPane, nextWorkspace)
    <3>1. SpacesOK(app.workspaces, use.numbers, nextWorkspace) /\ ToSet(b.workspaces) \subseteq ToSet(app.workspaces)
      BY <1>2, <2>2 DEF AppOK
    <3>2. QED
      BY <3>1, Bounds, FollowsPicked
  <2>6. Done(b, {}, nextPane, nextWorkspace)
    BY <2>2, <2>3, <2>4, <2>5, AliasesSame DEF Done
  <2>7. QED
    BY <1>1, <1>3, <2>6, SteppedInPlace
<1>4. CASE i # 0 /\ TabOf(app.workspaces[i], p) # 0 /\ app' = FocusPane(app, i, p)
  <2>1. i \in DOMAIN app.workspaces
    BY <1>2, <1>4, IndexFacts
  <2> HIDE DEF i, p
  <2>2. i \in Indices(app)
    BY <2>1 DEF Indices
  <2>3. p \in PanesIn(app.workspaces[i].tabs)
    <3> DEFINE w == app.workspaces[i]
    <3>1. w.tabs \in Seq(TabRecord) /\ TabOf(w, p) # 0
      BY <1>2, <1>4, <2>1, SpaceFields
    <3> HIDE DEF w
    <3>2. p \in PanesOf(w)
      BY <3>1, TabOfFacts
    <3>3. QED
      BY <3>2, PanesOfIn DEF w
  <2>4. Done(app', {}, nextPane, nextWorkspace)
    BY <1>4, <2>2, <2>3, DoneFocus
  <2>5. QED
    BY <1>1, <2>4, SteppedInPlace
<1>5. QED
  BY <1>1, <1>3, <1>4

\* A zoomed tab, and one that is not.
LEMMA ZoomedOK ==
    ASSUME NEW t, TabOK(t), NEW zoomed \in BOOLEAN
    PROVE  LET u == [t EXCEPT !.zoomed = zoomed] IN TabOK(u) /\ u.number = t.number /\ u.panes = t.panes
<1> DEFINE u == [t EXCEPT !.zoomed = zoomed]
<1>1. /\ u \in TabRecord /\ u.number = t.number /\ u.panes = t.panes /\ u.layout = t.layout
      /\ u.focus = t.focus /\ u.root = t.root
  BY DEF TabOK, TabRecord
<1> HIDE DEF u
<1>2. TabOK(u)
  BY <1>1 DEF TabOK
<1>3. QED
  BY <1>1, <1>2 DEF u

\* The tab of a pane in an app.
LEMMA TabInApp ==
    ASSUME NEW N \in Nat, NEW np \in Nat, NEW nw \in Nat, NEW a, AppOK(a, {}, N, np, nw),
           NEW i \in DOMAIN a.workspaces, NEW p \in PanesIn(a.workspaces[i].tabs)
    PROVE  LET t == TabOf(a.workspaces[i], p)
           IN  /\ t \in DOMAIN a.workspaces[i].tabs /\ p \in a.workspaces[i].tabs[t].panes
               /\ TabOK(a.workspaces[i].tabs[t])
<1> DEFINE w == a.workspaces[i]
<1>1. SpaceOK(w, {}, N)
  BY DEF AppOK, SpacesOK
<1>2. p \in PanesIn(w.tabs)
  OBVIOUS
<1> HIDE DEF w
<1>3. TabOf(w, p) \in DOMAIN w.tabs /\ p \in w.tabs[TabOf(w, p)].panes /\ TabOK(w.tabs[TabOf(w, p)])
  BY <1>1, <1>2, TabOfPane
<1>4. QED
  BY <1>3 DEF w

LEMMA ZoomStep ==
    ASSUME AppInv, NEW i \in Indices(app), NEW p \in PanesOf(app.workspaces[i]), NEW desired \in BOOLEAN,
           Zoom(i, p, desired)
    PROVE  Stepped({})
<1> DEFINE a == FocusPane(app, i, p)
           t == TabOf(a.workspaces[i], p)
           u == [a.workspaces[i].tabs[t] EXCEPT !.zoomed = desired]
           b == TabPut(a, i, t, u)
<1>1. /\ overlays' = overlays /\ nextPane' = nextPane /\ nextWorkspace' = nextWorkspace
      /\ (app' = a \/ app' = b)
  BY DEF Zoom, Keep, TabPut
<1>2. /\ i \in DOMAIN app.workspaces /\ AppOK(app, {}, use.numbers, nextPane, nextWorkspace)
      /\ p \in PanesIn(app.workspaces[i].tabs)
  BY Space
<1>3. use.numbers \in Nat /\ nextPane \in Nat \ {0} /\ nextWorkspace \in Nat \ {0} /\ nextPane \in Nat /\ nextWorkspace \in Nat
  BY Bounds
<1>4. /\ AppOK(a, {}, use.numbers, nextPane, nextWorkspace)
      /\ Follows(app.workspaces, a.workspaces, {}, nextPane, nextWorkspace)
      /\ DOMAIN a.workspaces = DOMAIN app.workspaces
      /\ (a = app \/ (a.active = i /\ a.selected = i)) /\ a.aliases = app.aliases
  BY <1>2, <1>3, FocusPaneOK
<1>5. PanesIn(a.workspaces[i].tabs) = PanesIn(app.workspaces[i].tabs)
  BY <1>2, <1>3, FocusPaneOK
<1> HIDE DEF a
<1>6. CASE app' = a
  <2>1. Done(app', {}, nextPane, nextWorkspace)
    <3>1. i \in Indices(app) /\ p \in PanesIn(app.workspaces[i].tabs)
      BY <1>2
    <3>2. QED
      BY <1>6, <3>1, DoneFocus DEF a
  <2>2. QED
    BY <1>1, <2>1, SteppedInPlace
<1>7. CASE app' = b
  <2>1. t \in DOMAIN a.workspaces[i].tabs /\ TabOK(a.workspaces[i].tabs[t])
    BY <1>2, <1>3, <1>4, <1>5, TabInApp
  <2> HIDE DEF t
  <2>2. TabOK(u) /\ u.number = a.workspaces[i].tabs[t].number /\ u.panes = a.workspaces[i].tabs[t].panes
    BY <2>1, ZoomedOK
  <2> HIDE DEF u
  <2>3. /\ AppOK(b, {}, use.numbers, nextPane, nextWorkspace)
        /\ Follows(a.workspaces, b.workspaces, {}, nextPane, nextWorkspace)
        /\ DOMAIN b.workspaces = DOMAIN a.workspaces
        /\ b.active = a.active /\ b.selected = a.selected /\ b.aliases = a.aliases
    BY <1>2, <1>3, <1>4, <2>1, <2>2, TabPutOK
  <2> HIDE DEF b
  <2>4. Follows(app.workspaces, b.workspaces, {}, nextPane, nextWorkspace)
    BY <1>2, <1>3, <1>4, <2>3, FollowsTwice
  <2>5. Done(b, {}, nextPane, nextWorkspace)
    <3>1. DOMAIN b.workspaces = DOMAIN app.workspaces /\ b.aliases = app.aliases
      BY <1>4, <2>3
    <3>2. CASE b.active = app.active /\ b.selected = app.selected
      BY <1>2, <2>3, <2>4, <3>1, <3>2, DoneSame
    <3>3. CASE b.active = i /\ b.selected = i
      BY <1>2, <2>3, <2>4, <3>1, <3>3, DoneShown
    <3>4. QED
      BY <1>4, <2>3, <3>2, <3>3
  <2>6. QED
    BY <1>1, <1>7, <2>5, SteppedInPlace
<1>8. QED
  BY <1>1, <1>6, <1>7

LEMMA SwapStep ==
    ASSUME AppInv, NEW i \in Indices(app), NEW p \in PanesOf(app.workspaces[i]), NEW q, Swap(i, p, q)
    PROVE  Stepped({})
<1> DEFINE t == TabOf(app.workspaces[i], p)
           tab == app.workspaces[i].tabs[t]
           l == [k \in DOMAIN tab.layout |->
                   IF tab.layout[k] = p THEN q ELSE IF tab.layout[k] = q THEN p ELSE tab.layout[k]]
           u == [tab EXCEPT !.layout = l, !.focus = p]
           a == TabPut(app, i, t, u)
           c == SwitchTab(a, i, t)
           f == CurrentFocus(app)
<1>1. /\ overlays' = overlays /\ nextPane' = nextPane /\ nextWorkspace' = nextWorkspace
      /\ q \in tab.panes /\ app' = Record(c, f)
  BY DEF Swap, Keep, TabPut
<1>2. /\ i \in DOMAIN app.workspaces /\ AppOK(app, {}, use.numbers, nextPane, nextWorkspace)
      /\ p \in PanesIn(app.workspaces[i].tabs)
  BY Space
<1>3. use.numbers \in Nat /\ nextPane \in Nat \ {0} /\ nextWorkspace \in Nat \ {0} /\ nextPane \in Nat /\ nextWorkspace \in Nat
  BY Bounds
<1>4. t \in DOMAIN app.workspaces[i].tabs /\ p \in tab.panes /\ TabOK(tab)
  BY <1>2, <1>3, TabInApp
<1>5. TabOK(u) /\ u.number = tab.number /\ u.panes = tab.panes
  <2> HIDE DEF tab
  <2>1. QED
    BY <1>1, <1>4, SwapOK
<1> HIDE DEF t, u, l
<1>6. /\ AppOK(a, {}, use.numbers, nextPane, nextWorkspace)
      /\ Follows(app.workspaces, a.workspaces, {}, nextPane, nextWorkspace)
      /\ DOMAIN a.workspaces = DOMAIN app.workspaces /\ a.aliases = app.aliases
      /\ DOMAIN a.workspaces[i].tabs = DOMAIN app.workspaces[i].tabs
  BY <1>2, <1>3, <1>4, <1>5, TabPutOK
<1> HIDE DEF a, tab
<1>7. /\ AppOK(c, {}, use.numbers, nextPane, nextWorkspace)
      /\ Follows(a.workspaces, c.workspaces, {}, nextPane, nextWorkspace)
      /\ DOMAIN c.workspaces = DOMAIN a.workspaces
      /\ c.active = i /\ c.selected = i /\ c.aliases = a.aliases
  BY <1>2, <1>3, <1>4, <1>6, SwitchTabOK
<1>8. f \in [ws : Nat, pane : Nat] /\ f.ws < nextWorkspace /\ f.pane < nextPane
  BY <1>2, <1>3, CurrentFocusFacts
<1> HIDE DEF c, f
<1>9. Follows(app.workspaces, c.workspaces, {}, nextPane, nextWorkspace)
  BY <1>2, <1>3, <1>6, <1>7, FollowsTwice
<1>10. /\ AppOK(app', {}, use.numbers, nextPane, nextWorkspace) /\ (app').workspaces = c.workspaces
       /\ (app').active = c.active /\ (app').selected = c.selected /\ (app').aliases = c.aliases
  BY <1>1, <1>3, <1>7, <1>8, RecordOK
<1>11. Done(app', {}, nextPane, nextWorkspace)
  BY <1>2, <1>6, <1>7, <1>9, <1>10, DoneShown
<1>12. QED
  BY <1>1, <1>11, SteppedInPlace

LEMMA SplitFailsStep ==
    ASSUME AppInv, NEW i \in Indices(app), NEW target \in PanesOf(app.workspaces[i]), SplitFails(i, target)
    PROVE  Stepped({})
<1> DEFINE t == TabOf(app.workspaces[i], target)
           tab == app.workspaces[i].tabs[t]
           u == UndoSplit(tab, target, nextPane)
<1>1. /\ overlays' = overlays /\ nextPane' = nextPane + 1 /\ nextWorkspace' = nextWorkspace
      /\ app' = TabPut(app, i, t, u) /\ nextPane <= use.panes
  BY DEF SplitFails, Keep, TabPut, Fresh
<1>2. /\ i \in DOMAIN app.workspaces /\ AppOK(app, {}, use.numbers, nextPane, nextWorkspace)
      /\ target \in PanesIn(app.workspaces[i].tabs) /\ nextPane \notin PanesIn(app.workspaces[i].tabs)
  BY Space
<1>3. use.numbers \in Nat /\ use.panes \in Nat /\ nextPane \in Nat /\ nextWorkspace \in Nat
  BY Bounds
<1>4. t \in DOMAIN app.workspaces[i].tabs /\ target \in tab.panes /\ TabOK(tab)
  BY <1>2, <1>3, TabInApp
<1>5. nextPane \notin tab.panes
  BY <1>2, <1>4, PanesInFacts
<1>6. TabOK(u) /\ u.number = tab.number /\ u.panes = tab.panes
  <2> HIDE DEF tab
  <2>1. QED
    BY <1>3, <1>4, <1>5, UndoSplitOK
<1> HIDE DEF t, u
<1>7. Done(app', {}, nextPane + 1, nextWorkspace)
  BY <1>1, <1>3, <1>4, <1>6, DoneTab
<1>8. nextPane + 1 \in nextPane .. use.panes + 1 /\ nextWorkspace \in nextWorkspace .. use.workspaces + 1
  BY <1>1, <1>3, Bounds
<1>9. QED
  BY <1>1, <1>7, <1>8, SteppedQuietly

\* The app with another workspace.
LEMMA AppPutSame ==
    ASSUME NEW a \in AppRecord, NEW i \in DOMAIN a.workspaces, NEW w
    PROVE  [a EXCEPT !.workspaces[i] = w] = AppPut(a, i, w, a.terminals)
<1> DEFINE r == [a.workspaces EXCEPT ![i] = w]
           T == a.terminals
<1>1. [a EXCEPT !.workspaces[i] = w] = [a EXCEPT !.workspaces = r]
  BY Zenon
<1>2. AppPut(a, i, w, a.terminals) = [a EXCEPT !.workspaces = r, !.terminals = T]
  BY Zenon DEF AppPut
<1> HIDE DEF r
<1>3. [a EXCEPT !.workspaces = r] = [a EXCEPT !.workspaces = r, !.terminals = T]
  BY DEF AppRecord
<1>4. QED
  BY <1>1, <1>2, <1>3

LEMMA CreateTabFailsStep ==
    ASSUME AppInv, NEW i \in Indices(app), CreateTabFails(i)
    PROVE  Stepped({})
<1> DEFINE v == app.workspaces[i]
           w == [v EXCEPT !.next_tab = v.next_tab + 1]
<1>1. /\ overlays' = overlays /\ nextPane' = nextPane /\ nextWorkspace' = nextWorkspace
      /\ app' = [app EXCEPT !.workspaces[i] = w] /\ v.next_tab <= use.numbers
  BY DEF CreateTabFails, Keep
<1>2. /\ i \in DOMAIN app.workspaces /\ SpaceOK(v, {}, use.numbers) /\ v.tabs # <<>>
      /\ AppOK(app, {}, use.numbers, nextPane, nextWorkspace)
  BY Space
<1>3. app \in AppRecord
  BY <1>2 DEF AppOK
<1>4. SpaceOK(w, {}, use.numbers) /\ Kin(v, w) /\ w.tabs = v.tabs
  <2> HIDE DEF v
  <2>1. QED
    BY <1>1, <1>2, Bounds, SkipTabOK
<1>5. app' = AppPut(app, i, w, app.terminals)
  <2> HIDE DEF w
  <2>1. QED
    BY <1>1, <1>2, <1>3, AppPutSame
<1> HIDE DEF w
<1>6. PanesIn(w.tabs) = PanesIn(v.tabs) /\ w.tabs # <<>>
  BY <1>2, <1>4
<1>7. Done(app', {}, nextPane, nextWorkspace)
  BY <1>4, <1>5, <1>6, DoneSpace
<1>8. QED
  BY <1>1, <1>7, SteppedInPlace

LEMMA MoveTabStep ==
    ASSUME AppInv, NEW i \in Indices(app), NEW from, NEW to, MoveTab(i, from, to)
    PROVE  Stepped({})
<1> DEFINE v == app.workspaces[i]
           w == MoveTabIn(v, from, to)
<1>1. /\ overlays' = overlays /\ nextPane' = nextPane /\ nextWorkspace' = nextWorkspace
      /\ app' = [app EXCEPT !.workspaces[i] = w] /\ from \in DOMAIN v.tabs /\ to \in DOMAIN v.tabs
  BY DEF MoveTab, Keep
<1>2. /\ i \in DOMAIN app.workspaces /\ SpaceOK(v, {}, use.numbers)
      /\ AppOK(app, {}, use.numbers, nextPane, nextWorkspace)
  BY Space
<1>3. app \in AppRecord
  BY <1>2 DEF AppOK
<1>4. SpaceOK(w, {}, use.numbers) /\ Kin(v, w) /\ w.tabs # <<>> /\ PanesIn(w.tabs) = PanesIn(v.tabs)
  <2> HIDE DEF v
  <2>1. QED
    BY <1>1, <1>2, Bounds, MoveTabInOK
<1>5. app' = AppPut(app, i, w, app.terminals)
  <2> HIDE DEF w
  <2>1. QED
    BY <1>1, <1>2, <1>3, AppPutSame
<1> HIDE DEF w
<1>6. Done(app', {}, nextPane, nextWorkspace)
  BY <1>4, <1>5, DoneSpace
<1>7. QED
  BY <1>1, <1>6, SteppedInPlace

LEMMA MaxTwo ==
    ASSUME NEW m \in Nat, NEW n \in Nat
    PROVE  Max({m, n}) \in Nat /\ m <= Max({m, n}) /\ n <= Max({m, n})
<1>1. \E x \in {m, n} : \A y \in {m, n} : x >= y
  <2>1. CASE m <= n
    BY <2>1
  <2>2. CASE n <= m
    BY <2>2
  <2>3. QED
    BY <2>1, <2>2
<1>2. Max({m, n}) \in {m, n} /\ \A y \in {m, n} : Max({m, n}) >= y
  BY <1>1 DEF Max
<1>3. QED
  BY <1>2

\* A step that shows a tab of a workspace of a.
LEMMA ShownLater ==
    ASSUME AppInv, NEW np \in Nat \ {0}, nextPane <= np, NEW nw \in Nat \ {0}, nextWorkspace <= nw,
           NEW a, AppOK(a, {}, use.numbers, np, nw),
           Follows(app.workspaces, a.workspaces, {}, nextPane, nextWorkspace), a.aliases = app.aliases,
           NEW i \in DOMAIN a.workspaces, NEW t \in DOMAIN a.workspaces[i].tabs
    PROVE  Done(SwitchTab(a, i, t), {}, np, nw)
<1> DEFINE c == SwitchTab(a, i, t)
<1>1. /\ use.numbers \in Nat /\ nextPane \in Nat /\ nextWorkspace \in Nat /\ nw \in Nat /\ np \in Nat
  BY Bounds
<1>2. /\ AppOK(c, {}, use.numbers, np, nw)
      /\ Follows(a.workspaces, c.workspaces, {}, np, nw)
      /\ DOMAIN c.workspaces = DOMAIN a.workspaces
      /\ c.active = i /\ c.selected = i /\ c.aliases = a.aliases
  BY <1>1, SwitchTabOK
<1> HIDE DEF c
<1>3. AppOK(app, {}, use.numbers, nextPane, nextWorkspace)
  BY DEF AppInv
<1>4. Follows(app.workspaces, c.workspaces, {}, nextPane, nextWorkspace)
  BY <1>1, <1>2, <1>3, FollowsThen
<1>5. c.active \in DOMAIN c.workspaces /\ c.selected \in DOMAIN c.workspaces /\ c.aliases = app.aliases
  BY <1>2
<1>6. Done(c, {}, np, nw)
  BY <1>2, <1>4, <1>5, DoneShown
<1>7. QED
  BY <1>6 DEF c

LEMMA ShownAfter ==
    ASSUME AppInv, NEW np \in Nat \ {0}, nextPane <= np, NEW a, AppOK(a, {}, use.numbers, np, nextWorkspace),
           Follows(app.workspaces, a.workspaces, {}, nextPane, nextWorkspace), a.aliases = app.aliases,
           NEW i \in DOMAIN a.workspaces, NEW t \in DOMAIN a.workspaces[i].tabs
    PROVE  Done(SwitchTab(a, i, t), {}, np, nextWorkspace)
<1>1. nextWorkspace \in Nat \ {0} /\ nextWorkspace <= nextWorkspace
  BY Bounds
<1>2. QED
  BY <1>1, ShownLater

LEMMA CreateTabStep ==
    ASSUME AppInv, NEW i \in Indices(app), NEW focus, CreateTab(i, focus)
    PROVE  Stepped({})
<1> DEFINE v == app.workspaces[i]
           w == AddTab(v, nextPane)
           T == app.terminals \cup {nextPane}
           a == AppPut(app, i, w, T)
           np == nextPane + 1
<1>1. /\ overlays' = overlays /\ nextPane' = np /\ nextWorkspace' = nextWorkspace /\ nextPane <= use.panes
      /\ Max({v.next_pane, v.next_tab}) <= use.numbers
      /\ app' = IF focus THEN SwitchTab([app EXCEPT !.workspaces[i] = w, !.terminals = T], i, Len(w.tabs))
                ELSE [app EXCEPT !.workspaces[i] = w, !.terminals = T]
  BY DEF CreateTab, Keep, Fresh, Numbers
<1>2. /\ i \in DOMAIN app.workspaces /\ SpaceOK(v, {}, use.numbers)
      /\ AppOK(app, {}, use.numbers, nextPane, nextWorkspace) /\ nextPane \notin PanesIn(v.tabs)
      /\ v.next_pane \in Nat /\ v.next_tab \in Nat /\ v.tabs # <<>>
  BY Space
<1>3. /\ use.numbers \in Nat /\ use.panes \in Nat /\ nextPane \in Nat \ {0} /\ nextWorkspace \in Nat
      /\ nextPane \in Nat /\ np \in Nat \ {0} /\ nextPane <= np
  BY Bounds
<1>4. v.next_pane <= use.numbers /\ v.next_tab <= use.numbers
  <2> DEFINE m == v.next_pane
             n == v.next_tab
             x == Max({m, n})
  <2>1. m \in Nat /\ n \in Nat
    BY <1>2
  <2>2. x <= use.numbers
    BY <1>1
  <2> HIDE DEF m, n
  <2>3. x \in Nat /\ m <= x /\ n <= x
    BY <2>1, MaxTwo
  <2> HIDE DEF x
  <2>4. m <= use.numbers /\ n <= use.numbers
    BY <1>3, <2>1, <2>2, <2>3
  <2>5. QED
    BY <2>4 DEF m, n
<1>5. app \in AppRecord /\ T \in SUBSET Nat
  BY <1>2, <1>3, AppFields DEF AppOK
<1>6. [app EXCEPT !.workspaces[i] = w, !.terminals = T] = a
  BY Zenon DEF AppPut
<1>7. GainsTab(v, nextPane, w, use.numbers)
  <2> DEFINE X == {}
  <2>1. X \subseteq {nextPane} /\ SpaceOK(v, X, use.numbers) /\ (v.tabs = <<>> => v.active_tab = 1)
    BY <1>2
  <2> HIDE DEF v, X
  <2>2. QED
    BY <1>2, <1>3, <1>4, <2>1, AddTabOK
<1>8. /\ SpaceOK(w, {}, use.numbers) /\ Kin(v, w) /\ PanesIn(w.tabs) = PanesIn(v.tabs) \cup {nextPane}
      /\ Len(w.tabs) = Len(v.tabs) + 1
  BY <1>7 DEF GainsTab
<1> HIDE DEF w
<1>9. /\ w \in SpaceRecord /\ w.tabs # <<>> /\ Len(w.tabs) \in DOMAIN w.tabs
  <2>1. w \in SpaceRecord /\ DOMAIN w.tabs = 1 .. Len(w.tabs) /\ Len(v.tabs) \in Nat
    <3> HIDE DEF v
    <3>1. QED
      BY <1>2, <1>3, <1>8, SpaceFacts
  <2>2. Len(w.tabs) \in 1 .. Len(w.tabs)
    BY <1>8, <2>1
  <2>3. QED
    BY <2>1, <2>2
<1>10. AppOK(a, {}, use.numbers, np, nextWorkspace) /\ Follows(app.workspaces, a.workspaces, {}, nextPane, nextWorkspace)
  <2> DEFINE Q == T
  <2>1. Q = app.terminals \cup {nextPane}
    OBVIOUS
  <2> HIDE DEF Q
  <2>2. LET b == AppPut(app, i, w, Q)
        IN  /\ AppOK(b, {}, use.numbers, nextPane + 1, nextWorkspace)
            /\ Follows(app.workspaces, b.workspaces, {}, nextPane, nextWorkspace)
    BY <1>2, <1>3, <1>8, <1>9, <2>1, GrownOK
  <2>3. QED
    BY <2>2 DEF Q
<1>11. IsPut(app, i, w, T, a)
  <2> HIDE DEF T
  <2>1. QED
    BY <1>2, <1>5, <1>9, AppPutFields
<1> HIDE DEF T, a
<1>12. /\ a.active = app.active /\ a.selected = app.selected /\ a.aliases = app.aliases
       /\ DOMAIN a.workspaces = DOMAIN app.workspaces /\ a.workspaces[i] = w
  BY <1>11 DEF IsPut
<1>13. Done(app', {}, np, nextWorkspace)
  <2> HIDE DEF np
  <2>1. CASE focus
    <3>1. app' = SwitchTab(a, i, Len(w.tabs)) /\ i \in DOMAIN a.workspaces /\ Len(w.tabs) \in DOMAIN a.workspaces[i].tabs
      BY <1>1, <1>2, <1>6, <1>9, <1>12, <2>1
    <3>2. QED
      BY <1>3, <1>10, <1>12, <3>1, ShownAfter
  <2>2. CASE ~focus
    <3>1. app' = a
      BY <1>1, <1>6, <2>2
    <3>2. QED
      BY <1>2, <1>3, <1>10, <1>12, <3>1, DoneSame
  <2>3. QED
    BY <2>1, <2>2
<1>14. np \in nextPane .. use.panes + 1 /\ nextWorkspace \in nextWorkspace .. use.workspaces + 1
  BY <1>1, <1>3, Bounds
<1>15. QED
  BY <1>1, <1>13, <1>14, SteppedQuietly

\* The focus from before the step is recorded.
LEMMA DoneRecord ==
    ASSUME AppInv, NEW np \in Nat, nextPane <= np, NEW nw \in Nat, nextWorkspace <= nw, NEW M, NEW c, Done(c, M, np, nw)
    PROVE  Done(Record(c, CurrentFocus(app)), M, np, nw)
<1> DEFINE f == CurrentFocus(app)
           b == Record(c, f)
<1>1. /\ use.numbers \in Nat /\ nextPane \in Nat \ {0} /\ nextWorkspace \in Nat \ {0}
      /\ nextPane \in Nat /\ nextWorkspace \in Nat
  BY Bounds
<1>2. AppOK(app, {}, use.numbers, nextPane, nextWorkspace)
  BY DEF AppInv
<1>3. f \in [ws : Nat, pane : Nat] /\ f.ws < nextWorkspace /\ f.pane < nextPane
  BY <1>1, <1>2, CurrentFocusFacts
<1> HIDE DEF f
<1>4. f.ws < nw /\ f.pane < np
  BY <1>1, <1>3
<1>5. AppOK(c, {}, use.numbers, np, nw)
  BY DEF Done
<1>6. /\ AppOK(b, {}, use.numbers, np, nw) /\ b.workspaces = c.workspaces /\ b.active = c.active
      /\ b.selected = c.selected /\ b.aliases = c.aliases
  BY <1>1, <1>3, <1>4, <1>5, RecordOK
<1> HIDE DEF b
<1>7. ViewOK(b, Takes("lose"))
  BY <1>6 DEF Done, ViewOK
<1>8. AliasesFollow(app, b, M)
  BY <1>6 DEF Done, AliasesFollow
<1>9. Done(b, M, np, nw)
  BY <1>6, <1>7, <1>8 DEF Done
<1>10. QED
  BY <1>9 DEF b, f

\* The app after a split.
IsSplit(i, target, focus, a) ==
    /\ AppOK(a, {}, use.numbers, nextPane + 1, nextWorkspace)
    /\ Follows(app.workspaces, a.workspaces, {}, nextPane, nextWorkspace)
    /\ DOMAIN a.workspaces = DOMAIN app.workspaces /\ a.active = app.active /\ a.selected = app.selected
    /\ a.aliases = app.aliases /\ target \in PanesIn(a.workspaces[i].tabs)
    /\ DOMAIN a.workspaces[i].tabs = DOMAIN app.workspaces[i].tabs

LEMMA SplitDone ==
    ASSUME AppInv, NEW i \in Indices(app), NEW target \in PanesIn(app.workspaces[i].tabs), NEW focus,
           app.workspaces[i].next_pane <= use.numbers
    PROVE  IsSplit(i, target, focus, SplitIn(app, i, target, nextPane, focus))
<1> DEFINE v == app.workspaces[i]
           w == SplitSpace(v, target, nextPane, focus)
           a == SplitIn(app, i, target, nextPane, focus)
<1>1. /\ i \in DOMAIN app.workspaces /\ AppOK(app, {}, use.numbers, nextPane, nextWorkspace)
      /\ SpaceOK(v, {}, use.numbers) /\ nextPane \notin PanesIn(v.tabs)
  BY Space
<1>2. use.numbers \in Nat /\ nextPane \in Nat \ {0} /\ nextWorkspace \in Nat \ {0} /\ nextPane \in Nat
  BY Bounds
<1>3. /\ AppOK(a, {}, use.numbers, nextPane + 1, nextWorkspace)
      /\ Follows(app.workspaces, a.workspaces, {}, nextPane, nextWorkspace)
      /\ DOMAIN a.workspaces = DOMAIN app.workspaces /\ a.active = app.active /\ a.selected = app.selected
      /\ a.aliases = app.aliases
  BY <1>1, <1>2, SplitInOK
<1>4. a.workspaces[i] = w
  BY <1>1, <1>2, SplitInOK
<1>5. DOMAIN w.tabs = DOMAIN v.tabs /\ target \in PanesIn(w.tabs)
  <2>1. target \in PanesIn(v.tabs) /\ v.next_pane <= use.numbers
    OBVIOUS
  <2> HIDE DEF v
  <2>2. DOMAIN w.tabs = DOMAIN v.tabs
    BY <1>1, <1>2, <2>1, SplitSpaceFacts
  <2>3. target \in PanesIn(w.tabs)
    BY <1>1, <1>2, <2>1, SplitSpacePanes
  <2>4. QED
    BY <2>2, <2>3
<1> HIDE DEF a, w
<1>6. QED
  BY <1>3, <1>4, <1>5 DEF a, w, IsSplit

LEMMA SplitStep ==
    ASSUME AppInv, NEW i \in Indices(app), NEW target \in PanesOf(app.workspaces[i]), NEW focus, Split(i, target, focus)
    PROVE  Stepped({})
<1> DEFINE a == SplitIn(app, i, target, nextPane, focus)
           t == TabOf(a.workspaces[i], target)
           c == SwitchTab(a, i, t)
           np == nextPane + 1
<1>1. /\ overlays' = overlays /\ nextPane' = np /\ nextWorkspace' = nextWorkspace /\ nextPane <= use.panes
      /\ app.workspaces[i].next_pane <= use.numbers
      /\ app' = IF focus THEN Record(c, CurrentFocus(app)) ELSE a
  BY DEF Split, Keep, Fresh
<1>2. /\ use.numbers \in Nat /\ use.panes \in Nat /\ nextPane \in Nat /\ nextWorkspace \in Nat
      /\ np \in Nat \ {0} /\ nextPane <= np /\ np \in Nat
  BY Bounds
<1>3. target \in PanesIn(app.workspaces[i].tabs) /\ i \in DOMAIN app.workspaces
  BY Space
<1>4. IsSplit(i, target, focus, a)
  BY <1>1, <1>3, SplitDone
<1> HIDE DEF a
<1>5. /\ AppOK(a, {}, use.numbers, np, nextWorkspace)
      /\ Follows(app.workspaces, a.workspaces, {}, nextPane, nextWorkspace)
      /\ DOMAIN a.workspaces = DOMAIN app.workspaces /\ a.active = app.active /\ a.selected = app.selected
      /\ a.aliases = app.aliases /\ target \in PanesIn(a.workspaces[i].tabs)
  BY <1>4 DEF IsSplit
<1> HIDE DEF np
<1>6. Done(app', {}, np, nextWorkspace)
  <2>1. CASE focus
    <3>1. t \in DOMAIN a.workspaces[i].tabs
      BY <1>2, <1>3, <1>5, TabInApp
    <3> HIDE DEF t
    <3>2. Done(c, {}, np, nextWorkspace)
      BY <1>2, <1>3, <1>5, <3>1, ShownAfter
    <3>3. nextWorkspace <= nextWorkspace
      BY <1>2
    <3> HIDE DEF c
    <3>4. Done(Record(c, CurrentFocus(app)), {}, np, nextWorkspace)
      BY <1>2, <3>2, <3>3, DoneRecord
    <3>5. QED
      BY <1>1, <2>1, <3>4
  <2>2. CASE ~focus
    <3>1. app' = a
      BY <1>1, <2>2
    <3>2. QED
      BY <1>3, <1>5, <3>1, DoneSame
  <2>3. QED
    BY <2>1, <2>2
<1>7. np \in nextPane .. use.panes + 1 /\ nextWorkspace \in nextWorkspace .. use.workspaces + 1
  BY <1>1, <1>2, Bounds DEF np
<1>8. QED
  BY <1>1, <1>6, <1>7, SteppedQuietly

LEMMA OpenOverlayStep ==
    ASSUME AppInv, OpenOverlay
    PROVE  Stepped({})
<1> DEFINE i == app.active
           t == app.workspaces[i].active_tab
           tab == app.workspaces[i].tabs[t]
           a == SplitIn(app, i, tab.focus, nextPane, TRUE)
           u == [a.workspaces[i].tabs[t] EXCEPT !.zoomed = TRUE]
           c == TabPut(a, i, t, u)
           o == [ws_idx |-> i, tab_idx |-> t, focus |-> tab.focus, zoomed |-> tab.zoomed]
           np == nextPane + 1
<1>1. /\ overlays' = With(overlays, nextPane, o) /\ nextPane' = np /\ nextWorkspace' = nextWorkspace
      /\ nextPane <= use.panes /\ i # 0 /\ app.workspaces[i].next_pane <= use.numbers
      /\ app' = Record(c, CurrentFocus(app))
  BY DEF OpenOverlay, Keep, Fresh, TabPut
<1>2. /\ use.numbers \in Nat /\ use.panes \in Nat /\ nextPane \in Nat \ {0} /\ nextWorkspace \in Nat
      /\ np \in Nat \ {0} /\ nextPane <= np /\ np \in Nat /\ nextPane \in Nat /\ nextWorkspace <= nextWorkspace
  BY Bounds
<1>3. i \in Indices(app)
  BY <1>1 DEF AppInv, ViewOK, Indices
<1>4. /\ i \in DOMAIN app.workspaces /\ t \in DOMAIN app.workspaces[i].tabs /\ SpaceOK(app.workspaces[i], {}, use.numbers)
      /\ AppOK(app, {}, use.numbers, nextPane, nextWorkspace)
  BY <1>3, Space
<1>5. TabOK(tab) /\ tab.focus \in PanesIn(app.workspaces[i].tabs)
  <2>1. TabOK(tab)
    BY <1>4 DEF SpaceOK, TabsOK
  <2>2. QED
    BY <1>4, <2>1, PanesInFacts DEF TabOK
<1>6. o.zoomed \in BOOLEAN
  BY <1>5 DEF TabOK, TabRecord
<1>7. IsSplit(i, tab.focus, TRUE, a)
  BY <1>1, <1>3, <1>5, SplitDone
<1> HIDE DEF a, tab
<1>8. /\ AppOK(a, {}, use.numbers, np, nextWorkspace)
      /\ Follows(app.workspaces, a.workspaces, {}, nextPane, nextWorkspace)
      /\ DOMAIN a.workspaces = DOMAIN app.workspaces /\ a.active = app.active /\ a.selected = app.selected
      /\ a.aliases = app.aliases /\ DOMAIN a.workspaces[i].tabs = DOMAIN app.workspaces[i].tabs
  BY <1>7 DEF IsSplit
<1> HIDE DEF i, t, np
<1>9. t \in DOMAIN a.workspaces[i].tabs /\ i \in DOMAIN a.workspaces
  BY <1>4, <1>8
<1>10. TabOK(u) /\ u.number = a.workspaces[i].tabs[t].number /\ u.panes = a.workspaces[i].tabs[t].panes
  <2>1. TabOK(a.workspaces[i].tabs[t])
    BY <1>8, <1>9 DEF AppOK, SpacesOK, SpaceOK, TabsOK
  <2>2. QED
    BY <2>1, ZoomedOK
<1> HIDE DEF u
<1>11. /\ AppOK(c, {}, use.numbers, np, nextWorkspace)
       /\ Follows(a.workspaces, c.workspaces, {}, np, nextWorkspace)
       /\ DOMAIN c.workspaces = DOMAIN a.workspaces
       /\ c.active = a.active /\ c.selected = a.selected /\ c.aliases = a.aliases
  BY <1>2, <1>8, <1>9, <1>10, TabPutOK
<1> HIDE DEF c
<1>12. Follows(app.workspaces, c.workspaces, {}, nextPane, nextWorkspace)
  BY <1>2, <1>4, <1>8, <1>11, FollowsThen
<1>13. Done(c, {}, np, nextWorkspace)
  BY <1>4, <1>8, <1>11, <1>12, DoneSame
<1>14. Done(app', {}, np, nextWorkspace)
  BY <1>1, <1>2, <1>13, DoneRecord
<1>15. OverlaysOK(overlays', np)
  <2>1. \A p \in DOMAIN overlays : p \in 1 .. nextPane - 1 /\ overlays[p].zoomed \in BOOLEAN
    BY DEF AppInv, OverlaysOK
  <2>2. \A p \in DOMAIN overlays : p \in 1 .. np - 1
    BY <1>2, <2>1 DEF np
  <2>3. nextPane \in 1 .. np - 1
    BY <1>2 DEF np
  <2> HIDE DEF o
  <2>4. QED
    BY <1>1, <1>6, <2>1, <2>2, <2>3 DEF OverlaysOK, With
<1>16. np \in nextPane .. use.panes + 1 /\ nextWorkspace \in nextWorkspace .. use.workspaces + 1
  BY <1>1, <1>2, Bounds DEF np
<1>17. QED
  BY <1>1, <1>14, <1>15, <1>16 DEF Stepped

\* A new workspace at the end, with the next pane.
AppAppend(a, w) == [a EXCEPT !.workspaces = Append(a.workspaces, w), !.terminals = a.terminals \cup PanesOf(w)]

IsAppended(a, w, N, np, nw, b) ==
    /\ AppOK(b, {}, N, np + 1, nw + 1) /\ b.workspaces = Append(a.workspaces, w)
    /\ b.active = a.active /\ b.selected = a.selected /\ b.aliases = a.aliases

LEMMA AppendedOK ==
    ASSUME NEW N \in Nat, NEW np \in Nat \ {0}, NEW nw \in Nat \ {0}, NEW a, AppOK(a, {}, N, np, nw),
           NEW w, SpaceOK(w, {}, N), w.tabs # <<>>, w.id = nw, \A p : p \in PanesIn(w.tabs) <=> p = np
    PROVE  IsAppended(a, w, N, np, nw, AppAppend(a, w))
<1> DEFINE S == a.workspaces
           r == Append(S, w)
           T == a.terminals \cup PanesOf(w)
           b == AppAppend(a, w)
<1>1. /\ a \in AppRecord /\ SpacesOK(S, N, nw) /\ a.terminals = PanesAll(S) /\ S \in Seq(SpaceRecord)
      /\ a.previous.ws < nw /\ a.previous.pane < np /\ a.previous.ws \in Nat /\ a.previous.pane \in Nat
      /\ a.terminals \in SUBSET Nat
  BY AppFields DEF AppOK
<1>2. \A p \in a.terminals : p \in Nat /\ p >= 1 /\ p < np
  <2>1. \A p \in a.terminals : p \in 1 .. np - 1
    BY DEF AppOK
  <2>2. QED
    BY <2>1
<1>3. PanesOf(w) = PanesIn(w.tabs)
  BY PanesOfIn
<1>4. PanesIn(w.tabs) \cap PanesAll(S) = {}
  BY <1>1, <1>2
<1>5. SpacesOK(r, N, w.id + 1) /\ PanesAll(r) = PanesAll(S) \cup PanesIn(w.tabs)
  <2>1. w.id \in Nat /\ w.id >= nw /\ w.id >= 1 /\ N \in Nat /\ nw \in Nat
    OBVIOUS
  <2> HIDE DEF S
  <2>2. QED
    BY <1>1, <1>4, <2>1, SpacesAppended
<1>6. SpacesOK(r, N, nw + 1)
  BY <1>5
<1>7. T = PanesAll(r) /\ T \in SUBSET Nat /\ \A p \in T : p \in 1 .. (np + 1) - 1
  <2>1. T = PanesAll(r)
    BY <1>1, <1>3, <1>5
  <2>2. T \in SUBSET Nat /\ \A p \in T : p \in 1 .. (np + 1) - 1
    BY <1>1, <1>2, <1>3
  <2>3. QED
    BY <2>1, <2>2
<1>8. r \in Seq(SpaceRecord)
  BY <1>6 DEF SpacesOK
<1>9. b = [a EXCEPT !.workspaces = r, !.terminals = T]
  BY DEF AppAppend
<1> HIDE DEF r, T, b, S
<1>10. /\ b \in AppRecord /\ b.workspaces = r /\ b.terminals = T /\ b.active = a.active
       /\ b.selected = a.selected /\ b.aliases = a.aliases /\ b.previous = a.previous
  BY <1>1, <1>7, <1>8, <1>9 DEF AppRecord
<1>11. b.previous.ws < nw + 1 /\ b.previous.pane < np + 1
  BY <1>1, <1>10
<1>12. AppOK(b, {}, N, np + 1, nw + 1)
  BY <1>6, <1>7, <1>10, <1>11 DEF AppOK
<1>13. QED
  BY <1>10, <1>12 DEF IsAppended, b, r, S

\* The workspaces with one at the end.
LEMMA AppendFacts ==
    ASSUME NEW T, NEW s \in Seq(T), NEW e \in T
    PROVE  /\ DOMAIN s \subseteq DOMAIN Append(s, e) /\ \A i \in DOMAIN s : Append(s, e)[i] = s[i]
           /\ Len(Append(s, e)) \in DOMAIN Append(s, e) /\ Append(s, e)[Len(Append(s, e))] = e
           /\ Len(Append(s, e)) = Len(s) + 1
OBVIOUS

\* create_workspace_with_launch_env.
LEMMA DoneWorkspace ==
    ASSUME AppInv, NEW a, AppOK(a, {}, use.numbers, nextPane, nextWorkspace),
           Follows(app.workspaces, a.workspaces, {}, nextPane, nextWorkspace),
           DOMAIN a.workspaces = DOMAIN app.workspaces, a.active = app.active, a.selected = app.selected,
           a.aliases = app.aliases, NEW focus,
           NEW w, SpaceOK(w, {}, use.numbers), w.tabs # <<>>, w.id = nextWorkspace,
           \A p : p \in PanesIn(w.tabs) <=> p = nextPane
    PROVE  Done(WithWorkspace(a, w, focus), {}, nextPane + 1, nextWorkspace + 1)
<1> DEFINE b == AppAppend(a, w)
           n == Len(b.workspaces)
           np == nextPane + 1
           nw == nextWorkspace + 1
           c == WithWorkspace(a, w, focus)
<1>1. c = IF focus \/ a.active = 0 THEN SwitchTab(b, n, b.workspaces[n].active_tab) ELSE b
  BY Zenon DEF WithWorkspace, SwitchWorkspace, AppAppend
<1>2. /\ use.numbers \in Nat /\ nextPane \in Nat \ {0} /\ nextWorkspace \in Nat \ {0}
      /\ nextPane \in Nat /\ nextWorkspace \in Nat
      /\ np \in Nat \ {0} /\ nw \in Nat \ {0} /\ nextPane <= np /\ nextWorkspace <= nw
  BY Bounds
<1>3. IsAppended(a, w, use.numbers, nextPane, nextWorkspace, b)
  BY <1>2, AppendedOK
<1> HIDE DEF b, c
<1>4. /\ AppOK(b, {}, use.numbers, np, nw) /\ b.workspaces = Append(a.workspaces, w)
      /\ b.active = a.active /\ b.selected = a.selected /\ b.aliases = a.aliases
  BY <1>3 DEF IsAppended
<1>5. a.workspaces \in Seq(SpaceRecord) /\ w \in SpaceRecord
  BY AppFields DEF AppOK, SpaceOK
<1>6. /\ DOMAIN a.workspaces \subseteq DOMAIN b.workspaces /\ n \in DOMAIN b.workspaces /\ b.workspaces[n] = w
  BY <1>4, <1>5, AppendFacts
<1>7. Follows(app.workspaces, b.workspaces, {}, nextPane, nextWorkspace)
  <2>1. nextWorkspace <= w.id /\ \A p \in PanesIn(w.tabs) : p \in {} \/ nextPane <= p
    BY <1>2
  <2>2. QED
    BY <1>4, <1>5, <2>1, FollowsAppended
<1> HIDE DEF n, np, nw
<1>8. CASE focus \/ a.active = 0
  <2>1. b.workspaces[n].active_tab \in DOMAIN b.workspaces[n].tabs
    BY <1>6 DEF SpaceOK
  <2>2. Done(SwitchTab(b, n, b.workspaces[n].active_tab), {}, np, nw)
    BY <1>2, <1>4, <1>6, <1>7, <2>1, ShownLater
  <2>3. QED
    BY <1>1, <1>8, <2>2 DEF c, np, nw
<1>9. CASE ~(focus \/ a.active = 0)
  <2>1. app.active \in DOMAIN app.workspaces /\ app.selected \in DOMAIN app.workspaces
    BY <1>9 DEF AppInv, ViewOK
  <2>2. b.active \in DOMAIN b.workspaces /\ b.selected \in DOMAIN b.workspaces
    BY <1>4, <1>6, <2>1
  <2>3. Done(b, {}, np, nw)
    BY <1>4, <1>7, <2>2, DoneShown
  <2>4. QED
    BY <1>1, <1>9, <2>3 DEF c, np, nw
<1>10. QED
  BY <1>8, <1>9

IsNew(w, id, p, N) ==
    SpaceOK(w, {}, N) /\ w.id = id /\ w.tabs # <<>> /\ \A q : q \in PanesIn(w.tabs) <=> q = p

LEMMA NewIs ==
    ASSUME NEW id \in Nat, NEW p \in Nat, NEW N \in Nat \ {0}
    PROVE  IsNew(NewWorkspace(id, p), id, p, N)
<1> DEFINE w == NewWorkspace(id, p)
<1>1. SpaceOK(w, {}, N) /\ w.id = id /\ w.tabs # <<>> /\ PanesIn(w.tabs) = {p}
  BY NewWorkspaceOK
<1> HIDE DEF w
<1>2. \A q : q \in PanesIn(w.tabs) <=> q = p
  BY <1>1
<1>3. IsNew(w, id, p, N)
  BY <1>1, <1>2 DEF IsNew
<1>4. QED
  BY <1>3 DEF w

LEMMA CreateWorkspaceStep ==
    ASSUME AppInv, NEW focus, CreateWorkspace(focus)
    PROVE  Stepped({})
<1> DEFINE w == NewWorkspace(nextWorkspace, nextPane)
<1>1. /\ overlays' = overlays /\ nextPane' = nextPane + 1 /\ nextWorkspace' = nextWorkspace + 1
      /\ nextPane <= use.panes /\ nextWorkspace <= use.workspaces
      /\ app' = WithWorkspace(app, w, focus)
  BY DEF CreateWorkspace, Keep, Fresh
<1>2. use.numbers \in Nat \ {0} /\ nextPane \in Nat /\ nextWorkspace \in Nat /\ use.panes \in Nat /\ use.workspaces \in Nat
  BY Bounds
<1>3. IsNew(w, nextWorkspace, nextPane, use.numbers)
  BY <1>2, NewIs
<1> HIDE DEF w
<1>4. AppOK(app, {}, use.numbers, nextPane, nextWorkspace)
  BY DEF AppInv
<1>5. Follows(app.workspaces, app.workspaces, {}, nextPane, nextWorkspace)
  <2>1. SpacesOK(app.workspaces, use.numbers, nextWorkspace)
    BY <1>4 DEF AppOK
  <2>2. QED
    BY <1>2, <2>1, FollowsPicked
<1>6. /\ SpaceOK(w, {}, use.numbers) /\ w.id = nextWorkspace /\ w.tabs # <<>>
      /\ \A p : p \in PanesIn(w.tabs) <=> p = nextPane
  BY <1>3 DEF IsNew
<1>7. Done(app', {}, nextPane + 1, nextWorkspace + 1)
  BY <1>1, <1>4, <1>5, <1>6, DoneWorkspace
<1>8. nextPane + 1 \in nextPane .. use.panes + 1 /\ nextWorkspace + 1 \in nextWorkspace .. use.workspaces + 1
  BY <1>1, <1>2
<1>9. QED
  BY <1>1, <1>7, <1>8, SteppedQuietly

LEMMA WorktreeOpenStep ==
    ASSUME AppInv, NEW i \in Indices(app), NEW focus, WorktreeOpen(i, focus)
    PROVE  Stepped({})
<1> DEFINE v == app.workspaces[i]
           u == [v EXCEPT !.space = "main"]
           a == AppPut(app, i, u, app.terminals)
           n == NewWorkspace(nextWorkspace, nextPane)
           w == [n EXCEPT !.space = "linked"]
<1>1. /\ overlays' = overlays /\ nextPane' = nextPane + 1 /\ nextWorkspace' = nextWorkspace + 1
      /\ nextPane <= use.panes /\ nextWorkspace <= use.workspaces
      /\ app' = WithWorkspace([app EXCEPT !.workspaces[i].space = "main"], w, focus)
  BY DEF WorktreeOpen, Keep, Fresh
<1>2. use.numbers \in Nat \ {0} /\ nextPane \in Nat /\ nextWorkspace \in Nat /\ use.panes \in Nat /\ use.workspaces \in Nat
  BY Bounds
<1>3. /\ SpaceOK(w, {}, use.numbers) /\ w.id = nextWorkspace /\ w.tabs # <<>>
      /\ \A p : p \in PanesIn(w.tabs) <=> p = nextPane
  <2> DEFINE space == "linked"
  <2>0. IsNew(n, nextWorkspace, nextPane, use.numbers)
    BY <1>2, NewIs
  <2>2. space \in {"none", "main", "linked"}
    OBVIOUS
  <2> HIDE DEF n, space
  <2>1. /\ SpaceOK(n, {}, use.numbers) /\ n.id = nextWorkspace /\ n.tabs # <<>>
        /\ \A p : p \in PanesIn(n.tabs) <=> p = nextPane
    BY <2>0 DEF IsNew
  <2>3. LET b == [n EXCEPT !.space = space] IN SpaceOK(b, {}, use.numbers) /\ b.tabs = n.tabs /\ b.id = n.id
    BY <1>2, <2>1, <2>2, MarkedOK
  <2>4. QED
    BY <2>1, <2>3 DEF space
<1> HIDE DEF w
<1>4. /\ i \in DOMAIN app.workspaces /\ SpaceOK(v, {}, use.numbers) /\ v.tabs # <<>>
      /\ AppOK(app, {}, use.numbers, nextPane, nextWorkspace)
  BY Space
<1>5. SpaceOK(u, {}, use.numbers) /\ Kin(v, u) /\ u.tabs = v.tabs
  <2> DEFINE space == "main"
  <2>1. space \in {"none", "main", "linked"}
    OBVIOUS
  <2> HIDE DEF v, space
  <2>2. LET b == [v EXCEPT !.space = space] IN SpaceOK(b, {}, use.numbers) /\ Kin(v, b) /\ b.tabs = v.tabs
    BY <1>2, <1>4, <2>1, MarkedOK
  <2>3. QED
    BY <2>2 DEF space
<1>6. [app EXCEPT !.workspaces[i].space = "main"] = [app EXCEPT !.workspaces[i] = u]
  BY Zenon
<1>7. app \in AppRecord /\ u \in SpaceRecord /\ app.terminals \in SUBSET Nat
  BY <1>4, <1>5, AppFields DEF AppOK, SpaceOK
<1>8. [app EXCEPT !.workspaces[i].space = "main"] = a
  <2> HIDE DEF u
  <2>1. QED
    BY <1>4, <1>6, <1>7, AppPutSame
<1> HIDE DEF u
<1>9. u.tabs # <<>> /\ PanesIn(u.tabs) = PanesIn(v.tabs)
  BY <1>4, <1>5
<1>10. Done(a, {}, nextPane, nextWorkspace)
  BY <1>5, <1>9, DoneSpace
<1>11. IsPut(app, i, u, app.terminals, a)
  BY <1>4, <1>7, AppPutFields
<1> HIDE DEF a, v
<1>12. /\ AppOK(a, {}, use.numbers, nextPane, nextWorkspace)
       /\ Follows(app.workspaces, a.workspaces, {}, nextPane, nextWorkspace)
       /\ DOMAIN a.workspaces = DOMAIN app.workspaces /\ a.active = app.active /\ a.selected = app.selected
       /\ a.aliases = app.aliases
  BY <1>10, <1>11 DEF Done, IsPut
<1>13. Done(app', {}, nextPane + 1, nextWorkspace + 1)
  BY <1>1, <1>3, <1>8, <1>12, DoneWorkspace
<1>14. nextPane + 1 \in nextPane .. use.panes + 1 /\ nextWorkspace + 1 \in nextWorkspace .. use.workspaces + 1
  BY <1>1, <1>2
<1>15. QED
  BY <1>1, <1>13, <1>14, SteppedQuietly

\* A workspace is found by its id.
Found(S, c, id) == SelectInSeq(S, LAMBDA w : c /\ w.id = id)

Finds(S, c, id, k) == IF c /\ \E i \in DOMAIN S : S[i].id = id THEN k \in DOMAIN S /\ S[k].id = id ELSE k = 0

LEMMA FoundFacts ==
    ASSUME NEW T, NEW S \in Seq(T), NEW c \in BOOLEAN, NEW id
    PROVE  Finds(S, c, id, Found(S, c, id))
<1> DEFINE P == {k \in 1 .. Len(S) : c /\ S[k].id = id}
<1>1. Found(S, c, id) = IF P # {} THEN Min(P) ELSE 0
  BY DEF Found, SelectInSeq
<1>2. Len(S) \in Nat /\ DOMAIN S = 1 .. Len(S)
  OBVIOUS
<1>3. P # {} <=> c /\ \E i \in DOMAIN S : S[i].id = id
  BY <1>2
<1>4. CASE P # {}
  <2>1. Min(P) \in P
    BY <1>2, <1>4, FirstPosition
  <2>2. QED
    BY <1>1, <1>2, <1>3, <1>4, <2>1 DEF Finds
<1>5. CASE P = {}
  BY <1>1, <1>3, <1>5 DEF Finds
<1>6. QED
  BY <1>4, <1>5

\* Two sequences behind each other, and one that is cut.
LEMMA ConcatOnce ==
    ASSUME NEW T, NEW s \in Seq(T), NEW r \in Seq(T), Once(s), Once(r), ToSet(s) \cap ToSet(r) = {}
    PROVE  s \o r \in Seq(T) /\ Once(s \o r) /\ \A e : e \in ToSet(s \o r) <=> e \in ToSet(s) \/ e \in ToSet(r)
<1> DEFINE q == s \o r
           m == Len(s)
           n == Len(r)
<1>1. /\ m \in Nat /\ n \in Nat /\ DOMAIN s = 1 .. m /\ DOMAIN r = 1 .. n
      /\ q \in Seq(T) /\ DOMAIN q = 1 .. m + n
      /\ \A i \in 1 .. m : q[i] = s[i]
      /\ \A i \in 1 .. n : q[m + i] = r[i]
  <2>1. q \in Seq(T) /\ Len(q) = m + n /\ \A i \in 1 .. m + n : q[i] = IF i <= m THEN s[i] ELSE r[i - m]
    BY ConcatProperties
  <2>2. m \in Nat /\ n \in Nat /\ DOMAIN s = 1 .. m /\ DOMAIN r = 1 .. n
    OBVIOUS
  <2> HIDE DEF q, m, n
  <2>3. DOMAIN q = 1 .. m + n
    BY <2>1
  <2>4. \A i \in 1 .. m : q[i] = s[i]
    BY <2>1, <2>2
  <2>5. ASSUME NEW i \in 1 .. n PROVE q[m + i] = r[i]
    <3> DEFINE k == m + i
    <3>1. k \in 1 .. m + n /\ ~(k <= m) /\ k - m = i
      BY <2>2
    <3> HIDE DEF k
    <3>2. q[k] = r[k - m]
      BY <2>1, <3>1
    <3>3. QED
      BY <3>1, <3>2 DEF k
  <2>6. QED
    BY <2>1, <2>2, <2>3, <2>4, <2>5
<1> HIDE DEF q, m, n
<1>2. \A i \in 1 .. m + n : i \in 1 .. m \/ (i - m \in 1 .. n /\ i = m + (i - m))
  BY <1>1
<1>3. ASSUME NEW i \in 1 .. m + n
      PROVE  \/ i \in 1 .. m /\ q[i] = s[i] /\ q[i] \in ToSet(s)
             \/ i - m \in 1 .. n /\ q[i] = r[i - m] /\ q[i] \in ToSet(r)
  <2>2. CASE i \in 1 .. m
    BY <1>1, <2>2 DEF ToSet
  <2>3. CASE i - m \in 1 .. n /\ i = m + (i - m)
    <3>1. q[i] = r[i - m]
      BY <1>1, <2>3
    <3>2. QED
      BY <1>1, <2>3, <3>1 DEF ToSet
  <2>4. QED
    BY <1>2, <2>2, <2>3
<1>4. Once(q)
  <2>1. SUFFICES ASSUME NEW i \in 1 .. m + n, NEW j \in 1 .. m + n, q[i] = q[j] PROVE i = j
    BY <1>1 DEF Once
  <2>2. CASE i \in 1 .. m /\ q[i] = s[i] /\ q[i] \in ToSet(s)
    <3>1. j \in 1 .. m /\ q[j] = s[j]
      BY <1>3, <2>1, <2>2
    <3>2. QED
      BY <1>1, <2>1, <2>2, <3>1 DEF Once
  <2>3. CASE i - m \in 1 .. n /\ q[i] = r[i - m] /\ q[i] \in ToSet(r)
    <3>1. j - m \in 1 .. n /\ q[j] = r[j - m]
      BY <1>3, <2>1, <2>3
    <3>2. i - m = j - m
      BY <1>1, <2>1, <2>3, <3>1 DEF Once
    <3>3. QED
      BY <1>1, <3>2
  <2>4. QED
    BY <1>3, <2>2, <2>3
<1>5. ASSUME NEW e PROVE e \in ToSet(q) <=> e \in ToSet(s) \/ e \in ToSet(r)
  <2>1. ASSUME e \in ToSet(q) PROVE e \in ToSet(s) \/ e \in ToSet(r)
    BY <1>1, <1>3, <2>1 DEF ToSet
  <2>2. ASSUME e \in ToSet(s) PROVE e \in ToSet(q)
    <3>1. PICK i \in 1 .. m : e = s[i]
      BY <1>1, <2>2 DEF ToSet
    <3>2. i \in 1 .. m + n /\ q[i] = e
      BY <1>1, <3>1
    <3>3. QED
      BY <1>1, <3>2 DEF ToSet
  <2>3. ASSUME e \in ToSet(r) PROVE e \in ToSet(q)
    <3>1. PICK i \in 1 .. n : e = r[i]
      BY <1>1, <2>3 DEF ToSet
    <3>2. m + i \in 1 .. m + n /\ q[m + i] = e
      BY <1>1, <3>1
    <3>3. QED
      BY <1>1, <3>2 DEF ToSet
  <2>4. QED
    BY <2>1, <2>2, <2>3
<1>6. QED
  BY <1>1, <1>4, <1>5 DEF q

LEMMA CutOnce ==
    ASSUME NEW T, NEW s \in Seq(T), Once(s), NEW p \in 1 .. Len(s) + 1
    PROVE  LET a == SubSeq(s, 1, p - 1)
               b == SubSeq(s, p, Len(s))
           IN  /\ a \in Seq(T) /\ b \in Seq(T) /\ Once(a) /\ Once(b) /\ ToSet(a) \cap ToSet(b) = {}
               /\ \A e : e \in ToSet(s) <=> e \in ToSet(a) \/ e \in ToSet(b)
<1> DEFINE a == SubSeq(s, 1, p - 1)
           b == SubSeq(s, p, Len(s))
           n == Len(s)
<1>0. n \in Nat /\ p \in Nat /\ DOMAIN s = 1 .. n
  OBVIOUS
<1>1. a \in Seq(T) /\ DOMAIN a = 1 .. p - 1 /\ \A i \in 1 .. p - 1 : a[i] = s[i]
  BY SubSeqProperties
<1>2. b \in Seq(T) /\ DOMAIN b = 1 .. n - p + 1 /\ \A i \in 1 .. n - p + 1 : b[i] = s[i + p - 1]
  BY SubSeqProperties
<1> HIDE DEF a, b
<1>3. p \in 1 .. n + 1
  OBVIOUS
<1> HIDE DEF n
<1>4. /\ \A i \in 1 .. p - 1 : i \in DOMAIN s
      /\ \A i \in 1 .. n - p + 1 : i + p - 1 \in DOMAIN s /\ i + p - 1 \notin 1 .. p - 1
      /\ \A i, j \in 1 .. n - p + 1 : i + p - 1 = j + p - 1 => i = j
      /\ \A k \in 1 .. n : k \in 1 .. p - 1 \/ (k - p + 1 \in 1 .. n - p + 1 /\ (k - p + 1) + p - 1 = k)
  BY <1>0, <1>3
<1>5. Once(a)
  BY <1>1, <1>4 DEF Once
<1>6. Once(b)
  BY <1>2, <1>4 DEF Once
<1>7. ASSUME NEW i \in 1 .. p - 1, NEW j \in 1 .. n - p + 1, a[i] = b[j] PROVE FALSE
  <2>1. s[i] = s[j + p - 1]
    BY <1>1, <1>2, <1>7
  <2>2. i = j + p - 1
    BY <1>4, <2>1 DEF Once
  <2>3. QED
    BY <1>4, <2>2
<1>8. ToSet(a) \cap ToSet(b) = {}
  BY <1>1, <1>2, <1>7 DEF ToSet
<1>9. ASSUME NEW e PROVE e \in ToSet(s) <=> e \in ToSet(a) \/ e \in ToSet(b)
  <2>1. ASSUME e \in ToSet(s) PROVE e \in ToSet(a) \/ e \in ToSet(b)
    <3>1. PICK k \in 1 .. n : e = s[k]
      BY <1>0, <2>1 DEF ToSet
    <3>2. CASE k \in 1 .. p - 1
      BY <1>1, <3>1, <3>2 DEF ToSet
    <3>3. CASE k - p + 1 \in 1 .. n - p + 1 /\ (k - p + 1) + p - 1 = k
      <4>1. b[k - p + 1] = e
        BY <1>2, <3>1, <3>3
      <4>2. QED
        BY <1>2, <3>3, <4>1 DEF ToSet
    <3>4. QED
      BY <1>4, <3>2, <3>3
  <2>2. ASSUME e \in ToSet(a) PROVE e \in ToSet(s)
    BY <1>1, <1>4, <2>2 DEF ToSet
  <2>3. ASSUME e \in ToSet(b) PROVE e \in ToSet(s)
    BY <1>2, <1>4, <2>3 DEF ToSet
  <2>4. QED
    BY <2>1, <2>2, <2>3
<1>10. QED
  BY <1>1, <1>2, <1>5, <1>6, <1>8, <1>9 DEF a, b, n

\* The workspaces in another order.
LEMMA DoneReordered ==
    ASSUME AppInv, NEW i \in Indices(app), NEW order \in Seq(SpaceRecord), Once(order),
           \A e : e \in ToSet(order) <=> e \in ToSet(app.workspaces)
    PROVE  Done(Reordered(app, order), {}, nextPane, nextWorkspace)
<1> DEFINE S == app.workspaces
           at(k) == Found(order, k \in Indices(app), S[k].id)
           x == at(app.active)
           y == at(app.selected)
           z == Max({y, 1})
           b == Reordered(app, order)
<1>1. /\ AppOK(app, {}, use.numbers, nextPane, nextWorkspace) /\ app \in AppRecord /\ S \in Seq(SpaceRecord)
      /\ SpacesOK(S, use.numbers, nextWorkspace) /\ app.terminals = PanesAll(S) /\ i \in DOMAIN S
      /\ app.previous.ws < nextWorkspace /\ app.previous.pane < nextPane
      /\ \A p \in app.terminals : p \in 1 .. nextPane - 1
  BY AppFields DEF AppInv, AppOK, Indices
<1>2. use.numbers \in Nat /\ nextPane \in Nat /\ nextWorkspace \in Nat
  BY Bounds
<1>3. /\ app.selected \in DOMAIN S /\ (app.active \in DOMAIN S \/ (app.active = 0 /\ Takes("lose")))
      /\ 0 \notin DOMAIN S
  <2>1. S # <<>> /\ 0 \notin DOMAIN S
    BY <1>1
  <2>2. ViewOK(app, Takes("lose"))
    BY DEF AppInv
  <2>3. QED
    BY <2>1, <2>2 DEF ViewOK
<1>4. b = [app EXCEPT !.workspaces = order, !.active = x, !.selected = z]
  BY Zenon DEF Reordered, Found
<1>5. ASSUME NEW k PROVE Finds(order, k \in Indices(app), S[k].id, at(k))
  <2> DEFINE c == k \in Indices(app)
  <2>1. c \in BOOLEAN
    OBVIOUS
  <2> HIDE DEF c
  <2>2. Finds(order, c, S[k].id, Found(order, c, S[k].id))
    BY <2>1, FoundFacts
  <2>3. QED
    BY <2>2, Zenon DEF c
<1> HIDE DEF at, b
<1>6. ASSUME NEW k PROVE IF k \in DOMAIN S THEN at(k) \in DOMAIN order ELSE at(k) = 0
  <2>1. Finds(order, k \in Indices(app), S[k].id, at(k))
    BY <1>5
  <2>2. k \in DOMAIN S => \E j \in DOMAIN order : order[j].id = S[k].id
    <3>1. SUFFICES ASSUME k \in DOMAIN S PROVE \E j \in DOMAIN order : order[j].id = S[k].id
      OBVIOUS
    <3>2. S[k] \in ToSet(order)
      BY <3>1 DEF ToSet
    <3>3. QED
      BY <3>2 DEF ToSet
  <2>3. QED
    BY <2>1, <2>2 DEF Finds, Indices
<1>7. DOMAIN order = 1 .. Len(order) /\ Len(order) \in Nat
  OBVIOUS
<1>8. x \in Nat /\ y \in DOMAIN order /\ (x \in DOMAIN order \/ (x = 0 /\ Takes("lose")))
  BY <1>3, <1>6, <1>7
<1> HIDE DEF x, y, S
<1>9. z = y
  <2>1. y \in Nat /\ 1 \in Nat /\ y >= 1
    BY <1>7, <1>8
  <2>2. z \in Nat /\ z \in {y, 1} /\ y <= z
    <3>1. z \in Nat /\ y <= z
      BY <2>1, MaxTwo
    <3>2. z = y \/ z = 1
      BY <2>1 DEF Max
    <3>3. QED
      BY <3>1, <3>2
  <2>3. QED
    BY <2>1, <2>2
<1> HIDE DEF z
<1>10. z \in Nat
  BY <1>7, <1>8, <1>9
<1>11. /\ b \in AppRecord /\ b.workspaces = order /\ b.active = x /\ b.selected = z /\ b.aliases = app.aliases
       /\ b.terminals = app.terminals /\ b.previous = app.previous
  BY <1>1, <1>4, <1>8, <1>10 DEF AppRecord
<1>12. ToSet(order) = ToSet(S)
  BY DEF S
<1>13. SpacesOK(order, use.numbers, nextWorkspace)
  BY <1>1, <1>2, <1>12, SpacesPicked
<1>14. PanesAll(order) = PanesAll(S)
  BY <1>12, PanesPicked
<1>15. Follows(S, order, {}, nextPane, nextWorkspace)
  BY <1>1, <1>2, <1>12, FollowsPicked
<1>16. AppOK(b, {}, use.numbers, nextPane, nextWorkspace)
  BY <1>1, <1>11, <1>13, <1>14 DEF AppOK
<1>17. ViewOK(b, Takes("lose"))
  <2>1. order # <<>>
    BY <1>8
  <2>2. QED
    BY <1>8, <1>9, <1>11, <2>1 DEF ViewOK
<1>18. QED
  BY <1>11, <1>15, <1>16, <1>17, AliasesSame DEF Done, b, S

LEMMA MoveWorkspaceStep ==
    ASSUME AppInv, NEW from, NEW to, MoveWorkspace(from, to)
    PROVE  Stepped({})
<1> DEFINE S == app.workspaces
           r == RemoveAt(S, from)
           x == S[from]
           order == InsertAt(r, to, x)
<1>1. /\ overlays' = overlays /\ nextPane' = nextPane /\ nextWorkspace' = nextWorkspace
      /\ from \in Indices(app) /\ to \in DOMAIN S /\ app' = Reordered(app, order)
  BY DEF MoveWorkspace, Keep, Indices
<1>2. S \in Seq(SpaceRecord) /\ SpacesOK(S, use.numbers, nextWorkspace)
  BY AppFields DEF AppInv, AppOK
<1>3. Once(S) /\ from \in DOMAIN S
  BY <1>1, <1>2, SpacesApart DEF Indices
<1> HIDE DEF S
<1>4. from \in 1 .. Len(S) /\ to \in 1 .. Len(S) /\ Len(S) \in Nat /\ x \in SpaceRecord /\ x \in ToSet(S)
  BY <1>1, <1>2, <1>3 DEF ToSet
<1>5. r \in Seq(SpaceRecord) /\ Len(r) = Len(S) - 1
  BY <1>2, <1>4, RemoveAtFacts
<1>6. Once(r) /\ ToSet(r) = ToSet(S) \ {S[from]}
  BY <1>2, <1>3, <1>4, RemoveAtOnce
<1> HIDE DEF r, x
<1>7. \A e : e \in ToSet(r) <=> e \in ToSet(S) /\ e # x
  BY <1>6 DEF x
<1>8. to \in 1 .. Len(r) + 1
  BY <1>4, <1>5
<1>9. order \in Seq(SpaceRecord)
  BY <1>4, <1>5, <1>8, InsertAtFacts
<1>10. Once(order) /\ ToSet(order) = ToSet(r) \cup {x}
  BY <1>4, <1>5, <1>6, <1>7, <1>8, InsertAtOnce
<1> HIDE DEF order
<1>11. \A e : e \in ToSet(order) <=> e \in ToSet(app.workspaces)
  BY <1>4, <1>7, <1>10 DEF S
<1>12. Done(app', {}, nextPane, nextWorkspace)
  BY <1>1, <1>9, <1>10, <1>11, DoneReordered
<1>13. QED
  BY <1>1, <1>12, SteppedInPlace

LEMMA PairOnce ==
    ASSUME NEW T, NEW x \in T, NEW y \in T, x # y
    PROVE  <<x, y>> \in Seq(T) /\ Once(<<x, y>>) /\ \A e : e \in ToSet(<<x, y>>) <=> e = x \/ e = y
<1> DEFINE s == <<x, y>>
<1>1. s \in Seq(T) /\ DOMAIN s = {1, 2} /\ s[1] = x /\ s[2] = y
  OBVIOUS
<1> HIDE DEF s
<1>2. QED
  BY <1>1 DEF s, Once, ToSet

LEMMA MoveBlockStep ==
    ASSUME AppInv, NEW x \in Indices(app), NEW y \in Indices(app), NEW before \in {0} \cup Indices(app),
           MoveBlock(x, y, before)
    PROVE  Stepped({})
<1> DEFINE S == app.workspaces
           K == Indices(app) \ {x, y}
           block == <<S[x], S[y]>>
           rest == Only(S, K)
           id == S[before].id
           at == IF before = 0 THEN Len(rest) + 1 ELSE SelectInSeq(rest, LAMBDA w : w.id = id)
           b == SubSeq(rest, 1, at - 1)
           c == SubSeq(rest, at, Len(rest))
           d == b \o block
           order == d \o c
<1>1. /\ overlays' = overlays /\ nextPane' = nextPane /\ nextWorkspace' = nextWorkspace
      /\ x # y /\ before \notin {x, y} /\ app' = Reordered(app, order)
  BY DEF MoveBlock, Keep
<1>2. S \in Seq(SpaceRecord) /\ SpacesOK(S, use.numbers, nextWorkspace)
  BY AppFields DEF AppInv, AppOK
<1>3. Once(S) /\ \A i, j \in DOMAIN S : S[i].id = S[j].id => i = j
  BY <1>2, SpacesApart
<1>4. x \in DOMAIN S /\ y \in DOMAIN S /\ before \in {0} \cup DOMAIN S /\ K \subseteq 1 .. Len(S) /\ K = DOMAIN S \ {x, y}
  BY <1>2 DEF Indices
<1> HIDE DEF S, K
<1>5. rest \in Seq(SpaceRecord) /\ Once(rest)
  BY <1>2, <1>3, <1>4, OnlyFacts
<1>6. ToSet(rest) = {S[k] : k \in K}
  BY <1>2, <1>3, <1>4, OnlySet
<1>7. \A e : e \in ToSet(rest) <=> \E k \in K : e = S[k]
  BY <1>6
<1> HIDE DEF rest
<1>8. at \in 1 .. Len(rest) + 1
  <2>0. Len(rest) \in Nat /\ DOMAIN rest = 1 .. Len(rest)
    BY <1>5
  <2>1. CASE before = 0
    BY <2>0, <2>1
  <2>2. CASE before # 0
    <3> DEFINE q == TRUE
    <3>1. q \in BOOLEAN
      OBVIOUS
    <3> HIDE DEF q, id
    <3>2. Finds(rest, q, id, Found(rest, q, id))
      BY <1>5, <3>1, FoundFacts
    <3>3. SelectInSeq(rest, LAMBDA w : w.id = id) = Found(rest, q, id)
      BY DEF Found, SelectInSeq, q
    <3>4. \E k \in DOMAIN rest : rest[k].id = id
      <4>1. before \in K
        BY <1>1, <1>4, <2>2
      <4>2. S[before] \in ToSet(rest)
        BY <1>7, <4>1
      <4>3. PICK k \in DOMAIN rest : rest[k] = S[before]
        BY <4>2 DEF ToSet
      <4>4. QED
        BY <4>3 DEF id
    <3>5. Found(rest, q, id) \in DOMAIN rest
      BY <3>2, <3>4 DEF Finds, q
    <3>6. QED
      BY <2>0, <2>2, <3>3, <3>5
  <2>3. QED
    BY <2>1, <2>2
<1> HIDE DEF at
<1>9. /\ b \in Seq(SpaceRecord) /\ c \in Seq(SpaceRecord) /\ Once(b) /\ Once(c) /\ ToSet(b) \cap ToSet(c) = {}
      /\ \A e : e \in ToSet(rest) <=> e \in ToSet(b) \/ e \in ToSet(c)
  BY <1>5, <1>8, CutOnce
<1> HIDE DEF b, c
<1>10. S[x] \in SpaceRecord /\ S[y] \in SpaceRecord /\ S[x] # S[y]
  BY <1>1, <1>2, <1>3, <1>4 DEF Once
<1>11. block \in Seq(SpaceRecord) /\ Once(block) /\ \A e : e \in ToSet(block) <=> e = S[x] \/ e = S[y]
  BY <1>10, PairOnce
<1> HIDE DEF block
<1>12. S[x] \notin ToSet(rest) /\ S[y] \notin ToSet(rest)
  BY <1>3, <1>4, <1>7 DEF Once
<1>13. ToSet(b) \cap ToSet(block) = {}
  BY <1>9, <1>11, <1>12
<1>14. d \in Seq(SpaceRecord) /\ Once(d) /\ \A e : e \in ToSet(d) <=> e \in ToSet(b) \/ e \in ToSet(block)
  BY <1>9, <1>11, <1>13, ConcatOnce
<1> HIDE DEF d
<1>15. ToSet(d) \cap ToSet(c) = {}
  BY <1>9, <1>11, <1>12, <1>14
<1>16. order \in Seq(SpaceRecord) /\ Once(order) /\ \A e : e \in ToSet(order) <=> e \in ToSet(d) \/ e \in ToSet(c)
  BY <1>9, <1>14, <1>15, ConcatOnce
<1> HIDE DEF order
<1>17. ASSUME NEW e PROVE e \in ToSet(order) <=> e \in ToSet(app.workspaces)
  <2>1. e \in ToSet(order) <=> e \in ToSet(rest) \/ e = S[x] \/ e = S[y]
    BY <1>9, <1>11, <1>14, <1>16
  <2>2. e \in ToSet(S) <=> \E k \in DOMAIN S : e = S[k]
    BY DEF ToSet
  <2>3. e \in ToSet(rest) \/ e = S[x] \/ e = S[y] <=> \E k \in DOMAIN S : e = S[k]
    BY <1>4, <1>7
  <2>4. QED
    BY <2>1, <2>2, <2>3 DEF S
<1>18. Done(app', {}, nextPane, nextWorkspace)
  BY <1>1, <1>16, <1>17, DoneReordered
<1>19. QED
  BY <1>1, <1>18, SteppedInPlace

LEMMA MaxOne ==
    ASSUME NEW n \in Nat
    PROVE  Max({n, 1}) = IF n = 0 THEN 1 ELSE n
<1> DEFINE z == Max({n, 1})
<1>1. z \in Nat /\ n <= z /\ 1 <= z
  BY MaxTwo
<1>2. z \in {n, 1}
  <2>1. \E x \in {n, 1} : \A y \in {n, 1} : x >= y
    <3>1. CASE n = 0
      BY <3>1
    <3>2. CASE n # 0
      BY <3>2
    <3>3. QED
      BY <3>1, <3>2
  <2>2. QED
    BY <2>1 DEF Max
<1> HIDE DEF z
<1>3. QED
  BY <1>1, <1>2 DEF z

\* Workspaces close: what is left is a part of what there was.
IsLeft(rest, x, y, b) ==
    /\ b.workspaces = rest /\ b.active = x /\ b.selected = Max({y, 1}) /\ b.aliases = app.aliases
    /\ AppOK(b, PanesAll(app.workspaces) \ PanesAll(rest), use.numbers, nextPane, nextWorkspace)
    /\ Follows(app.workspaces, rest, {}, nextPane, nextWorkspace) /\ ViewOK(b, Takes("lose"))

LEMMA LeftIs ==
    ASSUME AppInv, NEW rest \in Seq(SpaceRecord), Once(rest), ToSet(rest) \subseteq ToSet(app.workspaces), NEW x, NEW y,
           IF rest = <<>> THEN x = 0 /\ y = 0
           ELSE y \in DOMAIN rest \cup {0} /\ (x \in DOMAIN rest \/ (x = 0 /\ Takes("lose")))
    PROVE  IsLeft(rest, x, y, [app EXCEPT !.workspaces = rest, !.active = x, !.selected = Max({y, 1})])
<1> DEFINE S == app.workspaces
           z == Max({y, 1})
           b == [app EXCEPT !.workspaces = rest, !.active = x, !.selected = z]
           X == PanesAll(S) \ PanesAll(rest)
<1>1. /\ app \in AppRecord /\ SpacesOK(S, use.numbers, nextWorkspace) /\ app.terminals = PanesAll(S)
      /\ app.previous.ws < nextWorkspace /\ app.previous.pane < nextPane
      /\ \A p \in app.terminals : p \in 1 .. nextPane - 1
  BY DEF AppInv, AppOK
<1>2. use.numbers \in Nat /\ nextPane \in Nat /\ nextWorkspace \in Nat
  BY Bounds
<1> HIDE DEF S
<1>3. ToSet(rest) \subseteq ToSet(S)
  BY DEF S
<1>4. DOMAIN rest = 1 .. Len(rest) /\ Len(rest) \in Nat
  OBVIOUS
<1>5. x \in Nat /\ y \in Nat /\ 0 \notin DOMAIN rest
  BY <1>4
<1>6. z = IF y = 0 THEN 1 ELSE y
  BY <1>5, MaxOne
<1> HIDE DEF z
<1>7. z \in Nat
  BY <1>5, <1>6
<1>8. /\ b \in AppRecord /\ b.workspaces = rest /\ b.active = x /\ b.selected = z /\ b.aliases = app.aliases
      /\ b.terminals = app.terminals /\ b.previous = app.previous
  BY <1>1, <1>5, <1>7 DEF AppRecord
<1> HIDE DEF b
<1>9. SpacesOK(rest, use.numbers, nextWorkspace)
  BY <1>1, <1>2, <1>3, SpacesPicked
<1>10. Follows(S, rest, {}, nextPane, nextWorkspace)
  BY <1>1, <1>2, <1>3, FollowsPicked
<1>11. PanesAll(rest) \subseteq PanesAll(S)
  BY <1>3, PanesPicked
<1>12. app.terminals = PanesAll(rest) \cup X
  BY <1>1, <1>11
<1> HIDE DEF X
<1>13. AppOK(b, X, use.numbers, nextPane, nextWorkspace)
  BY <1>1, <1>8, <1>9, <1>12 DEF AppOK
<1>14. ViewOK(b, Takes("lose"))
  <2>1. CASE rest = <<>>
    BY <1>6, <1>8, <2>1 DEF ViewOK
  <2>2. CASE rest # <<>>
    <3>1. 1 \in DOMAIN rest
      BY <1>4, <2>2
    <3>2. QED
      BY <1>5, <1>6, <1>8, <2>2, <3>1 DEF ViewOK
  <2>3. QED
    BY <2>1, <2>2
<1>15. QED
  BY <1>8, <1>10, <1>13, <1>14 DEF IsLeft, b, z, X, S

\* Then what was recorded of their panes goes.
LEMMA DoneLeft ==
    ASSUME AppInv, NEW rest, NEW x, NEW y, NEW b, IsLeft(rest, x, y, b), NEW P,
           PanesAll(app.workspaces) \ PanesAll(rest) \subseteq P
    PROVE  Done(Forget(b, P), {}, nextPane, nextWorkspace)
<1> DEFINE X == PanesAll(app.workspaces) \ PanesAll(rest)
           c == Forget(b, P)
<1>1. /\ b.workspaces = rest /\ b.aliases = app.aliases
      /\ AppOK(b, X, use.numbers, nextPane, nextWorkspace)
      /\ Follows(app.workspaces, rest, {}, nextPane, nextWorkspace) /\ ViewOK(b, Takes("lose"))
  BY DEF IsLeft
<1>2. use.numbers \in Nat /\ nextPane \in Nat \ {0} /\ nextWorkspace \in Nat \ {0}
  BY Bounds
<1>3. X \subseteq P
  OBVIOUS
<1> HIDE DEF X
<1>4. /\ AppOK(c, {}, use.numbers, nextPane, nextWorkspace) /\ c.workspaces = b.workspaces /\ c.active = b.active
      /\ c.selected = b.selected /\ c.aliases = b.aliases
  BY <1>1, <1>2, <1>3, ForgetOK
<1> HIDE DEF c
<1>5. ViewOK(c, Takes("lose"))
  BY <1>1, <1>4 DEF ViewOK
<1>6. Done(c, {}, nextPane, nextWorkspace)
  BY <1>1, <1>4, <1>5, AliasesSame DEF Done
<1>7. QED
  BY <1>6 DEF c

LEMMA ClipFacts ==
    ASSUME NEW i \in Nat \ {0}, NEW n \in Nat \ {0}
    PROVE  Clip(i, n) \in 1 .. n
BY DEF Clip

\* close_selected_workspace.
LEMMA DoneCloseWorkspace ==
    ASSUME AppInv, NEW i \in Indices(app)
    PROVE  Done(CloseWorkspaceOf(app, i), {}, nextPane, nextWorkspace)
<1> DEFINE S == app.workspaces
           gone == {S[j].id : j \in Group(app, i)}
           K == {j \in Indices(app) : S[j].id \notin gone}
           rest == Only(S, K)
           kept == Found(rest, app.active # 0, S[app.active].id)
           at == IF rest = <<>> THEN 0 ELSE IF kept # 0 THEN kept ELSE Clip(i, Len(rest))
           b == [app EXCEPT !.workspaces = rest, !.active = at, !.selected = Max({at, 1})]
           P == AllPanes(app) \ AllPanes(b)
<1>1. CloseWorkspaceOf(app, i) = Forget(b, P)
  BY Zenon DEF CloseWorkspaceOf, Found
<1>2. S \in Seq(SpaceRecord) /\ SpacesOK(S, use.numbers, nextWorkspace)
  BY AppFields DEF AppInv, AppOK
<1>3. Once(S)
  BY <1>2, SpacesApart
<1>4. K \subseteq 1 .. Len(S) /\ i \in 1 .. Len(S)
  BY <1>2 DEF Indices
<1> HIDE DEF S, K
<1>5. rest \in Seq(SpaceRecord) /\ Once(rest)
  BY <1>2, <1>3, <1>4, OnlyFacts
<1>6. ToSet(rest) \subseteq ToSet(S)
  <2>1. ToSet(rest) = {S[k] : k \in K}
    BY <1>2, <1>3, <1>4, OnlySet
  <2>2. QED
    BY <1>2, <1>4, <2>1 DEF ToSet
<1> HIDE DEF rest
<1>7. kept \in DOMAIN rest \/ kept = 0
  <2> DEFINE c == app.active # 0
             id == S[app.active].id
  <2>1. c \in BOOLEAN
    OBVIOUS
  <2> HIDE DEF c, id
  <2>2. Finds(rest, c, id, Found(rest, c, id))
    BY <1>5, <2>1, FoundFacts
  <2>3. Found(rest, c, id) \in DOMAIN rest \/ Found(rest, c, id) = 0
    BY <2>2 DEF Finds
  <2>4. QED
    BY <2>3, Zenon DEF c, id
<1> HIDE DEF kept
<1>8. IF rest = <<>> THEN at = 0 ELSE at \in DOMAIN rest
  <2>1. DOMAIN rest = 1 .. Len(rest) /\ Len(rest) \in Nat /\ i \in Nat \ {0}
    BY <1>4, <1>5
  <2>2. CASE rest # <<>>
    <3>1. Len(rest) \in Nat \ {0}
      BY <1>5, <2>2
    <3>2. Clip(i, Len(rest)) \in DOMAIN rest
      BY <2>1, <3>1, ClipFacts
    <3>3. QED
      BY <1>7, <2>2, <3>2
  <2>3. QED
    BY <2>2
<1> HIDE DEF at
<1>9. IsLeft(rest, at, at, b)
  BY <1>5, <1>6, <1>8, LeftIs DEF S
<1> HIDE DEF b
<1>10. PanesAll(app.workspaces) \ PanesAll(rest) \subseteq P
  BY <1>9, AllPanesIn DEF IsLeft
<1> HIDE DEF P
<1>11. Done(Forget(b, P), {}, nextPane, nextWorkspace)
  BY <1>9, <1>10, DoneLeft
<1>12. QED
  BY <1>1, <1>11

LEMMA CloseWorkspaceStep ==
    ASSUME AppInv, NEW i \in Indices(app), CloseWorkspace(i)
    PROVE  Stepped({})
<1>1. /\ app' = CloseWorkspaceOf(app, i)
      /\ overlays' = overlays /\ nextPane' = nextPane /\ nextWorkspace' = nextWorkspace
  BY DEF CloseWorkspace, Keep
<1>2. Done(app', {}, nextPane, nextWorkspace)
  BY <1>1, DoneCloseWorkspace
<1>3. QED
  BY <1>1, <1>2, SteppedInPlace

\* A workspace keeps some of its panes; b is the app before what was recorded of
\* the other ones, P, goes.
IsShrunk(i, w, P, b) ==
    /\ AppOK(b, P, use.numbers, nextPane, nextWorkspace)
    /\ Follows(app.workspaces, b.workspaces, {}, nextPane, nextWorkspace)
    /\ IsPut(app, i, w, app.terminals, b)

LEMMA ShrunkIs ==
    ASSUME AppInv, NEW i \in Indices(app), NEW w, NEW P, P \subseteq PanesIn(app.workspaces[i].tabs),
           Loses(app.workspaces[i], P, w, use.numbers), w.tabs # <<>>
    PROVE  IsShrunk(i, w, P, [app EXCEPT !.workspaces[i] = w])
<1> DEFINE v == app.workspaces[i]
           b == AppPut(app, i, w, app.terminals)
<1>1. /\ i \in DOMAIN app.workspaces /\ AppOK(app, {}, use.numbers, nextPane, nextWorkspace)
  BY Space
<1>2. use.numbers \in Nat /\ nextPane \in Nat /\ nextWorkspace \in Nat
  BY Bounds
<1>3. app \in AppRecord /\ app.terminals \in SUBSET Nat
  BY <1>1, AppFields DEF AppOK
<1>4. SpaceOK(w, {}, use.numbers) /\ Kin(v, w) /\ PanesIn(w.tabs) = PanesIn(v.tabs) \ P
  BY DEF Loses
<1>5. w \in SpaceRecord
  BY <1>4 DEF SpaceOK
<1>6. [app EXCEPT !.workspaces[i] = w] = b
  BY <1>1, <1>3, AppPutSame
<1>7. IsPut(app, i, w, app.terminals, b)
  BY <1>1, <1>3, <1>5, AppPutFields
<1>8. AppOK(b, P, use.numbers, nextPane, nextWorkspace) /\ Follows(app.workspaces, b.workspaces, {}, nextPane, nextWorkspace)
  BY <1>1, <1>2, <1>4, ShrunkOK
<1>9. QED
  BY <1>6, <1>7, <1>8 DEF IsShrunk

LEMMA DoneShrunk ==
    ASSUME AppInv, NEW i \in Indices(app), NEW w, NEW P, NEW b, IsShrunk(i, w, P, b)
    PROVE  Done(Forget(b, P), {}, nextPane, nextWorkspace)
<1> DEFINE c == Forget(b, P)
<1>1. i \in DOMAIN app.workspaces
  BY Space
<1>2. use.numbers \in Nat /\ nextPane \in Nat \ {0} /\ nextWorkspace \in Nat \ {0}
  BY Bounds
<1>3. /\ AppOK(b, P, use.numbers, nextPane, nextWorkspace)
      /\ Follows(app.workspaces, b.workspaces, {}, nextPane, nextWorkspace)
      /\ b.active = app.active /\ b.selected = app.selected /\ b.aliases = app.aliases
      /\ DOMAIN b.workspaces = DOMAIN app.workspaces
  BY DEF IsShrunk, IsPut
<1>4. /\ AppOK(c, {}, use.numbers, nextPane, nextWorkspace) /\ c.workspaces = b.workspaces /\ c.active = b.active
      /\ c.selected = b.selected /\ c.aliases = b.aliases
  BY <1>2, <1>3, ForgetOK
<1> HIDE DEF c
<1>5. Done(c, {}, nextPane, nextWorkspace)
  BY <1>1, <1>3, <1>4, DoneSame
<1>6. QED
  BY <1>5 DEF c

\* confirm_implicit_worktree_group_close.
LEMMA DoneAskFirst ==
    ASSUME AppInv, NEW i \in Indices(app), AskFirst(i)
    PROVE  Done(app', {}, nextPane, nextWorkspace)
<1>1. app' = [app EXCEPT !.selected = i]
  BY DEF AskFirst
<1>2. /\ i \in DOMAIN app.workspaces /\ AppOK(app, {}, use.numbers, nextPane, nextWorkspace)
  BY Space
<1>3. use.numbers \in Nat /\ nextPane \in Nat /\ nextWorkspace \in Nat
  BY Bounds
<1>4. app \in AppRecord /\ DOMAIN app.workspaces = 1 .. Len(app.workspaces) /\ app.workspaces \in Seq(SpaceRecord)
  BY <1>2, AppFields DEF AppOK
<1>5. i \in Nat
  BY <1>2, <1>4
<1>6. /\ app' \in AppRecord /\ (app').workspaces = app.workspaces /\ (app').active = app.active
      /\ (app').selected = i /\ (app').aliases = app.aliases /\ (app').terminals = app.terminals
      /\ (app').previous = app.previous
  BY <1>1, <1>4, <1>5 DEF AppRecord
<1>7. AppOK(app', {}, use.numbers, nextPane, nextWorkspace)
  BY <1>2, <1>6 DEF AppOK
<1>8. ViewOK(app', Takes("lose"))
  BY <1>2, <1>6 DEF AppInv, ViewOK
<1>9. Follows(app.workspaces, (app').workspaces, {}, nextPane, nextWorkspace)
  <2>1. SpacesOK(app.workspaces, use.numbers, nextWorkspace)
    BY <1>2 DEF AppOK
  <2>2. QED
    BY <1>3, <1>6, <2>1, FollowsPicked
<1>10. QED
  BY <1>6, <1>7, <1>8, <1>9, AliasesSame DEF Done

LEMMA CloseTabOfStep ==
    ASSUME AppInv, NEW i \in Indices(app), NEW t, CloseTabOf(i, t)
    PROVE  Stepped({})
<1> DEFINE v == app.workspaces[i]
           w == CloseTab(v, t)
           P == v.tabs[t].panes
           b == [app EXCEPT !.workspaces[i] = w]
<1>1. /\ t \in DOMAIN v.tabs
      /\ overlays' = overlays /\ nextPane' = nextPane /\ nextWorkspace' = nextWorkspace
      /\ \/ Len(v.tabs) > 1 /\ app' = Forget(b, P)
         \/ AskFirst(i)
         \/ app' = CloseWorkspaceOf(app, i)
  BY DEF CloseTabOf, Keep
<1>2. CASE Len(v.tabs) > 1 /\ app' = Forget(b, P)
  <2>1. SpaceOK(v, {}, use.numbers)
    BY Space
  <2>2. use.numbers \in Nat
    BY Bounds
  <2>3. P \subseteq PanesIn(v.tabs)
    BY <1>1, PanesInFacts
  <2>4. Loses(v, P, w, use.numbers) /\ Len(w.tabs) = Len(v.tabs) - 1
    <3> HIDE DEF v
    <3>1. QED
      BY <1>1, <2>1, <2>2, CloseTabOK
  <2> HIDE DEF w, P
  <2>5. w.tabs # <<>>
    <3>1. Len(v.tabs) \in Nat
      BY <2>1, SpaceFields DEF SpaceOK
    <3>0. Len(v.tabs) > 1 /\ Len(w.tabs) = Len(v.tabs) - 1
      BY <1>2, <2>4
    <3> DEFINE m == Len(v.tabs)
               n == Len(w.tabs)
    <3>4. m \in Nat /\ m > 1 /\ n = m - 1
      BY <3>0, <3>1
    <3> HIDE DEF m, n
    <3>5. n # 0
      BY <3>4
    <3>2. Len(w.tabs) # 0
      BY <3>5 DEF n
    <3>3. QED
      BY <3>2
  <2>6. IsShrunk(i, w, P, b)
    BY <2>3, <2>4, <2>5, ShrunkIs
  <2> HIDE DEF b
  <2>7. Done(app', {}, nextPane, nextWorkspace)
    BY <1>2, <2>6, DoneShrunk
  <2>8. QED
    BY <1>1, <2>7, SteppedInPlace
<1>3. CASE AskFirst(i)
  BY <1>1, <1>3, DoneAskFirst, SteppedInPlace
<1>4. CASE app' = CloseWorkspaceOf(app, i)
  BY <1>1, <1>4, DoneCloseWorkspace, SteppedInPlace
<1>5. QED
  BY <1>1, <1>2, <1>3, <1>4

LEMMA ClosePaneOfStep ==
    ASSUME AppInv, NEW i \in Indices(app), NEW p \in PanesOf(app.workspaces[i]), ClosePaneOf(i, p)
    PROVE  Stepped({})
<1> DEFINE v == app.workspaces[i]
           w == ClosePane(v, p)
           P == {p}
           b == [app EXCEPT !.workspaces[i] = w]
<1>1. /\ overlays' = overlays /\ nextPane' = nextPane /\ nextWorkspace' = nextWorkspace
      /\ \/ ~LastPane(v, p) /\ app' = Forget(b, P)
         \/ AskFirst(i)
         \/ app' = CloseWorkspaceOf(app, i)
  BY DEF ClosePaneOf, Keep
<1>2. CASE ~LastPane(v, p) /\ app' = Forget(b, P)
  <2>1. SpaceOK(v, {}, use.numbers) /\ p \in PanesIn(v.tabs)
    BY Space
  <2>2. use.numbers \in Nat
    BY Bounds
  <2>3. P \subseteq PanesIn(v.tabs)
    BY <2>1
  <2>4. Loses(v, P, w, use.numbers) /\ (w.tabs = <<>> <=> LastPane(v, p))
    <3> HIDE DEF v
    <3>1. QED
      BY <2>1, <2>2, ClosePaneOK
  <2> HIDE DEF w, P
  <2>5. w.tabs # <<>>
    BY <1>2, <2>4
  <2>6. IsShrunk(i, w, P, b)
    BY <2>3, <2>4, <2>5, ShrunkIs
  <2> HIDE DEF b
  <2>7. Done(app', {}, nextPane, nextWorkspace)
    BY <1>2, <2>6, DoneShrunk
  <2>8. QED
    BY <1>1, <2>7, SteppedInPlace
<1>3. CASE AskFirst(i)
  BY <1>1, <1>3, DoneAskFirst, SteppedInPlace
<1>4. CASE app' = CloseWorkspaceOf(app, i)
  BY <1>1, <1>4, DoneCloseWorkspace, SteppedInPlace
<1>5. QED
  BY <1>1, <1>2, <1>3, <1>4

\* The workspace of a pane.
LEMMA WorkspaceOfFacts ==
    ASSUME NEW T, NEW a, a.workspaces \in Seq(T), NEW p \in AllPanes(a)
    PROVE  LET i == WorkspaceOf(a, p) IN i \in DOMAIN a.workspaces /\ p \in PanesIn(a.workspaces[i].tabs)
<1> DEFINE S == a.workspaces
           P == {k \in 1 .. Len(S) : p \in PanesOf(S[k])}
<1>1. WorkspaceOf(a, p) = IF P # {} THEN Min(P) ELSE 0
  BY DEF WorkspaceOf, SelectInSeq
<1>2. Len(S) \in Nat /\ DOMAIN S = 1 .. Len(S)
  OBVIOUS
<1>3. P # {}
  <2>1. PICK k \in DOMAIN S : p \in PanesIn(S[k].tabs)
    BY AllPanesIn, PanesAllFacts
  <2>2. p \in PanesOf(S[k])
    BY <2>1, PanesOfIn
  <2>3. QED
    BY <1>2, <2>2
<1>4. Min(P) \in P
  BY <1>2, <1>3, FirstPosition
<1>5. QED
  BY <1>1, <1>2, <1>3, <1>4, PanesOfIn

\* A workspace that has no more than one pane.
LEMMA LastPaneAlone ==
    ASSUME NEW w, NEW N \in Nat, SpaceOK(w, {}, N), NEW p \in PanesIn(w.tabs), LastPane(w, p)
    PROVE  \A q \in PanesIn(w.tabs) : q = p
<1> DEFINE b == ClosePane(w, p)
<1>1. Loses(w, {p}, b, N) /\ b.tabs = <<>>
  BY ClosePaneOK
<1> HIDE DEF b
<1>2. PanesIn(b.tabs) = PanesIn(w.tabs) \ {p}
  BY <1>1 DEF Loses
<1>3. PanesIn(b.tabs) = {}
  BY <1>1 DEF PanesIn
<1>4. QED
  BY <1>2, <1>3

LEMMA ForgetFields ==
    ASSUME NEW a \in AppRecord, NEW P
    PROVE  Forget(a, P).workspaces = a.workspaces /\ Forget(a, P).aliases = a.aliases
BY DEF Forget, AppRecord

\* handle_pane_died forgets the aliases of the pane.
Unalias(c, p) == [c EXCEPT !.aliases = [k \in {k \in DOMAIN c.aliases : c.aliases[k] # p} |-> c.aliases[k]]]

LEMMA DoneUnalias ==
    ASSUME AppInv, NEW c, Done(c, {}, nextPane, nextWorkspace), c.aliases = app.aliases,
           NEW p, p \notin PanesAll(c.workspaces)
    PROVE  Done(Unalias(c, p), {}, nextPane, nextWorkspace)
<1> DEFINE D == {k \in DOMAIN c.aliases : c.aliases[k] # p}
           f == [k \in D |-> c.aliases[k]]
           d == Unalias(c, p)
<1>1. /\ AppOK(c, {}, use.numbers, nextPane, nextWorkspace) /\ ViewOK(c, Takes("lose"))
      /\ Follows(app.workspaces, c.workspaces, {}, nextPane, nextWorkspace) /\ c \in AppRecord
  BY DEF Done, AppOK
<1>2. f \in AliasMap
  <2>1. c.aliases \in AliasMap
    BY <1>1, AppFields
  <2>2. PICK E \in SUBSET [ws : Nat, number : Nat] : c.aliases \in [E -> Nat]
    BY <2>1 DEF AliasMap
  <2>3. D \in SUBSET [ws : Nat, number : Nat] /\ f \in [D -> Nat]
    BY <2>2
  <2> HIDE DEF f, D
  <2>4. QED
    BY <2>3 DEF AliasMap
<1>3. DOMAIN f = D /\ \A k \in D : f[k] = c.aliases[k]
  OBVIOUS
<1>4. d = [c EXCEPT !.aliases = f]
  BY DEF Unalias
<1> HIDE DEF f, d
<1>5. /\ d \in AppRecord /\ d.workspaces = c.workspaces /\ d.active = c.active /\ d.selected = c.selected
      /\ d.aliases = f /\ d.terminals = c.terminals /\ d.previous = c.previous
  BY <1>1, <1>2, <1>4 DEF AppRecord
<1>6. AppOK(d, {}, use.numbers, nextPane, nextWorkspace)
  BY <1>1, <1>5 DEF AppOK
<1>7. ViewOK(d, Takes("lose"))
  BY <1>1, <1>5 DEF ViewOK
<1>8. AliasesFollow(app, d, {})
  <2>1. \A k \in DOMAIN app.aliases : app.aliases[k] \in PanesAll(d.workspaces) => k \in DOMAIN d.aliases
    BY <1>3, <1>5
  <2>2. \A k \in DOMAIN d.aliases : k \in DOMAIN app.aliases /\ d.aliases[k] = app.aliases[k]
    BY <1>3, <1>5
  <2>3. QED
    BY <2>1, <2>2 DEF AliasesFollow
<1>9. Done(d, {}, nextPane, nextWorkspace)
  BY <1>1, <1>5, <1>6, <1>7, <1>8 DEF Done
<1>10. QED
  BY <1>9 DEF d

LEMMA DoneDied ==
    ASSUME AppInv, NEW p \in AllPanes(app)
    PROVE  Done(Died(app, p), {}, nextPane, nextWorkspace)
<1> DEFINE S == app.workspaces
           i == WorkspaceOf(app, p)
           v == S[i]
           rest == RemoveAt(S, i)
           kept(k) == Found(rest, k # 0, S[k].id)
           at(k) == IF kept(k) # 0 THEN kept(k) ELSE Clip(k, Len(rest))
           x == at(app.active)
           y == at(app.selected)
           w == ClosePane(v, p)
           P == {p}
           b1 == [app EXCEPT !.workspaces = rest, !.active = x, !.selected = Max({y, 1})]
           b2 == [app EXCEPT !.workspaces[i] = w]
           b == IF LastPane(v, p) THEN b1 ELSE b2
           c == Forget(b, P)
<1>1. Died(app, p) = Unalias(c, p)
  BY Zenon DEF Died, Found, Unalias
<1>2. /\ S \in Seq(SpaceRecord) /\ SpacesOK(S, use.numbers, nextWorkspace) /\ app \in AppRecord
      /\ DOMAIN S = 1 .. Len(S) /\ Len(S) \in Nat
  BY AppFields DEF AppInv, AppOK
<1>3. i \in DOMAIN S /\ p \in PanesIn(v.tabs)
  BY <1>2, WorkspaceOfFacts
<1> HIDE DEF i
<1>4. i \in Indices(app)
  BY <1>3 DEF Indices
<1>5. SpaceOK(v, {}, use.numbers)
  BY <1>4, Space
<1>6. use.numbers \in Nat /\ nextWorkspace \in Nat
  BY Bounds
<1>7. CASE LastPane(v, p)
  <2>1. \A q \in PanesIn(v.tabs) : q = p
    <3> HIDE DEF v
    <3>1. QED
      BY <1>3, <1>5, <1>6, <1>7, LastPaneAlone
  <2>2. /\ SpacesOK(rest, use.numbers, nextWorkspace) /\ PanesAll(rest) = PanesAll(S) \ PanesIn(S[i].tabs)
        /\ ToSet(rest) = ToSet(S) \ {S[i]}
    BY <1>2, <1>3, <1>6, SpacesRemoved
  <2>3. Once(rest) /\ rest \in Seq(SpaceRecord)
    BY <2>2, SpacesApart DEF SpacesOK
  <2>4. ToSet(rest) \subseteq ToSet(S)
    BY <2>2
  <2>5. p \notin PanesAll(rest) /\ PanesAll(S) \ PanesAll(rest) \subseteq P
    BY <1>3, <2>1, <2>2
  <2> HIDE DEF rest, P
  <2>6. ASSUME NEW k \in Nat
        PROVE  IF rest = <<>> THEN at(k) = 0
               ELSE at(k) \in DOMAIN rest \cup {0} /\ (k # 0 => at(k) \in DOMAIN rest)
    <3> DEFINE q == k # 0
               id == S[k].id
    <3>1. q \in BOOLEAN
      OBVIOUS
    <3> HIDE DEF q, id, S
    <3>2. Finds(rest, q, id, Found(rest, q, id))
      BY <2>3, <3>1, FoundFacts
    <3>3. Finds(rest, q, id, kept(k))
      BY <3>2, Zenon DEF q, id
    <3>4. kept(k) \in DOMAIN rest \/ kept(k) = 0
      BY <3>3 DEF Finds
    <3> HIDE DEF kept
    <3>5. DOMAIN rest = 1 .. Len(rest) /\ Len(rest) \in Nat
      BY <2>3
    <3>6. CASE rest = <<>>
      <4>1. Len(rest) = 0
        BY <3>6
      <4>2. kept(k) = 0 /\ Clip(k, Len(rest)) = 0
        BY <3>4, <3>5, <4>1 DEF Clip
      <4>3. QED
        BY <3>6, <4>2
    <3>7. CASE rest # <<>>
      <4>1. Len(rest) \in Nat \ {0}
        BY <2>3, <3>7
      <4>2. k # 0 => Clip(k, Len(rest)) \in DOMAIN rest
        BY <3>5, <4>1, ClipFacts
      <4>3. k = 0 => Clip(k, Len(rest)) = 0
        BY <3>5 DEF Clip
      <4>4. QED
        BY <3>4, <3>7, <4>2, <4>3
    <3>8. QED
      BY <3>6, <3>7
  <2>7. IF rest = <<>> THEN x = 0 /\ y = 0
        ELSE y \in DOMAIN rest \cup {0} /\ (x \in DOMAIN rest \/ (x = 0 /\ Takes("lose")))
    <3>1. app.active \in Nat /\ app.selected \in Nat
      BY <1>2, AppFields
    <3>2. app.active # 0 \/ Takes("lose")
      <4>1. ViewOK(app, Takes("lose"))
        BY DEF AppInv
      <4>2. S # <<>>
        BY <1>2, <1>3
      <4>3. 0 \notin DOMAIN S
        BY <1>2
      <4>4. QED
        BY <4>1, <4>2, <4>3 DEF ViewOK
    <3> HIDE DEF at
    <3>3. IF rest = <<>> THEN x = 0
          ELSE x \in DOMAIN rest \cup {0} /\ (app.active # 0 => x \in DOMAIN rest)
      BY <2>6, <3>1
    <3>4. IF rest = <<>> THEN y = 0 ELSE y \in DOMAIN rest \cup {0}
      BY <2>6, <3>1
    <3>5. QED
      BY <3>2, <3>3, <3>4
  <2> HIDE DEF x, y
  <2>8. IsLeft(rest, x, y, b1)
    BY <2>3, <2>4, <2>7, LeftIs
  <2> HIDE DEF b1
  <2>9. b = b1
    BY <1>7
  <2>10. Done(Forget(b1, P), {}, nextPane, nextWorkspace)
    BY <2>5, <2>8, DoneLeft
  <2>11. b1 \in AppRecord /\ b1.workspaces = rest /\ b1.aliases = app.aliases
    BY <2>8 DEF IsLeft, AppOK
  <2>12. c.workspaces = rest /\ c.aliases = app.aliases
    BY <2>9, <2>11, ForgetFields
  <2> HIDE DEF c
  <2>13. Done(Unalias(c, p), {}, nextPane, nextWorkspace)
    BY <2>5, <2>9, <2>10, <2>12, DoneUnalias DEF c
  <2>14. QED
    BY <1>1, <2>13
<1>8. CASE ~LastPane(v, p)
  <2>1. P \subseteq PanesIn(v.tabs)
    BY <1>3
  <2>2. Loses(v, P, w, use.numbers) /\ (w.tabs = <<>> <=> LastPane(v, p))
    <3> HIDE DEF v
    <3>1. QED
      BY <1>3, <1>5, <1>6, ClosePaneOK
  <2>3. w.tabs # <<>>
    BY <1>8, <2>2
  <2> HIDE DEF w
  <2>4. IsShrunk(i, w, P, b2)
    <3> HIDE DEF P
    <3>1. QED
      BY <1>4, <2>1, <2>2, <2>3, ShrunkIs
  <2>5. b = b2
    BY <1>8
  <2> HIDE DEF b2
  <2>6. Done(Forget(b2, P), {}, nextPane, nextWorkspace)
    BY <1>4, <2>4, DoneShrunk
  <2>7. /\ b2 \in AppRecord /\ b2.aliases = app.aliases
        /\ b2.workspaces = [S EXCEPT ![i] = w] /\ AppOK(b2, P, use.numbers, nextPane, nextWorkspace)
    BY <2>4 DEF IsShrunk, IsPut
  <2>8. p \notin PanesAll(b2.workspaces)
    <3>1. SUFFICES ASSUME NEW j \in DOMAIN S, p \in PanesIn((b2.workspaces)[j].tabs) PROVE FALSE
      BY <2>7, PanesAllFacts
    <3>2. CASE j = i
      <4>1. PanesIn(w.tabs) = PanesIn(v.tabs) \ P
        BY <2>2 DEF Loses
      <4>2. (b2.workspaces)[j] = w
        BY <2>7, <3>2
      <4>3. QED
        BY <3>1, <4>1, <4>2
    <3>3. CASE j # i
      <4>1. (b2.workspaces)[j] = S[j]
        BY <2>7, <3>3
      <4>2. QED
        BY <1>2, <1>3, <3>1, <3>3, <4>1, SpacesApart
    <3>4. QED
      BY <3>2, <3>3
  <2>9. c.workspaces = b2.workspaces /\ c.aliases = app.aliases
    BY <2>5, <2>7, ForgetFields
  <2> HIDE DEF c
  <2>10. Done(Unalias(c, p), {}, nextPane, nextWorkspace)
    BY <2>5, <2>6, <2>8, <2>9, DoneUnalias DEF c
  <2>11. QED
    BY <1>1, <2>10
<1>9. QED
  BY <1>7, <1>8

\* A workspace of the app after a step changes further, and keeps its panes.
IsKept(v, w) ==
    SpaceOK(w, {}, use.numbers) /\ Kin(v, w) /\ w.tabs # <<>> /\ PanesIn(w.tabs) = PanesIn(v.tabs)

LEMMA DoneKept ==
    ASSUME AppInv, NEW np \in Nat, nextPane <= np, NEW nw \in Nat, nextWorkspace <= nw, NEW M,
           NEW b, Done(b, M, np, nw), NEW i \in DOMAIN b.workspaces, NEW w, IsKept(b.workspaces[i], w)
    PROVE  Done([b EXCEPT !.workspaces[i] = w], M, np, nw)
<1> DEFINE S == b.workspaces
           T == b.terminals
           c == AppPut(b, i, w, T)
<1>1. /\ AppOK(b, {}, use.numbers, np, nw) /\ ViewOK(b, Takes("lose"))
      /\ Follows(app.workspaces, S, M, nextPane, nextWorkspace) /\ AliasesFollow(app, b, M)
      /\ b \in AppRecord /\ T \in SUBSET Nat /\ b.previous.ws < nw /\ b.previous.pane < np
      /\ DOMAIN S = 1 .. Len(S) /\ Len(S) \in Nat
  BY AppFields DEF Done, AppOK
<1>2. use.numbers \in Nat /\ nextPane \in Nat /\ nextWorkspace \in Nat
  BY Bounds
<1>3. /\ SpaceOK(w, {}, use.numbers) /\ Kin(S[i], w) /\ w.tabs # <<>> /\ PanesIn(w.tabs) = PanesIn(S[i].tabs)
  BY DEF IsKept
<1>4. w \in SpaceRecord
  BY <1>3 DEF SpaceOK
<1>5. [b EXCEPT !.workspaces[i] = w] = c
  BY <1>1, AppPutSame
<1>6. IsPut(b, i, w, T, c)
  BY <1>1, <1>4, AppPutFields
<1> HIDE DEF c, T
<1>7. /\ c \in AppRecord /\ c.workspaces = [S EXCEPT ![i] = w] /\ c.terminals = b.terminals
      /\ c.active = b.active /\ c.selected = b.selected /\ c.aliases = b.aliases
      /\ c.previous = b.previous /\ DOMAIN c.workspaces = DOMAIN S
  BY <1>6 DEF IsPut, T
<1>8. /\ AppOK(c, {}, use.numbers, np, nw) /\ Follows(S, c.workspaces, {}, np, nw)
      /\ PanesAll(c.workspaces) = PanesAll(S)
  <2>1. /\ c.previous.ws < nw /\ c.previous.pane < np /\ c \in AppRecord /\ AppOK(b, {}, use.numbers, np, nw)
        /\ c.workspaces = [b.workspaces EXCEPT ![i] = w] /\ c.terminals = b.terminals
    BY <1>1, <1>7
  <2>2. /\ Kin(b.workspaces[i], w) /\ PanesIn(w.tabs) = PanesIn(b.workspaces[i].tabs) /\ i \in DOMAIN b.workspaces
    BY <1>3
  <2> DEFINE N == use.numbers
  <2>3. N \in Nat /\ AppOK(b, {}, N, np, nw) /\ SpaceOK(w, {}, N) /\ w.tabs # <<>>
    BY <1>2, <1>3, <2>1
  <2> HIDE DEF N
  <2>4. /\ AppOK(c, {}, N, np, nw) /\ Follows(b.workspaces, c.workspaces, {}, np, nw)
        /\ PanesAll(c.workspaces) = PanesAll(b.workspaces)
    BY <2>1, <2>2, <2>3, TouchOK
  <2>5. QED
    BY <2>4 DEF N
<1>9. AppOK(app, {}, use.numbers, nextPane, nextWorkspace)
  BY DEF AppInv
<1>10. Follows(app.workspaces, c.workspaces, M, nextPane, nextWorkspace)
  BY <1>1, <1>2, <1>8, <1>9, FollowsThen
<1>11. ViewOK(c, Takes("lose"))
  <2>1. Len(S) # 0
    BY <1>1
  <2>2. QED
    BY <1>1, <1>7, <2>1, ViewSame
<1>12. AliasesFollow(app, c, M)
  BY <1>1, <1>7, <1>8 DEF AliasesFollow
<1>13. QED
  BY <1>5, <1>8, <1>10, <1>11, <1>12 DEF Done

\* One tab of a workspace is shown, another one changes and keeps its panes.
LEMMA ShownPut ==
    ASSUME NEW v, NEW N \in Nat, SpaceOK(v, {}, N), NEW x \in DOMAIN v.tabs, NEW t \in DOMAIN v.tabs,
           NEW u, TabOK(u), u.number = v.tabs[t].number, u.panes = v.tabs[t].panes
    PROVE  LET w == PutTab([v EXCEPT !.active_tab = x], t, u)
           IN  SpaceOK(w, {}, N) /\ Kin(v, w) /\ PanesIn(w.tabs) = PanesIn(v.tabs) /\ w.tabs # <<>>
<1> DEFINE d == [v EXCEPT !.active_tab = x]
           w == PutTab(d, t, u)
<1>1. /\ SpaceOK(d, {}, N) /\ d.tabs = v.tabs /\ d.next_pane = v.next_pane /\ d.numbers = v.numbers /\ d.id = v.id
  BY ShowTabOK
<1> HIDE DEF d
<1>2. t \in DOMAIN d.tabs /\ u.number = d.tabs[t].number /\ u.panes = d.tabs[t].panes /\ d \in SpaceRecord /\ u \in TabRecord
  BY <1>1 DEF SpaceOK, TabOK
<1>3. SpaceOK(w, {}, N) /\ PanesIn(w.tabs) = PanesIn(d.tabs) /\ w.tabs # <<>>
  BY <1>1, <1>2, TouchTabOK
<1>4. w.next_pane = d.next_pane /\ w.numbers = d.numbers /\ w.id = d.id
  BY <1>2, PutTabFacts
<1> HIDE DEF w
<1>5. v.next_pane \in Nat
  BY SpaceFields DEF SpaceOK
<1>6. Kin(v, w)
  BY <1>1, <1>4, <1>5, KinSame
<1>7. QED
  BY <1>1, <1>3, <1>6 DEF w, d

LEMMA RestoredTab ==
    ASSUME NEW t, TabOK(t), NEW focus, NEW zoomed \in BOOLEAN
    PROVE  LET f == IF focus \in t.panes THEN focus ELSE t.focus
               u == [t EXCEPT !.focus = f, !.zoomed = zoomed]
           IN  TabOK(u) /\ u.number = t.number /\ u.panes = t.panes
<1> DEFINE f == IF focus \in t.panes THEN focus ELSE t.focus
           u == [t EXCEPT !.focus = f, !.zoomed = zoomed]
<1>1. f \in t.panes
  BY DEF TabOK
<1> HIDE DEF f
<1>2. TabOK(u) /\ u.number = t.number /\ u.panes = t.panes
  <2> DEFINE b == [t EXCEPT !.focus = f, !.zoomed = zoomed]
  <2>1. f \in Nat /\ t \in TabRecord
    BY <1>1 DEF TabOK, TabRecord
  <2>2. /\ b \in TabRecord /\ b.number = t.number /\ b.panes = t.panes /\ b.layout = t.layout
        /\ b.focus = f /\ b.root = t.root
    BY <2>1 DEF TabRecord
  <2> HIDE DEF b
  <2>3. TabOK(b) /\ b.number = t.number /\ b.panes = t.panes
    BY <1>1, <2>2 DEF TabOK
  <2>4. QED
    BY <2>3 DEF b
<1>3. QED
  BY <1>2 DEF f

LEMMA DoneOverlay ==
    ASSUME AppInv, NEW b, Done(b, {}, nextPane, nextWorkspace), NEW p, NEW o, o.zoomed \in BOOLEAN
    PROVE  Done(RestoreOverlay(app, b, p, o), {}, nextPane, nextWorkspace)
<1> DEFINE i == o.ws_idx
           t == o.tab_idx
           there(s) == i \in Indices(s) /\ t \in DOMAIN s.workspaces[i].tabs
           before == app.workspaces[i]
           focused == there(app) /\ before.tabs[t].focus = p
           act == focused /\ app.active = i /\ before.active_tab = t
           v == b.workspaces[i]
           x == IF act THEN t ELSE v.active_tab
           tab == v.tabs[t]
           f == IF o.focus \in tab.panes THEN o.focus ELSE tab.focus
           u1 == [tab EXCEPT !.focus = f, !.zoomed = o.zoomed]
           zoomed == before.tabs[t].zoomed
           u2 == [tab EXCEPT !.zoomed = zoomed]
           w1 == PutTab([v EXCEPT !.active_tab = x], t, u1)
           w2 == PutTab(v, t, u2)
           c == RestoreOverlay(app, b, p, o)
<1>1. c = IF ~there(b) THEN b
          ELSE IF focused THEN [b EXCEPT !.workspaces[i] = w1]
          ELSE IF there(app) THEN [b EXCEPT !.workspaces[i] = w2]
          ELSE b
  BY Zenon DEF RestoreOverlay, PutTab
<1> HIDE DEF c
<1>2. CASE c = b
  BY <1>2 DEF c
<1>3. /\ AppOK(b, {}, use.numbers, nextPane, nextWorkspace)
      /\ SpacesOK(b.workspaces, use.numbers, nextWorkspace)
  BY DEF Done, AppOK
<1>4. /\ use.numbers \in Nat /\ nextPane \in Nat /\ nextWorkspace \in Nat
      /\ nextPane <= nextPane /\ nextWorkspace <= nextWorkspace
  BY Bounds
<1>5. ASSUME there(b)
      PROVE  i \in DOMAIN b.workspaces /\ t \in DOMAIN v.tabs /\ SpaceOK(v, {}, use.numbers) /\ TabOK(tab) /\ x \in DOMAIN v.tabs
  <2>1. i \in DOMAIN b.workspaces /\ t \in DOMAIN v.tabs
    BY <1>5 DEF Indices
  <2>2. SpaceOK(v, {}, use.numbers) /\ v.tabs # <<>>
    BY <1>3, <2>1 DEF SpacesOK
  <2>3. TabOK(tab) /\ v.active_tab \in DOMAIN v.tabs
    BY <2>1, <2>2 DEF SpaceOK, TabsOK
  <2>4. QED
    BY <2>1, <2>2, <2>3
<1>6. CASE there(b) /\ focused /\ c = [b EXCEPT !.workspaces[i] = w1]
  <2>1. TabOK(u1) /\ u1.number = tab.number /\ u1.panes = tab.panes
    <3>1. TabOK(tab)
      BY <1>5, <1>6
    <3> HIDE DEF tab
    <3>2. QED
      BY <3>1, RestoredTab
  <2>2. i \in DOMAIN b.workspaces /\ t \in DOMAIN v.tabs /\ SpaceOK(v, {}, use.numbers) /\ x \in DOMAIN v.tabs
    BY <1>5, <1>6
  <2>3. u1.number = v.tabs[t].number /\ u1.panes = v.tabs[t].panes
    BY <2>1
  <2> HIDE DEF u1, x, v
  <2>4. SpaceOK(w1, {}, use.numbers) /\ Kin(v, w1) /\ PanesIn(w1.tabs) = PanesIn(v.tabs) /\ w1.tabs # <<>>
    BY <1>4, <2>1, <2>2, <2>3, ShownPut
  <2> HIDE DEF w1
  <2>5. IsKept(v, w1)
    BY <2>4 DEF IsKept
  <2>6. Done([b EXCEPT !.workspaces[i] = w1], {}, nextPane, nextWorkspace)
    BY <1>4, <2>2, <2>5, DoneKept DEF v
  <2>7. QED
    BY <1>6, <2>6 DEF c
<1>7. CASE there(b) /\ there(app) /\ c = [b EXCEPT !.workspaces[i] = w2]
  <2>1. zoomed \in BOOLEAN
    <3>1. i \in Indices(app) /\ t \in DOMAIN before.tabs
      BY <1>7
    <3>2. SpaceOK(before, {}, use.numbers)
      BY <3>1, Space
    <3>3. TabOK(before.tabs[t])
      BY <3>1, <3>2 DEF SpaceOK, TabsOK
    <3>4. QED
      BY <3>3 DEF TabOK, TabRecord
  <2> HIDE DEF zoomed
  <2>2. TabOK(u2) /\ u2.number = tab.number /\ u2.panes = tab.panes
    <3>1. TabOK(tab)
      BY <1>5, <1>7
    <3> HIDE DEF tab
    <3>2. QED
      BY <2>1, <3>1, ZoomedOK
  <2>3. i \in DOMAIN b.workspaces /\ t \in DOMAIN v.tabs /\ SpaceOK(v, {}, use.numbers)
    BY <1>5, <1>7
  <2>4. u2.number = v.tabs[t].number /\ u2.panes = v.tabs[t].panes
    BY <2>2
  <2> HIDE DEF u2, v
  <2>5. SpaceOK(w2, {}, use.numbers) /\ Kin(v, w2) /\ PanesIn(w2.tabs) = PanesIn(v.tabs) /\ w2.tabs # <<>>
    BY <1>4, <2>2, <2>3, <2>4, TouchTabOK
  <2> HIDE DEF w2
  <2>6. IsKept(v, w2)
    BY <2>5 DEF IsKept
  <2>7. Done([b EXCEPT !.workspaces[i] = w2], {}, nextPane, nextWorkspace)
    BY <1>4, <2>3, <2>6, DoneKept DEF v
  <2>8. QED
    BY <1>7, <2>7 DEF c
<1>8. QED
  <2> HIDE DEF w1, w2
  <2>1. QED
    BY <1>1, <1>2, <1>6, <1>7

LEMMA PaneDiedStep ==
    ASSUME AppInv, NEW p, PaneDied(p)
    PROVE  Stepped({})
<1> DEFINE b == Died(app, p)
           o == overlays[p]
<1>1. /\ p \in AllPanes(app) /\ nextPane' = nextPane /\ nextWorkspace' = nextWorkspace
      /\ app' = IF p \in DOMAIN overlays THEN RestoreOverlay(app, b, p, o) ELSE b
      /\ overlays' = [q \in DOMAIN overlays \ {p} |-> overlays[q]]
  BY DEF PaneDied, Keep
<1>2. Done(b, {}, nextPane, nextWorkspace)
  BY <1>1, DoneDied
<1>3. OverlaysOK(overlays, nextPane)
  BY DEF AppInv
<1> HIDE DEF b
<1>4. Done(app', {}, nextPane, nextWorkspace)
  <2>1. CASE p \in DOMAIN overlays
    <3>1. o.zoomed \in BOOLEAN
      BY <1>3, <2>1 DEF OverlaysOK
    <3> HIDE DEF o
    <3>2. QED
      BY <1>1, <1>2, <2>1, <3>1, DoneOverlay
  <2>2. CASE p \notin DOMAIN overlays
    BY <1>1, <1>2, <2>2
  <2>3. QED
    BY <2>1, <2>2
<1>5. OverlaysOK(overlays', nextPane)
  BY <1>1, <1>3 DEF OverlaysOK
<1>6. nextPane \in nextPane .. use.panes + 1 /\ nextWorkspace \in nextWorkspace .. use.workspaces + 1
  BY Bounds
<1>7. QED
  BY <1>1, <1>4, <1>5, <1>6 DEF Stepped

\* The shell in place of a command comes with the focus.
LEMMA RespawnShellStep ==
    ASSUME AppInv, NEW p \in AllPanes(app), RespawnShell(p)
    PROVE  Stepped({}) /\ AllPanes(app') = AllPanes(app)
<1> DEFINE i == WorkspaceOf(app, p)
<1>1. /\ app' = FocusPane(app, i, p) /\ nextPane' = nextPane /\ nextWorkspace' = nextWorkspace
      /\ overlays' = [q \in DOMAIN overlays \ {p} |-> overlays[q]]
  BY DEF RespawnShell, Keep
<1>2. /\ AppOK(app, {}, use.numbers, nextPane, nextWorkspace) /\ OverlaysOK(overlays, nextPane)
      /\ app.workspaces \in Seq(SpaceRecord)
  BY AppFields DEF AppInv, AppOK
<1>3. i \in DOMAIN app.workspaces /\ p \in PanesIn(app.workspaces[i].tabs)
  BY <1>2, WorkspaceOfFacts
<1> HIDE DEF i
<1>4. Done(app', {}, nextPane, nextWorkspace)
  BY <1>1, <1>3, DoneFocus DEF Indices
<1>5. AllPanes(app') = AllPanes(app)
  <2>1. use.numbers \in Nat /\ nextPane \in Nat \ {0} /\ nextWorkspace \in Nat \ {0}
    BY Bounds
  <2>2. PanesAll(app'.workspaces) = PanesAll(app.workspaces)
    BY <1>1, <1>2, <1>3, <2>1, FocusPaneOK
  <2>3. QED
    BY <2>2, AllPanesIn
<1>6. OverlaysOK(overlays', nextPane)
  BY <1>1, <1>2 DEF OverlaysOK
<1>7. nextPane \in nextPane .. use.panes + 1 /\ nextWorkspace \in nextWorkspace .. use.workspaces + 1
  BY Bounds
<1>8. QED
  BY <1>1, <1>4, <1>5, <1>6, <1>7 DEF Stepped

-----------------------------------------------------------------------------
(* Moving a pane.                                                          *)

\* The workspace that a pane arrives in, in a tab of its own or beside another.
ArriveIn(v, beside, p, focus) ==
    IF beside = 0 THEN AddTab(v, p)
    ELSE Arrived(v, p, TabOf(v, beside), SplitTab(v.tabs[TabOf(v, beside)], beside, p, focus))

GainsPane(v, p, b) ==
    /\ SpaceOK(b, {}, use.numbers) /\ Kin(v, b) /\ b.tabs # <<>> /\ b.id = v.id
    /\ \A q : q \in PanesIn(b.tabs) <=> q \in PanesIn(v.tabs) \/ q = p

LEMMA ArriveInOK ==
    ASSUME AppInv, NEW v, NEW X, SpaceOK(v, X, use.numbers), NEW p \in Nat, X \subseteq {p}, p \notin PanesIn(v.tabs),
           p \in X \/ v.next_pane <= use.numbers, v.next_tab <= use.numbers, v.tabs = <<>> => v.active_tab = 1,
           NEW beside, beside # 0 => beside \in PanesIn(v.tabs), NEW focus
    PROVE  GainsPane(v, p, ArriveIn(v, beside, p, focus))
<1> DEFINE b == ArriveIn(v, beside, p, focus)
<1>1. use.numbers \in Nat /\ v \in SpaceRecord
  BY Bounds DEF SpaceOK
<1>2. CASE beside = 0
  <2> DEFINE c == AddTab(v, p)
  <2>1. b = c
    BY <1>2 DEF ArriveIn
  <2>2. GainsTab(v, p, c, use.numbers)
    BY <1>1, AddTabOK
  <2> HIDE DEF c
  <2>3. /\ SpaceOK(c, {}, use.numbers) /\ Kin(v, c) /\ c.id = v.id /\ Len(c.tabs) = Len(v.tabs) + 1
        /\ PanesIn(c.tabs) = PanesIn(v.tabs) \cup {p}
    BY <2>2 DEF GainsTab
  <2>4. c.tabs # <<>>
    <3>1. Len(v.tabs) \in Nat
      BY <1>1, SpaceFields
    <3>2. QED
      BY <2>3, <3>1
  <2> HIDE DEF b
  <2>5. QED
    BY <2>1, <2>3, <2>4 DEF GainsPane, b
<1>3. CASE beside # 0
  <2> DEFINE t == TabOf(v, beside)
             u == SplitTab(v.tabs[t], beside, p, focus)
             c == Arrived(v, p, t, u)
  <2>1. b = c
    BY <1>3 DEF ArriveIn
  <2>2. t \in DOMAIN v.tabs /\ beside \in v.tabs[t].panes /\ TabOK(v.tabs[t])
    BY <1>1, <1>3, TabOfPane
  <2>3. p \notin v.tabs[t].panes
    BY <2>2, PanesInFacts
  <2> HIDE DEF t
  <2>4. TabOK(u) /\ u.number = v.tabs[t].number /\ u.panes = v.tabs[t].panes \cup {p}
    BY <2>2, <2>3, SplitTabOK
  <2> HIDE DEF u
  <2>5. SpaceOK(c, {}, use.numbers) /\ Kin(v, c)
    BY <1>1, <2>2, <2>4, ArrivedOK
  <2>6. u \in TabRecord
    BY <2>4 DEF TabOK
  <2>7. DOMAIN c.tabs = DOMAIN v.tabs /\ c.id = v.id
    BY <1>1, <2>2, <2>6, ArrivedFacts
  <2>8. ASSUME NEW q PROVE q \in PanesIn(c.tabs) <=> q \in PanesIn(v.tabs) \/ q = p
    <3>1. v \in SpaceRecord /\ u.panes = v.tabs[t].panes \cup {p}
      BY <1>1, <2>4
    <3>2. QED
      BY <2>2, <2>6, <3>1, ArrivedPanes
  <2> HIDE DEF c
  <2>9. c.tabs # <<>>
    BY <2>2, <2>7
  <2> HIDE DEF b
  <2>10. QED
    BY <2>1, <2>5, <2>7, <2>8, <2>9 DEF GainsPane, b, c, u, t
<1>4. QED
  BY <1>2, <1>3

\* The app after a pane has moved to the workspace id, before the focus does.
Placed(p, id, a, M, nw) ==
    /\ AppOK(a, {}, use.numbers, nextPane, nw)
    /\ Follows(app.workspaces, a.workspaces, M, nextPane, nextWorkspace) /\ AliasesFollow(app, a, M)
    /\ a.active # 0 => a.active \in DOMAIN a.workspaces /\ a.selected \in DOMAIN a.workspaces
    /\ \E x \in DOMAIN a.workspaces : a.workspaces[x].id = id /\ p \in PanesIn(a.workspaces[x].tabs)

\* Then the focus goes along, or stays.
Moved(a, id, p, focus) ==
    LET to == Index(a, id)
    IN  IF focus \/ a.active = 0
        THEN Record(SwitchTab(a, to, TabOf(a.workspaces[to], p)), CurrentFocus(app)) ELSE a

LEMMA DonePlaced ==
    ASSUME AppInv, NEW nw \in Nat, nextWorkspace <= nw, NEW M, NEW p, NEW id, NEW a, Placed(p, id, a, M, nw), NEW focus
    PROVE  Done(Moved(a, id, p, focus), M, nextPane, nw)
<1> DEFINE to == Index(a, id)
           S == a.workspaces
           t == TabOf(S[to], p)
           c == SwitchTab(a, to, t)
<1>1. /\ AppOK(a, {}, use.numbers, nextPane, nw)
      /\ Follows(app.workspaces, S, M, nextPane, nextWorkspace) /\ AliasesFollow(app, a, M)
      /\ a.active # 0 => a.active \in DOMAIN S /\ a.selected \in DOMAIN S
      /\ \E x \in DOMAIN S : S[x].id = id /\ p \in PanesIn(S[x].tabs)
  BY DEF Placed
<1>2. /\ use.numbers \in Nat /\ nextPane \in Nat \ {0} /\ nextWorkspace \in Nat \ {0}
      /\ nextPane \in Nat /\ nextWorkspace \in Nat /\ nw \in Nat \ {0} /\ nextPane <= nextPane
  BY Bounds
<1>3. SpacesOK(S, use.numbers, nw) /\ S \in Seq(SpaceRecord)
  BY <1>1 DEF AppOK, SpacesOK
<1>4. to \in DOMAIN S /\ p \in PanesIn(S[to].tabs)
  <2>1. PICK x \in DOMAIN S : S[x].id = id /\ p \in PanesIn(S[x].tabs)
    BY <1>1
  <2>2. to \in DOMAIN S /\ S[to].id = id
    BY <1>3, <2>1, IndexFacts
  <2> HIDE DEF S, to
  <2>3. to = x
    BY <1>3, <2>1, <2>2, SpacesApart
  <2>4. QED
    BY <2>1, <2>3
<1>5. t \in DOMAIN S[to].tabs
  BY <1>1, <1>2, <1>4, TabInApp
<1> HIDE DEF to
<1>6. CASE focus \/ a.active = 0
  <2> HIDE DEF t
  <2>1. /\ AppOK(c, {}, use.numbers, nextPane, nw)
        /\ Follows(S, c.workspaces, {}, nextPane, nw)
        /\ PanesAll(c.workspaces) = PanesAll(S)
        /\ DOMAIN c.workspaces = DOMAIN S
        /\ c.active = to /\ c.selected = to /\ c.aliases = a.aliases
    BY <1>1, <1>2, <1>4, <1>5, SwitchTabOK
  <2> HIDE DEF c
  <2>2. AppOK(app, {}, use.numbers, nextPane, nextWorkspace)
    BY DEF AppInv
  <2>3. Follows(app.workspaces, c.workspaces, M, nextPane, nextWorkspace)
    BY <1>1, <1>2, <2>1, <2>2, FollowsThen
  <2>4. ViewOK(c, Takes("lose"))
    BY <1>4, <2>1, ViewActive
  <2>5. AliasesFollow(app, c, M)
    BY <1>1, <2>1 DEF AliasesFollow
  <2>6. Done(c, M, nextPane, nw)
    BY <2>1, <2>3, <2>4, <2>5 DEF Done
  <2>7. Done(Record(c, CurrentFocus(app)), M, nextPane, nw)
    BY <1>2, <2>6, DoneRecord
  <2>8. Moved(a, id, p, focus) = Record(c, CurrentFocus(app))
    BY <1>6 DEF Moved, c, t, to
  <2>9. QED
    BY <2>7, <2>8
<1>7. CASE ~(focus \/ a.active = 0)
  <2>1. ViewOK(a, Takes("lose"))
    BY <1>1, <1>7, ViewActive
  <2>2. Done(a, M, nextPane, nw)
    BY <1>1, <2>1 DEF Done
  <2>3. Moved(a, id, p, focus) = a
    BY <1>7 DEF Moved
  <2>4. QED
    BY <2>2, <2>3
<1>8. QED
  BY <1>6, <1>7

\* The app once a pane has left its workspace for another one: an alias leads to it.
AliasKey(i, p) == [ws |-> app.workspaces[i].id, number |-> app.workspaces[i].numbers[p]]

Vacated(i, p, a) ==
    /\ AppOK(a, {p}, use.numbers, nextPane, nextWorkspace) /\ ViewOK(a, Takes("lose"))
    /\ Follows(app.workspaces, a.workspaces, {}, nextPane, nextWorkspace)
    /\ p \notin PanesAll(a.workspaces)
    /\ \A k \in DOMAIN app.workspaces : k # i => \E j \in DOMAIN a.workspaces : a.workspaces[j] = app.workspaces[k]

Aliased(a, key, p) == [a EXCEPT !.aliases = With(@, key, p)]

LEMMA WithAlias ==
    ASSUME NEW m \in AliasMap, NEW key \in [ws : Nat, number : Nat], NEW p \in Nat
    PROVE  With(m, key, p) \in AliasMap
<1> DEFINE f == With(m, key, p)
<1>1. PICK D \in SUBSET [ws : Nat, number : Nat] : m \in [D -> Nat]
  BY DEF AliasMap
<1> DEFINE E == D \cup {key}
<1>2. E \in SUBSET [ws : Nat, number : Nat] /\ f \in [E -> Nat]
  BY <1>1 DEF With
<1> HIDE DEF E, f
<1>3. f \in AliasMap
  BY <1>2 DEF AliasMap
<1>4. QED
  BY <1>3 DEF f

LEMMA AliasedFacts ==
    ASSUME NEW a \in AppRecord, NEW key \in [ws : Nat, number : Nat], NEW p \in Nat
    PROVE  LET b == Aliased(a, key, p)
           IN  /\ b \in AppRecord /\ b.workspaces = a.workspaces /\ b.active = a.active /\ b.selected = a.selected
               /\ b.terminals = a.terminals /\ b.previous = a.previous /\ b.aliases = With(a.aliases, key, p)
<1> DEFINE f == With(a.aliases, key, p)
<1>1. f \in AliasMap
  BY AppFields, WithAlias
<1>2. Aliased(a, key, p) = [a EXCEPT !.aliases = f]
  BY DEF Aliased
<1> HIDE DEF f
<1>3. QED
  BY <1>1, <1>2 DEF AppRecord, f

LEMMA VacatedAliased ==
    ASSUME AppInv, NEW i, NEW p \in Nat, NEW a, Vacated(i, p, a), NEW key \in [ws : Nat, number : Nat]
    PROVE  Vacated(i, p, Aliased(a, key, p)) /\ Aliased(a, key, p).aliases = With(a.aliases, key, p)
<1> DEFINE b == Aliased(a, key, p)
<1>1. a \in AppRecord
  BY DEF Vacated, AppOK
<1>2. /\ b \in AppRecord /\ b.workspaces = a.workspaces /\ b.active = a.active /\ b.selected = a.selected
      /\ b.terminals = a.terminals /\ b.previous = a.previous /\ b.aliases = With(a.aliases, key, p)
  BY <1>1, AliasedFacts
<1> HIDE DEF b
<1>3. AppOK(b, {p}, use.numbers, nextPane, nextWorkspace)
  BY <1>2 DEF Vacated, AppOK
<1>4. ViewOK(b, Takes("lose"))
  BY <1>2 DEF Vacated, ViewOK
<1>5. Vacated(i, p, b)
  BY <1>2, <1>3, <1>4 DEF Vacated
<1>6. QED
  BY <1>2, <1>5 DEF b

\* The workspace of the pane closes.
LEMMA DropEmptiedOK ==
    ASSUME AppInv, NEW i \in Indices(app), NEW p \in PanesIn(app.workspaces[i].tabs), LastPane(app.workspaces[i], p)
    PROVE  Vacated(i, p, DropEmptied(app, i)) /\ DropEmptied(app, i).aliases = app.aliases
<1> DEFINE S == app.workspaces
           rest == RemoveAt(S, i)
           at(k) == IF rest = <<>> THEN 0
                    ELSE IF k = i THEN Clip(i, Len(rest)) ELSE IF k > i THEN k - 1 ELSE k
           x == at(app.active)
           y == at(app.selected)
           b == [app EXCEPT !.workspaces = rest, !.active = x, !.selected = Max({y, 1})]
           X == PanesAll(S) \ PanesAll(rest)
<1>1. DropEmptied(app, i) = b
  BY Zenon DEF DropEmptied
<1>2. /\ i \in DOMAIN S /\ SpaceOK(S[i], {}, use.numbers)
      /\ AppOK(app, {}, use.numbers, nextPane, nextWorkspace)
  BY Space
<1>3. use.numbers \in Nat /\ nextPane \in Nat /\ nextWorkspace \in Nat
  BY Bounds
<1>4. SpacesOK(S, use.numbers, nextWorkspace) /\ S \in Seq(SpaceRecord)
  BY <1>2 DEF AppOK, SpacesOK
<1>5. Once(S) /\ DOMAIN S = 1 .. Len(S) /\ Len(S) \in Nat
  BY <1>4, SpacesApart
<1>6. \A q \in PanesIn(S[i].tabs) : q = p
  BY <1>2, <1>3, LastPaneAlone
<1>7. ViewOK(app, Takes("lose")) /\ app.active \in Nat /\ app.selected \in Nat
  BY <1>2, AppFields DEF AppInv, AppOK
<1>8. p \in PanesIn(S[i].tabs)
  OBVIOUS
<1>9. app.selected \in DOMAIN S /\ (app.active \in DOMAIN S \/ (app.active = 0 /\ Takes("lose")))
  BY <1>2, <1>7 DEF ViewOK
<1> HIDE DEF S
<1>10. /\ SpacesOK(rest, use.numbers, nextWorkspace) /\ Len(rest) = Len(S) - 1
       /\ PanesAll(rest) = PanesAll(S) \ PanesIn(S[i].tabs)
       /\ ToSet(rest) = ToSet(S) \ {S[i]}
  <2> DEFINE N == use.numbers
             nw == nextWorkspace
  <2>1. N \in Nat /\ nw \in Nat /\ SpacesOK(S, N, nw) /\ i \in DOMAIN S
    BY <1>2, <1>3, <1>4
  <2> HIDE DEF N, nw
  <2>2. /\ SpacesOK(RemoveAt(S, i), N, nw) /\ Len(RemoveAt(S, i)) = Len(S) - 1
        /\ PanesAll(RemoveAt(S, i)) = PanesAll(S) \ PanesIn(S[i].tabs)
        /\ ToSet(RemoveAt(S, i)) = ToSet(S) \ {S[i]}
    BY <2>1, SpacesRemoved, SMTT(30)
  <2>3. QED
    BY <2>2, Zenon DEF N, nw
<1> HIDE DEF rest
<1>11. rest \in Seq(SpaceRecord) /\ Once(rest) /\ DOMAIN rest = 1 .. Len(rest) /\ Len(rest) \in Nat
  <2>1. Once(rest)
    BY <1>10, SpacesApart
  <2>2. rest \in Seq(SpaceRecord)
    BY <1>10 DEF SpacesOK
  <2>3. QED
    BY <2>1, <2>2
<1>12. ToSet(rest) \subseteq ToSet(S)
  BY <1>10
<1>13. IF rest = <<>> THEN x = 0 /\ y = 0
       ELSE y \in DOMAIN rest \cup {0} /\ (x \in DOMAIN rest \/ (x = 0 /\ Takes("lose")))
  <2>1. CASE rest = <<>>
    BY <2>1
  <2>2. CASE rest # <<>>
    <3>1. Len(rest) \in Nat \ {0} /\ i \in Nat \ {0}
      BY <1>2, <1>5, <1>11, <2>2
    <3>2. Clip(i, Len(rest)) \in 1 .. Len(rest)
      BY <3>1, ClipFacts
    <3> DEFINE m == Len(rest)
               c == Clip(i, m)
    <3>3. c \in 1 .. m /\ m \in Nat \ {0} /\ DOMAIN rest = 1 .. m /\ DOMAIN S = 1 .. m + 1 /\ i \in 1 .. m + 1
      BY <1>2, <1>5, <1>10, <1>11, <3>1, <3>2
    <3> HIDE DEF c, m
    <3>4. ASSUME NEW k \in 1 .. m + 1
          PROVE  (IF k = i THEN c ELSE IF k > i THEN k - 1 ELSE k) \in 1 .. m
      BY <3>3
    <3>5. (IF 0 = i THEN c ELSE IF 0 > i THEN 0 - 1 ELSE 0) = 0
      BY <3>3
    <3>6. y = (IF app.selected = i THEN c ELSE IF app.selected > i THEN app.selected - 1 ELSE app.selected)
      BY <2>2 DEF c, m
    <3>7. x = (IF app.active = i THEN c ELSE IF app.active > i THEN app.active - 1 ELSE app.active)
      BY <2>2 DEF c, m
    <3> HIDE DEF x, y, at
    <3>8. y \in DOMAIN rest
      BY <1>9, <3>3, <3>4, <3>6
    <3>9. CASE app.active \in DOMAIN S
      <4>1. x \in DOMAIN rest
        BY <3>3, <3>4, <3>7, <3>9
      <4>2. QED
        BY <2>2, <3>8, <4>1
    <3>10. CASE app.active = 0 /\ Takes("lose")
      <4>1. x = 0
        BY <3>5, <3>7, <3>10
      <4>2. QED
        BY <2>2, <3>8, <3>10, <4>1
    <3>11. QED
      BY <1>9, <3>9, <3>10
  <2>3. QED
    BY <2>1, <2>2
<1> HIDE DEF x, y, at
<1>14. IsLeft(rest, x, y, b)
  BY <1>11, <1>12, <1>13, LeftIs DEF S
<1> HIDE DEF b
<1>15. PanesIn(S[i].tabs) \subseteq PanesAll(S)
  BY <1>2, PanesAllFacts
<1>16. X = {p} /\ p \notin PanesAll(rest)
  BY <1>6, <1>8, <1>10, <1>15
<1>17. AppOK(b, X, use.numbers, nextPane, nextWorkspace)
  BY <1>14 DEF IsLeft, S
<1> HIDE DEF X
<1>18. ASSUME NEW k \in DOMAIN S, k # i PROVE \E j \in DOMAIN rest : rest[j] = S[k]
  <2>1. S[k] # S[i]
    BY <1>2, <1>5, <1>18 DEF Once
  <2>2. S[k] \in ToSet(S)
    BY DEF ToSet
  <2>3. S[k] \in ToSet(rest)
    BY <1>10, <2>1, <2>2
  <2>4. QED
    BY <2>3 DEF ToSet
<1>19. Vacated(i, p, b)
  BY <1>14, <1>16, <1>17, <1>18 DEF Vacated, IsLeft, S
<1>20. b.aliases = app.aliases
  BY <1>14 DEF IsLeft
<1>21. QED
  BY <1>1, <1>19, <1>20

LEMMA VacatedIs ==
    ASSUME AppInv, NEW i \in Indices(app), NEW p \in PanesIn(app.workspaces[i].tabs), NEW a, a = LeaveSource(app, i, p, TRUE)
    PROVE  Vacated(i, p, a) /\ a.aliases = With(app.aliases, AliasKey(i, p), p) /\ AliasKey(i, p) \in [ws : Nat, number : Nat]
<1> DEFINE S == app.workspaces
           w == Take(S[i], p)
           Z == {p}
           v == Unregister(w, {p})
           key == [ws |-> w.id, number |-> w.numbers[p]]
           b == IF w.tabs = <<>> THEN DropEmptied(app, i) ELSE [app EXCEPT !.workspaces[i] = v]
<1>1. a = [b EXCEPT !.aliases = With(@, key, p)]
  BY Zenon DEF LeaveSource
<1>2. a = Aliased(b, key, p)
  BY <1>1, Zenon DEF Aliased
<1>3. /\ i \in DOMAIN S /\ SpaceOK(S[i], {}, use.numbers)
      /\ AppOK(app, {}, use.numbers, nextPane, nextWorkspace)
  BY Space
<1>4. use.numbers \in Nat /\ nextPane \in Nat /\ nextWorkspace \in Nat
  BY Bounds
<1>5. p \in PanesIn(S[i].tabs)
  OBVIOUS
<1>6. /\ w.numbers = S[i].numbers /\ w.id = S[i].id /\ (w.tabs = <<>> <=> LastPane(S[i], p))
  <2>1. Z = {p}
    OBVIOUS
  <2> HIDE DEF Z, S
  <2>2. QED
    BY <1>3, <1>4, <1>5, <2>1, TakeOK DEF IsTaken
<1>7. key = AliasKey(i, p)
  BY <1>6 DEF AliasKey
<1>8. p \in Nat /\ AliasKey(i, p) \in [ws : Nat, number : Nat]
  <2>1. S[i].id \in Nat /\ S[i].numbers[p] \in Nat /\ p \in Nat
    <3> HIDE DEF S
    <3>1. /\ DOMAIN S[i].numbers = PanesIn(S[i].tabs) \cup {} /\ S[i].id \in Nat
          /\ DOMAIN S[i].numbers \subseteq Nat /\ \A q \in DOMAIN S[i].numbers : S[i].numbers[q] \in Nat
      BY <1>3, <1>4, SpaceFacts
    <3>2. QED
      BY <1>5, <3>1
  <2>2. QED
    BY <2>1 DEF AliasKey
<1>9. Vacated(i, p, b) /\ b.aliases = app.aliases
  <2>1. CASE LastPane(S[i], p)
    <3>1. b = DropEmptied(app, i)
      BY <1>6, <2>1
    <3> HIDE DEF b
    <3>2. QED
      BY <2>1, <3>1, DropEmptiedOK
  <2>2. CASE ~LastPane(S[i], p)
    <3> DEFINE P == {p}
               d == [app EXCEPT !.workspaces[i] = v]
    <3>1. b = d
      BY <1>6, <2>2
    <3>2. v = ClosePane(S[i], p)
      BY DEF ClosePane
    <3>3. Loses(S[i], P, v, use.numbers) /\ v.tabs # <<>>
      <4> HIDE DEF S, v
      <4>1. QED
        BY <1>3, <1>4, <1>5, <2>2, <3>2, ClosePaneOK
    <3>4. P \subseteq PanesIn(S[i].tabs)
      OBVIOUS
    <3> HIDE DEF P, b, v
    <3>5. IsShrunk(i, v, P, d)
      BY <3>3, <3>4, ShrunkIs
    <3> HIDE DEF d
    <3>6. /\ AppOK(d, P, use.numbers, nextPane, nextWorkspace)
          /\ Follows(S, d.workspaces, {}, nextPane, nextWorkspace)
          /\ d.workspaces = [S EXCEPT ![i] = v] /\ d.aliases = app.aliases /\ DOMAIN d.workspaces = DOMAIN S
          /\ d.active = app.active /\ d.selected = app.selected
      BY <3>5 DEF IsShrunk, IsPut
    <3>7. ViewOK(d, Takes("lose"))
      <4>1. ViewOK(app, Takes("lose")) /\ DOMAIN S = 1 .. Len(S) /\ Len(S) \in Nat /\ Len(S) # 0
        BY <1>3, AppFields DEF AppInv, AppOK
      <4>2. QED
        BY <3>6, <4>1, ViewSame
    <3>8. p \notin PanesAll(d.workspaces)
      <4>1. SpacesOK(S, use.numbers, nextWorkspace)
        BY <1>3 DEF AppOK
      <4>2. PanesIn(v.tabs) = PanesIn(S[i].tabs) \ P
        BY <3>3 DEF Loses
      <4> HIDE DEF S
      <4>3. ASSUME NEW k \in DOMAIN d.workspaces, p \in PanesIn(d.workspaces[k].tabs) PROVE FALSE
        <5>1. CASE k = i
          BY <1>3, <3>6, <4>2, <4>3, <5>1 DEF P
        <5>2. CASE k # i
          <6>1. d.workspaces[k] = S[k] /\ k \in DOMAIN S
            BY <3>6, <5>2
          <6>2. k = i
            BY <1>3, <1>5, <4>1, <4>3, <6>1, SpacesApart
          <6>3. QED
            BY <5>2, <6>2
        <5>3. QED
          BY <5>1, <5>2
      <4>4. QED
        BY <4>3, PanesAllFacts
    <3>9. ASSUME NEW k \in DOMAIN S, k # i PROVE \E j \in DOMAIN d.workspaces : d.workspaces[j] = S[k]
      <4>1. k \in DOMAIN d.workspaces /\ d.workspaces[k] = S[k]
        BY <3>6, <3>9
      <4>2. QED
        BY <4>1
    <3>10. Vacated(i, p, d)
      BY <3>6, <3>7, <3>8, <3>9 DEF Vacated, P
    <3>11. QED
      BY <3>1, <3>6, <3>10
  <2>3. QED
    BY <2>1, <2>2
<1> HIDE DEF b, key
<1>10. Vacated(i, p, Aliased(b, key, p)) /\ Aliased(b, key, p).aliases = With(b.aliases, key, p)
  BY <1>7, <1>8, <1>9, VacatedAliased
<1>11. QED
  BY <1>2, <1>7, <1>8, <1>9, <1>10

\* The aliases once the pane p has left.
LEMMA AliasesMoved ==
    ASSUME AppInv, NEW i \in Indices(app), NEW p \in PanesIn(app.workspaces[i].tabs), NEW b, NEW M, M = {p},
           b.aliases = With(app.aliases, AliasKey(i, p), p)
    PROVE  AliasesFollow(app, b, M)
<1> DEFINE S == app.workspaces
           key == AliasKey(i, p)
<1>1. /\ DOMAIN b.aliases = DOMAIN app.aliases \cup {key}
      /\ \A k \in DOMAIN b.aliases : b.aliases[k] = IF k = key THEN p ELSE app.aliases[k]
  BY DEF With
<1>2. /\ i \in DOMAIN S /\ AppOK(app, {}, use.numbers, nextPane, nextWorkspace)
  BY Space
<1>3. SpacesOK(S, use.numbers, nextWorkspace) /\ use.numbers \in Nat /\ nextWorkspace \in Nat
  BY <1>2, Bounds DEF AppOK
<1>4. \A j \in DOMAIN S : DOMAIN S[j].numbers = PanesIn(S[j].tabs)
  BY <1>3, SpacesFacts
<1>5. p \in DOMAIN S[i].numbers
  BY <1>2, <1>4
<1>6. key = [ws |-> S[i].id, number |-> S[i].numbers[p]]
  BY DEF AliasKey
<1>7. [ws |-> key.ws, number |-> key.number, pane |-> p] \in Registered(app)
  BY <1>2, <1>5, <1>6 DEF Registered, Indices
<1>8. ASSUME NEW r \in Registered(app), r.pane = p PROVE [ws |-> r.ws, number |-> r.number] = key
  <2>0. PICK j \in DOMAIN S : \E q \in DOMAIN S[j].numbers : r = [ws |-> S[j].id, number |-> S[j].numbers[q], pane |-> q]
    BY DEF Registered, Indices
  <2>1. PICK q \in DOMAIN S[j].numbers : r = [ws |-> S[j].id, number |-> S[j].numbers[q], pane |-> q]
    BY <2>0
  <2>2. q = p /\ q \in PanesIn(S[j].tabs)
    BY <1>4, <1>8, <2>1
  <2>3. p \in PanesIn(S[i].tabs)
    OBVIOUS
  <2> HIDE DEF S
  <2>4. j = i
    BY <1>2, <1>3, <2>2, <2>3, SpacesApart
  <2>5. QED
    BY <1>6, <2>1, <2>2, <2>4
<1> HIDE DEF key
<1>9. \A k \in DOMAIN b.aliases :
        \/ k \in DOMAIN app.aliases /\ b.aliases[k] = app.aliases[k]
        \/ [ws |-> k.ws, number |-> k.number, pane |-> b.aliases[k]] \in Registered(app)
  BY <1>1, <1>7
<1>10. \A r \in Registered(app) : r.pane \in M => [ws |-> r.ws, number |-> r.number] \in DOMAIN b.aliases
  BY <1>1, <1>8
<1>11. \A k \in DOMAIN app.aliases : app.aliases[k] \in PanesAll(b.workspaces) => k \in DOMAIN b.aliases
  BY <1>1
<1>12. QED
  BY <1>9, <1>10, <1>11 DEF AliasesFollow

LEMMA FollowsMore ==
    ASSUME NEW S, NEW T, NEW np, NEW nw, Follows(S, T, {}, np, nw), NEW M
    PROVE  Follows(S, T, M, np, nw)
BY DEF Follows

\* The pane arrives in a workspace that there was.
LEMMA FollowsInto ==
    ASSUME NEW np, NEW nw, NEW M, NEW S, NEW T, Follows(S, T, M, np, nw), NEW j \in DOMAIN T, NEW k \in DOMAIN S,
           NEW w, Kin(S[k], w), \A p \in PanesIn(w.tabs) : p \in PanesIn(S[k].tabs) \/ p \in M
    PROVE  Follows(S, [T EXCEPT ![j] = w], M, np, nw)
<1> DEFINE r == [T EXCEPT ![j] = w]
<1>1. \A x \in DOMAIN r : (x \in DOMAIN T /\ r[x] = T[x]) \/ r[x] = w
  OBVIOUS
<1> HIDE DEF r
<1>2. Follows(S, r, M, np, nw)
  BY <1>1 DEF Follows
<1>3. QED
  BY <1>2 DEF r

LEMMA PlacedIn ==
    ASSUME AppInv, NEW i \in Indices(app), NEW p \in PanesIn(app.workspaces[i].tabs), NEW M, M = {p},
           NEW a, Vacated(i, p, a), a.aliases = With(app.aliases, AliasKey(i, p), p),
           NEW j \in DOMAIN a.workspaces, NEW k \in DOMAIN app.workspaces, a.workspaces[j] = app.workspaces[k],
           NEW w, GainsPane(app.workspaces[k], p, w), NEW b, b = [a EXCEPT !.workspaces[j] = w]
    PROVE  Placed(p, w.id, b, M, nextWorkspace)
<1> DEFINE S == app.workspaces
           T == a.workspaces
           r == [T EXCEPT ![j] = w]
           X == {p}
<1>1. /\ AppOK(a, X, use.numbers, nextPane, nextWorkspace) /\ ViewOK(a, Takes("lose"))
      /\ Follows(S, T, {}, nextPane, nextWorkspace) /\ p \notin PanesAll(T)
  BY DEF Vacated
<1>2. /\ a \in AppRecord /\ SpacesOK(T, use.numbers, nextWorkspace) /\ a.terminals = PanesAll(T) \cup X
      /\ \A q \in a.terminals : q \in 1 .. nextPane - 1
      /\ a.previous.ws < nextWorkspace /\ a.previous.pane < nextPane
  BY <1>1 DEF AppOK
<1>3. use.numbers \in Nat /\ nextPane \in Nat /\ nextWorkspace \in Nat
  BY Bounds
<1>4. /\ SpaceOK(w, {}, use.numbers) /\ Kin(S[k], w) /\ w.tabs # <<>> /\ w.id = S[k].id
      /\ \A q : q \in PanesIn(w.tabs) <=> q \in PanesIn(S[k].tabs) \/ q = p
  BY DEF GainsPane
<1>5. w \in SpaceRecord /\ a.terminals \in SUBSET Nat
  BY <1>2, <1>4, AppFields DEF SpaceOK
<1>6. b = AppPut(a, j, w, a.terminals)
  BY <1>2, AppPutSame
<1>7. IsPut(a, j, w, a.terminals, b)
  <2> DEFINE Q == a.terminals
  <2>1. Q \in SUBSET Nat /\ a \in AppRecord
    BY <1>2, <1>5
  <2> HIDE DEF Q
  <2>2. IsPut(a, j, w, Q, AppPut(a, j, w, Q))
    BY <1>5, <2>1, AppPutFields
  <2>3. QED
    BY <1>6, <2>2 DEF Q
<1>8. /\ b \in AppRecord /\ b.workspaces = r /\ b.terminals = a.terminals /\ b.previous = a.previous
      /\ b.active = a.active /\ b.selected = a.selected /\ b.aliases = a.aliases
      /\ DOMAIN b.workspaces = DOMAIN T /\ b.workspaces[j] = w
  BY <1>7 DEF IsPut
<1>9. T[j] = S[k] /\ j \in DOMAIN T /\ k \in DOMAIN S
  OBVIOUS
<1> HIDE DEF S, T, X
<1>10. Separate(T, j, w)
  BY <1>1, <1>4, <1>9 DEF Separate
<1>11. w.id = T[j].id
  BY <1>4, <1>9
<1>12. SpacesOK(r, use.numbers, nextWorkspace) /\ PanesAll(r) = (PanesAll(T) \ PanesIn(T[j].tabs)) \cup PanesIn(w.tabs)
  <2>1. SpacesOK(T, use.numbers, nextWorkspace) /\ SpaceOK(w, {}, use.numbers) /\ w.tabs # <<>> /\ j \in DOMAIN T
    BY <1>2, <1>4, <1>9
  <2>2. IsSpacesPut(T, j, w, use.numbers, nextWorkspace, r)
    BY <1>3, <1>10, <1>11, <2>1, SpacesPutIs
  <2>3. QED
    BY <2>2 DEF IsSpacesPut
<1>13. Follows(S, r, M, nextPane, nextWorkspace)
  <2>1. Follows(S, T, M, nextPane, nextWorkspace)
    BY <1>1, FollowsMore
  <2>2. \A q \in PanesIn(w.tabs) : q \in PanesIn(S[k].tabs) \/ q \in M
    BY <1>4
  <2>3. QED
    BY <1>4, <1>9, <2>1, <2>2, FollowsInto
<1> HIDE DEF r
<1>14. ASSUME NEW q PROVE q \in a.terminals <=> q \in PanesAll(r)
  <2>1. PanesIn(T[j].tabs) \subseteq PanesAll(T)
    BY <1>9, PanesAllFacts
  <2>2. QED
    BY <1>2, <1>4, <1>9, <1>12, <2>1 DEF X
<1>15. a.terminals = PanesAll(r) \cup {}
  BY <1>14
<1>16. AppOK(b, {}, use.numbers, nextPane, nextWorkspace)
  BY <1>2, <1>8, <1>12, <1>15 DEF AppOK
<1>17. AliasesFollow(app, b, M)
  <2>1. b.aliases = With(app.aliases, AliasKey(i, p), p)
    BY <1>8
  <2>2. QED
    BY <2>1, AliasesMoved
<1>18. b.active # 0 => b.active \in DOMAIN b.workspaces /\ b.selected \in DOMAIN b.workspaces
  <2>1. T # <<>>
    BY <1>9
  <2>2. QED
    BY <1>1, <1>8, <2>1 DEF ViewOK, T
<1>19. \E x \in DOMAIN b.workspaces : b.workspaces[x].id = w.id /\ p \in PanesIn(b.workspaces[x].tabs)
  BY <1>4, <1>8, <1>9
<1>20. QED
  BY <1>8, <1>13, <1>16, <1>17, <1>18, <1>19 DEF Placed, S

\* The pane arrives in a workspace of its own.
LEMMA PlacedNew ==
    ASSUME AppInv, NEW i \in Indices(app), NEW p \in PanesIn(app.workspaces[i].tabs), NEW M, M = {p},
           NEW a, Vacated(i, p, a), a.aliases = With(app.aliases, AliasKey(i, p), p),
           NEW w, IsNew(w, nextWorkspace, p, use.numbers),
           NEW b, b = [a EXCEPT !.workspaces = Append(@, w)]
    PROVE  Placed(p, nextWorkspace, b, M, nextWorkspace + 1)
<1> DEFINE S == app.workspaces
           T == a.workspaces
           r == Append(T, w)
           X == {p}
<1>1. /\ AppOK(a, X, use.numbers, nextPane, nextWorkspace) /\ ViewOK(a, Takes("lose"))
      /\ Follows(S, T, {}, nextPane, nextWorkspace) /\ p \notin PanesAll(T)
  BY DEF Vacated
<1>2. /\ a \in AppRecord /\ SpacesOK(T, use.numbers, nextWorkspace) /\ a.terminals = PanesAll(T) \cup X
      /\ \A q \in a.terminals : q \in 1 .. nextPane - 1
      /\ a.previous.ws < nextWorkspace /\ a.previous.pane < nextPane
  BY <1>1 DEF AppOK
<1>3. use.numbers \in Nat /\ nextPane \in Nat /\ nextWorkspace \in Nat /\ nextWorkspace >= 1 /\ a.previous.ws \in Nat
  BY <1>2, Bounds, AppFields
<1>4. /\ SpaceOK(w, {}, use.numbers) /\ w.id = nextWorkspace /\ w.tabs # <<>>
      /\ \A q : q \in PanesIn(w.tabs) <=> q = p
  BY DEF IsNew
<1>5. w \in SpaceRecord /\ T \in Seq(SpaceRecord)
  BY <1>2, <1>4 DEF SpaceOK, SpacesOK
<1>6. r \in Seq(SpaceRecord)
  BY <1>5
<1>7. b = [a EXCEPT !.workspaces = r]
  OBVIOUS
<1>8. /\ DOMAIN T \subseteq DOMAIN r /\ Len(r) \in DOMAIN r /\ r[Len(r)] = w
  BY <1>5, AppendFacts
<1>9. PanesIn(w.tabs) \cap PanesAll(T) = {}
  BY <1>1, <1>4
<1> HIDE DEF S, X
<1>10. SpacesOK(r, use.numbers, nextWorkspace + 1) /\ PanesAll(r) = PanesAll(T) \cup PanesIn(w.tabs)
  <2>1. w.id \in Nat /\ w.id >= nextWorkspace /\ w.id >= 1
    BY <1>3, <1>4
  <2> HIDE DEF T
  <2>2. SpacesOK(Append(T, w), use.numbers, w.id + 1) /\ PanesAll(Append(T, w)) = PanesAll(T) \cup PanesIn(w.tabs)
    BY <1>2, <1>3, <1>4, <1>9, <2>1, SpacesAppended
  <2>3. QED
    BY <1>4, <2>2
<1>11. Follows(S, r, M, nextPane, nextWorkspace)
  <2>1. Follows(S, T, M, nextPane, nextWorkspace)
    BY <1>1, FollowsMore
  <2>2. (\A q \in PanesIn(w.tabs) : q \in M \/ nextPane <= q) /\ nextWorkspace <= w.id
    BY <1>3, <1>4
  <2> HIDE DEF T
  <2>3. QED
    BY <1>5, <2>1, <2>2, FollowsAppended
<1> HIDE DEF r
<1>12. /\ b \in AppRecord /\ b.workspaces = r /\ b.terminals = a.terminals /\ b.previous = a.previous
       /\ b.active = a.active /\ b.selected = a.selected /\ b.aliases = a.aliases
  BY <1>2, <1>6, <1>7 DEF AppRecord
<1>13. ASSUME NEW q PROVE q \in a.terminals <=> q \in PanesAll(r)
  BY <1>2, <1>4, <1>10 DEF X
<1>14. a.terminals = PanesAll(r) \cup {} /\ a.previous.ws < nextWorkspace + 1
  BY <1>2, <1>3, <1>13
<1>15. AppOK(b, {}, use.numbers, nextPane, nextWorkspace + 1)
  BY <1>2, <1>10, <1>12, <1>14 DEF AppOK
<1>16. AliasesFollow(app, b, M)
  <2>1. b.aliases = With(app.aliases, AliasKey(i, p), p)
    BY <1>12
  <2>2. QED
    BY <2>1, AliasesMoved
<1>17. b.active # 0 => b.active \in DOMAIN b.workspaces /\ b.selected \in DOMAIN b.workspaces
  <2>1. a.active # 0 => T # <<>>
    BY <1>1 DEF ViewOK, T
  <2>2. QED
    BY <1>1, <1>8, <1>12, <2>1 DEF ViewOK, T
<1>18. \E x \in DOMAIN b.workspaces : b.workspaces[x].id = nextWorkspace /\ p \in PanesIn(b.workspaces[x].tabs)
  BY <1>4, <1>8, <1>12
<1>19. QED
  BY <1>11, <1>12, <1>15, <1>16, <1>17, <1>18 DEF Placed, S

LEMMA RoomFacts ==
    ASSUME AppInv, NEW i \in Indices(app), Numbers(i)
    PROVE  app.workspaces[i].next_pane <= use.numbers /\ app.workspaces[i].next_tab <= use.numbers
<1> DEFINE m == app.workspaces[i].next_pane
           n == app.workspaces[i].next_tab
           x == Max({m, n})
<1>1. m \in Nat /\ n \in Nat /\ use.numbers \in Nat
  BY Space, Bounds
<1>2. x <= use.numbers
  BY DEF Numbers
<1> HIDE DEF m, n
<1>3. x \in Nat /\ m <= x /\ n <= x
  BY <1>1, MaxTwo
<1> HIDE DEF x
<1>4. m <= use.numbers /\ n <= use.numbers
  BY <1>1, <1>2, <1>3
<1>5. QED
  BY <1>4 DEF m, n

LEMMA ArriveAt ==
    ASSUME NEW a, NEW p, NEW d, NEW focus, NEW j, Index(a, d.ws) = j, j # 0
    PROVE  Arrive(a, p, d, focus) = [a EXCEPT !.workspaces[j] = ArriveIn(a.workspaces[j], d.beside, p, focus)]
BY Zenon DEF Arrive, ArriveIn, Arrived, SplitTab, Numbered

\* Inside its workspace.
LEMMA PlacedWithin ==
    ASSUME AppInv, NEW i \in Indices(app), NEW p \in PanesIn(app.workspaces[i].tabs), NEW d,
           d.ws = app.workspaces[i].id, NEW focus, Numbers(i),
           d.beside # 0 => d.beside \in PanesIn(app.workspaces[i].tabs) /\ d.beside # p
    PROVE  Placed(p, d.ws, Arrive(LeaveSource(app, i, p, FALSE), p, d, focus), {}, nextWorkspace)
<1> DEFINE S == app.workspaces
           v == S[i]
           w == Take(v, p)
           Z == {p}
           left == LeaveSource(app, i, p, FALSE)
           u == ArriveIn(w, d.beside, p, focus)
           b == AppPut(app, i, u, app.terminals)
<1>1. /\ i \in DOMAIN S /\ SpaceOK(v, {}, use.numbers) /\ AppOK(app, {}, use.numbers, nextPane, nextWorkspace)
      /\ v.tabs # <<>>
  BY Space
<1>2. use.numbers \in Nat /\ nextPane \in Nat /\ nextWorkspace \in Nat
  BY Bounds
<1>3. app \in AppRecord /\ SpacesOK(S, use.numbers, nextWorkspace) /\ S \in Seq(SpaceRecord) /\ app.terminals \in SUBSET Nat
  BY <1>1, AppFields DEF AppOK
<1>4. p \in PanesIn(v.tabs) /\ d.ws = v.id
  OBVIOUS
<1>5. v.next_pane <= use.numbers /\ v.next_tab <= use.numbers /\ v.next_pane \in Nat
  BY RoomFacts, Space
<1>6. left = [app EXCEPT !.workspaces[i] = w]
  BY DEF LeaveSource
<1>7. /\ SpaceOK(w, Z, use.numbers) /\ Kin(v, w) /\ PanesIn(w.tabs) = PanesIn(v.tabs) \ Z
      /\ w.numbers = v.numbers /\ w.id = v.id /\ w.next_pane = v.next_pane /\ w.next_tab = v.next_tab
      /\ (w.tabs = <<>> => w.active_tab = 1)
  <2>1. Z = {p}
    OBVIOUS
  <2> HIDE DEF Z, v
  <2>2. IsTaken(v, p, Z, use.numbers, Take(v, p))
    BY <1>1, <1>2, <1>4, <2>1, TakeOK
  <2>3. QED
    BY <2>2 DEF IsTaken
<1>8. d.beside # 0 => d.beside \in PanesIn(v.tabs) \ Z
  OBVIOUS
<1>9. p \in Nat /\ DOMAIN v.numbers = PanesIn(v.tabs)
  <2> HIDE DEF v
  <2>1. DOMAIN v.numbers = PanesIn(v.tabs) \cup {} /\ DOMAIN v.numbers \subseteq Nat
    BY <1>1, <1>2, SpaceFacts
  <2>2. QED
    BY <1>4, <2>1
<1>10. Z \subseteq {p} /\ p \in Z
  OBVIOUS
<1> HIDE DEF left, w, Z
<1>11. GainsPane(w, p, u)
  <2>1. p \notin PanesIn(w.tabs) /\ (d.beside # 0 => d.beside \in PanesIn(w.tabs)) /\ w.next_tab <= use.numbers
    BY <1>5, <1>7, <1>8, <1>10
  <2> HIDE DEF v
  <2>2. QED
    BY <1>7, <1>9, <1>10, <2>1, ArriveInOK
<1>12. w \in SpaceRecord
  BY <1>7 DEF SpaceOK
<1> HIDE DEF u
<1>13. /\ SpaceOK(u, {}, use.numbers) /\ Kin(w, u) /\ u.tabs # <<>> /\ u.id = w.id
       /\ \A q : q \in PanesIn(u.tabs) <=> q \in PanesIn(w.tabs) \/ q = p
  BY <1>11 DEF GainsPane
<1>14. PanesIn(u.tabs) = PanesIn(v.tabs)
  BY <1>4, <1>7, <1>10, <1>13 DEF Z
<1>15. Kin(v, u)
  <2>1. u.next_pane \in Nat /\ u \in SpaceRecord
    BY <1>13, SpaceFields DEF SpaceOK
  <2>2. /\ v.id = w.id /\ u.id = w.id /\ w.next_pane = v.next_pane /\ w.numbers = v.numbers
    BY <1>7, <1>13
  <2> HIDE DEF v
  <2>3. QED
    BY <1>13, <2>1, <2>2 DEF Kin
<1>16. u \in SpaceRecord
  BY <1>13 DEF SpaceOK
<1>17. IsPut(app, i, w, app.terminals, left)
  <2> DEFINE Q == app.terminals
  <2>1. left = AppPut(app, i, w, Q)
    BY <1>1, <1>3, <1>6, AppPutSame
  <2>2. Q \in SUBSET Nat
    BY <1>3
  <2> HIDE DEF Q
  <2>3. IsPut(app, i, w, Q, AppPut(app, i, w, Q))
    BY <1>1, <1>3, <1>12, <2>2, AppPutFields
  <2>4. QED
    BY <2>1, <2>3 DEF Q
<1>18. /\ left.workspaces = [S EXCEPT ![i] = w] /\ DOMAIN left.workspaces = DOMAIN S /\ left \in AppRecord
       /\ left.workspaces[i] = w
  BY <1>17 DEF IsPut
<1>19. Index(left, d.ws) = i
  <2> DEFINE jj == Index(left, d.ws)
             L == left.workspaces
  <2>1. L \in Seq(SpaceRecord)
    BY <1>18, AppFields
  <2>2. L[i].id = d.ws /\ i \in DOMAIN L
    BY <1>1, <1>4, <1>7, <1>18
  <2>3. jj \in DOMAIN L /\ L[jj].id = d.ws
    BY <2>1, <2>2, IndexFacts
  <2> HIDE DEF jj
  <2>4. L[jj].id = S[jj].id /\ jj \in DOMAIN S
    BY <1>1, <1>7, <1>18, <2>3
  <2> HIDE DEF S
  <2>5. S[jj].id = S[i].id
    BY <1>4, <2>3, <2>4 DEF v
  <2>6. jj = i
    BY <1>1, <1>3, <2>4, <2>5, SpacesApart
  <2>7. QED
    BY <2>6 DEF jj
<1>20. Arrive(left, p, d, focus) = b
  <2>1. i # 0
    BY <1>1, <1>3
  <2> DEFINE x == ArriveIn(left.workspaces[i], d.beside, p, focus)
  <2>20. Arrive(left, p, d, focus) = [left EXCEPT !.workspaces[i] = x]
    BY <1>19, <2>1, ArriveAt
  <2>21. x = u
    BY <1>18 DEF u
  <2> HIDE DEF x
  <2>2. Arrive(left, p, d, focus) = [left EXCEPT !.workspaces[i] = u]
    BY <2>20, <2>21
  <2>3. [left EXCEPT !.workspaces[i] = u] = [app EXCEPT !.workspaces[i] = u]
    BY <1>3, <1>6, <1>1 DEF AppRecord
  <2>4. [app EXCEPT !.workspaces[i] = u] = b
    BY <1>1, <1>3, AppPutSame
  <2>5. QED
    BY <2>2, <2>3, <2>4
<1>21. Done(b, {}, nextPane, nextWorkspace)
  BY <1>13, <1>14, <1>15, DoneSpace
<1>22. IsPut(app, i, u, app.terminals, b)
  <2> DEFINE Q == app.terminals
  <2>1. Q \in SUBSET Nat
    BY <1>3
  <2> HIDE DEF Q
  <2>2. IsPut(app, i, u, Q, AppPut(app, i, u, Q))
    BY <1>1, <1>3, <1>16, <2>1, AppPutFields
  <2>3. QED
    BY <2>2 DEF Q
<1> HIDE DEF b
<1>23. b.workspaces[i] = u /\ i \in DOMAIN b.workspaces
  BY <1>1, <1>22 DEF IsPut
<1>24. u.id = d.ws /\ p \in PanesIn(u.tabs)
  BY <1>4, <1>7, <1>13
<1>25. b.active # 0 => b.active \in DOMAIN b.workspaces /\ b.selected \in DOMAIN b.workspaces
  <2>1. b.workspaces # <<>>
    BY <1>23
  <2>2. QED
    BY <1>21, <2>1 DEF Done, ViewOK
<1>26. Placed(p, d.ws, b, {}, nextWorkspace)
  BY <1>21, <1>23, <1>24, <1>25 DEF Placed, Done
<1>27. QED
  BY <1>20, <1>26 DEF left

\* To another workspace that there was.
LEMMA PlacedAcross ==
    ASSUME AppInv, NEW i \in Indices(app), NEW p \in PanesIn(app.workspaces[i].tabs), NEW d,
           NEW j \in Indices(app), d.ws = app.workspaces[j].id, j # i, NEW focus, Numbers(j), NEW M, M = {p},
           d.beside # 0 => d.beside \in PanesIn(app.workspaces[j].tabs)
    PROVE  Placed(p, d.ws, Arrive(LeaveSource(app, i, p, TRUE), p, d, focus), M, nextWorkspace)
<1> DEFINE S == app.workspaces
           v == S[j]
           left == LeaveSource(app, i, p, TRUE)
           L == left.workspaces
           w == ArriveIn(v, d.beside, p, focus)
           X == {}
<1>1. /\ i \in DOMAIN S /\ j \in DOMAIN S /\ SpaceOK(v, X, use.numbers) /\ v.tabs # <<>>
      /\ AppOK(app, {}, use.numbers, nextPane, nextWorkspace)
  BY Space
<1>2. use.numbers \in Nat /\ nextPane \in Nat /\ nextWorkspace \in Nat
  BY Bounds
<1>3. SpacesOK(S, use.numbers, nextWorkspace) /\ app \in AppRecord
  BY <1>1 DEF AppOK
<1>4. p \in PanesIn(S[i].tabs) /\ v.next_pane <= use.numbers /\ v.next_tab <= use.numbers
  BY RoomFacts
<1>5. p \notin PanesIn(v.tabs)
  <2> HIDE DEF S
  <2>1. QED
    BY <1>1, <1>3, <1>4, SpacesApart
<1>6. p \in Nat
  <2>1. SpaceOK(S[i], {}, use.numbers)
    BY Space
  <2> DEFINE f == S[i]
  <2>2. SpaceOK(f, {}, use.numbers) /\ p \in PanesIn(f.tabs)
    BY <1>4, <2>1
  <2> HIDE DEF f
  <2>3. DOMAIN f.numbers = PanesIn(f.tabs) \cup {} /\ DOMAIN f.numbers \subseteq Nat
    BY <1>2, <2>2, SpaceFacts
  <2>4. QED
    BY <2>2, <2>3
<1>7. X \subseteq {p} /\ (d.beside # 0 => d.beside \in PanesIn(v.tabs))
  OBVIOUS
<1> HIDE DEF X
<1>8. GainsPane(v, p, w)
  <2> HIDE DEF v
  <2>1. QED
    BY <1>1, <1>4, <1>5, <1>6, <1>7, ArriveInOK
<1>9. w.id = d.ws
  <2> HIDE DEF w
  <2>1. QED
    BY <1>8 DEF GainsPane
<1> HIDE DEF left, w
<1>10. Vacated(i, p, left) /\ left.aliases = With(app.aliases, AliasKey(i, p), p)
  BY VacatedIs DEF left
<1>11. PICK x \in DOMAIN L : L[x] = S[j]
  BY <1>1, <1>10 DEF Vacated
<1>12. SpacesOK(L, use.numbers, nextWorkspace) /\ L \in Seq(SpaceRecord)
  BY <1>10 DEF Vacated, AppOK, SpacesOK
<1>13. Index(left, d.ws) = x
  <2> DEFINE jj == Index(left, d.ws)
  <2>1. L[x].id = d.ws
    BY <1>11
  <2>2. jj \in DOMAIN L /\ L[jj].id = d.ws
    BY <1>11, <1>12, <2>1, IndexFacts
  <2> HIDE DEF jj, L
  <2>3. jj = x
    BY <1>11, <1>12, <2>1, <2>2, SpacesApart
  <2>4. QED
    BY <2>3 DEF jj
<1>14. x # 0
  BY <1>11, <1>12
<1> DEFINE b == [left EXCEPT !.workspaces[x] = w]
<1>15. Arrive(left, p, d, focus) = b
  BY <1>11, <1>13, <1>14, ArriveAt DEF w
<1>16. b = [left EXCEPT !.workspaces[x] = w]
  OBVIOUS
<1> HIDE DEF b
<1>17. Placed(p, w.id, b, M, nextWorkspace)
  BY <1>1, <1>8, <1>10, <1>11, <1>16, PlacedIn
<1>18. QED
  BY <1>9, <1>15, <1>17 DEF left

\* To a new one.
LEMMA PlacedFresh ==
    ASSUME AppInv, NEW i \in Indices(app), NEW p \in PanesIn(app.workspaces[i].tabs), NEW d, d.ws = nextWorkspace,
           NEW focus, NEW M, M = {p}
    PROVE  Placed(p, d.ws, Arrive(LeaveSource(app, i, p, TRUE), p, d, focus), M, nextWorkspace + 1)
<1> DEFINE left == LeaveSource(app, i, p, TRUE)
           L == left.workspaces
           w == NewWorkspace(d.ws, p)
           b == [left EXCEPT !.workspaces = Append(@, w)]
<1>1. use.numbers \in Nat \ {0} /\ nextPane \in Nat /\ nextWorkspace \in Nat /\ use.numbers \in Nat
  BY Bounds
<1>2. p \in Nat
  <2> DEFINE f == app.workspaces[i]
  <2>1. SpaceOK(f, {}, use.numbers) /\ p \in PanesIn(f.tabs)
    BY Space
  <2> HIDE DEF f
  <2>2. DOMAIN f.numbers = PanesIn(f.tabs) \cup {} /\ DOMAIN f.numbers \subseteq Nat
    BY <1>1, <2>1, SpaceFacts
  <2>3. QED
    BY <2>1, <2>2
<1>3. IsNew(w, nextWorkspace, p, use.numbers)
  BY <1>1, <1>2, NewIs
<1> HIDE DEF left
<1>4. Vacated(i, p, left) /\ left.aliases = With(app.aliases, AliasKey(i, p), p)
  BY VacatedIs DEF left
<1>5. SpacesOK(L, use.numbers, nextWorkspace) /\ L \in Seq(SpaceRecord)
  BY <1>4 DEF Vacated, AppOK, SpacesOK
<1>6. Index(left, d.ws) = 0
  <2>1. \A x \in DOMAIN L : L[x].id # d.ws
    BY <1>1, <1>5 DEF SpacesOK
  <2>2. QED
    BY <1>5, <2>1, IndexFacts
<1>7. Arrive(left, p, d, focus) = b
  BY <1>6, Zenon DEF Arrive
<1>8. b = [left EXCEPT !.workspaces = Append(@, w)]
  OBVIOUS
<1> HIDE DEF b, w
<1>9. Placed(p, nextWorkspace, b, M, nextWorkspace + 1)
  BY <1>3, <1>4, <1>8, PlacedNew
<1>10. QED
  BY <1>7, <1>9 DEF left

LEMMA PaneMoveStep ==
    ASSUME AppInv, NEW i \in Indices(app), NEW p \in PanesOf(app.workspaces[i]), NEW d \in Destinations(app), NEW focus,
           PaneMove(i, p, d, focus)
    PROVE  \E M : M \subseteq PanesAll(app.workspaces) /\ Stepped(M)
<1> DEFINE S == app.workspaces
           j == Index(app, d.ws)
           cross == d.ws # S[i].id
           a == Arrive(LeaveSource(app, i, p, cross), p, d, focus)
           M == IF cross THEN {p} ELSE {}
           nw == IF j = 0 THEN nextWorkspace + 1 ELSE nextWorkspace
<1>1. /\ IF j = 0 THEN nextWorkspace <= use.workspaces ELSE Numbers(j)
      /\ d.beside # 0 => /\ j # 0 /\ d.beside \in PanesOf(S[j])
                         /\ p \notin S[j].tabs[TabOf(S[j], d.beside)].panes
      /\ app' = Moved(a, d.ws, p, focus)
      /\ nextWorkspace' = nw /\ overlays' = overlays /\ nextPane' = nextPane
  BY Zenon DEF PaneMove, Keep, Moved
<1>2. /\ i \in DOMAIN S /\ p \in PanesIn(S[i].tabs) /\ AppOK(app, {}, use.numbers, nextPane, nextWorkspace)
      /\ PanesOf(S[i]) = PanesIn(S[i].tabs)
  BY Space
<1>3. /\ use.numbers \in Nat /\ nextPane \in Nat /\ nextWorkspace \in Nat /\ use.workspaces \in Nat
      /\ nextPane <= use.panes + 1 /\ nextWorkspace <= use.workspaces + 1 /\ use.panes \in Nat
  BY Bounds
<1>4. SpacesOK(S, use.numbers, nextWorkspace) /\ S \in Seq(SpaceRecord)
  BY <1>2 DEF AppOK, SpacesOK
<1>5. IF \E k \in DOMAIN S : S[k].id = d.ws THEN j \in DOMAIN S /\ S[j].id = d.ws ELSE j = 0
  BY <1>4, IndexFacts
<1>6. j = 0 => d.ws = nextWorkspace
  <2>1. ASSUME j = 0, NEW k \in Indices(app), d.ws = S[k].id PROVE FALSE
    <3>1. k \in DOMAIN S /\ 0 \notin DOMAIN S
      BY <1>4 DEF Indices
    <3>2. j \in DOMAIN S
      BY <1>5, <2>1, <3>1
    <3>3. QED
      BY <2>1, <3>1, <3>2
  <2>2. d.ws = nextWorkspace \/ \E k \in Indices(app) : d.ws = S[k].id
    BY DEF Destinations
  <2>3. QED
    BY <2>1, <2>2
<1>7. S[i].id < nextWorkspace
  BY <1>2, <1>3, <1>4, SpacesFacts
<1> HIDE DEF j
<1>8. Placed(p, d.ws, a, M, nw)
  <2>1. CASE ~cross
    <3>1. j \in DOMAIN S /\ S[j].id = S[i].id
      BY <1>2, <1>5, <2>1
    <3>2. j = i /\ j # 0
      <4>1. j # 0
        BY <1>4, <3>1
      <4> HIDE DEF S
      <4>2. QED
        BY <1>2, <1>4, <3>1, <4>1, SpacesApart
    <3>3. d.ws = S[i].id /\ Numbers(i) /\ a = Arrive(LeaveSource(app, i, p, FALSE), p, d, focus) /\ M = {} /\ nw = nextWorkspace
      BY <1>1, <2>1, <3>2
    <3>4. d.beside # 0 => d.beside \in PanesIn(S[i].tabs) /\ d.beside # p
      <4>1. ASSUME d.beside # 0 PROVE d.beside \in PanesIn(S[i].tabs) /\ d.beside # p
        <5>1. d.beside \in PanesIn(S[i].tabs) /\ p \notin S[i].tabs[TabOf(S[i], d.beside)].panes
          BY <1>1, <1>2, <3>2, <4>1
        <5>2. d.beside \in S[i].tabs[TabOf(S[i], d.beside)].panes
          BY <1>2, <1>3, <5>1, TabInApp
        <5>3. QED
          BY <5>1, <5>2
      <4>2. QED
        BY <4>1
    <3> HIDE DEF a, M, nw
    <3>5. QED
      BY <1>2, <3>3, <3>4, PlacedWithin
  <2>2. CASE cross /\ j # 0
    <3>1. j \in Indices(app) /\ d.ws = S[j].id /\ j # i
      BY <1>5, <2>2 DEF Indices
    <3>2. a = Arrive(LeaveSource(app, i, p, TRUE), p, d, focus) /\ M = {p} /\ nw = nextWorkspace /\ Numbers(j)
      BY <1>1, <2>2
    <3>3. d.beside # 0 => d.beside \in PanesIn(S[j].tabs)
      BY <1>1, PanesOfIn
    <3> HIDE DEF a, M, nw
    <3>4. QED
      BY <1>2, <3>1, <3>2, <3>3, PlacedAcross
  <2>3. CASE cross /\ j = 0
    <3>1. a = Arrive(LeaveSource(app, i, p, TRUE), p, d, focus) /\ M = {p} /\ nw = nextWorkspace + 1
      BY <2>3
    <3>2. d.ws = nextWorkspace
      BY <1>6, <2>3
    <3> HIDE DEF a, M, nw
    <3>3. QED
      BY <1>2, <3>1, <3>2, PlacedFresh
  <2>4. ASSUME ~cross /\ j = 0 PROVE FALSE
    BY <1>2, <1>5, <2>4, <1>6, <1>7, <1>3
  <2>5. QED
    BY <2>1, <2>2, <2>3
<1>9. nw \in Nat /\ nextWorkspace <= nw /\ nw \in nextWorkspace .. use.workspaces + 1
  BY <1>1, <1>3
<1>14. M \subseteq PanesAll(S)
  <2>1. p \in PanesAll(S)
    BY <1>2, PanesAllFacts
  <2>2. QED
    BY <2>1
<1> HIDE DEF a, M, nw
<1>10. Done(Moved(a, d.ws, p, focus), M, nextPane, nw)
  BY <1>8, <1>9, DonePlaced
<1>11. nextPane \in nextPane .. use.panes + 1
  BY <1>3
<1>12. Stepped(M)
  BY <1>1, <1>9, <1>10, <1>11, SteppedQuietly
<1>13. QED
  BY <1>12, <1>14

-----------------------------------------------------------------------------
(* layout.apply.                                                           *)

LayoutFirst(a, i) == [a EXCEPT !.workspaces[i] = AddTab(@, nextPane), !.terminals = @ \cup {nextPane}]
LayoutNext(a, i, k) == SplitIn(a, i, nextPane + k - 1, nextPane + k, FALSE)

\* The app while a layout is applied, as the last of those after each pane.
LEMMA LayoutRuns ==
    ASSUME NEW a, NEW i, NEW n \in Nat \ {0}
    PROVE  \E f : /\ f[0] = LayoutFirst(a, i)
                  /\ \A k \in 1 .. n - 1 : f[k] = LayoutNext(f[k - 1], i, k)
                  /\ WithLayout(a, i, n) = f[n - 1]
<1> DEFINE N == n - 1
           first == LayoutFirst(a, i)
           Next1(q, k) == LayoutNext(q, i, k)
           Run(f, m) == f[0] = first /\ \A k \in 1 .. m : f[k] = Next1(f[k - 1], k)
           Runs(m) == \E f : Run(f, m)
           G == {m \in 0 .. N : Runs(m)}
<1>1. N \in Nat
  OBVIOUS
<1> HIDE DEF N, Next1, first
<1>2. 0 \in G
  <2> DEFINE f == [k \in {0} |-> first]
  <2>1. Run(f, 0)
    OBVIOUS
  <2> HIDE DEF Run
  <2>2. Runs(0)
    BY <2>1
  <2> HIDE DEF Runs
  <2>3. QED
    BY <1>1, <2>2
<1>3. ASSUME NEW m \in 0 .. N - 1, m \in G PROVE m + 1 \in G
  <2>1. PICK f : Run(f, m)
    <3> HIDE DEF Run
    <3>1. QED
      BY <1>3
  <2> DEFINE g == [k \in 0 .. m + 1 |-> IF k = m + 1 THEN Next1(f[m], m + 1) ELSE f[k]]
  <2>2. g[0] = first
    BY <2>1
  <2>3. ASSUME NEW k \in 1 .. m + 1 PROVE g[k] = Next1(g[k - 1], k)
    BY <2>1
  <2>4. Run(g, m + 1)
    BY <2>2, <2>3
  <2> HIDE DEF Run, g
  <2>5. Runs(m + 1)
    BY <2>4
  <2> HIDE DEF Runs
  <2>6. QED
    BY <1>1, <2>5
<1>4. N \in G
  <2> HIDE DEF G
  <2>1. \A m \in 0 .. N : m \in G
    BY <1>1, <1>2, <1>3, UpTo
  <2>2. QED
    BY <1>1, <2>1
<1>5. PICK f : Run(f, N)
  <2> HIDE DEF Run
  <2>1. QED
    BY <1>4
<1> DEFINE Eq(g) == g = [k \in 0 .. N |-> IF k = 0 THEN first ELSE Next1(g[k - 1], k)]
           h == [k \in 0 .. N |-> f[k]]
           taken == CHOOSE g : Eq(g)
<1>6. Eq(h)
  <2>1. SUFFICES ASSUME NEW k \in 0 .. N PROVE h[k] = IF k = 0 THEN first ELSE Next1(h[k - 1], k)
    BY Zenon
  <2>2. CASE k = 0
    BY <1>5, <2>2
  <2>3. CASE k # 0
    <3>1. k \in 1 .. N /\ k - 1 \in 0 .. N
      BY <1>1, <2>3
    <3>2. f[k] = Next1(f[k - 1], k)
      BY <1>5, <3>1
    <3>3. QED
      BY <2>3, <3>1, <3>2
  <2>4. QED
    BY <2>2, <2>3
<1>7. Eq(taken)
  BY <1>6, Zenon
<1>8. WithLayout(a, i, n) = taken[N]
  <2>1. taken = CHOOSE g : g = [k \in 0 .. n - 1 |->
                    IF k = 0 THEN LayoutFirst(a, i)
                    ELSE SplitIn(g[k - 1], i, nextPane + k - 1, nextPane + k, FALSE)]
    BY Zenon DEF N, Next1, first, LayoutNext
  <2> HIDE DEF taken
  <2>2. QED
    BY <2>1, Zenon DEF WithLayout, LayoutFirst, N
<1> HIDE DEF taken
<1>9. taken[0] = first
  BY <1>1, <1>7
<1>10. ASSUME NEW k \in 1 .. N PROVE taken[k] = Next1(taken[k - 1], k)
  BY <1>1, <1>7
<1>11. QED
  BY <1>8, <1>9, <1>10 DEF N, Next1, first

\* The app when pane k + 1 of a layout is there.
Laid(i, k, a) ==
    /\ AppOK(a, {}, use.numbers, nextPane + k + 1, nextWorkspace)
    /\ Follows(app.workspaces, a.workspaces, {}, nextPane, nextWorkspace)
    /\ DOMAIN a.workspaces = DOMAIN app.workspaces /\ a.active = app.active /\ a.selected = app.selected
    /\ a.aliases = app.aliases /\ nextPane + k \in PanesIn(a.workspaces[i].tabs)
    /\ a.workspaces[i].next_pane = app.workspaces[i].next_pane + k + 1
    /\ Len(a.workspaces[i].tabs) = Len(app.workspaces[i].tabs) + 1

LEMMA LaidFirst ==
    ASSUME AppInv, NEW i \in Indices(app), app.workspaces[i].next_pane <= use.numbers,
           app.workspaces[i].next_tab <= use.numbers
    PROVE  Laid(i, 0, LayoutFirst(app, i))
<1> DEFINE v == app.workspaces[i]
           w == AddTab(v, nextPane)
           T == app.terminals \cup {nextPane}
           a == AppPut(app, i, w, T)
<1>1. /\ i \in DOMAIN app.workspaces /\ SpaceOK(v, {}, use.numbers)
      /\ AppOK(app, {}, use.numbers, nextPane, nextWorkspace) /\ nextPane \notin PanesIn(v.tabs)
      /\ v.next_pane \in Nat /\ v.next_tab \in Nat /\ v.tabs # <<>>
  BY Space
<1>2. use.numbers \in Nat /\ nextPane \in Nat \ {0} /\ nextWorkspace \in Nat /\ nextPane \in Nat
  BY Bounds
<1>3. app \in AppRecord /\ T \in SUBSET Nat
  BY <1>1, <1>2, AppFields DEF AppOK
<1>4. LayoutFirst(app, i) = a
  BY Zenon DEF AppPut, LayoutFirst
<1>5. GainsTab(v, nextPane, w, use.numbers)
  <2> DEFINE X == {}
  <2>1. X \subseteq {nextPane} /\ SpaceOK(v, X, use.numbers) /\ (v.tabs = <<>> => v.active_tab = 1)
        /\ v.next_pane <= use.numbers /\ v.next_tab <= use.numbers
    BY <1>1
  <2> HIDE DEF v, X
  <2>2. QED
    BY <1>1, <1>2, <2>1, AddTabOK
<1>6. /\ SpaceOK(w, {}, use.numbers) /\ Kin(v, w) /\ PanesIn(w.tabs) = PanesIn(v.tabs) \cup {nextPane}
      /\ Len(w.tabs) = Len(v.tabs) + 1 /\ w.next_pane = Numbered(v, nextPane).next_pane
  BY <1>5 DEF GainsTab
<1>7. w.next_pane = v.next_pane + 1
  <2> HIDE DEF v
  <2>1. v \in SpaceRecord /\ nextPane \notin DOMAIN v.numbers
    BY <1>1, <1>2, SpaceFacts
  <2>2. QED
    BY <1>6, <2>1, NumberedFacts
<1> HIDE DEF w
<1>8. w \in SpaceRecord /\ w.tabs # <<>>
  <2>1. w \in SpaceRecord /\ Len(v.tabs) \in Nat
    <3> HIDE DEF v
    <3>1. QED
      BY <1>1, <1>2, <1>6, SpaceFacts
  <2>2. QED
    BY <1>6, <2>1
<1>9. AppOK(a, {}, use.numbers, nextPane + 1, nextWorkspace) /\ Follows(app.workspaces, a.workspaces, {}, nextPane, nextWorkspace)
  <2> DEFINE Q == T
  <2>1. Q = app.terminals \cup {nextPane}
    OBVIOUS
  <2> HIDE DEF Q
  <2>2. LET b == AppPut(app, i, w, Q)
        IN  /\ AppOK(b, {}, use.numbers, nextPane + 1, nextWorkspace)
            /\ Follows(app.workspaces, b.workspaces, {}, nextPane, nextWorkspace)
    BY <1>1, <1>2, <1>6, <1>8, <2>1, GrownOK
  <2>3. QED
    BY <2>2 DEF Q
<1>10. IsPut(app, i, w, T, a)
  <2> HIDE DEF T
  <2>1. QED
    BY <1>1, <1>3, <1>8, AppPutFields
<1> HIDE DEF T, a
<1>11. /\ a.active = app.active /\ a.selected = app.selected /\ a.aliases = app.aliases
       /\ DOMAIN a.workspaces = DOMAIN app.workspaces /\ a.workspaces[i] = w
  BY <1>10 DEF IsPut
<1>12. nextPane + 0 + 1 = nextPane + 1 /\ nextPane + 0 = nextPane /\ v.next_pane + 0 + 1 = v.next_pane + 1
  BY <1>1, <1>2
<1>13. nextPane + 0 \in PanesIn(a.workspaces[i].tabs)
  BY <1>6, <1>11, <1>12
<1>14. QED
  BY <1>4, <1>6, <1>7, <1>9, <1>11, <1>12, <1>13 DEF Laid

LEMMA LaidNext ==
    ASSUME AppInv, NEW i \in Indices(app), NEW k \in Nat, NEW a, Laid(i, k, a),
           app.workspaces[i].next_pane + k + 1 <= use.numbers
    PROVE  Laid(i, k + 1, LayoutNext(a, i, k + 1))
<1> DEFINE S == app.workspaces
           v == a.workspaces[i]
           np == nextPane + k + 1
           t == nextPane + k
           f == FALSE
           w == SplitSpace(v, t, np, f)
           b == SplitIn(a, i, t, np, f)
<1>1. i \in DOMAIN S /\ AppOK(app, {}, use.numbers, nextPane, nextWorkspace) /\ S[i].next_pane \in Nat
  BY Space
<1>2. /\ use.numbers \in Nat /\ nextPane \in Nat /\ nextWorkspace \in Nat /\ nextWorkspace \in Nat \ {0}
      /\ np \in Nat \ {0} /\ np \in Nat /\ nextPane <= np /\ t \in Nat /\ np + 1 \in Nat /\ nextWorkspace <= nextWorkspace
  BY Bounds
<1>3. /\ AppOK(a, {}, use.numbers, np, nextWorkspace) /\ Follows(S, a.workspaces, {}, nextPane, nextWorkspace)
      /\ DOMAIN a.workspaces = DOMAIN S /\ a.active = app.active /\ a.selected = app.selected
      /\ a.aliases = app.aliases /\ t \in PanesIn(v.tabs)
      /\ v.next_pane = S[i].next_pane + k + 1 /\ Len(v.tabs) = Len(S[i].tabs) + 1
  BY DEF Laid
<1>4. LayoutNext(a, i, k + 1) = b
  <2>1. nextPane + (k + 1) - 1 = t /\ nextPane + (k + 1) = np
    BY <1>2
  <2>2. QED
    BY <2>1 DEF LayoutNext
<1>5. v.next_pane <= use.numbers /\ i \in DOMAIN a.workspaces
  BY <1>1, <1>3
<1> HIDE DEF np, t, b, f
<1>6. /\ AppOK(b, {}, use.numbers, np + 1, nextWorkspace) /\ Follows(a.workspaces, b.workspaces, {}, np, nextWorkspace)
      /\ DOMAIN b.workspaces = DOMAIN a.workspaces /\ b.active = a.active /\ b.selected = a.selected
      /\ b.aliases = a.aliases /\ b.workspaces[i] = w
  BY <1>2, <1>3, <1>5, SplitInOK DEF b
<1>7. Follows(S, b.workspaces, {}, nextPane, nextWorkspace)
  <2> DEFINE X == {}
             M == {}
  <2>1. /\ AppOK(app, X, use.numbers, nextPane, nextWorkspace) /\ AppOK(a, X, use.numbers, np, nextWorkspace)
        /\ AppOK(b, X, use.numbers, np + 1, nextWorkspace) /\ Follows(S, a.workspaces, M, nextPane, nextWorkspace)
    BY <1>1, <1>3, <1>6
  <2> HIDE DEF X, M
  <2>2. Follows(S, b.workspaces, M, nextPane, nextWorkspace)
    BY <1>2, <1>6, <2>1, FollowsThen
  <2>3. QED
    BY <2>2 DEF M
<1>8. /\ SpaceOK(v, {}, use.numbers) /\ np \notin PanesIn(v.tabs)
  <2>1. SpaceOK(v, {}, use.numbers)
    BY <1>3, <1>5 DEF AppOK, SpacesOK
  <2>2. \A p \in PanesIn(v.tabs) : p \in 1 .. np - 1
    BY <1>3, <1>5, PanesAllFacts DEF AppOK
  <2>3. QED
    BY <1>2, <2>1, <2>2
<1>9. w.next_pane = v.next_pane + 1 /\ Len(w.tabs) = Len(v.tabs) /\ np \in PanesIn(w.tabs)
  <2> HIDE DEF v
  <2>1. w.next_pane = v.next_pane + 1 /\ Len(w.tabs) = Len(v.tabs)
    BY <1>2, <1>3, <1>5, <1>8, SplitSpaceFacts
  <2>2. np \in PanesIn(w.tabs)
    BY <1>2, <1>3, <1>5, <1>8, SplitSpacePanes
  <2>3. QED
    BY <2>1, <2>2
<1>10. nextPane + (k + 1) + 1 = np + 1 /\ nextPane + (k + 1) = np /\ w.next_pane = S[i].next_pane + (k + 1) + 1
  <2> DEFINE m == w.next_pane
             l == v.next_pane
             o == S[i].next_pane
  <2>1. m = l + 1 /\ l = o + k + 1 /\ o \in Nat
    BY <1>1, <1>3, <1>9
  <2> HIDE DEF m, l, o
  <2>2. m = o + (k + 1) + 1
    BY <2>1
  <2>3. QED
    BY <1>2, <2>2 DEF np, m, o
<1> HIDE DEF w, v
<1>11. Laid(i, k + 1, b)
  BY <1>3, <1>6, <1>7, <1>9, <1>10 DEF Laid, v
<1>12. QED
  BY <1>4, <1>11

LEMMA WithLayoutIs ==
    ASSUME AppInv, NEW i \in Indices(app), NEW n \in Nat \ {0}, Room(i, n)
    PROVE  Laid(i, n - 1, WithLayout(app, i, n))
<1> DEFINE v == app.workspaces[i]
<1>1. v.next_pane \in Nat /\ v.next_tab \in Nat /\ use.numbers \in Nat /\ n - 1 \in Nat
  BY Space, Bounds
<1>2. v.next_pane + n - 1 <= use.numbers /\ v.next_tab <= use.numbers
  BY DEF Room
<1>3. v.next_pane <= use.numbers
  BY <1>1, <1>2
<1>4. PICK f : /\ f[0] = LayoutFirst(app, i)
               /\ \A k \in 1 .. n - 1 : f[k] = LayoutNext(f[k - 1], i, k)
               /\ WithLayout(app, i, n) = f[n - 1]
  BY LayoutRuns
<1> DEFINE G == {k \in 0 .. n - 1 : Laid(i, k, f[k])}
<1>5. 0 \in G
  <2>1. Laid(i, 0, f[0])
    BY <1>2, <1>3, <1>4, LaidFirst
  <2>2. QED
    BY <1>1, <2>1
<1>6. ASSUME NEW k \in 0 .. (n - 1) - 1, k \in G PROVE k + 1 \in G
  <2>1. k \in Nat /\ k + 1 \in 1 .. n - 1 /\ k + 1 - 1 = k /\ v.next_pane + k + 1 <= use.numbers
    BY <1>1, <1>2
  <2>2. f[k + 1] = LayoutNext(f[k], i, k + 1) /\ Laid(i, k, f[k])
    BY <1>4, <1>6, <2>1
  <2>3. Laid(i, k + 1, f[k + 1])
    BY <2>1, <2>2, LaidNext
  <2>4. QED
    BY <1>1, <2>1, <2>3
<1>7. n - 1 \in G
  <2> DEFINE m == n - 1
  <2>1. m \in Nat /\ \A k \in 0 .. m - 1 : k \in G => k + 1 \in G
    BY <1>1, <1>6
  <2> HIDE DEF m, G
  <2>2. \A k \in 0 .. m : k \in G
    BY <1>5, <2>1, UpTo
  <2>3. m \in 0 .. m
    BY <2>1
  <2>4. QED
    BY <2>2, <2>3 DEF m
<1>8. QED
  BY <1>4, <1>7

\* The app after a layout, before the focus; np is the next pane then.
Replaced(i, np, b) ==
    /\ AppOK(b, {}, use.numbers, np, nextWorkspace)
    /\ Follows(app.workspaces, b.workspaces, {}, nextPane, nextWorkspace)
    /\ DOMAIN b.workspaces = DOMAIN app.workspaces /\ b.active = app.active /\ b.selected = app.selected
    /\ b.aliases = app.aliases /\ Len(b.workspaces[i].tabs) \in DOMAIN b.workspaces[i].tabs

\* A tab of the app with the layout is closed.
LEMMA LaidClosed ==
    ASSUME AppInv, NEW i \in Indices(app), NEW k \in Nat, NEW a, Laid(i, k, a), NEW t \in DOMAIN a.workspaces[i].tabs,
           NEW P, P = a.workspaces[i].tabs[t].panes
    PROVE  Replaced(i, nextPane + k + 1, Forget([a EXCEPT !.workspaces[i] = CloseTab(a.workspaces[i], t)], P))
<1> DEFINE S == app.workspaces
           v == a.workspaces[i]
           np == nextPane + k + 1
           w == CloseTab(v, t)
           b == AppPut(a, i, w, a.terminals)
           c == Forget(b, P)
<1>1. /\ i \in DOMAIN S /\ AppOK(app, {}, use.numbers, nextPane, nextWorkspace) /\ S[i].tabs # <<>>
      /\ SpaceOK(S[i], {}, use.numbers)
  BY Space
<1>2. /\ use.numbers \in Nat /\ nextPane \in Nat /\ nextWorkspace \in Nat /\ nextWorkspace \in Nat \ {0}
      /\ np \in Nat \ {0} /\ np \in Nat /\ nextPane <= np /\ nextWorkspace <= nextWorkspace
  BY Bounds
<1>3. /\ AppOK(a, {}, use.numbers, np, nextWorkspace) /\ Follows(S, a.workspaces, {}, nextPane, nextWorkspace)
      /\ DOMAIN a.workspaces = DOMAIN S /\ a.active = app.active /\ a.selected = app.selected
      /\ a.aliases = app.aliases /\ Len(v.tabs) = Len(S[i].tabs) + 1
  BY DEF Laid
<1>4. /\ i \in DOMAIN a.workspaces /\ a \in AppRecord /\ a.terminals \in SUBSET Nat /\ SpaceOK(v, {}, use.numbers)
  BY <1>1, <1>3, AppFields DEF AppOK, SpacesOK
<1>5. Loses(v, P, w, use.numbers) /\ Len(w.tabs) = Len(v.tabs) - 1 /\ P \subseteq PanesIn(v.tabs)
  <2>1. t \in DOMAIN v.tabs /\ P = v.tabs[t].panes
    OBVIOUS
  <2>2. P \subseteq PanesIn(v.tabs)
    BY <2>1, PanesInFacts
  <2> HIDE DEF v
  <2>3. QED
    BY <1>2, <1>4, <2>1, <2>2, CloseTabOK
<1>6. /\ SpaceOK(w, {}, use.numbers) /\ Kin(v, w) /\ PanesIn(w.tabs) = PanesIn(v.tabs) \ P
  BY <1>5 DEF Loses
<1> HIDE DEF w
<1>7. w \in SpaceRecord /\ w.tabs # <<>> /\ Len(w.tabs) \in DOMAIN w.tabs
  <2> DEFINE u == S[i]
  <2>1. SpaceOK(u, {}, use.numbers) /\ u.tabs # <<>> /\ Len(v.tabs) = Len(u.tabs) + 1
    BY <1>1, <1>3
  <2> HIDE DEF u, v
  <2>2. u.tabs \in Seq(TabRecord) /\ w.tabs \in Seq(TabRecord) /\ w \in SpaceRecord /\ DOMAIN w.tabs = 1 .. Len(w.tabs)
    BY <1>2, <1>6, <2>1, SpaceFacts
  <2>3. Len(u.tabs) \in Nat \ {0}
    BY <2>1, <2>2
  <2>4. Len(w.tabs) = Len(u.tabs)
    BY <1>5, <2>1, <2>3
  <2>5. QED
    BY <2>2, <2>3, <2>4
<1>8. AppOK(b, P, use.numbers, np, nextWorkspace) /\ Follows(a.workspaces, b.workspaces, {}, np, nextWorkspace)
  BY <1>2, <1>3, <1>4, <1>5, <1>6, <1>7, ShrunkOK
<1>9. IsPut(a, i, w, a.terminals, b)
  BY <1>4, <1>7, AppPutFields
<1>10. [a EXCEPT !.workspaces[i] = w] = b
  BY <1>4, AppPutSame
<1> HIDE DEF b
<1>11. /\ AppOK(c, {}, use.numbers, np, nextWorkspace) /\ c.workspaces = b.workspaces /\ c.active = b.active
       /\ c.selected = b.selected /\ c.aliases = b.aliases
  <2> HIDE DEF np
  <2>1. QED
    BY <1>2, <1>8, ForgetOK
<1> HIDE DEF c, np
<1>12. Follows(S, c.workspaces, {}, nextPane, nextWorkspace)
  <2> DEFINE X == {}
             M == {}
  <2>1. /\ AppOK(app, X, use.numbers, nextPane, nextWorkspace) /\ AppOK(a, X, use.numbers, np, nextWorkspace)
        /\ AppOK(c, X, use.numbers, np, nextWorkspace) /\ Follows(S, a.workspaces, M, nextPane, nextWorkspace)
        /\ Follows(a.workspaces, c.workspaces, {}, np, nextWorkspace)
    BY <1>1, <1>3, <1>8, <1>11
  <2> HIDE DEF X, M
  <2>2. Follows(S, c.workspaces, M, nextPane, nextWorkspace)
    BY <1>2, <2>1, FollowsThen
  <2>3. QED
    BY <2>2 DEF M
<1>13. c.workspaces[i] = w /\ DOMAIN c.workspaces = DOMAIN S /\ c.active = app.active /\ c.selected = app.selected
       /\ c.aliases = app.aliases
  BY <1>3, <1>9, <1>11 DEF IsPut
<1>14. Replaced(i, np, c)
  BY <1>7, <1>11, <1>12, <1>13 DEF Replaced
<1>15. QED
  BY <1>10, <1>14 DEF c, np, w

LEMMA ReplacedIs ==
    ASSUME AppInv, NEW i \in Indices(app), NEW n \in Nat \ {0}, Room(i, n),
           NEW t \in {0} \cup DOMAIN app.workspaces[i].tabs
    PROVE  Replaced(i, nextPane + n, ReplaceTab(app, i, t, n))
<1> DEFINE b == WithLayout(app, i, n)
           v == b.workspaces[i]
           k == n - 1
<1>1. Laid(i, k, b)
  BY WithLayoutIs
<1>2. k \in Nat /\ nextPane \in Nat /\ nextPane + k + 1 = nextPane + n /\ use.numbers \in Nat /\ nextWorkspace \in Nat
  BY Bounds
<1> HIDE DEF b, k
<1>3. /\ AppOK(b, {}, use.numbers, nextPane + n, nextWorkspace)
      /\ Follows(app.workspaces, b.workspaces, {}, nextPane, nextWorkspace)
      /\ DOMAIN b.workspaces = DOMAIN app.workspaces /\ b.active = app.active /\ b.selected = app.selected
      /\ b.aliases = app.aliases /\ Len(v.tabs) = Len(app.workspaces[i].tabs) + 1
  BY <1>1, <1>2 DEF Laid
<1>4. DOMAIN app.workspaces[i].tabs \subseteq DOMAIN v.tabs /\ Len(v.tabs) \in DOMAIN v.tabs
  <2> DEFINE u == app.workspaces[i]
  <2>1. SpaceOK(u, {}, use.numbers) /\ i \in DOMAIN app.workspaces
    BY Space
  <2>2. SpaceOK(v, {}, use.numbers)
    BY <1>3, <2>1 DEF AppOK, SpacesOK
  <2>3. Len(v.tabs) = Len(u.tabs) + 1
    BY <1>3
  <2> HIDE DEF u, v
  <2>4. DOMAIN u.tabs = 1 .. Len(u.tabs) /\ Len(u.tabs) \in Nat /\ DOMAIN v.tabs = 1 .. Len(v.tabs)
    BY <1>2, <2>1, <2>2, SpaceFacts
  <2>5. DOMAIN u.tabs \subseteq DOMAIN v.tabs /\ Len(v.tabs) \in DOMAIN v.tabs
    BY <2>3, <2>4
  <2>6. QED
    BY <2>5 DEF u
<1>5. CASE t = 0
  <2>1. ReplaceTab(app, i, t, n) = b
    BY <1>5 DEF ReplaceTab, b
  <2>2. Replaced(i, nextPane + n, b)
    BY <1>3, <1>4 DEF Replaced
  <2>3. QED
    BY <2>1, <2>2
<1>6. CASE t # 0
  <2>1. t \in DOMAIN v.tabs
    BY <1>4, <1>6
  <2>2. ReplaceTab(app, i, t, n) = Forget([b EXCEPT !.workspaces[i] = CloseTab(v, t)], v.tabs[t].panes)
    BY <1>6, Zenon DEF ReplaceTab, b
  <2>3. Replaced(i, nextPane + k + 1, Forget([b EXCEPT !.workspaces[i] = CloseTab(v, t)], v.tabs[t].panes))
    BY <1>1, <1>2, <2>1, LaidClosed
  <2>4. QED
    BY <1>2, <2>2, <2>3
<1>7. QED
  BY <1>5, <1>6

LEMMA LayoutApplyStep ==
    ASSUME AppInv, NEW i \in Indices(app), NEW t, NEW n \in 1 .. use.panes, NEW focus, LayoutApply(i, t, n, focus)
    PROVE  Stepped({})
<1> DEFINE a == ReplaceTab(app, i, t, n)
           np == nextPane + n
           shows == focus \/ (app.active = i /\ t = app.workspaces[i].active_tab)
<1>1. /\ overlays' = overlays /\ nextPane' = np /\ nextWorkspace' = nextWorkspace /\ Room(i, n)
      /\ t \in {0} \cup DOMAIN app.workspaces[i].tabs
      /\ app' = IF shows THEN SwitchTab(a, i, Len(a.workspaces[i].tabs)) ELSE a
  BY DEF LayoutApply, Keep
<1>2. /\ n \in Nat \ {0} /\ nextPane \in Nat /\ np \in Nat \ {0} /\ nextPane <= np /\ use.panes \in Nat /\ nextWorkspace \in Nat
      /\ nextWorkspace <= use.workspaces + 1 /\ use.workspaces \in Nat
  BY Bounds
<1>3. Replaced(i, np, a)
  BY <1>1, <1>2, ReplacedIs
<1> HIDE DEF a
<1>4. /\ AppOK(a, {}, use.numbers, np, nextWorkspace)
      /\ Follows(app.workspaces, a.workspaces, {}, nextPane, nextWorkspace)
      /\ DOMAIN a.workspaces = DOMAIN app.workspaces /\ a.active = app.active /\ a.selected = app.selected
      /\ a.aliases = app.aliases /\ Len(a.workspaces[i].tabs) \in DOMAIN a.workspaces[i].tabs
  BY <1>3 DEF Replaced
<1>5. i \in DOMAIN app.workspaces /\ i \in DOMAIN a.workspaces
  BY <1>4, Space
<1>6. Done(app', {}, np, nextWorkspace)
  <2> HIDE DEF np, shows
  <2>1. CASE shows
    <3>1. app' = SwitchTab(a, i, Len(a.workspaces[i].tabs))
      BY <1>1, <2>1
    <3>2. QED
      BY <1>2, <1>4, <1>5, <3>1, ShownAfter
  <2>2. CASE ~shows
    <3>1. app' = a
      BY <1>1, <2>2
    <3>2. QED
      BY <1>4, <1>5, <3>1, DoneSame
  <2>3. QED
    BY <2>1, <2>2
<1>7. np \in nextPane .. use.panes + 1 /\ nextWorkspace \in nextWorkspace .. use.workspaces + 1
  <2>1. nextPane + n - 1 <= use.panes
    BY <1>1 DEF Room
  <2>2. QED
    BY <1>2, <2>1
<1>8. QED
  BY <1>1, <1>6, <1>7, SteppedQuietly

LEMMA LayoutFailsStep ==
    ASSUME AppInv, NEW i \in Indices(app), NEW n \in 1 .. use.panes, LayoutFails(i, n)
    PROVE  Stepped({})
<1> DEFINE a == WithLayout(app, i, n)
           w == a.workspaces[i]
           b == Rollback(a, i)
           k == n - 1
           np == nextPane + n
           np1 == nextPane + n + 1
<1>1. /\ overlays' = overlays /\ nextPane' = np1 /\ nextWorkspace' = nextWorkspace /\ Room(i, n + 1) /\ app' = b
  BY DEF LayoutFails, Keep
<1>2. /\ n \in Nat \ {0} /\ k \in Nat /\ nextPane \in Nat /\ np \in Nat /\ np1 \in Nat /\ np <= np1 /\ nextPane <= np1
      /\ use.panes \in Nat /\ nextWorkspace \in Nat /\ use.numbers \in Nat /\ nextPane + k + 1 = np
      /\ nextWorkspace <= use.workspaces + 1 /\ use.workspaces \in Nat
  BY Bounds
<1>3. Room(i, n) /\ nextPane + n <= use.panes
  <2> DEFINE m == app.workspaces[i].next_pane
  <2>1. m \in Nat
    BY Space
  <2>2. nextPane + (n + 1) - 1 <= use.panes /\ app.workspaces[i].next_tab <= use.numbers /\ m + (n + 1) - 1 <= use.numbers
    BY <1>1 DEF Room
  <2> HIDE DEF m
  <2>3. nextPane + n - 1 <= use.panes /\ m + n - 1 <= use.numbers /\ nextPane + n <= use.panes
    BY <1>2, <2>1, <2>2
  <2>4. QED
    BY <2>2, <2>3 DEF Room, m
<1>4. Laid(i, k, a)
  BY <1>2, <1>3, WithLayoutIs
<1> HIDE DEF a, k
<1>5. Len(w.tabs) \in DOMAIN w.tabs
  <2> DEFINE u == app.workspaces[i]
  <2>1. /\ SpaceOK(u, {}, use.numbers) /\ Len(w.tabs) = Len(u.tabs) + 1
    BY <1>4, Space DEF Laid
  <2>2. SpaceOK(w, {}, use.numbers)
    BY <1>4, Space DEF Laid, AppOK, SpacesOK
  <2> HIDE DEF u, w
  <2>3. Len(u.tabs) \in Nat /\ DOMAIN w.tabs = 1 .. Len(w.tabs)
    BY <1>2, <2>1, <2>2, SpaceFacts
  <2>4. QED
    BY <2>1, <2>3
<1>6. Replaced(i, nextPane + k + 1, b)
  <2>1. b = Forget([a EXCEPT !.workspaces[i] = CloseTab(w, Len(w.tabs))], w.tabs[Len(w.tabs)].panes)
    BY Zenon DEF Rollback
  <2>2. k \in Nat /\ nextPane + k + 1 = np
    BY <1>2
  <2> DEFINE t == Len(w.tabs)
             P == w.tabs[t].panes
  <2> HIDE DEF k, np, t, P, b
  <2>3. t \in DOMAIN w.tabs /\ P = w.tabs[t].panes
    BY <1>5 DEF t, P
  <2>4. b = Forget([a EXCEPT !.workspaces[i] = CloseTab(a.workspaces[i], t)], P)
    BY <2>1 DEF t, P
  <2>5. Replaced(i, nextPane + k + 1, b)
    BY <1>4, <2>2, <2>3, <2>4, LaidClosed
  <2>6. QED
    BY <2>2, <2>5
<1> HIDE DEF b
<1>7. /\ AppOK(b, {}, use.numbers, np, nextWorkspace)
      /\ Follows(app.workspaces, b.workspaces, {}, nextPane, nextWorkspace)
      /\ DOMAIN b.workspaces = DOMAIN app.workspaces /\ b.active = app.active /\ b.selected = app.selected
      /\ b.aliases = app.aliases
  BY <1>2, <1>6 DEF Replaced
<1> HIDE DEF np, np1
<1>8. AppOK(b, {}, use.numbers, np1, nextWorkspace)
  BY <1>2, <1>7, LaterOK
<1>9. i \in DOMAIN app.workspaces
  BY Space
<1>10. Done(b, {}, np1, nextWorkspace)
  BY <1>7, <1>8, <1>9, DoneSame
<1>11. np1 \in nextPane .. use.panes + 1 /\ nextWorkspace \in nextWorkspace .. use.workspaces + 1
  BY <1>2, <1>3 DEF np1
<1>12. QED
  BY <1>1, <1>10, <1>11, SteppedQuietly

-----------------------------------------------------------------------------
(* A restart.                                                              *)

\* The workspaces that a restart which loses some panes does not leave out.
LeftOver(a, lost) == Only(a.workspaces, {i \in Indices(a) : ~(PanesOf(a.workspaces[i]) \subseteq lost)})

IsLeftOver(S, lost, left, N, nw) ==
    /\ left \in Seq(SpaceRecord) /\ SpacesOK(left, N, nw)
    /\ \A i \in DOMAIN left : ~(PanesIn(left[i].tabs) \subseteq lost)
    /\ \A p : p \in PanesAll(S) /\ p \notin lost <=> p \in PanesAll(left) /\ p \notin lost
    /\ Len(left) <= Len(S) /\ (lost = {} => Len(left) = Len(S))

LEMMA LeftOverIs ==
    ASSUME NEW N \in Nat, NEW nw \in Nat, NEW a, SpacesOK(a.workspaces, N, nw), NEW lost
    PROVE  IsLeftOver(a.workspaces, lost, LeftOver(a, lost), N, nw)
<1> DEFINE S == a.workspaces
           K == {i \in Indices(a) : ~(PanesOf(a.workspaces[i]) \subseteq lost)}
           left == LeftOver(a, lost)
<1>0. SpacesOK(S, N, nw)
  OBVIOUS
<1>1. S \in Seq(SpaceRecord) /\ DOMAIN S = 1 .. Len(S) /\ Len(S) \in Nat
  BY SpacesFacts
<1>2. Once(S)
  BY SpacesApart
<1>3. \A i : i \in K <=> i \in DOMAIN S /\ ~(PanesIn(S[i].tabs) \subseteq lost)
  BY PanesOfIn DEF Indices
<1>4. left = Only(S, K)
  BY DEF LeftOver
<1> HIDE DEF K, left, S
<1>5. K \subseteq 1 .. Len(S)
  BY <1>1, <1>3
<1>6. left \in Seq(SpaceRecord) /\ Once(left) /\ Len(left) <= Len(S)
  BY <1>1, <1>2, <1>4, <1>5, OnlyFacts
<1>7. \A w : w \in ToSet(left) <=> \E k \in K : w = S[k]
  <2>1. ToSet(Only(S, K)) = {S[k] : k \in K}
    BY <1>1, <1>2, <1>5, OnlySet
  <2>2. QED
    BY <1>4, <2>1
<1>8. ToSet(left) \subseteq ToSet(S)
  BY <1>1, <1>5, <1>7 DEF ToSet
<1>9. SpacesOK(left, N, nw)
  BY <1>0, <1>6, <1>8, SpacesPicked
<1>10. \A i \in DOMAIN left : left[i] \in ToSet(left)
  BY <1>6 DEF ToSet
<1>11. \A i \in DOMAIN left : ~(PanesIn(left[i].tabs) \subseteq lost)
  BY <1>3, <1>7, <1>10
<1>12. ASSUME NEW p, p \notin lost PROVE p \in PanesAll(S) <=> p \in PanesAll(left)
  <2>1. ASSUME NEW i \in DOMAIN S, p \in PanesIn(S[i].tabs) PROVE p \in PanesAll(left)
    <3>1. i \in K
      BY <1>3, <1>12, <2>1
    <3>2. S[i] \in ToSet(left)
      BY <1>7, <3>1
    <3>3. PICK j \in DOMAIN left : left[j] = S[i]
      BY <1>6, <3>2 DEF ToSet
    <3>4. QED
      BY <2>1, <3>3, PanesAllFacts
  <2>2. PanesAll(left) \subseteq PanesAll(S)
    BY <1>8, PanesPicked
  <2>3. QED
    BY <2>1, <2>2, PanesAllFacts
<1>13. ASSUME lost = {} PROVE Len(left) = Len(S)
  <2>1. ASSUME NEW i \in DOMAIN S PROVE i \in K
    <3>1. TabsOK(S[i].tabs) /\ S[i].tabs # <<>> /\ S[i].tabs \in Seq(TabRecord) /\ S[i].active_tab \in DOMAIN S[i].tabs
      BY <1>0, SpacesFacts
    <3>2. TabOK(S[i].tabs[S[i].active_tab])
      BY <3>1 DEF TabsOK
    <3>3. \E p : p \in PanesIn(S[i].tabs)
      BY <3>1, <3>2, PanesInFacts DEF TabOK
    <3>4. QED
      BY <1>3, <1>13, <3>3
  <2>2. ToSet(S) \subseteq ToSet(left)
    BY <1>1, <1>7, <2>1 DEF ToSet
  <2>3. ToSet(S) = ToSet(left)
    BY <1>8, <2>2
  <2>4. Cardinality(ToSet(S)) = Len(S) /\ Cardinality(ToSet(left)) = Len(left)
    BY <1>1, <1>2, <1>6, OnceLen
  <2>5. QED
    BY <2>3, <2>4
<1>14. QED
  BY <1>6, <1>9, <1>11, <1>12, <1>13 DEF IsLeftOver, left, S

IsReborn(left, lost, T, N, nw) ==
    /\ SpacesOK(T, N, nw) /\ Len(T) = Len(left)
    /\ \A p : p \in PanesAll(T) <=> p \in PanesAll(left) /\ p \notin lost

LEMMA RebornIs ==
    ASSUME NEW N \in Nat, NEW nw \in Nat, NEW S, NEW lost, NEW left, IsLeftOver(S, lost, left, N, nw)
    PROVE  IsReborn(left, lost, [i \in 1 .. Len(left) |-> RestoreWorkspace(left[i], lost)], N, nw)
<1> DEFINE n == Len(left)
           T == [i \in 1 .. n |-> RestoreWorkspace(left[i], lost)]
<1>1. left \in Seq(SpaceRecord) /\ SpacesOK(left, N, nw) /\ \A i \in DOMAIN left : ~(PanesIn(left[i].tabs) \subseteq lost)
  BY DEF IsLeftOver
<1>2. n \in Nat /\ DOMAIN left = 1 .. n
  BY <1>1
<1> HIDE DEF n
<1>3. DOMAIN T = 1 .. n
  OBVIOUS
<1>4. ASSUME NEW i \in 1 .. n PROVE Loses(left[i], lost, T[i], N) /\ T[i].tabs # <<>>
  <2> DEFINE w == left[i]
  <2>1. SpaceOK(w, {}, N) /\ ~(PanesIn(w.tabs) \subseteq lost)
    BY <1>1, <1>2 DEF SpacesOK
  <2>2. T[i] = RestoreWorkspace(w, lost)
    OBVIOUS
  <2> HIDE DEF w, T
  <2>3. Loses(w, lost, T[i], N) /\ T[i].tabs # <<>>
    BY <2>1, <2>2, RestoreWorkspaceOK
  <2>4. QED
    BY <2>3 DEF w
<1> HIDE DEF T
<1>5. \A i \in 1 .. n : SpaceOK(T[i], {}, N) /\ T[i].id = left[i].id /\ T[i].tabs # <<>>
  BY <1>4 DEF Loses
<1>6. \A i \in 1 .. n : \A p : p \in PanesIn(T[i].tabs) <=> p \in PanesIn(left[i].tabs) /\ p \notin lost
  BY <1>4 DEF Loses
<1>7. T \in Seq(SpaceRecord) /\ Len(T) = n
  <2>1. \A i \in 1 .. n : T[i] \in SpaceRecord
    BY <1>5 DEF SpaceOK
  <2>2. T = [i \in 1 .. n |-> T[i]]
    BY DEF T
  <2>3. QED
    BY <1>2, <2>1, <2>2, <1>3
<1>8. SpacesOK(T, N, nw)
  <2>1. ASSUME NEW i \in 1 .. n, NEW j \in 1 .. n, i # j
        PROVE  T[i].id # T[j].id /\ PanesIn(T[i].tabs) \cap PanesIn(T[j].tabs) = {}
    <3>1. left[i].id # left[j].id /\ PanesIn(left[i].tabs) \cap PanesIn(left[j].tabs) = {}
      BY <1>1, <1>2, <2>1 DEF SpacesOK
    <3>2. QED
      BY <1>5, <1>6, <3>1
  <2>2. \A i \in 1 .. n : T[i].id \in 1 .. nw - 1
    BY <1>1, <1>2, <1>5 DEF SpacesOK
  <2>3. QED
    BY <1>3, <1>5, <1>7, <2>1, <2>2 DEF SpacesOK
<1>9. ASSUME NEW p PROVE p \in PanesAll(T) <=> p \in PanesAll(left) /\ p \notin lost
  BY <1>2, <1>3, <1>6, PanesAllFacts
<1>10. QED
  BY <1>7, <1>8, <1>9 DEF IsReborn, n, T

LEMMA NextIdFacts ==
    ASSUME NEW N \in Nat, NEW nw \in Nat \ {0}, NEW b, NEW T, b.workspaces = T, SpacesOK(T, N, nw)
    PROVE  NextWorkspaceId(b) \in 1 .. nw /\ SpacesOK(T, N, NextWorkspaceId(b))
<1> DEFINE P == {0} \cup {b.workspaces[i].id : i \in Indices(b)}
           m == Max(P)
<1>1. NextWorkspaceId(b) = m + 1
  BY DEF NextWorkspaceId
<1>2. \A q : q \in P <=> q = 0 \/ \E i \in DOMAIN T : q = T[i].id
  BY DEF Indices
<1>3. T \in Seq(SpaceRecord) /\ \A i \in DOMAIN T : T[i].id \in 1 .. nw - 1
  BY DEF SpacesOK
<1> HIDE DEF P
<1>4. nw - 1 \in Nat /\ P \subseteq 0 .. nw - 1 /\ P # {}
  <2> HIDE DEF m
  <2>1. nw - 1 \in Nat /\ 0 \in 0 .. nw - 1
    OBVIOUS
  <2>2. 0 \in P
    BY <1>2
  <2>3. ASSUME NEW q \in P PROVE q \in 0 .. nw - 1
    <3>1. CASE q = 0
      BY <2>1, <3>1
    <3>2. CASE \E i \in DOMAIN T : q = T[i].id
      <4>1. q \in 1 .. nw - 1
        BY <1>3, <3>2
      <4> QED
        BY <2>1, <4>1
    <3> QED
      BY <1>2, <2>3, <3>1, <3>2
  <2> QED
    BY <2>1, <2>2, <2>3
<1>5. m \in P /\ \A k \in P : m >= k
  <2> DEFINE n == nw - 1
  <2>1. n \in Nat /\ P \subseteq 0 .. n /\ P # {}
    BY <1>4
  <2> HIDE DEF n
  <2>2. Max(P) \in P /\ \A k \in P : Max(P) >= k
    BY <2>1, HighestNumber
  <2>3. QED
    BY <2>2
<1> HIDE DEF m
<1>6. m + 1 \in 1 .. nw
  BY <1>4, <1>5
<1>7. \A i \in DOMAIN T : T[i].id \in 1 .. (m + 1) - 1
  BY <1>2, <1>3, <1>5, <1>6
<1>8. SpacesOK(T, N, m + 1)
  BY <1>7 DEF SpacesOK
<1>9. QED
  BY <1>1, <1>6, <1>8

IsRestored(b, N, np, nw, lose) ==
    /\ AppOK(b, {}, N, np, NextWorkspaceId(b)) /\ NextWorkspaceId(b) \in 1 .. nw
    /\ b.aliases = <<>> /\ ViewOK(b, lose)

LEMMA RestoredIs ==
    ASSUME NEW N \in Nat, NEW np \in Nat \ {0}, NEW nw \in Nat \ {0}, NEW a, AppOK(a, {}, N, np, nw),
           NEW lose, ViewOK(a, lose), NEW lost, lost # {} => lose
    PROVE  IsRestored(Restored(a, lost), N, np, nw, lose)
<1> DEFINE S == a.workspaces
           left == LeftOver(a, lost)
           n == Len(left)
           T == [i \in 1 .. n |-> RestoreWorkspace(left[i], lost)]
           active == IF a.active <= n THEN a.active ELSE 0
           selected == Max({Clip(a.selected, n), 1})
           terminals == a.terminals \ lost
           b == Restored(a, lost)
<1>1. /\ SpacesOK(S, N, nw) /\ a \in AppRecord /\ a.active \in Nat /\ a.selected \in Nat /\ a.terminals \in SUBSET Nat
      /\ S \in Seq(SpaceRecord) /\ DOMAIN S = 1 .. Len(S) /\ Len(S) \in Nat /\ a.terminals = PanesAll(S)
      /\ \A p \in a.terminals : p \in 1 .. np - 1
  BY AppFields DEF AppOK
<1>2. IsLeftOver(S, lost, left, N, nw)
  BY <1>1, LeftOverIs
<1>3. b = [workspaces |-> T, active |-> active, selected |-> selected, previous |-> NoFocus,
           aliases |-> <<>>, terminals |-> terminals]
  BY Zenon DEF Restored, LeftOver
<1>4. ViewOK(a, lose)
  OBVIOUS
<1> HIDE DEF left
<1>5. /\ left \in Seq(SpaceRecord) /\ n \in Nat /\ n <= Len(S) /\ (lost = {} => n = Len(S))
      /\ \A p : p \in PanesAll(S) /\ p \notin lost <=> p \in PanesAll(left) /\ p \notin lost
  BY <1>2 DEF IsLeftOver
<1>6. IsReborn(left, lost, T, N, nw)
  BY <1>2, RebornIs
<1> HIDE DEF T
<1>7. /\ SpacesOK(T, N, nw) /\ Len(T) = n
      /\ \A p : p \in PanesAll(T) <=> p \in PanesAll(left) /\ p \notin lost
  BY <1>6 DEF IsReborn
<1>8. T \in Seq(SpaceRecord) /\ DOMAIN T = 1 .. n /\ (T = <<>> <=> n = 0)
  BY <1>5, <1>7 DEF SpacesOK
<1> HIDE DEF n
<1>9. /\ selected = IF Clip(a.selected, n) = 0 THEN 1 ELSE Clip(a.selected, n)
      /\ Clip(a.selected, n) \in Nat /\ Clip(a.selected, n) <= n
  <2> DEFINE c == Clip(a.selected, n)
  <2>1. c \in Nat /\ c <= n
    BY <1>1, <1>5 DEF Clip
  <2> HIDE DEF c
  <2>2. Max({c, 1}) = IF c = 0 THEN 1 ELSE c
    BY <2>1, MaxOne
  <2>3. QED
    BY <2>1, <2>2 DEF c
<1> HIDE DEF selected
<1>10. active \in Nat /\ active <= n /\ selected \in Nat
  BY <1>1, <1>5, <1>9
<1>11. terminals \in SUBSET Nat /\ \A p \in terminals : p \in 1 .. np - 1
  BY <1>1
<1>12. terminals = PanesAll(T) \cup {}
  <2>1. ASSUME NEW p PROVE p \in terminals <=> p \in PanesAll(T)
    BY <1>1, <1>5, <1>7
  <2>2. QED
    BY <2>1
<1>13. IF n = 0 THEN active = 0 /\ selected = 1
       ELSE selected \in 1 .. n /\ (active \in 1 .. n \/ (active = 0 /\ lose))
  <2>1. CASE n = 0
    BY <1>9, <1>10, <2>1
  <2>2. CASE n # 0
    <3>1. S # <<>>
      BY <1>1, <1>5, <2>2
    <3>2. a.active \in 1 .. Len(S) \/ (a.active = 0 /\ lose)
      BY <1>1, <1>4, <3>1 DEF ViewOK
    <3>3. selected \in 1 .. n
      BY <1>5, <1>9, <2>2
    <3>4. active = 0 => lose
      BY <1>1, <1>5, <3>2
    <3>5. active \in 1 .. n \/ active = 0
      BY <1>5, <1>10
    <3>6. QED
      BY <2>2, <3>3, <3>4, <3>5
  <2>3. QED
    BY <2>1, <2>2
<1> HIDE DEF active, terminals
<1>14. <<>> \in AliasMap
  <2>1. <<>> \in [{} -> Nat] /\ {} \in SUBSET [ws : Nat, number : Nat]
    OBVIOUS
  <2>2. QED
    BY <2>1 DEF AliasMap
<1>15. NoFocus \in [ws : Nat, pane : Nat] /\ NoFocus.ws = 0 /\ NoFocus.pane = 0
  BY DEF NoFocus
<1>16. /\ b.workspaces = T /\ b.active = active /\ b.selected = selected /\ b.previous = NoFocus
       /\ b.aliases = <<>> /\ b.terminals = terminals
  BY <1>3
<1>17. b \in AppRecord
  BY <1>3, <1>8, <1>10, <1>11, <1>14, <1>15 DEF AppRecord
<1> HIDE DEF b
<1>18. NextWorkspaceId(b) \in 1 .. nw /\ SpacesOK(T, N, NextWorkspaceId(b))
  BY <1>7, <1>16, NextIdFacts
<1>19. AppOK(b, {}, N, np, NextWorkspaceId(b))
  <2>1. 0 < NextWorkspaceId(b) /\ 0 < np
    BY <1>18
  <2>2. QED
    BY <1>11, <1>12, <1>15, <1>16, <1>17, <1>18, <2>1 DEF AppOK
<1>20. ViewOK(b, lose)
  BY <1>8, <1>13, <1>16 DEF ViewOK
<1>21. QED
  BY <1>16, <1>18, <1>19, <1>20 DEF IsRestored, b

\* A step in which another server takes over.
LEMMA StartingStep ==
    ASSUME AppInv, Starting
    PROVE  /\ IsRestored(app', use.numbers, nextPane, nextWorkspace, Takes("lose"))
           /\ overlays' = <<>> /\ nextPane' = nextPane /\ nextWorkspace' = NextWorkspaceId(app')
<1>1. PICK lost : /\ app' = Restored(app, lost) /\ (lost # {} => Takes("lose"))
                  /\ overlays' = <<>> /\ nextPane' = nextPane /\ nextWorkspace' = NextWorkspaceId(app')
  BY DEF Starting, Handoff, Restart, Keep
<1>2. use.numbers \in Nat /\ nextPane \in Nat \ {0} /\ nextWorkspace \in Nat \ {0}
  BY Bounds
<1>3. AppOK(app, {}, use.numbers, nextPane, nextWorkspace) /\ ViewOK(app, Takes("lose"))
  BY DEF AppInv
<1>4. IsRestored(Restored(app, lost), use.numbers, nextPane, nextWorkspace, Takes("lose"))
  <2> DEFINE lose == Takes("lose")
  <2>1. ViewOK(app, lose) /\ (lost # {} => lose)
    BY <1>1, <1>3
  <2> HIDE DEF lose
  <2>2. IsRestored(Restored(app, lost), use.numbers, nextPane, nextWorkspace, lose)
    BY <1>2, <1>3, <2>1, RestoredIs
  <2>3. QED
    BY <2>2 DEF lose
<1>5. QED
  BY <1>1, <1>4

-----------------------------------------------------------------------------
(* The public ids that were given.                                         *)

GivenRecord == [ws : Nat, number : Nat, pane : Nat]

\* Each was given to one pane, and no workspace gives its number again.  What
\* is registered was given, and an alias leads to the pane it was given to.  A
\* pane that lives has its id still, or an alias for it.
IdsOK(a, G, np, nw) ==
    /\ \A g \in G : g \in GivenRecord /\ g.ws < nw /\ g.pane < np
    /\ \A g, h \in G : g.ws = h.ws /\ g.number = h.number => g.pane = h.pane
    /\ Registered(a) \subseteq G
    /\ \A g \in G : \A i \in DOMAIN a.workspaces :
          g.ws = a.workspaces[i].id => g.number < a.workspaces[i].next_pane
    /\ \A k \in DOMAIN a.aliases : [ws |-> k.ws, number |-> k.number, pane |-> a.aliases[k]] \in G
    /\ \A g \in G : g.pane \in PanesAll(a.workspaces) =>
          g \in Registered(a) \/ [ws |-> g.ws, number |-> g.number] \in DOMAIN a.aliases

LEMMA RegisteredFacts ==
    ASSUME NEW a, NEW r
    PROVE  r \in Registered(a) <=> \E i \in DOMAIN a.workspaces : \E p \in DOMAIN a.workspaces[i].numbers :
              r = [ws |-> a.workspaces[i].id, number |-> a.workspaces[i].numbers[p], pane |-> p]
BY DEF Registered, Indices

\* What is registered is of a workspace, with one of its panes.
LEMMA RegisteredIn ==
    ASSUME NEW N \in Nat, NEW np \in Nat, NEW nw \in Nat, NEW a, AppOK(a, {}, N, np, nw), NEW r \in Registered(a)
    PROVE  \E i \in DOMAIN a.workspaces :
              LET w == a.workspaces[i]
              IN  /\ r.ws = w.id /\ r.pane \in PanesIn(w.tabs) /\ r.pane \in DOMAIN w.numbers
                  /\ r.number = w.numbers[r.pane] /\ r.number < w.next_pane
                  /\ r \in GivenRecord /\ r.ws < nw /\ r.pane < np
<1>1. PICK i \in DOMAIN a.workspaces : \E q \in DOMAIN a.workspaces[i].numbers :
              r = [ws |-> a.workspaces[i].id, number |-> a.workspaces[i].numbers[q], pane |-> q]
  BY RegisteredFacts
<1> DEFINE w == a.workspaces[i]
<1>2. PICK p \in DOMAIN w.numbers : r = [ws |-> w.id, number |-> w.numbers[p], pane |-> p]
  BY <1>1
<1>3. /\ SpaceOK(w, {}, N) /\ w.id \in Nat /\ w.id < nw
      /\ \A q \in PanesIn(w.tabs) : q \in PanesAll(a.workspaces)
      /\ \A q \in PanesAll(a.workspaces) : q \in Nat /\ q < np
  <2>1. SpacesOK(a.workspaces, N, nw) /\ \A q \in PanesAll(a.workspaces) : q \in 1 .. np - 1
    BY DEF AppOK
  <2>2. \A q \in PanesAll(a.workspaces) : q \in Nat /\ q < np
    BY <2>1
  <2>3. SpaceOK(w, {}, N) /\ w.id \in Nat /\ w.id < nw
    BY <2>1, SpacesFacts
  <2>4. QED
    BY <2>2, <2>3, PanesAllFacts
<1>4. r.ws = w.id /\ r.number = w.numbers[p] /\ r.pane = p
  BY <1>2
<1> HIDE DEF w
<1>5. p \in PanesIn(w.tabs) /\ w.numbers[p] \in Nat /\ w.numbers[p] < w.next_pane
  BY <1>2, <1>3, SpaceFacts
<1>6. r \in GivenRecord
  BY <1>2, <1>3, <1>5 DEF GivenRecord
<1>7. QED
  BY <1>2, <1>3, <1>4, <1>5, <1>6 DEF w

\* Two panes of an app do not have the same id.
LEMMA RegisteredOnce ==
    ASSUME NEW N \in Nat, NEW np \in Nat, NEW nw \in Nat, NEW a, AppOK(a, {}, N, np, nw),
           NEW g \in Registered(a), NEW h \in Registered(a), g.ws = h.ws, g.number = h.number
    PROVE  g.pane = h.pane
<1> DEFINE S == a.workspaces
<1>0. \A r \in Registered(a) : \E k \in DOMAIN S :
         r.ws = S[k].id /\ r.pane \in DOMAIN S[k].numbers /\ r.number = S[k].numbers[r.pane]
  <2>1. TAKE r \in Registered(a)
  <2>2. QED
    BY RegisteredIn
<1> HIDE DEF S
<1>1. PICK i \in DOMAIN S : g.ws = S[i].id /\ g.pane \in DOMAIN S[i].numbers /\ g.number = S[i].numbers[g.pane]
  BY <1>0
<1>2. PICK j \in DOMAIN S : h.ws = S[j].id /\ h.pane \in DOMAIN S[j].numbers /\ h.number = S[j].numbers[h.pane]
  BY <1>0
<1>3. SpacesOK(S, N, nw)
  BY DEF AppOK, S
<1> HIDE DEF S
<1>4. i = j
  BY <1>1, <1>2, <1>3, SpacesApart
<1> DEFINE w == S[i]
<1>5. SpaceOK(w, {}, N)
  BY <1>3, SpacesFacts
<1>6. w.numbers[g.pane] = w.numbers[h.pane] /\ g.pane \in DOMAIN w.numbers /\ h.pane \in DOMAIN w.numbers
  BY <1>1, <1>2, <1>4
<1> HIDE DEF w
<1>7. QED
  BY <1>5, <1>6, SpaceFacts

\* A workspace does not give a number again.
LEMMA RegisteredBelow ==
    ASSUME NEW N \in Nat, NEW np \in Nat, NEW nw \in Nat, NEW a, AppOK(a, {}, N, np, nw),
           NEW g \in Registered(a), NEW i \in DOMAIN a.workspaces, g.ws = a.workspaces[i].id
    PROVE  g.number < a.workspaces[i].next_pane
<1> DEFINE S == a.workspaces
<1>1. PICK j \in DOMAIN S : g.ws = S[j].id /\ g.number < S[j].next_pane
  BY RegisteredIn
<1>2. SpacesOK(S, N, nw) /\ S[i].id = S[j].id
  BY <1>1 DEF AppOK
<1> HIDE DEF S
<1>3. i = j
  BY <1>2, SpacesApart DEF S
<1>4. QED
  BY <1>1, <1>3 DEF S

\* What is registered after a step was before it, or is of a number that was
\* not given yet, or of a workspace that is new.
IsNewId(r, S, nw) == nw <= r.ws \/ \E i \in DOMAIN S : r.ws = S[i].id /\ S[i].next_pane <= r.number

LEMMA RegisteredNew ==
    ASSUME NEW N \in Nat, NEW np \in Nat, NEW nw \in Nat, NEW np1 \in Nat, NEW nw1 \in Nat, NEW M, NEW a, NEW b,
           AppOK(a, {}, N, np, nw), AppOK(b, {}, N, np1, nw1),
           Follows(a.workspaces, b.workspaces, M, np, nw), NEW r \in Registered(b)
    PROVE  r \in Registered(a) \/ IsNewId(r, a.workspaces, nw)
<1> DEFINE S == a.workspaces
           T == b.workspaces
<1>1. PICK j \in DOMAIN T : r.ws = T[j].id /\ r.pane \in DOMAIN T[j].numbers /\ r.number = T[j].numbers[r.pane]
                            /\ r \in GivenRecord
  BY RegisteredIn
<1>2. CASE \E i \in DOMAIN S : Kin(S[i], T[j])
  <2>1. PICK i \in DOMAIN S : Kin(S[i], T[j])
    BY <1>2
  <2>2. r.ws = S[i].id
    BY <1>1, <2>1 DEF Kin
  <2>3. CASE r.pane \in DOMAIN S[i].numbers
    <3>1. r.number = S[i].numbers[r.pane]
      BY <1>1, <2>1, <2>3 DEF Kin
    <3>2. r = [ws |-> S[i].id, number |-> S[i].numbers[r.pane], pane |-> r.pane]
      BY <1>1, <2>2, <3>1 DEF GivenRecord
    <3>3. QED
      BY <2>3, <3>2, RegisteredFacts
  <2>4. CASE r.pane \notin DOMAIN S[i].numbers
    BY <1>1, <2>1, <2>2, <2>4 DEF Kin, IsNewId
  <2>5. QED
    BY <2>3, <2>4
<1>3. CASE ~\E i \in DOMAIN S : Kin(S[i], T[j])
  BY <1>1, <1>3 DEF Follows, IsNewId
<1>4. QED
  BY <1>2, <1>3

\* A pane that was there and did not move keeps its id.
LEMMA RegisteredKept ==
    ASSUME NEW N \in Nat, NEW np \in Nat, NEW nw \in Nat, NEW np1 \in Nat, NEW nw1 \in Nat, NEW M, NEW a, NEW b,
           AppOK(a, {}, N, np, nw), AppOK(b, {}, N, np1, nw1),
           Follows(a.workspaces, b.workspaces, M, np, nw), NEW r \in Registered(a),
           r.pane \in PanesAll(b.workspaces), r.pane \notin M
    PROVE  r \in Registered(b)
<1> DEFINE S == a.workspaces
           T == b.workspaces
<1>1. PICK k \in DOMAIN S : /\ r.ws = S[k].id /\ r.pane \in PanesIn(S[k].tabs) /\ r.pane \in DOMAIN S[k].numbers
                            /\ r.number = S[k].numbers[r.pane] /\ r \in GivenRecord /\ r.pane < np
  BY RegisteredIn
<1>2. PICK j \in DOMAIN T : r.pane \in PanesIn(T[j].tabs)
  BY PanesAllFacts
<1>3. ~(np <= r.pane)
  BY <1>1 DEF GivenRecord
<1>4. PICK i \in DOMAIN S : Kin(S[i], T[j]) /\ r.pane \in PanesIn(S[i].tabs)
  BY <1>2, <1>3 DEF Follows
<1>5. SpacesOK(S, N, nw) /\ SpacesOK(T, N, nw1)
  BY DEF AppOK
<1>6. i = k
  <2> HIDE DEF S
  <2>1. QED
    BY <1>1, <1>4, <1>5, SpacesApart
<1>7. r.pane \in DOMAIN T[j].numbers
  <2> HIDE DEF T
  <2>1. QED
    BY <1>2, <1>5, SpacesFacts
<1>8. r.ws = T[j].id /\ r.number = T[j].numbers[r.pane]
  BY <1>1, <1>4, <1>6, <1>7 DEF Kin
<1>9. r = [ws |-> T[j].id, number |-> T[j].numbers[r.pane], pane |-> r.pane]
  BY <1>1, <1>8 DEF GivenRecord
<1>10. QED
  BY <1>7, <1>9, RegisteredFacts

LEMMA IdsFollow ==
    ASSUME NEW N \in Nat, NEW np \in Nat, NEW nw \in Nat, NEW np1 \in Nat, NEW nw1 \in Nat, np <= np1, nw <= nw1,
           NEW M, NEW a, NEW b, AppOK(a, {}, N, np, nw), AppOK(b, {}, N, np1, nw1),
           Follows(a.workspaces, b.workspaces, M, np, nw), AliasesFollow(a, b, M), M \subseteq PanesAll(a.workspaces),
           NEW G, IdsOK(a, G, np, nw)
    PROVE  IdsOK(b, G \cup Registered(b), np1, nw1)
<1> DEFINE S == a.workspaces
           T == b.workspaces
           H == G \cup Registered(b)
<1>1. \A g \in G : g \in GivenRecord /\ g.ws \in Nat /\ g.number \in Nat /\ g.pane \in Nat /\ g.ws < nw /\ g.pane < np
  BY DEF IdsOK, GivenRecord
<1>2. \A g \in Registered(b) : /\ g \in GivenRecord /\ g.ws \in Nat /\ g.number \in Nat /\ g.pane \in Nat
                               /\ g.ws < nw1 /\ g.pane < np1
  BY RegisteredIn DEF GivenRecord
<1>3. \A g \in H : g \in GivenRecord /\ g.ws < nw1 /\ g.pane < np1
  BY <1>1, <1>2
<1>4. ASSUME NEW g \in G, NEW h \in Registered(b), g.ws = h.ws, g.number = h.number PROVE g.pane = h.pane
  <2>1. CASE h \in Registered(a)
    BY <1>4, <2>1 DEF IdsOK
  <2>2. CASE IsNewId(h, S, nw)
    <3>1. ~(nw <= h.ws)
      BY <1>1, <1>4
    <3>2. PICK i \in DOMAIN S : h.ws = S[i].id /\ S[i].next_pane <= h.number
      BY <2>2, <3>1 DEF IsNewId
    <3>3. g.number < S[i].next_pane /\ S[i].next_pane \in Nat
      <4>1. SpacesOK(S, N, nw)
        BY DEF AppOK
      <4>2. S[i].next_pane \in Nat
        BY <4>1, SpacesFacts
      <4>3. QED
        BY <1>4, <3>2, <4>2 DEF IdsOK
    <3>4. QED
      BY <1>1, <1>4, <3>2, <3>3
  <2>3. QED
    BY <2>1, <2>2, RegisteredNew
<1>5. \A g, h \in H : g.ws = h.ws /\ g.number = h.number => g.pane = h.pane
  <2>1. SUFFICES ASSUME NEW g \in H, NEW h \in H, g.ws = h.ws, g.number = h.number PROVE g.pane = h.pane
    OBVIOUS
  <2>2. CASE g \in G /\ h \in G
    BY <2>1, <2>2 DEF IdsOK
  <2>3. CASE g \in Registered(b) /\ h \in Registered(b)
    BY <2>1, <2>3, RegisteredOnce
  <2>4. CASE g \in G /\ h \in Registered(b)
    BY <1>4, <2>1, <2>4
  <2>5. CASE g \in Registered(b) /\ h \in G
    <3>1. h.pane = g.pane
      BY <1>4, <2>1, <2>5
    <3>2. QED
      BY <3>1
  <2>6. QED
    BY <2>2, <2>3, <2>4, <2>5
<1>6. ASSUME NEW g \in H, NEW j \in DOMAIN T, g.ws = T[j].id PROVE g.number < T[j].next_pane
  <2>1. CASE g \in Registered(b)
    BY <1>6, <2>1, RegisteredBelow
  <2>2. CASE g \in G
    <3>1. ~(nw <= T[j].id)
      BY <1>1, <1>6, <2>2
    <3>2. PICK i \in DOMAIN S : Kin(S[i], T[j])
      BY <3>1 DEF Follows
    <3>3. g.number < S[i].next_pane /\ S[i].next_pane <= T[j].next_pane
      BY <1>6, <2>2, <3>2 DEF Kin, IdsOK
    <3>4. S[i].next_pane \in Nat /\ T[j].next_pane \in Nat
      <4>1. SpacesOK(S, N, nw) /\ SpacesOK(T, N, nw1)
        BY DEF AppOK
      <4> HIDE DEF S, T
      <4>2. QED
        BY <4>1, SpacesFacts
    <3>5. QED
      BY <1>1, <2>2, <3>3, <3>4
  <2>3. QED
    BY <2>1, <2>2
<1>7. ASSUME NEW k \in DOMAIN b.aliases PROVE [ws |-> k.ws, number |-> k.number, pane |-> b.aliases[k]] \in H
  <2>1. CASE k \in DOMAIN a.aliases /\ b.aliases[k] = a.aliases[k]
    BY <2>1 DEF IdsOK
  <2>2. CASE [ws |-> k.ws, number |-> k.number, pane |-> b.aliases[k]] \in Registered(a)
    BY <2>2 DEF IdsOK
  <2>3. QED
    BY <2>1, <2>2 DEF AliasesFollow
<1>8. ASSUME NEW g \in H, g.pane \in PanesAll(T)
      PROVE  g \in Registered(b) \/ [ws |-> g.ws, number |-> g.number] \in DOMAIN b.aliases
  <2> DEFINE key == [ws |-> g.ws, number |-> g.number]
  <2>1. CASE g \in G
    <3>1. g.pane \in PanesAll(S)
      <4>1. CASE g.pane \in M
        BY <4>1
      <4>2. CASE g.pane \notin M
        <5>1. PICK j \in DOMAIN T : g.pane \in PanesIn(T[j].tabs)
          BY <1>8, PanesAllFacts
        <5>2. ~(np <= g.pane)
          BY <1>1, <2>1
        <5>3. \E i \in DOMAIN S : g.pane \in PanesIn(S[i].tabs)
          BY <4>2, <5>1, <5>2 DEF Follows
        <5>4. QED
          BY <5>3, PanesAllFacts
      <4>3. QED
        BY <4>1, <4>2
    <3>2. g \in Registered(a) \/ key \in DOMAIN a.aliases
      BY <2>1, <3>1 DEF IdsOK
    <3>3. CASE key \in DOMAIN a.aliases
      <4>1. key.ws = g.ws /\ key.number = g.number
        OBVIOUS
      <4> DEFINE h == [ws |-> key.ws, number |-> key.number, pane |-> a.aliases[key]]
      <4>2. h \in G
        BY <3>3 DEF IdsOK
      <4>3. h.ws = g.ws /\ h.number = g.number /\ h.pane = a.aliases[key]
        BY <4>1
      <4>4. h.pane = g.pane
        <5> HIDE DEF h, key
        <5>1. QED
          BY <2>1, <4>2, <4>3 DEF IdsOK
      <4>5. a.aliases[key] \in PanesAll(T)
        BY <1>8, <4>3, <4>4
      <4> HIDE DEF key
      <4>6. key \in DOMAIN b.aliases
        BY <3>3, <4>5 DEF AliasesFollow
      <4>7. QED
        BY <4>6 DEF key
    <3>4. CASE g \in Registered(a)
      <4>1. CASE g.pane \in M
        BY <3>4, <4>1 DEF AliasesFollow
      <4>2. CASE g.pane \notin M
        BY <1>8, <3>4, <4>2, RegisteredKept
      <4>3. QED
        BY <4>1, <4>2
    <3>5. QED
      BY <3>2, <3>3, <3>4
  <2>2. QED
    BY <2>1
<1>9. Registered(b) \subseteq H
  OBVIOUS
<1> HIDE DEF H
<1>10. IdsOK(b, H, np1, nw1)
  BY <1>3, <1>5, <1>6, <1>7, <1>8, <1>9 DEF IdsOK
<1>11. QED
  BY <1>10 DEF H

\* After a restart, which starts with what is registered and without aliases.
LEMMA IdsAnew ==
    ASSUME NEW N \in Nat, NEW np \in Nat, NEW nw \in Nat, NEW b, AppOK(b, {}, N, np, nw), b.aliases = <<>>
    PROVE  IdsOK(b, Registered(b), np, nw)
<1>1. \A g \in Registered(b) : g \in GivenRecord /\ g.ws < nw /\ g.pane < np
  BY RegisteredIn
<1>2. \A g, h \in Registered(b) : g.ws = h.ws /\ g.number = h.number => g.pane = h.pane
  BY RegisteredOnce
<1>3. \A g \in Registered(b) : \A i \in DOMAIN b.workspaces :
          g.ws = b.workspaces[i].id => g.number < b.workspaces[i].next_pane
  BY RegisteredBelow
<1>4. DOMAIN b.aliases = {}
  OBVIOUS
<1>5. QED
  BY <1>1, <1>2, <1>3, <1>4 DEF IdsOK

LEMMA MinOfOne ==
    ASSUME NEW n \in Nat, NEW P, n \in P, \A m \in P : m = n
    PROVE  Min(P) = n
<1>1. \E m \in P : \A k \in P : m <= k
  OBVIOUS
<1>2. Min(P) \in P
  BY <1>1 DEF Min
<1>3. QED
  BY <1>2

\* An id leads to its pane.
LEMMA Leads ==
    ASSUME NEW a, NEW G, NEW np, NEW nw, IdsOK(a, G, np, nw), NEW g \in G
    PROVE  LET r == Resolve(a, g.ws, g.number)
           IN  r \in {0, g.pane} /\ (g.pane \in AllPanes(a) => r = g.pane)
<1> DEFINE key == [ws |-> g.ws, number |-> g.number]
           F == {r \in Registered(a) : r.ws = g.ws /\ r.number = g.number}
           found == {r.pane : r \in F}
           z == Resolve(a, g.ws, g.number)
<1>1. z = IF key \in DOMAIN a.aliases
          THEN IF a.aliases[key] \in AllPanes(a) THEN a.aliases[key] ELSE 0
          ELSE IF found = {} THEN 0 ELSE Min(found)
  BY Zenon DEF Resolve
<1> HIDE DEF z
<1>2. CASE key \in DOMAIN a.aliases
  <2> DEFINE h == [ws |-> key.ws, number |-> key.number, pane |-> a.aliases[key]]
  <2>1. h \in G
    BY <1>2 DEF IdsOK
  <2>2. h.ws = g.ws /\ h.number = g.number /\ h.pane = a.aliases[key]
    OBVIOUS
  <2> HIDE DEF h, key
  <2>3. h.pane = g.pane
    BY <2>1, <2>2 DEF IdsOK
  <2>4. z = IF g.pane \in AllPanes(a) THEN g.pane ELSE 0
    BY <1>1, <1>2, <2>2, <2>3
  <2>5. QED
    BY <2>4 DEF z
<1>3. CASE key \notin DOMAIN a.aliases
  <2>1. g.pane \in Nat
    BY DEF IdsOK, GivenRecord
  <2>2. ASSUME NEW q \in found PROVE q = g.pane
    <3>1. PICK r \in Registered(a) : r.ws = g.ws /\ r.number = g.number /\ q = r.pane
      OBVIOUS
    <3>2. r \in G
      BY DEF IdsOK
    <3>3. QED
      BY <3>1, <3>2 DEF IdsOK
  <2>3. ASSUME g.pane \in AllPanes(a) PROVE g.pane \in found
    <3>1. g.pane \in PanesAll(a.workspaces)
      BY <2>3, AllPanesIn
    <3>2. g \in Registered(a)
      BY <1>3, <3>1 DEF IdsOK
    <3>3. g \in F
      BY <3>2
    <3>4. QED
      BY <3>3
  <2> HIDE DEF found
  <2>4. CASE found = {}
    <3>1. z = 0 /\ g.pane \notin AllPanes(a)
      BY <1>1, <1>3, <2>3, <2>4
    <3>2. QED
      BY <3>1 DEF z
  <2>5. CASE found # {}
    <3>1. g.pane \in found
      BY <2>2, <2>5
    <3>2. Min(found) = g.pane
      BY <2>1, <2>2, <3>1, MinOfOne
    <3>3. z = g.pane
      BY <1>1, <1>3, <2>5, <3>2
    <3>4. QED
      BY <3>3 DEF z
  <2>6. QED
    BY <2>4, <2>5
<1>4. QED
  BY <1>2, <1>3

-----------------------------------------------------------------------------
(* The invariant.                                                          *)

\* The panes that get a shell were started with a command, and are there.
CommandsOK == respawns \subseteq commands /\ commands \subseteq AllPanes(app)

IInv == AppInv /\ IdsOK(app, given, nextPane, nextWorkspace) /\ CommandsOK /\ asked \in BOOLEAN

LEMMA IdsLeadHere ==
    ASSUME IInv
    PROVE  IdsLead
<1>1. IdsOK(app, given, nextPane, nextWorkspace)
  BY DEF IInv
<1>2. \A g \in given : LET r == Resolve(app, g.ws, g.number)
                       IN  r \in {0, g.pane} /\ (g.pane \in AllPanes(app) => r = g.pane)
  BY <1>1, Leads
<1>3. QED
  BY <1>2 DEF IdsLead, IdsKeepTheirPane, OldIdResolves

\* A tab within the bounds of the use.
LEMMA TabInBounds ==
    ASSUME AppInv, NEW i \in Indices(app), NEW t \in DOMAIN app.workspaces[i].tabs
    PROVE  /\ app.workspaces[i].tabs[t] \in Tab /\ TabOK(app.workspaces[i].tabs[t])
           /\ app.workspaces[i].tabs[t].panes \subseteq Panes
<1> DEFINE w == app.workspaces[i]
           u == w.tabs[t]
<1>1. SpaceOK(w, {}, use.numbers) /\ AppOK(app, {}, use.numbers, nextPane, nextWorkspace) /\ i \in DOMAIN app.workspaces
  BY Space
<1>2. /\ use.numbers \in Nat /\ use.panes \in Nat /\ nextPane \in Nat /\ nextPane <= use.panes + 1
  BY Bounds
<1>3. TabOK(u) /\ u.number \in 1 .. w.next_tab - 1 /\ w.next_tab \in 1 .. use.numbers + 1
  BY <1>1 DEF SpaceOK, TabsOK
<1>4. u.panes \subseteq Panes
  <2>1. ASSUME NEW p \in u.panes PROVE p \in Panes
    <3>1. p \in PanesIn(w.tabs)
      BY PanesInFacts
    <3>2. p \in PanesAll(app.workspaces)
      BY <1>1, <3>1, PanesAllFacts
    <3>3. p \in 1 .. nextPane - 1
      BY <1>1, <3>2 DEF AppOK
    <3>4. QED
      BY <1>2, <3>3 DEF Panes
  <2>2. QED
    BY <2>1
<1>5. u.number \in 1 .. use.numbers
  BY <1>2, <1>3
<1> HIDE DEF u
<1>6. u.layout \in Seq(Panes)
  <2>1. u.layout \in Seq(Nat) /\ \A k \in 1 .. Len(u.layout) : u.layout[k] \in Panes
    <3>1. u.layout \in Seq(Nat) /\ ToSet(u.layout) = u.panes
      BY <1>3, TabFields DEF TabOK
    <3>2. QED
      BY <1>4, <3>1 DEF ToSet
  <2>2. QED
    BY <2>1
<1>7. u \in Tab
  <2>1. u \in TabRecord /\ u.root \in Panes /\ u.focus \in Panes /\ u.zoomed \in BOOLEAN
    BY <1>3, <1>4, TabFields DEF TabOK
  <2>2. QED
    BY <1>4, <1>5, <1>6, <2>1 DEF Tab, TabRecord
<1>8. QED
  BY <1>3, <1>4, <1>7 DEF u

LEMMA TypeHere ==
    ASSUME IInv
    PROVE  TypeOK
<1>1. AppInv /\ asked \in BOOLEAN
  BY DEF IInv
<1>2. /\ use.numbers \in Nat /\ use.panes \in Nat /\ nextPane \in Nat /\ nextPane <= use.panes + 1
      /\ nextWorkspace \in Nat /\ nextWorkspace <= use.workspaces + 1 /\ use.workspaces \in Nat
  BY <1>1, Bounds
<1>3. AppOK(app, {}, use.numbers, nextPane, nextWorkspace) /\ OverlaysOK(overlays, nextPane)
  BY <1>1 DEF AppInv
<1>4. app.terminals = PanesAll(app.workspaces) /\ \A p \in app.terminals : p \in Panes
  BY <1>2, <1>3 DEF AppOK, Panes
<1>5. ASSUME NEW i \in Indices(app)
      PROVE  LET w == app.workspaces[i]
             IN  /\ w.id \in 1 .. use.workspaces /\ w.active_tab \in DOMAIN w.tabs
                 /\ \A t \in DOMAIN w.tabs : w.tabs[t] \in Tab
                 /\ DOMAIN w.numbers \subseteq Panes
                 /\ {w.next_pane, w.next_tab} \subseteq 1 .. use.numbers + 1
                 /\ w.space \in {"none", "main", "linked"}
  <2> DEFINE w == app.workspaces[i]
  <2>1. SpaceOK(w, {}, use.numbers) /\ i \in DOMAIN app.workspaces /\ w.active_tab \in DOMAIN w.tabs
    BY <1>1, Space
  <2>2. \A t \in DOMAIN w.tabs : w.tabs[t] \in Tab
    BY <1>1, TabInBounds
  <2>3. w.id \in 1 .. nextWorkspace - 1
    BY <1>3, <2>1 DEF AppOK, SpacesOK
  <2>4. PanesIn(w.tabs) \subseteq Panes
    BY <1>4, <2>1, PanesAllFacts
  <2> HIDE DEF w
  <2>5. w.space \in {"none", "main", "linked"} /\ DOMAIN w.numbers = PanesIn(w.tabs)
    <3>1. w \in SpaceRecord /\ DOMAIN w.numbers = PanesIn(w.tabs) \cup {}
      BY <2>1, Zenon DEF SpaceOK, NumbersOK
    <3>2. QED
      BY <3>1, SpaceFields
  <2>6. w.next_pane \in 1 .. use.numbers + 1 /\ w.next_tab \in 1 .. use.numbers + 1
    BY <2>1 DEF SpaceOK
  <2>7. w.id \in 1 .. use.workspaces
    BY <1>2, <2>3
  <2>8. QED
    BY <2>1, <2>2, <2>4, <2>5, <2>6, <2>7 DEF w
<1>6. app.previous \in [ws : 0 .. use.workspaces, pane : 0 .. use.panes]
  <2> DEFINE f == app.previous
  <2>1. f \in [ws : Nat, pane : Nat] /\ f.ws < nextWorkspace /\ f.pane < nextPane
    BY <1>3, AppFields DEF AppOK
  <2> HIDE DEF f
  <2>2. f.ws \in 0 .. use.workspaces /\ f.pane \in 0 .. use.panes
    BY <1>2, <2>1
  <2>3. f \in [ws : 0 .. use.workspaces, pane : 0 .. use.panes]
    BY <2>1, <2>2
  <2>4. QED
    BY <2>3 DEF f
<1>7. DOMAIN overlays \subseteq Panes
  BY <1>2, <1>3 DEF OverlaysOK, Panes
<1>8. respawns \subseteq commands /\ commands \subseteq AllPanes(app)
  BY DEF IInv, CommandsOK
<1>9. QED
  BY <1>1, <1>4, <1>5, <1>6, <1>7, <1>8 DEF TypeOK

LEMMA ConsistentHere ==
    ASSUME IInv
    PROVE  Consistent
<1>1. AppInv
  BY DEF IInv
<1>2. AppOK(app, {}, use.numbers, nextPane, nextWorkspace) /\ ViewOK(app, Takes("lose"))
      /\ SpacesOK(app.workspaces, use.numbers, nextWorkspace) /\ use.numbers \in Nat /\ nextWorkspace \in Nat
  BY <1>1, Bounds DEF AppInv, AppOK
<1>3. TabsConsistent
  <2>1. SUFFICES ASSUME NEW i \in Indices(app), NEW t \in DOMAIN app.workspaces[i].tabs
                 PROVE  LET tab == app.workspaces[i].tabs[t]
                        IN  /\ ToSet(tab.layout) = tab.panes /\ Len(tab.layout) = Cardinality(tab.panes)
                            /\ {tab.focus, tab.root} \subseteq tab.panes
    BY DEF TabsConsistent
  <2> DEFINE tab == app.workspaces[i].tabs[t]
  <2>2. TabOK(tab)
    BY <1>1, TabInBounds
  <2> HIDE DEF tab
  <2>3. tab.layout \in Seq(Nat) /\ Once(tab.layout) /\ ToSet(tab.layout) = tab.panes
        /\ tab.focus \in tab.panes /\ tab.root \in tab.panes
    BY <2>2, TabFields DEF TabOK
  <2>4. Cardinality(ToSet(tab.layout)) = Len(tab.layout)
    BY <2>3, OnceLen
  <2>5. QED
    BY <2>3, <2>4 DEF tab
<1>4. PanesOnce
  <2>1. SUFFICES ASSUME NEW i \in Indices(app)
                 PROVE  LET w == app.workspaces[i]
                        IN  /\ DOMAIN w.numbers = PanesOf(w)
                            /\ \A p, q \in PanesOf(w) : w.numbers[p] = w.numbers[q] => p = q
                            /\ \A t, u \in DOMAIN w.tabs : t # u => /\ w.tabs[t].number # w.tabs[u].number
                                                                   /\ w.tabs[t].panes \cap w.tabs[u].panes = {}
                            /\ \A j \in Indices(app) \ {i} :
                                  /\ PanesOf(w) \cap PanesOf(app.workspaces[j]) = {}
                                  /\ w.id # app.workspaces[j].id
    BY Zenon DEF PanesOnce
  <2> DEFINE w == app.workspaces[i]
  <2>2. SpaceOK(w, {}, use.numbers) /\ PanesOf(w) = PanesIn(w.tabs) /\ i \in DOMAIN app.workspaces
    BY <1>1, Space
  <2>3. \A j \in Indices(app) \ {i} : /\ PanesOf(w) \cap PanesOf(app.workspaces[j]) = {}
                                     /\ w.id # app.workspaces[j].id
    BY <1>2, <2>2, PanesOfIn DEF SpacesOK, Indices
  <2> HIDE DEF w
  <2>4. DOMAIN w.numbers = PanesOf(w) /\ \A p, q \in PanesOf(w) : w.numbers[p] = w.numbers[q] => p = q
    <3>1. DOMAIN w.numbers = PanesIn(w.tabs)
      BY <2>2 DEF SpaceOK, NumbersOK
    <3>2. \A p, q \in DOMAIN w.numbers : w.numbers[p] = w.numbers[q] => p = q
      BY <1>2, <2>2, SpaceFacts
    <3>3. QED
      BY <2>2, <3>1, <3>2
  <2>5. \A t, u \in DOMAIN w.tabs : t # u => /\ w.tabs[t].number # w.tabs[u].number
                                            /\ w.tabs[t].panes \cap w.tabs[u].panes = {}
    BY <2>2 DEF SpaceOK, TabsOK
  <2>6. QED
    BY <2>3, <2>4, <2>5 DEF w
<1>5. ViewExists
  BY <1>2 DEF ViewOK, ViewExists, Indices
<1>6. TerminalsAttached
  BY <1>2, AllPanesIn DEF AppOK, TerminalsAttached
<1>7. QED
  BY <1>3, <1>4, <1>5, <1>6, TypeHere DEF Consistent

LEMMA InitIInv == Init => IInv
<1> SUFFICES ASSUME Init PROVE IInv
  OBVIOUS
<1> DEFINE w == NewWorkspace(1, 1)
           S == <<w>>
           N == use.numbers
<1>1. /\ use \in Uses /\ nextPane = 2 /\ nextWorkspace = 2 /\ overlays = <<>> /\ asked = FALSE /\ given = Registered(app)
      /\ app = [workspaces |-> S, active |-> 1, selected |-> 1, previous |-> NoFocus, aliases |-> <<>>, terminals |-> {1}]
  BY DEF Init
<1>2. N \in Nat \ {0} /\ N \in Nat /\ use.panes \in Nat \ {0} /\ use.workspaces \in Nat \ {0}
  <2>1. {use.panes, use.workspaces, use.numbers} \subseteq Nat \ {0}
    BY <1>1, WorkspacesAssumption
  <2>2. QED
    BY <2>1
<1> HIDE DEF N
<1>3. IsNew(w, 1, 1, N)
  BY <1>2, NewIs
<1> HIDE DEF w
<1>4. SpaceOK(w, {}, N) /\ w.tabs # <<>> /\ w.id = 1 /\ \A p : p \in PanesIn(w.tabs) <=> p = 1
  BY <1>3 DEF IsNew
<1>5. w \in SpaceRecord
  BY <1>4 DEF SpaceOK
<1>6. /\ S \in Seq(SpaceRecord) /\ DOMAIN S = {1} /\ S[1] = w /\ S # <<>>
  BY <1>5
<1> HIDE DEF S
<1>7. SpacesOK(S, N, 2)
  BY <1>4, <1>6 DEF SpacesOK
<1>8. PanesAll(S) = {1}
  <2>1. \A p : p \in PanesAll(S) <=> p = 1
    BY <1>4, <1>6, PanesAllFacts
  <2>2. QED
    BY <2>1
<1>9. <<>> \in AliasMap
  <2>1. <<>> \in [{} -> Nat] /\ {} \in SUBSET [ws : Nat, number : Nat]
    OBVIOUS
  <2>2. QED
    BY <2>1 DEF AliasMap
<1>10. app \in AppRecord
  BY <1>1, <1>6, <1>9 DEF AppRecord, NoFocus
<1>11. AppOK(app, {}, N, 2, 2)
  BY <1>1, <1>7, <1>8, <1>10 DEF AppOK, NoFocus
<1>12. ViewOK(app, Takes("lose"))
  <2>1. app.active \in DOMAIN app.workspaces /\ app.selected \in DOMAIN app.workspaces
    BY <1>1, <1>6
  <2>2. QED
    BY <2>1, ViewActive
<1>13. OverlaysOK(overlays, 2)
  BY <1>1 DEF OverlaysOK
<1>14. AppInv
  BY <1>1, <1>2, <1>11, <1>12, <1>13 DEF AppInv, N
<1>15. IdsOK(app, given, 2, 2)
  <2>1. app.aliases = <<>>
    BY <1>1
  <2>2. IdsOK(app, Registered(app), 2, 2)
    BY <1>2, <1>11, <2>1, IdsAnew
  <2>3. QED
    BY <1>1, <2>2
<1>16. CommandsOK
  BY DEF Init, CommandsOK
<1>17. QED
  BY <1>1, <1>14, <1>15, <1>16 DEF IInv

\* Commands come with new panes and go with theirs.
LEMMA LaunchesKeep ==
    ASSUME CommandsOK, Launches
    PROVE  CommandsOK'
BY DEF CommandsOK, Launches

\* What a handler does.
Handled == \E M : M \subseteq PanesAll(app.workspaces) /\ Stepped(M)

LEMMA HandledQuietly ==
    ASSUME Stepped({})
    PROVE  Handled
BY DEF Handled

LEMMA FocusingHandled ==
    ASSUME AppInv, Focusing
    PROVE  Handled
<1>1. CASE CreateWorkspace(TRUE)
  BY <1>1, CreateWorkspaceStep, HandledQuietly
<1>2. CASE FocusLast
  BY <1>2, FocusLastStep, HandledQuietly
<1>3. CASE OpenOverlay
  BY <1>3, OpenOverlayStep, HandledQuietly
<1>4. ASSUME NEW i \in Indices(app), WorktreeOpen(i, TRUE) PROVE Handled
  BY <1>4, WorktreeOpenStep, HandledQuietly
<1>5. ASSUME NEW i \in Indices(app), CreateTab(i, TRUE) PROVE Handled
  BY <1>5, CreateTabStep, HandledQuietly
<1>6. ASSUME NEW i \in Indices(app), NEW t \in DOMAIN app.workspaces[i].tabs, FocusTab(i, t) PROVE Handled
  BY <1>6, FocusTabStep, HandledQuietly
<1>7. ASSUME NEW i \in Indices(app), NEW n \in 1 .. use.panes, NEW t, LayoutApply(i, t, n, TRUE) PROVE Handled
  BY <1>7, LayoutApplyStep, HandledQuietly
<1>8. ASSUME NEW i \in Indices(app), NEW p \in PanesOf(app.workspaces[i]), Split(i, p, TRUE) PROVE Handled
  BY <1>8, SplitStep, HandledQuietly
<1>9. ASSUME NEW i \in Indices(app), NEW p \in PanesOf(app.workspaces[i]), Focus(i, p) PROVE Handled
  BY <1>9, FocusStep, HandledQuietly
<1>10. ASSUME NEW i \in Indices(app), NEW p \in PanesOf(app.workspaces[i]), NEW desired \in BOOLEAN,
              Zoom(i, p, desired) PROVE Handled
  BY <1>10, ZoomStep, HandledQuietly
<1>11. ASSUME NEW i \in Indices(app), NEW p \in PanesOf(app.workspaces[i]), NEW q, Swap(i, p, q) PROVE Handled
  BY <1>11, SwapStep, HandledQuietly
<1>12. ASSUME NEW i \in Indices(app), NEW p \in PanesOf(app.workspaces[i]), NEW d \in Destinations(app),
              PaneMove(i, p, d, TRUE) PROVE Handled
  BY <1>12, PaneMoveStep DEF Handled
<1>13. QED
  BY <1>1, <1>2, <1>3, <1>4, <1>5, <1>6, <1>7, <1>8, <1>9, <1>10, <1>11, <1>12 DEF Focusing

LEMMA BackgroundHandled ==
    ASSUME AppInv, Background
    PROVE  Handled
<1>1. CASE CreateWorkspace(FALSE)
  BY <1>1, CreateWorkspaceStep, HandledQuietly
<1>2. ASSUME NEW i \in Indices(app), WorktreeOpen(i, FALSE) PROVE Handled
  BY <1>2, WorktreeOpenStep, HandledQuietly
<1>3. ASSUME NEW i \in Indices(app), CreateTab(i, FALSE) PROVE Handled
  BY <1>3, CreateTabStep, HandledQuietly
<1>4. ASSUME NEW i \in Indices(app), CreateTabFails(i) PROVE Handled
  BY <1>4, CreateTabFailsStep, HandledQuietly
<1>5. ASSUME NEW i \in Indices(app), CloseWorkspace(i) PROVE Handled
  BY <1>5, CloseWorkspaceStep, HandledQuietly
<1>6. ASSUME NEW i \in Indices(app), NEW j \in Indices(app), MoveWorkspace(i, j) PROVE Handled
  BY <1>6, MoveWorkspaceStep, HandledQuietly
<1>7. ASSUME NEW i \in Indices(app), NEW j \in Indices(app), NEW k \in {0} \cup Indices(app),
             MoveBlock(i, j, k) PROVE Handled
  BY <1>7, MoveBlockStep, HandledQuietly
<1>8. ASSUME NEW i \in Indices(app), NEW t, NEW u, MoveTab(i, t, u) PROVE Handled
  BY <1>8, MoveTabStep, HandledQuietly
<1>9. ASSUME NEW i \in Indices(app), NEW t, CloseTabOf(i, t) PROVE Handled
  BY <1>9, CloseTabOfStep, HandledQuietly
<1>10. ASSUME NEW i \in Indices(app), NEW n \in 1 .. use.panes, NEW t, LayoutApply(i, t, n, FALSE) PROVE Handled
  BY <1>10, LayoutApplyStep, HandledQuietly
<1>11. ASSUME NEW i \in Indices(app), NEW n \in 1 .. use.panes, LayoutFails(i, n) PROVE Handled
  BY <1>11, LayoutFailsStep, HandledQuietly
<1>12. ASSUME NEW i \in Indices(app), NEW p \in PanesOf(app.workspaces[i]), Split(i, p, FALSE) PROVE Handled
  BY <1>12, SplitStep, HandledQuietly
<1>13. ASSUME NEW i \in Indices(app), NEW p \in PanesOf(app.workspaces[i]), SplitFails(i, p) PROVE Handled
  BY <1>13, SplitFailsStep, HandledQuietly
<1>14. ASSUME NEW i \in Indices(app), NEW p \in PanesOf(app.workspaces[i]), ClosePaneOf(i, p) PROVE Handled
  BY <1>14, ClosePaneOfStep, HandledQuietly
<1>15. ASSUME NEW p, PaneDied(p) PROVE Handled
  BY <1>15, PaneDiedStep, HandledQuietly
<1>16. ASSUME NEW i \in Indices(app), NEW p \in PanesOf(app.workspaces[i]), NEW d \in Destinations(app),
              PaneMove(i, p, d, FALSE) PROVE Handled
  BY <1>16, PaneMoveStep DEF Handled
<1>17. QED
  BY <1>1, <1>2, <1>3, <1>4, <1>5, <1>6, <1>7, <1>8, <1>9, <1>10, <1>11, <1>12, <1>13, <1>14, <1>15, <1>16
     DEF Background

\* After a handler.
LEMMA HandledKeeps ==
    ASSUME IInv, Handled, CommandsOK', use' = use, asked' \in BOOLEAN, given' = given \cup Registered(app')
    PROVE  IInv'
<1>1. PICK M : M \subseteq PanesAll(app.workspaces) /\ Stepped(M)
  BY DEF Handled
<1>2. AppInv /\ IdsOK(app, given, nextPane, nextWorkspace)
  BY DEF IInv
<1>3. /\ use.numbers \in Nat /\ nextPane \in Nat /\ nextWorkspace \in Nat /\ nextPane \in Nat \ {0}
      /\ nextWorkspace \in Nat \ {0} /\ use \in Uses
      /\ AppOK(app, {}, use.numbers, nextPane, nextWorkspace)
  BY <1>2, Bounds DEF AppInv
<1>4. /\ AppOK(app', {}, use.numbers, nextPane', nextWorkspace') /\ ViewOK(app', Takes("lose"))
      /\ Follows(app.workspaces, app'.workspaces, M, nextPane, nextWorkspace) /\ AliasesFollow(app, app', M)
      /\ OverlaysOK(overlays', nextPane')
      /\ nextPane' \in nextPane .. use.panes + 1 /\ nextWorkspace' \in nextWorkspace .. use.workspaces + 1
  BY <1>1 DEF Stepped, Done
<1>5. /\ nextPane' \in Nat /\ nextPane <= nextPane' /\ nextWorkspace' \in Nat /\ nextWorkspace <= nextWorkspace'
      /\ nextPane' \in 1 .. use.panes + 1 /\ nextWorkspace' \in 1 .. use.workspaces + 1
  BY <1>3, <1>4
<1>6. AppInv'
  BY <1>3, <1>4, <1>5 DEF AppInv, Takes
<1>7. IdsOK(app', given \cup Registered(app'), nextPane', nextWorkspace')
  BY <1>1, <1>2, <1>3, <1>4, <1>5, IdsFollow
<1>8. QED
  BY <1>6, <1>7 DEF IInv

\* The commands are handed over with their panes, and end with the server that
\* stops.
LEMMA StartingCommands ==
    ASSUME AppInv, CommandsOK, Starting
    PROVE  CommandsOK'
<1>1. CASE Handoff
  <2>1. app' = Restored(app, {}) /\ commands' = commands /\ respawns' = commands
    BY <1>1 DEF Handoff
  <2>2. AllPanes(app') = AllPanes(app)
    <3>1. app'.terminals = app.terminals \ {}
      BY <2>1, Zenon DEF Restored
    <3>2. app.terminals = PanesAll(app.workspaces) \cup {}
      BY DEF AppInv, AppOK
    <3>3. app'.terminals = PanesAll(app'.workspaces) \cup {}
      BY StartingStep DEF IsRestored, AppOK
    <3>4. QED
      BY <3>1, <3>2, <3>3, AllPanesIn
  <2>3. QED
    BY <2>1, <2>2 DEF CommandsOK
<1>2. CASE \E lost \in SUBSET AllPanes(app) : Restart(lost)
  BY <1>2 DEF Restart, CommandsOK
<1>3. QED
  BY <1>1, <1>2 DEF Starting

\* After another server took over.
LEMMA StartingKeeps ==
    ASSUME IInv, Starting, use' = use, asked' \in BOOLEAN, given' = Registered(app')
    PROVE  IInv'
<1>1. AppInv
  BY DEF IInv
<1>2. /\ IsRestored(app', use.numbers, nextPane, nextWorkspace, Takes("lose"))
      /\ overlays' = <<>> /\ nextPane' = nextPane /\ nextWorkspace' = NextWorkspaceId(app')
  BY <1>1, StartingStep
<1>3. /\ use.numbers \in Nat /\ nextPane \in Nat /\ nextWorkspace \in Nat /\ use \in Uses
      /\ nextPane \in 1 .. use.panes + 1 /\ nextWorkspace \in 1 .. use.workspaces + 1 /\ use.workspaces \in Nat
  BY <1>1, Bounds DEF AppInv
<1>4. /\ AppOK(app', {}, use.numbers, nextPane', nextWorkspace') /\ ViewOK(app', Takes("lose")) /\ app'.aliases = <<>>
      /\ nextWorkspace' \in 1 .. nextWorkspace
  BY <1>2 DEF IsRestored
<1>5. nextWorkspace' \in Nat /\ nextWorkspace' \in 1 .. use.workspaces + 1 /\ nextPane' \in Nat
  BY <1>2, <1>3, <1>4
<1>6. OverlaysOK(overlays', nextPane')
  BY <1>2 DEF OverlaysOK
<1>7. AppInv'
  BY <1>2, <1>3, <1>4, <1>5, <1>6 DEF AppInv, Takes
<1>8. IdsOK(app', Registered(app'), nextPane', nextWorkspace')
  BY <1>3, <1>4, <1>5, IdsAnew
<1>9. CommandsOK'
  BY StartingCommands DEF IInv
<1>10. QED
  BY <1>7, <1>8, <1>9 DEF IInv

LEMMA NextIInv == IInv /\ [Next]_vars => IInv'
<1> SUFFICES ASSUME IInv, [Next]_vars PROVE IInv'
  OBVIOUS
<1>1. AppInv
  BY DEF IInv
<1>2. CASE Focusing /\ Launches /\ asked' = TRUE /\ given' = given \cup Registered(app') /\ use' = use
  <2>1. Handled
    BY <1>1, <1>2, FocusingHandled
  <2>2. CommandsOK'
    BY <1>2, LaunchesKeep DEF IInv
  <2>3. QED
    BY <1>2, <2>1, <2>2, HandledKeeps
<1>3. CASE Background /\ Launches /\ asked' = FALSE /\ given' = given \cup Registered(app') /\ use' = use
  <2>1. Handled
    BY <1>1, <1>3, BackgroundHandled
  <2>2. CommandsOK'
    BY <1>3, LaunchesKeep DEF IInv
  <2>3. QED
    BY <1>3, <2>1, <2>2, HandledKeeps
<1>4. CASE Starting /\ asked' = (AllPanes(app') # AllPanes(app)) /\ given' = Registered(app') /\ use' = use
  <2>1. asked' \in BOOLEAN
    BY <1>4
  <2>2. QED
    BY <1>4, <2>1, StartingKeeps
<1>5. CASE UNCHANGED vars
  <2>1. /\ use' = use /\ app' = app /\ overlays' = overlays /\ nextPane' = nextPane /\ nextWorkspace' = nextWorkspace
        /\ commands' = commands /\ respawns' = respawns /\ asked' = asked /\ given' = given
    BY <1>5 DEF vars
  <2>2. AppInv'
    BY <1>1, <2>1 DEF AppInv, Takes
  <2>3. CommandsOK'
    BY <2>1 DEF IInv, CommandsOK
  <2>4. QED
    BY <2>1, <2>2, <2>3 DEF IInv
<1>6. ASSUME NEW p \in respawns, RespawnShell(p), use' = use, asked' = FALSE, given' = given \cup Registered(app')
      PROVE  IInv'
  <2>1. p \in AllPanes(app) /\ CommandsOK
    BY DEF IInv, CommandsOK
  <2>2. Handled /\ AllPanes(app') = AllPanes(app)
    BY <1>1, <1>6, <2>1, RespawnShellStep, HandledQuietly
  <2>3. CommandsOK'
    BY <1>6, <2>1, <2>2 DEF RespawnShell, CommandsOK
  <2>4. QED
    BY <1>6, <2>2, <2>3, HandledKeeps
<1>7. QED
  BY <1>2, <1>3, <1>4, <1>5, <1>6 DEF Next

LEMMA Invariance == Spec => []IInv
BY InitIInv, NextIInv, PTL DEF Spec

-----------------------------------------------------------------------------
(* Overlays.                                                               *)

\* No overlay covers itself.
Covers == \A p \in DOMAIN overlays : overlays[p].focus # p

\* A tab with two panes has more than one leaf.
LEMMA TwoLeaves ==
    ASSUME NEW t, TabOK(t), NEW p \in t.panes, NEW q \in t.panes, p # q
    PROVE  Len(t.layout) # 1
<1>1. t.layout \in Seq(Nat) /\ ToSet(t.layout) = t.panes
  BY TabFields DEF TabOK
<1>2. SUFFICES ASSUME Len(t.layout) = 1 PROVE FALSE
  OBVIOUS
<1>3. DOMAIN t.layout = {1}
  BY <1>1, <1>2
<1>4. QED
  BY <1>1, <1>3 DEF ToSet

\* A pane is where a search finds it.
LEMMA WhereItIs ==
    ASSUME NEW N \in Nat, NEW nw \in Nat, NEW a, SpacesOK(a.workspaces, N, nw),
           NEW i \in DOMAIN a.workspaces, NEW t \in DOMAIN a.workspaces[i].tabs,
           NEW p \in a.workspaces[i].tabs[t].panes
    PROVE  WorkspaceOf(a, p) = i /\ TabOf(a.workspaces[i], p) = t
<1> DEFINE S == a.workspaces
           w == S[i]
           j == WorkspaceOf(a, p)
           u == TabOf(w, p)
<1>1. /\ S \in Seq(SpaceRecord) /\ w.tabs \in Seq(TabRecord) /\ TabsOK(w.tabs)
  BY SpacesFacts
<1>2. p \in PanesIn(w.tabs)
  BY PanesInFacts
<1>3. p \in AllPanes(a)
  BY <1>2, AllPanesIn, PanesAllFacts
<1>4. j \in DOMAIN S /\ p \in PanesIn(S[j].tabs)
  BY <1>1, <1>3, WorkspaceOfFacts
<1>5. j = i
  <2> HIDE DEF j
  <2>1. QED
    BY <1>2, <1>4, SpacesApart
<1>6. u \in DOMAIN w.tabs /\ p \in w.tabs[u].panes
  BY <1>1, <1>2, PanesOfIn, TabOfFacts
<1>7. u = t
  <2> HIDE DEF u
  <2>1. QED
    BY <1>1, <1>6 DEF TabsOK
<1>8. QED
  BY <1>5, <1>7

\* The tab t of workspace i loses the pane p, and stays where it is in b.
Lost(p, i, t, b) ==
    /\ i \in Indices(app) /\ t \in DOMAIN app.workspaces[i].tabs /\ p \in app.workspaces[i].tabs[t].panes
    /\ i \in Indices(b) /\ t \in DOMAIN b.workspaces[i].tabs
    /\ b.workspaces[i].tabs[t].panes = app.workspaces[i].tabs[t].panes \ {p}

\* When a pane dies that is not alone in its tab, that tab stays where it is.
LEMMA DiedBeside ==
    ASSUME AppInv, NEW p \in AllPanes(app), NEW i, i = WorkspaceOf(app, p), NEW t, t = TabOf(app.workspaces[i], p),
           Len(app.workspaces[i].tabs[t].layout) # 1
    PROVE  Lost(p, i, t, Died(app, p))
<1> DEFINE S == app.workspaces
           v == S[i]
           tab == v.tabs[t]
           w == ClosePane(v, p)
           taken == Take(v, p)
           u == Detach(tab, p)
           P == {p}
           b == Died(app, p)
           c == [app EXCEPT !.workspaces[i] = w]
           d == Forget(c, P)
<1>1. /\ S \in Seq(SpaceRecord) /\ SpacesOK(S, use.numbers, nextWorkspace) /\ app \in AppRecord
  BY AppFields DEF AppInv, AppOK
<1>2. i \in DOMAIN S /\ p \in PanesIn(v.tabs)
  BY <1>1, WorkspaceOfFacts
<1>3. SpaceOK(v, {}, use.numbers) /\ use.numbers \in Nat /\ i \in Indices(app)
  BY <1>2, Space, Bounds DEF Indices
<1>4. v.tabs \in Seq(TabRecord) /\ v \in SpaceRecord /\ TabsOK(v.tabs)
  BY <1>3, SpaceFacts
<1>5. t \in DOMAIN v.tabs /\ p \in tab.panes
  BY <1>2, <1>4, PanesOfIn, TabOfFacts
<1>6. TabOK(u) /\ u.panes = tab.panes \ {p}
  <2>1. TabOK(tab)
    BY <1>4, <1>5 DEF TabsOK
  <2>2. QED
    BY <1>5, <2>1, DetachOK
<1>7. taken = PutTab(v, t, u)
  BY DEF Take, PutTab
<1>8. /\ DOMAIN taken.tabs = DOMAIN v.tabs /\ taken.tabs[t] = u /\ taken \in SpaceRecord
  <2> HIDE DEF u
  <2>1. u \in TabRecord
    BY <1>6 DEF TabOK
  <2>2. PutTab(v, t, u).tabs[t] = u /\ DOMAIN PutTab(v, t, u).tabs = DOMAIN v.tabs
    BY <1>4, <1>5, <2>1, PutTabFacts
  <2>3. IsTaken(v, p, P, use.numbers, taken)
    BY <1>2, <1>3, TakeOK
  <2>4. taken \in SpaceRecord
    BY <2>3 DEF IsTaken, SpaceOK
  <2>5. QED
    BY <1>7, <2>2, <2>4
<1>9. w.tabs = taken.tabs /\ w \in SpaceRecord
  <2>1. w = Unregister(taken, P)
    BY DEF ClosePane
  <2>2. SpaceOK(w, {}, use.numbers)
    BY <1>2, <1>3, ClosePaneOK DEF Loses
  <2>0. taken \in SpaceRecord
    BY <1>8
  <2> HIDE DEF w, taken, P
  <2>3. w.tabs = taken.tabs
    BY <2>0, <2>1, UnregisterFacts
  <2>4. QED
    BY <2>2, <2>3 DEF SpaceOK
<1>10. ~LastPane(v, p)
  <2>1. Len(v.tabs) = 1 => t = 1
    BY <1>4, <1>5
  <2>2. QED
    BY <2>1 DEF LastPane
<1>11. b.workspaces = d.workspaces
  <2>1. b = Unalias(d, p)
    BY <1>10 DEF Died, Unalias
  <2> HIDE DEF d
  <2>2. d \in AppRecord => Unalias(d, p).workspaces = d.workspaces
    BY DEF Unalias, AppRecord
  <2>3. QED
    BY <2>1 DEF Unalias
<1>12. d.workspaces = c.workspaces /\ c.workspaces = [S EXCEPT ![i] = w]
  <2>1. c.workspaces = [S EXCEPT ![i] = w] /\ c \in AppRecord
    <3> HIDE DEF w
    <3>1. c = AppPut(app, i, w, app.terminals)
      BY <1>1, <1>2, AppPutSame
    <3>2. app.terminals \in SUBSET Nat
      BY <1>1, AppFields
    <3>3. IsPut(app, i, w, app.terminals, c)
      BY <1>1, <1>2, <1>9, <3>1, <3>2, AppPutFields
    <3>4. QED
      BY <3>3 DEF IsPut
  <2> HIDE DEF c
  <2>2. QED
    BY <2>1, ForgetFields
<1> HIDE DEF b, c, d, w, taken, u
<1>13. b.workspaces[i] = w /\ DOMAIN b.workspaces = DOMAIN S
  BY <1>2, <1>11, <1>12
<1>14. QED
  BY <1>2, <1>3, <1>5, <1>6, <1>8, <1>9, <1>13 DEF Indices, Lost, b

\* An overlay that exits gives back what it took.
LEMMA GivenBack ==
    ASSUME AppInv, NEW p \in DOMAIN overlays, PaneDied(p), overlays[p].focus # p,
           NEW i, i = WorkspaceOf(app, p), NEW t, t = TabOf(app.workspaces[i], p),
           i = overlays[p].ws_idx, t = overlays[p].tab_idx,
           app.workspaces[i].tabs[t].focus = p, overlays[p].focus \in app.workspaces[i].tabs[t].panes
    PROVE  GivesBack(p)
<1> DEFINE o == overlays[p]
           q == o.focus
           v == app.workspaces[i]
           tab == v.tabs[t]
           b == Died(app, p)
           after == b.workspaces[i]
           left == after.tabs[t]
           x == IF app.active = i /\ v.active_tab = t THEN t ELSE after.active_tab
           shown == [after EXCEPT !.active_tab = x]
           u == [left EXCEPT !.focus = q, !.zoomed = o.zoomed]
           w == PutTab(shown, t, u)
<1>1. p \in AllPanes(app) /\ app' = RestoreOverlay(app, b, p, o)
  BY DEF PaneDied
<1>2. /\ app.workspaces \in Seq(SpaceRecord) /\ use.numbers \in Nat /\ nextWorkspace \in Nat
  BY Bounds, AppFields DEF AppInv, AppOK
<1>3. i \in Indices(app) /\ SpaceOK(v, {}, use.numbers)
  <2>1. i \in Indices(app)
    BY <1>1, <1>2, WorkspaceOfFacts DEF Indices
  <2>2. QED
    BY <2>1, Space
<1>4. t \in DOMAIN v.tabs /\ p \in tab.panes /\ TabOK(tab)
  <2>1. v.tabs \in Seq(TabRecord) /\ TabsOK(v.tabs)
    BY <1>2, <1>3, SpaceFacts
  <2>2. p \in PanesOf(v)
    BY <1>1, <1>2, WorkspaceOfFacts, PanesOfIn
  <2>3. t \in DOMAIN v.tabs /\ p \in tab.panes
    BY <2>1, <2>2, TabOfFacts
  <2>4. QED
    BY <2>1, <2>3 DEF TabsOK
<1>5. Len(tab.layout) # 1
  <2> HIDE DEF tab
  <2>1. q \in tab.panes
    BY DEF tab
  <2>2. QED
    BY <1>4, <2>1, TwoLeaves
<1>6. /\ i \in Indices(b) /\ t \in DOMAIN after.tabs /\ left.panes = tab.panes \ {p}
  <2>1. Lost(p, i, t, b)
    BY <1>1, <1>5, DiedBeside
  <2> HIDE DEF b
  <2>2. QED
    BY <2>1 DEF Lost
<1>7. q \in left.panes
  BY <1>6
<1>8. Done(b, {}, nextPane, nextWorkspace)
  BY <1>1, DoneDied
<1> HIDE DEF b
<1>9. app' = [b EXCEPT !.workspaces[i] = w]
  BY <1>1, <1>3, <1>4, <1>6, <1>7 DEF RestoreOverlay, PutTab
<1>10. /\ b \in AppRecord /\ SpaceOK(after, {}, use.numbers) /\ TabOK(left)
  <2>1. b \in AppRecord /\ SpacesOK(b.workspaces, use.numbers, nextWorkspace)
    BY <1>8 DEF Done, AppOK
  <2>2. SpaceOK(after, {}, use.numbers)
    BY <1>6, <2>1 DEF SpacesOK, Indices
  <2>3. QED
    BY <1>6, <2>1, <2>2 DEF SpaceOK, TabsOK
<1>11. u \in TabRecord /\ u.focus = q /\ u.zoomed = o.zoomed /\ u.panes = left.panes
  <2>1. o.zoomed \in BOOLEAN
    BY DEF AppInv, OverlaysOK
  <2> DEFINE z == o.zoomed
  <2> HIDE DEF left, o, q, z
  <2>2. z \in BOOLEAN /\ q \in left.panes /\ TabOK(left)
    BY <1>7, <1>10, <2>1 DEF z, o, q
  <2>3. left \in TabRecord /\ q \in Nat
    BY <2>2, TabFields DEF TabOK
  <2> DEFINE f == [left EXCEPT !.focus = q, !.zoomed = z]
  <2>4. f \in TabRecord /\ f.focus = q /\ f.zoomed = z /\ f.panes = left.panes
    BY <2>2, <2>3 DEF TabRecord
  <2>5. QED
    BY <2>4 DEF z, o, q
<1>12. shown \in SpaceRecord /\ shown.tabs = after.tabs
  <2>1. x \in DOMAIN after.tabs
    <3>1. t \in DOMAIN after.tabs
      BY <1>6
    <3> DEFINE s == after.tabs
    <3> HIDE DEF s
    <3>4. t \in DOMAIN s
      BY <3>1 DEF s
    <3>5. after.tabs # <<>>
      BY <3>4 DEF s
    <3> HIDE DEF after
    <3>2. after.active_tab \in DOMAIN after.tabs
      BY <1>10, <3>5 DEF SpaceOK
    <3>3. QED
      BY <3>1, <3>2
  <2> HIDE DEF x, after
  <2>2. SpaceOK(shown, {}, use.numbers) /\ shown.tabs = after.tabs
    BY <1>2, <1>10, <2>1, ShowTabOK
  <2>3. QED
    BY <2>2 DEF SpaceOK
<1>13. /\ DOMAIN w.tabs = DOMAIN after.tabs /\ w.tabs[t] = u
  <2>1. t \in DOMAIN shown.tabs /\ u \in TabRecord /\ shown \in SpaceRecord
    BY <1>6, <1>11, <1>12
  <2> HIDE DEF shown, u
  <2>2. PutTab(shown, t, u).tabs[t] = u /\ DOMAIN PutTab(shown, t, u).tabs = DOMAIN shown.tabs
    BY <2>1, PutTabFacts
  <2>3. QED
    BY <1>12, <2>2
<1>14. i \in DOMAIN app'.workspaces /\ app'.workspaces[i] = w
  <2> HIDE DEF w
  <2>1. i \in DOMAIN b.workspaces
    BY <1>6 DEF Indices
  <2>2. b.workspaces \in Seq(SpaceRecord)
    BY <1>10, AppFields
  <2>3. app'.workspaces = [b.workspaces EXCEPT ![i] = w]
    BY <1>9, <1>10 DEF AppRecord
  <2>4. QED
    BY <2>1, <2>2, <2>3
<1>15. SpacesOK(app'.workspaces, use.numbers, nextWorkspace') /\ nextWorkspace' \in Nat
  <2>1. Stepped({})
    BY PaneDiedStep
  <2>2. nextWorkspace' = nextWorkspace
    BY DEF PaneDied, Keep
  <2>3. QED
    BY <1>2, <2>1, <2>2 DEF Stepped, Done, AppOK
<1> HIDE DEF w, u, shown, x
<1>16. t \in DOMAIN w.tabs /\ q \in w.tabs[t].panes /\ w.tabs[t].focus = q /\ w.tabs[t].zoomed = o.zoomed
  <2> HIDE DEF after, left, q, o
  <2>1. QED
    BY <1>6, <1>7, <1>11, <1>12, <1>13
<1>17. WorkspaceOf(app', q) = i /\ TabOf(w, q) = t
  <2> DEFINE a == app'
  <2>1. t \in DOMAIN a.workspaces[i].tabs /\ q \in a.workspaces[i].tabs[t].panes
    BY <1>14, <1>16
  <2>2. SpacesOK(a.workspaces, use.numbers, nextWorkspace') /\ i \in DOMAIN a.workspaces
    BY <1>14, <1>15
  <2>3. a.workspaces[i] = w
    BY <1>14
  <2> DEFINE N == use.numbers
             nw == nextWorkspace'
  <2>4. N \in Nat /\ nw \in Nat /\ SpacesOK(a.workspaces, N, nw)
    BY <1>2, <1>15, <2>2
  <2> HIDE DEF a, q, w, o, v, tab, b, after, left, N, nw
  <2>5. WorkspaceOf(a, q) = i /\ TabOf(a.workspaces[i], q) = t
    BY ONLY <2>1, <2>2, <2>4, WhereItIs
  <2>6. QED
    BY <2>3, <2>5 DEF a
<1> HIDE DEF w
<1>18. app'.workspaces[WorkspaceOf(app', q)] = w
  BY <1>14, <1>17
<1>19. QED
  BY <1>16, <1>17, <1>18 DEF GivesBack

\* The other handlers leave the overlays alone.
LEMMA FocusingQuiet ==
    ASSUME Focusing
    PROVE  OpenOverlay \/ overlays' = overlays
<1>1. CASE CreateWorkspace(TRUE)
  BY <1>1 DEF CreateWorkspace, Keep
<1>2. CASE FocusLast
  BY <1>2 DEF FocusLast, Keep
<1>3. ASSUME NEW i, WorktreeOpen(i, TRUE) PROVE overlays' = overlays
  BY <1>3 DEF WorktreeOpen, Keep
<1>4. ASSUME NEW i, CreateTab(i, TRUE) PROVE overlays' = overlays
  BY <1>4 DEF CreateTab, Keep
<1>5. ASSUME NEW i, NEW t, FocusTab(i, t) PROVE overlays' = overlays
  BY <1>5 DEF FocusTab, Keep
<1>6. ASSUME NEW i, NEW n, NEW t, LayoutApply(i, t, n, TRUE) PROVE overlays' = overlays
  BY <1>6 DEF LayoutApply, Keep
<1>7. ASSUME NEW i, NEW p, Split(i, p, TRUE) PROVE overlays' = overlays
  BY <1>7 DEF Split, Keep
<1>8. ASSUME NEW i, NEW p, Focus(i, p) PROVE overlays' = overlays
  BY <1>8 DEF Focus, Keep
<1>9. ASSUME NEW i, NEW p, NEW desired, Zoom(i, p, desired) PROVE overlays' = overlays
  BY <1>9 DEF Zoom, Keep
<1>10. ASSUME NEW i, NEW p, NEW q, Swap(i, p, q) PROVE overlays' = overlays
  BY <1>10 DEF Swap, Keep
<1>11. ASSUME NEW i, NEW p, NEW d, PaneMove(i, p, d, TRUE) PROVE overlays' = overlays
  BY <1>11 DEF PaneMove, Keep
<1>12. QED
  BY <1>1, <1>2, <1>3, <1>4, <1>5, <1>6, <1>7, <1>8, <1>9, <1>10, <1>11 DEF Focusing

LEMMA BackgroundQuiet ==
    ASSUME Background
    PROVE  (\E p : PaneDied(p)) \/ overlays' = overlays
<1>1. CASE CreateWorkspace(FALSE)
  BY <1>1 DEF CreateWorkspace, Keep
<1>2. ASSUME NEW i, WorktreeOpen(i, FALSE) PROVE overlays' = overlays
  BY <1>2 DEF WorktreeOpen, Keep
<1>3. ASSUME NEW i, CreateTab(i, FALSE) PROVE overlays' = overlays
  BY <1>3 DEF CreateTab, Keep
<1>4. ASSUME NEW i, CreateTabFails(i) PROVE overlays' = overlays
  BY <1>4 DEF CreateTabFails, Keep
<1>5. ASSUME NEW i, CloseWorkspace(i) PROVE overlays' = overlays
  BY <1>5 DEF CloseWorkspace, Keep
<1>6. ASSUME NEW i, NEW j, MoveWorkspace(i, j) PROVE overlays' = overlays
  BY <1>6 DEF MoveWorkspace, Keep
<1>7. ASSUME NEW i, NEW j, NEW k, MoveBlock(i, j, k) PROVE overlays' = overlays
  BY <1>7 DEF MoveBlock, Keep
<1>8. ASSUME NEW i, NEW t, NEW u, MoveTab(i, t, u) PROVE overlays' = overlays
  BY <1>8 DEF MoveTab, Keep
<1>9. ASSUME NEW i, NEW t, CloseTabOf(i, t) PROVE overlays' = overlays
  BY <1>9 DEF CloseTabOf, Keep
<1>10. ASSUME NEW i, NEW n, NEW t, LayoutApply(i, t, n, FALSE) PROVE overlays' = overlays
  BY <1>10 DEF LayoutApply, Keep
<1>11. ASSUME NEW i, NEW n, LayoutFails(i, n) PROVE overlays' = overlays
  BY <1>11 DEF LayoutFails, Keep
<1>12. ASSUME NEW i, NEW p, Split(i, p, FALSE) PROVE overlays' = overlays
  BY <1>12 DEF Split, Keep
<1>13. ASSUME NEW i, NEW p, SplitFails(i, p) PROVE overlays' = overlays
  BY <1>13 DEF SplitFails, Keep
<1>14. ASSUME NEW i, NEW p, ClosePaneOf(i, p) PROVE overlays' = overlays
  BY <1>14 DEF ClosePaneOf, Keep
<1>15. ASSUME NEW i, NEW p, NEW d, PaneMove(i, p, d, FALSE) PROVE overlays' = overlays
  BY <1>15 DEF PaneMove, Keep
<1>16. QED
  BY <1>1, <1>2, <1>3, <1>4, <1>5, <1>6, <1>7, <1>8, <1>9, <1>10, <1>11, <1>12, <1>13, <1>14, <1>15
     DEF Background

LEMMA InitCovers == Init => Covers
BY DEF Init, Covers

\* A new overlay covers a pane that is there.
LEMMA OpenOverlayCovers ==
    ASSUME AppInv, Covers, OpenOverlay
    PROVE  Covers'
<1> DEFINE i == app.active
           t == app.workspaces[i].active_tab
           tab == app.workspaces[i].tabs[t]
           o == [ws_idx |-> i, tab_idx |-> t, focus |-> tab.focus, zoomed |-> tab.zoomed]
<1>1. overlays' = With(overlays, nextPane, o) /\ i # 0
  BY DEF OpenOverlay
<1>2. i \in Indices(app)
  BY <1>1 DEF AppInv, ViewOK, Indices
<1>3. /\ t \in DOMAIN app.workspaces[i].tabs /\ SpaceOK(app.workspaces[i], {}, use.numbers)
      /\ nextPane \notin PanesIn(app.workspaces[i].tabs)
  BY <1>2, Space
<1>4. TabOK(tab)
  BY <1>3 DEF SpaceOK, TabsOK
<1>5. tab.focus # nextPane
  BY <1>3, <1>4, PanesInFacts DEF TabOK
<1> HIDE DEF tab, i, t
<1>6. o.focus # nextPane
  BY <1>5
<1> HIDE DEF o
<1>7. QED
  BY <1>1, <1>6 DEF With, Covers

LEMMA NextCovers == IInv /\ Covers /\ [Next]_vars => Covers'
<1> SUFFICES ASSUME IInv, Covers, [Next]_vars PROVE Covers'
  OBVIOUS
<1>1. CASE overlays' = overlays
  BY <1>1 DEF Covers
<1>2. CASE OpenOverlay
  BY <1>2, OpenOverlayCovers DEF IInv
<1>3. ASSUME NEW p, PaneDied(p) PROVE Covers'
  BY <1>3 DEF PaneDied, Covers
<1>4. CASE Starting
  <2>1. overlays' = <<>>
    BY <1>4 DEF Starting, Handoff, Restart
  <2>2. QED
    BY <2>1 DEF Covers
<1>5. CASE UNCHANGED vars
  BY <1>1, <1>5 DEF vars
<1>6. ASSUME NEW p, RespawnShell(p) PROVE Covers'
  BY <1>6 DEF RespawnShell, Covers
<1>7. QED
  BY <1>1, <1>2, <1>3, <1>4, <1>5, <1>6, FocusingQuiet, BackgroundQuiet DEF Next

\* An overlay exits, and its tab is where it was.
ExitsInPlace(p) ==
    LET o == overlays[p]
        i == WorkspaceOf(app, p)
    IN  CoverExits(p) /\ i = o.ws_idx /\ TabOf(app.workspaces[i], p) = o.tab_idx

LEMMA StepGivesBack ==
    ASSUME IInv, Covers, Next, NEW p \in DOMAIN overlays \ DOMAIN overlays', ExitsInPlace(p)
    PROVE  GivesBack(p)
<1>1. /\ ~asked' /\ p \in AllPanes(app) \ AllPanes(app')
      /\ app.workspaces[WorkspaceOf(app, p)].tabs[TabOf(app.workspaces[WorkspaceOf(app, p)], p)].focus = p
      /\ overlays[p].focus \in
           app.workspaces[WorkspaceOf(app, p)].tabs[TabOf(app.workspaces[WorkspaceOf(app, p)], p)].panes
      /\ WorkspaceOf(app, p) = overlays[p].ws_idx
      /\ TabOf(app.workspaces[WorkspaceOf(app, p)], p) = overlays[p].tab_idx
  BY DEF ExitsInPlace, CoverExits
<1>2. Background
  <2>1. AllPanes(app') # AllPanes(app)
    BY <1>1
  <2>2. ASSUME NEW q \in respawns, RespawnShell(q) PROVE FALSE
    <3>1. q \in AllPanes(app) /\ AppInv
      BY DEF IInv, CommandsOK
    <3>2. QED
      BY <2>1, <2>2, <3>1, RespawnShellStep
  <2>3. QED
    BY <1>1, <2>1, <2>2 DEF Next
<1>3. PICK q : PaneDied(q)
  BY <1>2, BackgroundQuiet
<1>4. q = p
  BY <1>3 DEF PaneDied
<1>5. overlays[p].focus # p /\ AppInv
  BY DEF Covers, IInv
<1>6. QED
  BY <1>1, <1>3, <1>4, <1>5, GivenBack

-----------------------------------------------------------------------------
(* The theorems.                                                           *)

\* Whatever is created, split, moved, swapped, laid out, closed, restarted or handed
\* over, in whatever order: every tab's tree holds its panes, each once, every
\* pane is in one tab of one workspace, numbered there and nowhere else, what the
\* user looks at exists, and the terminals are those of the panes.
THEOREM WorkspacesConsistent == Spec => []Consistent
<1>1. IInv => Consistent
  BY ConsistentHere
<1>2. QED
  BY <1>1, Invariance, PTL

\* Every public id that a pane was given leads to it as long as the pane lives,
\* also after moves between workspaces, and to no other pane ever.
THEOREM IdsLeadToTheirPanes == Spec => []IdsLead
<1>1. IInv => IdsLead
  BY IdsLeadHere
<1>2. QED
  BY <1>1, Invariance, PTL

\* An overlay that exits while it has its tab's focus gives the focus and the zoom
\* back, if the pane it covered is still in that tab and the tab is still where it was.
THEOREM OverlaysGiveBack == Spec => OverlayRestored
<1>1. IInv /\ Covers /\ [Next]_vars
        => [\A p \in DOMAIN overlays \ DOMAIN overlays' : ExitsInPlace(p) => GivesBack(p)]_vars
  BY StepGivesBack
<1>2. OverlayRestored <=> [][\A p \in DOMAIN overlays \ DOMAIN overlays' : ExitsInPlace(p) => GivesBack(p)]_vars
  BY PTL DEF OverlayRestored, ExitsInPlace
<1>3. QED
  BY <1>1, <1>2, InitIInv, NextIInv, InitCovers, NextCovers, PTL DEF Spec

=============================================================================
