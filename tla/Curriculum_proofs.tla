-------------------------- MODULE Curriculum_proofs --------------------------
(* What the curriculum guarantees for any number of chapters, items and    *)
(* tabs.                                                                   *)
EXTENDS Curriculum, FiniteSetTheorems, SequenceTheorems, WellFoundedInduction, TLAPS

-----------------------------------------------------------------------------
(* The inductive invariant.                                                *)

(* A chapter is shown once, and so is an item.                             *)
Once(a) ==
  /\ \A g, h \in Places(a) : a[g].chapter = a[h].chapter => g = h
  /\ \A g, h \in Places(a) : \A k \in Places(a[g].items), l \in Places(a[h].items) :
       a[g].items[k] = a[h].items[l] => g = h /\ k = l

Blocks == [chapter : Chapters \cup {Unassigned}, items : Seq(Items)]

Arrangements == {a \in Seq(Blocks) : Once(a)}

Elements(s) == {s[k] : k \in Places(s)}

(* The types, and how far a sort can get.                                  *)
Typed ==
  /\ chapter \in [Chapters -> [is : {"none", "there", "gone"},
                               priority : 0 .. MaxChapters + 1]]
  /\ item \in [Items -> [is : {"none", "there", "gone"},
                         chapter : Chapters \cup {Unassigned},
                         order : 0 .. Cardinality(Items)]]
  /\ browser \in [Tabs -> {"inserted", "ascending"}]
  /\ page \in [Tabs -> [groups : Arrangements, ready : BOOLEAN]]
  /\ asked \in [Tabs -> Arrangements]
  /\ req \in [Tabs -> Sorts \cup Deletions \cup Listings \cup {Idle}]
  /\ calls \in 0 .. MaxCalls
  /\ disturbed \subseteq Tabs

(* What belongs to a chapter is there, and so is the chapter.              *)
Belongs ==
  \A i \in Items : item[i].chapter # Unassigned =>
    item[i].is = "there" /\ chapter[item[i].chapter].is = "there"

(* No page shows an item that is yet to be added.                          *)
Known(a) == \A g \in Places(a) : \A i \in Elements(a[g].items) : item[i].is # "none"

(* The chapters are there.                                                 *)
Live(a) == \A g \in Places(a) : a[g].chapter \in There \cup {Unassigned}

(* Those that are shown empty are empty.                                   *)
EmptyShown(a) ==
  \A g \in Places(a) : a[g].items = <<>> /\ a[g].chapter # Unassigned
                       => In(a[g].chapter) = {}

(* A sort has no more before it than a page can show.                      *)
Bounds(r) ==
  /\ r.order + Len(r.groups) <= MaxChapters + 1
  /\ r.count + Len(r.todo) <= Cardinality(Items)

(* What sort r has before it comes from the arrangement that was dropped.  *)
Sent(r, a) ==
  /\ \A h \in Places(r.groups) : \E g \in Places(a) :
       /\ a[g].chapter = r.groups[h].chapter
       /\ Elements(r.groups[h].items) \subseteq Elements(a[g].items)
  /\ r.todo = <<>> \/ \E g \in Places(a) :
       /\ a[g].chapter = r.chapter
       /\ Elements(r.todo) \subseteq Elements(a[g].items)

Pending(r, i, c) ==
  \/ r.chapter = c /\ i \in Elements(r.todo)
  \/ \E h \in Places(r.groups) :
       r.groups[h].chapter = c /\ i \in Elements(r.groups[h].items)

(* An item was removed, or is where it was dropped.                        *)
Settled(i, c) == item[i].is # "there" \/ item[i].chapter = c

Arrived(a) ==
  \A g \in Places(a) : \A k \in Places(a[g].items) :
    Overwritten(a[g].items, k) \/ Settled(a[g].items[k], a[g].chapter)

(* Or it will be.                                                          *)
Delivered(r, a) ==
  \A g \in Places(a) : \A k \in Places(a[g].items) :
    \/ Overwritten(a[g].items, k)
    \/ Pending(r, a[g].items[k], a[g].chapter)
    \/ Settled(a[g].items[k], a[g].chapter)

Numbered(c, n) == c = Unassigned \/ chapter[c].priority = n

(* The first n of items that are there are numbered in their order, with   *)
(* numbers up to count.                                                    *)
Rising(items, n) ==
  \A k \in 1 .. n : item[items[k]].is = "there" =>
    \A j \in 1 .. k - 1 : item[items[j]].is = "there" =>
      item[items[j]].order < item[items[k]].order

UpTo(items, n, count) ==
  \A k \in 1 .. n : item[items[k]].is = "there" => item[items[k]].order <= count

(* Of the items of a chapter that have ids of their own, all but those     *)
(* that are to do were numbered.                                           *)
Half(r, items) ==
  \E d \in 0 .. Len(items) :
    /\ Len(r.todo) = Len(items) - d
    /\ \A m \in Places(r.todo) : r.todo[m] = items[d + m]
    /\ Rising(items, d) /\ UpTo(items, d, r.count)

(* The first n groups are numbered.                                        *)
Ranked(a, n) ==
  \A g \in 1 .. n : Distinct(a[g].items) => Rising(a[g].items, Len(a[g].items))

RanksTo(a, n) == \A g \in 1 .. n : Numbered(a[g].chapter, g)

(* A sort goes from the first group to the last, and has numbered what     *)
(* lies behind it.                                                         *)
Sorting(r, a) ==
  /\ r.order + Len(r.groups) = Len(a)
  /\ \A m \in Places(r.groups) :
       /\ r.groups[m].chapter = a[r.order + m].chapter
       /\ Distinct(a[r.order + m].items) => r.groups[m].items = a[r.order + m].items
  /\ RanksTo(a, r.order)
  /\ IF r.order = 0 THEN r.todo = <<>>
     ELSE /\ r.chapter = a[r.order].chapter
          /\ Distinct(a[r.order].items) => Half(r, a[r.order].items)
          /\ Ranked(a, r.order - 1)

(* The page shows what was dropped in the chapters where it was dropped.   *)
ChaptersShown(p, a) ==
  \A g \in Places(a) : \A k \in Places(a[g].items) :
    \/ Overwritten(a[g].items, k)
    \/ \A h \in Places(p) :
         a[g].items[k] \in Elements(p[h].items) => p[h].chapter = a[g].chapter

Somewhere(p, i) == \E h \in Places(p) : i \in Elements(p[h].items)

(* And in the order in which it was dropped.                               *)
OrderShown(p, a) ==
  \A g \in Places(a) :
    /\ \A h \in 1 .. g - 1 :
         \/ Unassigned \in {a[g].chapter, a[h].chapter}
         \/ \E n \in Places(p) : \E m \in 1 .. n - 1 :
              p[m].chapter = a[h].chapter /\ p[n].chapter = a[g].chapter
    /\ Distinct(a[g].items) =>
         \A k \in Places(a[g].items) : \A j \in 1 .. k - 1 :
           /\ Kind(a[g].items[j]) = Kind(a[g].items[k])
           /\ Somewhere(p, a[g].items[j]) /\ Somewhere(p, a[g].items[k])
           => \E h \in Places(p) : \E n \in Places(p[h].items) : \E m \in 1 .. n - 1 :
                p[h].items[m] = a[g].items[j] /\ p[h].items[n] = a[g].items[k]

(* A tab that nobody disturbed.                                            *)
Calm(t) ==
  /\ req[t].op \in {"idle", "delete"} =>
       Live(page[t].groups) /\ EmptyShown(page[t].groups)
  /\ req[t].op = "delete" => In(req[t].chapter) = {}
  /\ req[t].op = "sort" =>
       /\ Live(asked[t]) /\ Sent(req[t], asked[t]) /\ Delivered(req[t], asked[t])
       /\ browser[t] = "inserted" => Sorting(req[t], asked[t])
  /\ req[t].op = "list" =>
       /\ Live(asked[t]) /\ Arrived(asked[t])
       /\ browser[t] = "inserted" =>
            RanksTo(asked[t], Len(asked[t])) /\ Ranked(asked[t], Len(asked[t]))

TabInv(t) ==
  /\ Known(page[t].groups) /\ Known(asked[t])
  /\ req[t].op = "sort" => Bounds(req[t])
  /\ req[t].op = "delete" => asked[t] = None
  /\ t \notin disturbed => Calm(t)
  /\ req[t].op = "idle" =>
       /\ ChaptersShown(page[t].groups, asked[t])
       /\ browser[t] = "inserted" => OrderShown(page[t].groups, asked[t])

IInv == Typed /\ Belongs /\ \A t \in Tabs : TabInv(t)

-----------------------------------------------------------------------------
(* Numbers, finite sets and sequences.                                     *)

(* A set of numbers has a least one: induction, without an operator.       *)
LEMMA Least ==
  ASSUME NEW T, T \subseteq Nat, T # {}
  PROVE  \E n \in T : \A m \in T : n <= m
<1>1. \E n \in T : \A m \in T : ~(m < n)
  <2>1. \E n \in T : \A m \in T : <<m, n>> \notin OpToRel(<, Nat)
    BY NatLessThanWellFounded, WFMin
  <2>2. \A m, n \in Nat : m < n => <<m, n>> \in OpToRel(<, Nat)
    <3>1. OpToRel(<, Nat) = {ss \in Nat \X Nat : ss[1] < ss[2]}
      BY Zenon DEF OpToRel
    <3>2. \A m, n \in Nat : m < n => <<m, n>> \in {ss \in Nat \X Nat : ss[1] < ss[2]}
      BY SMT
    <3> QED BY <3>1, <3>2, Zenon
  <2> QED BY <2>1, <2>2, Zenon
<1> QED BY <1>1

(* A sequence that repeats nothing is no longer than its set is large, and *)
(* takes all of the set if it is as long.                                  *)
LEMMA Injective ==
  ASSUME NEW S, IsFiniteSet(S), NEW n \in Nat, NEW s \in [1 .. n -> S],
         \A j, k \in 1 .. n : s[j] = s[k] => j = k
  PROVE  /\ n <= Cardinality(S)
         /\ n = Cardinality(S) => \A x \in S : \E k \in 1 .. n : s[k] = x
<1>1. s \in Injection(1 .. n, S)
  BY DEF Injection, IsInjective
<1>2. Cardinality(1 .. n) = n
  BY FS_Interval
<1>3. n = Cardinality(S) => s \in Surjection(1 .. n, S)
  BY <1>1, <1>2, FS_Injection
<1> QED BY <1>1, <1>2, <1>3, FS_Injection DEF Surjection

(* The bounded sequences over a finite set are those no longer than it is  *)
(* large.                                                                  *)
LEMMA BoundedIs ==
  ASSUME NEW S, IsFiniteSet(S), NEW s
  PROVE  s \in Bounded(S) <=> s \in Seq(S) /\ Len(s) <= Cardinality(S)
<1>1. Cardinality(S) \in Nat
  BY FS_CardinalityType
<1>2. ASSUME s \in Bounded(S) PROVE s \in Seq(S) /\ Len(s) <= Cardinality(S)
  <2>1. PICK n \in 0 .. Cardinality(S) : s \in [1 .. n -> S]
    BY <1>2 DEF Bounded
  <2> QED BY <1>1, <2>1
<1>3. ASSUME s \in Seq(S), Len(s) <= Cardinality(S) PROVE s \in Bounded(S)
  <2>1. Len(s) \in 0 .. Cardinality(S) /\ s \in [1 .. Len(s) -> S]
    BY <1>1, <1>3, LenProperties
  <2> QED BY <2>1 DEF Bounded
<1> QED BY <1>2, <1>3

(* What it means to be in order.                                           *)
LEMMA OrderedIs ==
  ASSUME NEW S, IsFiniteSet(S), NEW key, NEW s \in Ordered(S, key)
  PROVE  /\ Cardinality(S) \in Nat /\ s \in Seq(S) /\ Len(s) = Cardinality(S)
         /\ \A j, k \in 1 .. Len(s) : s[j] = s[k] => j = k
         /\ \A x \in S : \E k \in 1 .. Len(s) : s[k] = x
         /\ \A k \in 1 .. Len(s) : \A j \in 1 .. k - 1 : key[s[j]] <= key[s[k]]
<1>1. Cardinality(S) \in Nat
  BY FS_CardinalityType
<1>2. /\ s \in [1 .. Cardinality(S) -> S]
      /\ \A j \in DOMAIN s : \A k \in 1 .. j - 1 : s[k] # s[j] /\ key[s[k]] <= key[s[j]]
  BY DEF Ordered
<1>3. s \in Seq(S) /\ Len(s) = Cardinality(S)
  BY <1>1, <1>2
<1>4. \A j, k \in 1 .. Len(s) : s[j] = s[k] => j = k
  <2> SUFFICES ASSUME NEW j \in 1 .. Len(s), NEW k \in 1 .. Len(s), s[j] = s[k], j # k
               PROVE  FALSE
    OBVIOUS
  <2>1. j \in 1 .. k - 1 \/ k \in 1 .. j - 1
    BY <1>1, <1>3
  <2> QED BY <1>2, <1>3, <2>1
<1> QED BY <1>1, <1>2, <1>3, <1>4, Injective

(* Every finite set can be put in order: the element of the least key      *)
(* first, and the others in order after it.                                *)
LEMMA OrderedExists ==
  ASSUME NEW S, IsFiniteSet(S), NEW key, \A x \in S : key[x] \in Nat
  PROVE  Ordered(S, key) # {}
<1> SUFFICES ASSUME Ordered(S, key) = {} PROVE FALSE
  OBVIOUS
<1> DEFINE T == {n \in Nat : \E X \in SUBSET S : Cardinality(X) = n /\ Ordered(X, key) = {}}
<1>1. T \subseteq Nat /\ T # {}
  BY FS_CardinalityType
<1>2. PICK n \in T : \A m \in T : n <= m
  BY <1>1, Least
<1>3. PICK X \in SUBSET S : Cardinality(X) = n /\ Ordered(X, key) = {}
  BY <1>2
<1>4. IsFiniteSet(X)
  BY FS_Subset
<1>5. X # {}
  <2> SUFFICES ASSUME X = {} PROVE FALSE
    OBVIOUS
  <2>1. Cardinality(X) = 0
    BY FS_EmptySet
  <2>2. <<>> \in Ordered(X, key)
    BY <2>1 DEF Ordered
  <2> QED BY <1>3, <2>2
<1>6. PICK x \in X : \A y \in X : key[x] <= key[y]
  <2> DEFINE K == {key[y] : y \in X}
  <2>1. K \subseteq Nat /\ K # {}
    BY <1>5
  <2>2. PICK k \in K : \A m \in K : k <= m
    BY <2>1, Least
  <2> QED BY <2>2
<1> DEFINE Y == X \ {x}
<1>7. IsFiniteSet(Y) /\ Cardinality(Y) = n - 1 /\ n \in Nat \ {0} /\ Y \in SUBSET S
  <2>1. IsFiniteSet(Y) /\ Cardinality(Y) = Cardinality(X) - 1
    BY <1>4, FS_RemoveElement
  <2>2. Cardinality(Y) \in Nat
    BY <2>1, FS_CardinalityType
  <2> QED BY <1>3, <2>1, <2>2
<1>8. PICK r : r \in Ordered(Y, key)
  <2>1. n - 1 \notin T
    BY <1>2, <1>7
  <2> QED BY <1>7, <2>1
<1> DEFINE s == [k \in 1 .. n |-> IF k = 1 THEN x ELSE r[k - 1]]
<1>9. /\ r \in Seq(Y) /\ Len(r) = n - 1
      /\ \A j, k \in 1 .. Len(r) : r[j] = r[k] => j = k
      /\ \A k \in 1 .. Len(r) : \A j \in 1 .. k - 1 : key[r[j]] <= key[r[k]]
  BY <1>7, <1>8, OrderedIs
<1>10. /\ \A k \in 2 .. n : s[k] = r[k - 1] /\ s[k] \in Y
       /\ s[1] = x
  BY <1>7, <1>9
<1>11. s \in [1 .. n -> X]
  <2>1. \A k \in 1 .. n : (IF k = 1 THEN x ELSE r[k - 1]) \in X
    BY <1>7, <1>9
  <2> QED BY <2>1
<1> HIDE DEF s, T
<1>12. ASSUME NEW j \in 1 .. n, NEW k \in 1 .. j - 1
       PROVE  s[k] # s[j] /\ key[s[k]] <= key[s[j]]
  <2>1. CASE k = 1
    <3>1. j \in 2 .. n
      BY <1>7
    <3> QED BY <1>6, <1>10, <2>1, <3>1
  <2>2. CASE k # 1
    <3>1. /\ j \in 2 .. n /\ k \in 2 .. n
          /\ j - 1 \in 1 .. Len(r) /\ k - 1 \in 1 .. Len(r)
          /\ k - 1 \in 1 .. (j - 1) - 1 /\ j - 1 # k - 1
      BY <1>7, <1>9, <2>2
    <3>2. s[k] = r[k - 1] /\ s[j] = r[j - 1]
      BY <1>10, <3>1
    <3>3. r[k - 1] # r[j - 1] /\ key[r[k - 1]] <= key[r[j - 1]]
      BY <1>9, <3>1
    <3> QED BY <3>2, <3>3
  <2> QED BY <2>1, <2>2
<1>13. s \in Ordered(X, key)
  BY <1>3, <1>11, <1>12 DEF Ordered
<1> QED BY <1>3, <1>13

(* A sequence with one place taken out, or put in.                         *)
LEMMA WithoutIs ==
  ASSUME NEW S, NEW s \in Seq(S), NEW k \in Places(s)
  PROVE  /\ Without(s, k) \in Seq(S) /\ Len(Without(s, k)) = Len(s) - 1
         /\ \A j \in 1 .. Len(s) - 1 :
              Without(s, k)[j] = IF j < k THEN s[j] ELSE s[j + 1]
<1> DEFINE u == SubSeq(s, 1, k - 1)
           v == SubSeq(s, k + 1, Len(s))
<1>1. k \in 1 .. Len(s) /\ Len(s) \in Nat
  BY DEF Places
<1>2. u \in Seq(S) /\ Len(u) = k - 1 /\ \A j \in 1 .. k - 1 : u[j] = s[j]
  BY <1>1, SubSeqProperties
<1>3. v \in Seq(S) /\ Len(v) = Len(s) - k /\ \A j \in 1 .. Len(s) - k : v[j] = s[k + j]
  BY <1>1, SubSeqProperties
<1>4. Without(s, k) = u \o v
  BY DEF Without
<1> HIDE DEF u, v
<1>5. /\ u \o v \in Seq(S) /\ Len(u \o v) = Len(s) - 1
      /\ \A j \in 1 .. Len(s) - 1 : (u \o v)[j] = IF j <= k - 1 THEN u[j] ELSE v[j - (k - 1)]
  <2>1. Len(u) + Len(v) = Len(s) - 1
    BY <1>1, <1>2, <1>3
  <2> QED BY <1>2, <1>3, <2>1, ConcatProperties
<1>6. ASSUME NEW j \in 1 .. Len(s) - 1
      PROVE  (u \o v)[j] = IF j < k THEN s[j] ELSE s[j + 1]
  <2>1. CASE j < k
    BY <1>1, <1>2, <1>5, <2>1
  <2>2. CASE ~(j < k)
    <3>1. j - (k - 1) \in 1 .. Len(s) - k /\ k + (j - (k - 1)) = j + 1
      BY <1>1, <2>2
    <3> QED BY <1>1, <1>3, <1>5, <2>2, <3>1
  <2> QED BY <2>1, <2>2
<1> QED BY <1>4, <1>5, <1>6

(* An element is put in before the place k.                                *)
LEMMA WithIs ==
  ASSUME NEW S, NEW s \in Seq(S), NEW k \in 1 .. Len(s) + 1, NEW e \in S
  PROVE  /\ With(s, k, e) \in Seq(S) /\ Len(With(s, k, e)) = Len(s) + 1
         /\ \A j \in 1 .. Len(s) + 1 :
              With(s, k, e)[j] = IF j < k THEN s[j] ELSE IF j = k THEN e ELSE s[j - 1]
<1> DEFINE u == SubSeq(s, 1, k - 1)
           v == SubSeq(s, k, Len(s))
<1>1. k \in 1 .. Len(s) + 1 /\ Len(s) \in Nat
  OBVIOUS
<1>2. u \in Seq(S) /\ Len(u) = k - 1 /\ \A j \in 1 .. k - 1 : u[j] = s[j]
  BY <1>1, SubSeqProperties
<1>3. /\ v \in Seq(S) /\ Len(v) = Len(s) - k + 1
      /\ \A j \in 1 .. Len(s) - k + 1 : v[j] = s[k + j - 1]
  BY <1>1, SubSeqProperties
<1>4. With(s, k, e) = (u \o <<e>>) \o v
  BY DEF With
<1> HIDE DEF u, v
<1> DEFINE w == u \o <<e>>
<1>5. /\ w \in Seq(S) /\ Len(w) = k
      /\ \A j \in 1 .. k - 1 : w[j] = s[j]
      /\ w[k] = e
  BY <1>1, <1>2
<1> HIDE DEF w
<1>6. /\ w \o v \in Seq(S) /\ Len(w \o v) = Len(s) + 1
      /\ \A j \in 1 .. Len(s) + 1 : (w \o v)[j] = IF j <= k THEN w[j] ELSE v[j - k]
  <2>1. Len(w) + Len(v) = Len(s) + 1
    BY <1>1, <1>3, <1>5
  <2> QED BY <1>3, <1>5, <2>1, ConcatProperties
<1>7. ASSUME NEW j \in 1 .. Len(s) + 1
      PROVE  (w \o v)[j] = IF j < k THEN s[j] ELSE IF j = k THEN e ELSE s[j - 1]
  <2>1. CASE j <= k
    BY <1>1, <1>5, <1>6, <2>1
  <2>2. CASE ~(j <= k)
    <3>1. j - k \in 1 .. Len(s) - k + 1 /\ k + (j - k) - 1 = j - 1
      BY <1>1, <2>2
    <3> QED BY <1>1, <1>3, <1>6, <2>2, <3>1
  <2> QED BY <2>1, <2>2
<1> QED BY <1>4, <1>6, <1>7 DEF w

-----------------------------------------------------------------------------
(* Arrangements.                                                           *)

(* The first element of a sequence, and the rest.                          *)
LEMMA HeadTailIs ==
  ASSUME NEW S, NEW s \in Seq(S), s # <<>>
  PROVE  /\ Head(s) = s[1] /\ Head(s) \in S /\ 1 \in Places(s)
         /\ Tail(s) \in Seq(S) /\ Len(s) \in Nat /\ Len(Tail(s)) = Len(s) - 1
         /\ \A m \in Places(Tail(s)) : m + 1 \in Places(s) /\ Tail(s)[m] = s[m + 1]
         /\ \A m \in Places(s) : m # 1 => m - 1 \in Places(Tail(s)) /\ Tail(s)[m - 1] = s[m]
<1>1. /\ Len(s) \in Nat /\ Len(s) >= 1 /\ Head(s) = s[1] /\ s[1] \in S
      /\ Tail(s) \in Seq(S) /\ Len(Tail(s)) = Len(s) - 1
      /\ \A m \in 1 .. Len(s) - 1 : Tail(s)[m] = s[m + 1]
  BY HeadTailProperties, LenProperties, ElementOfSeq, EmptySeq
<1>2. ASSUME NEW m \in Places(Tail(s)) PROVE m + 1 \in Places(s) /\ Tail(s)[m] = s[m + 1]
  BY <1>1 DEF Places
<1>3. ASSUME NEW m \in Places(s), m # 1
      PROVE  m - 1 \in Places(Tail(s)) /\ Tail(s)[m - 1] = s[m]
  <2>1. m - 1 \in 1 .. Len(s) - 1 /\ (m - 1) + 1 = m
    BY <1>1, <1>3 DEF Places
  <2> QED BY <1>1, <2>1 DEF Places
<1> QED BY <1>1, <1>2, <1>3 DEF Places

(* What the assumption on the constants comes to.                          *)
LEMMA ConstantsAre ==
  ASSUME CurriculumAssumption
  PROVE  /\ IsFiniteSet(Items) /\ Cardinality(Items) \in Nat
         /\ IsFiniteSet(Chapters) /\ Cardinality(Chapters) = MaxChapters
         /\ IsFiniteSet(Chapters \cup {Unassigned})
         /\ Cardinality(Chapters \cup {Unassigned}) = MaxChapters + 1
         /\ MaxChapters \in Nat
<1>1. MaxChapters \in Nat
  BY DEF CurriculumAssumption
<1>2. IsFiniteSet(Items)
  <2>1. IsFiniteSet({"content"}) /\ IsFiniteSet({"assessment"})
    BY FS_Singleton
  <2>2. IsFiniteSet({"content"} \X ContentIds) /\ IsFiniteSet({"assessment"} \X AssessmentIds)
    BY <2>1, FS_Product DEF CurriculumAssumption
  <2> QED BY <2>2, FS_Union DEF Items
<1>3. IsFiniteSet(Chapters) /\ Cardinality(Chapters) = MaxChapters
  BY <1>1, FS_Interval DEF Chapters
<1>4. Unassigned \notin Chapters
  BY DEF Chapters, Unassigned
<1> QED BY <1>1, <1>2, <1>3, <1>4, FS_CardinalityType, FS_AddElement

(* The place of an item is the only one.                                   *)
LEMMA OnceIs ==
  ASSUME NEW a, Once(a), NEW g \in Places(a), NEW h \in Places(a),
         NEW k \in Places(a[g].items), NEW l \in Places(a[h].items),
         a[g].items[k] = a[h].items[l]
  PROVE  g = h /\ k = l
BY DEF Once

(* Blocks are records.                                                     *)
LEMMA BlockIs ==
  ASSUME NEW x \in Blocks
  PROVE  /\ x.chapter \in Chapters \cup {Unassigned} /\ x.items \in Seq(Items)
         /\ x = [chapter |-> x.chapter, items |-> x.items]
BY DEF Blocks

(* An arrangement has no more groups than there are chapters, and no more  *)
(* items in one than there are.                                            *)
LEMMA ArrangedIs ==
  ASSUME CurriculumAssumption, NEW a \in Arrangements
  PROVE  /\ a \in Seq(Groups) /\ Len(a) <= MaxChapters + 1
         /\ a \in Seq(Blocks) /\ Len(a) \in Nat /\ Once(a)
         /\ \A g \in Places(a) :
              /\ a[g] \in Groups /\ a[g] \in Blocks
              /\ a[g].items \in Seq(Items) /\ Len(a[g].items) <= Cardinality(Items)
              /\ a[g].chapter \in Chapters \cup {Unassigned}
<1>1. a \in Seq(Blocks) /\ Once(a) /\ Len(a) \in Nat
  BY LenProperties DEF Arrangements
<1>2. ASSUME NEW g \in Places(a)
      PROVE  /\ a[g] \in Groups /\ a[g] \in Blocks
             /\ a[g].items \in Seq(Items) /\ Len(a[g].items) <= Cardinality(Items)
             /\ a[g].chapter \in Chapters \cup {Unassigned}
  <2>1. a[g] \in Blocks
    BY <1>1, ElementOfSeq DEF Places
  <2>2. /\ a[g].chapter \in Chapters \cup {Unassigned} /\ a[g].items \in Seq(Items)
        /\ a[g] = [chapter |-> a[g].chapter, items |-> a[g].items]
    BY <2>1, BlockIs
  <2>3. a[g].items \in [1 .. Len(a[g].items) -> Items] /\ Len(a[g].items) \in Nat
    BY <2>2, LenProperties
  <2>4. \A j, k \in 1 .. Len(a[g].items) : a[g].items[j] = a[g].items[k] => j = k
    BY <1>1 DEF Once, Places
  <2>5. Len(a[g].items) <= Cardinality(Items)
    BY <2>3, <2>4, ConstantsAre, Injective
  <2>6. a[g].items \in Bounded(Items)
    BY <2>2, <2>5, ConstantsAre, BoundedIs
  <2> QED BY <2>1, <2>2, <2>5, <2>6 DEF Groups
<1>3. a \in Seq(Groups)
  BY <1>1, <1>2, LenProperties DEF Places
<1>4. Len(a) <= MaxChapters + 1
  <2> DEFINE c == [g \in 1 .. Len(a) |-> a[g].chapter]
  <2>1. c \in [1 .. Len(a) -> Chapters \cup {Unassigned}]
    BY <1>2 DEF Places
  <2>2. \A g, h \in 1 .. Len(a) : c[g] = c[h] => g = h
    BY <1>1 DEF Once, Places
  <2> HIDE DEF c
  <2>3. Len(a) <= Cardinality(Chapters \cup {Unassigned})
    BY <1>1, <2>1, <2>2, ConstantsAre, Injective
  <2> QED BY <2>3, ConstantsAre
<1> QED BY <1>1, <1>2, <1>3, <1>4

(* What b shows a shows.                                                   *)
Within(b, a) ==
  /\ \A h \in Places(b) : \E g \in Places(a) : b[h].chapter = a[g].chapter
  /\ \A h \in Places(b) : \A i \in Elements(b[h].items) :
       \E g \in Places(a) : i \in Elements(a[g].items)

(* One group gets other items, the others keep theirs.                     *)
LEMMA HoldingIs ==
  ASSUME NEW a \in Seq(Blocks), NEW g \in Places(a), NEW s \in Seq(Items)
  PROVE  /\ Holding(a, g, s) \in Seq(Blocks) /\ Len(Holding(a, g, s)) = Len(a)
         /\ \A h \in Places(a) : Holding(a, g, s)[h].chapter = a[h].chapter
         /\ \A h \in Places(a) \ {g} : Holding(a, g, s)[h] = a[h]
         /\ Holding(a, g, s)[g].items = s
<1> DEFINE x == [chapter |-> a[g].chapter, items |-> s]
<1>1. x \in Blocks
  BY ElementOfSeq, BlockIs DEF Blocks, Places
<1>2. /\ Holding(a, g, s) \in Seq(Blocks) /\ Len(Holding(a, g, s)) = Len(a)
      /\ \A h \in 1 .. Len(a) : Holding(a, g, s)[h] = IF h = g THEN x ELSE a[h]
  BY <1>1, ExceptSeq DEF Holding, Places
<1> QED BY <1>1, <1>2 DEF Places

Taken(a, g, k)  == Holding(a, g, Without(a[g].items, k))
Put(a, g, k, e) == Holding(a, g, With(a[g].items, k, e))

(* An item that is taken away is nowhere.                                  *)
LEMMA WithoutItem ==
  ASSUME NEW a \in Arrangements, NEW g \in Places(a), NEW k \in Places(a[g].items)
  PROVE  /\ Taken(a, g, k) \in Arrangements /\ Len(Taken(a, g, k)) = Len(a)
         /\ Within(Taken(a, g, k), a)
         /\ \A h \in Places(a) :
              /\ Taken(a, g, k)[h].chapter = a[h].chapter
              /\ a[g].items[k] \notin Elements(Taken(a, g, k)[h].items)
         /\ \A h \in Places(a) \ {g} : Taken(a, g, k)[h] = a[h]
         /\ Len(Taken(a, g, k)[g].items) = Len(a[g].items) - 1
<1> DEFINE b == Taken(a, g, k)
<1>1. /\ a \in Seq(Blocks) /\ Once(a) /\ Len(a) \in Nat
      /\ g \in 1 .. Len(a) /\ a[g] \in Blocks /\ a[g].items \in Seq(Items)
      /\ a[g] = [chapter |-> a[g].chapter, items |-> a[g].items]
  BY LenProperties, ElementOfSeq, BlockIs DEF Arrangements, Places
<1>2. /\ Without(a[g].items, k) \in Seq(Items)
      /\ Len(Without(a[g].items, k)) = Len(a[g].items) - 1
      /\ \A j \in 1 .. Len(a[g].items) - 1 :
           Without(a[g].items, k)[j] = IF j < k THEN a[g].items[j] ELSE a[g].items[j + 1]
  BY <1>1, WithoutIs
<1>3. /\ b \in Seq(Blocks) /\ Len(b) = Len(a)
      /\ \A h \in Places(b) : h \in Places(a) /\ b[h].chapter = a[h].chapter
      /\ \A h \in Places(b) \ {g} : b[h] = a[h]
      /\ b[g].items = Without(a[g].items, k)
  <2>1. /\ b \in Seq(Blocks) /\ Len(b) = Len(a)
        /\ \A h \in Places(a) : b[h].chapter = a[h].chapter
        /\ \A h \in Places(a) \ {g} : b[h] = a[h]
        /\ b[g].items = Without(a[g].items, k)
    BY <1>1, <1>2, HoldingIs DEF Taken
  <2> QED BY <2>1 DEF Places
<1> HIDE DEF b
(* Where an item of b was in a.                                            *)
<1> DEFINE from(h, j) == IF h # g THEN j ELSE IF j < k THEN j ELSE j + 1
<1>4. ASSUME NEW h \in Places(b), NEW j \in Places(b[h].items)
      PROVE  /\ from(h, j) \in Places(a[h].items) /\ b[h].items[j] = a[h].items[from(h, j)]
             /\ h = g => from(h, j) # k
  <2>1. CASE h # g
    BY <1>3, <2>1
  <2>2. CASE h = g
    <3>1. j \in 1 .. Len(a[g].items) - 1 /\ Len(a[g].items) \in Nat
      BY <1>1, <1>2, <1>3, <2>2 DEF Places
    <3> QED BY <1>2, <1>3, <2>2, <3>1 DEF Places
  <2> QED BY <2>1, <2>2
<1>5. \A h \in Places(b) : \A j, l \in Places(b[h].items) : from(h, j) = from(h, l) => j = l
  BY DEF Places
<1> HIDE DEF from
<1>6. Once(b)
  <2>1. \A h, i \in Places(b) : b[h].chapter = b[i].chapter => h = i
    BY <1>1, <1>3 DEF Once
  <2>2. ASSUME NEW h \in Places(b), NEW i \in Places(b),
               NEW j \in Places(b[h].items), NEW l \in Places(b[i].items),
               b[h].items[j] = b[i].items[l]
        PROVE  h = i /\ j = l
    <3>1. PICK p \in Places(a[h].items) : p = from(h, j) /\ b[h].items[j] = a[h].items[p]
      BY <1>4
    <3>2. PICK q \in Places(a[i].items) : q = from(i, l) /\ b[i].items[l] = a[i].items[q]
      BY <1>4
    <3>3. h \in Places(a) /\ i \in Places(a)
      BY <1>3
    <3>4. h = i /\ p = q
      <4>1. a[h].items[p] = a[i].items[q]
        BY <2>2, <3>1, <3>2
      <4>2. Once(a)
        BY <1>1
      <4> QED BY <3>3, <4>1, <4>2 DEF Once
    <3> QED BY <1>5, <3>1, <3>2, <3>4
  <2> QED BY <2>1, <2>2 DEF Once
<1>7. ASSUME NEW h \in Places(b) PROVE a[g].items[k] \notin Elements(b[h].items)
  <2> SUFFICES ASSUME NEW j \in Places(b[h].items), b[h].items[j] = a[g].items[k]
               PROVE  FALSE
    BY DEF Elements
  <2>1. h \in Places(a)
    BY <1>3
  <2>2. PICK p \in Places(a[h].items) : p = from(h, j) /\ b[h].items[j] = a[h].items[p]
    BY <1>4
  <2>3. Once(a) /\ a[h].items[p] = a[g].items[k]
    BY <1>1, <2>2
  <2>4. h = g /\ p = k
    BY <2>1, <2>3 DEF Once
  <2> QED BY <1>4, <2>2, <2>4
<1>8. Within(b, a)
  BY <1>3, <1>4 DEF Within, Elements
<1>9. Places(b) = Places(a)
  BY <1>3 DEF Places
<1> QED BY <1>2, <1>3, <1>6, <1>7, <1>8, <1>9 DEF Arrangements, b

(* An item that is nowhere is put somewhere.                               *)
LEMMA WithItem ==
  ASSUME NEW a \in Arrangements, NEW g \in Places(a), NEW k \in 1 .. Len(a[g].items) + 1,
         NEW e \in Items, \A h \in Places(a) : e \notin Elements(a[h].items)
  PROVE  /\ Put(a, g, k, e) \in Arrangements /\ Len(Put(a, g, k, e)) = Len(a)
         /\ \A h \in Places(a) : Put(a, g, k, e)[h].chapter = a[h].chapter
         /\ \A h \in Places(a) : \A i \in Elements(Put(a, g, k, e)[h].items) :
              i = e \/ i \in Elements(a[h].items)
<1> DEFINE b == Put(a, g, k, e)
<1>1. /\ a \in Seq(Blocks) /\ Once(a) /\ Len(a) \in Nat
      /\ g \in 1 .. Len(a) /\ a[g] \in Blocks /\ a[g].items \in Seq(Items)
      /\ a[g] = [chapter |-> a[g].chapter, items |-> a[g].items]
  BY LenProperties, ElementOfSeq, BlockIs DEF Arrangements, Places
<1>2. /\ With(a[g].items, k, e) \in Seq(Items)
      /\ Len(With(a[g].items, k, e)) = Len(a[g].items) + 1
      /\ \A j \in 1 .. Len(a[g].items) + 1 :
           With(a[g].items, k, e)[j] = IF j < k THEN a[g].items[j]
                                       ELSE IF j = k THEN e ELSE a[g].items[j - 1]
  <2> DEFINE s == a[g].items
  <2>1. s \in Seq(Items) /\ k \in 1 .. Len(s) + 1
    BY <1>1
  <2> HIDE DEF s
  <2>2. /\ With(s, k, e) \in Seq(Items) /\ Len(With(s, k, e)) = Len(s) + 1
        /\ \A j \in 1 .. Len(s) + 1 :
             With(s, k, e)[j] = IF j < k THEN s[j] ELSE IF j = k THEN e ELSE s[j - 1]
    BY <2>1, WithIs
  <2> QED BY <2>2 DEF s
<1>3. /\ b \in Seq(Blocks) /\ Len(b) = Len(a)
      /\ \A h \in Places(b) : h \in Places(a) /\ b[h].chapter = a[h].chapter
      /\ \A h \in Places(b) \ {g} : b[h] = a[h]
      /\ b[g].items = With(a[g].items, k, e)
  <2>1. /\ b \in Seq(Blocks) /\ Len(b) = Len(a)
        /\ \A h \in Places(a) : b[h].chapter = a[h].chapter
        /\ \A h \in Places(a) \ {g} : b[h] = a[h]
        /\ b[g].items = With(a[g].items, k, e)
    BY <1>1, <1>2, HoldingIs DEF Put
  <2> QED BY <2>1 DEF Places
<1> HIDE DEF b
(* Where an item of b was in a, unless it is e.                            *)
<1> DEFINE new(h, j) == h = g /\ j = k
           from(h, j) == IF h # g THEN j ELSE IF j < k THEN j ELSE j - 1
<1>4. ASSUME NEW h \in Places(b), NEW j \in Places(b[h].items)
      PROVE  /\ new(h, j) => b[h].items[j] = e
             /\ ~new(h, j) => /\ from(h, j) \in Places(a[h].items)
                              /\ b[h].items[j] = a[h].items[from(h, j)]
                              /\ b[h].items[j] # e
  <2>0. \A m \in Places(a[h].items) : a[h].items[m] # e
    BY <1>3 DEF Elements
  <2>1. CASE h # g
    BY <1>3, <2>0, <2>1
  <2>2. CASE h = g
    <3>1. j \in 1 .. Len(a[g].items) + 1 /\ Len(a[g].items) \in Nat
      BY <1>1, <1>2, <1>3, <2>2 DEF Places
    <3>2. k \in 1 .. Len(a[g].items) + 1
      OBVIOUS
    <3>3. ~new(h, j) => /\ from(h, j) \in Places(a[h].items)
                        /\ b[h].items[j] = a[h].items[from(h, j)]
      BY <1>2, <1>3, <2>2, <3>1, <3>2 DEF Places
    <3> QED BY <1>2, <1>3, <2>0, <2>2, <3>1, <3>3
  <2> QED BY <2>1, <2>2
<1>5. \A h \in Places(b) : \A j, l \in Places(b[h].items) :
        ~new(h, j) /\ ~new(h, l) /\ from(h, j) = from(h, l) => j = l
  BY DEF Places
<1> HIDE DEF from
<1>6. Once(b)
  <2>1. \A h, i \in Places(b) : b[h].chapter = b[i].chapter => h = i
    BY <1>1, <1>3 DEF Once
  <2>2. ASSUME NEW h \in Places(b), NEW i \in Places(b),
               NEW j \in Places(b[h].items), NEW l \in Places(b[i].items),
               b[h].items[j] = b[i].items[l]
        PROVE  h = i /\ j = l
    <3>1. CASE new(h, j) \/ new(i, l)
      BY <1>4, <2>2, <3>1
    <3>2. CASE ~new(h, j) /\ ~new(i, l)
      <4>1. PICK p \in Places(a[h].items) : p = from(h, j) /\ b[h].items[j] = a[h].items[p]
        BY <1>4, <3>2
      <4>2. PICK q \in Places(a[i].items) : q = from(i, l) /\ b[i].items[l] = a[i].items[q]
        BY <1>4, <3>2
      <4>3. h \in Places(a) /\ i \in Places(a)
        BY <1>3
      <4>4. a[h].items[p] = a[i].items[q]
        BY <2>2, <4>1, <4>2
      <4>5. h = i /\ p = q
        BY <1>1, <4>3, <4>4 DEF Once
      <4> QED BY <1>5, <3>2, <4>1, <4>2, <4>5
    <3> QED BY <3>1, <3>2
  <2> QED BY <2>1, <2>2 DEF Once
<1>7. ASSUME NEW h \in Places(b), NEW i \in Elements(b[h].items)
      PROVE  i = e \/ i \in Elements(a[h].items)
  <2>1. PICK j \in Places(b[h].items) : i = b[h].items[j]
    BY DEF Elements
  <2>2. CASE new(h, j)
    BY <1>4, <2>1, <2>2
  <2>3. CASE ~new(h, j)
    BY <1>4, <2>1, <2>3 DEF Elements
  <2> QED BY <2>2, <2>3
<1>8. Places(b) = Places(a)
  BY <1>3 DEF Places
<1> QED BY <1>3, <1>6, <1>7, <1>8 DEF Arrangements, b

(* What is dropped is an arrangement of what was shown.                    *)
LEMMA DropIs ==
  ASSUME CurriculumAssumption, NEW a \in Arrangements,
         NEW b \in ItemDrops(a) \cup ChapterDrops(a)
  PROVE  b \in Arrangements /\ Within(b, a)
<1>1. CASE b \in ItemDrops(a)
  <2>1. PICK g \in Places(a), k \in 1 .. Cardinality(Items),
             h \in Places(a), l \in 1 .. Cardinality(Items) :
          /\ b = ItemDropped(a, g, k, h, l)
          /\ k \in Places(a[g].items)
          /\ l <= Len(a[h].items) + (IF g = h THEN 0 ELSE 1)
    BY <1>1 DEF ItemDrops
  <2> DEFINE w == Taken(a, g, k)
             e == a[g].items[k]
  <2>2. /\ w \in Arrangements /\ Len(w) = Len(a) /\ Within(w, a)
        /\ \A i \in Places(a) : w[i].chapter = a[i].chapter /\ e \notin Elements(w[i].items)
        /\ \A i \in Places(a) \ {g} : w[i] = a[i]
        /\ Len(w[g].items) = Len(a[g].items) - 1
    BY <2>1, WithoutItem, Zenon
  <2>3. b = Put(w, h, l, e)
    BY <2>1 DEF ItemDropped, Taken, Put
  <2>4. e \in Items /\ Len(a[h].items) \in Nat /\ Cardinality(Items) \in Nat
    BY <2>1, ArrangedIs, ConstantsAre, ElementOfSeq, LenProperties DEF Places
  <2> HIDE DEF w
  <2>5. h \in Places(w) /\ Places(w) = Places(a)
    BY <2>2 DEF Places
  <2>6. l \in 1 .. Len(w[h].items) + 1
    <3>1. CASE g = h
      BY <2>1, <2>2, <2>4, <3>1
    <3>2. CASE g # h
      <4>1. w[h] = a[h]
        BY <2>2, <2>5, <3>2
      <4> QED BY <2>1, <2>4, <3>2, <4>1
    <3> QED BY <3>1, <3>2
  <2>7. /\ b \in Arrangements /\ Len(b) = Len(w)
        /\ \A i \in Places(w) : b[i].chapter = w[i].chapter
        /\ \A i \in Places(w) : \A j \in Elements(b[i].items) :
             j = e \/ j \in Elements(w[i].items)
    <3>1. \A i \in Places(w) : e \notin Elements(w[i].items)
      BY <2>2, <2>5
    <3>2. w \in Arrangements /\ h \in Places(w) /\ e \in Items
      BY <2>2, <2>4, <2>5
    <3> HIDE DEF e
    <3>3. /\ Put(w, h, l, e) \in Arrangements /\ Len(Put(w, h, l, e)) = Len(w)
          /\ \A i \in Places(w) : Put(w, h, l, e)[i].chapter = w[i].chapter
          /\ \A i \in Places(w) : \A j \in Elements(Put(w, h, l, e)[i].items) :
               j = e \/ j \in Elements(w[i].items)
      BY <2>6, <3>1, <3>2, WithItem, Zenon
    <3> QED BY <2>3, <3>3, Zenon
  <2>8. Places(b) = Places(a)
    BY <2>2, <2>7 DEF Places
  <2>9. e \in Elements(a[g].items)
    BY <2>1 DEF Elements
  <2> HIDE DEF e
  <2>10. Within(b, a)
    <3>1. ASSUME NEW i \in Places(b), NEW j \in Elements(b[i].items)
          PROVE  \E f \in Places(a) : j \in Elements(a[f].items)
      <4>1. i \in Places(w) /\ (j = e \/ j \in Elements(w[i].items))
        BY <2>5, <2>7, <2>8
      <4> QED BY <2>1, <2>2, <2>9, <4>1 DEF Within
    <3> QED BY <2>2, <2>5, <2>7, <2>8, <3>1 DEF Within
  <2> QED BY <2>7, <2>10
<1>2. CASE b \in ChapterDrops(a)
  <2>1. PICK g \in Places(a), h \in Places(a) : b = With(Without(a, g), h, a[g])
    BY <1>2 DEF ChapterDrops
  <2>2. a \in Seq(Blocks) /\ Once(a) /\ Len(a) \in Nat /\ a[g] \in Blocks
    BY ArrangedIs
  <2> DEFINE w == Without(a, g)
  <2>3. /\ w \in Seq(Blocks) /\ Len(w) = Len(a) - 1
        /\ \A j \in 1 .. Len(a) - 1 : w[j] = IF j < g THEN a[j] ELSE a[j + 1]
    BY <2>2, WithoutIs
  <2> HIDE DEF w
  <2>4. h \in 1 .. Len(w) + 1 /\ g \in 1 .. Len(a) /\ Len(w) + 1 = Len(a)
    BY <2>2, <2>3 DEF Places
  <2>5. /\ b \in Seq(Blocks) /\ Len(b) = Len(a)
        /\ \A j \in 1 .. Len(a) : b[j] = IF j < h THEN w[j] ELSE IF j = h THEN a[g] ELSE w[j - 1]
    <3>1. /\ With(w, h, a[g]) \in Seq(Blocks) /\ Len(With(w, h, a[g])) = Len(w) + 1
          /\ \A j \in 1 .. Len(w) + 1 : With(w, h, a[g])[j] =
               IF j < h THEN w[j] ELSE IF j = h THEN a[g] ELSE w[j - 1]
      <4>1. w \in Seq(Blocks) /\ h \in 1 .. Len(w) + 1 /\ a[g] \in Blocks
        BY <2>2, <2>3, <2>4
      <4> QED BY <4>1, WithIs
    <3> QED BY <2>1, <2>4, <3>1 DEF w
  (* Where a chapter of b was in a. *)
  <2> DEFINE f(j) == IF j < h THEN (IF j < g THEN j ELSE j + 1)
                     ELSE IF j = h THEN g ELSE (IF j - 1 < g THEN j - 1 ELSE j)
  <2>6. ASSUME NEW j \in Places(b) PROVE f(j) \in Places(a) /\ b[j] = a[f(j)]
    <3>1. j \in 1 .. Len(a)
      BY <2>5 DEF Places
    <3>2. CASE j < h
      <4>1. j \in 1 .. Len(a) - 1
        BY <2>2, <2>4, <3>1, <3>2
      <4> QED BY <2>2, <2>3, <2>4, <2>5, <3>1, <3>2, <4>1 DEF Places
    <3>3. CASE j = h
      BY <2>4, <2>5, <3>1, <3>3 DEF Places
    <3>4. CASE j > h
      <4>1. j - 1 \in 1 .. Len(a) - 1
        BY <2>2, <2>4, <3>1, <3>4
      <4> QED BY <2>2, <2>3, <2>4, <2>5, <3>1, <3>4, <4>1 DEF Places
    <3> QED BY <2>4, <3>1, <3>2, <3>3, <3>4
  <2>7. \A i, j \in Places(b) : f(i) = f(j) => i = j
    BY <2>4, <2>5 DEF Places
  <2> HIDE DEF f
  <2>8. Once(b)
    <3>1. ASSUME NEW i \in Places(b), NEW j \in Places(b), b[i].chapter = b[j].chapter
          PROVE  i = j
      BY <2>2, <2>6, <2>7, <3>1 DEF Once
    <3>2. ASSUME NEW i \in Places(b), NEW j \in Places(b), NEW k \in Places(b[i].items),
                 NEW l \in Places(b[j].items), b[i].items[k] = b[j].items[l]
          PROVE  i = j /\ k = l
      <4>1. PICK p \in Places(a) : p = f(i) /\ b[i] = a[p]
        BY <2>6
      <4>2. PICK q \in Places(a) : q = f(j) /\ b[j] = a[q]
        BY <2>6
      <4>3. p = q /\ k = l
        BY <2>2, <3>2, <4>1, <4>2 DEF Once
      <4> QED BY <2>7, <4>1, <4>2, <4>3
    <3> QED BY <3>1, <3>2 DEF Once
  <2>9. Within(b, a)
    BY <2>6 DEF Within
  <2> QED BY <2>5, <2>8, <2>9 DEF Arrangements
<1> QED BY <1>1, <1>2

(* The numbers up to n are n.                                              *)
LEMMA IntervalIs ==
  ASSUME NEW n \in Nat
  PROVE  IsFiniteSet(1 .. n) /\ Cardinality(1 .. n) = n
BY FS_Interval

(* Ordered sequences of n numbers up to n are one to n.                    *)
LEMMA OneToN ==
  ASSUME NEW n \in Nat, NEW f \in [1 .. n -> 1 .. n],
         \A k \in 1 .. n : \A j \in 1 .. k - 1 : f[j] < f[k]
  PROVE  \A k \in 1 .. n : f[k] = k
<1>1. ASSUME NEW k \in 1 .. n, f[k] < k PROVE FALSE
  <2> DEFINE T == {m \in 1 .. n : f[m] < m}
  <2>1. T \subseteq Nat /\ T # {}
    BY <1>1
  <2>2. PICK m \in T : \A l \in T : m <= l
    BY <2>1, Least
  <2>3. m \in 1 .. n /\ f[m] < m /\ f[m] \in 1 .. n
    BY <2>2
  <2>4. m - 1 \in 1 .. n /\ m - 1 \in 1 .. m - 1
    BY <2>3
  <2>5. m - 1 \notin T
    BY <2>2, <2>3
  <2>6. f[m - 1] >= m - 1 /\ f[m - 1] \in 1 .. n
    BY <2>4, <2>5
  <2>7. f[m - 1] < f[m]
    BY <2>3, <2>4
  <2> QED BY <2>3, <2>6, <2>7
<1>2. ASSUME NEW k \in 1 .. n, f[k] > k PROVE FALSE
  <2> DEFINE T == {l \in 0 .. n : l < n /\ f[n - l] > n - l}
  <2>1. T \subseteq Nat /\ T # {}
    <3>1. n - k \in 0 .. n /\ n - k < n /\ n - (n - k) = k
      OBVIOUS
    <3>2. f[n - (n - k)] > n - (n - k)
      BY <1>2, <3>1
    <3>3. n - k \in T
      BY <3>1, <3>2
    <3>4. T \subseteq Nat
      OBVIOUS
    <3> HIDE DEF T
    <3> QED BY <3>3, <3>4
  <2>2. PICK m \in T : \A l \in T : m <= l
    <3> HIDE DEF T
    <3> QED BY <2>1, Least
  <2>3. m \in 0 .. n - 1 /\ n - m \in 1 .. n /\ f[n - m] > n - m /\ f[n - m] \in 1 .. n
    BY <2>2
  <2>4. m > 0
    <3> DEFINE v == f[n - m]
    <3>1. v > n - m /\ v \in 1 .. n /\ m \in Nat
      BY <2>3
    <3> HIDE DEF v
    <3> QED BY <3>1
  <2>5. m - 1 \notin T
    <3>1. m \in Nat /\ ~(m <= m - 1)
      BY <2>3
    <3> HIDE DEF T
    <3> QED BY <2>2, <3>1
  <2>6. n - (m - 1) \in 1 .. n /\ n - m \in 1 .. (n - (m - 1)) - 1
    BY <2>3, <2>4
  <2>7. f[n - m] < f[n - (m - 1)] /\ f[n - (m - 1)] \in 1 .. n
    BY <2>6
  <2>8. ~(f[n - (m - 1)] > n - (m - 1))
    BY <2>3, <2>4, <2>5
  <2> QED BY <2>3, <2>7, <2>8
<1>3. ASSUME NEW k \in 1 .. n PROVE f[k] = k
  BY <1>1, <1>2
<1> QED BY <1>3

(* The first place of a value.                                             *)
LEMMA FirstPlace ==
  ASSUME NEW ids \in Seq(Nat), NEW i \in Places(ids)
  PROVE  \E k \in DOMAIN ids : ids[k] = ids[i] /\ \A j \in 1 .. k - 1 : ids[j] # ids[i]
<1> DEFINE T == {k \in 1 .. Len(ids) : ids[k] = ids[i]}
<1>1. T \subseteq Nat /\ T # {} /\ DOMAIN ids = 1 .. Len(ids) /\ Len(ids) \in Nat
  BY LenProperties DEF Places
<1>2. PICK k \in T : \A m \in T : k <= m
  BY <1>1, Least
<1>3. ASSUME NEW j \in 1 .. k - 1 PROVE ids[j] # ids[i]
  <2>1. j \in 1 .. Len(ids) /\ ~(k <= j)
    BY <1>1, <1>2
  <2> QED BY <1>2, <2>1
<1> QED BY <1>1, <1>2, <1>3

(* The keys of an object are what was written, each once.                  *)
LEMMA EnumeratedIs ==
  ASSUME NEW ids \in Seq(Nat), NEW how
  PROVE  /\ Enumerated(ids, how) \in Seq(Nat)
         /\ \A j, k \in Places(Enumerated(ids, how)) :
              Enumerated(ids, how)[j] = Enumerated(ids, how)[k] => j = k
         /\ \A k \in Places(Enumerated(ids, how)) :
              \E j \in Places(ids) : Enumerated(ids, how)[k] = ids[j]
         /\ \A j \in Places(ids) :
              \E k \in Places(Enumerated(ids, how)) : Enumerated(ids, how)[k] = ids[j]
         /\ (/\ how # "ascending"
             /\ \A j, k \in Places(ids) : ids[j] = ids[k] => j = k)
            => Enumerated(ids, how) = ids
<1> DEFINE S == {ids[k] : k \in DOMAIN ids}
           first == [d \in S |-> CHOOSE k \in DOMAIN ids :
                       ids[k] = d /\ \A j \in 1 .. k - 1 : ids[j] # d]
           key == IF how = "ascending" THEN [d \in S |-> d] ELSE first
           e == Enumerated(ids, how)
<1>1. DOMAIN ids = 1 .. Len(ids) /\ Len(ids) \in Nat /\ ids \in [1 .. Len(ids) -> S]
  BY LenProperties
<1>2. IsFiniteSet(S) /\ S \subseteq Nat
  <2>1. ids \in Surjection(1 .. Len(ids), S)
    <3>1. \A x \in S : \E k \in 1 .. Len(ids) : ids[k] = x
      BY <1>1
    <3> QED BY <1>1, <3>1, Zenon DEF Surjection
  <2>2. IsFiniteSet(1 .. Len(ids))
    BY <1>1, IntervalIs
  <2>3. S \subseteq Nat
    BY <1>1, ElementOfSeq
  <2> QED BY <2>1, <2>2, <2>3, FS_Surjection
<1>3. ASSUME NEW d \in S
      PROVE  first[d] \in 1 .. Len(ids) /\ ids[first[d]] = d
  <2>1. PICK i \in Places(ids) : d = ids[i]
    BY <1>1 DEF Places
  <2>2. \E k \in DOMAIN ids : ids[k] = d /\ \A j \in 1 .. k - 1 : ids[j] # d
    BY <2>1, FirstPlace
  <2>3. first[d] = CHOOSE k \in DOMAIN ids : ids[k] = d /\ \A j \in 1 .. k - 1 : ids[j] # d
    OBVIOUS
  <2> HIDE DEF first
  <2> QED BY <1>1, <2>2, <2>3
<1>4. \A d \in S : key[d] \in Nat
  <2>1. CASE how = "ascending"
    <3>1. key = [d \in S |-> d]
      BY <2>1
    <3> HIDE DEF key, S
    <3> QED BY <1>2, <3>1
  <2>2. CASE how # "ascending"
    <3>1. key = first
      BY <2>2
    <3> HIDE DEF key, S, first
    <3> QED BY <1>1, <1>3, <3>1
  <2> QED BY <2>1, <2>2
<1>5. e \in Ordered(S, key)
  <2>1. e = CHOOSE s \in Ordered(S, key) : TRUE
    BY DEF Enumerated
  <2> HIDE DEF S, key, e
  <2>2. Ordered(S, key) # {}
    BY <1>2, <1>4, OrderedExists
  <2> QED BY <2>1, <2>2
<1> HIDE DEF key, e
<1>6. /\ Cardinality(S) \in Nat /\ e \in Seq(S) /\ Len(e) = Cardinality(S)
      /\ \A j, k \in 1 .. Len(e) : e[j] = e[k] => j = k
      /\ \A x \in S : \E k \in 1 .. Len(e) : e[k] = x
      /\ \A k \in 1 .. Len(e) : \A j \in 1 .. k - 1 : key[e[j]] <= key[e[k]]
  <2> HIDE DEF S
  <2> QED BY <1>2, <1>5, OrderedIs
<1>7. e \in Seq(Nat)
  BY <1>2, <1>6, SeqMonotonic
<1>8. \A k \in 1 .. Len(e) : e[k] \in S
  BY <1>6, ElementOfSeq
<1>9. ASSUME how # "ascending", \A j, k \in Places(ids) : ids[j] = ids[k] => j = k
      PROVE  e = ids
  <2>1. key = first
    BY <1>9 DEF key
  <2>2. Len(e) = Len(ids)
    <3>1. ids \in Bijection(1 .. Len(ids), S)
      BY <1>1, <1>9 DEF Bijection, Injection, IsInjective, Surjection, Places
    <3>2. Cardinality(S) = Cardinality(1 .. Len(ids))
      <4>1. IsFiniteSet(1 .. Len(ids)) /\ ids \in Surjection(1 .. Len(ids), S)
            /\ ids \in Injection(1 .. Len(ids), S)
        BY <1>1, <3>1, IntervalIs DEF Bijection
      <4> HIDE DEF S
      <4> QED BY <4>1, FS_Surjection, Zenon
    <3>3. Cardinality(1 .. Len(ids)) = Len(ids)
      BY <1>1, IntervalIs
    <3> QED BY <1>6, <3>2, <3>3
  <2> DEFINE n == Len(ids)
             f == [k \in 1 .. n |-> first[e[k]]]
  <2>3. f \in [1 .. n -> 1 .. n]
    BY <1>3, <1>8, <2>2
  <2>4. ASSUME NEW k \in 1 .. n, NEW j \in 1 .. k - 1 PROVE f[j] < f[k]
    <3>1. j \in 1 .. n /\ j # k
      BY <1>1
    <3>2. e[j] # e[k] /\ e[j] \in S /\ e[k] \in S
      BY <1>6, <1>8, <2>2, <3>1
    <3>3. first[e[j]] <= first[e[k]]
      BY <1>6, <2>1, <2>2
    <3>4. /\ first[e[j]] \in 1 .. n /\ first[e[k]] \in 1 .. n
          /\ first[e[j]] # first[e[k]]
      BY <1>3, <3>2
    <3>5. f[j] = first[e[j]] /\ f[k] = first[e[k]]
      BY <3>1
    <3> HIDE DEF f, first, S
    <3> QED BY <3>3, <3>4, <3>5
  <2>5. \A k \in 1 .. n : f[k] = k
    <3> HIDE DEF f, n
    <3>1. n \in Nat
      BY <1>1 DEF n
    <3> QED BY <2>3, <2>4, <3>1, OneToN
  <2>6. ASSUME NEW k \in 1 .. n PROVE e[k] = ids[k]
    <3>1. first[e[k]] = k
      BY <2>5
    <3>2. ids[first[e[k]]] = e[k]
      BY <1>3, <1>8, <2>2
    <3> QED BY <3>1, <3>2
  <2> QED BY <1>7, <2>2, <2>6, SeqEqual
<1>10. \A k \in Places(e) : \E j \in Places(ids) : e[k] = ids[j]
  BY <1>1, <1>8 DEF Places
<1>11. \A j \in Places(ids) : \E k \in Places(e) : e[k] = ids[j]
  BY <1>1, <1>6 DEF Places
<1>12. \A j, k \in Places(e) : e[j] = e[k] => j = k
  BY <1>6 DEF Places
<1> QED BY <1>7, <1>9, <1>10, <1>11, <1>12 DEF e

(* Ids are numbers.                                                        *)
LEMMA IdIs ==
  ASSUME CurriculumAssumption, NEW i \in Items
  PROVE  Id(i) \in Nat
BY DEF CurriculumAssumption, Items, Id

(* Of the items with an id one is not overwritten, and it is the last.     *)
LEMMA LastIs ==
  ASSUME CurriculumAssumption, NEW items \in Seq(Items), NEW j \in Places(items)
  PROVE  /\ \E k \in Places(items) :
              Last(items, Id(items[j])) = items[k] /\ Id(items[k]) = Id(items[j])
         /\ ~Overwritten(items, j) => Last(items, Id(items[j])) = items[j]
<1> DEFINE d == Id(items[j])
           n == Len(items)
           IsLast(k) == Id(items[k]) = d /\ \A l \in k + 1 .. n : Id(items[l]) # d
<1>1. n \in Nat /\ DOMAIN items = 1 .. n /\ j \in 1 .. n
  BY LenProperties DEF Places
<1>2. \E k \in 1 .. n : IsLast(k)
  <2> DEFINE T == {m \in 0 .. n - 1 : Id(items[n - m]) = d}
  <2>1. n - j \in 0 .. n - 1 /\ n - (n - j) = j
    BY <1>1
  <2>2. n - j \in T
    BY <2>1
  <2>3. T \subseteq Nat
    BY <1>1
  <2>4. PICK m \in T : \A l \in T : m <= l
    <3> HIDE DEF T
    <3> QED BY <2>2, <2>3, Least
  <2>5. m \in 0 .. n - 1 /\ n - m \in 1 .. n /\ Id(items[n - m]) = d
    BY <1>1, <2>4
  <2>6. ASSUME NEW l \in (n - m) + 1 .. n PROVE Id(items[l]) # d
    <3>1. n - l \in 0 .. n - 1 /\ ~(m <= n - l) /\ n - (n - l) = l
      BY <1>1, <2>5
    <3>2. n - l \notin T
      <4> HIDE DEF T
      <4> QED BY <2>4, <3>1
    <3> QED BY <3>1, <3>2
  <2> QED BY <2>5, <2>6
<1>3. \A k, l \in 1 .. n : IsLast(k) /\ IsLast(l) => k = l
  BY <1>1
<1>4. PICK k \in 1 .. n : IsLast(k) /\ Last(items, d) = items[k]
  <2>1. Last(items, d) = items[CHOOSE k \in DOMAIN items : IsLast(k)]
    BY DEF Last
  <2> HIDE DEF IsLast
  <2> QED BY <1>1, <1>2, <2>1
<1>5. ~Overwritten(items, j) => IsLast(j)
  BY <1>1 DEF Overwritten
<1>6. ~Overwritten(items, j) => k = j
  <2> HIDE DEF IsLast
  <2> QED BY <1>1, <1>3, <1>4, <1>5
<1> QED BY <1>4, <1>6 DEF Places

(* The object for a chapter holds its items, but for those overwritten.    *)
LEMMA EntriesIs ==
  ASSUME CurriculumAssumption, NEW g \in Blocks, NEW how
  PROVE  /\ Entries(g, how) \in Blocks /\ Entries(g, how).chapter = g.chapter
         /\ Elements(Entries(g, how).items) \subseteq Elements(g.items)
         /\ Len(Entries(g, how).items) <= Cardinality(Items)
         /\ \A k \in Places(g.items) :
              Overwritten(g.items, k) \/ g.items[k] \in Elements(Entries(g, how).items)
         /\ how # "ascending" /\ Distinct(g.items) => Entries(g, how).items = g.items
<1> DEFINE s == g.items
           raw == [k \in DOMAIN s |-> Id(s[k])]
           ids == Enumerated(raw, how)
           e == [k \in DOMAIN ids |-> Last(s, ids[k])]
<1>1. /\ s \in Seq(Items) /\ g.chapter \in Chapters \cup {Unassigned}
      /\ Entries(g, how) = [chapter |-> g.chapter, items |-> e]
  BY BlockIs DEF Entries
<1> HIDE DEF s
<1>2. Len(s) \in Nat /\ DOMAIN s = 1 .. Len(s) /\ \A k \in 1 .. Len(s) : s[k] \in Items
  BY <1>1, LenProperties, ElementOfSeq
<1>3. /\ raw \in Seq(Nat) /\ Len(raw) = Len(s)
      /\ \A k \in 1 .. Len(s) : raw[k] = Id(s[k])
  BY <1>2, IdIs, IsASeq
<1> HIDE DEF raw
<1>4. /\ ids \in Seq(Nat)
      /\ \A j, k \in Places(ids) : ids[j] = ids[k] => j = k
      /\ \A k \in Places(ids) : \E j \in Places(raw) : ids[k] = raw[j]
      /\ \A j \in Places(raw) : \E k \in Places(ids) : ids[k] = raw[j]
      /\ how # "ascending" /\ (\A j, k \in Places(raw) : raw[j] = raw[k] => j = k) => ids = raw
  BY <1>3, EnumeratedIs, Zenon
<1> HIDE DEF ids
<1>5. Len(ids) \in Nat /\ DOMAIN ids = 1 .. Len(ids)
  BY <1>4, LenProperties
<1>6. /\ \A k \in 1 .. Len(ids) : \E j \in 1 .. Len(s) : ids[k] = Id(s[j])
      /\ \A j \in 1 .. Len(s) : \E k \in 1 .. Len(ids) : ids[k] = Id(s[j])
  BY <1>3, <1>4 DEF Places
<1>7. \A k \in 1 .. Len(ids) : e[k] = Last(s, ids[k])
  BY <1>5
<1>8. ASSUME NEW k \in 1 .. Len(ids)
      PROVE  /\ \E j \in 1 .. Len(s) : e[k] = s[j]
             /\ Id(e[k]) = ids[k]
  <2>1. PICK j \in 1 .. Len(s) : ids[k] = Id(s[j])
    BY <1>6
  <2>2. PICK l \in Places(s) : Last(s, Id(s[j])) = s[l] /\ Id(s[l]) = Id(s[j])
    BY <1>1, LastIs DEF Places
  <2> QED BY <1>7, <2>1, <2>2 DEF Places
<1>9. e \in Seq(Items) /\ Len(e) = Len(ids)
  <2>1. \A k \in 1 .. Len(ids) : e[k] \in Items
    BY <1>2, <1>8
  <2>2. e \in [1 .. Len(ids) -> Items]
    BY <1>5, <2>1
  <2> HIDE DEF e
  <2> QED BY <1>5, <2>2
<1> HIDE DEF e
<1>10. Len(e) <= Cardinality(Items)
  <2>1. \A j, k \in 1 .. Len(e) : e[j] = e[k] => j = k
    BY <1>4, <1>8, <1>9 DEF Places
  <2>2. e \in [1 .. Len(e) -> Items] /\ Len(e) \in Nat /\ IsFiniteSet(Items)
    BY <1>9, LenProperties, ConstantsAre
  <2> QED BY <2>1, <2>2, Injective
<1>11. ASSUME NEW k \in Places(s) PROVE Overwritten(s, k) \/ s[k] \in Elements(e)
  <2>1. SUFFICES ASSUME ~Overwritten(s, k) PROVE s[k] \in Elements(e)
    OBVIOUS
  <2>2. Last(s, Id(s[k])) = s[k]
    BY <1>1, <2>1, LastIs
  <2>3. PICK j \in 1 .. Len(ids) : ids[j] = Id(s[k])
    BY <1>6 DEF Places
  <2>4. e[j] = s[k]
    BY <1>7, <2>2, <2>3
  <2> QED BY <1>9, <2>4 DEF Elements, Places
<1>12. ASSUME how # "ascending", Distinct(s) PROVE e = s
  <2>1. \A k \in 1 .. Len(s) : ~Overwritten(s, k)
    BY <1>2, <1>12 DEF Distinct
  <2>2. ASSUME NEW j \in 1 .. Len(s), NEW k \in 1 .. Len(s), raw[j] = raw[k] PROVE j = k
    <3>1. Id(s[j]) = Id(s[k])
      BY <1>3, <2>2
    <3>2. ~(j \in k + 1 .. Len(s)) /\ ~(k \in j + 1 .. Len(s))
      BY <2>1, <3>1 DEF Overwritten
    <3> QED BY <1>2, <3>2
  <2>3. ids = raw
    BY <1>3, <1>4, <1>12, <2>2 DEF Places
  <2>4. ASSUME NEW k \in 1 .. Len(s) PROVE e[k] = s[k]
    <3>1. Last(s, Id(s[k])) = s[k]
      BY <1>1, <2>1, LastIs DEF Places
    <3> QED BY <1>3, <1>7, <2>3, <3>1
  <2> QED BY <1>1, <1>3, <1>9, <2>3, <2>4, SeqEqual
<1>13. Entries(g, how).chapter = g.chapter /\ Entries(g, how).items = e
  BY <1>1
<1>14. Entries(g, how) \in Blocks
  BY <1>1, <1>9 DEF Blocks
<1>15. Elements(e) \subseteq Elements(s)
  BY <1>8, <1>9 DEF Elements, Places
<1> QED BY <1>10, <1>11, <1>12, <1>13, <1>14, <1>15 DEF s

(* A block with no more items than there are is a group.                   *)
LEMMA GroupIs ==
  ASSUME CurriculumAssumption, NEW x \in Blocks, Len(x.items) <= Cardinality(Items)
  PROVE  x \in Groups
<1>1. /\ x.chapter \in Chapters \cup {Unassigned} /\ x.items \in Seq(Items)
      /\ x = [chapter |-> x.chapter, items |-> x.items]
  BY BlockIs
<1>2. x.items \in Bounded(Items)
  BY <1>1, ConstantsAre, BoundedIs
<1> QED BY <1>1, <1>2 DEF Groups

(* The object that is sent: a group for a group of the page, and where     *)
(* keys come as they were inserted in the same order.                      *)
LEMMA ContentArrIs ==
  ASSUME CurriculumAssumption, NEW a \in Arrangements, NEW how
  PROVE  /\ getContentArr(a, how) \in Seq(Groups)
         /\ Len(getContentArr(a, how)) <= MaxChapters + 1
         /\ \A h \in Places(getContentArr(a, how)) :
              \E g \in Places(a) : getContentArr(a, how)[h] = Entries(a[g], how)
         /\ \A g \in Places(a) :
              \E h \in Places(getContentArr(a, how)) :
                getContentArr(a, how)[h] = Entries(a[g], how)
         /\ how # "ascending" =>
              /\ Len(getContentArr(a, how)) = Len(a)
              /\ \A g \in Places(a) : getContentArr(a, how)[g] = Entries(a[g], how)
<1> DEFINE raw == [k \in DOMAIN a |-> a[k].chapter]
           cs == Enumerated(raw, how)
           at(k) == CHOOSE j \in DOMAIN a : a[j].chapter = cs[k]
           b == getContentArr(a, how)
<1>1. /\ Once(a) /\ Len(a) \in Nat /\ DOMAIN a = 1 .. Len(a)
      /\ \A g \in 1 .. Len(a) : a[g] \in Blocks /\ a[g].chapter \in Chapters \cup {Unassigned}
  BY ArrangedIs, LenProperties DEF Places
<1>2. /\ raw \in Seq(Nat) /\ Len(raw) = Len(a)
      /\ \A k \in 1 .. Len(a) : raw[k] = a[k].chapter
  <2>1. \A k \in 1 .. Len(a) : a[k].chapter \in Nat
    BY <1>1, ConstantsAre DEF Chapters, Unassigned
  <2> QED BY <1>1, <2>1
<1> HIDE DEF raw
<1>3. /\ cs \in Seq(Nat)
      /\ \A j, k \in Places(cs) : cs[j] = cs[k] => j = k
      /\ \A k \in Places(cs) : \E j \in Places(raw) : cs[k] = raw[j]
      /\ \A j \in Places(raw) : \E k \in Places(cs) : cs[k] = raw[j]
      /\ how # "ascending" /\ (\A j, k \in Places(raw) : raw[j] = raw[k] => j = k) => cs = raw
  BY <1>2, EnumeratedIs, Zenon
<1>4. b = [k \in DOMAIN cs |-> Entries(a[at(k)], how)]
  BY DEF getContentArr, raw
<1> HIDE DEF cs, b
<1>5. Len(cs) \in Nat /\ DOMAIN cs = 1 .. Len(cs)
  BY <1>3, LenProperties
<1>6. ASSUME NEW k \in 1 .. Len(cs)
      PROVE  at(k) \in 1 .. Len(a) /\ a[at(k)].chapter = cs[k]
  <2>1. PICK j \in Places(raw) : cs[k] = raw[j]
    BY <1>3 DEF Places
  <2>2. j \in DOMAIN a /\ a[j].chapter = cs[k]
    BY <1>1, <1>2, <2>1 DEF Places
  <2> QED BY <1>1, <2>2
<1> HIDE DEF at
<1>7. ASSUME NEW g \in 1 .. Len(a), NEW k \in 1 .. Len(cs), cs[k] = a[g].chapter
      PROVE  at(k) = g
  BY <1>1, <1>6, <1>7 DEF Once, Places
<1>8. \A k \in 1 .. Len(cs) : b[k] = Entries(a[at(k)], how)
  BY <1>4, <1>5
<1>9. b \in Seq(Groups) /\ Len(b) = Len(cs)
  <2>1. \A k \in 1 .. Len(cs) : Entries(a[at(k)], how) \in Groups
    BY <1>1, <1>6, EntriesIs, GroupIs
  <2>2. b \in [1 .. Len(cs) -> Groups]
    BY <1>4, <1>5, <2>1
  <2> QED BY <1>5, <2>2
<1>10. Len(b) <= MaxChapters + 1
  <2>1. \A k \in 1 .. Len(cs) : cs[k] \in Chapters \cup {Unassigned}
    BY <1>1, <1>6
  <2>2. cs \in [1 .. Len(cs) -> Chapters \cup {Unassigned}]
    BY <1>3, <1>5, <2>1
  <2>3. \A j, k \in 1 .. Len(cs) : cs[j] = cs[k] => j = k
    BY <1>3 DEF Places
  <2>4. Len(cs) <= Cardinality(Chapters \cup {Unassigned})
    BY <1>5, <2>2, <2>3, ConstantsAre, Injective
  <2> QED BY <1>9, <2>4, ConstantsAre
<1>11. \A h \in Places(b) : \E g \in Places(a) : b[h] = Entries(a[g], how)
  BY <1>6, <1>8, <1>9 DEF Places
<1>12. ASSUME NEW g \in Places(a) PROVE \E h \in Places(b) : b[h] = Entries(a[g], how)
  <2>0. g \in Places(raw) /\ raw[g] = a[g].chapter
    BY <1>2 DEF Places
  <2>1. PICK k \in 1 .. Len(cs) : cs[k] = a[g].chapter
    <3>1. \E k \in Places(cs) : cs[k] = raw[g]
      BY <1>3, <2>0
    <3> QED BY <2>0, <3>1 DEF Places
  <2>2. at(k) = g
    BY <1>7, <2>1 DEF Places
  <2> QED BY <1>8, <1>9, <2>2 DEF Places
<1>13. ASSUME how # "ascending"
       PROVE  Len(b) = Len(a) /\ \A g \in Places(a) : b[g] = Entries(a[g], how)
  <2>1. \A j, k \in Places(raw) : raw[j] = raw[k] => j = k
    BY <1>1, <1>2 DEF Once, Places
  <2>2. cs = raw
    BY <1>3, <1>13, <2>1
  <2>3. \A g \in 1 .. Len(a) : at(g) = g
    BY <1>2, <1>7, <2>2
  <2> QED BY <1>2, <1>8, <1>9, <2>2, <2>3 DEF Places
<1> QED BY <1>9, <1>10, <1>11, <1>12, <1>13 DEF b

-----------------------------------------------------------------------------
(* The listing.                                                            *)

Sorted(items) ==
  \A k \in Places(items) : \A j \in 1 .. k - 1 :
    Kind(items[j]) = Kind(items[k]) => item[items[j]].order <= item[items[k]].order

(* A listing is an arrangement of the chapters that are there, and of what *)
(* is unassigned; each with what belongs to it, sorted.                    *)
Listed(a) ==
  /\ a \in Arrangements
  /\ \A g \in Places(a) :
       /\ a[g].chapter \in Shown /\ Elements(a[g].items) = In(a[g].chapter)
       /\ Sorted(a[g].items)
  /\ \A c \in Shown : \E g \in Places(a) : a[g].chapter = c
  /\ \A g \in Places(a) : \A h \in 1 .. g - 1 :
       Priority[a[h].chapter] <= Priority[a[g].chapter]

(* The items of a chapter and a kind, listed in the order of their         *)
(* numbers.                                                                *)
LEMMA OfKindIs ==
  ASSUME CurriculumAssumption, Typed, NEW kind, NEW c, NEW s \in OfKind(kind, c)
  PROVE  /\ s \in Seq(Items) /\ Len(s) \in Nat
         /\ \A k \in 1 .. Len(s) : s[k] \in In(c) /\ Kind(s[k]) = kind
         /\ \A j, k \in 1 .. Len(s) : s[j] = s[k] => j = k
         /\ \A i \in In(c) : Kind(i) = kind => \E k \in 1 .. Len(s) : s[k] = i
         /\ \A k \in 1 .. Len(s) : \A j \in 1 .. k - 1 : item[s[j]].order <= item[s[k]].order
<1> DEFINE S == {i \in In(c) : Kind(i) = kind}
           key == [i \in S |-> item[i].order]
<1>1. IsFiniteSet(S) /\ S \subseteq Items
  <2>1. S \in SUBSET Items
    BY DEF In
  <2> QED BY <2>1, ConstantsAre, FS_Subset
<1>2. s \in Ordered(S, key)
  BY DEF OfKind
<1>3. \A i \in S : key[i] = item[i].order
  OBVIOUS
<1>4. \A i \in S : i \in In(c) /\ Kind(i) = kind
  OBVIOUS
<1>5. \A i \in In(c) : Kind(i) = kind => i \in S
  OBVIOUS
<1> HIDE DEF S, key
<1>6. /\ Cardinality(S) \in Nat /\ s \in Seq(S) /\ Len(s) = Cardinality(S)
      /\ \A j, k \in 1 .. Len(s) : s[j] = s[k] => j = k
      /\ \A x \in S : \E k \in 1 .. Len(s) : s[k] = x
      /\ \A k \in 1 .. Len(s) : \A j \in 1 .. k - 1 : key[s[j]] <= key[s[k]]
  BY <1>1, <1>2, OrderedIs
<1>7. s \in Seq(Items) /\ Len(s) \in Nat /\ \A k \in 1 .. Len(s) : s[k] \in S
  BY <1>1, <1>6, SeqMonotonic, ElementOfSeq
<1>8. ASSUME NEW k \in 1 .. Len(s), NEW j \in 1 .. k - 1
      PROVE  item[s[j]].order <= item[s[k]].order
  <2>1. j \in 1 .. Len(s)
    BY <1>7
  <2>2. key[s[j]] <= key[s[k]]
    BY <1>6
  <2>3. key[s[j]] = item[s[j]].order /\ key[s[k]] = item[s[k]].order
    BY <1>3, <1>7, <2>1
  <2> QED BY <2>2, <2>3
<1> QED BY <1>4, <1>5, <1>6, <1>7, <1>8

(* The list of a chapter has its items once, those of a kind in the order  *)
(* of their numbers.                                                       *)
LEMMA ListsIs ==
  ASSUME CurriculumAssumption, Typed, NEW c, NEW u \in Lists(c)
  PROVE  /\ u \in Seq(Items) /\ Elements(u) = In(c) /\ Sorted(u)
         /\ \A j, k \in Places(u) : u[j] = u[k] => j = k
<1>1. PICK s \in OfKind("content", c), r \in OfKind("assessment", c) : u = s \o r
  BY DEF Lists
<1>2. /\ s \in Seq(Items) /\ Len(s) \in Nat
      /\ \A k \in 1 .. Len(s) : s[k] \in In(c) /\ Kind(s[k]) = "content"
      /\ \A j, k \in 1 .. Len(s) : s[j] = s[k] => j = k
      /\ \A i \in In(c) : Kind(i) = "content" => \E k \in 1 .. Len(s) : s[k] = i
      /\ \A k \in 1 .. Len(s) : \A j \in 1 .. k - 1 : item[s[j]].order <= item[s[k]].order
  BY OfKindIs
<1>3. /\ r \in Seq(Items) /\ Len(r) \in Nat
      /\ \A k \in 1 .. Len(r) : r[k] \in In(c) /\ Kind(r[k]) = "assessment"
      /\ \A j, k \in 1 .. Len(r) : r[j] = r[k] => j = k
      /\ \A i \in In(c) : Kind(i) = "assessment" => \E k \in 1 .. Len(r) : r[k] = i
      /\ \A k \in 1 .. Len(r) : \A j \in 1 .. k - 1 : item[r[j]].order <= item[r[k]].order
  BY OfKindIs
<1>4. /\ u \in Seq(Items) /\ Len(u) = Len(s) + Len(r)
      /\ \A k \in 1 .. Len(s) : u[k] = s[k]
      /\ \A k \in 1 .. Len(r) : u[Len(s) + k] = r[k]
  <2>1. /\ s \o r \in Seq(Items) /\ Len(s \o r) = Len(s) + Len(r)
        /\ \A k \in 1 .. Len(s) + Len(r) :
             (s \o r)[k] = IF k <= Len(s) THEN s[k] ELSE r[k - Len(s)]
    BY <1>2, <1>3, ConcatProperties
  <2>2. \A k \in 1 .. Len(s) : u[k] = s[k]
    BY <1>1, <1>2, <1>3, <2>1
  <2>3. ASSUME NEW k \in 1 .. Len(r) PROVE u[Len(s) + k] = r[k]
    <3>1. /\ Len(s) + k \in 1 .. Len(s) + Len(r) /\ ~(Len(s) + k <= Len(s))
          /\ (Len(s) + k) - Len(s) = k
      BY <1>2, <1>3
    <3> QED BY <1>1, <2>1, <3>1
  <2> QED BY <1>1, <2>1, <2>2, <2>3
<1>5. ASSUME NEW k \in Places(u)
      PROVE  \/ k \in 1 .. Len(s) /\ u[k] = s[k] /\ Kind(u[k]) = "content"
             \/ /\ k - Len(s) \in 1 .. Len(r) /\ u[k] = r[k - Len(s)]
                /\ Kind(u[k]) = "assessment" /\ k > Len(s)
  <2>1. CASE k <= Len(s)
    BY <1>2, <1>4, <2>1 DEF Places
  <2>2. CASE ~(k <= Len(s))
    <3>1. k - Len(s) \in 1 .. Len(r) /\ Len(s) + (k - Len(s)) = k /\ k > Len(s)
      BY <1>2, <1>3, <1>4, <2>2 DEF Places
    <3> QED BY <1>3, <1>4, <3>1
  <2> QED BY <2>1, <2>2
<1>6. Elements(u) = In(c)
  <2>1. ASSUME NEW k \in Places(u) PROVE u[k] \in In(c)
    BY <1>2, <1>3, <1>5
  <2>2. ASSUME NEW i \in In(c) PROVE \E k \in Places(u) : u[k] = i
    <3>1. Kind(i) \in {"content", "assessment"}
      BY DEF In, Items, Kind
    <3>2. CASE Kind(i) = "content"
      <4>1. PICK k \in 1 .. Len(s) : s[k] = i
        BY <1>2, <3>2
      <4> QED BY <1>2, <1>3, <1>4, <4>1 DEF Places
    <3>3. CASE Kind(i) = "assessment"
      <4>1. PICK k \in 1 .. Len(r) : r[k] = i
        BY <1>3, <3>3
      <4>2. Len(s) + k \in Places(u)
        BY <1>2, <1>3, <1>4 DEF Places
      <4> QED BY <1>4, <4>1, <4>2
    <3> QED BY <3>1, <3>2, <3>3
  <2> QED BY <2>1, <2>2 DEF Elements
<1>7. Sorted(u)
  <2> SUFFICES ASSUME NEW k \in Places(u), NEW j \in 1 .. k - 1, Kind(u[j]) = Kind(u[k])
               PROVE  item[u[j]].order <= item[u[k]].order
    BY DEF Sorted
  <2>1. j \in Places(u) /\ j < k /\ k \in Nat /\ j \in Nat
    BY <1>2, <1>3, <1>4 DEF Places
  <2>2. CASE Kind(u[k]) = "content"
    <3>1. k \in 1 .. Len(s) /\ u[k] = s[k] /\ u[j] = s[j]
      BY <1>5, <2>1, <2>2
    <3> QED BY <1>2, <3>1
  <2>3. CASE Kind(u[k]) = "assessment"
    <3>1. /\ k - Len(s) \in 1 .. Len(r) /\ u[k] = r[k - Len(s)]
          /\ j - Len(s) \in 1 .. Len(r) /\ u[j] = r[j - Len(s)]
      BY <1>5, <2>1, <2>3
    <3>2. j - Len(s) \in 1 .. (k - Len(s)) - 1
      BY <1>2, <2>1, <3>1
    <3>3. item[r[j - Len(s)]].order <= item[r[k - Len(s)]].order
      BY <1>3, <3>1, <3>2
    <3> QED BY <3>1, <3>3
  <2> QED BY <1>5, <2>2, <2>3
<1>8. ASSUME NEW j \in Places(u), NEW k \in Places(u), u[j] = u[k] PROVE j = k
  <2>1. CASE Kind(u[k]) = "content"
    <3>1. k \in 1 .. Len(s) /\ u[k] = s[k] /\ j \in 1 .. Len(s) /\ u[j] = s[j]
      BY <1>5, <1>8, <2>1
    <3> QED BY <1>2, <1>8, <3>1
  <2>2. CASE Kind(u[k]) = "assessment"
    <3>1. /\ k - Len(s) \in 1 .. Len(r) /\ u[k] = r[k - Len(s)]
          /\ j - Len(s) \in 1 .. Len(r) /\ u[j] = r[j - Len(s)]
      BY <1>5, <1>8, <2>2
    <3>2. j - Len(s) = k - Len(s)
      BY <1>3, <1>8, <3>1
    <3> QED BY <1>2, <1>4, <3>2 DEF Places
  <2> QED BY <1>5, <2>1, <2>2
<1> QED BY <1>4, <1>6, <1>7, <1>8

(* What the service lists is an arrangement of what there is.              *)
LEMMA ListingIs ==
  ASSUME CurriculumAssumption, Typed, NEW a \in listContentOrder
  PROVE  Listed(a)
<1>1. PICK cs \in Ordered(Shown, Priority), f \in [Shown -> UNION {Lists(c) : c \in Shown}] :
        /\ \A c \in Shown : f[c] \in Lists(c)
        /\ a = [k \in DOMAIN cs |-> [chapter |-> cs[k], items |-> f[cs[k]]]]
  BY DEF listContentOrder
<1>2. Shown \subseteq Chapters \cup {Unassigned} /\ IsFiniteSet(Shown)
  <2>1. Shown \in SUBSET (Chapters \cup {Unassigned})
    BY DEF Shown, There
  <2> QED BY <2>1, ConstantsAre, FS_Subset
<1>3. /\ cs \in Seq(Shown) /\ Len(cs) \in Nat
      /\ \A j, k \in 1 .. Len(cs) : cs[j] = cs[k] => j = k
      /\ \A x \in Shown : \E k \in 1 .. Len(cs) : cs[k] = x
  <2> DEFINE S == Shown
  <2>0. IsFiniteSet(S)
    BY <1>2
  <2>1. cs \in Ordered(S, Priority)
    BY <1>1
  <2>2. /\ Cardinality(S) \in Nat /\ cs \in Seq(S) /\ Len(cs) = Cardinality(S)
        /\ \A j, k \in 1 .. Len(cs) : cs[j] = cs[k] => j = k
        /\ \A x \in S : \E k \in 1 .. Len(cs) : cs[k] = x
    <3> HIDE DEF S
    <3> QED BY <2>0, <2>1, OrderedIs
  <2> QED BY <2>2 DEF S
<1>12. \A k \in 1 .. Len(cs) : \A j \in 1 .. k - 1 : Priority[cs[j]] <= Priority[cs[k]]
  BY <1>1, <1>2, OrderedIs
<1>4. DOMAIN cs = 1 .. Len(cs) /\ \A k \in 1 .. Len(cs) : cs[k] \in Shown
  BY <1>3, LenProperties, ElementOfSeq
<1>5. /\ Len(a) = Len(cs)
      /\ \A k \in 1 .. Len(cs) : a[k].chapter = cs[k] /\ a[k].items = f[cs[k]]
  BY <1>1, <1>3, <1>4
<1>6. \A k \in 1 .. Len(cs) : /\ a[k].items \in Seq(Items) /\ Sorted(a[k].items)
                              /\ Elements(a[k].items) = In(cs[k])
                              /\ \A j, l \in Places(a[k].items) :
                                   a[k].items[j] = a[k].items[l] => j = l
  BY <1>1, <1>4, <1>5, ListsIs
<1>7. a \in Seq(Blocks)
  <2> DEFINE x(k) == [chapter |-> cs[k], items |-> f[cs[k]]]
  <2>1. \A k \in 1 .. Len(cs) : x(k) \in Blocks
    BY <1>2, <1>4, <1>5, <1>6 DEF Blocks
  <2>2. a = [k \in 1 .. Len(cs) |-> x(k)]
    BY <1>1, <1>4
  <2> HIDE DEF x
  <2>3. a \in [1 .. Len(cs) -> Blocks]
    BY <2>1, <2>2
  <2>4. Len(cs) \in Nat
    BY <1>3
  <2> QED BY <2>3, <2>4
<1>8. Once(a)
  <2>1. ASSUME NEW g \in Places(a), NEW h \in Places(a), a[g].chapter = a[h].chapter
        PROVE  g = h
    <3>1. g \in 1 .. Len(cs) /\ h \in 1 .. Len(cs) /\ cs[g] = cs[h]
      BY <1>5, <2>1 DEF Places
    <3> QED BY <1>3, <3>1
  <2>2. ASSUME NEW g \in Places(a), NEW h \in Places(a), NEW k \in Places(a[g].items),
               NEW l \in Places(a[h].items), a[g].items[k] = a[h].items[l]
        PROVE  g = h /\ k = l
    <3>1. g \in 1 .. Len(cs) /\ h \in 1 .. Len(cs)
      BY <1>5 DEF Places
    <3>2. a[g].items[k] \in In(cs[g]) /\ a[h].items[l] \in In(cs[h])
      <4>1. a[g].items[k] \in Elements(a[g].items) /\ a[h].items[l] \in Elements(a[h].items)
        BY DEF Elements
      <4> QED BY <1>6, <3>1, <4>1
    <3>3. cs[g] = cs[h]
      BY <2>2, <3>2 DEF In
    <3>4. g = h
      BY <1>3, <3>1, <3>3
    <3> QED BY <1>6, <2>2, <3>1, <3>4
  <2> QED BY <2>1, <2>2 DEF Once
<1>9. \A g \in Places(a) : /\ a[g].chapter \in Shown /\ Sorted(a[g].items)
                           /\ Elements(a[g].items) = In(a[g].chapter)
  <2> SUFFICES ASSUME NEW g \in Places(a)
               PROVE  /\ a[g].chapter \in Shown /\ Sorted(a[g].items)
                      /\ Elements(a[g].items) = In(a[g].chapter)
    OBVIOUS
  <2>1. g \in 1 .. Len(cs) /\ a[g].chapter = cs[g]
    BY <1>5 DEF Places
  <2> QED BY <1>4, <1>6, <2>1
<1>10. ASSUME NEW c \in Shown PROVE \E g \in Places(a) : a[g].chapter = c
  <2>1. PICK k \in 1 .. Len(cs) : cs[k] = c
    BY <1>3
  <2> QED BY <1>5, <2>1 DEF Places
<1>11. ASSUME NEW g \in Places(a), NEW h \in 1 .. g - 1
       PROVE  Priority[a[h].chapter] <= Priority[a[g].chapter]
  <2>1. g \in 1 .. Len(cs) /\ h \in 1 .. Len(cs)
    BY <1>3, <1>5 DEF Places
  <2> QED BY <1>5, <1>12, <2>1
<1> QED BY <1>7, <1>8, <1>9, <1>10, <1>11 DEF Listed, Arrangements

-----------------------------------------------------------------------------
(* The steps.                                                              *)

(* What a request is.                                                      *)
LEMMA RequestIs ==
  ASSUME NEW r \in Sorts \cup Deletions \cup Listings \cup {Idle}
  PROVE  /\ r.op \in {"idle", "sort", "delete", "list"}
         /\ r.op = "idle" <=> r = Idle
         /\ r.op = "sort" => /\ r.groups \in Seq(Groups) /\ r.order \in 0 .. MaxChapters + 1
                             /\ r.todo \in Bounded(Items)
                             /\ r.chapter \in Chapters \cup {Unassigned}
                             /\ r.count \in 0 .. Cardinality(Items)
                             /\ r = [op |-> "sort", groups |-> r.groups, order |-> r.order,
                                     todo |-> r.todo, chapter |-> r.chapter, count |-> r.count]
         /\ r.op = "delete" => r.chapter \in Chapters /\ r.contents \in SUBSET Items
<1>1. CASE r \in Sorts
  BY <1>1 DEF Sorts, Idle
<1>2. CASE r \in Deletions
  BY <1>2 DEF Deletions, Idle
<1>3. CASE r \in Listings
  BY <1>3 DEF Listings, Idle
<1>4. CASE r = Idle
  BY <1>4 DEF Idle
<1> QED BY <1>1, <1>2, <1>3, <1>4

(* The type of a row of the table of chapters ...                          *)
LEMMA ChapterIs ==
  ASSUME Typed, NEW c \in Chapters
  PROVE  /\ chapter[c].is \in {"none", "there", "gone"}
         /\ chapter[c].priority \in 0 .. MaxChapters + 1
BY DEF Typed

(* ... of an item ...                                                      *)
LEMMA ItemIs ==
  ASSUME Typed, NEW i \in Items
  PROVE  /\ item[i].is \in {"none", "there", "gone"}
         /\ item[i].chapter \in Chapters \cup {Unassigned}
         /\ item[i].order \in 0 .. Cardinality(Items)
BY DEF Typed

(* ... and of what is known of a tab.                                      *)
LEMMA TabIs ==
  ASSUME Typed, NEW t \in Tabs
  PROVE  /\ page[t].groups \in Arrangements /\ page[t].ready \in BOOLEAN
         /\ asked[t] \in Arrangements
         /\ browser[t] \in {"inserted", "ascending"}
         /\ req[t] \in Sorts \cup Deletions \cup Listings \cup {Idle}
BY DEF Typed

(* Nothing was dropped: there is nothing to be right about.                *)
LEMMA NoneIs ==
  /\ None \in Arrangements /\ Places(None) = {}
  /\ Known(None) /\ Live(None) /\ Arrived(None)
  /\ RanksTo(None, Len(None)) /\ Ranked(None, Len(None))
  /\ Known(None)' /\ Live(None)' /\ Arrived(None)'
  /\ RanksTo(None, Len(None))' /\ Ranked(None, Len(None))'
<1>1. None \in Seq(Blocks) /\ Len(None) = 0 /\ Places(None) = {}
  BY DEF None, Places
<1> QED BY <1>1 DEF Arrangements, Once, Known, Live, Arrived, RanksTo, Ranked

(* What is missing is shown anywhere.                                      *)
LEMMA NoneShown ==
  ASSUME NEW p
  PROVE  ChaptersShown(p, None) /\ OrderShown(p, None)
BY NoneIs DEF ChaptersShown, OrderShown

(* The invariant holds before anything was done.                           *)
LEMMA Starts ==
  ASSUME CurriculumAssumption, Init
  PROVE  IInv
<1>1. Typed
  <2>1. chapter \in [Chapters -> [is : {"none", "there", "gone"},
                                  priority : 0 .. MaxChapters + 1]]
    BY ConstantsAre DEF Init
  <2>2. item \in [Items -> [is : {"none", "there", "gone"},
                            chapter : Chapters \cup {Unassigned},
                            order : 0 .. Cardinality(Items)]]
    BY ConstantsAre DEF Init, Unassigned
  <2>3. page \in [Tabs -> [groups : Arrangements, ready : BOOLEAN]]
    <3>1. NoPage \in [groups : Arrangements, ready : BOOLEAN]
      BY NoneIs DEF NoPage, None
    <3> QED BY <3>1 DEF Init
  <2>4. asked \in [Tabs -> Arrangements]
    BY NoneIs DEF Init
  <2> QED BY <2>1, <2>2, <2>3, <2>4 DEF Init, Typed, CurriculumAssumption
<1>2. Belongs
  BY DEF Init, Belongs
<1>3. ASSUME NEW t \in Tabs PROVE TabInv(t)
  <2>1. /\ page[t].groups = None /\ asked[t] = None /\ req[t] = Idle
        /\ req[t].op = "idle"
    BY DEF Init, NoPage, None, Idle
  <2>2. Live(None) /\ EmptyShown(None) /\ Known(None)
    BY NoneIs DEF EmptyShown
  <2>3. Calm(t)
    BY <2>1, <2>2 DEF Calm
  <2> QED BY <2>1, <2>2, <2>3, NoneShown DEF TabInv
<1> QED BY <1>1, <1>2, <1>3 DEF IInv

(* Chapters may be added and items come and go: no place is changed.       *)
Gentle ==
  /\ \A c \in Chapters : /\ chapter'[c].priority = chapter[c].priority
                         /\ chapter[c].is = "there" => chapter'[c].is = "there"
  /\ \A i \in Items :
       \/ item'[i] = item[i]
       \/ item[i].is = "none" /\ item'[i].is = "there" /\ item'[i].chapter = Unassigned
       \/ item[i].is # "none" /\ item'[i].is = "gone" /\ item'[i].chapter = Unassigned

(* No item is unmade.                                                      *)
Grows == \A i \in Items : item[i].is # "none" => item'[i].is # "none"

(* What was not to be added is not to be added later.                      *)
LEMMA KnownKept ==
  ASSUME NEW a \in Arrangements, Known(a), Grows
  PROVE  Known(a)'
<1> SUFFICES ASSUME NEW g \in Places(a), NEW i \in Elements(a[g].items)
             PROVE  item'[i].is # "none"
  BY DEF Known
<1>1. a[g] \in Blocks
  BY ElementOfSeq DEF Arrangements, Places
<1>2. i \in Items
  BY <1>1, BlockIs, ElementOfSeq DEF Elements, Places
<1> QED BY <1>2 DEF Known, Grows

(* An item that is shown was added.                                        *)
LEMMA KnownItem ==
  ASSUME NEW a \in Arrangements, Known(a), NEW g \in Places(a), NEW k \in Places(a[g].items)
  PROVE  /\ a[g].items[k] \in Items /\ item[a[g].items[k]].is # "none"
         /\ a[g].items[k] \in Elements(a[g].items)
<1>1. a[g] \in Blocks
  BY ElementOfSeq DEF Arrangements, Places
<1> QED BY <1>1, BlockIs, ElementOfSeq DEF Elements, Places, Known

(* A gentle step takes no chapter away ...                                 *)
LEMMA LiveKept ==
  ASSUME NEW a \in Arrangements, Live(a), Gentle
  PROVE  Live(a)'
BY DEF Live, Gentle, There

(* ... fills none that is empty ...                                        *)
LEMMA EmptyKept ==
  ASSUME NEW c, c # Unassigned, In(c) = {}, Gentle
  PROVE  In(c)' = {}
BY DEF In, Gentle

(* ... moves no item ...                                                   *)
LEMMA SettledKept ==
  ASSUME NEW i \in Items, item[i].is # "none", NEW c, Settled(i, c), Gentle
  PROVE  Settled(i, c)'
BY DEF Settled, Gentle

(* ... renumbers no chapter ...                                            *)
LEMMA RanksToKept ==
  ASSUME NEW a \in Arrangements, NEW n, n <= Len(a), n \in Nat, RanksTo(a, n), Gentle
  PROVE  RanksTo(a, n)'
<1> SUFFICES ASSUME NEW g \in 1 .. n, a[g].chapter # Unassigned
             PROVE  chapter'[a[g].chapter].priority = g
  BY DEF RanksTo, Numbered
<1>1. a[g] \in Blocks
  BY ElementOfSeq, LenProperties DEF Arrangements
<1>2. a[g].chapter \in Chapters
  BY <1>1, BlockIs
<1>3. chapter[a[g].chapter].priority = g
  BY DEF RanksTo, Numbered
<1> QED BY <1>2, <1>3 DEF Gentle

(* ... and no item: those that are numbered in order stay so ...           *)
LEMMA RisingKept ==
  ASSUME NEW items \in Seq(Items), NEW n \in Nat, n <= Len(items),
         \A k \in Places(items) : item[items[k]].is # "none", Gentle
  PROVE  /\ Rising(items, n) => Rising(items, n)'
         /\ \A count : UpTo(items, n, count) => UpTo(items, n, count)'
<1>1. ASSUME NEW k \in 1 .. n, item'[items[k]].is = "there"
      PROVE  item'[items[k]] = item[items[k]] /\ item[items[k]].is = "there"
  <2>1. k \in Places(items) /\ items[k] \in Items
    BY ElementOfSeq DEF Places
  <2> QED BY <1>1, <2>1 DEF Gentle
<1>2. ASSUME Rising(items, n), NEW k \in 1 .. n, item'[items[k]].is = "there",
             NEW j \in 1 .. k - 1, item'[items[j]].is = "there"
      PROVE  item'[items[j]].order < item'[items[k]].order
  <2>1. j \in 1 .. n
    OBVIOUS
  <2> QED BY <1>1, <1>2, <2>1 DEF Rising
<1>3. ASSUME NEW count, UpTo(items, n, count), NEW k \in 1 .. n, item'[items[k]].is = "there"
      PROVE  item'[items[k]].order <= count
  BY <1>1, <1>3 DEF UpTo
<1> QED BY <1>2, <1>3 DEF Rising, UpTo

(* ... in all groups that were done ...                                    *)
LEMMA RankedKept ==
  ASSUME NEW a \in Arrangements, Known(a), NEW n \in Nat, n <= Len(a), Ranked(a, n), Gentle
  PROVE  Ranked(a, n)'
<1> SUFFICES ASSUME NEW g \in 1 .. n, Distinct(a[g].items)
             PROVE  Rising(a[g].items, Len(a[g].items))'
  BY DEF Ranked
<1>1. g \in Places(a) /\ a[g] \in Blocks
  BY ElementOfSeq, LenProperties DEF Arrangements, Places
<1>2. a[g].items \in Seq(Items) /\ Len(a[g].items) \in Nat
  BY <1>1, BlockIs, LenProperties
<1>3. \A k \in Places(a[g].items) : item[a[g].items[k]].is # "none"
  BY <1>1, KnownItem
<1>4. Rising(a[g].items, Len(a[g].items))
  BY DEF Ranked
<1> DEFINE s == a[g].items
<1>5. s \in Seq(Items) /\ Len(s) \in Nat /\ Len(s) <= Len(s) /\ Rising(s, Len(s))
      /\ \A k \in Places(s) : item[s[k]].is # "none"
  BY <1>2, <1>3, <1>4
<1> HIDE DEF s
<1>6. Rising(s, Len(s))'
  BY <1>5, RisingKept
<1> QED BY <1>6 DEF s

(* ... and in the one that is being done ...                               *)
LEMMA HalfKept ==
  ASSUME NEW items \in Seq(Items), \A k \in Places(items) : item[items[k]].is # "none",
         NEW r, Half(r, items), Gentle
  PROVE  Half(r, items)'
<1>1. PICK d \in 0 .. Len(items) :
        /\ Len(r.todo) = Len(items) - d
        /\ \A m \in Places(r.todo) : r.todo[m] = items[d + m]
        /\ Rising(items, d) /\ UpTo(items, d, r.count)
  BY DEF Half
<1>2. d \in Nat /\ d <= Len(items)
  BY LenProperties
<1>3. Rising(items, d)' /\ UpTo(items, d, r.count)'
  BY <1>1, <1>2, RisingKept
<1> QED BY <1>1, <1>3 DEF Half

(* ... so that a sort goes on undisturbed ...                              *)
LEMMA SortingKept ==
  ASSUME NEW a \in Arrangements, Known(a), NEW r, r.order \in Nat, r.groups \in Seq(Groups),
         Sorting(r, a), Gentle
  PROVE  Sorting(r, a)'
<1>1. Len(a) \in Nat /\ r.order <= Len(a)
  <2>1. /\ r.order + Len(r.groups) = Len(a) /\ Len(r.groups) \in Nat /\ Len(a) \in Nat
        /\ r.order \in Nat
    BY LenProperties DEF Sorting, Arrangements
  <2> QED BY <2>1
<1>2. RanksTo(a, r.order)'
  BY <1>1, RanksToKept DEF Sorting
<1>3. CASE r.order = 0
  BY <1>2, <1>3 DEF Sorting
<1>4. CASE r.order # 0
  <2>1. Ranked(a, r.order - 1)
    BY <1>4 DEF Sorting
  <2>2. r.order - 1 \in Nat /\ r.order - 1 <= Len(a) /\ r.order \in 1 .. Len(a)
    BY <1>1, <1>4
  <2>3. Ranked(a, r.order - 1)'
    BY <2>1, <2>2, RankedKept
  <2>4. ASSUME Distinct(a[r.order].items) PROVE Half(r, a[r.order].items)'
    <3> DEFINE s == a[r.order].items
    <3>1. r.order \in Places(a) /\ a[r.order] \in Blocks
      BY <2>2, ElementOfSeq DEF Arrangements, Places
    <3>2. s \in Seq(Items) /\ \A k \in Places(s) : item[s[k]].is # "none"
      BY <3>1, BlockIs, KnownItem
    <3>3. Half(r, s)
      BY <1>4, <2>4 DEF Sorting
    <3> HIDE DEF s
    <3>4. Half(r, s)'
      BY <3>2, <3>3, HalfKept
    <3> QED BY <3>4 DEF s
  <2> QED BY <1>2, <1>4, <2>3, <2>4 DEF Sorting
<1> QED BY <1>3, <1>4

(* ... and what has arrived stays where it is.                             *)
LEMMA ArrivedKept ==
  ASSUME NEW a \in Arrangements, Known(a), Gentle
  PROVE  /\ Arrived(a) => Arrived(a)'
         /\ \A r : Delivered(r, a) => Delivered(r, a)'
<1>1. ASSUME NEW g \in Places(a), NEW k \in Places(a[g].items),
             Settled(a[g].items[k], a[g].chapter)
      PROVE  Settled(a[g].items[k], a[g].chapter)'
  <2> DEFINE i == a[g].items[k]
             c == a[g].chapter
  <2>1. i \in Items /\ item[i].is # "none" /\ Settled(i, c)
    BY <1>1, KnownItem
  <2> HIDE DEF i, c
  <2>2. Settled(i, c)'
    BY <2>1, SettledKept
  <2> QED BY <2>2 DEF i, c
<1>2. Arrived(a) => Arrived(a)'
  BY <1>1 DEF Arrived
<1>3. ASSUME NEW r, Delivered(r, a) PROVE Delivered(r, a)'
  BY <1>1, <1>3 DEF Delivered
<1> QED BY <1>2, <1>3

(* A tab that does nothing stays as good as it was, if another one's flush *)
(* is noted as a disturbance.                                              *)
LEMMA OtherTab ==
  ASSUME CurriculumAssumption, Typed, NEW u \in Tabs, TabInv(u), Grows,
         page'[u] = page[u], req'[u] = req[u], asked'[u] = asked[u], browser'[u] = browser[u],
         u \notin disturbed' => u \notin disturbed /\ Gentle
  PROVE  TabInv(u)'
<1>1. PICK p, a, r, how :
        p = page[u].groups /\ a = asked[u] /\ r = req[u] /\ how = browser[u]
  OBVIOUS
<1>2. /\ p = page'[u].groups /\ a = asked'[u] /\ r = req'[u] /\ how = browser'[u]
  BY <1>1
<1>3. /\ p \in Arrangements /\ a \in Arrangements
      /\ r \in Sorts \cup Deletions \cup Listings \cup {Idle}
  BY <1>1, TabIs
<1>4. /\ Known(p) /\ Known(a)
      /\ r.op = "sort" => Bounds(r)
      /\ r.op = "delete" => a = None
      /\ r.op = "idle" => /\ ChaptersShown(p, a)
                          /\ how = "inserted" => OrderShown(p, a)
  BY <1>1 DEF TabInv
<1>5. Known(p)' /\ Known(a)'
  BY <1>3, <1>4, KnownKept
<1>6. ASSUME u \notin disturbed' PROVE Calm(u)'
  <2>1. Gentle /\ Calm(u)
    BY <1>6 DEF TabInv
  <2>2. ASSUME r.op \in {"idle", "delete"} PROVE Live(p)' /\ EmptyShown(p)'
    <3>1. Live(p) /\ EmptyShown(p)
      BY <1>1, <2>1, <2>2 DEF Calm
    <3>2. ASSUME NEW g \in Places(p), p[g].items = <<>>, p[g].chapter # Unassigned
          PROVE  In(p[g].chapter)' = {}
      BY <2>1, <3>1, <3>2, EmptyKept DEF EmptyShown
    <3> QED BY <1>3, <2>1, <3>1, <3>2, LiveKept DEF EmptyShown
  <2>3. ASSUME r.op = "delete" PROVE In(r.chapter)' = {}
    <3>1. r.chapter \in Chapters /\ In(r.chapter) = {}
      BY <1>1, <1>3, <2>1, <2>3, RequestIs DEF Calm
    <3>2. r.chapter # Unassigned
      BY <3>1 DEF Chapters, Unassigned
    <3> QED BY <2>1, <3>1, <3>2, EmptyKept
  <2>4. ASSUME r.op = "sort"
        PROVE  /\ Live(a)' /\ Sent(r, a) /\ Delivered(r, a)'
               /\ how = "inserted" => Sorting(r, a)'
    <3>1. /\ Live(a) /\ Sent(r, a) /\ Delivered(r, a)
          /\ how = "inserted" => Sorting(r, a)
      BY <1>1, <2>1, <2>4 DEF Calm
    <3>2. r.order \in Nat /\ r.groups \in Seq(Groups)
      BY <1>3, <2>4, RequestIs, ConstantsAre
    <3> QED BY <1>3, <1>4, <2>1, <3>1, <3>2, LiveKept, ArrivedKept, SortingKept
  <2>5. ASSUME r.op = "list"
        PROVE  /\ Live(a)' /\ Arrived(a)'
               /\ how = "inserted" => RanksTo(a, Len(a))' /\ Ranked(a, Len(a))'
    <3>1. /\ Live(a) /\ Arrived(a)
          /\ how = "inserted" => RanksTo(a, Len(a)) /\ Ranked(a, Len(a))
      BY <1>1, <2>1, <2>5 DEF Calm
    <3>2. Len(a) \in Nat /\ Len(a) <= Len(a)
      BY <1>3, LenProperties DEF Arrangements
    <3> QED BY <1>3, <1>4, <2>1, <3>1, <3>2, LiveKept, ArrivedKept, RanksToKept, RankedKept
  <2> QED BY <1>2, <2>2, <2>3, <2>4, <2>5 DEF Calm
<1> QED BY <1>2, <1>4, <1>5, <1>6 DEF TabInv

(* Nothing is written.                                                     *)
LEMMA Still ==
  ASSUME chapter' = chapter, item' = item
  PROVE  /\ Gentle /\ Grows
         /\ \A a : (Known(a) => Known(a)') /\ (Live(a) => Live(a)')
                   /\ (EmptyShown(a) => EmptyShown(a)') /\ (Arrived(a) => Arrived(a)')
BY DEF Gentle, Grows, Known, Live, There, EmptyShown, In, Arrived, Settled

(* A fresh listing shows what is there.                                    *)
LEMMA ListedShows ==
  ASSUME CurriculumAssumption, Typed, NEW p, Listed(p)
  PROVE  Known(p) /\ Live(p) /\ EmptyShown(p)
<1>1. Known(p)
  BY DEF Listed, Known, In
<1>2. Live(p)
  BY DEF Listed, Live, Shown
<1>3. ASSUME NEW g \in Places(p), p[g].items = <<>> PROVE In(p[g].chapter) = {}
  <2>1. Elements(p[g].items) = In(p[g].chapter)
    BY DEF Listed
  <2>2. Elements(<<>>) = {}
    BY DEF Elements, Places
  <2> QED BY <1>3, <2>1, <2>2
<1> QED BY <1>1, <1>2, <1>3 DEF EmptyShown

(* What arrived is listed as it was dropped.                               *)
LEMMA ListedAsDropped ==
  ASSUME CurriculumAssumption, Typed, NEW p, Listed(p), NEW a \in Arrangements, Live(a),
         Arrived(a)
  PROVE  /\ ChaptersShown(p, a)
         /\ RanksTo(a, Len(a)) /\ Ranked(a, Len(a)) => OrderShown(p, a)
<1>1. ASSUME NEW g \in Places(a), NEW k \in Places(a[g].items), ~Overwritten(a[g].items, k),
             NEW h \in Places(p), a[g].items[k] \in Elements(p[h].items)
      PROVE  /\ p[h].chapter = a[g].chapter
             /\ item[a[g].items[k]].is = "there" /\ a[g].items[k] \in In(a[g].chapter)
  <2>1. a[g].items[k] \in In(p[h].chapter)
    BY <1>1 DEF Listed
  <2>2. Settled(a[g].items[k], a[g].chapter)
    BY <1>1 DEF Arrived
  <2> QED BY <2>1, <2>2 DEF In, Settled
<1>2. ChaptersShown(p, a)
  BY <1>1 DEF ChaptersShown
<1>3. ASSUME RanksTo(a, Len(a)), Ranked(a, Len(a)) PROVE OrderShown(p, a)
  <2>0. p \in Seq(Blocks) /\ Len(p) \in Nat /\ Len(a) \in Nat /\ Once(a)
    BY LenProperties DEF Listed, Arrangements
  <2>1. ASSUME NEW g \in Places(a), NEW h \in 1 .. g - 1,
               Unassigned \notin {a[g].chapter, a[h].chapter}
        PROVE  \E n \in Places(p) : \E m \in 1 .. n - 1 :
                 p[m].chapter = a[h].chapter /\ p[n].chapter = a[g].chapter
    <3>1. h \in Places(a) /\ g \in 1 .. Len(a) /\ h \in 1 .. Len(a) /\ h < g
      BY <2>0 DEF Places
    <3> DEFINE c == a[g].chapter
               d == a[h].chapter
    <3>2. /\ c \in There /\ c \in Shown /\ c # Unassigned
          /\ d \in There /\ d \in Shown /\ d # Unassigned
      BY <2>1, <3>1 DEF Live, Shown
    <3>3. chapter[c].priority = g /\ chapter[d].priority = h
      BY <1>3, <2>1, <3>1 DEF RanksTo, Numbered
    <3>4. Priority[c] = g /\ Priority[d] = h
      BY <3>2, <3>3 DEF Priority
    <3>5. PICK n \in Places(p) : p[n].chapter = c
      BY <3>2 DEF Listed
    <3>6. PICK m \in Places(p) : p[m].chapter = d
      BY <3>2 DEF Listed
    <3> HIDE DEF c, d
    <3>7. ~(n \in 1 .. m - 1)
      <4> SUFFICES ASSUME n \in 1 .. m - 1 PROVE FALSE
        OBVIOUS
      <4>1. Priority[p[n].chapter] <= Priority[p[m].chapter]
        BY DEF Listed
      <4>2. g <= h
        BY <3>4, <3>5, <3>6, <4>1
      <4> QED BY <3>1, <4>2
    <3>8. m # n
      BY <3>1, <3>4, <3>5, <3>6
    <3>9. m \in 1 .. n - 1
      BY <2>0, <3>7, <3>8 DEF Places
    <3> QED BY <3>5, <3>6, <3>9 DEF c, d
  <2>2. ASSUME NEW g \in Places(a), Distinct(a[g].items),
               NEW k \in Places(a[g].items), NEW j \in 1 .. k - 1,
               Kind(a[g].items[j]) = Kind(a[g].items[k]),
               Somewhere(p, a[g].items[j]), Somewhere(p, a[g].items[k])
        PROVE  \E h \in Places(p) : \E n \in Places(p[h].items) : \E m \in 1 .. n - 1 :
                 p[h].items[m] = a[g].items[j] /\ p[h].items[n] = a[g].items[k]
    <3>1. a[g].items \in Seq(Items) /\ Len(a[g].items) \in Nat
      BY ArrangedIs, LenProperties
    <3>2. j \in Places(a[g].items) /\ k \in Nat /\ j \in Nat /\ j < k /\ j # k
      BY <3>1 DEF Places
    <3>3. ~Overwritten(a[g].items, j) /\ ~Overwritten(a[g].items, k)
      BY <2>2, <3>1, <3>2, LenProperties DEF Distinct, Places
    <3> DEFINE x == a[g].items[j]
               y == a[g].items[k]
               c == a[g].chapter
    <3>4. PICK h \in Places(p) : y \in Elements(p[h].items)
      BY <2>2 DEF Somewhere
    <3>5. PICK f \in Places(p) : x \in Elements(p[f].items)
      BY <2>2 DEF Somewhere
    <3>6. p[h].chapter = c /\ item[y].is = "there" /\ item[x].is = "there" /\ x \in In(c)
      BY <1>1, <3>2, <3>3, <3>4, <3>5
    <3>7. Elements(p[h].items) = In(c) /\ Sorted(p[h].items)
      BY <3>6 DEF Listed
    <3>8. PICK n \in Places(p[h].items) : p[h].items[n] = y
      BY <3>4 DEF Elements
    <3>9. PICK m \in Places(p[h].items) : p[h].items[m] = x
      BY <3>6, <3>7 DEF Elements
    <3>10. item[x].order < item[y].order
      <4>1. Rising(a[g].items, Len(a[g].items))
        BY <1>3, <2>2 DEF Ranked, Places
      <4>2. k \in 1 .. Len(a[g].items)
        BY DEF Places
      <4> QED BY <3>6, <4>1, <4>2 DEF Rising
    <3>11. /\ x \in Items /\ y \in Items
           /\ item[x].order \in Nat /\ item[y].order \in Nat
      <4>1. x \in Items /\ y \in Items
        BY <3>1, <3>2, ElementOfSeq DEF Places
      <4> HIDE DEF x, y
      <4>2. Cardinality(Items) \in Nat
        BY ConstantsAre
      <4> QED BY <4>1, <4>2, ItemIs
    <3>12. Kind(x) = Kind(y)
      BY <2>2
    <3> HIDE DEF x, y
    <3>13. ~(n \in 1 .. m - 1)
      <4> SUFFICES ASSUME n \in 1 .. m - 1 PROVE FALSE
        OBVIOUS
      <4>1. item[p[h].items[n]].order <= item[p[h].items[m]].order
        BY <3>7, <3>8, <3>9, <3>12 DEF Sorted
      <4>2. item[y].order <= item[x].order
        BY <3>8, <3>9, <4>1
      <4> QED BY <3>10, <3>11, <4>2
    <3>14. m # n
      BY <3>8, <3>9, <3>10, <3>11
    <3>15. m \in Nat /\ n \in Nat /\ m >= 1 /\ n >= 1
      <4>1. Len(p[h].items) \in Nat
        BY ArrangedIs, LenProperties DEF Listed
      <4>2. m \in 1 .. Len(p[h].items) /\ n \in 1 .. Len(p[h].items)
        BY <3>8, <3>9, Zenon DEF Places
      <4> DEFINE z == Len(p[h].items)
      <4>3. z \in Nat /\ m \in 1 .. z /\ n \in 1 .. z
        BY <4>1, <4>2
      <4> HIDE DEF z
      <4> QED BY <4>3
    <3>16. m \in 1 .. n - 1
      BY <3>13, <3>14, <3>15
    <3> QED BY <3>8, <3>9, <3>16 DEF x, y
  <2> QED BY <2>1, <2>2 DEF OrderShown
<1> QED BY <1>2, <1>3

(* When nothing is written the other tabs do not notice.                   *)
LEMMA OthersStill ==
  ASSUME CurriculumAssumption, IInv, NEW t \in Tabs,
         chapter' = chapter, item' = item, browser' = browser,
         \A u \in Tabs \ {t} : /\ page'[u] = page[u] /\ req'[u] = req[u] /\ asked'[u] = asked[u]
                               /\ u \notin disturbed' => u \notin disturbed
  PROVE  \A u \in Tabs \ {t} : TabInv(u)'
<1> SUFFICES ASSUME NEW u \in Tabs \ {t} PROVE TabInv(u)'
  OBVIOUS
<1>1. Typed /\ TabInv(u) /\ u \in Tabs
  BY DEF IInv
<1>2. Gentle /\ Grows
  BY Still
<1>3. browser'[u] = browser[u]
  OBVIOUS
<1> QED BY <1>1, <1>2, <1>3, OtherTab

(* A tab shows a listing.                                                  *)
LEMMA ShowIs ==
  ASSUME CurriculumAssumption, Typed, NEW t \in Tabs, NEW ready \in BOOLEAN, Show(t, ready)
  PROVE  /\ Listed(page'[t].groups)
         /\ page' \in [Tabs -> [groups : Arrangements, ready : BOOLEAN]]
         /\ \A u \in Tabs \ {t} : page'[u] = page[u]
         /\ disturbed' = disturbed \ {t}
<1>1. PICK p \in listContentOrder : page' = [page EXCEPT ![t] = [groups |-> p, ready |-> ready]]
  BY DEF Show
<1>2. Listed(p)
  BY <1>1, ListingIs
<1>3. [groups |-> p, ready |-> ready] \in [groups : Arrangements, ready : BOOLEAN]
  BY <1>2 DEF Listed
<1>4. page \in [Tabs -> [groups : Arrangements, ready : BOOLEAN]]
  BY DEF Typed
<1> DEFINE x == [groups |-> p, ready |-> ready]
<1>5. x.groups = p /\ page' = [page EXCEPT ![t] = x]
  BY <1>1
<1> HIDE DEF x
<1>6. page'[t] = x /\ \A u \in Tabs \ {t} : page'[u] = page[u]
  BY <1>4, <1>5
<1>7. page' \in [Tabs -> [groups : Arrangements, ready : BOOLEAN]]
  BY <1>3, <1>4, <1>5 DEF x
<1> QED BY <1>2, <1>5, <1>6, <1>7 DEF Show

(* A page is opened: nothing was dropped on it yet.                        *)
LEMMA OpenKeeps ==
  ASSUME CurriculumAssumption, IInv, NEW t \in Tabs, open(t)
  PROVE  IInv'
<1>1. Typed /\ Belongs /\ TabInv(t)
  BY DEF IInv
<1>2. /\ Listed(page'[t].groups)
      /\ page' \in [Tabs -> [groups : Arrangements, ready : BOOLEAN]]
      /\ \A u \in Tabs \ {t} : page'[u] = page[u]
      /\ disturbed' = disturbed \ {t}
  BY <1>1, ShowIs DEF open
<1>3. /\ chapter' = chapter /\ item' = item /\ browser' = browser /\ req' = req
      /\ calls' = calls /\ req[t] = Idle /\ asked' = [asked EXCEPT ![t] = None]
  BY DEF open
<1>4. asked' \in [Tabs -> Arrangements] /\ asked'[t] = None
      /\ \A u \in Tabs \ {t} : asked'[u] = asked[u]
  BY <1>1, <1>3, NoneIs DEF Typed
<1>5. Typed'
  BY <1>1, <1>2, <1>3, <1>4 DEF Typed
<1>6. Belongs'
  BY <1>1, <1>3 DEF Belongs
<1>7. \A u \in Tabs \ {t} : TabInv(u)'
  BY <1>2, <1>3, <1>4, OthersStill
<1>8. TabInv(t)'
  <2>1. PICK p : p = page'[t].groups
    OBVIOUS
  <2>2. Known(p) /\ Live(p) /\ EmptyShown(p)
    BY <1>1, <1>2, <2>1, ListedShows
  <2>3. Known(p)' /\ Live(p)' /\ EmptyShown(p)'
    BY <1>3, <2>2, Still
  <2>4. req'[t].op = "idle"
    BY <1>3 DEF Idle
  <2>5. Calm(t)'
    BY <2>1, <2>3, <2>4 DEF Calm
  <2> QED BY <1>4, <2>1, <2>3, <2>4, <2>5, NoneIs, NoneShown DEF TabInv
<1> QED BY <1>5, <1>6, <1>7, <1>8 DEF IInv

(* A page is listed again: what arrived is shown where it was dropped.     *)
LEMMA RelistKeeps ==
  ASSUME CurriculumAssumption, IInv, NEW t \in Tabs, relist(t)
  PROVE  IInv'
<1>1. Typed /\ Belongs /\ TabInv(t)
  BY DEF IInv
<1>2. req[t].op = "list" /\ req[t].ready \in BOOLEAN /\ Show(t, req[t].ready)
  <2>1. req[t] \in Sorts \cup Deletions \cup Listings \cup {Idle} /\ req[t].op = "list"
    BY <1>1, TabIs DEF relist
  <2>2. req[t] \in Listings
    BY <2>1 DEF Sorts, Deletions, Idle
  <2>3. req[t].ready \in BOOLEAN
    BY <2>2 DEF Listings
  <2> QED BY <2>1, <2>3 DEF relist
<1>3. /\ Listed(page'[t].groups)
      /\ page' \in [Tabs -> [groups : Arrangements, ready : BOOLEAN]]
      /\ \A u \in Tabs \ {t} : page'[u] = page[u]
      /\ disturbed' = disturbed \ {t}
  BY <1>1, <1>2, ShowIs
<1>4. /\ chapter' = chapter /\ item' = item /\ browser' = browser
      /\ calls' = calls /\ req' = [req EXCEPT ![t] = Idle]
      /\ asked' = [asked EXCEPT ![t] = IF t \in disturbed THEN None ELSE asked[t]]
  BY DEF relist
<1>5. /\ asked' \in [Tabs -> Arrangements]
      /\ asked'[t] = IF t \in disturbed THEN None ELSE asked[t]
      /\ \A u \in Tabs \ {t} : asked'[u] = asked[u]
  BY <1>1, <1>4, NoneIs DEF Typed
<1>6. /\ req' \in [Tabs -> Sorts \cup Deletions \cup Listings \cup {Idle}]
      /\ req'[t] = Idle /\ req'[t].op = "idle"
      /\ \A u \in Tabs \ {t} : req'[u] = req[u]
  BY <1>1, <1>4 DEF Typed, Idle
<1>7. Typed'
  BY <1>1, <1>3, <1>4, <1>5, <1>6 DEF Typed
<1>8. Belongs'
  BY <1>1, <1>4 DEF Belongs
<1>9. \A u \in Tabs \ {t} : TabInv(u)'
  BY <1>3, <1>4, <1>5, <1>6, OthersStill
<1>10. TabInv(t)'
  <2>1. PICK p, a, how : p = page'[t].groups /\ a = asked'[t] /\ how = browser'[t]
    OBVIOUS
  <2>2. Known(p) /\ Live(p) /\ EmptyShown(p)
    BY <1>1, <1>3, <2>1, ListedShows
  <2>3. Known(p)' /\ Live(p)' /\ EmptyShown(p)'
    BY <1>4, <2>2, Still
  <2>4. Calm(t)'
    BY <1>6, <2>1, <2>3 DEF Calm
  <2>5. /\ Known(a) /\ ChaptersShown(p, a)
        /\ how = "inserted" => OrderShown(p, a)
    <3>1. CASE t \in disturbed
      BY <1>5, <2>1, <3>1, NoneIs, NoneShown
    <3>2. CASE t \notin disturbed
      <4>1. /\ a \in Arrangements /\ Known(a) /\ Live(a) /\ Arrived(a)
            /\ how = "inserted" => RanksTo(a, Len(a)) /\ Ranked(a, Len(a))
        BY <1>1, <1>2, <1>4, <1>5, <2>1, <3>2, TabIs DEF TabInv, Calm
      <4> QED BY <1>1, <1>3, <2>1, <4>1, ListedAsDropped
    <3> QED BY <3>1, <3>2
  <2>6. Known(a)'
    BY <1>4, <2>5, Still
  <2> QED BY <1>6, <2>1, <2>3, <2>4, <2>5, <2>6 DEF TabInv
<1> QED BY <1>7, <1>8, <1>9, <1>10 DEF IInv

(* The button of an empty chapter is pressed.                              *)
LEMMA DeleteChapterKeeps ==
  ASSUME CurriculumAssumption, IInv, NEW t \in Tabs, deleteChapter(t)
  PROVE  IInv'
<1>1. Typed /\ Belongs /\ TabInv(t)
  BY DEF IInv
<1>2. PICK k, c :
        /\ k \in Places(page[t].groups)
        /\ c = page[t].groups[k].chapter
        /\ page[t].groups[k].items = <<>>
        /\ req' = [req EXCEPT ![t] =
             IF c \in There
             THEN [op |-> "delete", chapter |-> c, detached |-> FALSE,
                   contents |-> {i \in In(c) : Kind(i) = "content"}]
             ELSE [op |-> "list", ready |-> FALSE]]
  BY Zenon DEF deleteChapter
<1>3. /\ chapter' = chapter /\ item' = item /\ browser' = browser /\ page' = page
      /\ disturbed' = disturbed /\ req[t] = Idle /\ req[t].op = "idle"
      /\ calls < MaxCalls /\ calls' = calls + 1 /\ asked' = [asked EXCEPT ![t] = None]
  BY DEF deleteChapter, Called, Idle
<1>4. asked' \in [Tabs -> Arrangements] /\ asked'[t] = None
      /\ \A u \in Tabs \ {t} : asked'[u] = asked[u]
  BY <1>1, <1>3, NoneIs DEF Typed
<1>5. PICK r \in Sorts \cup Deletions \cup Listings \cup {Idle} :
        /\ req' = [req EXCEPT ![t] = r]
        /\ r.op \in {"delete", "list"}
        /\ r.op = "delete" => r.chapter = c /\ c \in There
  <2> DEFINE d == [op |-> "delete", chapter |-> c, detached |-> FALSE,
                   contents |-> {i \in In(c) : Kind(i) = "content"}]
             l == [op |-> "list", ready |-> FALSE]
  <2>1. c \in There => d \in Deletions
    BY DEF Deletions, There, In
  <2>2. d.op = "delete" /\ d.chapter = c /\ l.op = "list"
    OBVIOUS
  <2>3. l \in Listings
    BY DEF Listings
  <2>4. req' = [req EXCEPT ![t] = IF c \in There THEN d ELSE l]
    BY <1>2, Zenon
  <2> HIDE DEF d, l
  <2>5. CASE c \in There
    BY <2>1, <2>2, <2>4, <2>5
  <2>6. CASE c \notin There
    BY <2>2, <2>3, <2>4, <2>6
  <2> QED BY <2>5, <2>6
<1>6. /\ req' \in [Tabs -> Sorts \cup Deletions \cup Listings \cup {Idle}]
      /\ req'[t] = r
      /\ \A u \in Tabs \ {t} : req'[u] = req[u]
  BY <1>1, <1>5 DEF Typed
<1>7. Typed'
  <2>1. calls' \in 0 .. MaxCalls
    BY <1>1, <1>3 DEF Typed, CurriculumAssumption
  <2> QED BY <1>1, <1>3, <1>4, <1>6, <2>1 DEF Typed
<1>8. Belongs'
  BY <1>1, <1>3 DEF Belongs
<1>9. \A u \in Tabs \ {t} : TabInv(u)'
  BY <1>3, <1>4, <1>6, OthersStill
<1>10. TabInv(t)'
  <2>1. PICK p : p = page[t].groups /\ p = page'[t].groups
    BY <1>3
  <2>2. Known(p)'
    BY <1>1, <1>3, <2>1, Still DEF TabInv
  <2>3. ASSUME t \notin disturbed' PROVE Calm(t)'
    <3>1. Live(p) /\ EmptyShown(p)
      BY <1>1, <1>3, <2>1, <2>3 DEF TabInv, Calm
    <3>2. Live(p)' /\ EmptyShown(p)'
      BY <1>3, <3>1, Still
    <3>3. ASSUME r.op = "delete" PROVE In(r.chapter)' = {}
      <4>1. c # Unassigned /\ p[k].chapter = c /\ p[k].items = <<>> /\ k \in Places(p)
        BY <1>2, <1>5, <2>1, <3>3 DEF There, Chapters, Unassigned
      <4>2. In(c) = {}
        BY <3>1, <4>1 DEF EmptyShown
      <4>3. r.chapter = c
        BY <1>5, <3>3
      <4> QED BY <1>3, <4>2, <4>3 DEF In
    <3> QED BY <1>4, <1>5, <1>6, <2>1, <3>2, <3>3, NoneIs DEF Calm
  <2>4. Known(None)'
    BY NoneIs
  <2> QED BY <1>4, <1>5, <1>6, <2>1, <2>2, <2>3, <2>4 DEF TabInv
<1> QED BY <1>7, <1>8, <1>9, <1>10 DEF IInv

(* A sort that has nothing left to do in a group has numbered it.          *)
LEMMA Behind ==
  ASSUME CurriculumAssumption, NEW a \in Arrangements, NEW r, r.order \in Nat,
         r.order <= Len(a), r.todo = <<>>, Sorting(r, a)
  PROVE  Ranked(a, r.order)
<1>1. Len(a) \in Nat
  BY ArrangedIs
<1>2. ASSUME NEW g \in 1 .. r.order, Distinct(a[g].items)
      PROVE  Rising(a[g].items, Len(a[g].items))
  <2>0. r.order # 0 /\ g \in Places(a)
    BY <1>1 DEF Places
  <2>1. CASE g = r.order
    <3>1. Half(r, a[g].items)
      BY <1>2, <2>0, <2>1 DEF Sorting
    <3>2. PICK d \in 0 .. Len(a[g].items) :
            Len(r.todo) = Len(a[g].items) - d /\ Rising(a[g].items, d)
      BY <3>1 DEF Half
    <3>3. Len(a[g].items) \in Nat
      BY <2>0, ArrangedIs, LenProperties
    <3>4. Len(r.todo) = 0
      OBVIOUS
    <3>5. d = Len(a[g].items)
      BY <3>2, <3>3, <3>4
    <3> QED BY <3>2, <3>5
  <2>2. CASE g # r.order
    <3>1. g \in 1 .. r.order - 1
      BY <2>2
    <3>2. Ranked(a, r.order - 1)
      BY <2>0 DEF Sorting
    <3> QED BY <1>2, <3>1, <3>2 DEF Ranked
  <2> QED BY <2>1, <2>2
<1> QED BY <1>2 DEF Ranked

(* A sort is done: all that was dropped has arrived.                       *)
LEMMA SortReturnsKeeps ==
  ASSUME CurriculumAssumption, IInv, NEW t \in Tabs, sort_returns(t)
  PROVE  IInv'
<1>1. Typed /\ Belongs /\ TabInv(t)
  BY DEF IInv
<1>2. /\ req[t].op = "sort" /\ req[t].todo = <<>> /\ req[t].groups = <<>>
      /\ chapter' = chapter /\ item' = item /\ browser' = browser /\ page' = page
      /\ disturbed' = disturbed /\ asked' = asked /\ calls' = calls
      /\ req' = [req EXCEPT ![t] = [op |-> "list", ready |-> TRUE]]
  BY DEF sort_returns
<1>3. [op |-> "list", ready |-> TRUE] \in Listings
  BY DEF Listings
<1>4. /\ req' \in [Tabs -> Sorts \cup Deletions \cup Listings \cup {Idle}]
      /\ req'[t].op = "list"
      /\ \A u \in Tabs \ {t} : req'[u] = req[u]
  BY <1>1, <1>2, <1>3 DEF Typed
<1>5. Typed'
  BY <1>1, <1>2, <1>4 DEF Typed
<1>6. Belongs'
  BY <1>1, <1>2 DEF Belongs
<1>7. \A u \in Tabs \ {t} : TabInv(u)'
  BY <1>2, <1>4, OthersStill
<1>8. TabInv(t)'
  <2>1. PICK p, a, r, how : /\ p = page[t].groups /\ a = asked[t] /\ r = req[t]
                            /\ how = browser[t]
    OBVIOUS
  <2>2. p = page'[t].groups /\ a = asked'[t] /\ how = browser'[t]
    BY <1>2, <2>1
  <2>3. Known(p)' /\ Known(a)'
    BY <1>1, <1>2, <2>1, Still DEF TabInv
  <2>4. ASSUME t \notin disturbed' PROVE Calm(t)'
    <3>1. /\ Live(a) /\ Delivered(r, a)
          /\ how = "inserted" => Sorting(r, a)
      BY <1>1, <1>2, <2>1, <2>4 DEF TabInv, Calm
    <3>2. r.todo = <<>> /\ r.groups = <<>>
      BY <1>2, <2>1
    <3>3. Arrived(a)
      <4>1. \A i, c : ~Pending(r, i, c)
        BY <3>2 DEF Pending, Elements, Places
      <4> QED BY <3>1, <4>1 DEF Arrived, Delivered
    <3>4. ASSUME how = "inserted" PROVE RanksTo(a, Len(a)) /\ Ranked(a, Len(a))
      <4>1. a \in Arrangements /\ Len(a) \in Nat
        BY <1>1, <2>1, TabIs, LenProperties DEF Arrangements
      <4>2. r.order \in Nat
        BY <1>1, <1>2, <2>1, TabIs, RequestIs, ConstantsAre
      <4>3. Sorting(r, a)
        BY <3>1, <3>4
      <4>4. r.order = Len(a)
        <5>1. r.order + Len(r.groups) = Len(a) /\ Len(r.groups) = 0
          BY <3>2, <4>3 DEF Sorting
        <5> QED BY <4>2, <5>1
      <4>5. RanksTo(a, Len(a))
        BY <4>3, <4>4 DEF Sorting
      <4>6. Ranked(a, Len(a))
        BY <3>2, <4>1, <4>2, <4>3, <4>4, Behind
      <4> QED BY <4>5, <4>6
    <3>5. Live(a)' /\ Arrived(a)'
      BY <1>2, <3>1, <3>3, Still
    <3>6. how = "inserted" => RanksTo(a, Len(a))' /\ Ranked(a, Len(a))'
      BY <1>2, <3>4 DEF RanksTo, Numbered, Ranked, Rising
    <3> QED BY <1>4, <2>2, <3>5, <3>6 DEF Calm
  <2> QED BY <1>4, <2>2, <2>3, <2>4 DEF TabInv
<1> QED BY <1>5, <1>6, <1>7, <1>8 DEF IInv

(* A call failed: what was dropped is forgotten.                           *)
LEMMA CallFailsKeeps ==
  ASSUME CurriculumAssumption, IInv, NEW t \in Tabs, call_fails(t)
  PROVE  IInv'
<1>1. Typed /\ Belongs /\ TabInv(t)
  BY DEF IInv
<1>2. /\ chapter' = chapter /\ item' = item /\ browser' = browser /\ page' = page
      /\ disturbed' = disturbed /\ asked' = [asked EXCEPT ![t] = None] /\ calls' = calls
  BY DEF call_fails
<1>3. PICK r \in Listings : req' = [req EXCEPT ![t] = r]
  <2>1. req' = [req EXCEPT ![t] = [op |-> "list", ready |-> req[t].op = "sort"]]
    BY DEF call_fails
  <2>2. [op |-> "list", ready |-> TRUE] \in Listings /\ [op |-> "list", ready |-> FALSE] \in Listings
    BY DEF Listings
  <2>3. CASE req[t].op = "sort"
    <3>1. (req[t].op = "sort") = TRUE
      BY <2>3
    <3> QED BY <2>1, <2>2, <3>1, Zenon
  <2>4. CASE req[t].op # "sort"
    <3>1. (req[t].op = "sort") = FALSE
      BY <2>4
    <3> QED BY <2>1, <2>2, <3>1, Zenon
  <2> QED BY <2>3, <2>4
<1>4. r.op = "list"
  BY DEF Listings
<1>5. /\ req' \in [Tabs -> Sorts \cup Deletions \cup Listings \cup {Idle}]
      /\ req'[t].op = "list"
      /\ \A u \in Tabs \ {t} : req'[u] = req[u]
  BY <1>1, <1>3, <1>4 DEF Typed
<1>6. asked' \in [Tabs -> Arrangements] /\ asked'[t] = None
      /\ \A u \in Tabs \ {t} : asked'[u] = asked[u]
  BY <1>1, <1>2, NoneIs DEF Typed
<1>7. Typed'
  BY <1>1, <1>2, <1>5, <1>6 DEF Typed
<1>8. Belongs'
  BY <1>1, <1>2 DEF Belongs
<1>9. \A u \in Tabs \ {t} : TabInv(u)'
  BY <1>2, <1>5, <1>6, OthersStill
<1>10. TabInv(t)'
  <2>1. PICK p : p = page[t].groups /\ p = page'[t].groups
    BY <1>2
  <2>2. Known(p)' /\ Known(None)'
    BY <1>1, <1>2, <2>1, Still, NoneIs DEF TabInv
  <2>3. Calm(t)'
    BY <1>5, <1>6, NoneIs DEF Calm
  <2> QED BY <1>5, <1>6, <2>1, <2>2, <2>3 DEF TabInv
<1> QED BY <1>7, <1>8, <1>9, <1>10 DEF IInv

(* A call of nobody's: every tab is as good as it was.                     *)
LEMMA NobodysStep ==
  ASSUME CurriculumAssumption, IInv, Grows,
         page' = page, req' = req, asked' = asked, browser' = browser,
         disturbed' = Tabs \/ (disturbed' = disturbed /\ Gentle)
  PROVE  \A u \in Tabs : TabInv(u)'
<1> SUFFICES ASSUME NEW u \in Tabs PROVE TabInv(u)'
  OBVIOUS
<1>1. Typed /\ TabInv(u)
  BY DEF IInv
<1>2. u \notin disturbed' => u \notin disturbed /\ Gentle
  OBVIOUS
<1>3. page'[u] = page[u] /\ req'[u] = req[u] /\ asked'[u] = asked[u] /\ browser'[u] = browser[u]
  OBVIOUS
<1> QED BY <1>1, <1>2, <1>3, OtherTab

(* A new chapter is gentle.                                                *)
LEMMA AddChapterKeeps ==
  ASSUME CurriculumAssumption, IInv, NEW c \in Chapters, acl_addChapter(c)
  PROVE  IInv'
<1>1. Typed /\ Belongs
  BY DEF IInv
<1>2. /\ chapter[c].is = "none" /\ chapter' = [chapter EXCEPT ![c].is = "there"]
      /\ calls < MaxCalls /\ calls' = calls + 1 /\ item' = item /\ browser' = browser
      /\ page' = page /\ req' = req /\ asked' = asked /\ disturbed' = disturbed
  BY DEF acl_addChapter, Called
<1>3. chapter' \in [Chapters -> [is : {"none", "there", "gone"},
                                 priority : 0 .. MaxChapters + 1]]
  BY <1>1, <1>2 DEF Typed
<1>4. \A d \in Chapters : /\ chapter'[d].priority = chapter[d].priority
                          /\ chapter[d].is = "there" => chapter'[d].is = "there"
  BY <1>1, <1>2 DEF Typed
<1>5. Typed'
  BY <1>1, <1>2, <1>3 DEF Typed, CurriculumAssumption
<1>6. Belongs'
  BY <1>1, <1>2, <1>4, ItemIs DEF Belongs
<1>7. Gentle /\ Grows
  BY <1>2, <1>4 DEF Gentle, Grows
<1> QED BY <1>2, <1>5, <1>6, <1>7, NobodysStep DEF IInv

(* A client renumbers the chapters: that disturbs every tab.               *)
LEMMA UpdateOrderKeeps ==
  ASSUME CurriculumAssumption, IInv, NEW cs, acl_updateChapterOrder(cs)
  PROVE  IInv'
<1>1. Typed /\ Belongs
  BY DEF IInv
<1> DEFINE found == {c \in There : \E k \in DOMAIN cs : cs[k] = c}
           n(c) == Cardinality({d \in found : d = c \/ Before(cs, d, c)})
<1>2. /\ chapter' = [c \in Chapters |->
            IF c \in found THEN [chapter[c] EXCEPT !.priority = n(c)] ELSE chapter[c]]
      /\ calls < MaxCalls /\ calls' = calls + 1 /\ item' = item /\ browser' = browser
      /\ page' = page /\ req' = req /\ asked' = asked /\ disturbed' = Tabs
  BY Zenon DEF acl_updateChapterOrder, Called
<1>3. \A c : n(c) \in 0 .. MaxChapters + 1
  <2> TAKE c
  <2> DEFINE D == {d \in found : d = c \/ Before(cs, d, c)}
  <2>1. D \in SUBSET Chapters
    BY DEF There
  <2> HIDE DEF D
  <2>2. IsFiniteSet(D) /\ Cardinality(D) <= Cardinality(Chapters)
    BY <2>1, ConstantsAre, FS_Subset
  <2>3. Cardinality(D) \in Nat
    BY <2>2, FS_CardinalityType
  <2>4. Cardinality(D) \in 0 .. MaxChapters + 1
    BY <2>2, <2>3, ConstantsAre
  <2> QED BY <2>4 DEF D
<1> HIDE DEF found, n
<1>4. ASSUME NEW c \in Chapters
      PROVE  /\ chapter'[c] \in [is : {"none", "there", "gone"}, priority : 0 .. MaxChapters + 1]
             /\ chapter'[c].is = chapter[c].is
  <2>1. chapter[c] \in [is : {"none", "there", "gone"}, priority : 0 .. MaxChapters + 1]
    BY <1>1 DEF Typed
  <2>2. chapter'[c] = IF c \in found THEN [chapter[c] EXCEPT !.priority = n(c)] ELSE chapter[c]
    BY <1>2, Zenon
  <2> QED BY <1>3, <2>1, <2>2
<1>5. chapter' \in [Chapters -> [is : {"none", "there", "gone"},
                                 priority : 0 .. MaxChapters + 1]]
  <2>1. DOMAIN chapter' = Chapters /\ chapter' = [c \in Chapters |-> chapter'[c]]
    BY <1>2, Zenon
  <2> QED BY <1>4, <2>1, Zenon
<1>6. calls' \in 0 .. MaxCalls
  BY <1>1, <1>2 DEF Typed, CurriculumAssumption
<1>7. Typed'
  BY <1>1, <1>2, <1>5, <1>6, Zenon DEF Typed
<1>8. Belongs'
  BY <1>1, <1>2, <1>4, ItemIs DEF Belongs
<1>9. Grows
  BY <1>2 DEF Grows
<1> QED BY <1>2, <1>7, <1>8, <1>9, NobodysStep DEF IInv

(* A new item is gentle ...                                                *)
LEMMA AddItemKeeps ==
  ASSUME CurriculumAssumption, IInv, NEW i \in Items, addItem(i)
  PROVE  IInv'
<1>1. Typed /\ Belongs
  BY DEF IInv
<1>2. /\ item[i].is = "none" /\ item' = [item EXCEPT ![i].is = "there"]
      /\ calls < MaxCalls /\ calls' = calls + 1 /\ chapter' = chapter /\ browser' = browser
      /\ page' = page /\ req' = req /\ asked' = asked /\ disturbed' = disturbed
  BY DEF addItem, Called
<1>3. item' \in [Items -> [is : {"none", "there", "gone"},
                           chapter : Chapters \cup {Unassigned},
                           order : 0 .. Cardinality(Items)]]
  BY <1>1, <1>2 DEF Typed
<1>4. /\ item'[i].is = "there" /\ item'[i].chapter = Unassigned
      /\ \A j \in Items \ {i} : item'[j] = item[j]
  <2>1. /\ item'[i].is = "there" /\ item'[i].chapter = item[i].chapter
        /\ \A j \in Items \ {i} : item'[j] = item[j]
    BY <1>1, <1>2 DEF Typed
  <2>2. item[i].chapter = Unassigned
    BY <1>1, <1>2 DEF Belongs
  <2> QED BY <2>1, <2>2
<1>5. Typed'
  BY <1>1, <1>2, <1>3 DEF Typed, CurriculumAssumption
<1>6. Belongs'
  BY <1>1, <1>2, <1>4 DEF Belongs
<1>7. Gentle /\ Grows
  BY <1>2, <1>4 DEF Gentle, Grows
<1> QED BY <1>2, <1>5, <1>6, <1>7, NobodysStep DEF IInv

(* ... and so is the removal of one.                                       *)
LEMMA RemoveItemKeeps ==
  ASSUME CurriculumAssumption, IInv, NEW i \in Items, removeItem(i)
  PROVE  IInv'
<1>1. Typed /\ Belongs
  BY DEF IInv
<1>2. /\ item[i].is = "there"
      /\ item' = [item EXCEPT ![i] = [is |-> "gone", chapter |-> Unassigned, order |-> 0]]
      /\ calls < MaxCalls /\ calls' = calls + 1 /\ chapter' = chapter /\ browser' = browser
      /\ page' = page /\ req' = req /\ asked' = asked /\ disturbed' = disturbed
  BY DEF removeItem, Called
<1>3. item' \in [Items -> [is : {"none", "there", "gone"},
                           chapter : Chapters \cup {Unassigned},
                           order : 0 .. Cardinality(Items)]]
  BY <1>1, <1>2, ConstantsAre DEF Typed
<1>4. /\ item'[i].is = "gone" /\ item'[i].chapter = Unassigned
      /\ \A j \in Items \ {i} : item'[j] = item[j]
  BY <1>1, <1>2 DEF Typed
<1>5. Typed'
  BY <1>1, <1>2, <1>3 DEF Typed, CurriculumAssumption
<1>6. Belongs'
  BY <1>1, <1>2, <1>4 DEF Belongs
<1>7. Gentle /\ Grows
  BY <1>2, <1>4 DEF Gentle, Grows
<1> QED BY <1>2, <1>5, <1>6, <1>7, NobodysStep DEF IInv

(* The request of a deletion, once the contents were detached.             *)
LEMMA DetachedIs ==
  ASSUME NEW r \in Deletions
  PROVE  /\ [r EXCEPT !.detached = TRUE] \in Deletions
         /\ [r EXCEPT !.detached = TRUE].op = "delete"
         /\ [r EXCEPT !.detached = TRUE].chapter = r.chapter
BY DEF Deletions

(* Detaching the contents of a chapter disturbs the other tabs only, and   *)
(* on this one the chapter is empty.                                       *)
LEMMA DetachKeeps ==
  ASSUME CurriculumAssumption, IInv, NEW t \in Tabs, deleteChapter_detach(t)
  PROVE  IInv'
<1>1. Typed /\ Belongs /\ TabInv(t)
  BY DEF IInv
<1>2. /\ req[t].op = "delete" /\ req' = [req EXCEPT ![t].detached = TRUE]
      /\ item' = [i \in Items |->
           IF i \in req[t].contents /\ item[i].is = "there"
           THEN [item[i] EXCEPT !.chapter = Unassigned] ELSE item[i]]
      /\ chapter' = chapter /\ browser' = browser /\ page' = page /\ calls' = calls
      /\ asked' = asked
      /\ \/ item' = item /\ disturbed' = disturbed
         \/ disturbed' = disturbed \cup (Tabs \ {t})
  BY Zenon DEF deleteChapter_detach, DisturbedBy
<1>3. req[t] \in Deletions
  <2>1. req[t] \in Sorts \cup Deletions \cup Listings \cup {Idle}
    BY <1>1, TabIs
  <2> QED BY <1>2, <2>1 DEF Sorts, Listings, Idle
<1>4. /\ req' \in [Tabs -> Sorts \cup Deletions \cup Listings \cup {Idle}]
      /\ req'[t].op = "delete" /\ req'[t].chapter = req[t].chapter
      /\ \A u \in Tabs \ {t} : req'[u] = req[u]
  <2>1. PICK r : r = [req[t] EXCEPT !.detached = TRUE]
    OBVIOUS
  <2>2. r \in Deletions /\ r.op = "delete" /\ r.chapter = req[t].chapter
    BY <1>3, <2>1, DetachedIs, Zenon
  <2>3. req' = [req EXCEPT ![t] = r]
    BY <1>2, <2>1
  <2>4. req \in [Tabs -> Sorts \cup Deletions \cup Listings \cup {Idle}]
    BY <1>1 DEF Typed
  <2> QED BY <2>2, <2>3, <2>4
<1>5. ASSUME NEW i \in Items
      PROVE  /\ item'[i] \in [is : {"none", "there", "gone"},
                              chapter : Chapters \cup {Unassigned},
                              order : 0 .. Cardinality(Items)]
             /\ item'[i].is = item[i].is
             /\ item'[i].chapter = item[i].chapter \/ item'[i].chapter = Unassigned
  <2>1. item[i] \in [is : {"none", "there", "gone"}, chapter : Chapters \cup {Unassigned},
                     order : 0 .. Cardinality(Items)]
    BY <1>1 DEF Typed
  <2>2. item'[i] = IF i \in req[t].contents /\ item[i].is = "there"
                   THEN [item[i] EXCEPT !.chapter = Unassigned] ELSE item[i]
    BY <1>2, Zenon
  <2> QED BY <2>1, <2>2
<1>6. item' \in [Items -> [is : {"none", "there", "gone"},
                           chapter : Chapters \cup {Unassigned},
                           order : 0 .. Cardinality(Items)]]
  <2>1. item' = [i \in Items |-> item'[i]]
    BY <1>2, Zenon
  <2> QED BY <1>5, <2>1, Zenon
<1>7. Typed'
  <2>1. disturbed' \subseteq Tabs
    BY <1>1, <1>2 DEF Typed
  <2> QED BY <1>1, <1>2, <1>4, <1>6, <2>1, Zenon DEF Typed
<1>8. Belongs'
  BY <1>1, <1>2, <1>5 DEF Belongs
<1>9. Grows
  BY <1>5 DEF Grows
<1>10. \A c : c # Unassigned /\ In(c) = {} => In(c)' = {}
  BY <1>5 DEF In
<1>11. ASSUME NEW u \in Tabs \ {t} PROVE TabInv(u)'
  <2>1. u \notin disturbed' => u \notin disturbed /\ Gentle
    BY <1>2, Still
  <2>2. /\ page'[u] = page[u] /\ req'[u] = req[u] /\ asked'[u] = asked[u]
        /\ browser'[u] = browser[u] /\ TabInv(u) /\ u \in Tabs
    BY <1>2, <1>4 DEF IInv
  <2> QED BY <1>1, <1>9, <2>1, <2>2, OtherTab
<1>12. TabInv(t)'
  <2>1. PICK p, c : p = page[t].groups /\ c = req[t].chapter
    OBVIOUS
  <2>2. p = page'[t].groups /\ c = req'[t].chapter /\ asked'[t] = asked[t]
    BY <1>2, <1>4, <2>1
  <2>3. p \in Arrangements /\ Known(p) /\ asked[t] = None
    BY <1>1, <1>2, <2>1, TabIs DEF TabInv
  <2>4. Known(p)'
    BY <1>9, <2>3, KnownKept
  <2>5. ASSUME t \notin disturbed' PROVE Calm(t)'
    <3>1. t \notin disturbed
      BY <1>2, <2>5
    <3>2. Live(p) /\ EmptyShown(p) /\ In(c) = {}
      BY <1>1, <1>2, <2>1, <3>1 DEF TabInv, Calm
    <3>3. Live(p)'
      BY <1>2, <3>2 DEF Live, There
    <3>4. EmptyShown(p)'
      BY <1>10, <3>2 DEF EmptyShown
    <3>5. c # Unassigned
      BY <1>3, <2>1 DEF Deletions, Chapters, Unassigned
    <3>6. In(c)' = {}
      BY <1>10, <3>2, <3>5
    <3> QED BY <1>4, <2>2, <3>3, <3>4, <3>6 DEF Calm
  <2> QED BY <1>4, <2>2, <2>3, <2>4, <2>5, NoneIs DEF TabInv
<1> QED BY <1>7, <1>8, <1>11, <1>12 DEF IInv

(* Removing a chapter disturbs the other tabs only.                        *)
LEMMA RemoveKeeps ==
  ASSUME CurriculumAssumption, IInv, NEW t \in Tabs, deleteChapter_remove(t)
  PROVE  IInv'
<1>1. Typed /\ Belongs /\ TabInv(t)
  BY DEF IInv
<1>2. PICK c : /\ c = req[t].chapter /\ In(c) = {}
               /\ chapter' = [chapter EXCEPT ![c] = [is |-> "gone", priority |-> 0]]
  BY DEF deleteChapter_remove
<1>3. /\ req[t].op = "delete"
      /\ req' = [req EXCEPT ![t] = [op |-> "list", ready |-> FALSE]]
      /\ disturbed' = disturbed \cup (Tabs \ {t})
      /\ item' = item /\ browser' = browser /\ page' = page /\ calls' = calls
      /\ asked' = asked
  BY DEF deleteChapter_remove, DisturbedBy
<1>4. [op |-> "list", ready |-> FALSE] \in Listings
  BY DEF Listings
<1>5. /\ req' \in [Tabs -> Sorts \cup Deletions \cup Listings \cup {Idle}]
      /\ req'[t].op = "list"
      /\ \A u \in Tabs \ {t} : req'[u] = req[u]
  BY <1>1, <1>3, <1>4 DEF Typed
<1>6. c \in Chapters
  BY <1>1, <1>2, <1>3, TabIs, RequestIs
<1>7. chapter' \in [Chapters -> [is : {"none", "there", "gone"},
                                 priority : 0 .. MaxChapters + 1]]
      /\ \A d \in Chapters \ {c} : chapter'[d] = chapter[d]
  <2>1. [is |-> "gone", priority |-> 0] \in [is : {"none", "there", "gone"},
                                            priority : 0 .. MaxChapters + 1]
    BY ConstantsAre
  <2> QED BY <1>1, <1>2, <2>1 DEF Typed
<1>8. Typed'
  BY <1>1, <1>3, <1>5, <1>7 DEF Typed
<1>9. Belongs'
  <2> SUFFICES ASSUME NEW i \in Items, item[i].chapter # Unassigned
               PROVE  item[i].is = "there" /\ chapter'[item[i].chapter].is = "there"
    BY <1>3 DEF Belongs
  <2>1. item[i].is = "there" /\ chapter[item[i].chapter].is = "there"
    BY <1>1 DEF Belongs
  <2>2. item[i].chapter \in Chapters /\ item[i].chapter # c
    BY <1>1, <1>2, <2>1, ItemIs DEF In
  <2> QED BY <1>7, <2>1, <2>2
<1>10. Grows
  BY <1>3 DEF Grows
<1>11. ASSUME NEW u \in Tabs \ {t} PROVE TabInv(u)'
  <2>1. /\ page'[u] = page[u] /\ req'[u] = req[u] /\ asked'[u] = asked[u]
        /\ browser'[u] = browser[u] /\ TabInv(u) /\ u \in Tabs /\ u \in disturbed'
    BY <1>3, <1>5 DEF IInv
  <2> QED BY <1>1, <1>10, <2>1, OtherTab
<1>12. TabInv(t)'
  <2>1. PICK p : p = page[t].groups /\ p = page'[t].groups
    BY <1>3
  <2>2. p \in Arrangements /\ Known(p) /\ asked'[t] = None
    BY <1>1, <1>3, <2>1, TabIs DEF TabInv
  <2>3. Known(p)'
    BY <1>10, <2>2, KnownKept
  <2>4. Calm(t)'
    BY <1>5, <2>2, NoneIs DEF Calm
  <2> QED BY <1>5, <2>1, <2>2, <2>3, <2>4, NoneIs DEF TabInv
<1> QED BY <1>8, <1>9, <1>11, <1>12 DEF IInv

(* A drop is sent: all of it is pending.                                   *)
LEMMA SubmitKeeps ==
  ASSUME CurriculumAssumption, IInv, NEW t \in Tabs, submitSort(t)
  PROVE  IInv'
<1>1. Typed /\ Belongs /\ TabInv(t)
  BY DEF IInv
<1>2. PICK p, how : p = page[t].groups /\ how = browser[t]
  OBVIOUS
<1>3. PICK a, r :
        /\ a \in ItemDrops(p) \cup ChapterDrops(p)
        /\ page' = [page EXCEPT ![t].groups = a]
        /\ asked' = [asked EXCEPT ![t] = a]
        /\ r = [op |-> "sort", groups |-> getContentArr(a, how), order |-> 0,
                todo |-> <<>>, chapter |-> Unassigned, count |-> 0]
        /\ req' = [req EXCEPT ![t] = r]
  BY <1>2, Zenon DEF submitSort, SortRequest
<1>4. /\ chapter' = chapter /\ item' = item /\ browser' = browser /\ disturbed' = disturbed
      /\ req[t] = Idle /\ req[t].op = "idle" /\ calls < MaxCalls /\ calls' = calls + 1
  BY DEF submitSort, Called, Idle
<1>5. p \in Arrangements /\ a \in Arrangements /\ Within(a, p)
  BY <1>1, <1>2, <1>3, TabIs, DropIs
<1>6. /\ getContentArr(a, how) \in Seq(Groups)
      /\ Len(getContentArr(a, how)) <= MaxChapters + 1
      /\ \A h \in Places(getContentArr(a, how)) :
           \E g \in Places(a) : getContentArr(a, how)[h] = Entries(a[g], how)
      /\ \A g \in Places(a) :
           \E h \in Places(getContentArr(a, how)) :
             getContentArr(a, how)[h] = Entries(a[g], how)
      /\ how # "ascending" =>
           /\ Len(getContentArr(a, how)) = Len(a)
           /\ \A g \in Places(a) : getContentArr(a, how)[g] = Entries(a[g], how)
  BY <1>5, ContentArrIs, Zenon
<1>7. /\ r.op = "sort" /\ r.groups = getContentArr(a, how) /\ r.order = 0
      /\ r.todo = <<>> /\ r.chapter = Unassigned /\ r.count = 0
  BY <1>3
<1>8. r \in Sorts
  <2>1. <<>> \in Bounded(Items)
    <3>1. <<>> \in Seq(Items) /\ Len(<<>>) <= Cardinality(Items)
      BY ConstantsAre
    <3> QED BY <3>1, ConstantsAre, BoundedIs
  <2>2. 0 \in 0 .. MaxChapters + 1 /\ 0 \in 0 .. Cardinality(Items)
    BY ConstantsAre
  <2> QED BY <1>3, <1>6, <2>1, <2>2 DEF Sorts
<1>9. /\ req' \in [Tabs -> Sorts \cup Deletions \cup Listings \cup {Idle}]
      /\ req'[t] = r /\ \A u \in Tabs \ {t} : req'[u] = req[u]
  BY <1>1, <1>3, <1>8 DEF Typed
<1>10. /\ asked' \in [Tabs -> Arrangements]
       /\ asked'[t] = a /\ \A u \in Tabs \ {t} : asked'[u] = asked[u]
  BY <1>1, <1>3, <1>5 DEF Typed
<1>11. /\ page' \in [Tabs -> [groups : Arrangements, ready : BOOLEAN]]
       /\ page'[t].groups = a /\ \A u \in Tabs \ {t} : page'[u] = page[u]
  BY <1>1, <1>3, <1>5 DEF Typed
<1>12. Typed'
  BY <1>1, <1>4, <1>9, <1>10, <1>11 DEF Typed, CurriculumAssumption
<1>13. Belongs'
  BY <1>1, <1>4 DEF Belongs
<1>14. \A u \in Tabs \ {t} : TabInv(u)'
  BY <1>4, <1>9, <1>10, <1>11, OthersStill
<1>15. Known(a)
  BY <1>1, <1>2, <1>5 DEF TabInv, Known, Within
<1>16. Known(a)'
  BY <1>4, <1>15, Still
<1>17. Bounds(r)
  <2>1. Len(r.groups) \in Nat /\ Len(r.todo) = 0
    BY <1>6, <1>7, LenProperties
  <2> QED BY <1>6, <1>7, <2>1, ConstantsAre DEF Bounds
<1>18. ASSUME NEW g \in Places(a)
       PROVE  /\ Entries(a[g], how).chapter = a[g].chapter
              /\ Elements(Entries(a[g], how).items) \subseteq Elements(a[g].items)
              /\ \A k \in Places(a[g].items) :
                   Overwritten(a[g].items, k) \/ a[g].items[k] \in Elements(Entries(a[g], how).items)
              /\ how # "ascending" /\ Distinct(a[g].items) => Entries(a[g], how).items = a[g].items
  <2>1. a[g] \in Blocks
    BY <1>5, ArrangedIs
  <2> QED BY <2>1, EntriesIs
<1>19. ASSUME t \notin disturbed' PROVE Calm(t)'
  <2>1. Live(a)'
    <3>1. Live(p)
      BY <1>1, <1>2, <1>4, <1>19 DEF TabInv, Calm
    <3>2. Live(a)
      <4> SUFFICES ASSUME NEW g \in Places(a) PROVE a[g].chapter \in There \cup {Unassigned}
        BY DEF Live
      <4>1. PICK h \in Places(p) : a[g].chapter = p[h].chapter
        BY <1>5 DEF Within
      <4> QED BY <3>1, <4>1 DEF Live
    <3> QED BY <1>4, <3>2, Still
  <2>2. Sent(r, a)
    <3>1. ASSUME NEW h \in Places(r.groups)
          PROVE  \E g \in Places(a) :
                   /\ a[g].chapter = r.groups[h].chapter
                   /\ Elements(r.groups[h].items) \subseteq Elements(a[g].items)
      <4>1. PICK g \in Places(a) : r.groups[h] = Entries(a[g], how)
        BY <1>6, <1>7
      <4> QED BY <1>18, <4>1
    <3> QED BY <1>7, <3>1 DEF Sent
  <2>3. Delivered(r, a)'
    <3>1. ASSUME NEW g \in Places(a), NEW k \in Places(a[g].items), ~Overwritten(a[g].items, k)
          PROVE  Pending(r, a[g].items[k], a[g].chapter)
      <4>1. PICK h \in Places(r.groups) : r.groups[h] = Entries(a[g], how)
        BY <1>6, <1>7
      <4> QED BY <1>18, <3>1, <4>1 DEF Pending
    <3> QED BY <3>1 DEF Delivered
  <2>4. how = "inserted" => Sorting(r, a)'
    <3> SUFFICES ASSUME how = "inserted" PROVE Sorting(r, a)'
      OBVIOUS
    <3>1. how # "ascending"
      OBVIOUS
    <3>2. /\ Len(r.groups) = Len(a) /\ Len(a) \in Nat
          /\ \A g \in Places(a) : r.groups[g] = Entries(a[g], how)
      BY <1>5, <1>6, <1>7, <3>1, ArrangedIs
    <3>3. \A g \in Places(a) : 0 + g = g
      BY <3>2 DEF Places
    <3>4. ASSUME NEW m \in Places(r.groups)
          PROVE  /\ r.groups[m].chapter = a[0 + m].chapter
                 /\ Distinct(a[0 + m].items) => r.groups[m].items = a[0 + m].items
      <4>1. m \in Places(a) /\ 0 + m = m
        BY <3>2, <3>3 DEF Places
      <4> QED BY <1>18, <3>1, <3>2, <4>1
    <3>5. RanksTo(a, 0)'
      BY DEF RanksTo
    <3> QED BY <1>7, <3>2, <3>4, <3>5 DEF Sorting
  <2>5. how = browser'[t] /\ r.op = "sort"
    BY <1>2, <1>4, <1>7
  <2> QED BY <1>9, <1>10, <2>1, <2>2, <2>3, <2>4, <2>5 DEF Calm
<1> QED
  <2>1. TabInv(t)'
    BY <1>7, <1>9, <1>10, <1>11, <1>16, <1>17, <1>19 DEF TabInv
  <2> QED BY <1>12, <1>13, <1>14, <2>1 DEF IInv

(* A sort comes to its next group: the chapter gets its number, and the    *)
(* items are to do.                                                        *)
LEMMA SortChapterKeeps ==
  ASSUME CurriculumAssumption, IInv, NEW t \in Tabs, sort_chapter(t)
  PROVE  IInv'
<1>1. Typed /\ Belongs /\ TabInv(t)
  BY DEF IInv
<1>2. PICK r, g, n, c :
        /\ r = req[t] /\ g = Head(r.groups) /\ n = r.order + 1
        /\ c = IF g.chapter \in There THEN g.chapter ELSE Unassigned
  OBVIOUS
<1>3. /\ r.op = "sort" /\ r.todo = <<>> /\ r.groups # <<>>
      /\ IF g.chapter \in There /\ chapter[g.chapter].priority # n
         THEN chapter' = [chapter EXCEPT ![g.chapter].priority = n]
              /\ disturbed' = disturbed \cup (Tabs \ {t})
         ELSE chapter' = chapter /\ disturbed' = disturbed
      /\ item' = item /\ browser' = browser /\ page' = page /\ calls' = calls
      /\ asked' = asked
  BY <1>2 DEF sort_chapter, DisturbedBy
<1>4. PICK q : /\ q = SortRequest(Tail(r.groups), n, g.items, c, 0)
               /\ req' = [req EXCEPT ![t] = q]
  BY <1>2 DEF sort_chapter
<1>5. r \in Sorts
  <2>1. r \in Sorts \cup Deletions \cup Listings \cup {Idle}
    BY <1>1, <1>2, TabIs
  <2> QED BY <1>3, <2>1 DEF Deletions, Listings, Idle
<1>6. /\ r.groups \in Seq(Groups) /\ r.order \in 0 .. MaxChapters + 1 /\ r.order \in Nat
      /\ MaxChapters \in Nat /\ Cardinality(Items) \in Nat
  BY <1>5, ConstantsAre DEF Sorts
<1>7. /\ g = r.groups[1] /\ g \in Groups /\ 1 \in Places(r.groups)
      /\ Tail(r.groups) \in Seq(Groups) /\ Len(r.groups) \in Nat
      /\ Len(Tail(r.groups)) = Len(r.groups) - 1
      /\ \A m \in Places(Tail(r.groups)) :
           m + 1 \in Places(r.groups) /\ Tail(r.groups)[m] = r.groups[m + 1]
      /\ \A m \in Places(r.groups) :
           m # 1 => m - 1 \in Places(Tail(r.groups)) /\ Tail(r.groups)[m - 1] = r.groups[m]
  BY <1>2, <1>3, <1>6, HeadTailIs
<1>8. /\ g.chapter \in Chapters \cup {Unassigned} /\ g.items \in Bounded(Items)
      /\ g.items \in Seq(Items) /\ Len(g.items) \in Nat /\ Len(g.items) <= Cardinality(Items)
  <2>1. g.chapter \in Chapters \cup {Unassigned} /\ g.items \in Bounded(Items)
    BY <1>7 DEF Groups
  <2> QED BY <2>1, ConstantsAre, BoundedIs, LenProperties
<1>9. r.order + Len(r.groups) <= MaxChapters + 1
  BY <1>1, <1>2, <1>3 DEF TabInv, Bounds
<1>10. n \in 1 .. MaxChapters + 1 /\ n \in Nat /\ n = r.order + 1
  <2>1. Len(r.groups) >= 1
    BY <1>7 DEF Places
  <2> QED BY <1>2, <1>6, <1>7, <1>9, <2>1
<1>11. c \in Chapters \cup {Unassigned} /\ (g.chapter \in There \cup {Unassigned} => c = g.chapter)
  BY <1>2, <1>8 DEF There
<1>12. /\ q \in Sorts /\ q.op = "sort" /\ q.groups = Tail(r.groups) /\ q.order = n
       /\ q.todo = g.items /\ q.count = 0 /\ q.chapter = c
  <2>1. 0 \in 0 .. Cardinality(Items) /\ n \in 0 .. MaxChapters + 1
    BY <1>6, <1>10
  <2>2. Tail(r.groups) \in Seq(Groups) /\ g.items \in Bounded(Items)
    BY <1>7, <1>8
  <2>3. PICK gs, todo : gs = Tail(r.groups) /\ todo = g.items
    OBVIOUS
  <2>4. /\ gs \in Seq(Groups) /\ todo \in Bounded(Items) /\ c \in Chapters \cup {Unassigned}
        /\ q = SortRequest(gs, n, todo, c, 0)
    BY <1>4, <1>11, <2>2, <2>3
  <2>5. /\ q \in Sorts /\ q.op = "sort" /\ q.groups = gs /\ q.order = n
        /\ q.todo = todo /\ q.count = 0 /\ q.chapter = c
    BY <2>1, <2>4 DEF SortRequest, Sorts
  <2> QED BY <2>3, <2>5
<1>13. /\ req' \in [Tabs -> Sorts \cup Deletions \cup Listings \cup {Idle}]
       /\ req'[t] = q /\ \A u \in Tabs \ {t} : req'[u] = req[u]
  BY <1>1, <1>4, <1>12 DEF Typed
<1>14. /\ chapter' \in [Chapters -> [is : {"none", "there", "gone"},
                                     priority : 0 .. MaxChapters + 1]]
       /\ \A d \in Chapters : /\ chapter'[d].is = chapter[d].is
                              /\ d # g.chapter => chapter'[d].priority = chapter[d].priority
       /\ g.chapter \in There => chapter'[g.chapter].priority = n
  <2>1. CASE g.chapter \in There /\ chapter[g.chapter].priority # n
    <3>1. g.chapter \in Chapters /\ n \in 0 .. MaxChapters + 1
      BY <1>10, <2>1 DEF There
    <3>2. chapter' = [chapter EXCEPT ![g.chapter].priority = n]
      BY <1>3, <2>1
    <3> QED BY <1>1, <3>1, <3>2 DEF Typed
  <2>2. CASE ~(g.chapter \in There /\ chapter[g.chapter].priority # n)
    BY <1>1, <1>3, <2>2 DEF Typed
  <2> QED BY <2>1, <2>2
<1>15. disturbed' \subseteq Tabs /\ (t \in disturbed' <=> t \in disturbed)
  BY <1>1, <1>3 DEF Typed
<1>16. Typed'
  BY <1>1, <1>3, <1>13, <1>14, <1>15 DEF Typed
<1>17. Belongs'
  BY <1>1, <1>3, <1>14, ItemIs DEF Belongs
<1>18. Grows
  BY <1>3 DEF Grows
<1>19. ASSUME NEW u \in Tabs \ {t} PROVE TabInv(u)'
  <2>1. u \notin disturbed' => u \notin disturbed /\ Gentle
    BY <1>3, Still
  <2>2. /\ page'[u] = page[u] /\ req'[u] = req[u] /\ asked'[u] = asked[u]
        /\ browser'[u] = browser[u] /\ TabInv(u) /\ u \in Tabs
    BY <1>3, <1>13 DEF IInv
  <2> QED BY <1>1, <1>18, <2>1, <2>2, OtherTab
<1>20. PICK p, a, how : /\ p = page[t].groups /\ a = asked[t] /\ how = browser[t]
                        /\ p = page'[t].groups /\ a = asked'[t] /\ how = browser'[t]
  BY <1>3
<1>21. p \in Arrangements /\ a \in Arrangements /\ Known(p)' /\ Known(a)'
  BY <1>1, <1>18, <1>20, TabIs, KnownKept DEF TabInv
<1>22. Bounds(q)
  <2>1. n + Len(Tail(r.groups)) <= MaxChapters + 1
    BY <1>6, <1>7, <1>9, <1>10
  <2>2. 0 + Len(g.items) <= Cardinality(Items)
    BY <1>8
  <2> QED BY <1>12, <2>1, <2>2 DEF Bounds
<1>23. ASSUME t \notin disturbed' PROVE Calm(t)'
  <2>1. /\ Live(a) /\ Sent(r, a) /\ Delivered(r, a)
        /\ how = "inserted" => Sorting(r, a)
    BY <1>1, <1>2, <1>3, <1>15, <1>20, <1>23 DEF TabInv, Calm
  <2>2. Live(a)'
    BY <1>14, <2>1 DEF Live, There
  <2>3. PICK f \in Places(a) : /\ a[f].chapter = g.chapter
                               /\ Elements(g.items) \subseteq Elements(a[f].items)
    BY <1>7, <2>1 DEF Sent
  <2>4. c = g.chapter /\ g.chapter \in There \cup {Unassigned}
    BY <1>11, <2>1, <2>3 DEF Live
  <2>5. Sent(q, a)
    <3>1. ASSUME NEW h \in Places(q.groups)
          PROVE  \E e \in Places(a) :
                   /\ a[e].chapter = q.groups[h].chapter
                   /\ Elements(q.groups[h].items) \subseteq Elements(a[e].items)
      <4>1. h + 1 \in Places(r.groups) /\ q.groups[h] = r.groups[h + 1]
        BY <1>7, <1>12
      <4> QED BY <2>1, <4>1 DEF Sent
    <3> QED BY <1>12, <2>3, <2>4, <3>1 DEF Sent
  <2>6. Delivered(q, a)'
    <3>1. ASSUME NEW i, NEW d, Pending(r, i, d) PROVE Pending(q, i, d)
      <4>1. Elements(r.todo) = {}
        BY <1>3 DEF Elements, Places
      <4>2. PICK h \in Places(r.groups) :
              r.groups[h].chapter = d /\ i \in Elements(r.groups[h].items)
        BY <3>1, <4>1 DEF Pending
      <4>3. CASE h = 1
        BY <1>7, <1>12, <2>4, <4>2, <4>3 DEF Pending
      <4>4. CASE h # 1
        <5>1. h - 1 \in Places(q.groups) /\ q.groups[h - 1] = r.groups[h]
          BY <1>7, <1>12, <4>4
        <5> QED BY <4>2, <5>1 DEF Pending
      <4> QED BY <4>3, <4>4
    <3>2. \A i, d : Settled(i, d) => Settled(i, d)'
      BY <1>3 DEF Settled
    <3> QED BY <2>1, <3>1, <3>2 DEF Delivered
  <2>7. ASSUME how = "inserted" PROVE Sorting(q, a)'
    <3>1. Sorting(r, a) /\ Len(a) \in Nat /\ Once(a)
      BY <1>21, <2>1, <2>7, ArrangedIs
    <3>2. /\ r.order + Len(r.groups) = Len(a)
          /\ \A m \in Places(r.groups) :
               /\ r.groups[m].chapter = a[r.order + m].chapter
               /\ Distinct(a[r.order + m].items) => r.groups[m].items = a[r.order + m].items
          /\ RanksTo(a, r.order)
      BY <3>1 DEF Sorting
    <3>3. n + Len(q.groups) = Len(a) /\ n \in 1 .. Len(a) /\ r.order <= Len(a)
      <4>1. Len(r.groups) >= 1
        BY <1>7 DEF Places
      <4>2. Len(q.groups) = Len(r.groups) - 1
        BY <1>7, <1>12
      <4> QED BY <1>6, <1>7, <1>10, <3>1, <3>2, <4>1, <4>2
    <3>4. ASSUME NEW m \in Places(q.groups)
          PROVE  /\ q.groups[m].chapter = a[n + m].chapter
                 /\ Distinct(a[n + m].items) => q.groups[m].items = a[n + m].items
      <4>1. m + 1 \in Places(r.groups) /\ q.groups[m] = r.groups[m + 1]
        BY <1>7, <1>12
      <4>2. r.order + (m + 1) = n + m
        <5>1. m \in Nat
          BY <1>7, <1>12 DEF Places
        <5> QED BY <1>6, <1>10, <5>1
      <4> QED BY <3>2, <4>1, <4>2
    <3>5. /\ g.chapter = a[n].chapter
          /\ Distinct(a[n].items) => g.items = a[n].items
      BY <1>7, <1>10, <3>2
    <3>6. RanksTo(a, n)'
      <4> SUFFICES ASSUME NEW h \in 1 .. n, a[h].chapter # Unassigned
                   PROVE  chapter'[a[h].chapter].priority = h
        BY DEF RanksTo, Numbered
      <4>1. CASE h = n
        BY <1>14, <2>4, <3>5, <4>1
      <4>2. CASE h # n
        <5>1. h \in 1 .. r.order /\ h \in Places(a) /\ n \in Places(a)
          BY <1>6, <1>10, <3>1, <3>3, <4>2 DEF Places
        <5>2. chapter[a[h].chapter].priority = h
          BY <3>2, <5>1 DEF RanksTo, Numbered
        <5>3. a[h].chapter # g.chapter
          BY <3>1, <3>5, <4>2, <5>1 DEF Once
        <5>4. a[h].chapter \in Chapters
          BY <1>21, <5>1, ArrangedIs
        <5> QED BY <1>14, <5>2, <5>3, <5>4
      <4> QED BY <4>1, <4>2
    <3>7. ASSUME Distinct(a[n].items) PROVE Half(q, a[n].items)'
      <4> DEFINE s == a[n].items
      <4>1. q.todo = s /\ s \in Seq(Items) /\ Len(s) \in Nat
        BY <1>8, <1>12, <3>5, <3>7
      <4> HIDE DEF s
      <4>2. Len(q.todo) = Len(s) - 0 /\ 0 \in 0 .. Len(s)
        BY <4>1
      <4>3. \A m \in Places(q.todo) : q.todo[m] = s[0 + m]
        BY <4>1 DEF Places
      <4>4. Rising(s, 0)' /\ UpTo(s, 0, q.count)'
        BY DEF Rising, UpTo
      <4>5. Half(q, s)'
        BY <4>2, <4>3, <4>4 DEF Half
      <4> QED BY <4>5 DEF s
    <3>8. Ranked(a, n - 1)'
      <4>1. Ranked(a, r.order)
        BY <1>3, <1>6, <1>21, <3>1, <3>3, Behind
      <4>2. n - 1 = r.order
        BY <1>6, <1>10
      <4>3. Ranked(a, n - 1)
        BY <4>1, <4>2
      <4> QED BY <1>3, <4>3 DEF Ranked, Rising
    <3>9. n # 0 /\ q.order = n /\ q.chapter = a[n].chapter
      BY <1>10, <1>12, <2>4, <3>5
    <3> QED BY <3>3, <3>4, <3>6, <3>7, <3>8, <3>9 DEF Sorting
  <2>8. Delivered(q, a)' /\ Sent(q, a) /\ Live(a)' /\ (how = "inserted" => Sorting(q, a)')
    BY <2>2, <2>5, <2>6, <2>7
  <2> QED BY <1>12, <1>13, <1>20, <2>8 DEF Calm
<1> QED
  <2>1. TabInv(t)'
    BY <1>12, <1>13, <1>20, <1>21, <1>22, <1>23 DEF TabInv
  <2> QED BY <1>16, <1>17, <1>19, <2>1 DEF IInv

(* Item i is numbered next, if it is still there; r becomes q.             *)
Numbers(i, r, q) ==
  /\ \A j \in Items : j # i => item'[j] = item[j]
  /\ item'[i].is = item[i].is
  /\ IF item[i].is = "there"
     THEN q.count = r.count + 1 /\ item'[i].order = q.count /\ item'[i].chapter = r.chapter
     ELSE q.count = r.count /\ item'[i] = item[i]

(* What was numbered of a chapter goes on to be in order.                  *)
LEMMA HalfNext ==
  ASSUME Typed, NEW s \in Seq(Items), \A j, k \in Places(s) : s[j] = s[k] => j = k,
         NEW r, NEW q, NEW i \in Items, r.todo \in Seq(Items), r.todo # <<>>,
         i = Head(r.todo), q.todo = Tail(r.todo), r.count \in Nat,
         Numbers(i, r, q), Half(r, s)
  PROVE  Half(q, s)'
<1>1. PICK d \in 0 .. Len(s) :
        /\ Len(r.todo) = Len(s) - d
        /\ \A m \in Places(r.todo) : r.todo[m] = s[d + m]
        /\ Rising(s, d) /\ UpTo(s, d, r.count)
  BY DEF Half
<1>2. /\ i = r.todo[1] /\ 1 \in Places(r.todo) /\ Len(r.todo) \in Nat
      /\ Len(q.todo) = Len(r.todo) - 1
      /\ \A m \in Places(q.todo) : m + 1 \in Places(r.todo) /\ q.todo[m] = r.todo[m + 1]
  <2>1. PICK todo \in Seq(Items) : todo = r.todo
    OBVIOUS
  <2>2. todo # <<>>
    BY <2>1
  <2>3. /\ Head(todo) = todo[1] /\ 1 \in Places(todo) /\ Len(todo) \in Nat
        /\ Len(Tail(todo)) = Len(todo) - 1
        /\ \A m \in Places(Tail(todo)) : m + 1 \in Places(todo) /\ Tail(todo)[m] = todo[m + 1]
    BY <2>2, HeadTailIs
  <2> QED BY <2>1, <2>3
<1>3. Len(s) \in Nat /\ d \in Nat /\ d + 1 \in 0 .. Len(s) /\ d + 1 \in Places(s)
  <2>1. Len(s) \in Nat
    BY LenProperties
  <2>2. Len(r.todo) >= 1
    BY <1>2 DEF Places
  <2> QED BY <1>1, <1>2, <2>1, <2>2 DEF Places
<1>4. i = s[d + 1]
  BY <1>1, <1>2
<1>5. ASSUME NEW k \in 1 .. d
      PROVE  /\ item'[s[k]] = item[s[k]]
             /\ item[s[k]].order \in Nat
  <2>1. k \in Places(s) /\ k # d + 1
    BY <1>3 DEF Places
  <2>2. s[k] # i
    BY <1>3, <1>4, <2>1
  <2>3. s[k] \in Items
    BY <2>1, ElementOfSeq DEF Places
  <2>4. item[s[k]].order \in 0 .. Cardinality(Items)
    BY <2>3, ItemIs
  <2>5. item[s[k]].order \in Nat
    BY <2>4
  <2> QED BY <2>2, <2>3, <2>5 DEF Numbers
<1>6. UpTo(s, d + 1, q.count)'
  <2> SUFFICES ASSUME NEW k \in 1 .. d + 1, item'[s[k]].is = "there"
               PROVE  item'[s[k]].order <= q.count
    BY DEF UpTo
  <2>1. CASE k = d + 1
    <3>1. item[i].is = "there"
      BY <1>4, <2>1 DEF Numbers
    <3> QED BY <1>4, <2>1, <3>1 DEF Numbers
  <2>2. CASE k # d + 1
    <3>1. k \in 1 .. d
      BY <1>3, <2>2
    <3>2. item[s[k]].order <= r.count /\ item'[s[k]].order = item[s[k]].order
      BY <1>1, <1>5, <3>1 DEF UpTo
    <3>3. r.count <= q.count /\ q.count \in Nat
      BY DEF Numbers
    <3> QED BY <1>5, <3>1, <3>2, <3>3
  <2> QED BY <2>1, <2>2
<1>7. Rising(s, d + 1)'
  <2> SUFFICES ASSUME NEW k \in 1 .. d + 1, item'[s[k]].is = "there",
                      NEW j \in 1 .. k - 1, item'[s[j]].is = "there"
               PROVE  item'[s[j]].order < item'[s[k]].order
    BY DEF Rising
  <2>1. j \in 1 .. d /\ item'[s[j]] = item[s[j]] /\ item[s[j]].order \in Nat
    BY <1>3, <1>5
  <2>2. CASE k = d + 1
    <3>1. item[s[j]].order <= r.count
      BY <1>1, <2>1 DEF UpTo
    <3>2. item'[i].order = r.count + 1
      BY <1>4, <2>2 DEF Numbers
    <3> QED BY <1>4, <2>1, <2>2, <3>1, <3>2
  <2>3. CASE k # d + 1
    <3>1. k \in 1 .. d
      BY <1>3, <2>3
    <3> QED BY <1>1, <1>5, <2>1, <3>1 DEF Rising
  <2> QED BY <2>2, <2>3
<1>8. Len(q.todo) = Len(s) - (d + 1)
  BY <1>1, <1>2, <1>3
<1>9. ASSUME NEW m \in Places(q.todo) PROVE q.todo[m] = s[(d + 1) + m]
  <2>1. q.todo[m] = s[d + (m + 1)]
    BY <1>1, <1>2
  <2>2. d + (m + 1) = (d + 1) + m
    BY <1>3 DEF Places
  <2> QED BY <2>1, <2>2
<1>10. PICK e : e = d + 1
  OBVIOUS
<1>11. Rising(s, e)' /\ UpTo(s, e, q.count)' /\ e \in 0 .. Len(s)
       /\ Len(q.todo) = Len(s) - e /\ \A m \in Places(q.todo) : q.todo[m] = s[e + m]
  BY <1>3, <1>6, <1>7, <1>8, <1>9, <1>10
<1> QED BY <1>11 DEF Half

(* The order of groups without item i does not change.                     *)
LEMMA RankedElsewhere ==
  ASSUME NEW a \in Arrangements, NEW n, NEW i \in Items,
         \A j \in Items : j # i => item'[j] = item[j],
         \A g \in 1 .. n : g \in Places(a) /\ i \notin Elements(a[g].items),
         Ranked(a, n)
  PROVE  Ranked(a, n)'
<1> SUFFICES ASSUME NEW g \in 1 .. n, Distinct(a[g].items)
             PROVE  Rising(a[g].items, Len(a[g].items))'
  BY DEF Ranked
<1>1. g \in Places(a) /\ a[g] \in Blocks
  BY ElementOfSeq DEF Arrangements, Places
<1>2. PICK s \in Seq(Items) : s = a[g].items
  BY <1>1 DEF Blocks
<1>3. Rising(s, Len(s)) /\ i \notin Elements(s)
  BY <1>2 DEF Ranked
<1>4. \A k \in Places(s) : item'[s[k]] = item[s[k]]
  <2> SUFFICES ASSUME NEW k \in Places(s) PROVE item'[s[k]] = item[s[k]]
    OBVIOUS
  <2>1. s[k] \in Items /\ s[k] # i
    BY <1>3, ElementOfSeq DEF Elements, Places
  <2> QED BY <2>1
<1>5. Len(s) \in Nat /\ \A k \in 1 .. Len(s) : \A j \in 1 .. k - 1 : j \in 1 .. Len(s)
  BY LenProperties
<1>6. Rising(s, Len(s))'
  BY <1>3, <1>4, <1>5 DEF Rising, Places
<1> QED BY <1>2, <1>6

(* A sort numbers an item: it has arrived, and is numbered after those     *)
(* before it.                                                              *)
LEMMA SortItemKeeps ==
  ASSUME CurriculumAssumption, IInv, NEW t \in Tabs, sort_item(t)
  PROVE  IInv'
<1>1. Typed /\ Belongs /\ TabInv(t)
  BY DEF IInv
<1>2. PICK r, i : r = req[t] /\ i = Head(r.todo)
  OBVIOUS
<1>3. /\ r.op = "sort" /\ r.todo # <<>>
      /\ chapter' = chapter /\ browser' = browser /\ page' = page /\ calls' = calls
      /\ asked' = asked
  BY <1>2 DEF sort_item
<1>4. \/ /\ item[i].is = "there"
         /\ r.chapter \in There \cup {Unassigned}
         /\ req' = [req EXCEPT ![t] = SortRequest(r.groups, r.order, Tail(r.todo), r.chapter,
                                                  r.count + 1)]
         /\ item' = [item EXCEPT ![i] = [is |-> "there", order |-> r.count + 1,
                                         chapter |-> r.chapter]]
         /\ \/ /\ item[i] = [is |-> "there", order |-> r.count + 1, chapter |-> r.chapter]
               /\ disturbed' = disturbed
            \/ disturbed' = disturbed \cup (Tabs \ {t})
      \/ /\ item[i].is # "there" /\ item' = item /\ disturbed' = disturbed
         /\ req' = [req EXCEPT ![t] = SortRequest(r.groups, r.order, Tail(r.todo), r.chapter,
                                                  r.count)]
  BY <1>2 DEF sort_item, Placed, DisturbedBy
<1>5. r \in Sorts
  <2>1. r \in Sorts \cup Deletions \cup Listings \cup {Idle}
    BY <1>1, <1>2, TabIs
  <2> QED BY <1>3, <2>1 DEF Deletions, Listings, Idle
<1>6. /\ r.groups \in Seq(Groups) /\ r.order \in 0 .. MaxChapters + 1 /\ r.order \in Nat
      /\ r.todo \in Bounded(Items) /\ r.todo \in Seq(Items)
      /\ r.chapter \in Chapters \cup {Unassigned}
      /\ r.count \in 0 .. Cardinality(Items) /\ r.count \in Nat
      /\ MaxChapters \in Nat /\ Cardinality(Items) \in Nat
  <2>1. /\ r.groups \in Seq(Groups) /\ r.order \in 0 .. MaxChapters + 1
        /\ r.todo \in Bounded(Items) /\ r.chapter \in Chapters \cup {Unassigned}
        /\ r.count \in 0 .. Cardinality(Items)
    BY <1>5 DEF Sorts
  <2> QED BY <2>1, ConstantsAre, BoundedIs
<1>7. PICK todo \in Seq(Items) : todo = r.todo
  BY <1>6
<1>8. /\ i = todo[1] /\ i \in Items /\ 1 \in Places(todo)
      /\ Tail(todo) \in Seq(Items) /\ Len(todo) \in Nat /\ Len(Tail(todo)) = Len(todo) - 1
      /\ \A m \in Places(Tail(todo)) : m + 1 \in Places(todo) /\ Tail(todo)[m] = todo[m + 1]
      /\ \A m \in Places(todo) : m # 1 => m - 1 \in Places(Tail(todo))
                                          /\ Tail(todo)[m - 1] = todo[m]
  BY <1>2, <1>3, <1>7, HeadTailIs
<1>9. r.count + Len(todo) <= Cardinality(Items) /\ Len(todo) >= 1
      /\ r.order + Len(r.groups) <= MaxChapters + 1
  <2>1. r.order + Len(r.groups) <= MaxChapters + 1 /\ r.count + Len(r.todo) <= Cardinality(Items)
    BY <1>1, <1>2, <1>3 DEF TabInv, Bounds
  <2>2. Len(todo) >= 1
    BY <1>8 DEF Places
  <2> QED BY <1>7, <2>1, <2>2
<1>10. PICK n, q :
         /\ n \in 0 .. Cardinality(Items)
         /\ n = IF item[i].is = "there" THEN r.count + 1 ELSE r.count
         /\ q = SortRequest(r.groups, r.order, Tail(todo), r.chapter, n)
         /\ req' = [req EXCEPT ![t] = q]
  <2>1. CASE item[i].is = "there"
    <3>1. r.count + 1 \in 0 .. Cardinality(Items)
      BY <1>6, <1>8, <1>9
    <3> QED BY <1>4, <1>7, <2>1, <3>1
  <2>2. CASE item[i].is # "there"
    BY <1>4, <1>6, <1>7, <2>2
  <2> QED BY <2>1, <2>2
<1>11. /\ q \in Sorts /\ q.op = "sort" /\ q.groups = r.groups /\ q.order = r.order
       /\ q.todo = Tail(todo) /\ q.chapter = r.chapter /\ q.count = n
  <2>1. Tail(todo) \in Bounded(Items)
    <3>1. Len(Tail(todo)) <= Cardinality(Items)
      BY <1>6, <1>8, <1>9
    <3> QED BY <1>8, <3>1, ConstantsAre, BoundedIs
  <2> QED BY <1>6, <1>10, <2>1 DEF SortRequest, Sorts
<1>12. /\ req' \in [Tabs -> Sorts \cup Deletions \cup Listings \cup {Idle}]
       /\ req'[t] = q /\ \A u \in Tabs \ {t} : req'[u] = req[u]
  BY <1>1, <1>10, <1>11 DEF Typed
<1>13. /\ item' \in [Items -> [is : {"none", "there", "gone"},
                               chapter : Chapters \cup {Unassigned},
                               order : 0 .. Cardinality(Items)]]
       /\ Numbers(i, r, q)
       /\ item[i].is = "there" => r.chapter \in There \cup {Unassigned}
  <2>1. CASE item[i].is = "there"
    <3>1. PICK row : /\ row = [is |-> "there", order |-> r.count + 1, chapter |-> r.chapter]
                     /\ item' = [item EXCEPT ![i] = row]
      BY <1>4, <2>1
    <3>2. /\ row \in [is : {"none", "there", "gone"}, chapter : Chapters \cup {Unassigned},
                      order : 0 .. Cardinality(Items)]
          /\ row.is = "there" /\ row.order = n /\ row.chapter = r.chapter
      BY <1>6, <1>10, <2>1, <3>1
    <3>3. /\ item' \in [Items -> [is : {"none", "there", "gone"},
                                  chapter : Chapters \cup {Unassigned},
                                  order : 0 .. Cardinality(Items)]]
          /\ item'[i] = row /\ \A j \in Items : j # i => item'[j] = item[j]
      BY <1>1, <1>8, <3>1, <3>2 DEF Typed
    <3> QED BY <1>4, <1>10, <1>11, <2>1, <3>2, <3>3 DEF Numbers
  <2>2. CASE item[i].is # "there"
    BY <1>1, <1>4, <1>10, <1>11, <2>2 DEF Typed, Numbers
  <2> QED BY <2>1, <2>2
<1>14. disturbed' \subseteq Tabs /\ (t \in disturbed' <=> t \in disturbed)
  BY <1>1, <1>4 DEF Typed
<1>15. Typed'
  BY <1>1, <1>3, <1>12, <1>13, <1>14 DEF Typed
<1>16. Belongs'
  <2> SUFFICES ASSUME NEW j \in Items, item'[j].chapter # Unassigned
               PROVE  item'[j].is = "there" /\ chapter[item'[j].chapter].is = "there"
    BY <1>3 DEF Belongs
  <2>1. CASE item'[j] = item[j]
    BY <1>1, <2>1 DEF Belongs
  <2>2. CASE item'[j] # item[j]
    BY <1>13, <2>2 DEF Numbers, There
  <2> QED BY <2>1, <2>2
<1>17. Grows
  BY <1>13 DEF Grows, Numbers
<1>18. ASSUME NEW u \in Tabs \ {t} PROVE TabInv(u)'
  <2>1. u \notin disturbed' => u \notin disturbed /\ Gentle
    <3> SUFFICES ASSUME u \notin disturbed' PROVE u \notin disturbed /\ Gentle
      OBVIOUS
    <3>1. disturbed' = disturbed
      BY <1>4
    <3>2. item' = item
      <4>1. CASE item[i].is = "there"
        <5>1. item' = [item EXCEPT ![i] = item[i]]
          BY <1>4, <4>1
        <5> QED BY <1>1, <5>1 DEF Typed
      <4> QED BY <1>4, <4>1
    <3> QED BY <1>3, <3>1, <3>2, Still
  <2>2. /\ page'[u] = page[u] /\ req'[u] = req[u] /\ asked'[u] = asked[u]
        /\ browser'[u] = browser[u] /\ TabInv(u) /\ u \in Tabs
    BY <1>3, <1>12 DEF IInv
  <2> QED BY <1>1, <1>17, <2>1, <2>2, OtherTab
<1>19. PICK p, a, how : /\ p = page[t].groups /\ a = asked[t] /\ how = browser[t]
                        /\ p = page'[t].groups /\ a = asked'[t] /\ how = browser'[t]
  BY <1>3
<1>20. p \in Arrangements /\ a \in Arrangements /\ Known(p)' /\ Known(a)'
  BY <1>1, <1>17, <1>19, TabIs, KnownKept DEF TabInv
<1>21. Bounds(q)
  <2>1. n + Len(Tail(todo)) <= Cardinality(Items)
    BY <1>6, <1>8, <1>9, <1>10
  <2> QED BY <1>9, <1>11, <2>1 DEF Bounds
<1>22. ASSUME t \notin disturbed' PROVE Calm(t)'
  <2>1. /\ Live(a) /\ Sent(r, a) /\ Delivered(r, a)
        /\ how = "inserted" => Sorting(r, a)
    BY <1>1, <1>2, <1>3, <1>14, <1>19, <1>22 DEF TabInv, Calm
  <2>2. Live(a)'
    BY <1>3, <2>1 DEF Live, There
  <2>3. PICK f \in Places(a) : /\ a[f].chapter = r.chapter
                               /\ Elements(r.todo) \subseteq Elements(a[f].items)
    BY <1>3, <2>1 DEF Sent
  <2>4. i \in Elements(a[f].items) /\ i \in Elements(r.todo)
    BY <1>7, <1>8, <2>3 DEF Elements
  <2>5. Elements(q.todo) \subseteq Elements(r.todo)
        /\ \A j \in Elements(r.todo) : j = i \/ j \in Elements(q.todo)
    <3>1. ASSUME NEW j \in Elements(q.todo) PROVE j \in Elements(r.todo)
      <4>1. PICK m \in Places(Tail(todo)) : j = Tail(todo)[m]
        BY <1>11, <3>1 DEF Elements
      <4>2. m + 1 \in Places(todo) /\ j = todo[m + 1]
        BY <1>8, <4>1
      <4> QED BY <1>7, <4>2 DEF Elements
    <3>2. ASSUME NEW j \in Elements(r.todo), j # i PROVE j \in Elements(q.todo)
      <4>1. PICK m \in Places(todo) : j = todo[m]
        BY <1>7, <3>2 DEF Elements
      <4>2. m # 1
        BY <1>8, <3>2, <4>1
      <4>3. m - 1 \in Places(Tail(todo)) /\ Tail(todo)[m - 1] = j
        BY <1>8, <4>1, <4>2
      <4> QED BY <1>11, <4>3 DEF Elements
    <3> QED BY <3>1, <3>2
  <2>6. Sent(q, a)
    <3>1. q.groups = r.groups /\ q.chapter = r.chapter
      BY <1>11
    <3>2. a[f].chapter = q.chapter /\ Elements(q.todo) \subseteq Elements(a[f].items)
      BY <2>3, <2>5, <3>1
    <3>3. f \in Places(a)
      BY <2>3
    <3> QED BY <2>1, <3>1, <3>2, <3>3 DEF Sent
  <2>7. ASSUME NEW g \in Places(a), i \in Elements(a[g].items) PROVE g = f
    BY <1>20, <2>4, <2>7, ArrangedIs DEF Once, Elements
  <2>8. Delivered(q, a)'
    <3> SUFFICES ASSUME NEW g \in Places(a), NEW k \in Places(a[g].items),
                        ~Overwritten(a[g].items, k),
                        ~Pending(q, a[g].items[k], a[g].chapter)
                 PROVE  Settled(a[g].items[k], a[g].chapter)'
      BY DEF Delivered, Overwritten, Pending
    <3>1. PICK j, c : j = a[g].items[k] /\ c = a[g].chapter
      OBVIOUS
    <3>2. j \in Items /\ j \in Elements(a[g].items)
      <4>1. a[g].items \in Seq(Items)
        BY <1>20, ArrangedIs
      <4> QED BY <3>1, <4>1, ElementOfSeq DEF Elements, Places
    <3>3. Pending(r, j, c) \/ Settled(j, c)
      BY <2>1, <3>1 DEF Delivered
    <3>4. CASE j = i
      <4>1. c = r.chapter
        BY <2>3, <2>7, <3>1, <3>2, <3>4
      <4> QED BY <1>13, <3>1, <3>4, <4>1 DEF Numbers, Settled
    <3>5. CASE j # i
      <4>1. ~Pending(r, j, c)
        BY <1>11, <2>5, <3>1, <3>5 DEF Pending
      <4>2. item'[j] = item[j]
        BY <1>13, <3>2, <3>5 DEF Numbers
      <4> QED BY <3>1, <3>3, <4>1, <4>2 DEF Settled
    <3> QED BY <3>4, <3>5
  <2>9. ASSUME how = "inserted" PROVE Sorting(q, a)'
    <3>1. Sorting(r, a) /\ Len(a) \in Nat /\ Once(a)
      BY <1>20, <2>1, <2>9, ArrangedIs
    <3>2. /\ r.order + Len(r.groups) = Len(a)
          /\ \A m \in Places(r.groups) :
               /\ r.groups[m].chapter = a[r.order + m].chapter
               /\ Distinct(a[r.order + m].items) => r.groups[m].items = a[r.order + m].items
          /\ RanksTo(a, r.order)
          /\ r.order # 0
      BY <1>3, <3>1 DEF Sorting
    <3>3. /\ r.chapter = a[r.order].chapter
          /\ Distinct(a[r.order].items) => Half(r, a[r.order].items)
          /\ Ranked(a, r.order - 1)
      BY <3>1, <3>2 DEF Sorting
    <3>4. r.order \in Places(a) /\ r.order \in 1 .. Len(a)
      <4>1. Len(r.groups) \in Nat
        BY <1>6, LenProperties
      <4> QED BY <1>6, <3>1, <3>2, <4>1 DEF Places
    <3>5. f = r.order
      BY <2>3, <3>1, <3>3, <3>4 DEF Once
    <3>6. RanksTo(a, r.order)'
      BY <1>3, <3>2 DEF RanksTo, Numbered
    <3>7. Ranked(a, r.order - 1)'
      <4>1. \A g \in 1 .. r.order - 1 : g \in Places(a) /\ g # r.order
        BY <1>6, <3>1, <3>4 DEF Places
      <4>2. \A g \in 1 .. r.order - 1 : g \in Places(a) /\ i \notin Elements(a[g].items)
        BY <2>7, <3>5, <4>1
      <4>3. \A j \in Items : j # i => item'[j] = item[j]
        BY <1>13 DEF Numbers
      <4> QED BY <1>8, <1>20, <3>3, <4>2, <4>3, RankedElsewhere
    <3>8. ASSUME Distinct(a[r.order].items) PROVE Half(q, a[r.order].items)'
      <4>1. PICK s \in Seq(Items) : s = a[r.order].items
        BY <1>20, <3>4, ArrangedIs
      <4>2. \A j, k \in Places(s) : s[j] = s[k] => j = k
        <5>1. \A j, k \in Places(a[r.order].items) :
                a[r.order].items[j] = a[r.order].items[k] => j = k
          <6> SUFFICES ASSUME NEW j \in Places(a[r.order].items),
                              NEW k \in Places(a[r.order].items),
                              a[r.order].items[j] = a[r.order].items[k]
                       PROVE  j = k
            OBVIOUS
          <6> QED BY <3>1, <3>4 DEF Once
        <5> QED BY <4>1, <5>1
      <4>3. Half(r, s)
        BY <3>3, <3>8, <4>1
      <4>4. r.todo \in Seq(Items) /\ r.todo # <<>> /\ q.todo = Tail(r.todo)
        BY <1>3, <1>6, <1>7, <1>11
      <4>5. Half(q, s)'
        BY <1>1, <1>2, <1>6, <1>8, <1>13, <4>2, <4>3, <4>4, HalfNext
      <4> QED BY <4>1, <4>5
    <3> QED BY <1>11, <3>2, <3>3, <3>6, <3>7, <3>8 DEF Sorting
  <2>10. Delivered(q, a)' /\ Sent(q, a) /\ Live(a)' /\ (how = "inserted" => Sorting(q, a)')
    BY <2>2, <2>6, <2>8, <2>9
  <2> QED BY <1>11, <1>12, <1>19, <2>10 DEF Calm
<1> QED
  <2>1. TabInv(t)'
    BY <1>11, <1>12, <1>19, <1>20, <1>21, <1>22 DEF TabInv
  <2> QED BY <1>15, <1>16, <1>18, <2>1 DEF IInv

-----------------------------------------------------------------------------
(* Every step keeps the inductive invariant.                               *)
LEMMA StepKeeps == CurriculumAssumption /\ IInv /\ [Next]_vars => IInv'
<1> SUFFICES ASSUME CurriculumAssumption, IInv, [Next]_vars PROVE IInv'
  OBVIOUS
<1>1. CASE UNCHANGED vars
  <2>1. /\ chapter' = chapter /\ item' = item /\ browser' = browser /\ page' = page
        /\ req' = req /\ calls' = calls /\ asked' = asked /\ disturbed' = disturbed
    BY <1>1 DEF vars
  <2>2. Typed' /\ Belongs'
    BY <2>1 DEF IInv, Typed, Belongs
  <2>3. ASSUME NEW u \in Tabs PROVE TabInv(u)'
    <3>1. TabInv(u) /\ Typed /\ Grows /\ Gentle
      BY <2>1, Still DEF IInv
    <3> QED BY <2>1, <3>1, OtherTab
  <2> QED BY <2>2, <2>3 DEF IInv
<1>2. ASSUME NEW t \in Tabs, Page(t) PROVE IInv'
  BY <1>2, OpenKeeps, SubmitKeeps, DeleteChapterKeeps, RelistKeeps, Zenon DEF Page
<1>3. ASSUME NEW t \in Tabs, Service(t) PROVE IInv'
  BY <1>3, SortChapterKeeps, SortItemKeeps, SortReturnsKeeps, DetachKeeps, RemoveKeeps,
     CallFailsKeeps, Zenon DEF Service
<1>4. ASSUME NEW c \in Chapters, acl_addChapter(c) PROVE IInv'
  BY <1>4, AddChapterKeeps
<1>5. ASSUME NEW cs \in Orders, acl_updateChapterOrder(cs) PROVE IInv'
  BY <1>5, UpdateOrderKeeps
<1>6. ASSUME NEW i \in Items, addItem(i) \/ removeItem(i) PROVE IInv'
  BY <1>6, AddItemKeeps, RemoveItemKeeps
<1> QED BY <1>1, <1>2, <1>3, <1>4, <1>5, <1>6, Zenon DEF Next

(* The inductive invariant holds in every reachable state: what a request  *)
(* of an undisturbed tab is yet to write, and what it wrote, make up what  *)
(* was dropped.                                                            *)
THEOREM Invariance ==
  ASSUME CurriculumAssumption PROVE Spec => []IInv
<1>1. Init => IInv
  BY Starts
<1>2. IInv /\ [Next]_vars => IInv'
  BY StepKeeps
<1> QED BY <1>1, <1>2, PTL DEF Spec

-----------------------------------------------------------------------------
(* The properties.                                                         *)

(* An arrangement is as the type invariant has it.                         *)
LEMMA Arrangement ==
  ASSUME CurriculumAssumption, NEW a \in Arrangements PROVE IsArrangement(a)
BY ArrangedIs DEF IsArrangement, Places

(* The invariant implies the types.                                        *)
LEMMA Types == CurriculumAssumption /\ IInv => TypeOK
<1> SUFFICES ASSUME CurriculumAssumption, IInv PROVE TypeOK
  OBVIOUS
<1>1. Typed /\ Belongs
  BY DEF IInv
<1>2. ASSUME NEW t \in Tabs
      PROVE  /\ page[t].ready \in BOOLEAN
             /\ IsArrangement(page[t].groups) /\ IsArrangement(asked[t])
             /\ req[t] \in Sorts \cup Deletions \cup Listings \cup {Idle}
  BY <1>1, TabIs, Arrangement, Zenon
<1> QED BY <1>1, <1>2, Zenon DEF TypeOK, Typed, Belongs

(* A tab that waits for nothing shows what was dropped where it was        *)
(* dropped.                                                                *)
LEMMA ChaptersAreShown == CurriculumAssumption /\ IInv => DroppedChapterShown
<1> SUFFICES ASSUME CurriculumAssumption, IInv, NEW t \in Tabs, req[t] = Idle,
                    NEW g \in Places(asked[t]), NEW k \in DOMAIN asked[t][g].items,
                    ~Overwritten(asked[t][g].items, k)
             PROVE  ShownIn(t, asked[t][g].items[k]) \subseteq {asked[t][g].chapter}
  BY Zenon DEF DroppedChapterShown
<1>1. PICK p, a : p = page[t].groups /\ a = asked[t]
  OBVIOUS
<1>2. p \in Arrangements /\ a \in Arrangements /\ ChaptersShown(p, a)
  <2>1. req[t].op = "idle"
    BY DEF Idle
  <2> QED BY <1>1, <2>1, TabIs DEF IInv, TabInv
<1>3. k \in Places(a[g].items)
  <2>1. a[g].items \in Seq(Items)
    BY <1>1, <1>2, ArrangedIs
  <2> QED BY <1>1, <2>1 DEF Places
<1>4. ASSUME NEW h \in Places(p), NEW j \in Places(p[h].items), p[h].items[j] = a[g].items[k]
      PROVE  p[h].chapter = a[g].chapter
  <2>1. a[g].items[k] \in Elements(p[h].items)
    BY <1>4 DEF Elements
  <2> QED BY <1>1, <1>2, <1>3, <2>1 DEF ChaptersShown
<1> QED BY <1>1, <1>4 DEF ShownIn

(* And in the order in which it was.                                       *)
LEMMA OrderIsShown == CurriculumAssumption /\ IInv => DroppedOrderKept
<1> SUFFICES ASSUME CurriculumAssumption, IInv, NEW t \in Tabs, Undisturbed(t)
             PROVE  ShowsOrder(t, {{"content"}, {"assessment"}})
  BY DEF DroppedOrderKept
<1>1. PICK p, a : p = page[t].groups /\ a = asked[t]
  OBVIOUS
<1>2. p \in Arrangements /\ a \in Arrangements /\ OrderShown(p, a)
  <2>1. req[t].op = "idle" /\ browser[t] = "inserted"
    BY DEF Idle, Undisturbed
  <2> QED BY <1>1, <2>1, TabIs DEF IInv, TabInv
<1>3. /\ Len(p) \in Nat /\ DOMAIN p = Places(p)
      /\ \A h \in Places(p) : p[h].items \in Seq(Items) /\ DOMAIN p[h].items = Places(p[h].items)
      /\ \A g \in Places(a) : a[g].items \in Seq(Items) /\ DOMAIN a[g].items = Places(a[g].items)
  BY <1>2, ArrangedIs, LenProperties DEF Places
<1>4. ASSUME NEW i, ShownIn(t, i) # {} PROVE Somewhere(p, i)
  BY <1>1, <1>4 DEF ShownIn, Somewhere, Elements
<1>5. ASSUME NEW g \in Places(a), NEW h \in 1 .. g - 1,
             a[g].chapter # Unassigned, a[h].chapter # Unassigned
      PROVE  Before([k \in DOMAIN p |-> p[k].chapter], a[h].chapter, a[g].chapter)
  <2>1. PICK n \in Places(p) : \E m \in 1 .. n - 1 :
          p[m].chapter = a[h].chapter /\ p[n].chapter = a[g].chapter
    BY <1>2, <1>5 DEF OrderShown
  <2>2. n \in DOMAIN p /\ \A m \in 1 .. n - 1 : m \in DOMAIN p
    BY <1>3, <2>1 DEF Places
  <2> QED BY <2>1, <2>2 DEF Before
<1>6. ASSUME NEW g \in Places(a), Distinct(a[g].items),
             NEW k \in DOMAIN a[g].items, NEW j \in 1 .. k - 1,
             {Kind(a[g].items[j]), Kind(a[g].items[k])} \in {{"content"}, {"assessment"}},
             ShownIn(t, a[g].items[j]) # {}, ShownIn(t, a[g].items[k]) # {}
      PROVE  \E h \in Places(p) : Before(p[h].items, a[g].items[j], a[g].items[k])
  <2>1. Kind(a[g].items[j]) = Kind(a[g].items[k])
    BY <1>6
  <2>2. PICK h \in Places(p) : \E n \in Places(p[h].items) : \E m \in 1 .. n - 1 :
          p[h].items[m] = a[g].items[j] /\ p[h].items[n] = a[g].items[k]
    BY <1>2, <1>3, <1>4, <1>6, <2>1 DEF OrderShown
  <2> QED BY <1>3, <2>2 DEF Before
<1> QED BY <1>1, <1>5, <1>6, Zenon DEF ShowsOrder

(* What is to be deleted is empty as long as nobody disturbs the tab.      *)
LEMMA EmptyIsEmpty == IInv => EmptyIsDeletable
BY DEF IInv, TabInv, Calm, EmptyIsDeletable

(* Every state of the curriculum is well typed, whatever is dragged about  *)
(* on however many pages.                                                  *)
THEOREM TypeCorrect ==
  ASSUME CurriculumAssumption PROVE Spec => []TypeOK
<1>1. IInv => TypeOK
  BY Types
<1> QED BY <1>1, Invariance, PTL

(* After a drop the page shows each item in the chapter into which it was  *)
(* dropped (acl_providerUpdateContentSort).                                *)
THEOREM ChapterShownCorrect ==
  ASSUME CurriculumAssumption PROVE Spec => []DroppedChapterShown
<1>1. IInv => DroppedChapterShown
  BY ChaptersAreShown
<1> QED BY <1>1, Invariance, PTL

(* In a browser that enumerates keys as inserted it shows the order in     *)
(* which chapters, contents and assessments were dropped                   *)
(* (acl_providerUpdateContentSort, acl_listContentOrder).                  *)
THEOREM OrderKeptCorrect ==
  ASSUME CurriculumAssumption PROVE Spec => []DroppedOrderKept
<1>1. IInv => DroppedOrderKept
  BY OrderIsShown
<1> QED BY <1>1, Invariance, PTL

(* Nothing is left in an empty chapter that is being deleted on a page     *)
(* that nobody disturbed (acl_deleteChapter).                              *)
THEOREM EmptyCorrect ==
  ASSUME CurriculumAssumption PROVE Spec => []EmptyIsDeletable
<1>1. IInv => EmptyIsDeletable
  BY EmptyIsEmpty
<1> QED BY <1>1, Invariance, PTL

=============================================================================
