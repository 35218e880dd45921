---------------------------- MODULE ReactorProofs ----------------------------
(***************************************************************************)
(* The reactor's own structures agree, for every number of jobs, timers    *)
(* and descriptors, however deep handlers nest and whatever they do.       *)
(***************************************************************************)
EXTENDS Reactor, FiniteSetTheorems, SequenceTheorems, TLAPS

\* What stands behind x in the list s.
Behind(s, x) == {s[k] : k \in {k \in DOMAIN s : \E i \in DOMAIN s : s[i] = x /\ i < k}}

Marked(cs, d) == d \in DOMAIN cs /\ cs[d].mark # 0

\* The marks on the stack js are those of the calls cs that wait for one, the innermost on top.
StackedAs(js, cs) ==
    /\ js \in Seq(Pending) /\ cs \in Seq(Frame) /\ Len(cs) <= MaxDepth
    /\ IsInjective(js)
    /\ \A m \in Marks : m \in Range(js) => Marked(cs, m)
    /\ \A d \in DOMAIN cs :
         /\ cs[d].syncing => Marked(cs, d)
         /\ Marked(cs, d) => /\ cs[d].mark = d /\ d \in Range(js)
                             /\ Behind(js, d) = cs[d].below
                             /\ \A e \in 1..d - 1 : Marked(cs, e) => e \in cs[d].below

Stacked == StackedAs(jobs, calls)

\* What is left of the results points at its descriptors and is pointed at by them, and is what
\* was reported of them; nothing is left when epoll is asked again.
Polled ==
    /\ ResultsMatch
    /\ \A i \in pos + 1..Len(results) :
         results[i].fd # None => fresh[results[i].fd] = results[i].events
    /\ waiting => results = <<>> /\ calls = <<>> /\ expired = <<>>

\* The list holds the expired timers.
Timed ==
    /\ IsInjective(expired) /\ Range(expired) = Of("EXPIRED")
    /\ \A t \in Range(expired) : timers[t].left <= 0
    /\ \A t \in Range(expired) : \A u \in Behind(expired, t) : timers[t].left <= timers[u].left

ReactorInv == TypeOK /\ Stacked /\ Polled /\ Timed

-----------------------------------------------------------------------------
(* Lists without repetition *)

\* Where an element of the list stands, it is what is taken out of it.
LEMMA RemovedAt ==
    ASSUME NEW S, NEW s \in Seq(S), IsInjective(s), NEW i \in 1..Len(s)
    PROVE  RemoveFirst(s, s[i]) = SubSeq(s, 1, i - 1) \o SubSeq(s, i + 1, Len(s))
<1> DEFINE I == {k \in 1..Len(s) : s[k] = s[i]}
<1>1. DOMAIN s = 1..Len(s)
  BY LenProperties
<1>2. I = {i}
  BY <1>1 DEF IsInjective
<1>3. Min({i}) = i
  BY DEF Min
<1>4. SelectInSeq(s, LAMBDA v : v = s[i]) = i
  BY <1>2, <1>3 DEF SelectInSeq
<1>5. \E k \in 1..Len(s) : s[k] = s[i]
  OBVIOUS
<1>6. QED BY <1>4, <1>5 DEF RemoveFirst, RemoveAt

\* What is left of a list in which x stood at i.
LEMMA Removed ==
    ASSUME NEW S, NEW s \in Seq(S), IsInjective(s), NEW i \in 1..Len(s)
    PROVE  /\ RemoveFirst(s, s[i]) \in Seq(S)
           /\ Len(RemoveFirst(s, s[i])) = Len(s) - 1
           /\ \A k \in 1..Len(s) - 1 :
                RemoveFirst(s, s[i])[k] = IF k < i THEN s[k] ELSE s[k + 1]
<1> DEFINE a == SubSeq(s, 1, i - 1)
           b == SubSeq(s, i + 1, Len(s))
<1>1. Len(s) \in Nat /\ \A k \in 1..Len(s) : s[k] \in S
  BY LenProperties
<1>2. a \in Seq(S) /\ Len(a) = i - 1 /\ \A k \in 1..i - 1 : a[k] = s[k]
  <2>1. \A k \in 1..i - 1 : s[k] \in S
    BY <1>1
  <2>2. 1 \in Int /\ i - 1 \in Int
    BY <1>1
  <2>3. /\ a \in Seq(S) /\ Len(a) = IF 1 <= i - 1 THEN i - 1 - 1 + 1 ELSE 0
        /\ \A k \in 1..i - 1 - 1 + 1 : a[k] = s[1 + k - 1]
    BY <2>1, <2>2, SubSeqProperties
  <2>4. QED BY <2>3, <1>1
<1>3. b \in Seq(S) /\ Len(b) = Len(s) - i /\ \A k \in 1..Len(s) - i : b[k] = s[i + k]
  <2>1. \A k \in i + 1..Len(s) : s[k] \in S
    BY <1>1
  <2>2. i + 1 \in Int /\ Len(s) \in Int
    BY <1>1
  <2>3. /\ b \in Seq(S) /\ Len(b) = IF i + 1 <= Len(s) THEN Len(s) - (i + 1) + 1 ELSE 0
        /\ \A k \in 1..Len(s) - (i + 1) + 1 : b[k] = s[i + 1 + k - 1]
    BY <2>1, <2>2, SubSeqProperties
  <2>4. QED BY <2>3, <1>1
<1>4. RemoveFirst(s, s[i]) = a \o b
  BY RemovedAt
<1> HIDE DEF a, b
<1>5. /\ a \o b \in Seq(S) /\ Len(a \o b) = Len(a) + Len(b)
      /\ \A k \in 1..Len(a) + Len(b) : (a \o b)[k] = IF k <= Len(a) THEN a[k] ELSE b[k - Len(a)]
  BY <1>2, <1>3, ConcatProperties
<1>6. Len(a) + Len(b) = Len(s) - 1
  BY <1>1, <1>2, <1>3
<1>7. ASSUME NEW k \in 1..Len(s) - 1
      PROVE  (a \o b)[k] = IF k < i THEN s[k] ELSE s[k + 1]
  <2>1. CASE k < i
    BY <1>1, <1>2, <1>5, <1>6, <2>1
  <2>2. CASE k >= i
    <3>1. k - Len(a) \in 1..Len(s) - i /\ i + (k - Len(a)) = k + 1 /\ ~(k <= Len(a))
      BY <1>1, <1>2, <2>2
    <3>2. (a \o b)[k] = b[k - Len(a)]
      BY <1>5, <1>6, <3>1
    <3>3. b[k - Len(a)] = s[k + 1]
      BY <1>3, <3>1
    <3>4. QED BY <1>1, <2>2, <3>2, <3>3
  <2>3. k < i \/ k >= i
    BY <1>1
  <2>4. QED BY <2>1, <2>2, <2>3
<1>8. QED BY <1>4, <1>5, <1>6, <1>7

\* It is no list of these elements that does not hold x.
LEMMA NotThere ==
    ASSUME NEW s, NEW x, \A i \in 1..Len(s) : s[i] # x
    PROVE  RemoveFirst(s, x) = s
BY DEF RemoveFirst

\* A list loses the element, and the rest keeps its order.
LEMMA Without ==
    ASSUME NEW S, NEW s \in Seq(S), IsInjective(s), NEW x
    PROVE  /\ RemoveFirst(s, x) \in Seq(S) /\ IsInjective(RemoveFirst(s, x))
           /\ Range(RemoveFirst(s, x)) = Range(s) \ {x}
           /\ \A y : y # x => Behind(RemoveFirst(s, x), y) = Behind(s, y) \ {x}
<1> DEFINE r == RemoveFirst(s, x)
<1>1. Len(s) \in Nat /\ DOMAIN s = 1..Len(s)
  BY LenProperties
<1>2. CASE \A i \in 1..Len(s) : s[i] # x
  <2>1. r = s
    BY <1>2, NotThere
  <2>2. x \notin Range(s)
    BY <1>1, <1>2 DEF Range
  <2>3. \A y : x \notin Behind(s, y)
    BY <1>1, <1>2 DEF Behind
  <2> HIDE DEF r
  <2>4. QED BY <2>1, <2>2, <2>3 DEF r
<1>3. CASE \E i \in 1..Len(s) : s[i] = x
  <2>1. PICK i \in 1..Len(s) : s[i] = x
    BY <1>3
  <2>2. /\ r \in Seq(S) /\ Len(r) = Len(s) - 1
        /\ \A k \in 1..Len(s) - 1 : r[k] = IF k < i THEN s[k] ELSE s[k + 1]
    BY <2>1, Removed
  <2> HIDE DEF r
  <2>3. DOMAIN r = 1..Len(s) - 1
    BY <2>2, LenProperties
  <2> DEFINE old(k) == IF k < i THEN k ELSE k + 1
  <2>4. \A k \in DOMAIN r : old(k) \in DOMAIN s /\ old(k) # i /\ r[k] = s[old(k)]
    BY <1>1, <2>2, <2>3
  <2>5. \A k, l \in DOMAIN r : (k < l <=> old(k) < old(l)) /\ (old(k) = old(l) => k = l)
    BY <1>1, <2>3
  <2>6. \A m \in DOMAIN s : m # i => \E k \in DOMAIN r : old(k) = m
    <3> SUFFICES ASSUME NEW m \in DOMAIN s, m # i PROVE \E k \in DOMAIN r : old(k) = m
      OBVIOUS
    <3>1. CASE m < i
      BY <1>1, <2>3, <3>1
    <3>2. CASE m > i
      <4>1. m - 1 \in DOMAIN r /\ old(m - 1) = m
        BY <1>1, <2>3, <3>2
      <4>2. QED BY <4>1
    <3>3. QED BY <1>1, <3>1, <3>2
  <2>7. \A m \in DOMAIN s : s[m] = x <=> m = i
    BY <1>1, <2>1 DEF IsInjective
  <2> HIDE DEF old
  <2>8. IsInjective(r)
    BY <2>4, <2>5 DEF IsInjective
  <2>9. Range(r) = Range(s) \ {x}
    BY <2>4, <2>6, <2>7 DEF Range
  <2>10. ASSUME NEW y, y # x PROVE Behind(r, y) = Behind(s, y) \ {x}
    <3>1. ASSUME NEW z \in Behind(r, y) PROVE z \in Behind(s, y) \ {x}
      <4>1. PICK k \in DOMAIN r, l \in DOMAIN r : r[l] = y /\ l < k /\ z = r[k]
        BY <3>1 DEF Behind
      <4>2. s[old(l)] = y /\ old(l) < old(k) /\ z = s[old(k)] /\ z # x
        BY <4>1, <2>4, <2>5, <2>7
      <4>3. QED BY <4>2, <2>4 DEF Behind
    <3>2. ASSUME NEW z \in Behind(s, y) \ {x} PROVE z \in Behind(r, y)
      <4>1. PICK m \in DOMAIN s, n \in DOMAIN s : s[n] = y /\ n < m /\ z = s[m]
        BY <3>2 DEF Behind
      <4>2. m # i /\ n # i
        BY <4>1, <2>7, <2>10, <3>2
      <4>3. PICK k \in DOMAIN r, l \in DOMAIN r : old(k) = m /\ old(l) = n
        BY <4>2, <2>6
      <4>4. r[l] = y /\ l < k /\ z = r[k]
        BY <4>1, <4>3, <2>4, <2>5
      <4>5. QED BY <4>4 DEF Behind
    <3>3. QED BY <3>1, <3>2
  <2>11. QED BY <2>2, <2>8, <2>9, <2>10 DEF r
<1>4. QED BY <1>2, <1>3
\* What stands behind an element is in the list.
LEMMA BehindIsIn ==
    ASSUME NEW s, NEW x
    PROVE  Behind(s, x) \subseteq Range(s) /\ (x \notin Range(s) => Behind(s, x) = {})
BY DEF Behind, Range

\* Everything stands behind what is put in front.
LEMMA InFront ==
    ASSUME NEW S, NEW s \in Seq(S), IsInjective(s), NEW x \in S, x \notin Range(s)
    PROVE  /\ <<x>> \o s \in Seq(S) /\ IsInjective(<<x>> \o s)
           /\ Range(<<x>> \o s) = {x} \cup Range(s)
           /\ Behind(<<x>> \o s, x) = Range(s)
           /\ \A y : y # x => Behind(<<x>> \o s, y) = Behind(s, y)
<1> DEFINE r == <<x>> \o s
<1>1. Len(s) \in Nat /\ DOMAIN s = 1..Len(s)
  BY LenProperties
<1>2. <<x>> \in Seq(S) /\ Len(<<x>>) = 1 /\ <<x>>[1] = x
  OBVIOUS
<1>3. /\ r \in Seq(S) /\ Len(r) = 1 + Len(s)
      /\ \A k \in 1..1 + Len(s) : r[k] = IF k <= 1 THEN <<x>>[k] ELSE s[k - 1]
  BY <1>2, ConcatProperties
<1> HIDE DEF r
<1>4. DOMAIN r = 1..1 + Len(s)
  BY <1>3, LenProperties
<1>5. 1 \in DOMAIN r /\ r[1] = x
  BY <1>1, <1>2, <1>3, <1>4
<1>6. \A k \in DOMAIN s : k + 1 \in DOMAIN r /\ r[k + 1] = s[k]
  BY <1>1, <1>3, <1>4
<1>7. \A k \in DOMAIN r : k = 1 \/ (k - 1 \in DOMAIN s /\ r[k] = s[k - 1])
  BY <1>1, <1>3, <1>4
<1>8. \A k \in DOMAIN s : s[k] # x
  BY DEF Range
<1>9. IsInjective(r)
  <2> SUFFICES ASSUME NEW i \in DOMAIN r, NEW j \in DOMAIN r, r[i] = r[j] PROVE i = j
    BY DEF IsInjective
  <2>1. CASE i = 1 \/ j = 1
    BY <2>1, <1>5, <1>7, <1>8
  <2>2. CASE i # 1 /\ j # 1
    <3>1. i - 1 = j - 1
      BY <2>2, <1>7 DEF IsInjective
    <3>2. QED BY <3>1, <1>1, <1>4
  <2>3. QED BY <2>1, <2>2
<1>10. Range(r) = {x} \cup Range(s)
  <2>1. Range(r) \subseteq {x} \cup Range(s)
    BY <1>5, <1>7 DEF Range
  <2>2. {x} \cup Range(s) \subseteq Range(r)
    BY <1>5, <1>6 DEF Range
  <2>3. QED BY <2>1, <2>2
<1>11. Behind(r, x) = Range(s)
  <2>1. Behind(r, x) \subseteq Range(s)
    <3> SUFFICES ASSUME NEW k \in DOMAIN r, NEW i \in DOMAIN r, r[i] = x, i < k
                 PROVE  r[k] \in Range(s)
      BY DEF Behind
    <3>1. k # 1
      BY <1>1, <1>4
    <3>2. QED BY <3>1, <1>7 DEF Range
  <2>2. Range(s) \subseteq Behind(r, x)
    <3> SUFFICES ASSUME NEW k \in DOMAIN s PROVE s[k] \in Behind(r, x)
      BY DEF Range
    <3>1. 1 < k + 1
      BY <1>1
    <3>2. QED BY <3>1, <1>5, <1>6 DEF Behind
  <2>3. QED BY <2>1, <2>2
<1>12. ASSUME NEW y, y # x PROVE Behind(r, y) = Behind(s, y)
  <2>1. Behind(r, y) \subseteq Behind(s, y)
    <3> SUFFICES ASSUME NEW k \in DOMAIN r, NEW i \in DOMAIN r, r[i] = y, i < k
                 PROVE  r[k] \in Behind(s, y)
      BY DEF Behind
    <3>1. i # 1 /\ k # 1
      BY <1>1, <1>4, <1>5, <1>12
    <3>2. i - 1 \in DOMAIN s /\ k - 1 \in DOMAIN s /\ s[i - 1] = y /\ r[k] = s[k - 1]
      BY <3>1, <1>7
    <3>3. i - 1 < k - 1
      BY <1>1, <1>4
    <3>4. QED BY <3>2, <3>3 DEF Behind
  <2>2. Behind(s, y) \subseteq Behind(r, y)
    <3> SUFFICES ASSUME NEW k \in DOMAIN s, NEW i \in DOMAIN s, s[i] = y, i < k
                 PROVE  s[k] \in Behind(r, y)
      BY DEF Behind
    <3>1. i + 1 < k + 1
      BY <1>1
    <3>2. QED BY <3>1, <1>6 DEF Behind
  <2>3. QED BY <2>1, <2>2
<1>13. QED BY <1>3, <1>9, <1>10, <1>11, <1>12 DEF r

\* The first element is taken off, and the rest keeps its order.
LEMMA TakenOff ==
    ASSUME NEW S, NEW s \in Seq(S), IsInjective(s), s # <<>>
    PROVE  /\ Head(s) \in S /\ Head(s) \in Range(s) /\ Tail(s) \in Seq(S) /\ IsInjective(Tail(s))
           /\ Range(Tail(s)) = Range(s) \ {Head(s)}
           /\ \A y : y # Head(s) => Behind(Tail(s), y) = Behind(s, y)
           /\ \A y : Head(s) \notin Behind(s, y)
<1> DEFINE r == Tail(s)
<1>1. Len(s) \in Nat /\ DOMAIN s = 1..Len(s) /\ Len(s) # 0
  BY LenProperties, EmptySeq
<1>2. Head(s) = s[1] /\ 1 \in DOMAIN s
  BY <1>1
<1>3. /\ Head(s) \in S /\ r \in Seq(S) /\ Len(r) = Len(s) - 1
      /\ \A i \in 1..Len(r) : r[i] = s[i + 1]
  BY HeadTailProperties
<1> HIDE DEF r
<1>4. DOMAIN r = 1..Len(s) - 1
  BY <1>3, LenProperties
<1>5. \A k \in DOMAIN r : k + 1 \in DOMAIN s /\ r[k] = s[k + 1]
  BY <1>1, <1>3, <1>4
<1>6. \A k \in DOMAIN s : k = 1 \/ (k - 1 \in DOMAIN r /\ r[k - 1] = s[k])
  <2> SUFFICES ASSUME NEW k \in DOMAIN s, k # 1 PROVE k - 1 \in DOMAIN r /\ r[k - 1] = s[k]
    OBVIOUS
  <2>1. k - 1 \in DOMAIN r /\ (k - 1) + 1 = k
    BY <1>1, <1>4
  <2>2. QED BY <2>1, <1>5
<1>7. \A k \in DOMAIN s : s[k] = s[1] <=> k = 1
  BY <1>2 DEF IsInjective
<1>8. IsInjective(r)
  <2> SUFFICES ASSUME NEW i \in DOMAIN r, NEW j \in DOMAIN r, r[i] = r[j] PROVE i = j
    BY DEF IsInjective
  <2>1. i + 1 = j + 1
    BY <1>5 DEF IsInjective
  <2>2. QED BY <2>1, <1>1, <1>4
<1>9. Range(r) = Range(s) \ {s[1]}
  <2>1. \A k \in DOMAIN r : k + 1 # 1
    BY <1>1, <1>4
  <2>2. Range(r) \subseteq Range(s) \ {s[1]}
    BY <1>5, <1>7, <2>1 DEF Range
  <2>3. Range(s) \ {s[1]} \subseteq Range(r)
    BY <1>6 DEF Range
  <2>4. QED BY <2>2, <2>3
<1>10. ASSUME NEW y, y # s[1] PROVE Behind(r, y) = Behind(s, y)
  <2>1. Behind(r, y) \subseteq Behind(s, y)
    <3> SUFFICES ASSUME NEW k \in DOMAIN r, NEW i \in DOMAIN r, r[i] = y, i < k
                 PROVE  r[k] \in Behind(s, y)
      BY DEF Behind
    <3>1. i + 1 < k + 1
      BY <1>1, <1>4
    <3>2. QED BY <3>1, <1>5 DEF Behind
  <2>2. Behind(s, y) \subseteq Behind(r, y)
    <3> SUFFICES ASSUME NEW k \in DOMAIN s, NEW i \in DOMAIN s, s[i] = y, i < k
                 PROVE  s[k] \in Behind(r, y)
      BY DEF Behind
    <3>1. i # 1 /\ k # 1 /\ i - 1 < k - 1
      BY <1>1, <1>10
    <3>2. QED BY <3>1, <1>6 DEF Behind
  <2>3. QED BY <2>1, <2>2
<1>11. ASSUME NEW y PROVE s[1] \notin Behind(s, y)
  <2> SUFFICES ASSUME NEW k \in DOMAIN s, NEW i \in DOMAIN s, i < k PROVE s[k] # s[1]
    BY DEF Behind
  <2>1. k # 1
    BY <1>1
  <2>2. QED BY <2>1, <1>7
<1>12. s[1] \in Range(s)
  BY <1>2 DEF Range
<1>13. QED BY <1>2, <1>3, <1>8, <1>9, <1>10, <1>11, <1>12 DEF r

\* A list without repetition is as long as its set is large.
LEMMA AsLongAsLarge ==
    ASSUME NEW S, NEW s \in Seq(S), IsInjective(s)
    PROVE  Len(s) = Cardinality(Range(s))
<1>1. Len(s) \in Nat /\ DOMAIN s = 1..Len(s)
  BY LenProperties
<1>2. s \in Bijection(1..Len(s), Range(s))
  <2>1. s \in [1..Len(s) -> Range(s)]
    BY <1>1, LenProperties DEF Range
  <2>2. s \in Injection(1..Len(s), Range(s))
    BY <1>1, <2>1 DEF Injection, IsInjective
  <2>3. s \in Surjection(1..Len(s), Range(s))
    BY <1>1, <2>1 DEF Surjection, Range
  <2>4. QED BY <2>2, <2>3 DEF Bijection
<1>3. ExistsBijection(1..Len(s), Range(s))
  BY <1>2 DEF ExistsBijection
<1>4. IsFiniteSet(1..Len(s)) /\ Cardinality(1..Len(s)) = Len(s)
  BY <1>1, FS_Interval
<1>5. QED BY <1>3, <1>4, FS_Bijection

\* An order of a finite set is a list without repetition that holds all of it.
LEMMA Ordered ==
    ASSUME NEW S, IsFiniteSet(S), NEW order \in SetToSeqs(S)
    PROVE  order \in Seq(S) /\ IsInjective(order) /\ Range(order) = S
<1> DEFINE n == Cardinality(S)
<1>1. n \in Nat
  BY FS_CardinalityType
<1>2. order \in [1..n -> S] /\ \A i, j \in 1..n : i # j => order[i] # order[j]
  BY DEF SetToSeqs
<1>3. IsFiniteSet(1..n) /\ Cardinality(1..n) = n
  BY <1>1, FS_Interval
<1> HIDE DEF n
<1>4. order \in Seq(S)
  BY <1>1, <1>2, SeqDef
<1>5. IsInjective(order)
  BY <1>2 DEF IsInjective
<1>6. order \in Injection(1..n, S)
  BY <1>2 DEF Injection, IsInjective
<1>7. order \in Surjection(1..n, S)
  BY <1>3, <1>6, FS_Injection DEF n
<1>8. Range(order) = S
  BY <1>2, <1>7 DEF Surjection, Range
<1>9. QED BY <1>4, <1>5, <1>8
-----------------------------------------------------------------------------
(* The stack of jobs, with the calls whose marks are on it *)

\* Only what stood below a mark is forgotten.
LEMMA ForgetsBelow ==
    ASSUME NEW c \in Seq(Frame), NEW S
    PROVE  /\ Forget(c, S) \in Seq(Frame) /\ Len(Forget(c, S)) = Len(c)
           /\ DOMAIN Forget(c, S) = DOMAIN c
           /\ \A i \in DOMAIN c : /\ Forget(c, S)[i].mark = c[i].mark
                                  /\ Forget(c, S)[i].syncing = c[i].syncing
                                  /\ Forget(c, S)[i].below = c[i].below \ S
<1>1. Len(c) \in Nat /\ DOMAIN c = 1..Len(c) /\ \A i \in 1..Len(c) : c[i] \in Frame
  BY LenProperties, ElementOfSeq
<1> DEFINE r == Forget(c, S)
<1>2. DOMAIN r = 1..Len(c) /\ \A i \in 1..Len(c) : r[i] = [c[i] EXCEPT !.below = @ \ S]
  BY <1>1 DEF Forget
<1>3. \A i \in 1..Len(c) : r[i] = [mark |-> c[i].mark, syncing |-> c[i].syncing,
                                   below |-> c[i].below \ S]
  BY <1>1, <1>2 DEF Frame
<1>4. ASSUME NEW i \in 1..Len(c) PROVE r[i] \in Frame
  <2>1. c[i].mark \in {0} \cup Marks /\ c[i].syncing \in BOOLEAN /\ c[i].below \in SUBSET Pending
    BY <1>1 DEF Frame
  <2>2. c[i].below \ S \in SUBSET Pending
    BY <2>1
  <2> HIDE DEF r
  <2>3. [mark |-> c[i].mark, syncing |-> c[i].syncing, below |-> c[i].below \ S] \in Frame
    BY <2>1, <2>2 DEF Frame
  <2>4. QED BY <1>3, <2>3, Zenon
<1>5. r = [i \in 1..Len(c) |-> r[i]]
  BY <1>1 DEF Forget
<1> HIDE DEF r
<1>6. r \in Seq(Frame)
  <2>1. r \in [1..Len(c) -> Frame]
    BY <1>4, <1>5
  <2>2. QED BY <1>1, <2>1, SeqDef
<1>7. Len(r) = Len(c)
  BY <1>1, <1>2, <1>6, LenProperties
<1>8. QED BY <1>1, <1>2, <1>3, <1>6, <1>7 DEF r

\* A job has no mark's name.
LEMMA NoJobIsMark == Jobs \cap Marks = {} /\ 0 \notin Jobs /\ 0 \notin Marks
BY ReactorAssumption DEF Marks

\* A call that waits is at most the innermost.
LEMMA MarksAreDepths ==
    ASSUME NEW js, NEW cs, StackedAs(js, cs)
    PROVE  /\ Len(cs) \in Nat /\ DOMAIN cs = 1..Len(cs) /\ DOMAIN cs \subseteq Marks
           /\ \A d \in DOMAIN cs : cs[d] \in Frame
BY LenProperties, ElementOfSeq, ReactorAssumption DEF StackedAs, Marks

\* What is no mark is taken from the stack, and from what stands below the marks.
LEMMA StackWithout ==
    ASSUME NEW js, NEW cs, StackedAs(js, cs), NEW j, \A d \in DOMAIN cs : Marked(cs, d) => d # j
    PROVE  StackedAs(RemoveFirst(js, j), Forget(cs, {j}))
<1> DEFINE r == RemoveFirst(js, j)
           c == Forget(cs, {j})
<1>1. /\ r \in Seq(Pending) /\ IsInjective(r) /\ Range(r) = Range(js) \ {j}
      /\ \A y : y # j => Behind(r, y) = Behind(js, y) \ {j}
  BY Without DEF StackedAs
<1>2. /\ c \in Seq(Frame) /\ Len(c) = Len(cs) /\ DOMAIN c = DOMAIN cs
      /\ \A i \in DOMAIN cs : /\ c[i].mark = cs[i].mark /\ c[i].syncing = cs[i].syncing
                              /\ c[i].below = cs[i].below \ {j}
  BY ForgetsBelow DEF StackedAs
<1> HIDE DEF r, c
<1>3. \A d : Marked(c, d) <=> Marked(cs, d)
  BY <1>2 DEF Marked
<1>4. \A m \in Marks : m \in Range(r) => Marked(c, m)
  BY <1>1, <1>3 DEF StackedAs
<1>5. ASSUME NEW d \in DOMAIN c PROVE c[d].syncing => Marked(c, d)
  BY <1>2, <1>3, <1>5 DEF StackedAs
<1>6. ASSUME NEW d \in DOMAIN c, Marked(c, d)
      PROVE  /\ c[d].mark = d /\ d \in Range(r) /\ Behind(r, d) = c[d].below
             /\ \A e \in 1..d - 1 : Marked(c, e) => e \in c[d].below
  <2>1. d \in DOMAIN cs /\ Marked(cs, d) /\ d # j
    BY <1>2, <1>3, <1>6
  <2>2. /\ cs[d].mark = d /\ d \in Range(js) /\ Behind(js, d) = cs[d].below
        /\ \A e \in 1..d - 1 : Marked(cs, e) => e \in cs[d].below
    BY <2>1 DEF StackedAs
  <2>3. \A e : Marked(c, e) => Marked(cs, e) /\ e # j
    BY <1>3 DEF Marked
  <2>4. QED BY <1>1, <1>2, <2>1, <2>2, <2>3
<1>7. StackedAs(r, c)
  BY <1>1, <1>2, <1>4, <1>5, <1>6 DEF StackedAs
<1>8. QED BY <1>7 DEF r, c

\* The same, for what is on top.
LEMMA StackBelowTop ==
    ASSUME NEW js, NEW cs, StackedAs(js, cs), js # <<>>,
           \A d \in DOMAIN cs : Marked(cs, d) => d # Head(js)
    PROVE  StackedAs(Tail(js), Forget(cs, {Head(js)}))
<1> DEFINE j == Head(js)
           r == Tail(js)
           c == Forget(cs, {j})
<1>1. /\ r \in Seq(Pending) /\ IsInjective(r) /\ Range(r) = Range(js) \ {j}
      /\ \A y : y # j => Behind(r, y) = Behind(js, y)
      /\ \A y : j \notin Behind(js, y)
  BY TakenOff DEF StackedAs
<1>2. /\ c \in Seq(Frame) /\ Len(c) = Len(cs) /\ DOMAIN c = DOMAIN cs
      /\ \A i \in DOMAIN cs : /\ c[i].mark = cs[i].mark /\ c[i].syncing = cs[i].syncing
                              /\ c[i].below = cs[i].below \ {j}
  BY ForgetsBelow DEF StackedAs
<1>0. \A d \in DOMAIN cs : Marked(cs, d) => d # j
  OBVIOUS
<1> HIDE DEF r, c, j
<1>3. \A d : Marked(c, d) <=> Marked(cs, d)
  BY <1>2 DEF Marked
<1>4. \A m \in Marks : m \in Range(r) => Marked(c, m)
  BY <1>1, <1>3 DEF StackedAs
<1>5. ASSUME NEW d \in DOMAIN c PROVE c[d].syncing => Marked(c, d)
  BY <1>2, <1>3, <1>5 DEF StackedAs
<1>6. ASSUME NEW d \in DOMAIN c, Marked(c, d)
      PROVE  /\ c[d].mark = d /\ d \in Range(r) /\ Behind(r, d) = c[d].below
             /\ \A e \in 1..d - 1 : Marked(c, e) => e \in c[d].below
  <2>1. d \in DOMAIN cs /\ Marked(cs, d) /\ d # j
    BY <1>0, <1>2, <1>3, <1>6
  <2>2. /\ cs[d].mark = d /\ d \in Range(js) /\ Behind(js, d) = cs[d].below
        /\ \A e \in 1..d - 1 : Marked(cs, e) => e \in cs[d].below
    BY <2>1 DEF StackedAs
  <2>3. \A e : Marked(c, e) => Marked(cs, e) /\ e # j
    BY <1>0, <1>3 DEF Marked
  <2>4. Behind(r, d) = Behind(js, d) /\ c[d].below = cs[d].below
    <3>1. c[d].below = cs[d].below \ {j} /\ j \notin cs[d].below
      BY <1>1, <1>2, <2>1, <2>2
    <3>2. QED BY <3>1, <1>1, <2>1
  <2>5. QED BY <1>1, <1>2, <2>1, <2>2, <2>3, <2>4
<1>7. StackedAs(r, c)
  BY <1>1, <1>2, <1>4, <1>5, <1>6 DEF StackedAs
<1>8. QED BY <1>7 DEF r, c, j

\* A job is put on top.
LEMMA StackWithTop ==
    ASSUME NEW js, NEW cs, StackedAs(js, cs), NEW j \in Jobs, j \notin Range(js)
    PROVE  StackedAs(<<j>> \o js, cs)
<1>1. j \in Pending /\ j \notin Marks
  BY NoJobIsMark DEF Pending
<1> DEFINE r == <<j>> \o js
<1>2. /\ r \in Seq(Pending) /\ IsInjective(r) /\ Range(r) = {j} \cup Range(js)
      /\ \A y : y # j => Behind(r, y) = Behind(js, y)
  BY <1>1, InFront DEF StackedAs
<1> HIDE DEF r
<1>3. \A d \in DOMAIN cs : d # j
  BY <1>1, MarksAreDepths
<1>4. \A d \in DOMAIN cs : Behind(r, d) = Behind(js, d)
  BY <1>2, <1>3
<1>5. StackedAs(r, cs)
  BY <1>1, <1>2, <1>4 DEF StackedAs
<1>6. QED BY <1>5 DEF r

\* A handler is called.
LEMMA StackCalled ==
    ASSUME NEW js, NEW cs, StackedAs(js, cs), Len(cs) < MaxDepth
    PROVE  StackedAs(js, Append(cs, NewCall))
<1> DEFINE c == Append(cs, NewCall)
           n == Len(cs)
<1>1. n \in Nat /\ DOMAIN cs = 1..n /\ cs \in Seq(Frame)
  BY MarksAreDepths DEF StackedAs
<1>2. NewCall \in Frame /\ NewCall.mark = 0 /\ NewCall.syncing = FALSE
  BY DEF NewCall, Frame
<1>3. c \in Seq(Frame) /\ Len(c) = n + 1 /\ c[n + 1] = NewCall /\ \A i \in 1..n : c[i] = cs[i]
  BY <1>1, <1>2, AppendProperties
<1>4. n + 1 <= MaxDepth
  BY <1>1, ReactorAssumption
<1> HIDE DEF n, c
<1>5. DOMAIN c = 1..n + 1
  BY <1>3, LenProperties
<1>6. \A d : Marked(c, d) <=> Marked(cs, d)
  BY <1>1, <1>2, <1>3, <1>5 DEF Marked
<1>7. \A d \in DOMAIN c : (c[d].syncing \/ Marked(c, d)) => d \in DOMAIN cs /\ c[d] = cs[d]
  BY <1>1, <1>2, <1>3, <1>5 DEF Marked
<1>8. StackedAs(js, c)
  BY <1>3, <1>4, <1>6, <1>7 DEF StackedAs
<1>9. QED BY <1>8 DEF c
\* A call that waits is the same otherwise.
LEMMA FrameWaits ==
    ASSUME NEW f \in Frame
    PROVE  [f EXCEPT !.syncing = TRUE] = [mark |-> f.mark, syncing |-> TRUE, below |-> f.below]
<1>1. ASSUME NEW v PROVE [f EXCEPT !.syncing = v] = [mark |-> f.mark, syncing |-> v, below |-> f.below]
  BY DEF Frame
<1>2. QED BY <1>1

\* The innermost call takes its mark away.
LEMMA StackWithoutMark ==
    ASSUME NEW js, NEW cs, StackedAs(js, cs), cs # <<>>
    PROVE  LET d == Len(cs) IN
           StackedAs(RemoveFirst(js, d), [Forget(cs, {d}) EXCEPT ![d] = NewCall])
<1> DEFINE n == Len(cs)
           r == RemoveFirst(js, n)
           f == Forget(cs, {n})
           c == [f EXCEPT ![n] = NewCall]
<1>1. n \in Nat /\ n # 0 /\ DOMAIN cs = 1..n /\ n \in Marks
  <2>1. n \in Nat /\ DOMAIN cs = 1..n /\ DOMAIN cs \subseteq Marks
    BY MarksAreDepths
  <2>2. n # 0
    BY EmptySeq DEF StackedAs
  <2>3. QED BY <2>1, <2>2
<1>2. /\ r \in Seq(Pending) /\ IsInjective(r) /\ Range(r) = Range(js) \ {n}
      /\ \A y : y # n => Behind(r, y) = Behind(js, y) \ {n}
  BY Without DEF StackedAs
<1>3. /\ f \in Seq(Frame) /\ Len(f) = n /\ DOMAIN f = DOMAIN cs
      /\ \A i \in DOMAIN cs : /\ f[i].mark = cs[i].mark /\ f[i].syncing = cs[i].syncing
                              /\ f[i].below = cs[i].below \ {n}
  BY ForgetsBelow DEF StackedAs
<1>4. NewCall \in Frame /\ NewCall.mark = 0 /\ NewCall.syncing = FALSE
  BY DEF NewCall, Frame
<1> HIDE DEF f
<1>5. /\ c \in Seq(Frame) /\ Len(c) = n /\ \A i \in 1..n : c[i] = IF i = n THEN NewCall ELSE f[i]
  <2>1. n \in 1..Len(f)
    BY <1>1, <1>3
  <2> HIDE DEF n
  <2>2. /\ c \in Seq(Frame) /\ Len(c) = Len(f)
        /\ \A i \in 1..Len(f) : c[i] = IF i = n THEN NewCall ELSE f[i]
    BY <1>3, <1>4, <2>1, ExceptSeq
  <2>3. QED BY <1>3, <2>2
<1> HIDE DEF c, r, n
<1>6. DOMAIN c = 1..n
  BY <1>5, LenProperties
<1>7. \A d : Marked(c, d) <=> Marked(cs, d) /\ d # n
  BY <1>1, <1>3, <1>4, <1>5, <1>6 DEF Marked
<1>8. \A m \in Marks : m \in Range(r) => Marked(c, m)
  BY <1>2, <1>7 DEF StackedAs
<1>9. ASSUME NEW d \in DOMAIN c PROVE c[d].syncing => Marked(c, d)
  <2>1. CASE d = n
    BY <1>1, <1>4, <1>5, <2>1
  <2>2. CASE d # n
    <3>1. c[d].syncing = cs[d].syncing /\ d \in DOMAIN cs
      BY <1>1, <1>3, <1>5, <1>6, <2>2
    <3>2. QED BY <3>1, <2>2, <1>7 DEF StackedAs
  <2>3. QED BY <2>1, <2>2
<1>10. ASSUME NEW d \in DOMAIN c, Marked(c, d)
       PROVE  /\ c[d].mark = d /\ d \in Range(r) /\ Behind(r, d) = c[d].below
              /\ \A e \in 1..d - 1 : Marked(c, e) => e \in c[d].below
  <2>1. d \in DOMAIN cs /\ Marked(cs, d) /\ d # n
    BY <1>1, <1>6, <1>7, <1>10
  <2>2. /\ cs[d].mark = d /\ d \in Range(js) /\ Behind(js, d) = cs[d].below
        /\ \A e \in 1..d - 1 : Marked(cs, e) => e \in cs[d].below
    BY <2>1 DEF StackedAs
  <2>3. c[d].mark = cs[d].mark /\ c[d].below = cs[d].below \ {n}
    BY <1>3, <1>5, <1>6, <2>1
  <2>4. QED BY <1>2, <1>7, <2>1, <2>2, <2>3
<1>11. StackedAs(r, c)
  <2>1. Len(c) <= MaxDepth
    BY <1>5 DEF StackedAs, n
  <2>2. QED BY <1>2, <1>5, <1>8, <1>9, <1>10, <2>1 DEF StackedAs
<1>12. QED BY <1>11 DEF r, c, f, n

\* It sets its mark: everything pending is below, the marks of the outer calls too.
LEMMA StackWithMark ==
    ASSUME NEW js, NEW cs, StackedAs(js, cs), cs # <<>>, Last(cs).mark = 0
    PROVE  LET d == Len(cs) IN
           StackedAs(BSmallPending_Set(js, d),
                     [cs EXCEPT ![d] = [mark |-> d, syncing |-> FALSE, below |-> Range(js)]])
<1> DEFINE n == Len(cs)
           r == <<n>> \o js
           new == [mark |-> n, syncing |-> FALSE, below |-> Range(js)]
           c == [cs EXCEPT ![n] = new]
<1>1. n \in Nat /\ n # 0 /\ DOMAIN cs = 1..n /\ n \in Marks /\ cs[n] \in Frame /\ cs[n].mark = 0
  <2>1. n \in Nat /\ DOMAIN cs = 1..n /\ DOMAIN cs \subseteq Marks
        /\ \A d \in DOMAIN cs : cs[d] \in Frame
    BY MarksAreDepths
  <2>2. n # 0
    BY EmptySeq DEF StackedAs
  <2>3. QED BY <2>1, <2>2 DEF Last
<1>2. js \in Seq(Pending) /\ IsInjective(js) /\ cs \in Seq(Frame) /\ Len(cs) <= MaxDepth
  BY DEF StackedAs
<1>3. n \notin Range(js)
  BY <1>1 DEF StackedAs, Marked
<1>4. BSmallPending_Set(js, n) = r
  <2>1. \A i \in 1..Len(js) : js[i] # n
    BY <1>2, <1>3, LenProperties DEF Range
  <2>2. QED BY <2>1, NotThere DEF BSmallPending_Set
<1>5. n \in Pending
  BY <1>1 DEF Pending
<1>6. /\ r \in Seq(Pending) /\ IsInjective(r) /\ Range(r) = {n} \cup Range(js)
      /\ Behind(r, n) = Range(js) /\ \A y : y # n => Behind(r, y) = Behind(js, y)
  BY <1>2, <1>3, <1>5, InFront
<1>8. new \in Frame
  <2>1. n \in {0} \cup Marks /\ Range(js) \in SUBSET Pending
    BY <1>1, <1>2, RangeOfSeq
  <2> HIDE DEF n
  <2>2. QED BY <2>1 DEF Frame
<1>10. new.mark = n /\ new.below = Range(js)
  OBVIOUS
<1> HIDE DEF new
<1>11. c \in Seq(Frame) /\ Len(c) = n /\ \A i \in 1..n : c[i] = IF i = n THEN new ELSE cs[i]
  BY <1>1, <1>2, <1>8, ExceptSeq
<1> HIDE DEF n, r, c
<1>12. DOMAIN c = 1..n
  BY <1>11, LenProperties
<1>13. \A d : Marked(c, d) <=> Marked(cs, d) \/ d = n
  BY <1>1, <1>10, <1>11, <1>12 DEF Marked
<1>14. \A m \in Marks : m \in Range(r) => Marked(c, m)
  BY <1>2, <1>6, <1>13 DEF StackedAs
<1>15. ASSUME NEW d \in DOMAIN c PROVE c[d].syncing => Marked(c, d)
  BY <1>1, <1>10, <1>11, <1>12, <1>13 DEF StackedAs
<1>16. ASSUME NEW d \in DOMAIN c, Marked(c, d)
       PROVE  /\ c[d].mark = d /\ d \in Range(r) /\ Behind(r, d) = c[d].below
              /\ \A e \in 1..d - 1 : Marked(c, e) => e \in c[d].below
  <2>1. CASE d = n
    <3>1. c[d].mark = d /\ c[d].below = Range(js) /\ d \in Range(r) /\ Behind(r, d) = Range(js)
      BY <1>1, <1>6, <1>10, <1>11, <2>1
    <3>2. ASSUME NEW e \in 1..d - 1, Marked(c, e) PROVE e \in Range(js)
      <4>1. e # n
        BY <1>1, <2>1
      <4>2. Marked(cs, e) /\ e \in DOMAIN cs
        BY <1>13, <3>2, <4>1 DEF Marked
      <4>3. QED BY <4>2 DEF StackedAs
    <3>3. QED BY <3>1, <3>2
  <2>2. CASE d # n
    <3>1. Marked(cs, d) /\ d \in DOMAIN cs /\ c[d] = cs[d]
      BY <1>11, <1>12, <1>13, <1>16, <2>2 DEF Marked
    <3>2. /\ cs[d].mark = d /\ d \in Range(js) /\ Behind(js, d) = cs[d].below
          /\ \A e \in 1..d - 1 : Marked(cs, e) => e \in cs[d].below
      BY <3>1 DEF StackedAs
    <3>3. \A e \in 1..d - 1 : e # n
      BY <1>1, <1>12
    <3>4. QED BY <1>6, <1>13, <2>2, <3>1, <3>2, <3>3
  <2>3. QED BY <2>1, <2>2
<1>17. StackedAs(r, c)
  BY <1>2, <1>6, <1>11, <1>14, <1>15, <1>16 DEF StackedAs, n
<1>18. QED BY <1>4, <1>17 DEF n, new, c

\* It waits until its mark is on top.
LEMMA StackWaits ==
    ASSUME NEW js, NEW cs, StackedAs(js, cs), cs # <<>>, Last(cs).mark # 0
    PROVE  StackedAs(js, [cs EXCEPT ![Len(cs)].syncing = TRUE])
<1> DEFINE n == Len(cs)
           new == [cs[n] EXCEPT !.syncing = TRUE]
           c == [cs EXCEPT ![n] = new]
<1>1. n \in Nat /\ n # 0 /\ DOMAIN cs = 1..n /\ cs[n] \in Frame /\ cs[n].mark # 0
  <2>1. n \in Nat /\ DOMAIN cs = 1..n /\ \A d \in DOMAIN cs : cs[d] \in Frame
    BY MarksAreDepths
  <2>2. n # 0
    BY EmptySeq DEF StackedAs
  <2>3. QED BY <2>1, <2>2 DEF Last
<1>2. new = [mark |-> cs[n].mark, syncing |-> TRUE, below |-> cs[n].below]
  BY <1>1, FrameWaits
<1>3. new \in Frame /\ new.mark = cs[n].mark /\ new.below = cs[n].below
  BY <1>1, <1>2 DEF Frame
<1>4. [cs EXCEPT ![n].syncing = TRUE] = c
  BY <1>1
<1>5. cs \in Seq(Frame) /\ Len(cs) <= MaxDepth
  BY DEF StackedAs
<1> HIDE DEF new
<1>6. c \in Seq(Frame) /\ Len(c) = n /\ \A i \in 1..n : c[i] = IF i = n THEN new ELSE cs[i]
  BY <1>1, <1>3, <1>5, ExceptSeq
<1> HIDE DEF n, c
<1>7. DOMAIN c = 1..n
  BY <1>6, LenProperties
<1>8. \A d \in 1..n : c[d].mark = cs[d].mark /\ c[d].below = cs[d].below
                      /\ (d # n => c[d].syncing = cs[d].syncing)
  BY <1>3, <1>6
<1>9. \A d : Marked(c, d) <=> Marked(cs, d)
  BY <1>1, <1>7, <1>8 DEF Marked
<1>10. Marked(c, n)
  BY <1>1, <1>7, <1>8 DEF Marked
<1>11. StackedAs(js, c)
  BY <1>1, <1>5, <1>6, <1>7, <1>8, <1>9, <1>10 DEF StackedAs, n
<1>12. QED BY <1>4, <1>11 DEF n

\* It returns, without a mark.
LEMMA StackReturns ==
    ASSUME NEW js, NEW cs, StackedAs(js, cs), cs # <<>>, Last(cs).mark = 0
    PROVE  StackedAs(js, Front(cs))
<1> DEFINE n == Len(cs)
           c == Front(cs)
<1>1. n \in Nat /\ n # 0 /\ DOMAIN cs = 1..n /\ cs[n].mark = 0
      /\ \A d \in 1..n : cs[d] \in Frame
  <2>1. n \in Nat /\ DOMAIN cs = 1..n /\ \A d \in DOMAIN cs : cs[d] \in Frame
    BY MarksAreDepths
  <2>2. n # 0
    BY EmptySeq DEF StackedAs
  <2>3. QED BY <2>1, <2>2 DEF Last
<1>2. c \in Seq(Frame) /\ Len(c) = n - 1 /\ \A i \in 1..n - 1 : c[i] = cs[i]
  <2>1. \A i \in 1..n - 1 : cs[i] \in Frame
    BY <1>1
  <2>2. 1 \in Int /\ n - 1 \in Int
    BY <1>1
  <2> DEFINE q == SubSeq(cs, 1, n - 1)
  <2> HIDE DEF n
  <2>3. /\ q \in Seq(Frame) /\ Len(q) = IF 1 <= n - 1 THEN n - 1 - 1 + 1 ELSE 0
        /\ \A i \in 1..n - 1 - 1 + 1 : q[i] = cs[1 + i - 1]
    BY <2>1, <2>2, SubSeqProperties
  <2>4. c = q
    BY DEF Front, n
  <2> HIDE DEF c, q
  <2>5. QED BY <1>1, <2>3, <2>4
<1>3. Len(cs) <= MaxDepth /\ MaxDepth \in Nat
  BY ReactorAssumption DEF StackedAs
<1>4. n - 1 <= MaxDepth
  BY <1>1, <1>3
<1> HIDE DEF n, c
<1>5. DOMAIN c = 1..n - 1
  BY <1>2, LenProperties
<1>6. \A d \in DOMAIN c : d \in DOMAIN cs /\ c[d] = cs[d]
  BY <1>1, <1>2, <1>5
<1>7. \A d : Marked(c, d) <=> Marked(cs, d)
  BY <1>1, <1>2, <1>5 DEF Marked
<1>8. StackedAs(js, c)
  BY <1>2, <1>4, <1>6, <1>7 DEF StackedAs
<1>9. QED BY <1>8 DEF c
\* The handler that runs is the innermost and does not wait.
LEMMA Innermost ==
    ASSUME Stacked, Running
    PROVE  calls # <<>> /\ calls \in Seq(Frame) /\ Len(calls) \in 1..MaxDepth
BY EmptySeq, ReactorAssumption DEF Running, Stacked, StackedAs

\* A job is set or unset: first it is taken from wherever it was.
LEMMA JobTaken ==
    ASSUME Stacked, NEW j \in Jobs
    PROVE  /\ StackedAs(RemoveFirst(jobs, j), Forget(calls, {j}))
           /\ j \notin Range(RemoveFirst(jobs, j))
<1>1. \A d \in DOMAIN calls : d # j
  BY MarksAreDepths, NoJobIsMark DEF Stacked
<1>2. StackedAs(RemoveFirst(jobs, j), Forget(calls, {j}))
  BY <1>1, StackWithout DEF Stacked
<1>3. Range(RemoveFirst(jobs, j)) = Range(jobs) \ {j}
  BY Without DEF Stacked, StackedAs
<1>4. QED BY <1>2, <1>3

LEMMA SetKeepsStack ==
    ASSUME Stacked, NEW j \in Jobs, SetJob(j) \/ UnsetJob(j) PROVE Stacked'
<1>1. CASE SetJob(j)
  <2>1. jobs' = <<j>> \o RemoveFirst(jobs, j) /\ calls' = Forget(calls, {j})
    BY <1>1 DEF SetJob, BSmallPending_Set
  <2>2. StackedAs(jobs', calls')
    BY <2>1, JobTaken, StackWithTop
  <2>3. QED BY <2>2 DEF Stacked
<1>2. CASE UnsetJob(j)
  <2>1. jobs' = RemoveFirst(jobs, j) /\ calls' = Forget(calls, {j})
    BY <1>2 DEF UnsetJob, BSmallPending_Unset
  <2>2. StackedAs(jobs', calls')
    BY <2>1, JobTaken
  <2>3. QED BY <2>2 DEF Stacked
<1>3. QED BY <1>1, <1>2

LEMMA SyncKeepsStack ==
    ASSUME Stacked, SyncFromHere \/ SyncBreak \/ SyncCommit \/ Return PROVE Stacked'
<1>1. CASE SyncFromHere
  <2>1. /\ calls # <<>> /\ Last(calls).mark = 0
        /\ jobs' = BSmallPending_Set(jobs, Len(calls))
        /\ calls' = [calls EXCEPT ![Len(calls)] = [mark |-> Len(calls), syncing |-> FALSE,
                                                   below |-> Range(jobs)]]
    BY <1>1 DEF SyncFromHere, May, Running
  <2>2. StackedAs(jobs', calls')
    BY <2>1, StackWithMark DEF Stacked
  <2>3. QED BY <2>2 DEF Stacked
<1>2. CASE SyncBreak
  <2>1. /\ calls # <<>> /\ jobs' = RemoveFirst(jobs, Len(calls))
        /\ calls' = [Forget(calls, {Len(calls)}) EXCEPT ![Len(calls)] = NewCall]
    BY <1>2 DEF SyncBreak, Running, FreeMark, BSmallPending_Unset
  <2>2. StackedAs(jobs', calls')
    BY <2>1, StackWithoutMark DEF Stacked
  <2>3. QED BY <2>2 DEF Stacked
<1>3. CASE SyncCommit
  <2>1. /\ calls # <<>> /\ Last(calls).mark # 0 /\ jobs' = jobs
        /\ calls' = [calls EXCEPT ![Len(calls)].syncing = TRUE]
    BY <1>3 DEF SyncCommit, Running
  <2>2. StackedAs(jobs', calls')
    BY <2>1, StackWaits DEF Stacked
  <2>3. QED BY <2>2 DEF Stacked
<1>4. CASE Return
  <2>1. calls # <<>> /\ Last(calls).mark = 0 /\ jobs' = jobs /\ calls' = Front(calls)
    BY <1>4 DEF Return, Running
  <2>2. StackedAs(jobs', calls')
    BY <2>1, StackReturns DEF Stacked
  <2>3. QED BY <2>2 DEF Stacked
<1>5. QED BY <1>1, <1>2, <1>3, <1>4

\* The job that runs next, in the loop or for a handler that waits, is nobody's mark.
LEMMA NextIsNoMark ==
    ASSUME Stacked, jobs # <<>>,
           calls = <<>> \/ (calls # <<>> /\ Last(calls).syncing /\ SyncGoesOn)
    PROVE  /\ Head(jobs) \in Jobs
           /\ \A d \in DOMAIN calls : Marked(calls, d) => d # Head(jobs)
           /\ \A d \in DOMAIN calls : Marked(calls, d) => Head(jobs) \notin calls[d].below
<1>1. /\ Head(jobs) \in Pending /\ Head(jobs) \in Range(jobs)
      /\ \A y : Head(jobs) \notin Behind(jobs, y)
  BY TakenOff DEF Stacked, StackedAs
<1>2. \A d \in DOMAIN calls : Marked(calls, d) =>
          /\ calls[d].mark = d /\ Behind(jobs, d) = calls[d].below
          /\ \A e \in 1..d - 1 : Marked(calls, e) => e \in calls[d].below
  BY DEF Stacked, StackedAs
<1>3. Len(calls) \in Nat /\ DOMAIN calls = 1..Len(calls) /\ DOMAIN calls \subseteq Marks
  BY MarksAreDepths DEF Stacked
<1>4. ASSUME NEW d \in DOMAIN calls, Marked(calls, d) PROVE d # Head(jobs)
  <2> DEFINE n == Len(calls)
  <2>1. calls # <<>> /\ Last(calls).syncing /\ Head(jobs) # Last(calls).mark
    <3>1. calls # <<>>
      BY <1>3, <1>4, EmptySeq
    <3>2. QED BY <3>1 DEF SyncGoesOn
  <2>2. n \in DOMAIN calls
    BY <1>3, <1>4
  <2>3. Marked(calls, n) /\ calls[n].mark = n
    BY <1>2, <2>1, <2>2 DEF Stacked, StackedAs, Last
  <2>4. CASE d = n
    BY <2>1, <2>3, <2>4 DEF Last
  <2>5. CASE d # n
    <3>1. d \in 1..n - 1
      BY <1>3, <1>4, <2>5
    <3>2. d \in Behind(jobs, n)
      BY <1>2, <1>4, <2>2, <2>3, <3>1
    <3>3. QED BY <1>1, <3>2
  <2>6. QED BY <2>4, <2>5
<1>5. Head(jobs) \notin Marks
  <2> SUFFICES ASSUME Head(jobs) \in Marks PROVE FALSE
    OBVIOUS
  <2>1. Marked(calls, Head(jobs))
    BY <1>1 DEF Stacked, StackedAs
  <2>2. QED BY <1>4, <2>1 DEF Marked
<1>6. QED BY <1>1, <1>2, <1>4, <1>5 DEF Pending

\* A job runs.
LEMMA ExecKeepsStack ==
    ASSUME Stacked, calls = <<>> \/ (calls # <<>> /\ Last(calls).syncing /\ SyncGoesOn),
           BPendingGroup_ExecuteJob
    PROVE  Stacked'
<1>1. /\ jobs # <<>> /\ jobs' = Tail(jobs)
      /\ Len(Forget(calls, {Head(jobs)})) < MaxDepth
      /\ calls' = Append(Forget(calls, {Head(jobs)}), NewCall)
  BY DEF BPendingGroup_ExecuteJob, Called
<1>2. \A d \in DOMAIN calls : Marked(calls, d) => d # Head(jobs)
  BY <1>1, NextIsNoMark
<1>3. StackedAs(Tail(jobs), Forget(calls, {Head(jobs)}))
  BY <1>1, <1>2, StackBelowTop DEF Stacked
<1>4. StackedAs(jobs', calls')
  BY <1>1, <1>3, StackCalled
<1>5. QED BY <1>4 DEF Stacked

\* Every step keeps the stack.
LEMMA NextKeepsStack ==
    ASSUME Stacked, Next \/ UNCHANGED vars PROVE Stacked'
<1>1. CASE HandlerStep
  <2>1. CASE (\E j \in Jobs : SetJob(j) \/ UnsetJob(j)) \/ SyncFromHere \/ SyncBreak
             \/ SyncCommit \/ Return
    BY <2>1, SetKeepsStack, SyncKeepsStack
  <2>2. CASE \/ \E t \in Timers : BReactor_RemoveSmallTimer(t)
                                  \/ \E d \in Delays : BReactor_SetSmallTimer(t, d)
             \/ \E f \in Fds : \/ BReactor_AddFileDescriptor(f) \/ BReactor_RemoveFileDescriptor(f)
                               \/ \E events \in SUBSET WaitEvents :
                                     BReactor_SetFileDescriptorEvents(f, events)
             \/ BReactor_Quit
    <3>1. UNCHANGED <<jobs, calls>>
      BY <2>2 DEF BReactor_RemoveSmallTimer, BReactor_SetSmallTimer, BReactor_AddFileDescriptor,
                  BReactor_RemoveFileDescriptor, BReactor_SetFileDescriptorEvents, BReactor_Quit
    <3>2. QED BY <3>1 DEF Stacked
  <2>3. QED BY <1>1, <2>1, <2>2 DEF HandlerStep
<1>2. CASE SyncStep
  <2>1. CASE SyncGoesOn
    BY <1>2, <2>1, ExecKeepsStack DEF SyncStep
  <2>2. CASE ~SyncGoesOn
    <3>1. /\ calls # <<>> /\ jobs' = RemoveFirst(jobs, Len(calls))
          /\ calls' = [Forget(calls, {Len(calls)}) EXCEPT ![Len(calls)] = NewCall]
      BY <1>2, <2>2 DEF SyncStep, FreeMark, BSmallPending_Unset
    <3>2. StackedAs(jobs', calls')
      BY <3>1, StackWithoutMark DEF Stacked
    <3>3. QED BY <3>2 DEF Stacked
  <2>3. QED BY <2>1, <2>2
<1>3. CASE ExecJob
  BY <1>3, ExecKeepsStack DEF ExecJob, Looping
<1>4. CASE ExecTimer \/ ExecFd
  <2>1. jobs' = jobs /\ (calls' = calls \/ Called(calls))
    BY <1>4 DEF ExecTimer, ExecFd
  <2>2. StackedAs(jobs', calls')
    BY <2>1, StackCalled DEF Stacked, Called
  <2>3. QED BY <2>2 DEF Stacked
<1>5. CASE wait_for_events \/ EpollReturns \/ EpollTimesOut \/ Tick \/ Exited \/ UNCHANGED vars
  <2>1. UNCHANGED <<jobs, calls>>
    BY <1>5 DEF wait_for_events, EpollReturns, EpollReports, EpollTimesOut, Tick, Exited, vars
  <2>2. QED BY <2>1 DEF Stacked
<1>6. QED BY <1>1, <1>2, <1>3, <1>4, <1>5 DEF Next, LoopStep
-----------------------------------------------------------------------------
(* The results of epoll_wait and the pointers into them *)

FdState == [active : BOOLEAN, waitEvents : SUBSET WaitEvents, returned : Nat]
Result == [fd : Fds \cup {None}, events : SUBSET Events]

PolledTyped ==
    /\ fds \in [Fds -> FdState] /\ results \in Seq(Result) /\ pos \in 0..Len(results)
    /\ fresh \in [Fds -> SUBSET Events] /\ waiting \in BOOLEAN

\* The results still to be handled.
Left == pos + 1..Len(results)

\* What Polled says of the results and the descriptors.
Pointed ==
    /\ \A i \in Left : results[i].fd # None =>
         LET f == results[i].fd IN
         fds[f].active /\ fds[f].returned = i /\ fresh[f] = results[i].events
    /\ \A f \in Fds : fds[f].active /\ fds[f].returned # 0 =>
         fds[f].returned \in Left /\ results[fds[f].returned].fd = f

LEMMA PolledIs ==
    Polled <=> Pointed /\ (waiting => results = <<>> /\ calls = <<>> /\ expired = <<>>)
BY DEF Polled, Pointed, ResultsMatch, Left

\* A result is one of an fd, or was taken back.
LEMMA ResultOf ==
    ASSUME PolledTyped
    PROVE  /\ Len(results) \in Nat /\ pos \in Nat /\ pos <= Len(results)
           /\ DOMAIN results = 1..Len(results)
           /\ \A i \in 1..Len(results) : results[i].fd \in Fds \cup {None} /\ results[i].events \in SUBSET Events
           /\ \A f \in Fds : /\ fds[f].active \in BOOLEAN /\ fds[f].waitEvents \in SUBSET WaitEvents
                             /\ fds[f].returned \in Nat
<1>1. Len(results) \in Nat /\ DOMAIN results = 1..Len(results)
      /\ \A i \in 1..Len(results) : results[i] \in Result
  BY LenProperties, ElementOfSeq DEF PolledTyped
<1>2. pos \in Nat /\ pos <= Len(results)
  BY <1>1 DEF PolledTyped
<1>3. \A f \in Fds : fds[f] \in FdState
  BY DEF PolledTyped
<1>4. QED BY <1>1, <1>2, <1>3 DEF Result, FdState

\* An fd that is added points at nothing.
LEMMA AddKeepsPolled ==
    ASSUME PolledTyped, Pointed, NEW f \in Fds, BReactor_AddFileDescriptor(f)
    PROVE  PolledTyped' /\ Pointed'
<1>1. /\ ~fds[f].active /\ fds' = [fds EXCEPT ![f] = AddedFd(f)]
      /\ UNCHANGED <<results, pos, fresh, waiting>>
  BY DEF BReactor_AddFileDescriptor
<1>2. AddedFd(f) \in FdState /\ AddedFd(f).returned = 0
  BY DEF AddedFd, FdState
<1>3. PolledTyped'
  BY <1>1, <1>2 DEF PolledTyped
<1>4. fds'[f].returned = 0 /\ \A g \in Fds : g # f => fds'[g] = fds[g]
  BY <1>1, <1>2 DEF PolledTyped
<1>5. Left' = Left
  BY <1>1 DEF Left
<1>6. ASSUME NEW i \in Left, results[i].fd # None
      PROVE  LET g == results[i].fd IN
             fds'[g].active /\ fds'[g].returned = i /\ fresh[g] = results[i].events
  <2>1. i \in 1..Len(results)
    BY ResultOf DEF Left
  <2>2. results[i].fd \in Fds /\ fds[results[i].fd].active
    BY <1>6, <2>1, ResultOf DEF Pointed
  <2>3. results[i].fd # f
    BY <1>1, <2>2
  <2>4. QED BY <1>4, <1>6, <2>2, <2>3 DEF Pointed
<1>7. Pointed'
  BY <1>1, <1>4, <1>5, <1>6 DEF Pointed
<1>8. QED BY <1>3, <1>7

\* One that waits for something else points where it did.
LEMMA WaitEventsKeepPolled ==
    ASSUME PolledTyped, Pointed, NEW f \in Fds, NEW events \in SUBSET WaitEvents,
           BReactor_SetFileDescriptorEvents(f, events)
    PROVE  PolledTyped' /\ Pointed'
<1>1. /\ fds' = [fds EXCEPT ![f].waitEvents = events]
      /\ UNCHANGED <<results, pos, fresh, waiting>>
  BY DEF BReactor_SetFileDescriptorEvents
<1>2. fds[f] \in FdState
  BY DEF PolledTyped
<1> DEFINE new == [fds[f] EXCEPT !.waitEvents = events]
<1>3. new \in FdState /\ new.active = fds[f].active /\ new.returned = fds[f].returned
  BY <1>2 DEF FdState
<1>4. fds' = [fds EXCEPT ![f] = new]
  BY <1>1
<1> HIDE DEF new
<1>5. PolledTyped'
  BY <1>1, <1>3, <1>4 DEF PolledTyped
<1>6. \A g \in Fds : fds'[g].active = fds[g].active /\ fds'[g].returned = fds[g].returned
  BY <1>3, <1>4 DEF PolledTyped
<1>7. Left' = Left /\ \A i \in Left : results[i].fd \in Fds \cup {None}
  BY <1>1, ResultOf DEF Left
<1>8. Pointed'
  BY <1>1, <1>6, <1>7 DEF Pointed
<1>9. QED BY <1>5, <1>8

\* One that is removed takes its result back.
LEMMA RemoveKeepsPolled ==
    ASSUME PolledTyped, Pointed, NEW f \in Fds, BReactor_RemoveFileDescriptor(f)
    PROVE  PolledTyped' /\ Pointed'
<1>1. /\ fds[f].active /\ fds' = [fds EXCEPT ![f].active = FALSE]
      /\ results' = ResultsWithout(f) /\ fresh' = [fresh EXCEPT ![f] = {}]
      /\ pos' = pos /\ waiting' = waiting
  BY DEF BReactor_RemoveFileDescriptor
<1>2. fds[f] \in FdState
  BY DEF PolledTyped
<1> DEFINE new == [fds[f] EXCEPT !.active = FALSE]
           r == fds[f].returned
<1>3. new \in FdState /\ ~new.active
  BY <1>2 DEF FdState
<1>4. fds' = [fds EXCEPT ![f] = new]
  BY <1>1
<1> HIDE DEF new
<1>5. ~fds'[f].active /\ \A g \in Fds : g # f => fds'[g] = fds[g]
  BY <1>3, <1>4 DEF PolledTyped
<1>6. fresh' \in [Fds -> SUBSET Events] /\ \A g \in Fds : g # f => fresh'[g] = fresh[g]
  BY <1>1 DEF PolledTyped
<1>7. r # 0 => r \in Left /\ results[r].fd = f
  BY <1>1 DEF Pointed
<1>8. /\ results' \in Seq(Result) /\ Len(results') = Len(results)
      /\ \A i \in 1..Len(results) : results'[i].events = results[i].events
      /\ \A i \in 1..Len(results) : results'[i].fd = IF r # 0 /\ i = r THEN None ELSE results[i].fd
  <2>1. CASE r = 0
    BY <1>1, <2>1 DEF ResultsWithout, PolledTyped
  <2>2. CASE r # 0
    <3>1. r \in 1..Len(results)
      BY <1>7, <2>2, ResultOf DEF Left
    <3> DEFINE q == [results[r] EXCEPT !.fd = None]
    <3>2. results[r] \in Result
      BY <3>1, ElementOfSeq DEF PolledTyped
    <3>3. q \in Result /\ q.fd = None /\ q.events = results[r].events
      BY <3>2 DEF Result
    <3>4. results' = [results EXCEPT ![r] = q]
      BY <1>1, <2>2 DEF ResultsWithout
    <3> HIDE DEF q
    <3>5. /\ results' \in Seq(Result) /\ Len(results') = Len(results)
          /\ \A i \in 1..Len(results) : results'[i] = IF i = r THEN q ELSE results[i]
      BY <3>1, <3>3, <3>4, ExceptSeq DEF PolledTyped
    <3>6. QED BY <2>2, <3>3, <3>5
  <2>3. QED BY <2>1, <2>2
<1>9. PolledTyped'
  BY <1>1, <1>3, <1>4, <1>6, <1>8 DEF PolledTyped
<1>10. Left' = Left /\ Left \subseteq 1..Len(results)
  BY <1>1, <1>8, ResultOf DEF Left
<1>11. ASSUME NEW i \in Left, results'[i].fd # None
       PROVE  LET g == results'[i].fd IN
              fds'[g].active /\ fds'[g].returned = i /\ fresh'[g] = results'[i].events
  <2> DEFINE g == results[i].fd
  <2>1. ~(r # 0 /\ i = r) /\ results'[i].fd = g /\ g \in Fds
    BY <1>8, <1>10, <1>11, ResultOf
  <2>2. fds[g].active /\ fds[g].returned = i /\ fresh[g] = results[i].events
    BY <1>8, <1>10, <1>11, <2>1 DEF Pointed
  <2>3. i # 0
    BY ResultOf DEF Left
  <2>4. g # f
    BY <2>1, <2>2, <2>3
  <2>5. QED BY <1>5, <1>6, <1>8, <1>10, <2>1, <2>2, <2>4
<1>12. ASSUME NEW g \in Fds, fds'[g].active, fds'[g].returned # 0
       PROVE  fds'[g].returned \in Left /\ results'[fds'[g].returned].fd = g
  <2>1. g # f /\ fds'[g] = fds[g]
    BY <1>5, <1>12
  <2>2. fds[g].returned \in Left /\ results[fds[g].returned].fd = g
    BY <1>12, <2>1 DEF Pointed
  <2>3. ~(r # 0 /\ fds[g].returned = r)
    BY <1>7, <2>1, <2>2
  <2>4. QED BY <1>8, <1>10, <2>1, <2>2, <2>3
<1>13. Pointed'
  BY <1>10, <1>11, <1>12 DEF Pointed
<1>14. QED BY <1>9, <1>13
\* A result that is handled, or passed over, is pointed at no more.
LEMMA ExecFdKeepsPolled ==
    ASSUME PolledTyped, Pointed, ExecFd PROVE PolledTyped' /\ Pointed'
<1> DEFINE p == pos + 1
           f == results[p].fd
<1>1. pos < Len(results) /\ pos' = p /\ UNCHANGED <<results, waiting>>
  BY DEF ExecFd
<1>2. p \in Left /\ p \in 1..Len(results) /\ Len(results) \in Nat /\ pos \in Nat
  BY <1>1, ResultOf DEF Left
<1>3. Left' = Left \ {p} /\ Left \subseteq 1..Len(results) /\ 0 \notin Left
  BY <1>1, <1>2 DEF Left
<1>4. p \in 0..Len(results)
  BY <1>2
<1>5. \A i \in Left : results[i].fd \in Fds \cup {None}
  BY <1>3, ResultOf
<1>6. CASE f = None
  <2>1. UNCHANGED <<fds, fresh>>
    BY <1>6 DEF ExecFd
  <2>2. PolledTyped'
    BY <1>1, <1>4, <2>1 DEF PolledTyped
  <2>3. ASSUME NEW g \in Fds, fds[g].active, fds[g].returned # 0
        PROVE  fds[g].returned \in Left' /\ results[fds[g].returned].fd = g
    <3>1. fds[g].returned \in Left /\ results[fds[g].returned].fd = g
      BY <2>3 DEF Pointed
    <3>2. fds[g].returned # p
      BY <1>6, <3>1, ReactorAssumption
    <3>3. QED BY <1>3, <3>1, <3>2
  <2> HIDE DEF p, f
  <2>4. Pointed'
    BY <1>1, <1>3, <1>5, <2>1, <2>3 DEF Pointed
  <2>5. QED BY <2>2, <2>4
<1>7. CASE f # None
  <2>1. fds' = [fds EXCEPT ![f].returned = 0] /\ fresh' = [fresh EXCEPT ![f] = {}]
    BY <1>7 DEF ExecFd
  <2>2. f \in Fds /\ fds[f] \in FdState
    BY <1>2, <1>5, <1>7 DEF PolledTyped
  <2> DEFINE new == [fds[f] EXCEPT !.returned = 0]
  <2>3. new \in FdState /\ new.returned = 0
    BY <2>2 DEF FdState
  <2>4. fds' = [fds EXCEPT ![f] = new]
    BY <2>1
  <2> HIDE DEF new, p, f
  <2>5. PolledTyped'
    BY <1>1, <1>4, <2>1, <2>3, <2>4 DEF PolledTyped
  <2>6. /\ fds'[f].returned = 0
        /\ \A g \in Fds : g # f => fds'[g] = fds[g] /\ fresh'[g] = fresh[g]
    BY <2>1, <2>2, <2>3, <2>4 DEF PolledTyped
  <2>7. ASSUME NEW i \in Left', results[i].fd # None
        PROVE  LET g == results[i].fd IN
               fds'[g].active /\ fds'[g].returned = i /\ fresh'[g] = results[i].events
    <3>1. i \in Left /\ i # p
      BY <1>3, <2>7
    <3>2. results[i].fd \in Fds /\ fds[results[i].fd].returned = i
      BY <1>5, <2>7, <3>1 DEF Pointed
    <3>3. fds[f].returned = p
      BY <1>2, <1>7 DEF Pointed, f
    <3>4. results[i].fd # f
      BY <3>1, <3>2, <3>3
    <3>5. QED BY <2>6, <2>7, <3>1, <3>2, <3>4 DEF Pointed
  <2>8. ASSUME NEW g \in Fds, fds'[g].active, fds'[g].returned # 0
        PROVE  fds'[g].returned \in Left' /\ results[fds'[g].returned].fd = g
    <3>1. g # f /\ fds'[g] = fds[g]
      BY <2>6, <2>8
    <3>2. fds[g].returned \in Left /\ results[fds[g].returned].fd = g
      BY <2>8, <3>1 DEF Pointed
    <3>3. fds[g].returned # p
      BY <3>1, <3>2 DEF f
    <3>4. QED BY <1>3, <3>1, <3>2, <3>3
  <2>9. Pointed'
    BY <1>1, <2>7, <2>8 DEF Pointed
  <2>10. QED BY <2>5, <2>9
<1>8. QED BY <1>6, <1>7

\* When all are handled, no descriptor that is there points at any.
LEMMA ClearKeepsPolled ==
    ASSUME PolledTyped, Pointed, wait_for_events PROVE PolledTyped' /\ Pointed' /\ results' = <<>>
<1>1. /\ pos = Len(results) /\ results' = <<>> /\ pos' = 0 /\ UNCHANGED <<fds, fresh>>
      /\ (waiting' = TRUE \/ waiting' = waiting)
  BY DEF wait_for_events, ClearResults
<1>2. results' \in Seq(Result) /\ Len(results') = 0
  <2>1. <<>> \in Seq(Result) /\ Len(<<>>) = 0
    BY EmptySeq
  <2>2. QED BY <1>1, <2>1
<1>3. PolledTyped'
  <2>1. pos' \in 0..Len(results')
    BY <1>1, <1>2
  <2>2. waiting' \in BOOLEAN
    BY <1>1 DEF PolledTyped
  <2>3. QED BY <1>1, <1>2, <2>1, <2>2 DEF PolledTyped
<1>4. Left = {} /\ Left' = {}
  BY <1>1, <1>2, ResultOf DEF Left
<1>5. Pointed'
  BY <1>1, <1>4 DEF Pointed
<1>6. QED BY <1>1, <1>3, <1>5

\* The results of epoll_wait are those of different descriptors, and set_epoll_fd_pointers
\* makes each of these point at its own.
LEMMA EpollKeepsPolled ==
    ASSUME PolledTyped, Pointed, waiting => results = <<>>, EpollReturns
    PROVE  PolledTyped' /\ Pointed'
<1>s. PICK S \in SUBSET {f \in Fds : fds[f].active} \ {{}} :
          \E order \in SetToSeqs(S), events \in [S -> SUBSET Events] : EpollReports(S, order, events)
  BY DEF EpollReturns
<1>a. PICK order \in SetToSeqs(S), events \in [S -> SUBSET Events] : EpollReports(S, order, events)
  BY <1>s
<1>1. /\ waiting /\ waiting' = FALSE
      /\ results' = [i \in DOMAIN order |-> [fd |-> order[i], events |-> events[order[i]]]]
      /\ fds' = [f \in Fds |-> IF f \in S
                               THEN [fds[f] EXCEPT !.returned = CHOOSE i \in DOMAIN order :
                                                                    order[i] = f]
                               ELSE fds[f]]
      /\ fresh' = [f \in Fds |-> IF f \in S THEN events[f] ELSE fresh[f]]
      /\ pos' = pos
  BY <1>a DEF EpollReports
<1>2. S \subseteq Fds /\ IsFiniteSet(S) /\ \A f \in S : fds[f].active
  BY ReactorAssumption, FS_Subset
<1>3. order \in Seq(S) /\ IsInjective(order) /\ Range(order) = S
  BY <1>2, Ordered
<1>4. Len(order) \in Nat /\ DOMAIN order = 1..Len(order) /\ \A i \in DOMAIN order : order[i] \in S
  BY <1>3, LenProperties, ElementOfSeq
<1>5. Left = {} /\ pos = 0
  <2>1. Len(results) = 0
    BY <1>1, EmptySeq
  <2>2. QED BY <2>1, ResultOf DEF Left
<1> DEFINE at(f) == CHOOSE i \in DOMAIN order : order[i] = f
<1>6. \A f \in S : at(f) \in DOMAIN order /\ order[at(f)] = f
  BY <1>3 DEF Range
<1>7. \A i \in DOMAIN order : at(order[i]) = i
  BY <1>3, <1>4, <1>6 DEF IsInjective
<1>8. /\ results' \in Seq(Result) /\ Len(results') = Len(order)
      /\ \A i \in DOMAIN order : results'[i].fd = order[i] /\ results'[i].events = events[order[i]]
  <2>1. \A i \in DOMAIN order : [fd |-> order[i], events |-> events[order[i]]] \in Result
    BY <1>2, <1>4 DEF Result
  <2>2. results' \in [1..Len(order) -> Result]
    BY <1>1, <1>4, <2>1
  <2>3. results' \in Seq(Result)
    BY <1>4, <2>2, SeqDef
  <2>4. Len(results') = Len(order)
    BY <1>4, <2>2, <2>3, LenProperties
  <2>5. QED BY <1>1, <2>3, <2>4
<1>9. Left' = DOMAIN order
  BY <1>1, <1>4, <1>5, <1>8 DEF Left
<1>10. ASSUME NEW f \in Fds
       PROVE  /\ fds'[f] \in FdState /\ fds'[f].active = fds[f].active
              /\ fds'[f].returned = IF f \in S THEN at(f) ELSE fds[f].returned
  <2>1. fds[f] \in FdState
    BY DEF PolledTyped
  <2>2. CASE f \in S
    <3>1. at(f) \in Nat
      BY <1>4, <1>6, <2>2
    <3>2. fds'[f] = [fds[f] EXCEPT !.returned = at(f)]
      BY <1>1, <2>2
    <3> HIDE DEF at
    <3>3. QED BY <2>1, <2>2, <3>1, <3>2 DEF FdState
  <2>3. CASE f \notin S
    BY <1>1, <2>1, <2>3
  <2>4. QED BY <2>2, <2>3
<1>11. fresh' \in [Fds -> SUBSET Events] /\ \A f \in S : fresh'[f] = events[f]
  BY <1>1, <1>2 DEF PolledTyped
<1> HIDE DEF at
<1>12. PolledTyped'
  <2>1. fds' \in [Fds -> FdState]
    BY <1>1, <1>10
  <2>2. pos' \in 0..Len(results')
    BY <1>1, <1>4, <1>5, <1>8
  <2>3. QED BY <1>1, <1>8, <1>11, <2>1, <2>2 DEF PolledTyped
<1>13. ASSUME NEW i \in Left', results'[i].fd # None
       PROVE  LET f == results'[i].fd IN
              fds'[f].active /\ fds'[f].returned = i /\ fresh'[f] = results'[i].events
  <2>1. i \in DOMAIN order /\ order[i] \in S /\ order[i] \in Fds /\ results'[i].fd = order[i]
    BY <1>2, <1>4, <1>8, <1>9
  <2>2. fds'[order[i]].active /\ fds'[order[i]].returned = i
    BY <1>2, <1>7, <1>10, <2>1
  <2>3. QED BY <1>8, <1>11, <2>1, <2>2
<1>14. ASSUME NEW f \in Fds, fds'[f].active, fds'[f].returned # 0
       PROVE  fds'[f].returned \in Left' /\ results'[fds'[f].returned].fd = f
  <2>1. CASE f \in S
    BY <1>6, <1>8, <1>9, <1>10, <2>1
  <2>2. CASE f \notin S
    BY <1>5, <1>10, <1>14, <2>2 DEF Pointed
  <2>3. QED BY <2>1, <2>2
<1>15. Pointed'
  BY <1>13, <1>14 DEF Pointed
<1>16. QED BY <1>12, <1>15

\* Every step keeps the results and the pointers.
LEMMA NextKeepsPolled ==
    ASSUME PolledTyped, Polled, Next \/ UNCHANGED vars PROVE PolledTyped' /\ Polled'
<1>1. Pointed /\ (waiting => results = <<>> /\ calls = <<>> /\ expired = <<>>) /\ waiting \in BOOLEAN
  BY PolledIs DEF PolledTyped
<1> DEFINE Asleep == waiting => results = <<>> /\ calls = <<>> /\ expired = <<>>
<1>2. SUFFICES PolledTyped' /\ Pointed' /\ Asleep'
  BY DEF Polled, Pointed, ResultsMatch, Left
<1>3. ASSUME UNCHANGED fdVars, waiting' = waiting PROVE PolledTyped' /\ Pointed'
  BY <1>1, <1>3 DEF PolledTyped, Pointed, Left, fdVars
<1>4. CASE HandlerStep
  <2>1. ~waiting /\ waiting' = waiting
    <3>1. calls # <<>>
      BY <1>4 DEF HandlerStep, SetJob, UnsetJob, BReactor_RemoveSmallTimer, BReactor_SetSmallTimer,
         BReactor_AddFileDescriptor, BReactor_RemoveFileDescriptor, BReactor_SetFileDescriptorEvents,
         BReactor_Quit, SyncFromHere, SyncBreak, SyncCommit, Return, May, Running
    <3>2. waiting' = waiting
      BY <1>4 DEF HandlerStep, SetJob, UnsetJob, BReactor_RemoveSmallTimer, BReactor_SetSmallTimer,
         BReactor_AddFileDescriptor, BReactor_RemoveFileDescriptor, BReactor_SetFileDescriptorEvents,
         BReactor_Quit, SyncFromHere, SyncBreak, SyncCommit, Return, FreeMark
    <3>3. QED BY <1>1, <3>1, <3>2
  <2>2. CASE \E f \in Fds : \/ BReactor_AddFileDescriptor(f) \/ BReactor_RemoveFileDescriptor(f)
                            \/ \E events \in SUBSET WaitEvents :
                                  BReactor_SetFileDescriptorEvents(f, events)
    BY <1>1, <2>1, <2>2, AddKeepsPolled, RemoveKeepsPolled, WaitEventsKeepPolled
  <2>3. CASE \/ \E j \in Jobs : SetJob(j) \/ UnsetJob(j)
             \/ \E t \in Timers : BReactor_RemoveSmallTimer(t)
                                  \/ \E d \in Delays : BReactor_SetSmallTimer(t, d)
             \/ BReactor_Quit \/ SyncFromHere \/ SyncBreak \/ SyncCommit \/ Return
    <3>1. UNCHANGED fdVars
      BY <2>3 DEF SetJob, UnsetJob, BReactor_RemoveSmallTimer, BReactor_SetSmallTimer,
         BReactor_Quit, SyncFromHere, SyncBreak, SyncCommit, Return, FreeMark
    <3>2. QED BY <1>3, <2>1, <3>1
  <2>4. QED BY <1>4, <2>2, <2>3 DEF HandlerStep
<1>5. CASE SyncStep \/ ExecJob \/ ExecTimer
  <2>1. UNCHANGED fdVars /\ waiting' = waiting
    BY <1>5 DEF SyncStep, ExecJob, ExecTimer, BPendingGroup_ExecuteJob, FreeMark
  <2>2. ~waiting
    BY <1>1, <1>5 DEF SyncStep, ExecJob, ExecTimer, Idle, Looping
  <2>3. QED BY <1>3, <2>1, <2>2
<1>6. CASE ExecFd
  <2>1. ~waiting /\ waiting' = waiting
    BY <1>6 DEF ExecFd, Idle, Looping
  <2>2. QED BY <1>1, <1>6, <2>1, ExecFdKeepsPolled
<1>7. CASE wait_for_events
  <2>1. PolledTyped' /\ Pointed' /\ results' = <<>>
    BY <1>1, <1>7, ClearKeepsPolled
  <2>2. ~waiting /\ calls = <<>> /\ expired = <<>> /\ calls' = calls
        /\ (waiting' = waiting \/ expired' = expired)
    BY <1>7 DEF wait_for_events, Idle, Looping, timerVars
  <2>3. QED BY <2>1, <2>2
<1>8. CASE EpollReturns
  <2>1. waiting' = FALSE
    BY <1>8 DEF EpollReturns, EpollReports
  <2>2. QED BY <1>1, <1>8, <2>1, EpollKeepsPolled
<1>9. CASE EpollTimesOut
  <2>1. waiting' = FALSE /\ UNCHANGED fdVars
    BY <1>9 DEF EpollTimesOut
  <2>2. QED BY <1>1, <2>1 DEF PolledTyped, Pointed, Left, fdVars
<1>10. CASE Tick \/ Exited \/ UNCHANGED vars
  <2>1. UNCHANGED <<fdVars, waiting, calls, expired>>
    BY <1>10 DEF Tick, Exited, vars, fdVars
  <2>2. QED BY <1>1, <1>3, <2>1 DEF fdVars
<1>11. QED BY <1>4, <1>5, <1>6, <1>7, <1>8, <1>9, <1>10 DEF Next, LoopStep
-----------------------------------------------------------------------------
(* The timers *)

TimerState == [state : {"INACTIVE", "RUNNING", "EXPIRED"}, left : Int]

TimedTyped == timers \in [Timers -> TimerState] /\ expired \in Seq(Timers)

\* A timer that is set, removed or run is on the list no more, and the others keep their order.
LEMMA TimerLeaves ==
    ASSUME TimedTyped, Timed, NEW t \in Timers, NEW new \in TimerState, new.state # "EXPIRED",
           timers' = [timers EXCEPT ![t] = new],
           expired' \in Seq(Timers), IsInjective(expired'), Range(expired') = Range(expired) \ {t},
           \A u : u # t => Behind(expired', u) \subseteq Behind(expired, u)
    PROVE  TimedTyped' /\ Timed'
<1>1. TimedTyped'
  BY DEF TimedTyped
<1>2. timers'[t] = new /\ \A u \in Timers : u # t => timers'[u] = timers[u]
  BY DEF TimedTyped
<1>3. Range(expired) \subseteq Timers /\ Range(expired') \subseteq Timers
  BY RangeOfSeq DEF TimedTyped
<1>4. Range(expired') = Of("EXPIRED")'
  BY <1>2, <1>3 DEF Timed, Of
<1>5. \A u \in Range(expired') : u # t /\ u \in Range(expired) /\ timers'[u] = timers[u]
  BY <1>2, <1>3
<1>6. \A u \in Range(expired') : timers'[u].left <= 0
  BY <1>5 DEF Timed
<1>7. ASSUME NEW u \in Range(expired'), NEW v \in Behind(expired', u)
      PROVE  timers'[u].left <= timers'[v].left
  <2>1. v \in Range(expired') /\ v \in Behind(expired, u)
    BY <1>5, <1>7, BehindIsIn
  <2>2. timers[u].left <= timers[v].left
    BY <1>5, <2>1 DEF Timed
  <2>3. QED BY <1>5, <2>1, <2>2
<1>8. QED BY <1>1, <1>4, <1>6, <1>7 DEF Timed

\* A timer is set or removed by a handler.
LEMMA SetKeepsTimers ==
    ASSUME TimedTyped, Timed, NEW t \in Timers,
           BReactor_RemoveSmallTimer(t) \/ \E d \in Delays : BReactor_SetSmallTimer(t, d)
    PROVE  TimedTyped' /\ Timed'
<1>1. PICK new \in TimerState : new.state # "EXPIRED" /\ timers' = [timers EXCEPT ![t] = new]
  <2>1. CASE BReactor_RemoveSmallTimer(t)
    <3>1. [state |-> "INACTIVE", left |-> 0] \in TimerState
      BY DEF TimerState
    <3>2. QED BY <2>1, <3>1 DEF BReactor_RemoveSmallTimer, Inactive
  <2>2. ASSUME NEW d \in Delays, BReactor_SetSmallTimer(t, d)
        PROVE  \E new \in TimerState : new.state # "EXPIRED" /\ timers' = [timers EXCEPT ![t] = new]
    <3>1. [state |-> "RUNNING", left |-> d] \in TimerState
      BY ReactorAssumption DEF TimerState
    <3>2. QED BY <2>2, <3>1 DEF BReactor_SetSmallTimer
  <2>3. QED BY <2>1, <2>2
<1>2. expired' = RemovedFromExpired(t)
  BY DEF BReactor_RemoveSmallTimer, BReactor_SetSmallTimer
<1>3. expired' = RemoveFirst(expired, t)
  <2>1. CASE timers[t].state = "EXPIRED"
    BY <1>2, <2>1 DEF RemovedFromExpired
  <2>2. CASE timers[t].state # "EXPIRED"
    <3>1. t \notin Range(expired)
      BY <2>2 DEF Timed, Of
    <3>2. \A i \in 1..Len(expired) : expired[i] # t
      BY <3>1, LenProperties DEF Range, TimedTyped
    <3>3. QED BY <1>2, <2>2, <3>2, NotThere DEF RemovedFromExpired
  <2>3. QED BY <2>1, <2>2
<1>4. /\ expired' \in Seq(Timers) /\ IsInjective(expired')
      /\ Range(expired') = Range(expired) \ {t}
      /\ \A u : u # t => Behind(expired', u) \subseteq Behind(expired, u)
  BY <1>3, Without DEF TimedTyped, Timed
<1>5. QED BY <1>1, <1>4, TimerLeaves

\* The first of the expired timers is run.
LEMMA RunKeepsTimers ==
    ASSUME TimedTyped, Timed, ExecTimer PROVE TimedTyped' /\ Timed'
<1> DEFINE t == Head(expired)
<1>1. expired # <<>> /\ expired' = Tail(expired) /\ timers' = Inactive(t)
  BY DEF ExecTimer
<1>2. /\ t \in Timers /\ expired' \in Seq(Timers) /\ IsInjective(expired')
      /\ Range(expired') = Range(expired) \ {t}
      /\ \A u : u # t => Behind(expired', u) \subseteq Behind(expired, u)
  BY <1>1, TakenOff DEF TimedTyped, Timed
<1> HIDE DEF t
<1>3. [state |-> "INACTIVE", left |-> 0] \in TimerState
  BY DEF TimerState
<1>4. PICK new \in TimerState : new.state # "EXPIRED" /\ timers' = [timers EXCEPT ![t] = new]
  BY <1>1, <1>3 DEF Inactive
<1>5. QED BY <1>2, <1>4, TimerLeaves

\* Timers whose time has come are put on the empty list.
LEMMA ExpireKeepsTimers ==
    ASSUME TimedTyped, Timed, expired = <<>>, NEW S, S \subseteq Due, Expire(S)
    PROVE  TimedTyped' /\ Timed'
<1>1. S \subseteq Timers /\ IsFiniteSet(S)
      /\ \A t \in S : timers[t].state = "RUNNING" /\ timers[t].left <= 0
  <2>1. S \subseteq Timers
    BY DEF Due, Of
  <2>2. QED BY <2>1, ReactorAssumption, FS_Subset DEF Due, Of
<1>2. PICK order \in SetToSeqs(S) :
        /\ \A i, j \in DOMAIN order : i < j => timers[order[i]].left <= timers[order[j]].left
        /\ expired' = expired \o order
        /\ timers' = [t \in Timers |-> IF t \in S THEN [timers[t] EXCEPT !.state = "EXPIRED"]
                                                  ELSE timers[t]]
  BY DEF Expire
<1>3. order \in Seq(S) /\ IsInjective(order) /\ Range(order) = S
  BY <1>1, Ordered
<1>4. order \in Seq(Timers)
  BY <1>1, <1>3, SeqMonotonic
<1>5. expired' = order
  BY <1>2, <1>4, ConcatEmptySeq
<1>6. ASSUME NEW t \in Timers
      PROVE  /\ timers'[t] \in TimerState /\ timers'[t].left = timers[t].left
             /\ timers'[t].state = IF t \in S THEN "EXPIRED" ELSE timers[t].state
  <2>1. timers[t] \in TimerState
    BY DEF TimedTyped
  <2>2. timers'[t] = IF t \in S THEN [timers[t] EXCEPT !.state = "EXPIRED"] ELSE timers[t]
    BY <1>2
  <2>3. QED BY <2>1, <2>2 DEF TimerState
<1>7. TimedTyped'
  <2>1. timers' \in [Timers -> TimerState]
    BY <1>2, <1>6
  <2>2. QED BY <1>4, <1>5, <2>1 DEF TimedTyped
<1>8. Of("EXPIRED") = {}
  BY DEF Timed, Range
<1>9. Of("EXPIRED")' = S
  BY <1>1, <1>6, <1>8 DEF Of
<1>10. \A t \in S : timers'[t].left <= 0
  BY <1>1, <1>6
<1>11. ASSUME NEW t \in S, NEW u \in Behind(order, t) PROVE timers'[t].left <= timers'[u].left
  <2>1. PICK i \in DOMAIN order, j \in DOMAIN order : order[i] = t /\ order[j] = u /\ i < j
    BY <1>11 DEF Behind
  <2>2. timers[t].left <= timers[u].left
    BY <1>2, <2>1
  <2>3. u \in S
    BY <2>1, <1>3 DEF Range
  <2>4. QED BY <1>1, <1>6, <2>2, <2>3
<1>12. QED BY <1>3, <1>5, <1>7, <1>9, <1>10, <1>11 DEF Timed

\* Time passes for all alike.
LEMMA TickKeepsTimers ==
    ASSUME TimedTyped, Timed, Tick PROVE TimedTyped' /\ Timed'
<1>1. /\ expired' = expired
      /\ timers' = [t \in Timers |-> IF timers[t].state = "INACTIVE" THEN timers[t]
                                     ELSE [timers[t] EXCEPT !.left = @ - 1]]
  BY DEF Tick
<1>2. ASSUME NEW t \in Timers
      PROVE  /\ timers'[t] \in TimerState /\ timers'[t].state = timers[t].state
             /\ timers[t].left \in Int
             /\ timers[t].state = "EXPIRED" => timers'[t].left = timers[t].left - 1
  <2>1. timers[t] \in TimerState
    BY DEF TimedTyped
  <2>2. timers'[t] = IF timers[t].state = "INACTIVE" THEN timers[t]
                     ELSE [timers[t] EXCEPT !.left = @ - 1]
    BY <1>1
  <2>3. QED BY <2>1, <2>2 DEF TimerState
<1>3. TimedTyped'
  BY <1>1, <1>2 DEF TimedTyped
<1>4. Of("EXPIRED")' = Of("EXPIRED")
  BY <1>2 DEF Of
<1>5. \A t \in Range(expired) : t \in Timers /\ timers[t].state = "EXPIRED"
  BY DEF Timed, Of
<1>6. \A t \in Range(expired) : timers'[t].left <= 0
  BY <1>2, <1>5 DEF Timed
<1>7. ASSUME NEW t \in Range(expired), NEW u \in Behind(expired, t)
      PROVE  timers'[t].left <= timers'[u].left
  <2>1. u \in Range(expired)
    BY <1>7, BehindIsIn
  <2>2. timers[t].left <= timers[u].left
    BY <1>7 DEF Timed
  <2>3. QED BY <1>2, <1>5, <2>1, <2>2
<1>8. QED BY <1>1, <1>3, <1>4, <1>6, <1>7 DEF Timed

\* Every step keeps the timers.
LEMMA NextKeepsTimers ==
    ASSUME TimedTyped, Timed, waiting => expired = <<>>, Next \/ UNCHANGED vars
    PROVE  TimedTyped' /\ Timed'
<1>1. ASSUME UNCHANGED timerVars PROVE TimedTyped' /\ Timed'
  BY <1>1 DEF TimedTyped, Timed, Of, timerVars
<1>2. CASE \E t \in Timers : BReactor_RemoveSmallTimer(t)
                             \/ \E d \in Delays : BReactor_SetSmallTimer(t, d)
  BY <1>2, SetKeepsTimers
<1>3. CASE ExecTimer
  BY <1>3, RunKeepsTimers
<1>4. CASE wait_for_events
  <2>1. expired = <<>> /\ (Expire(Due) \/ UNCHANGED timerVars)
    BY <1>4 DEF wait_for_events
  <2>2. QED BY <1>1, <2>1, ExpireKeepsTimers
<1>5. CASE EpollTimesOut
  <2>1. waiting /\ First \subseteq Due /\ Expire(First)
    BY <1>5 DEF EpollTimesOut, TimedOut
  <2>2. QED BY <2>1, ExpireKeepsTimers
<1>6. CASE Tick
  BY <1>6, TickKeepsTimers
<1>7. CASE \/ \E j \in Jobs : SetJob(j) \/ UnsetJob(j)
           \/ \E f \in Fds : \/ BReactor_AddFileDescriptor(f) \/ BReactor_RemoveFileDescriptor(f)
                             \/ \E events \in SUBSET WaitEvents :
                                   BReactor_SetFileDescriptorEvents(f, events)
           \/ BReactor_Quit \/ SyncFromHere \/ SyncBreak \/ SyncCommit \/ Return
  <2>1. UNCHANGED timerVars
    BY <1>7 DEF SetJob, UnsetJob, BReactor_AddFileDescriptor, BReactor_RemoveFileDescriptor,
       BReactor_SetFileDescriptorEvents, BReactor_Quit, SyncFromHere, SyncBreak, SyncCommit,
       Return, FreeMark
  <2>2. QED BY <1>1, <2>1
<1>8. CASE SyncStep \/ ExecJob \/ ExecFd \/ EpollReturns \/ Exited \/ UNCHANGED vars
  <2>1. UNCHANGED timerVars
    BY <1>8 DEF SyncStep, ExecJob, BPendingGroup_ExecuteJob, FreeMark, ExecFd, EpollReturns,
       EpollReports, Exited, vars, timerVars
  <2>2. QED BY <1>1, <2>1
<1>9. QED BY <1>2, <1>3, <1>4, <1>5, <1>6, <1>7, <1>8 DEF Next, HandlerStep, LoopStep
-----------------------------------------------------------------------------
(* The invariant *)

Rest == exiting \in BOOLEAN /\ ops \in 0..MaxOps

LEMMA Parts ==
    ReactorInv <=> Stacked /\ PolledTyped /\ Polled /\ TimedTyped /\ Timed /\ Rest
<1>1. ASSUME Stacked PROVE TypeOK <=> PolledTyped /\ TimedTyped /\ Rest
  BY <1>1 DEF Stacked, StackedAs, TypeOK, PolledTyped, TimedTyped, Rest, FdState, Result, TimerState
<1>2. QED BY <1>1 DEF ReactorInv

LEMMA ReactorInit == Init => ReactorInv
<1> SUFFICES ASSUME Init PROVE ReactorInv
  OBVIOUS
<1>1. Range(<<>>) = {} /\ IsInjective(<<>>) /\ \A x : Behind(<<>>, x) = {}
  BY DEF Range, IsInjective, Behind
<1>2. Stacked
  <2>1. jobs = <<>> /\ calls = <<NewCall>>
    BY DEF Init
  <2>2. jobs \in Seq(Pending)
    BY <2>1, EmptySeq
  <2>3. NewCall \in Frame /\ NewCall.mark = 0 /\ NewCall.syncing = FALSE
    BY DEF NewCall, Frame
  <2>4. calls \in Seq(Frame) /\ Len(calls) = 1 /\ DOMAIN calls = {1} /\ calls[1] = NewCall
    BY <2>1, <2>3
  <2>5. \A d : ~Marked(calls, d)
    BY <2>3, <2>4 DEF Marked
  <2>6. StackedAs(jobs, calls)
    BY <1>1, <2>1, <2>2, <2>3, <2>4, <2>5, ReactorAssumption DEF StackedAs
  <2>7. QED BY <2>6 DEF Stacked
<1>3. PolledTyped
  <2>1. results \in Seq(Result) /\ Len(results) = 0
    BY EmptySeq DEF Init
  <2>2. [active |-> FALSE, waitEvents |-> {}, returned |-> 0] \in FdState
    BY DEF FdState
  <2>3. fds \in [Fds -> FdState] /\ fresh \in [Fds -> SUBSET Events]
    BY <2>2 DEF Init
  <2>4. pos \in 0..Len(results)
    BY <2>1 DEF Init
  <2>5. waiting \in BOOLEAN
    BY DEF Init
  <2>6. QED BY <2>1, <2>3, <2>4, <2>5 DEF PolledTyped
<1>4. Polled
  <2>1. Len(results) = 0 /\ pos = 0 /\ ~waiting
    BY EmptySeq DEF Init
  <2>2. Left = {}
    BY <2>1 DEF Left
  <2>3. \A f \in Fds : ~fds[f].active
    BY DEF Init
  <2>4. Pointed
    BY <2>2, <2>3 DEF Pointed
  <2>5. QED BY <2>1, <2>4, PolledIs
<1>5. TimedTyped
  <2>1. expired \in Seq(Timers)
    BY EmptySeq DEF Init
  <2>2. [state |-> "INACTIVE", left |-> 0] \in TimerState
    BY DEF TimerState
  <2>3. QED BY <2>1, <2>2 DEF TimedTyped, Init
<1>6. Timed
  <2>1. Of("EXPIRED") = {}
    BY DEF Init, Of
  <2>2. expired = <<>>
    BY DEF Init
  <2>3. QED BY <1>1, <2>1, <2>2 DEF Timed
<1>7. Rest
  <2>1. exiting \in BOOLEAN
    BY DEF Init
  <2>2. ops = 0 /\ 0 \in 0..MaxOps
    BY ReactorAssumption DEF Init
  <2>3. QED BY <2>1, <2>2 DEF Rest
<1>8. QED BY <1>2, <1>3, <1>4, <1>5, <1>6, <1>7, Parts

LEMMA NextKeepsRest ==
    ASSUME Rest, Next \/ UNCHANGED vars PROVE Rest'
<1>1. ASSUME May, exiting' \in {exiting, TRUE} PROVE Rest'
  <2>1. ops' \in 0..MaxOps
    BY <1>1, ReactorAssumption DEF May, Rest
  <2>2. exiting' \in BOOLEAN
    BY <1>1 DEF Rest
  <2>3. QED BY <2>1, <2>2 DEF Rest
<1>2. ASSUME exiting' = exiting, ops' = ops \/ ops' = 0 PROVE Rest'
  BY <1>2, ReactorAssumption DEF Rest
<1>3. CASE \/ \E j \in Jobs : SetJob(j) \/ UnsetJob(j)
           \/ \E t \in Timers : BReactor_RemoveSmallTimer(t)
                                \/ \E d \in Delays : BReactor_SetSmallTimer(t, d)
           \/ \E f \in Fds : \/ BReactor_AddFileDescriptor(f) \/ BReactor_RemoveFileDescriptor(f)
                             \/ \E events \in SUBSET WaitEvents :
                                   BReactor_SetFileDescriptorEvents(f, events)
           \/ BReactor_Quit \/ SyncFromHere
  BY <1>1, <1>3 DEF SetJob, UnsetJob, BReactor_RemoveSmallTimer, BReactor_SetSmallTimer,
     BReactor_AddFileDescriptor, BReactor_RemoveFileDescriptor, BReactor_SetFileDescriptorEvents,
     BReactor_Quit, SyncFromHere
<1>4. CASE SyncBreak \/ SyncCommit \/ Return \/ LoopStep \/ EpollReturns \/ EpollTimesOut \/ Tick
           \/ Exited \/ UNCHANGED vars
  BY <1>2, <1>4 DEF SyncBreak, SyncCommit, Return, FreeMark, LoopStep, SyncStep, ExecJob,
     BPendingGroup_ExecuteJob, ExecTimer, ExecFd, wait_for_events, EpollReturns, EpollReports,
     EpollTimesOut, Tick, Exited, vars
<1>5. QED BY <1>3, <1>4 DEF Next, HandlerStep

LEMMA ReactorNext == ReactorInv /\ [Next]_vars => ReactorInv'
<1> SUFFICES ASSUME ReactorInv, Next \/ UNCHANGED vars PROVE ReactorInv'
  OBVIOUS
<1>1. Stacked /\ PolledTyped /\ Polled /\ TimedTyped /\ Timed /\ Rest
  BY Parts
<1>2. Stacked'
  BY <1>1, NextKeepsStack
<1>3. PolledTyped' /\ Polled'
  BY <1>1, NextKeepsPolled
<1>4. TimedTyped' /\ Timed'
  BY <1>1, NextKeepsTimers DEF Polled
<1>5. Rest'
  BY <1>1, NextKeepsRest
<1>6. QED BY <1>2, <1>3, <1>4, <1>5, Parts, PTL

\* Whatever handlers do, the marks on the stack are those of the calls that wait, the pointers
\* and the results belong together, and the list holds the expired timers (BPending, BReactor).
THEOREM ReactorHolds == Spec => []ReactorInv
BY ReactorInit, ReactorNext, PTL DEF Spec

-----------------------------------------------------------------------------
(* What follows *)

LEMMA MarksFollow == ReactorInv => MarksKeepTheirPlace
<1> SUFFICES ASSUME ReactorInv PROVE MarksKeepTheirPlace
  OBVIOUS
<1>1. StackedAs(jobs, calls)
  BY DEF ReactorInv, Stacked
<1>2. IsInjective(jobs) /\ jobs \in Seq(Pending) /\ DOMAIN jobs = 1..Len(jobs) /\ Len(jobs) \in Nat
  BY <1>1, LenProperties DEF StackedAs
<1>3. ASSUME NEW d \in DOMAIN calls, calls[d].mark # 0
      PROVE  \E i \in DOMAIN jobs : /\ jobs[i] = d /\ calls[d].mark = d
                                    /\ {jobs[k] : k \in i + 1..Len(jobs)} = calls[d].below
  <2>1. calls[d].mark = d /\ d \in Range(jobs) /\ Behind(jobs, d) = calls[d].below
    BY <1>1, <1>3 DEF StackedAs, Marked
  <2>2. PICK i \in DOMAIN jobs : jobs[i] = d
    BY <2>1 DEF Range
  <2>3. {k \in DOMAIN jobs : \E l \in DOMAIN jobs : jobs[l] = d /\ l < k} = i + 1..Len(jobs)
    <3>1. \A l \in DOMAIN jobs : jobs[l] = d <=> l = i
      BY <1>2, <2>2 DEF IsInjective
    <3>2. {k \in DOMAIN jobs : \E l \in DOMAIN jobs : jobs[l] = d /\ l < k}
            = {k \in 1..Len(jobs) : i < k}
      BY <1>2, <2>2, <3>1
    <3>3. {k \in 1..Len(jobs) : i < k} = i + 1..Len(jobs)
      BY <1>2, <2>2
    <3>4. QED BY <3>2, <3>3
  <2>4. Behind(jobs, d) = {jobs[k] : k \in i + 1..Len(jobs)}
    BY <2>3 DEF Behind
  <2>5. QED BY <2>1, <2>2, <2>4
<1>4. QED BY <1>2, <1>3 DEF MarksKeepTheirPlace, IsInjective

LEMMA OrderFollows == ReactorInv => ExpiredInOrder
<1> SUFFICES ASSUME ReactorInv PROVE ExpiredInOrder
  OBVIOUS
<1>1. Timed /\ expired \in Seq(Timers)
  BY DEF ReactorInv, TypeOK
<1>2. Len(expired) = Cardinality(Of("EXPIRED"))
  BY <1>1, AsLongAsLarge DEF Timed
<1>3. ASSUME NEW i \in DOMAIN expired, NEW j \in DOMAIN expired, i < j
      PROVE  timers[expired[i]].left <= timers[expired[j]].left
  <2>1. expired[i] \in Range(expired) /\ expired[j] \in Behind(expired, expired[i])
    BY <1>3 DEF Range, Behind
  <2>2. QED BY <1>1, <2>1 DEF Timed
<1>4. QED BY <1>1, <1>2, <1>3 DEF ExpiredInOrder, Timed

\* The loop's own structures agree between any two steps (BReactor_Exec, BSmallPending_Set,
\* BReactor_RemoveFileDescriptor, move_expired_timers).
THEOREM LoopAlwaysAgrees == Spec => []LoopAgrees
<1>1. ReactorInv => LoopAgrees
  BY MarksFollow, OrderFollows DEF LoopAgrees, ReactorInv, Polled
<1>2. QED BY <1>1, ReactorHolds, PTL

\* Jobs are set and unset, and marks come and go, without a call.
LEMMA DepthStays ==
    ASSUME Stacked, \/ \E j \in Jobs : SetJob(j) \/ UnsetJob(j)
                    \/ SyncFromHere
                    \/ calls # <<>> /\ FreeMark
    PROVE  Len(calls') = Len(calls)
<1>1. calls \in Seq(Frame) /\ DOMAIN calls = 1..Len(calls) /\ Len(calls) \in Nat
  BY MarksAreDepths DEF Stacked, StackedAs
<1>2. ASSUME NEW S PROVE Forget(calls, S) \in Seq(Frame) /\ Len(Forget(calls, S)) = Len(calls)
  BY <1>1, ForgetsBelow
<1>3. ASSUME NEW c \in Seq(Frame), NEW d, NEW f PROVE Len([c EXCEPT ![d] = f]) = Len(c)
  <2> DEFINE q == [c EXCEPT ![d] = f]
  <2>1. DOMAIN q = 1..Len(c) /\ Len(c) \in Nat
    BY LenProperties
  <2>2. q \in Seq({q[i] : i \in 1..Len(c)})
    <3>1. q \in [1..Len(c) -> {q[i] : i \in 1..Len(c)}]
      BY <2>1
    <3> HIDE DEF q
    <3>2. QED BY <2>1, <3>1, SeqDef
  <2> HIDE DEF q
  <2>3. DOMAIN q = 1..Len(q) /\ Len(q) \in Nat
    BY <2>2, LenProperties
  <2>4. Len(q) = Len(c)
    BY <2>1, <2>3
  <2>5. QED BY <2>4 DEF q
<1>4. CASE \E j \in Jobs : SetJob(j) \/ UnsetJob(j)
  BY <1>2, <1>4 DEF SetJob, UnsetJob
<1>5. CASE SyncFromHere
  BY <1>1, <1>3, <1>5 DEF SyncFromHere
<1>6. CASE FreeMark
  <2>1. calls' = [Forget(calls, {Len(calls)}) EXCEPT ![Len(calls)] = NewCall]
    BY <1>6 DEF FreeMark
  <2>2. QED BY <1>2, <1>3, <2>1
<1>7. QED BY <1>4, <1>5, <1>6

\* Only a job that runs leaves the stack for a call.
LEMMA OnlyJobsAreCalled ==
    ASSUME Stacked, Next, Len(calls') > Len(calls)
    PROVE  \/ jobs' = jobs
           \/ /\ jobs # <<>> /\ jobs' = Tail(jobs)
              /\ calls = <<>> \/ (calls # <<>> /\ Last(calls).syncing /\ SyncGoesOn)
<1>1. Len(calls) \in Nat
  BY MarksAreDepths DEF Stacked
<1>2. ~ \/ \E j \in Jobs : SetJob(j) \/ UnsetJob(j)
        \/ SyncFromHere
        \/ calls # <<>> /\ FreeMark
  BY <1>1, DepthStays
<1>3. CASE HandlerStep
  <2>1. ~SyncBreak
    BY <1>2 DEF SyncBreak, Running
  <2>2. jobs' = jobs
    BY <1>2, <1>3, <2>1 DEF HandlerStep, BReactor_RemoveSmallTimer, BReactor_SetSmallTimer,
       BReactor_AddFileDescriptor, BReactor_RemoveFileDescriptor, BReactor_SetFileDescriptorEvents,
       BReactor_Quit, SyncCommit, Return
  <2>3. QED BY <2>2
<1>4. CASE SyncStep
  BY <1>2, <1>4 DEF SyncStep, BPendingGroup_ExecuteJob
<1>5. CASE ExecJob
  BY <1>5 DEF ExecJob, Looping, BPendingGroup_ExecuteJob
<1>6. CASE ExecTimer \/ ExecFd \/ wait_for_events \/ EpollReturns \/ EpollTimesOut \/ Tick \/ Exited
  BY <1>6 DEF ExecTimer, ExecFd, wait_for_events, EpollReturns, EpollReports, EpollTimesOut, Tick,
     Exited, vars
<1>7. QED BY <1>3, <1>4, <1>5, <1>6 DEF Next, LoopStep

\* While a handler synchronizes, nothing runs that stood below its mark, nor is a mark run as a
\* job (BReactor_Synchronize).
THEOREM SyncRunsOnlyItsOwn == Spec => SyncRunsWhatItSetOff
<1>1. ASSUME ReactorInv, [Next]_vars
      PROVE  [Len(calls') > Len(calls) => \A d \in DOMAIN calls :
                 calls[d].mark # 0 => Range(jobs) \ Range(jobs') \subseteq Jobs \ calls[d].below]_vars
  <2> SUFFICES ASSUME Next, Len(calls') > Len(calls), NEW d \in DOMAIN calls, calls[d].mark # 0
               PROVE  Range(jobs) \ Range(jobs') \subseteq Jobs \ calls[d].below
    BY <1>1
  <2>1. Stacked
    BY <1>1 DEF ReactorInv
  <2>2. CASE jobs' = jobs
    BY <2>2
  <2>3. CASE /\ jobs # <<>> /\ jobs' = Tail(jobs)
             /\ calls = <<>> \/ (calls # <<>> /\ Last(calls).syncing /\ SyncGoesOn)
    <3>1. Head(jobs) \in Jobs /\ Head(jobs) \notin calls[d].below
      BY <2>1, <2>3, NextIsNoMark DEF Marked
    <3>2. Range(Tail(jobs)) = Range(jobs) \ {Head(jobs)}
      BY <2>1, <2>3, TakenOff DEF Stacked, StackedAs
    <3>3. QED BY <2>3, <3>1, <3>2
  <2>4. QED BY <2>1, <2>2, <2>3, OnlyJobsAreCalled
<1>2. QED BY <1>1, ReactorHolds, PTL DEF Spec, SyncRunsWhatItSetOff

\* The handler of an fd is called only for what was reported of it since it was registered, and
\* for what it still waits for (BReactor_Exec, BReactor_RemoveFileDescriptor).
THEOREM NoEventIsStale == Spec => NoStaleEvent
<1>1. ASSUME ReactorInv, [Next]_vars
      PROVE  [\A f \in Fds :
                (pos' = pos + 1 /\ Len(calls') > Len(calls) /\ results[pos + 1].fd = f) =>
                   fds[f].active /\ fresh[f] \cap (fds[f].waitEvents \cup {"HUP"}) # {}]_vars
  <2> SUFFICES ASSUME Next, NEW f \in Fds, pos' = pos + 1, Len(calls') > Len(calls),
                      results[pos + 1].fd = f
               PROVE  fds[f].active /\ fresh[f] \cap (fds[f].waitEvents \cup {"HUP"}) # {}
    BY <1>1
  <2>1. PolledTyped /\ Pointed
    BY <1>1, Parts, PolledIs
  <2>2. Len(calls) \in Nat /\ pos \in Nat /\ f # None
    BY <1>1, <2>1, MarksAreDepths, ResultOf, ReactorAssumption DEF ReactorInv, Stacked
  <2>3. ExecFd
    <3>1. CASE HandlerStep
      <4>1. pos' = pos
        BY <3>1 DEF HandlerStep, fdVars, SetJob, UnsetJob, BReactor_RemoveSmallTimer,
           BReactor_SetSmallTimer, BReactor_AddFileDescriptor, BReactor_RemoveFileDescriptor,
           BReactor_SetFileDescriptorEvents, BReactor_Quit, SyncFromHere, SyncBreak, SyncCommit,
           Return, FreeMark
      <4>2. QED BY <2>2, <4>1
    <3>2. CASE SyncStep \/ ExecJob \/ ExecTimer \/ EpollReturns \/ EpollTimesOut \/ Tick \/ Exited
      <4>1. pos' = pos
        BY <3>2 DEF fdVars, SyncStep, ExecJob, BPendingGroup_ExecuteJob, FreeMark, ExecTimer,
           EpollReturns, EpollReports, EpollTimesOut, Tick, Exited, vars
      <4>2. QED BY <2>2, <4>1
    <3>3. CASE wait_for_events
      <4>1. pos' = 0
        BY <3>3 DEF wait_for_events, ClearResults
      <4>2. QED BY <2>2, <4>1
    <3>4. QED BY <3>1, <3>2, <3>3 DEF Next, LoopStep
  <2>4. Reported(f, results[pos + 1].events) # {} /\ pos < Len(results)
    <3>1. calls' # calls
      BY <2>2
    <3>2. QED BY <2>2, <2>3, <3>1 DEF ExecFd
  <2>5. fds[f].active /\ fresh[f] = results[pos + 1].events
    <3>1. pos + 1 \in Left
      BY <2>1, <2>2, <2>4, ResultOf DEF Left
    <3>2. QED BY <2>1, <2>2, <3>1 DEF Pointed
  <2>6. QED BY <2>4, <2>5 DEF Reported
<1>2. QED BY <1>1, ReactorHolds, PTL DEF Spec, NoStaleEvent
=============================================================================
