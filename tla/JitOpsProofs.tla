---------------------------- MODULE JitOpsProofs ----------------------------
(***************************************************************************)
(* Lemmas about the operators of JitOps, for every value of the constants: *)
(* the range of the counter's arithmetic, the air time that criterion 3    *)
(* guarantees, and what sorting a queue keeps. Then, for a counter that is *)
(* wide beside the delays: what the time order is, where the Class C       *)
(* search places a packet, and that it is always accepted.                 *)
(***************************************************************************)
EXTENDS JitOps, FiniteSetTheorems, WellFoundedInduction, TLAPS

\* The counter's arithmetic stays in the counter's range.
LEMMA CounterClosed ==
  \A x, y \in Int : Add(x, y) \in Counter /\ Ahead(x, y) \in Counter
BY JitAssumption DEF Add, Ahead, Counter

\* The size of the array's index range.
LEMMA IndexRange ==
  ASSUME NEW m \in Nat
  PROVE  IsFiniteSet(1..m) /\ Cardinality(1..m) = m
<1>1. /\ IsFiniteSet(1..m)
      /\ Cardinality(1..m) = IF 1 > m THEN 0 ELSE m-1+1
  BY FS_Interval
<1> QED
  BY <1>1

\* A finite set is split in two by any other set.
LEMMA Split ==
  ASSUME NEW S, NEW K, IsFiniteSet(S)
  PROVE  /\ IsFiniteSet(S \cap K) /\ IsFiniteSet(S \ K)
         /\ Cardinality(S \cap K) \in Nat /\ Cardinality(S \ K) \in Nat
         /\ Cardinality(S) = Cardinality(S \cap K) + Cardinality(S \ K)
<1> DEFINE A == S \cap K
           B == S \ K
<1>1. IsFiniteSet(A) /\ IsFiniteSet(B)
  BY FS_Subset
<1>2. Cardinality(A) \in Nat /\ Cardinality(B) \in Nat
  BY <1>1, FS_CardinalityType
<1>3. Cardinality(A \cup B) = Cardinality(A) + Cardinality(B) - Cardinality(A \cap B)
  BY <1>1, FS_Union
<1>4. A \cup B = S
  OBVIOUS
<1>5. A \cap B = {}
  OBVIOUS
<1>6. Cardinality(S) = Cardinality(A) + Cardinality(B) - Cardinality({})
  BY <1>3, <1>4, <1>5
<1>7. Cardinality(S) = Cardinality(A) + Cardinality(B)
  BY <1>2, <1>6, FS_EmptySet
<1> QED
  BY <1>1, <1>2, <1>7

\* A node's delays are numbers and it reserves its start delay.
LEMMA NodeFields ==
  ASSUME NEW n \in Node
  PROVE  /\ n.count \in Counter /\ n.count \in Int
         /\ n.type \in PktType
         /\ n.pre \in Nat /\ n.post \in Nat
         /\ TX_START_DELAY <= n.pre
<1>1. PICK c \in Counter, type \in PktType, toa \in TOA :
        n = NewNode(c, type, toa)
  BY DEF Node
<1>2. n.count = c /\ n.type = type /\ n.pre = PreDelay(type)
      /\ n.post = PostDelay(type, toa)
  BY <1>1 DEF NewNode
<1>3. toa \in Nat /\ c \in Int
  BY JitAssumption DEF Counter
<1> QED
  BY <1>2, <1>3, JitAssumption DEF PreDelay, PostDelay

\* Criterion 3 leaves room on both sides of the new packet, whichever beacon
\* guard it ignores.
LEMMA CollisionFree ==
  ASSUME NEW p \in Node, NEW n \in Node, ~Collides(p, n)
  PROVE  Compatible(p, n) /\ Compatible(n, p)
<1>1. /\ p.pre \in Nat /\ p.post \in Nat /\ TX_START_DELAY <= p.pre
      /\ n.pre \in Nat /\ n.post \in Nat /\ TX_START_DELAY <= n.pre
      /\ p.count \in Int /\ n.count \in Int
  BY NodeFields
<1>2. Ahead(p.count, n.count) \in Int /\ Ahead(n.count, p.count) \in Int
  BY <1>1, JitAssumption DEF Ahead
<1>3. /\ Ahead(p.count, n.count) > p.pre + n.post + TX_MARGIN_DELAY
      /\ Ahead(n.count, p.count) > TargetPre(p, n) + p.post + TX_MARGIN_DELAY
  BY <1>1, <1>2, JitAssumption DEF Collides, CollisionTest, TargetPre
<1>4. Lead(p, n) <= p.pre /\ Lead(p, n) \in Nat /\ Lead(n, p) = TargetPre(p, n)
  BY <1>1, JitAssumption DEF Lead, TargetPre
<1>5. Clear(p, n)
  BY <1>1, <1>2, <1>3, <1>4, JitAssumption DEF Clear
<1>6. Clear(n, p)
  BY <1>3, <1>4 DEF Clear
<1> QED
  BY <1>5, <1>6 DEF Compatible

\* A reservation is not compatible with itself.
LEMMA SelfConflict ==
  ASSUME NEW n \in Node
  PROVE  ~Compatible(n, n)
<1>1. n.count \in Int /\ n.pre \in Nat /\ n.post \in Nat
  BY NodeFields
<1>2. Ahead(n.count, n.count) = 0
  BY <1>1, JitAssumption DEF Ahead
<1>3. Lead(n, n) \in Nat
  BY <1>1, JitAssumption DEF Lead
<1>4. ~(0 > Lead(n, n) + n.post + TX_MARGIN_DELAY)
  BY <1>1, <1>3, JitAssumption
<1> QED
  BY <1>2, <1>4 DEF Compatible, Clear

\* A sorted queue is made of the kept slots of the queue it comes from, each
\* of them once.
LEMMA ArrangeForm ==
  ASSUME NEW q, NEW K, NEW s \in Arrange(q, K)
  PROVE  \E f \in Bijection(1..Cardinality(K), K) :
           s = [k \in 1..Cardinality(K) |-> q[f[k]]]
BY DEF Arrange

\* What an arrangement keeps: the type, every node, no other node, and the
\* absence of conflicts between the kept slots.
LEMMA ArrangeKeeps ==
  ASSUME NEW S, NEW q \in Seq(S), NEW K \in SUBSET DOMAIN q,
         NEW s \in Arrange(q, K)
  PROVE  /\ IsFiniteSet(K) /\ Cardinality(K) \in Nat
         /\ Cardinality(K) <= Len(q)
         /\ s \in Seq(S)
         /\ Len(s) = Cardinality(K)
         /\ Range(s) = {q[i] : i \in K}
         /\ (\A i, j \in K : i # j => Compatible(q[i], q[j]))
            => (\A i, j \in DOMAIN s : i # j => Compatible(s[i], s[j]))
<1> DEFINE n == Cardinality(K)
<1>0. Len(q) \in Nat /\ DOMAIN q = 1..Len(q)
  OBVIOUS
<1>1. IsFiniteSet(1..Len(q)) /\ Cardinality(1..Len(q)) = Len(q)
  BY <1>0, IndexRange
<1>2. IsFiniteSet(K) /\ n \in Nat /\ n <= Len(q)
  BY <1>0, <1>1, FS_Subset, FS_CardinalityType
<1>3. PICK f \in Bijection(1..n, K) : s = [k \in 1..n |-> q[f[k]]]
  BY ArrangeForm
<1>4. /\ f \in [1..n -> K]
      /\ \A a, b \in 1..n : f[a] = f[b] => a = b
      /\ \A t \in K : \E k \in 1..n : f[k] = t
  BY DEF Bijection, Injection, Surjection, IsInjective
<1>5. \A k \in 1..n : f[k] \in DOMAIN q /\ q[f[k]] \in S
  BY <1>4
<1>6. DOMAIN s = 1..n /\ s \in Seq(S) /\ Len(s) = n
  BY <1>2, <1>3, <1>5
<1>7. Range(s) = {q[i] : i \in K}
  BY <1>3, <1>4, <1>6 DEF Range
<1>8. ASSUME \A i, j \in K : i # j => Compatible(q[i], q[j]),
             NEW i \in DOMAIN s, NEW j \in DOMAIN s, i # j
      PROVE  Compatible(s[i], s[j])
  BY <1>3, <1>4, <1>6, <1>8
<1> QED
  BY <1>2, <1>6, <1>7, <1>8

\* Sorting keeps the number of beacons among the kept slots.
LEMMA ArrangeBeacons ==
  ASSUME NEW S, NEW q \in Seq(S), NEW K \in SUBSET DOMAIN q,
         NEW s \in Arrange(q, K)
  PROVE  /\ IsFiniteSet(BeaconSlots(q) \cap K)
         /\ Cardinality(BeaconSlots(s)) = Cardinality(BeaconSlots(q) \cap K)
<1> DEFINE n == Cardinality(K)
           T == BeaconSlots(q) \cap K
<1>1. IsFiniteSet(K) /\ n \in Nat /\ s \in Seq(S) /\ Len(s) = n
  BY ArrangeKeeps
<1>2. PICK f \in Bijection(1..n, K) : s = [k \in 1..n |-> q[f[k]]]
  BY ArrangeForm
<1>3. /\ f \in [1..n -> K]
      /\ \A a, b \in 1..n : f[a] = f[b] => a = b
      /\ \A t \in K : \E k \in 1..n : f[k] = t
  BY DEF Bijection, Injection, Surjection, IsInjective
<1>4. DOMAIN s = 1..n
  BY <1>1
<1> DEFINE g == [k \in BeaconSlots(s) |-> f[k]]
<1>5. g \in [BeaconSlots(s) -> T]
  BY <1>2, <1>3, <1>4 DEF BeaconSlots
<1>6. \A a, b \in BeaconSlots(s) : g[a] = g[b] => a = b
  BY <1>3, <1>4 DEF BeaconSlots
<1>7. \A t \in T : \E k \in BeaconSlots(s) : g[k] = t
  BY <1>2, <1>3, <1>4 DEF BeaconSlots
<1>8. ExistsBijection(BeaconSlots(s), T)
  BY <1>5, <1>6, <1>7
     DEF ExistsBijection, Bijection, Injection, Surjection, IsInjective
<1>9. IsFiniteSet(BeaconSlots(s))
  <2>1. IsFiniteSet(1..n)
    BY <1>1, FS_Interval
  <2>2. BeaconSlots(s) \in SUBSET (1..n)
    BY <1>4 DEF BeaconSlots
  <2> QED
    BY <2>1, <2>2, FS_Subset
<1>10. IsFiniteSet(T)
  BY <1>1, FS_Subset
<1> QED
  BY <1>8, <1>9, <1>10, FS_Bijection

\* The slot search of a Class C downlink yields values of the counter.
LEMMA AsapInRange ==
  ASSUME NEW q \in Seq(Node), NEW t \in Counter, NEW toa
  PROVE  AsapCounts(q, t, toa) \subseteq Counter
<1>1. t \in Int /\ 2 * TX_JIT_DELAY \in Int /\ PreDelay("C") \in Nat
  BY JitAssumption DEF Counter, PreDelay
<1>2. \A i \in DOMAIN q : q[i] \in Node
  OBVIOUS
<1>3. \A i \in DOMAIN q :
        /\ q[i].count \in Int
        /\ q[i].post + PreDelay("C") + TX_JIT_DELAY + TX_MARGIN_DELAY \in Int
  BY <1>1, <1>2, NodeFields, JitAssumption
<1> QED
  BY <1>1, <1>3, CounterClosed DEF AsapCounts

\* The queue that jit_enqueue() sorts: the old one with the packet at its end.
LEMMA AppendForm ==
  ASSUME NEW S, NEW s \in Seq(S), NEW p \in S
  PROVE  LET q == Append(s, p)
         IN /\ q \in Seq(S)
            /\ Len(q) = Len(s) + 1
            /\ DOMAIN q = 1 .. Len(s)+1
            /\ q[Len(s)+1] = p
            /\ \A i \in DOMAIN s : q[i] = s[i]
            /\ DOMAIN q = DOMAIN s \cup {Len(s)+1}
            /\ Len(s)+1 \notin DOMAIN s
OBVIOUS

\* A packet that meets criterion 3 can be sorted in: no air time is shared.
LEMMA InsertCompatible ==
  ASSUME NEW q \in Seq(Node), NEW p \in Node, NEW t, Acceptable(q, p, t),
         \A i, j \in DOMAIN q : i # j => Compatible(q[i], q[j]),
         NEW s \in Arrange(Append(q, p), 1 .. Len(q)+1)
  PROVE  /\ s \in Seq(Node) /\ Len(s) = Len(q) + 1
         /\ Range(s) = Range(q) \cup {p}
         /\ \A i, j \in DOMAIN s : i # j => Compatible(s[i], s[j])
<1> DEFINE r == Append(q, p)
           last == Len(q) + 1
<1>1. /\ r \in Seq(Node) /\ r[last] = p /\ Len(r) = last
      /\ \A i \in DOMAIN q : r[i] = q[i]
      /\ DOMAIN r = DOMAIN q \cup {last} /\ DOMAIN r = 1 .. last
  BY AppendForm
<1>2. \A i \in DOMAIN q : Compatible(p, q[i]) /\ Compatible(q[i], p)
  <2> SUFFICES ASSUME NEW i \in DOMAIN q
               PROVE  Compatible(p, q[i]) /\ Compatible(q[i], p)
    OBVIOUS
  <2>1. ~Collides(p, q[i])
    BY DEF Acceptable
  <2>2. q[i] \in Node
    OBVIOUS
  <2> QED
    BY <2>1, <2>2, CollisionFree
<1> HIDE DEF r
<1>3. \A i, j \in DOMAIN r : i # j => Compatible(r[i], r[j])
  BY <1>1, <1>2
<1>4. s \in Arrange(r, DOMAIN r) /\ DOMAIN r \in SUBSET DOMAIN r
  BY <1>1 DEF r
<1>5. /\ s \in Seq(Node) /\ Len(s) = Cardinality(DOMAIN r)
      /\ Range(s) = {r[i] : i \in DOMAIN r}
      /\ \A i, j \in DOMAIN s : i # j => Compatible(s[i], s[j])
  BY <1>1, <1>3, <1>4, ArrangeKeeps
<1>6. Len(s) = Len(q) + 1
  <2>1. last \in Nat
    OBVIOUS
  <2> QED
    BY <1>1, <1>5, <2>1, IndexRange
<1>7. {r[i] : i \in DOMAIN r} = Range(q) \cup {p}
  BY <1>1 DEF Range
<1> QED
  BY <1>5, <1>6, <1>7

-----------------------------------------------------------------------------
\* A set of numbers has a least one.
LEMMA Least ==
  ASSUME NEW T, T \subseteq Nat, T # {}
  PROVE  \E m \in T : \A k \in T : m <= k
<1> DEFINE R == OpToRel(<, Nat)
<1>1. IsWellFoundedOn(R, Nat)
  BY NatLessThanWellFounded
<1>2. \A x, y \in Nat : x < y => <<x, y>> \in R
  BY DEF OpToRel
<1> HIDE DEF R
<1>3. \E x \in T : \A y \in T : ~ (<<y, x>> \in R)
  BY <1>1, WFMin
<1>4. PICK m \in T : \A y \in T : ~ (<<y, m>> \in R)
  BY <1>3, Zenon
<1>5. \A y \in T : ~(y < m)
  BY <1>2, <1>4
<1>6. \A y \in T : y \in Nat /\ m \in Nat
  OBVIOUS
<1>7. \A y \in T : m <= y
  BY <1>5, <1>6
<1> QED BY <1>7, Zenon

-----------------------------------------------------------------------------
\* uint32_t subtraction, without the remainder.
LEMMA AheadCases ==
  ASSUME NEW x \in Counter, NEW y \in Counter
  PROVE  Ahead(x, y) = IF y <= x THEN x - y ELSE x - y + W
<1>1. W \in Nat \ {0} /\ x \in 0 .. W-1 /\ y \in 0 .. W-1
  BY JitAssumption DEF Counter
<1>2. CASE y <= x
  <2>1. x - y \in 0 .. W-1
    BY <1>1, <1>2
  <2> QED BY <1>1, <1>2, <2>1 DEF Ahead
<1>3. CASE ~(y <= x)
  <2>1. x - y \in (-W) .. -1
    BY <1>1, <1>3
  <2>2. (x - y) % W = x - y + W
    BY <1>1, <2>1
  <2> QED BY <1>3, <2>2 DEF Ahead
<1> QED BY <1>2, <1>3

\* Addition of less than a turn.
LEMMA AddCases ==
  ASSUME NEW x \in Counter, NEW k \in 0 .. W-1
  PROVE  Add(x, k) = IF x + k < W THEN x + k ELSE x + k - W
<1>1. W \in Nat \ {0} /\ x \in 0 .. W-1 /\ k \in 0 .. W-1
  BY JitAssumption DEF Counter
<1>2. CASE x + k < W
  BY <1>1, <1>2 DEF Add
<1>3. CASE ~(x + k < W)
  <2>1. (x + k) % W = x + k - W
    BY <1>1, <1>3
  <2> QED BY <1>3, <2>1 DEF Add
<1> QED BY <1>2, <1>3

\* The stamps as seen from a time t: what is ahead of what, and what an
\* addition moves.
LEMMA AheadFrom ==
  ASSUME NEW t \in Counter, NEW x \in Counter, NEW y \in Counter
  PROVE  /\ Ahead(x, t) \in 0 .. W-1 /\ Ahead(x, t) \in Int /\ W \in Nat
         /\ Ahead(y, t) <= Ahead(x, t) => Ahead(x, y) = Ahead(x, t) - Ahead(y, t)
         /\ Ahead(x, t) < Ahead(y, t) => Ahead(x, y) = W - (Ahead(y, t) - Ahead(x, t))
<1>1. W \in Nat \ {0} /\ x \in 0 .. W-1 /\ y \in 0 .. W-1 /\ t \in 0 .. W-1
  BY JitAssumption DEF Counter
<1>2. /\ Ahead(x, t) = IF t <= x THEN x - t ELSE x - t + W
      /\ Ahead(y, t) = IF t <= y THEN y - t ELSE y - t + W
      /\ Ahead(x, y) = IF y <= x THEN x - y ELSE x - y + W
  BY AheadCases
<1> QED BY <1>1, <1>2

LEMMA AheadSum ==
  ASSUME NEW t \in Counter, NEW u \in Counter, NEW x \in Counter,
         Ahead(x, u) + Ahead(u, t) < W
  PROVE  Ahead(x, t) = Ahead(x, u) + Ahead(u, t)
<1>1. W \in Nat \ {0} /\ x \in 0 .. W-1 /\ u \in 0 .. W-1 /\ t \in 0 .. W-1
  BY JitAssumption DEF Counter
<1>2. /\ Ahead(x, t) = IF t <= x THEN x - t ELSE x - t + W
      /\ Ahead(u, t) = IF t <= u THEN u - t ELSE u - t + W
      /\ Ahead(x, u) = IF u <= x THEN x - u ELSE x - u + W
  BY AheadCases
<1> QED BY <1>1, <1>2

LEMMA AddFrom ==
  ASSUME NEW t \in Counter, NEW x \in Counter, NEW k \in Nat, Ahead(x, t) + k < W
  PROVE  Add(x, k) \in Counter /\ Ahead(Add(x, k), t) = Ahead(x, t) + k
<1>1. W \in Nat \ {0} /\ x \in 0 .. W-1 /\ t \in 0 .. W-1
  BY JitAssumption DEF Counter
<1>2. Ahead(x, t) = IF t <= x THEN x - t ELSE x - t + W
  BY AheadCases
<1>3. k \in 0 .. W-1
  BY <1>1, <1>2
<1>4. Add(x, k) = IF x + k < W THEN x + k ELSE x + k - W
  BY <1>3, AddCases
<1>5. Add(x, k) \in Counter
  BY <1>1, <1>3, <1>4 DEF Counter
<1>6. Ahead(Add(x, k), t) = IF t <= Add(x, k) THEN Add(x, k) - t ELSE Add(x, k) - t + W
  BY <1>5, AheadCases
<1>7. Ahead(Add(x, k), t) = Ahead(x, t) + k
  BY <1>1, <1>2, <1>3, <1>4, <1>6
<1> QED BY <1>5, <1>7

\* A tick brings what is ahead one nearer.
LEMMA AheadNext ==
  ASSUME NEW t \in Counter, NEW x \in Counter, Ahead(x, t) > 0
  PROVE  Add(t, 1) \in Counter /\ Ahead(x, Add(t, 1)) = Ahead(x, t) - 1
<1>1. W \in Nat \ {0} /\ x \in 0 .. W-1 /\ t \in 0 .. W-1
  BY JitAssumption DEF Counter
<1>2. Ahead(x, t) = IF t <= x THEN x - t ELSE x - t + W
  BY AheadCases
<1>3. 1 \in 0 .. W-1
  BY <1>1, <1>2
<1>4. Add(t, 1) = IF t + 1 < W THEN t + 1 ELSE t + 1 - W
  BY <1>3, AddCases
<1>5. Add(t, 1) \in Counter
  BY <1>1, <1>4 DEF Counter
<1>6. Ahead(x, Add(t, 1)) = IF Add(t, 1) <= x THEN x - Add(t, 1) ELSE x - Add(t, 1) + W
  BY <1>5, AheadCases
<1>7. Ahead(x, Add(t, 1)) = Ahead(x, t) - 1
  BY <1>1, <1>2, <1>4, <1>6
<1> QED BY <1>5, <1>7

-----------------------------------------------------------------------------
\* A finite set can be listed in the order of any measure of its elements.
LEMMA ListInOrder ==
  ASSUME NEW S, IsFiniteSet(S), NEW g, \A x \in S : g[x] \in Nat
  PROVE  \E f \in Bijection(1 .. Cardinality(S), S) :
           \A i, j \in 1 .. Cardinality(S) : i < j => g[f[i]] <= g[f[j]]
<1> DEFINE Listed(U, f) ==
             /\ f \in Bijection(1 .. Cardinality(U), U)
             /\ \A i, j \in 1 .. Cardinality(U) : i < j => g[f[i]] <= g[f[j]]
           Bad == {n \in Nat : \E U \in SUBSET S :
                                 Cardinality(U) = n /\ ~ \E f : Listed(U, f)}
<1>0. \A U \in SUBSET S : IsFiniteSet(U) /\ Cardinality(U) \in Nat
  BY FS_Subset, FS_CardinalityType
<1>1. SUFFICES Bad = {}
  <2>1. ASSUME Bad = {} PROVE \E f : Listed(S, f)
    <3>1. S \in SUBSET S /\ Cardinality(S) \in Nat
      BY <1>0
    <3> QED BY <2>1, <3>1
  <2> QED BY <2>1
<1>2. SUFFICES ASSUME Bad # {} PROVE FALSE
  OBVIOUS
<1>3. Bad \subseteq Nat
  OBVIOUS
<1>4. PICK n \in Bad : \A k \in Bad : n <= k
  BY <1>2, <1>3, Least
<1>5. PICK U \in SUBSET S : Cardinality(U) = n /\ ~ \E f : Listed(U, f)
  BY <1>4
<1>6. n \in Nat
  BY <1>3, <1>4
<1>7. U # {}
  <2>1. ASSUME U = {} PROVE FALSE
    <3>1. Cardinality(U) = 0
      BY <2>1, FS_EmptySet
    <3>2. << >> \in Bijection(1 .. 0, U)
      BY <2>1 DEF Bijection, Injection, Surjection, IsInjective
    <3>3. Listed(U, << >>)
      BY <3>1, <3>2
    <3> QED BY <1>5, <3>3
  <2> QED BY <2>1
<1>8. PICK x \in U : \A y \in U : g[x] <= g[y]
  <2> DEFINE V == {g[y] : y \in U}
  <2>1. V \subseteq Nat /\ V # {}
    BY <1>7
  <2>2. PICK v \in V : \A k \in V : v <= k
    BY <2>1, Least
  <2> QED BY <2>2
<1> DEFINE Rest == U \ {x}
<1>9. Cardinality(Rest) = n - 1 /\ n - 1 \in Nat /\ Rest \in SUBSET S
  <2>1. Cardinality(Rest) = Cardinality(U) - 1
    BY <1>0, <1>8, FS_RemoveElement
  <2>2. Cardinality(Rest) \in Nat /\ Rest \in SUBSET S
    BY <1>0
  <2> QED BY <1>5, <1>6, <2>1, <2>2
<1>10. \E h : Listed(Rest, h)
  <2>1. n - 1 \notin Bad
    BY <1>4, <1>6, <1>9
  <2> QED BY <1>9, <2>1
<1>11. PICK h : Listed(Rest, h)
  BY <1>10
<1>12. /\ h \in [1 .. n-1 -> Rest]
       /\ \A a, b \in 1 .. n-1 : h[a] = h[b] => a = b
       /\ \A u \in Rest : \E k \in 1 .. n-1 : h[k] = u
       /\ \A i, j \in 1 .. n-1 : i < j => g[h[i]] <= g[h[j]]
  BY <1>9, <1>11 DEF Bijection, Injection, Surjection, IsInjective
<1> DEFINE f == [k \in 1 .. n |-> IF k = 1 THEN x ELSE h[k-1]]
<1> HIDE DEF Bad, Listed
<1>13. /\ n >= 1 /\ 1 \in 1 .. n
       /\ \A k \in 1 .. n : k # 1 => k - 1 \in 1 .. n-1
       /\ \A k \in 1 .. n-1 : k + 1 \in 1 .. n /\ k + 1 # 1 /\ (k + 1) - 1 = k
  BY <1>6, <1>9
<1>14. /\ f[1] = x
       /\ \A k \in 1 .. n : k # 1 => f[k] = h[k-1] /\ f[k] \in Rest
       /\ f \in [1 .. n -> U]
  BY <1>8, <1>12, <1>13
<1> HIDE DEF f
<1>15. ASSUME NEW a \in 1 .. n, NEW b \in 1 .. n, f[a] = f[b]
       PROVE  a = b
  <2>1. a # 1 /\ b # 1 => a = b
    <3>1. a # 1 /\ b # 1 => a - 1 = b - 1
      BY <1>12, <1>13, <1>14, <1>15
    <3> QED BY <3>1
  <2> QED BY <1>14, <1>15, <2>1
<1>16. ASSUME NEW u \in U
       PROVE  \E k \in 1 .. n : f[k] = u
  <2>1. CASE u = x
    BY <1>13, <1>14, <2>1
  <2>2. CASE u # x
    <3>1. PICK k \in 1 .. n-1 : h[k] = u
      BY <1>12, <2>2
    <3>2. k + 1 \in 1 .. n /\ k + 1 # 1 /\ (k + 1) - 1 = k
      BY <1>13
    <3>3. f[k + 1] = u
      BY <1>14, <3>1, <3>2
    <3> QED BY <3>2, <3>3
  <2> QED BY <2>1, <2>2
<1>17. ASSUME NEW i \in 1 .. n, NEW j \in 1 .. n, i < j
       PROVE  g[f[i]] <= g[f[j]]
  <2>1. j # 1 /\ j - 1 \in 1 .. n-1
    BY <1>6, <1>13, <1>17
  <2>2. CASE i = 1
    BY <1>8, <1>14, <2>1, <2>2
  <2>3. CASE i # 1
    <3>1. i - 1 \in 1 .. n-1 /\ i - 1 < j - 1
      BY <1>13, <1>17, <2>3
    <3> QED BY <1>12, <1>14, <2>1, <2>3, <3>1
  <2> QED BY <2>2, <2>3
<1>18. f \in Bijection(1 .. n, U)
  BY <1>14, <1>15, <1>16 DEF Bijection, Injection, Surjection, IsInjective
<1>19. Listed(U, f)
  BY <1>5, <1>17, <1>18 DEF Listed
<1> QED BY <1>5, <1>19
-----------------------------------------------------------------------------
\* The time order. Inside a window of less than half of the counter it is the
\* order of the distances from its start.
LEMMA OrderInWindow ==
  ASSUME NEW t \in Counter, NEW H \in Nat, 2 * H < W,
         NEW m \in Node, NEW n \in Node,
         Ahead(m.count, t) <= H, Ahead(n.count, t) <= H
  PROVE  InOrder(m, n) <=> Ahead(m.count, t) <= Ahead(n.count, t)
<1> DEFINE a == Ahead(m.count, t)
           b == Ahead(n.count, t)
           d == Ahead(m.count, n.count)
<1>1. m.count \in Counter /\ n.count \in Counter
  BY NodeFields
<1>2. /\ a \in 0 .. W-1 /\ b \in 0 .. W-1 /\ W \in Nat
      /\ b <= a => d = a - b
      /\ a < b => d = W - (b - a)
  <2>1. a \in 0 .. W-1 /\ W \in Nat
    BY <1>1, AheadFrom
  <2>2. b \in 0 .. W-1
    BY <1>1, AheadFrom
  <2>3. b <= a => d = a - b
    BY <1>1, AheadFrom
  <2>4. a < b => d = W - (b - a)
    BY <1>1, AheadFrom
  <2> QED BY <2>1, <2>2, <2>3, <2>4
<1>3. InOrder(m, n) <=> d = 0 \/ 2 * d >= W
  BY DEF InOrder
<1> HIDE DEF a, b, d
<1>4. a <= H /\ b <= H
  BY DEF a, b
<1>5. d = 0 \/ 2 * d >= W <=> a <= b
  BY <1>2, <1>4
<1> QED BY <1>3, <1>5 DEF a, b

\* A queue whose packets lie in such a window comes out of jit_sort_queue()
\* in order.
LEMMA ArrangeOrders ==
  ASSUME NEW t \in Counter, NEW H \in Nat, 2 * H < W,
         NEW q \in Seq(Node), NEW K \in SUBSET DOMAIN q,
         \A i \in K : Ahead(q[i].count, t) <= H,
         NEW s \in Arrange(q, K)
  PROVE  Ordered(s)
<1> DEFINE n == Cardinality(K)
           g == [i \in K |-> Ahead(q[i].count, t)]
           all == {[k \in 1 .. n |-> q[f[k]]] : f \in Bijection(1 .. n, K)}
<1>1. IsFiniteSet(K) /\ n \in Nat
  BY ArrangeKeeps
<1>2. \A i \in K : q[i] \in Node /\ q[i].count \in Counter
  BY NodeFields
<1>3. \A i \in K : g[i] \in Nat /\ g[i] = Ahead(q[i].count, t)
  <2> SUFFICES ASSUME NEW i \in K PROVE Ahead(q[i].count, t) \in Nat
    OBVIOUS
  <2>1. Ahead(q[i].count, t) \in 0 .. W-1
    BY <1>2, AheadFrom
  <2> QED BY <2>1
<1> HIDE DEF g
<1>4. PICK f \in Bijection(1 .. n, K) :
        \A i, j \in 1 .. n : i < j => g[f[i]] <= g[f[j]]
  BY <1>1, <1>3, ListInOrder
<1> DEFINE r == [k \in 1 .. n |-> q[f[k]]]
<1>5. f \in [1 .. n -> K]
  BY DEF Bijection, Injection
<1>6. Ordered(r)
  <2>1. DOMAIN r = 1 .. n
    OBVIOUS
  <2>2. ASSUME NEW i \in 1 .. n, NEW j \in 1 .. n, i < j
        PROVE  InOrder(r[i], r[j])
    <3>1. f[i] \in K /\ f[j] \in K
      BY <1>5
    <3>2. /\ q[f[i]] \in Node /\ q[f[j]] \in Node
          /\ Ahead(q[f[i]].count, t) <= H /\ Ahead(q[f[j]].count, t) <= H
          /\ Ahead(q[f[i]].count, t) <= Ahead(q[f[j]].count, t)
      BY <1>2, <1>3, <1>4, <2>2, <3>1
    <3>3. InOrder(q[f[i]], q[f[j]])
      BY <3>2, OrderInWindow
    <3> QED BY <3>3
  <2> QED BY <2>1, <2>2 DEF Ordered
<1>7. r \in {x \in all : Ordered(x)}
  BY <1>6
<1> QED BY <1>7 DEF Arrange

-----------------------------------------------------------------------------
\* How much of the counter a queue takes. Two neighbours of a crowded queue,
\* where X is the longest air time, are at most Step(X) apart.
Step(X) ==
  2 * (X + TX_MARGIN_DELAY + TX_START_DELAY) + 3 * TX_JIT_DELAY + BEACON_GUARD

\* The counter is wide enough: everything that is queued lies within H of now,
\* which is less than half of the counter.
Wide(X, H) ==
  /\ BEACON_RESERVED <= X /\ \A toa \in TOA : toa <= X
  /\ TX_START_DELAY + TX_MARGIN_DELAY < TX_JIT_DELAY
  /\ TX_JIT_DELAY <= TX_START_DELAY + TX_MARGIN_DELAY + BEACON_RESERVED
  /\ TX_JIT_DELAY <= TX_MAX_ADVANCE_DELAY /\ TX_MAX_ADVANCE_DELAY <= H
  /\ 2 * TX_JIT_DELAY + JIT_QUEUE_MAX * Step(X) <= H
  /\ 2 * (H + Step(X)) <= W

Within(q, t, H) == \A i \in DOMAIN q : Ahead(q[i].count, t) <= H

\* What a packet reserves, by its type.
LEMMA NodeDelays ==
  ASSUME NEW X \in Nat, NEW H \in Nat, Wide(X, H), NEW n \in Node
  PROVE  /\ n.pre \in Nat /\ n.post \in Nat /\ n.post <= X
         /\ TX_START_DELAY + TX_JIT_DELAY <= n.pre
         /\ n.pre <= TX_START_DELAY + TX_JIT_DELAY + BEACON_GUARD
         /\ n.type # "BEACON" => n.pre = TX_START_DELAY + TX_JIT_DELAY
         /\ n.type = "BEACON" => n.post = BEACON_RESERVED
<1>1. PICK c \in Counter, type \in PktType, toa \in TOA :
        n = NewNode(c, type, toa)
  BY DEF Node
<1>2. n.type = type /\ n.pre = PreDelay(type) /\ n.post = PostDelay(type, toa)
  BY <1>1 DEF NewNode
<1>3. toa \in Nat /\ toa <= X /\ BEACON_RESERVED <= X
  BY JitAssumption DEF Wide
<1> QED
  BY <1>2, <1>3, JitAssumption DEF PreDelay, PostDelay

\* Inside the window only the later of two packets needs to be looked at: the
\* other difference goes around the counter.
LEMMA TestInWindow ==
  ASSUME NEW X \in Nat, NEW H \in Nat, Wide(X, H), NEW t \in Counter,
         NEW c \in Counter, NEW e \in Counter,
         Ahead(c, t) <= H + Step(X), Ahead(e, t) <= H + Step(X),
         NEW pre1 \in Nat, NEW post1 \in Nat, NEW pre2 \in Nat, NEW post2 \in Nat,
         pre1 <= TX_START_DELAY + TX_JIT_DELAY + BEACON_GUARD, post1 <= X,
         pre2 <= TX_START_DELAY + TX_JIT_DELAY + BEACON_GUARD, post2 <= X
  PROVE  ~CollisionTest(c, pre1, post1, e, pre2, post2) <=>
           \/ Ahead(c, t) - Ahead(e, t) > pre1 + post2 + TX_MARGIN_DELAY
           \/ Ahead(e, t) - Ahead(c, t) > pre2 + post1 + TX_MARGIN_DELAY
<1> DEFINE x == Ahead(c, t)
           d == Ahead(e, t)
           u == Ahead(c, e)
           v == Ahead(e, c)
           M == TX_MARGIN_DELAY
<1>1. x \in 0 .. W-1 /\ d \in 0 .. W-1 /\ W \in Nat
  <2>1. x \in 0 .. W-1 /\ W \in Nat
    BY AheadFrom
  <2>2. d \in 0 .. W-1
    BY AheadFrom
  <2> QED BY <2>1, <2>2
<1>2. (d <= x => u = x - d) /\ (x < d => u = W - (d - x))
  <2>1. d <= x => u = x - d
    BY AheadFrom
  <2>2. x < d => u = W - (d - x)
    BY AheadFrom
  <2> QED BY <2>1, <2>2
<1>3. (x <= d => v = d - x) /\ (d < x => v = W - (x - d))
  <2>1. x <= d => v = d - x
    BY AheadFrom
  <2>2. d < x => v = W - (x - d)
    BY AheadFrom
  <2> QED BY <2>1, <2>2
<1>4. ~CollisionTest(c, pre1, post1, e, pre2, post2) <=>
        ~(u <= pre1 + post2 + M) /\ ~(v <= pre2 + post1 + M)
  BY DEF CollisionTest
<1>5. x <= H + Step(X) /\ d <= H + Step(X)
  OBVIOUS
<1> HIDE DEF x, d, u, v
<1>6. /\ M \in Nat /\ Step(X) \in Nat /\ 2 * (H + Step(X)) <= W
      /\ pre1 + post2 + M < H + Step(X) /\ pre2 + post1 + M < H + Step(X)
  BY JitAssumption DEF Wide, Step
<1> HIDE DEF M
<1>7. ~(u <= pre1 + post2 + M) /\ ~(v <= pre2 + post1 + M) <=>
        x - d > pre1 + post2 + M \/ d - x > pre2 + post1 + M
  BY <1>1, <1>2, <1>3, <1>5, <1>6
<1> QED BY <1>4, <1>7 DEF x, d, M

\* The later of two compatible packets, as seen from t.
LEMMA ApartInWindow ==
  ASSUME NEW t \in Counter, NEW m \in Node, NEW n \in Node, Compatible(m, n),
         Ahead(m.count, t) <= Ahead(n.count, t)
  PROVE  Ahead(n.count, t) - Ahead(m.count, t)
           > Lead(n, m) + m.post + TX_MARGIN_DELAY
<1>1. m.count \in Counter /\ n.count \in Counter
  BY NodeFields
<1>2. Ahead(n.count, m.count) = Ahead(n.count, t) - Ahead(m.count, t)
  BY <1>1, AheadFrom
<1> QED BY <1>2 DEF Compatible, Clear

-----------------------------------------------------------------------------
\* The slot search of a Class C downlink, its parts by name.
PreC == PreDelay("C")
Asap(t) == Add(t, 2 * TX_JIT_DELAY)
Behind(n) == Add(n.count, n.post + PreC + TX_JIT_DELAY + TX_MARGIN_DELAY)
Fits(c, toa, n) == ~CollisionTest(c, PreC, toa, n.count, n.pre, n.post)
Stops(q, toa, i) == i = Len(q) \/ Fits(Behind(q[i]), toa, q[i+1])
FirstStops(q, toa) ==
  {k \in DOMAIN q : Stops(q, toa, k) /\ \A j \in 1 .. k-1 : ~Stops(q, toa, j)}

LEMMA AsapParts ==
  ASSUME NEW q, NEW t, NEW toa
  PROVE  AsapCounts(q, t, toa) =
           IF \A i \in DOMAIN q : Fits(Asap(t), toa, q[i]) THEN {Asap(t)}
           ELSE {Behind(q[i]) : i \in FirstStops(q, toa)}
BY DEF AsapCounts, FirstStops, Stops, Fits, Behind, Asap, PreC

\* The search ends at some packet of the queue.
LEMMA SomeStop ==
  ASSUME NEW q \in Seq(Node), q # << >>, NEW toa
  PROVE  FirstStops(q, toa) # {}
<1> DEFINE T == {k \in DOMAIN q : Stops(q, toa, k)}
<1>1. Len(q) \in T /\ T \subseteq Nat /\ DOMAIN q = 1 .. Len(q) /\ Len(q) \in Nat
  BY DEF Stops
<1>2. PICK k \in T : \A j \in T : k <= j
  BY <1>1, Least
<1>3. \A j \in 1 .. k-1 : j \in DOMAIN q /\ ~(k <= j)
  BY <1>1
<1>4. k \in FirstStops(q, toa)
  BY <1>2, <1>3 DEF FirstStops
<1> QED BY <1>4

\* Where Asap and Behind are, as seen from t.
LEMMA AsapPosition ==
  ASSUME NEW X \in Nat, NEW H \in Nat, Wide(X, H), NEW t \in Counter
  PROVE  Asap(t) \in Counter /\ Ahead(Asap(t), t) = 2 * TX_JIT_DELAY
<1>1. Ahead(t, t) = 0
  BY JitAssumption DEF Ahead, Counter
<1>2. /\ 2 * TX_JIT_DELAY \in Nat /\ TX_JIT_DELAY > 0
      /\ Step(X) \in Nat /\ 2 * (H + Step(X)) <= W
      /\ 3 * TX_JIT_DELAY <= Step(X)
  BY JitAssumption DEF Wide, Step
<1>3. 2 * TX_JIT_DELAY < W
  BY <1>2, JitAssumption
<1>4. Ahead(t, t) + 2 * TX_JIT_DELAY < W
  BY <1>1, <1>2, <1>3
<1> QED BY <1>1, <1>2, <1>4, AddFrom DEF Asap

LEMMA BehindPosition ==
  ASSUME NEW X \in Nat, NEW H \in Nat, Wide(X, H), NEW t \in Counter,
         NEW n \in Node, Ahead(n.count, t) <= H
  PROVE  /\ Behind(n) \in Counter
         /\ Ahead(Behind(n), t) = Ahead(n.count, t)
              + (n.post + TX_START_DELAY + 2 * TX_JIT_DELAY + TX_MARGIN_DELAY)
         /\ Ahead(n.count, t) \in Nat /\ Ahead(Behind(n), t) \in Nat
         /\ Ahead(Behind(n), t) <= Ahead(n.count, t) + Step(X)
         /\ Ahead(Behind(n), t) <= H + Step(X)
         /\ TX_START_DELAY + TX_MARGIN_DELAY + TX_JIT_DELAY < Ahead(Behind(n), t)
<1> DEFINE k == n.post + PreC + TX_JIT_DELAY + TX_MARGIN_DELAY
           d == Ahead(n.count, t)
<1>1. n.count \in Counter /\ n.post \in Nat /\ n.post <= X
  BY NodeFields, NodeDelays
<1>2. d \in Nat /\ d <= H
  <2>1. d \in 0 .. W-1
    BY <1>1, AheadFrom
  <2> QED BY <2>1
<1>3. k = n.post + TX_START_DELAY + 2 * TX_JIT_DELAY + TX_MARGIN_DELAY /\ k \in Nat
  BY <1>1, JitAssumption DEF PreC, PreDelay
<1>4. /\ TX_START_DELAY + TX_MARGIN_DELAY + TX_JIT_DELAY < k
      /\ k <= Step(X) /\ Step(X) \in Nat /\ H + Step(X) < W /\ W \in Nat
  BY <1>1, <1>3, JitAssumption DEF Wide, Step
<1> HIDE DEF k
<1>5. Behind(n) = Add(n.count, k)
  BY DEF Behind, k
<1>6. d + k < W
  BY <1>2, <1>3, <1>4
<1>7. Behind(n) \in Counter /\ Ahead(Behind(n), t) = d + k
  BY <1>1, <1>3, <1>5, <1>6, AddFrom
<1> QED BY <1>2, <1>3, <1>4, <1>7, JitAssumption

-----------------------------------------------------------------------------
\* The slots of an ordered queue in a window depart one after the other.
LEMMA SlotsInOrder ==
  ASSUME NEW X \in Nat, NEW H \in Nat, Wide(X, H), NEW t \in Counter,
         NEW q \in Seq(Node), Within(q, t, H), Ordered(q),
         NEW i \in DOMAIN q, NEW j \in DOMAIN q, i <= j
  PROVE  Ahead(q[i].count, t) <= Ahead(q[j].count, t)
<1>1. CASE i = j
  <2>1. q[i].count \in Counter
    BY NodeFields
  <2>2. Ahead(q[i].count, t) \in Int
    BY <2>1, AheadFrom
  <2> QED BY <1>1, <2>2
<1>2. CASE i # j
  <2>1. i < j
    BY <1>2
  <2>2. InOrder(q[i], q[j])
    BY <2>1 DEF Ordered
  <2>3. 2 * H < W
    BY JitAssumption DEF Wide, Step
  <2>4. q[i] \in Node /\ q[j] \in Node
    OBVIOUS
  <2> QED BY <2>2, <2>3, <2>4, OrderInWindow DEF Within
<1> QED BY <1>1, <1>2

\* What Fits means inside the window, with the delays of a Class C packet.
LEMMA FitsInWindow ==
  ASSUME NEW X \in Nat, NEW H \in Nat, Wide(X, H), NEW t \in Counter,
         NEW c \in Counter, Ahead(c, t) <= H + Step(X),
         NEW n \in Node, Ahead(n.count, t) <= H, NEW toa \in TOA
  PROVE  Fits(c, toa, n) <=>
           \/ Ahead(c, t) - Ahead(n.count, t)
                > TX_START_DELAY + TX_JIT_DELAY + n.post + TX_MARGIN_DELAY
           \/ Ahead(n.count, t) - Ahead(c, t) > n.pre + toa + TX_MARGIN_DELAY
<1>1. /\ PreC = TX_START_DELAY + TX_JIT_DELAY /\ PreC \in Nat
      /\ PreC <= TX_START_DELAY + TX_JIT_DELAY + BEACON_GUARD
  BY JitAssumption DEF PreC, PreDelay
<1>2. toa \in Nat /\ toa <= X
  BY JitAssumption DEF Wide
<1>3. /\ n.count \in Counter /\ n.pre \in Nat /\ n.post \in Nat /\ n.post <= X
      /\ n.pre <= TX_START_DELAY + TX_JIT_DELAY + BEACON_GUARD
  BY NodeFields, NodeDelays
<1>4. Ahead(n.count, t) \in Int
  BY <1>3, AheadFrom
<1>5. Ahead(n.count, t) <= H + Step(X)
  BY <1>4, JitAssumption DEF Step
<1>6. ~CollisionTest(c, PreC, toa, n.count, n.pre, n.post) <=>
        \/ Ahead(c, t) - Ahead(n.count, t) > PreC + n.post + TX_MARGIN_DELAY
        \/ Ahead(n.count, t) - Ahead(c, t) > n.pre + toa + TX_MARGIN_DELAY
  BY <1>1, <1>2, <1>3, <1>5, TestInWindow
<1> QED BY <1>1, <1>6 DEF Fits

\* A packet that stands in the way of an immediate departure is near.
LEMMA BlockerNear ==
  ASSUME NEW X \in Nat, NEW H \in Nat, Wide(X, H), NEW t \in Counter,
         NEW n \in Node, Ahead(n.count, t) <= H, NEW toa \in TOA,
         ~Fits(Asap(t), toa, n)
  PROVE  Ahead(n.count, t) <= 2 * TX_JIT_DELAY + Step(X)
<1>1. Asap(t) \in Counter /\ Ahead(Asap(t), t) = 2 * TX_JIT_DELAY
  BY AsapPosition
<1>2. /\ n.count \in Counter /\ n.pre \in Nat
      /\ n.pre <= TX_START_DELAY + TX_JIT_DELAY + BEACON_GUARD
      /\ toa \in Nat /\ toa <= X
  BY NodeFields, NodeDelays, JitAssumption DEF Wide
<1>3. Ahead(n.count, t) \in Int
  BY <1>2, AheadFrom
<1>4. 2 * TX_JIT_DELAY <= H + Step(X) /\ Step(X) \in Nat
  BY JitAssumption DEF Wide, Step
<1>5. ~(Ahead(n.count, t) - 2 * TX_JIT_DELAY > n.pre + toa + TX_MARGIN_DELAY)
  BY <1>1, <1>4, FitsInWindow
<1> QED BY <1>2, <1>3, <1>5, JitAssumption DEF Step

\* So is a packet that leaves no gap behind another one.
LEMMA NoGap ==
  ASSUME NEW X \in Nat, NEW H \in Nat, Wide(X, H), NEW t \in Counter,
         NEW m \in Node, NEW n \in Node,
         Ahead(m.count, t) <= H, Ahead(n.count, t) <= H, NEW toa \in TOA,
         ~Fits(Behind(m), toa, n)
  PROVE  Ahead(n.count, t) <= Ahead(m.count, t) + Step(X)
<1>1. /\ Behind(m) \in Counter
      /\ Ahead(Behind(m), t) = Ahead(m.count, t)
           + (m.post + TX_START_DELAY + 2 * TX_JIT_DELAY + TX_MARGIN_DELAY)
      /\ Ahead(m.count, t) \in Nat
      /\ Ahead(Behind(m), t) \in Nat
      /\ Ahead(Behind(m), t) <= H + Step(X)
  BY BehindPosition
<1>2. ~(Ahead(n.count, t) - Ahead(Behind(m), t) > n.pre + toa + TX_MARGIN_DELAY)
  BY <1>1, FitsInWindow
<1>3. /\ n.count \in Counter /\ n.pre \in Nat
      /\ n.pre <= TX_START_DELAY + TX_JIT_DELAY + BEACON_GUARD
      /\ toa \in Nat /\ toa <= X
  BY NodeFields, NodeDelays, JitAssumption DEF Wide
<1>4. m.post \in Nat /\ m.post <= X
  BY NodeDelays
<1>5. Ahead(n.count, t) \in Int
  BY <1>3, AheadFrom
<1>6. Ahead(n.count, t) <= Ahead(Behind(m), t) + (n.pre + toa + TX_MARGIN_DELAY)
  BY <1>1, <1>2, <1>3, <1>5, JitAssumption
<1> QED BY <1>1, <1>3, <1>4, <1>5, <1>6, JitAssumption DEF Step

\* Where the search does not stop, the next packet is near.
LEMMA NextNear ==
  ASSUME NEW X \in Nat, NEW H \in Nat, Wide(X, H), NEW t \in Counter,
         NEW q \in Seq(Node), Within(q, t, H), NEW toa \in TOA,
         NEW k \in DOMAIN q, ~Stops(q, toa, k)
  PROVE  /\ k + 1 \in DOMAIN q
         /\ Ahead(q[k+1].count, t) <= Ahead(q[k].count, t) + Step(X)
<1>1. k + 1 \in DOMAIN q /\ ~Fits(Behind(q[k]), toa, q[k+1])
  BY DEF Stops
<1>2. q[k] \in Node /\ q[k+1] \in Node
  BY <1>1
<1>3. Ahead(q[k].count, t) <= H /\ Ahead(q[k+1].count, t) <= H
  BY <1>1 DEF Within
<1> QED BY <1>1, <1>2, <1>3, NoGap

\* Multiples of a natural number, for steps that count them.
LEMMA Multiples ==
  ASSUME NEW s \in Nat, NEW k \in Nat, NEW n \in Nat
  PROVE  /\ k * s \in Nat /\ (k + 1) * s = k * s + s /\ 1 * s = s
         /\ k <= n => k * s <= n * s
<1>1. k * s \in Nat /\ (k + 1) * s = k * s + s /\ 1 * s = s
  OBVIOUS
<1>2. k <= n => k * s <= n * s
  <2>1. k <= n => n = k + (n - k) /\ n - k \in Nat
    OBVIOUS
  <2>2. \A j \in Nat : (k + j) * s = k * s + j * s /\ j * s \in Nat
    OBVIOUS
  <2> QED BY <1>1, <2>1, <2>2
<1> QED BY <1>1, <1>2

\* Up to the first stop the packets are crowded: the i-th is at most i steps
\* behind the earliest departure.
LEMMA Crowded ==
  ASSUME NEW X \in Nat, NEW H \in Nat, Wide(X, H), NEW t \in Counter,
         NEW q \in Seq(Node), Within(q, t, H), Ordered(q), NEW toa \in TOA,
         NEW b \in DOMAIN q, ~Fits(Asap(t), toa, q[b]),
         NEW i \in FirstStops(q, toa)
  PROVE  Ahead(q[i].count, t) <= 2 * TX_JIT_DELAY + i * Step(X)
<1> DEFINE At(k) == Ahead(q[k].count, t)
           Limit(k) == 2 * TX_JIT_DELAY + k * Step(X)
           T == {k \in DOMAIN q : k <= i /\ ~(At(k) <= Limit(k))}
<1>1. /\ i \in DOMAIN q /\ DOMAIN q = 1 .. Len(q) /\ Len(q) \in Nat /\ i \in Nat
      /\ \A j \in 1 .. i-1 : ~Stops(q, toa, j)
  BY DEF FirstStops
<1>2. SUFFICES ASSUME T # {} PROVE FALSE
  BY <1>1
<1>3. T \subseteq Nat
  BY <1>1
<1>4. PICK k \in T : \A j \in T : k <= j
  BY <1>2, <1>3, Least
<1>5. k \in DOMAIN q /\ k \in Nat /\ k <= i /\ ~(At(k) <= Limit(k))
  BY <1>1, <1>4
<1>6. Step(X) \in Nat /\ 2 * TX_JIT_DELAY \in Nat
  BY JitAssumption DEF Step
<1>7. \A j \in DOMAIN q : At(j) \in Int
  <2> SUFFICES ASSUME NEW j \in DOMAIN q PROVE At(j) \in Int
    OBVIOUS
  <2>1. q[j].count \in Counter
    BY NodeFields
  <2> QED BY <2>1, AheadFrom
<1>8. CASE k = 1
  <2>1. At(1) <= At(b)
    <3>1. 1 \in DOMAIN q /\ 1 <= b
      BY <1>1
    <3> QED BY <3>1, SlotsInOrder
  <2>2. At(b) <= 2 * TX_JIT_DELAY + Step(X)
    <3>1. q[b] \in Node /\ Ahead(q[b].count, t) <= H
      BY DEF Within
    <3> QED BY <3>1, BlockerNear
  <2>3. Limit(1) = 2 * TX_JIT_DELAY + Step(X)
    BY <1>6, Multiples
  <2>4. At(1) \in Int /\ At(b) \in Int
    BY <1>1, <1>7
  <2> HIDE DEF At, Limit
  <2>5. At(1) <= Limit(1)
    BY <1>6, <2>1, <2>2, <2>3, <2>4
  <2> QED BY <1>5, <1>8, <2>5
<1>9. CASE k # 1
  <2>1. k - 1 \in DOMAIN q /\ k - 1 \in 1 .. i-1 /\ k - 1 \in Nat /\ (k - 1) + 1 = k
    BY <1>1, <1>5, <1>9
  <2>2. k - 1 \notin T
    BY <1>4, <1>5
  <2>3. At(k - 1) <= Limit(k - 1)
    BY <1>1, <1>5, <2>1, <2>2
  <2>4. ~Stops(q, toa, k - 1)
    BY <1>1, <2>1
  <2>5. At((k - 1) + 1) <= At(k - 1) + Step(X)
    BY <2>1, <2>4, NextNear
  <2>6. Limit(k) = Limit(k - 1) + Step(X)
    <3>1. ((k - 1) + 1) * Step(X) = (k - 1) * Step(X) + Step(X)
          /\ (k - 1) * Step(X) \in Nat
      BY <1>6, <2>1, Multiples
    <3> QED BY <1>6, <2>1, <3>1
  <2>7. Limit(k - 1) \in Int
    BY <1>6, <2>1, Multiples
  <2>8. At(k) \in Int /\ At(k - 1) \in Int
    BY <1>5, <1>7, <2>1
  <2> HIDE DEF At, Limit
  <2>9. At(k) <= Limit(k)
    BY <1>6, <2>1, <2>3, <2>5, <2>6, <2>7, <2>8
  <2> QED BY <1>5, <2>9
<1> QED BY <1>8, <1>9

-----------------------------------------------------------------------------
\* Where the search places a Class C downlink: not far behind what is queued and,
\* if the queue is not full, inside the window.
LEMMA AsapInWindow ==
  ASSUME NEW X \in Nat, NEW H \in Nat, Wide(X, H), NEW t \in Counter,
         NEW q \in Seq(Node), Within(q, t, H), Ordered(q),
         Len(q) < JIT_QUEUE_MAX, NEW toa \in TOA,
         NEW c \in AsapCounts(q, t, toa)
  PROVE  /\ c \in Counter /\ Ahead(c, t) <= H
         /\ Ahead(c, t) <= 2 * TX_JIT_DELAY + JIT_QUEUE_MAX * Step(X)
<1>0. 2 * TX_JIT_DELAY \in Nat /\ Step(X) \in Nat /\ JIT_QUEUE_MAX \in Nat
  BY JitAssumption DEF Step
<1>1. JIT_QUEUE_MAX * Step(X) \in Nat
  BY <1>0, Multiples
<1>2. CASE \A i \in DOMAIN q : Fits(Asap(t), toa, q[i])
  <2>1. c = Asap(t)
    BY <1>2, AsapParts
  <2>2. c \in Counter /\ Ahead(c, t) = 2 * TX_JIT_DELAY
    BY <2>1, AsapPosition
  <2>3. 2 * TX_JIT_DELAY + JIT_QUEUE_MAX * Step(X) <= H
    BY DEF Wide
  <2> HIDE DEF Step
  <2> QED BY <1>0, <1>1, <2>2, <2>3
<1>3. CASE ~ \A i \in DOMAIN q : Fits(Asap(t), toa, q[i])
  <2>1. PICK b \in DOMAIN q : ~Fits(Asap(t), toa, q[b])
    BY <1>3
  <2>2. PICK i \in FirstStops(q, toa) : c = Behind(q[i])
    BY <1>3, AsapParts
  <2>3. i \in DOMAIN q /\ q[i] \in Node /\ Ahead(q[i].count, t) <= H
    BY <2>2 DEF FirstStops, Within
  <2>4. i \in Nat /\ i + 1 <= JIT_QUEUE_MAX
    BY <1>0, <2>3
  <2>5. Ahead(q[i].count, t) <= 2 * TX_JIT_DELAY + i * Step(X)
    BY <2>1, <2>2, Crowded
  <2>6. /\ c \in Counter /\ Ahead(q[i].count, t) \in Nat /\ Ahead(c, t) \in Nat
        /\ Ahead(c, t) <= Ahead(q[i].count, t) + Step(X)
    BY <2>2, <2>3, BehindPosition
  <2>7. i * Step(X) + Step(X) = (i + 1) * Step(X) /\ i * Step(X) \in Nat
        /\ (i + 1) * Step(X) <= JIT_QUEUE_MAX * Step(X)
    <3>1. i * Step(X) + Step(X) = (i + 1) * Step(X) /\ i * Step(X) \in Nat
      BY <1>0, <2>4, Multiples
    <3>2. i + 1 \in Nat
      BY <2>4
    <3>3. (i + 1) * Step(X) <= JIT_QUEUE_MAX * Step(X)
      BY <1>0, <2>4, <3>2, Multiples
    <3> QED BY <3>1, <3>3
  <2>8. 2 * TX_JIT_DELAY + JIT_QUEUE_MAX * Step(X) <= H
    BY DEF Wide
  <2>9. Ahead(c, t) <= 2 * TX_JIT_DELAY + i * Step(X) + Step(X)
    BY <1>0, <2>5, <2>6, <2>7
  <2> DEFINE some == i * Step(X)
             full == JIT_QUEUE_MAX * Step(X)
  <2>10. some \in Nat /\ full \in Nat /\ some + Step(X) <= full
    BY <1>0, <1>1, <2>7
  <2>11. Ahead(c, t) <= 2 * TX_JIT_DELAY + some + Step(X) /\ 2 * TX_JIT_DELAY + full <= H
    BY <2>8, <2>9
  <2> HIDE DEF some, full
  <2>12. Ahead(c, t) <= 2 * TX_JIT_DELAY + full
    BY <1>0, <2>6, <2>10, <2>11
  <2>13. Ahead(c, t) <= H
    BY <1>0, <2>6, <2>10, <2>11, <2>12
  <2> QED BY <2>6, <2>12, <2>13 DEF full
<1> QED BY <1>2, <1>3

\* The Class C packet does not collide with n: it is far enough from it on the
\* side on which it is.
LEMMA FreeOf ==
  ASSUME NEW X \in Nat, NEW H \in Nat, Wide(X, H), NEW t \in Counter,
         NEW c \in Counter, Ahead(c, t) <= H + Step(X),
         NEW n \in Node, Ahead(n.count, t) <= H, NEW toa \in TOA,
         \/ Ahead(c, t) - Ahead(n.count, t)
              > TX_START_DELAY + TX_JIT_DELAY + n.post + TX_MARGIN_DELAY
         \/ Ahead(n.count, t) - Ahead(c, t)
              > TargetPre(NewNode(c, "C", toa), n) + toa + TX_MARGIN_DELAY
  PROVE  ~Collides(NewNode(c, "C", toa), n)
<1> DEFINE p == NewNode(c, "C", toa)
<1>1. /\ p.count = c /\ p.type = "C" /\ p.post = toa
      /\ p.pre = TX_START_DELAY + TX_JIT_DELAY
  BY DEF NewNode, PreDelay, PostDelay
<1>2. /\ toa \in Nat /\ toa <= X
      /\ p.pre \in Nat /\ p.pre <= TX_START_DELAY + TX_JIT_DELAY + BEACON_GUARD
  BY <1>1, JitAssumption DEF Wide
<1>3. /\ n.count \in Counter /\ n.pre \in Nat /\ n.post \in Nat /\ n.post <= X
      /\ TX_START_DELAY + TX_JIT_DELAY <= n.pre
      /\ n.pre <= TX_START_DELAY + TX_JIT_DELAY + BEACON_GUARD
  BY NodeFields, NodeDelays
<1>4. /\ TargetPre(p, n) \in Nat
      /\ TargetPre(p, n) <= TX_START_DELAY + TX_JIT_DELAY + BEACON_GUARD
  BY <1>3, JitAssumption DEF TargetPre
<1>5. Ahead(n.count, t) \in Int
  BY <1>3, AheadFrom
<1>6. Ahead(n.count, t) <= H + Step(X)
  BY <1>5, JitAssumption DEF Step
<1> HIDE DEF p
<1>7. ~CollisionTest(c, p.pre, p.post, n.count, TargetPre(p, n), n.post) <=>
        \/ Ahead(c, t) - Ahead(n.count, t) > p.pre + n.post + TX_MARGIN_DELAY
        \/ Ahead(n.count, t) - Ahead(c, t)
             > TargetPre(p, n) + p.post + TX_MARGIN_DELAY
  BY <1>1, <1>2, <1>3, <1>4, <1>6, TestInWindow
<1>8. ~CollisionTest(c, p.pre, p.post, n.count, TargetPre(p, n), n.post)
  BY <1>1, <1>7 DEF p
<1> QED BY <1>1, <1>8 DEF Collides, p

\* Behind a packet m the place is free of m itself and of what departs before.
LEMMA FreeOfEarlier ==
  ASSUME NEW X \in Nat, NEW H \in Nat, Wide(X, H), NEW t \in Counter,
         NEW m \in Node, NEW n \in Node,
         Ahead(m.count, t) <= H, Ahead(n.count, t) <= H, NEW toa \in TOA,
         n = m \/ (Compatible(n, m) /\ Ahead(n.count, t) <= Ahead(m.count, t))
  PROVE  ~Collides(NewNode(Behind(m), "C", toa), n)
<1>1. /\ Behind(m) \in Counter
      /\ Ahead(Behind(m), t) = Ahead(m.count, t)
           + (m.post + TX_START_DELAY + 2 * TX_JIT_DELAY + TX_MARGIN_DELAY)
      /\ Ahead(m.count, t) \in Nat
      /\ Ahead(Behind(m), t) <= H + Step(X)
  BY BehindPosition
<1>2. Ahead(n.count, t) \in Nat
  BY BehindPosition
<1>3. m.post \in Nat /\ n.post \in Nat
  BY NodeDelays
<1>4. TX_JIT_DELAY > 0
  BY JitAssumption DEF Wide
<1>5. n = m \/ Ahead(m.count, t) - Ahead(n.count, t) > n.post + TX_MARGIN_DELAY
  <2>1. CASE n = m
    BY <2>1
  <2>2. CASE Compatible(n, m) /\ Ahead(n.count, t) <= Ahead(m.count, t)
    <3>1. Ahead(m.count, t) - Ahead(n.count, t)
            > Lead(m, n) + n.post + TX_MARGIN_DELAY
      BY <2>2, ApartInWindow
    <3>2. Lead(m, n) \in Nat
      BY NodeFields, JitAssumption DEF Lead
    <3> QED BY <1>1, <1>2, <1>3, <3>1, <3>2, JitAssumption
  <2> QED BY <2>1, <2>2
<1>6. Ahead(Behind(m), t) - Ahead(n.count, t)
        > TX_START_DELAY + TX_JIT_DELAY + n.post + TX_MARGIN_DELAY
  <2>1. CASE n = m
    BY <1>1, <1>3, <1>4, <2>1, JitAssumption
  <2>2. CASE Ahead(m.count, t) - Ahead(n.count, t) > n.post + TX_MARGIN_DELAY
    BY <1>1, <1>2, <1>3, <1>4, <2>2, JitAssumption
  <2> QED BY <1>5, <2>1, <2>2
<1> QED BY <1>1, <1>6, FreeOf

\* What fits behind m is before the packet n that follows m.
LEMMA GapIsBefore ==
  ASSUME NEW X \in Nat, NEW H \in Nat, Wide(X, H), NEW t \in Counter,
         NEW m \in Node, NEW n \in Node,
         Ahead(m.count, t) <= H, Ahead(n.count, t) <= H, NEW toa \in TOA,
         Compatible(m, n), Ahead(m.count, t) <= Ahead(n.count, t),
         Fits(Behind(m), toa, n)
  PROVE  Ahead(n.count, t) - Ahead(Behind(m), t) > n.pre + toa + TX_MARGIN_DELAY
<1>1. /\ Behind(m) \in Counter
      /\ Ahead(Behind(m), t) = Ahead(m.count, t)
           + (m.post + TX_START_DELAY + 2 * TX_JIT_DELAY + TX_MARGIN_DELAY)
      /\ Ahead(m.count, t) \in Nat /\ Ahead(Behind(m), t) \in Nat
      /\ Ahead(Behind(m), t) <= H + Step(X)
  BY BehindPosition
<1>2. Ahead(n.count, t) \in Nat
  BY BehindPosition
<1>3. /\ m.post \in Nat /\ n.post \in Nat /\ n.pre \in Nat
      /\ TX_START_DELAY + TX_JIT_DELAY <= n.pre
      /\ n.type = "BEACON" => n.post = BEACON_RESERVED
  BY NodeDelays
<1>4. Ahead(n.count, t) - Ahead(m.count, t) > Lead(n, m) + m.post + TX_MARGIN_DELAY
  BY ApartInWindow
<1>5. TX_JIT_DELAY <= TX_MARGIN_DELAY + n.post + Lead(n, m) /\ Lead(n, m) \in Nat
  <2>1. CASE n.type = "BEACON" /\ m.type \in {"A", "C"}
    BY <1>3, <2>1, JitAssumption DEF Wide, Lead
  <2>2. CASE ~(n.type = "BEACON" /\ m.type \in {"A", "C"})
    BY <1>3, <2>2, JitAssumption DEF Wide, Lead
  <2> QED BY <2>1, <2>2
<1>6. ~(Ahead(Behind(m), t) - Ahead(n.count, t)
          > TX_START_DELAY + TX_JIT_DELAY + n.post + TX_MARGIN_DELAY)
  BY <1>1, <1>2, <1>3, <1>4, <1>5, JitAssumption
<1> QED BY <1>1, <1>6, FitsInWindow

\* And free of the packets after it.
LEMMA FreeOfLater ==
  ASSUME NEW X \in Nat, NEW H \in Nat, Wide(X, H), NEW t \in Counter,
         NEW c \in Counter, Ahead(c, t) <= H + Step(X), Ahead(c, t) \in Nat,
         NEW n \in Node, NEW o \in Node,
         Ahead(n.count, t) <= H, Ahead(o.count, t) <= H, NEW toa \in TOA,
         Ahead(n.count, t) - Ahead(c, t) > n.pre + toa + TX_MARGIN_DELAY,
         Ahead(n.count, t) <= Ahead(o.count, t)
  PROVE  ~Collides(NewNode(c, "C", toa), o)
<1>1. Ahead(n.count, t) \in Nat
  BY BehindPosition
<1>2. Ahead(o.count, t) \in Nat
  BY BehindPosition
<1>3. /\ n.pre \in Nat /\ TX_START_DELAY + TX_JIT_DELAY <= n.pre /\ toa \in Nat
  BY NodeDelays, JitAssumption
<1>4. /\ o.pre \in Nat
      /\ o.type # "BEACON" => o.pre = TX_START_DELAY + TX_JIT_DELAY
  BY NodeDelays
<1>5. TargetPre(NewNode(c, "C", toa), o) <= TX_START_DELAY + TX_JIT_DELAY
      /\ TargetPre(NewNode(c, "C", toa), o) \in Nat
  <2>1. NewNode(c, "C", toa).type = "C"
    BY DEF NewNode
  <2>2. CASE o.type = "BEACON"
    BY <2>1, <2>2, JitAssumption DEF TargetPre
  <2>3. CASE o.type # "BEACON"
    <3>1. TargetPre(NewNode(c, "C", toa), o) = o.pre
      BY <2>3 DEF TargetPre
    <3> QED BY <1>4, <2>3, <3>1, JitAssumption
  <2> QED BY <2>2, <2>3
<1>6. Ahead(o.count, t) - Ahead(c, t)
        > TargetPre(NewNode(c, "C", toa), o) + toa + TX_MARGIN_DELAY
  BY <1>1, <1>2, <1>3, <1>5, JitAssumption
<1> QED BY <1>6, FreeOf

-----------------------------------------------------------------------------
\* The slot that the search finds passes the three criteria of jit_enqueue().
LEMMA AsapAccepted ==
  ASSUME NEW X \in Nat, NEW H \in Nat, Wide(X, H), NEW t \in Counter,
         NEW q \in Seq(Node), Within(q, t, H), Ordered(q),
         \A i, j \in DOMAIN q : i # j => Compatible(q[i], q[j]),
         NEW toa \in TOA, NEW c \in AsapCounts(q, t, toa)
  PROVE  Acceptable(q, NewNode(c, "C", toa), t)
<1> DEFINE p == NewNode(c, "C", toa)
<1>1. p.count = c /\ p.type = "C"
  BY DEF NewNode
<1>2. /\ TX_JIT_DELAY > 0 /\ Step(X) \in Nat
      /\ TX_START_DELAY + TX_MARGIN_DELAY < TX_JIT_DELAY
      /\ 2 * TX_JIT_DELAY <= H + Step(X)
  BY JitAssumption DEF Wide, Step
<1>3. CASE \A i \in DOMAIN q : Fits(Asap(t), toa, q[i])
  <2>1. c = Asap(t)
    BY <1>3, AsapParts
  <2>2. c \in Counter /\ Ahead(c, t) = 2 * TX_JIT_DELAY
    BY <2>1, AsapPosition
  <2>3. Ahead(c, t) <= H + Step(X) /\ Ahead(c, t) \in Nat
    BY <1>2, <2>2, JitAssumption
  <2>4. ~TooLate(p, t) /\ ~TooEarly(p, t)
    BY <1>1, <1>2, <2>2, JitAssumption DEF TooLate, TooEarly
  <2>5. ASSUME NEW i \in DOMAIN q PROVE ~Collides(p, q[i])
    <3>1. q[i] \in Node /\ Ahead(q[i].count, t) <= H /\ Fits(c, toa, q[i])
      BY <1>3, <2>1 DEF Within
    <3>2. \/ Ahead(c, t) - Ahead(q[i].count, t)
               > TX_START_DELAY + TX_JIT_DELAY + q[i].post + TX_MARGIN_DELAY
          \/ Ahead(q[i].count, t) - Ahead(c, t) > q[i].pre + toa + TX_MARGIN_DELAY
      BY <2>2, <2>3, <3>1, FitsInWindow
    <3>3. CASE Ahead(c, t) - Ahead(q[i].count, t)
                 > TX_START_DELAY + TX_JIT_DELAY + q[i].post + TX_MARGIN_DELAY
      BY <2>2, <2>3, <3>1, <3>3, FreeOf
    <3>4. CASE Ahead(q[i].count, t) - Ahead(c, t) > q[i].pre + toa + TX_MARGIN_DELAY
      <4>1. Ahead(q[i].count, t) <= Ahead(q[i].count, t)
        <5>1. q[i].count \in Counter
          BY <3>1, NodeFields
        <5>2. Ahead(q[i].count, t) \in Int
          BY <5>1, AheadFrom
        <5> QED BY <5>2
      <4> QED BY <2>2, <2>3, <3>1, <3>4, <4>1, FreeOfLater
    <3> QED BY <3>2, <3>3, <3>4
  <2> QED BY <2>4, <2>5 DEF Acceptable
<1>4. CASE ~ \A i \in DOMAIN q : Fits(Asap(t), toa, q[i])
  <2>1. PICK i \in FirstStops(q, toa) : c = Behind(q[i])
    BY <1>4, AsapParts
  <2>2. /\ i \in DOMAIN q /\ q[i] \in Node /\ Ahead(q[i].count, t) <= H
        /\ Stops(q, toa, i)
    BY <2>1 DEF FirstStops, Within
  <2>3. /\ c \in Counter /\ Ahead(q[i].count, t) \in Nat /\ Ahead(c, t) \in Nat
        /\ Ahead(c, t) <= H + Step(X)
        /\ TX_START_DELAY + TX_MARGIN_DELAY + TX_JIT_DELAY < Ahead(c, t)
    BY <2>1, <2>2, BehindPosition
  <2>4. ~TooLate(p, t) /\ ~TooEarly(p, t)
    BY <1>1, <2>3, JitAssumption DEF TooLate, TooEarly
  <2>5. ASSUME NEW j \in DOMAIN q PROVE ~Collides(p, q[j])
    <3>1. q[j] \in Node /\ Ahead(q[j].count, t) <= H
      BY DEF Within
    <3>2. CASE j <= i
      <4>1. q[j] = q[i] \/ (Compatible(q[j], q[i])
                            /\ Ahead(q[j].count, t) <= Ahead(q[i].count, t))
        BY <2>2, <3>2, SlotsInOrder
      <4>2. ~Collides(NewNode(Behind(q[i]), "C", toa), q[j])
        BY <2>2, <3>1, <4>1, FreeOfEarlier
      <4> QED BY <2>1, <4>2
    <3>3. CASE i < j
      <4>1. i # Len(q) /\ i + 1 \in DOMAIN q /\ i + 1 <= j /\ i <= i + 1 /\ i + 1 # i
        BY <2>2, <3>3
      <4>2. Fits(Behind(q[i]), toa, q[i+1])
        BY <2>2, <4>1 DEF Stops
      <4>3. q[i+1] \in Node /\ Ahead(q[i+1].count, t) <= H
            /\ Compatible(q[i], q[i+1])
        BY <2>2, <4>1 DEF Within
      <4>4. Ahead(q[i].count, t) <= Ahead(q[i+1].count, t)
        BY <2>2, <4>1, SlotsInOrder
      <4>5. Ahead(q[i+1].count, t) <= Ahead(q[j].count, t)
        BY <4>1, SlotsInOrder
      <4>6. Ahead(q[i+1].count, t) - Ahead(Behind(q[i]), t)
              > q[i+1].pre + toa + TX_MARGIN_DELAY
        BY <2>2, <4>2, <4>3, <4>4, GapIsBefore
      <4>7. ~Collides(NewNode(c, "C", toa), q[j])
        BY <2>1, <2>3, <3>1, <4>3, <4>5, <4>6, FreeOfLater
      <4> QED BY <4>7
    <3> QED BY <2>2, <3>2, <3>3
  <2> QED BY <2>4, <2>5 DEF Acceptable
<1> QED BY <1>3, <1>4

\* And it always finds one.
LEMMA AsapExists ==
  ASSUME NEW q \in Seq(Node), NEW t, NEW toa
  PROVE  AsapCounts(q, t, toa) # {}
<1>1. CASE \A i \in DOMAIN q : Fits(Asap(t), toa, q[i])
  BY <1>1, AsapParts
<1>2. CASE ~ \A i \in DOMAIN q : Fits(Asap(t), toa, q[i])
  <2>1. q # << >>
    BY <1>2
  <2>2. PICK i \in FirstStops(q, toa) : TRUE
    BY <2>1, SomeStop
  <2> QED BY <1>2, <2>2, AsapParts
<1> QED BY <1>1, <1>2

-----------------------------------------------------------------------------
\* Of the packets that a peek has seen, one is the earliest. If one of them is
\* near, there is one to select.
LEMMA DueExists ==
  ASSUME NEW t \in Counter, NEW q \in Seq(Node), NEW i \in Seen(q, t),
         Ahead(q[i].count, t) < TX_JIT_DELAY
  PROVE  Due(q, t) # {}
<1> DEFINE T == {Ahead(q[j].count, t) : j \in Seen(q, t)}
<1>1. \A j \in Seen(q, t) : Ahead(q[j].count, t) \in Nat
  <2> SUFFICES ASSUME NEW j \in Seen(q, t) PROVE Ahead(q[j].count, t) \in Nat
    OBVIOUS
  <2>1. j \in DOMAIN q
    BY DEF Seen
  <2>2. q[j].count \in Counter
    BY <2>1, NodeFields
  <2>3. Ahead(q[j].count, t) \in 0 .. W-1
    BY <2>2, AheadFrom
  <2> QED BY <2>3
<1>2. T \subseteq Nat /\ T # {}
  BY <1>1
<1>3. PICK m \in T : \A k \in T : m <= k
  BY <1>2, Least
<1>4. PICK j \in Seen(q, t) : m = Ahead(q[j].count, t)
  BY <1>3
<1>5. \A k \in Seen(q, t) : Ahead(q[j].count, t) <= Ahead(q[k].count, t)
  BY <1>3, <1>4
<1>6. Ahead(q[j].count, t) < TX_JIT_DELAY
  BY <1>1, <1>5, JitAssumption
<1>7. j \in Due(q, t)
  BY <1>5, <1>6 DEF Due
<1> QED BY <1>7
=============================================================================
