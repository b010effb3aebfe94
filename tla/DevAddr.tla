------------------------------ MODULE DevAddr -------------------------------
(***************************************************************************)
(* Device addresses (dev-addr.cpp, net-id.cpp) in version 1.1 of the       *)
(* assignment, which the build selects. An address is a number of 32 bits: *)
(* a prefix of t ones and a zero for type t, the identifier of the network *)
(* and the address within it. The bits set by an OR are zero before it, so *)
(* that it adds.                                                           *)
(***************************************************************************)
EXTENDS Integers, TLAPS

TOP     == 4294967296
Address == 0 .. TOP-1
Types   == 0 .. 7
INVALID_ID == TOP-1

\* For each type: the value of the last bit of the prefix, the addresses of a
\* network, and the identifiers that setNwkId_1_1() accepts.
Unit(t)  == <<2147483648, 1073741824, 536870912, 268435456,
              134217728, 67108864, 33554432, 16777216>>[t + 1]
Addrs(t) == <<33554432, 16777216, 1048576, 131072, 32768, 8192, 1024, 128>>[t + 1]
Ids(t)   == <<64, 64, 512, 2048, 4096, 8192, 32768, 131072>>[t + 1]

\* The first address of a type.
Base(t) == TOP - 2 * Unit(t)

-----------------------------------------------------------------------------
\* getNetIdType(): the prefix decides; 8 for an address without any.
HasType(a, t) == a \div Unit(t) = Base(t) \div Unit(t)

NetIdType(a) ==
  IF \E t \in Types : HasType(a, t) THEN CHOOSE t \in Types : HasType(a, t) ELSE 8

\* getNwkId_1_1(). Of type 4 the lowest bit is taken from the wrong byte.
NwkIdAs(t, a) ==
  IF t = 8 THEN INVALID_ID
  ELSE IF t = 4 THEN ((a % Unit(4)) \div 65536) * 2 + (a % 256) \div 128
  ELSE (a % Unit(t)) \div Addrs(t)
NwkId(a) == NwkIdAs(NetIdType(a), a)

\* getNwkAddr_1_1().
NwkAddr(a) ==
  IF NetIdType(a) = 8 THEN INVALID_ID ELSE a % Addrs(NetIdType(a))

SetNetIdType(a, t) == Base(t) + (a % Unit(t))

\* The masks of both setters take what is below Low for the address: for type 5
\* the two lowest bits of the identifier are among it.
Low(t) == IF t = 5 THEN 4 * Addrs(5) ELSE Addrs(t)

\* What an OR with k adds to i, for k of two bits.
Bit(i, b) == (i \div b) % 2
Added(k, i) == Bit(k, 1) * (1 - Bit(i, 1)) + 2 * Bit(k, 2) * (1 - Bit(i, 2))

\* setNwkId_1_1() keeps what is below Low; it shifts the identifier of type 3
\* or 4 to the place of version 1.0, which is twice as high.
Shift(t) == IF t \in {3, 4} THEN 2 ELSE 1
Place(t) == Shift(t) * Addrs(t)
SetNwkId(a, t, id) ==
  (a - (a % Unit(t))) + (a % Addrs(t))
    + (id + Added((a % Low(t)) \div Addrs(t), id)) * Place(t)

\* setNwkAddr_1_1(): what is out of range changes nothing.
SetNwkAddr(a, t, n) ==
  IF t \in Types /\ n < Addrs(t) THEN (a - (a % Low(t))) + n ELSE a

\* set(): what has been set before an error stays.
Set(a, t, id, n) ==
  IF t \notin Types THEN a
  ELSE IF id >= Ids(t) THEN SetNetIdType(a, t)
  ELSE SetNwkAddr(SetNwkId(SetNetIdType(a, t), t, id), t, n)

\* increment() and decrement(), in 32 bits.
Increment(a) == SetNwkAddr(a, NetIdType(a), (NwkAddr(a) + 1) % TOP)
Decrement(a) == SetNwkAddr(a, NetIdType(a), (NwkAddr(a) - 1) % TOP)

\* A NetId of three bytes: its type, and the identifier that getNwkId() takes
\* from it, with the sizes of version 1.0.
NETIDS == 16777216
NetIds == 0 .. NETIDS-1
TypeOfNetId(netid)  == netid \div 2097152
NetIdIds(t) == IF t = 3 THEN 1024 ELSE IF t = 4 THEN 2048 ELSE Ids(t)
NwkIdOfNetId(netid) == netid % NetIdIds(TypeOfNetId(netid))
SetOfNetId(a, netid, n) == Set(a, TypeOfNetId(netid), NwkIdOfNetId(netid), n)

-----------------------------------------------------------------------------
LEMMA Table ==
  ASSUME NEW t \in Types
  PROVE  \/ t = 0 /\ Unit(t) = 2147483648 /\ Addrs(t) = 33554432 /\ Ids(t) = 64
         \/ t = 1 /\ Unit(t) = 1073741824 /\ Addrs(t) = 16777216 /\ Ids(t) = 64
         \/ t = 2 /\ Unit(t) = 536870912 /\ Addrs(t) = 1048576 /\ Ids(t) = 512
         \/ t = 3 /\ Unit(t) = 268435456 /\ Addrs(t) = 131072 /\ Ids(t) = 2048
         \/ t = 4 /\ Unit(t) = 134217728 /\ Addrs(t) = 32768 /\ Ids(t) = 4096
         \/ t = 5 /\ Unit(t) = 67108864 /\ Addrs(t) = 8192 /\ Ids(t) = 8192
         \/ t = 6 /\ Unit(t) = 33554432 /\ Addrs(t) = 1024 /\ Ids(t) = 32768
         \/ t = 7 /\ Unit(t) = 16777216 /\ Addrs(t) = 128 /\ Ids(t) = 131072
  BY SMT DEF Types, Unit, Addrs, Ids


\* Where the three parts of an address lie.
Prefix(t) == TOP \div Unit(t) - 2

LEMMA Layout ==
  ASSUME NEW t \in Types
  PROVE  /\ Unit(t) \in Nat \ {0} /\ Addrs(t) \in Nat \ {0} /\ Ids(t) \in Nat \ {0}
         /\ Prefix(t) \in Nat /\ Base(t) \in Nat
         /\ Unit(t) = Ids(t) * Addrs(t) /\ Base(t) = Prefix(t) * Unit(t)
         /\ Base(t) + Unit(t) < TOP /\ Addrs(t) < TOP
  BY SMT, Table DEF Base, Prefix, TOP

LEMMA ShiftType ==
  ASSUME NEW t \in Types PROVE Shift(t) \in Nat \ {0}
  BY DEF Shift

\* The remainder and the quotient of a number in two parts.
LEMMA Parts ==
  ASSUME NEW m \in Nat \ {0}, NEW q \in Int, NEW r \in 0 .. m-1
  PROVE  (q * m + r) % m = r /\ (q * m + r) \div m = q
  BY SMT

LEMMA Remainder ==
  ASSUME NEW m \in Nat \ {0}, NEW a \in Int
  PROVE  a % m \in 0 .. m-1 /\ a = (a \div m) * m + (a % m) /\ a \div m \in Int
  BY SMT

\* The addresses of a type are those of an interval; the intervals are apart.
LEMMA Span ==
  ASSUME NEW t \in Types, NEW a \in Int
  PROVE  HasType(a, t) <=> a \in Base(t) .. Base(t) + Unit(t) - 1
  BY SMT, Table DEF HasType, Base, TOP

LEMMA Apart ==
  ASSUME NEW t \in Types, NEW u \in Types, NEW a \in Int, HasType(a, t), HasType(a, u)
  PROVE  t = u
<1>1. /\ a \in Base(t) .. Base(t) + Unit(t) - 1
      /\ a \in Base(u) .. Base(u) + Unit(u) - 1
  BY Span
<1>2. /\ Base(t) = TOP - 2 * Unit(t) /\ Base(u) = TOP - 2 * Unit(u)
      /\ TOP = 4294967296
  BY SMT DEF Base, TOP
<1>3. ASSUME NEW v \in Types, NEW w \in Types, v < w
      PROVE  Unit(v) >= 2 * Unit(w)
  BY SMT, <1>3, Table
<1> HIDE DEF Base, Unit
<1>4. t \in Int /\ u \in Int /\ Unit(t) \in Int /\ Unit(u) \in Int
  BY SMT, Table DEF Types
<1> QED BY SMT, <1>1, <1>2, <1>3, <1>4

LEMMA TypeIs ==
  ASSUME NEW t \in Types, NEW a \in Int, HasType(a, t)
  PROVE  NetIdType(a) = t
  BY Apart, Zenon DEF NetIdType

LEMMA AddressInt == \A a \in Address : a \in Int
  BY SMT DEF Address

LEMMA NetIdInt == \A netid \in NetIds : netid \in Int
  BY SMT DEF NetIds

LEMMA IdCases ==
  ASSUME NEW t \in Types, NEW a
  PROVE  /\ t # 4 => NwkIdAs(t, a) = (a % Unit(t)) \div Addrs(t)
         /\ t = 4 => NwkIdAs(t, a) = ((a % Unit(t)) \div 65536) * 2 + (a % 256) \div 128
<1>1. t # 8
  BY DEF Types
<1>2. NwkIdAs(t, a) = IF t = 4 THEN ((a % Unit(4)) \div 65536) * 2 + (a % 256) \div 128
                      ELSE (a % Unit(t)) \div Addrs(t)
  BY SMT, <1>1 DEF NwkIdAs
<1> QED BY SMT, <1>2

LEMMA Sizes ==
  ASSUME NEW t \in Types, NEW id \in 0 .. Ids(t)-1, NEW n \in 0 .. Addrs(t)-1
  PROVE  id \in Int /\ n \in Int /\ ~(id >= Ids(t)) /\ n < Addrs(t)
<1>1. Ids(t) \in Nat /\ Addrs(t) \in Nat
  BY Layout
<1> QED BY SMT, <1>1

\* An OR of two bits into a number carries into no other bit.
LEMMA TwoBits ==
  ASSUME NEW k \in Int, NEW i \in Int
  PROVE  Added(k, i) \in Int /\ (i % 4) + Added(k, i) \in 0 .. 3
<1>1. /\ Bit(k, 1) \in {0, 1} /\ Bit(k, 2) \in {0, 1}
      /\ Bit(i, 1) \in {0, 1} /\ Bit(i, 2) \in {0, 1}
      /\ i % 4 = Bit(i, 1) + 2 * Bit(i, 2)
  BY SMT DEF Bit
<1>2. Added(k, i) = Bit(k, 1) * (1 - Bit(i, 1)) + 2 * Bit(k, 2) * (1 - Bit(i, 2))
  BY DEF Added
<1>3. ASSUME NEW p \in {0, 1}, NEW q \in {0, 1}, NEW u \in {0, 1}, NEW v \in {0, 1}
      PROVE  /\ p * (1 - u) + 2 * q * (1 - v) \in Int
             /\ (u + 2 * v) + (p * (1 - u) + 2 * q * (1 - v)) \in 0 .. 3
  BY SMT, <1>3
<1> QED BY <1>1, <1>2, <1>3, Zenon

\* Of a type whose masks fit, nothing of the old identifier is left.
LEMMA Cleared ==
  ASSUME NEW t \in Types, t # 5, NEW x \in Int, NEW id \in Int
  PROVE  Low(t) = Addrs(t) /\ Added((x % Low(t)) \div Addrs(t), id) = 0
<1>1. Low(t) = Addrs(t) /\ Addrs(t) \in Nat \ {0}
  BY Layout, Zenon DEF Low
<1>2. (x % Low(t)) \div Addrs(t) = 0
  <2>1. x % Addrs(t) \in 0 .. Addrs(t)-1
    BY <1>1, Remainder, Zenon
  <2>2. \A r \in 0 .. Addrs(t)-1 : r \div Addrs(t) = 0
    BY SMT, <1>1
  <2> QED BY <1>1, <2>1, <2>2, Zenon
<1>3. Added(0, id) = 0
  <2>1. Bit(0, 1) = 0 /\ Bit(0, 2) = 0
    BY SMT DEF Bit
  <2>2. Bit(id, 1) \in Int /\ Bit(id, 2) \in Int
    BY SMT DEF Bit
  <2> QED BY SMT, <2>1, <2>2 DEF Added
<1> QED BY <1>1, <1>2, <1>3, Zenon

\* What set() makes of arguments in range: the prefix, the identifier at its
\* place, and the address.
LEMMA Written ==
  ASSUME NEW t \in Types, t # 5, NEW a \in Address, NEW id \in 0 .. Ids(t)-1,
         NEW n \in 0 .. Addrs(t)-1
  PROVE  Set(a, t, id, n) = Base(t) + id * Place(t) + n
<1> DEFINE x == SetNetIdType(a, t)  y == SetNwkId(x, t, id)
<1>1. id \in Int /\ n \in Int /\ ~(id >= Ids(t)) /\ n < Addrs(t)
  BY Sizes
<1>2. Set(a, t, id, n) = (y - (y % Addrs(t))) + n
  <2>1. Low(t) = Addrs(t)
    BY Zenon DEF Low
  <2> QED BY <1>1, <2>1, Zenon DEF Set, SetNwkAddr
<1>3. a \in Int
  BY AddressInt
<1>4. /\ Addrs(t) \in Nat \ {0} /\ Ids(t) \in Nat \ {0} /\ Prefix(t) \in Int
      /\ Shift(t) \in Int /\ Unit(t) = Ids(t) * Addrs(t)
      /\ Place(t) = Shift(t) * Addrs(t) /\ Base(t) = Prefix(t) * Unit(t)
  BY Layout, ShiftType DEF Place
<1>5. /\ x = Prefix(t) * Unit(t) + (a % Unit(t))
      /\ y = (x - (x % Unit(t))) + (x % Addrs(t)) + id * Place(t)
  <2>1. x \in Int
    BY SMT, <1>3, <1>4 DEF SetNetIdType
  <2>2. id + Added((x % Low(t)) \div Addrs(t), id) = id
    BY SMT, <1>1, <2>1, Cleared
  <2> QED BY <1>4, <2>2, Zenon DEF SetNetIdType, SetNwkId
<1> HIDE DEF x, y
<1>6. ASSUME NEW d, NEW j, NEW k, NEW i, NEW u, NEW m,
             d = Addrs(t), j = Ids(t), k = Prefix(t), i = Shift(t), u = Unit(t), m = Place(t)
      PROVE  y - (y % d) = k * u + id * m
  <2>1. d \in Nat \ {0} /\ j \in Nat \ {0} /\ k \in Int /\ i \in Int /\ u = j * d /\ m = i * d
    BY <1>4, <1>6, Zenon
  <2>2. x = k * u + (a % u) /\ y = (x - (x % u)) + (x % d) + id * m
    BY <1>5, <1>6, Zenon
  <2>3. u \in Nat \ {0}
    BY SMT, <2>1
  <2>4. a % u \in 0 .. u-1
    BY SMT, <1>3, <2>3
  <2>5. x \in Int /\ x % u = a % u /\ x - (x % u) = k * u
    <3>1. (k * u + (a % u)) % u = a % u
      BY <2>1, <2>3, <2>4, Parts, Zenon
    <3> QED BY SMT, <2>1, <2>2, <2>3, <2>4, <3>1
  <2>6. x % d \in 0 .. d-1
    BY SMT, <2>1, <2>5
  <2>7. k * j + id * i \in Int /\ y = (k * j + id * i) * d + (x % d)
    BY SMT, <1>1, <2>1, <2>2, <2>5, <2>6
  <2>8. ((k * j + id * i) * d + (x % d)) % d = x % d
    BY <2>1, <2>6, <2>7, Parts, Zenon
  <2>9. y % d = x % d
    BY <2>7, <2>8, Zenon
  <2> QED BY SMT, <1>1, <2>1, <2>2, <2>5, <2>6, <2>9
<1> QED BY <1>2, <1>4, <1>6, Zenon

LEMMA Inside ==
  ASSUME NEW d \in Nat \ {0}, NEW j \in Nat \ {0}, NEW id \in 0 .. j-1, NEW n \in 0 .. d-1
  PROVE  id * d + n \in 0 .. j * d - 1
<1>1. id * d >= 0 /\ id * d <= (j - 1) * d
  BY SMT
<1> QED BY SMT, <1>1

\* What the getters find in an address of type t.
LEMMA Found ==
  ASSUME NEW t \in Types, NEW s \in 0 .. Unit(t)-1
  PROVE  /\ NetIdType(Base(t) + s) = t
         /\ (Base(t) + s) % Unit(t) = s
         /\ NwkAddr(Base(t) + s) = s % Addrs(t)
<1> DEFINE b == Base(t) + s
<1>1. /\ Unit(t) \in Nat \ {0} /\ Addrs(t) \in Nat \ {0} /\ Ids(t) \in Nat \ {0}
      /\ Prefix(t) \in Nat /\ Base(t) \in Nat
      /\ Unit(t) = Ids(t) * Addrs(t) /\ Base(t) = Prefix(t) * Unit(t)
  BY Layout
<1>2. b \in Int /\ s \in Int /\ b \in Base(t) .. Base(t) + Unit(t) - 1
  BY SMT, <1>1
<1>3. NetIdType(b) = t
  <2>1. HasType(b, t)
    BY <1>2, Span, Zenon
  <2> QED BY <1>2, <2>1, TypeIs, Zenon
<1>4. b % Unit(t) = s
  <2>0. Prefix(t) \in Int
    BY SMT, <1>1
  <2>1. (Prefix(t) * Unit(t) + s) % Unit(t) = s
    BY <1>1, <2>0, Parts, Zenon
  <2>2. b = Prefix(t) * Unit(t) + s
    BY <1>1, Zenon
  <2> QED BY <2>1, <2>2, Zenon
<1>5. b % Addrs(t) = s % Addrs(t)
  <2>1. s % Addrs(t) \in 0 .. Addrs(t)-1 /\ s \div Addrs(t) \in Int
        /\ s = (s \div Addrs(t)) * Addrs(t) + (s % Addrs(t))
    BY <1>1, <1>2, Remainder, Zenon
  <2>2. ASSUME NEW d \in Nat \ {0}, NEW q \in Int, NEW r \in 0 .. d-1, NEW p \in Int,
               NEW j \in Int, s = q * d + r, Base(t) = p * (j * d)
        PROVE  (Base(t) + s) % d = r
    <3>1. Base(t) + s = (p * j + q) * d + r /\ p * j + q \in Int
      BY SMT, <2>2
    <3>2. ((p * j + q) * d + r) % d = r
      BY <2>2, <3>1, Parts, Zenon
    <3> QED BY <3>1, <3>2, Zenon
  <2>3. Prefix(t) \in Int /\ Ids(t) \in Int /\ Base(t) = Prefix(t) * (Ids(t) * Addrs(t))
    BY <1>1
  <2> QED BY <1>1, <2>1, <2>2, <2>3, Zenon
<1>6. t # 8
  BY DEF Types
<1> QED BY <1>3, <1>4, <1>5, <1>6, Zenon DEF NwkAddr

\* What the getters find in an address laid out as version 1.1 has it.
LEMMA GetBack ==
  ASSUME NEW t \in Types, t # 4, NEW id \in 0 .. Ids(t)-1, NEW n \in 0 .. Addrs(t)-1,
         NEW b, b = Base(t) + id * Addrs(t) + n
  PROVE  NetIdType(b) = t /\ NwkId(b) = id /\ NwkAddr(b) = n
<1> DEFINE s == id * Addrs(t) + n
<1>1. Addrs(t) \in Nat \ {0} /\ Ids(t) \in Nat \ {0} /\ Unit(t) = Ids(t) * Addrs(t)
      /\ Base(t) \in Nat
  BY Layout
<1>2. id \in Int /\ n \in Int
  BY Sizes
<1>3. s \in 0 .. Unit(t)-1
  BY <1>1, Inside, Zenon
<1>4. b = Base(t) + s
  BY SMT, <1>1, <1>2
<1>5. s % Addrs(t) = n /\ s \div Addrs(t) = id
  BY <1>1, <1>2, Parts, Zenon
<1>6. NwkIdAs(t, Base(t) + s) = id
  <2>1. NwkIdAs(t, Base(t) + s) = ((Base(t) + s) % Unit(t)) \div Addrs(t)
    BY IdCases
  <2>2. (Base(t) + s) % Unit(t) = s
    BY <1>3, Found, Zenon
  <2> QED BY <1>5, <2>1, <2>2, Zenon
<1> HIDE DEF s
<1> QED BY <1>3, <1>4, <1>5, <1>6, Found, Zenon DEF NwkId

-----------------------------------------------------------------------------
\* set() followed by the getters gives back what was set, for every type but 3,
\* 4 and 5 (DevAddr::set, getNetIdType, getNwkId, getNwkAddr).
THEOREM RoundTrip ==
  ASSUME NEW a \in Address, NEW t \in Types, t \notin {3, 4, 5},
         NEW id \in 0 .. Ids(t)-1, NEW n \in 0 .. Addrs(t)-1
  PROVE  LET b == Set(a, t, id, n)
         IN NetIdType(b) = t /\ NwkId(b) = id /\ NwkAddr(b) = n
<1>1. t # 4 /\ t # 5 /\ Addrs(t) \in Nat
  BY Layout
<1>2. Place(t) = Addrs(t)
  <2>1. Place(t) = 1 * Addrs(t)
    BY DEF Place, Shift
  <2> QED BY SMT, <1>1, <2>1
<1>3. Set(a, t, id, n) = Base(t) + id * Addrs(t) + n
  BY <1>1, <1>2, Written, Zenon
<1> QED BY <1>1, <1>3, GetBack, Zenon

\* Of type 5 the identifier loses its two lowest bits, which setNwkAddr clears
\* with the address; what was in their place before does not matter.
THEOREM LowBitsLost ==
  ASSUME NEW a \in Address, NEW id \in 0 .. Ids(5)-1, NEW n \in 0 .. Addrs(5)-1
  PROVE  LET b == Set(a, 5, id, n)
         IN NetIdType(b) = 5 /\ NwkId(b) = id - (id % 4) /\ NwkAddr(b) = n
<1> DEFINE x == SetNetIdType(a, 5)
           k == (x % Low(5)) \div Addrs(5)
           f == Added(k, id)
           y == SetNwkId(x, 5, id)
<1>0. 5 \in Types
  BY DEF Types
<1>1. /\ Unit(5) = 67108864 /\ Addrs(5) = 8192 /\ Ids(5) = 8192
      /\ Low(5) = 32768 /\ Base(5) = 4160749568 /\ Place(5) = 8192
  <2>1. Unit(5) = 67108864 /\ Addrs(5) = 8192 /\ Ids(5) = 8192
    BY SMT, <1>0, Table
  <2>2. Place(5) = 1 * Addrs(5)
    BY DEF Place, Shift
  <2> QED BY SMT, <2>1, <2>2 DEF Low, Base, TOP
<1>2. a \in Int /\ id \in Int /\ n \in Int /\ ~(id >= Ids(5)) /\ n < Addrs(5)
  BY <1>0, AddressInt, Sizes, Zenon
<1>3. x = Base(5) + (a % Unit(5))
  BY DEF SetNetIdType
<1>4. y = (x - (x % Unit(5))) + (x % Addrs(5)) + (id + f) * Place(5)
  BY Zenon DEF SetNwkId
<1>5. Set(a, 5, id, n) = (y - (y % Low(5))) + n
  BY <1>0, <1>2, Zenon DEF Set, SetNwkAddr
<1> HIDE DEF x, y
<1>6. x \in Int /\ x - (x % Unit(5)) = Base(5)
  BY SMT, <1>1, <1>2, <1>3
<1>7. f \in Int /\ (id % 4) + f \in 0 .. 3
  <2>1. k \in Int
    BY SMT, <1>1, <1>6
  <2> QED BY <1>2, <2>1, TwoBits, Zenon
<1> HIDE DEF f, k
<1>8. y - (y % Low(5)) = Base(5) + (id - (id % 4)) * Addrs(5)
  BY SMT, <1>1, <1>2, <1>4, <1>6, <1>7
<1>9. id - (id % 4) \in 0 .. Ids(5)-1
  BY SMT, <1>1, <1>2
<1>10. Set(a, 5, id, n) = Base(5) + (id - (id % 4)) * Addrs(5) + n
  BY <1>5, <1>8, Zenon
<1>11. 5 # 4
  OBVIOUS
<1>12. \A b : b = Base(5) + (id - (id % 4)) * Addrs(5) + n
         => NetIdType(b) = 5 /\ NwkId(b) = id - (id % 4) /\ NwkAddr(b) = n
  BY SMT, <1>0, <1>9, <1>11, GetBack
<1> QED BY <1>10, <1>12, Zenon

\* Setting the network of a NetId keeps its type and the address within it, but
\* the identifier of type 3 or 4 comes back twice as large, for type 4 with a
\* bit of the address added (DevAddr::set of a NetId, getNwkId_1_1).
THEOREM NetIdShifted ==
  ASSUME NEW a \in Address, NEW netid \in NetIds, NEW t \in {3, 4},
         t = TypeOfNetId(netid), NEW n \in 0 .. Addrs(t)-1
  PROVE  LET b  == SetOfNetId(a, netid, n)
             id == NwkIdOfNetId(netid)
         IN /\ NetIdType(b) = t /\ NwkAddr(b) = n
            /\ NwkId(b) = 2 * id + (IF t = 4 THEN (n % 256) \div 128 ELSE 0)
<1> DEFINE id == NwkIdOfNetId(netid)
           s  == id * Place(t) + n
<1>0. t \in Types /\ Base(t) \in Nat
  <2>1. t \in Types
    BY DEF Types
  <2> QED BY <2>1, Layout
<1>1. /\ t \in {3, 4}
      /\ t = 3 => Unit(t) = 268435456 /\ Addrs(t) = 131072 /\ Ids(t) = 2048
                  /\ Place(t) = 262144
      /\ t = 4 => Unit(t) = 134217728 /\ Addrs(t) = 32768 /\ Ids(t) = 4096
                  /\ Place(t) = 65536 /\ Base(t) = 4026531840
  <2>3. t = 3 => Unit(t) = 268435456 /\ Addrs(t) = 131072 /\ Ids(t) = 2048
    BY SMT, <1>0, Table
  <2>4. t = 4 => Unit(t) = 134217728 /\ Addrs(t) = 32768 /\ Ids(t) = 4096
    BY SMT, <1>0, Table
  <2>5. Place(t) = 2 * Addrs(t)
    BY DEF Place, Shift
  <2>6. t = 4 => Base(t) = 4026531840
    BY SMT, <2>4 DEF Base, TOP
  <2> QED BY SMT, <1>0, <2>3, <2>4, <2>5, <2>6
<1>2. netid \in Int
  BY NetIdInt, Zenon
<1>3. id \in 0 .. (IF t = 3 THEN 1023 ELSE 2047)
  BY SMT, <1>2 DEF NwkIdOfNetId, NetIdIds
<1> HIDE DEF id
<1>4. n \in Int /\ id \in 0 .. Ids(t)-1 /\ s \in 0 .. Unit(t)-1
  BY SMT, <1>0, <1>1, <1>3
<1>5. SetOfNetId(a, netid, n) = Base(t) + s
  <2>1. SetOfNetId(a, netid, n) = Base(t) + id * Place(t) + n
    <3>1. t # 5
      OBVIOUS
    <3> QED BY <1>0, <1>4, <3>1, Written, Zenon DEF SetOfNetId, id
  <2>2. id * Place(t) \in Int
    BY SMT, <1>0, <1>1, <1>3
  <2> QED BY SMT, <1>0, <1>4, <2>1, <2>2
<1>6. s % Addrs(t) = n
  BY SMT, <1>1, <1>3
<1>7. NwkIdAs(t, Base(t) + s) = 2 * id + (IF t = 4 THEN (n % 256) \div 128 ELSE 0)
  <2>1. (Base(t) + s) % Unit(t) = s
    BY <1>0, <1>4, Found, Zenon
  <2>2. CASE t = 3
    <3>1. NwkIdAs(t, Base(t) + s) = s \div Addrs(t)
      BY SMT, <1>0, <2>1, <2>2, IdCases
    <3> QED BY SMT, <1>1, <1>3, <2>2, <3>1
  <2>3. CASE t = 4
    <3>1. NwkIdAs(t, Base(t) + s) = (s \div 65536) * 2 + ((Base(t) + s) % 256) \div 128
      BY SMT, <1>0, <2>1, <2>3, IdCases
    <3>2. s \div 65536 = id /\ (Base(t) + s) % 256 = n % 256
      BY SMT, <1>0, <1>1, <1>3, <2>3
    <3> QED BY SMT, <1>3, <1>4, <2>3, <3>1, <3>2
  <2> QED BY <2>2, <2>3
<1> HIDE DEF s
<1> QED BY <1>0, <1>4, <1>5, <1>6, <1>7, Found, Zenon DEF NwkId, id

\* increment() and decrement() stay in the network: they go to the next or the
\* previous address of it, and nowhere from the last and the first. Type 5 is
\* left out, of whose identifier they clear two bits.
THEOREM StepStays ==
  ASSUME NEW a \in Address, NEW t \in Types, t # 5, HasType(a, t)
  PROVE  /\ Increment(a) = (IF NwkAddr(a) = Addrs(t) - 1 THEN a ELSE a + 1)
         /\ Decrement(a) = (IF NwkAddr(a) = 0 THEN a ELSE a - 1)
<1>1. a \in Int
  BY AddressInt
<1>2. NetIdType(a) = t
  BY <1>1, TypeIs, Zenon
<1>3. Low(t) = Addrs(t)
  BY Zenon DEF Low
<1>4. t # 8
  BY DEF Types
<1>5. NwkAddr(a) = a % Addrs(t)
  BY <1>2, <1>4, Zenon DEF NwkAddr
<1>6. Addrs(t) \in Nat \ {0} /\ Addrs(t) < TOP /\ TOP \in Nat
  <2>1. TOP \in Nat
    BY SMT DEF TOP
  <2> QED BY <2>1, Layout, Zenon
<1> DEFINE m == a % Addrs(t)
<1>7. m \in 0 .. Addrs(t)-1
  BY <1>1, <1>6, Remainder, Zenon
<1>8. \A i \in Int : SetNwkAddr(a, t, i) = IF i < Addrs(t) THEN (a - m) + i ELSE a
  BY <1>3, Zenon DEF SetNwkAddr
<1>9. /\ Increment(a) = SetNwkAddr(a, t, (m + 1) % TOP)
      /\ Decrement(a) = SetNwkAddr(a, t, (m - 1) % TOP)
  BY <1>2, <1>5, Zenon DEF Increment, Decrement
<1> HIDE DEF m
<1>10. (m + 1) % TOP = m + 1 /\ (m - 1) % TOP = IF m = 0 THEN TOP - 1 ELSE m - 1
  BY SMT, <1>6, <1>7
<1>11. Increment(a) = IF m = Addrs(t) - 1 THEN a ELSE a + 1
  BY SMT, <1>1, <1>6, <1>7, <1>8, <1>9, <1>10
<1>12. Decrement(a) = IF m = 0 THEN a ELSE a - 1
  <2>1. TOP - 1 \in Int /\ ~(TOP - 1 < Addrs(t))
    BY SMT, <1>6
  <2> QED BY SMT, <1>1, <1>6, <1>7, <1>8, <1>9, <1>10, <2>1
<1> QED BY <1>5, <1>11, <1>12, Zenon DEF m
=============================================================================
