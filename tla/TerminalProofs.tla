--------------------------- MODULE TerminalProofs ---------------------------
(***************************************************************************)
(* Proofs about the terminal clients and about the styles of rooms, which  *)
(* the console cycles.  The two share no variable: Terminal's specification*)
(* is Spec, that of RoomStyle StyleSpec.                                   *)
(***************************************************************************)
EXTENDS Terminal, RoomStyle, FiniteSetTheorems, SequenceTheorems, TLAPS

-----------------------------------------------------------------------------
(* Pages: the first elements of a finite set in an order.  PendingInbox is *)
(* one in the order of ids, AllRoomsUnread one in the order of rooms.      *)

Before(S, R, x) == {y \in S : <<y, x>> \in R}
FirstOf(S, R, n) == {x \in S : Cardinality(Before(S, R, x)) < n}

Orders(R, S) ==
  /\ \A x \in S : <<x, x>> \notin R
  /\ \A x, y \in S : x # y => <<x, y>> \in R \/ <<y, x>> \in R
  /\ \A x, y, z \in S : <<x, y>> \in R /\ <<y, z>> \in R => <<x, z>> \in R

LEMMA Strictly ==
  ASSUME NEW B, IsFiniteSet(B), NEW A, A \subseteq B, NEW x \in B, x \notin A
  PROVE  Cardinality(A) < Cardinality(B)
<1>1. IsFiniteSet(A) /\ Cardinality(A) <= Cardinality(B) /\ Cardinality(A) # Cardinality(B)
  BY FS_Subset
<1>2. Cardinality(A) \in Nat /\ Cardinality(B) \in Nat
  BY <1>1, FS_CardinalityType
<1>3. QED
  BY <1>1, <1>2

LEMMA PlacesGrow ==
  ASSUME NEW S, IsFiniteSet(S), NEW R, Orders(R, S)
  PROVE  /\ \A x \in S : Cardinality(Before(S, R, x)) \in 0..(Cardinality(S) - 1)
         /\ \A x, y \in S : <<x, y>> \in R =>
              Cardinality(Before(S, R, x)) < Cardinality(Before(S, R, y))
<1>1. ASSUME NEW x \in S PROVE Cardinality(Before(S, R, x)) \in 0..(Cardinality(S) - 1)
  <2> DEFINE B == Before(S, R, x)
             b == Cardinality(B)
             s == Cardinality(S)
  <2>1. B \subseteq S /\ x \notin B
    BY DEF Before, Orders
  <2>2. IsFiniteSet(B) /\ b < s
    <3> HIDE DEF B
    <3>1. QED
      BY <2>1, FS_Subset, Strictly
  <2>3. b \in Nat /\ s \in Nat
    BY <2>2, FS_CardinalityType
  <2> HIDE DEF b, s
  <2>4. b \in 0..(s - 1)
    BY <2>2, <2>3
  <2>5. QED
    BY <2>4 DEF b, s
<1>2. ASSUME NEW x \in S, NEW y \in S, <<x, y>> \in R
      PROVE  Cardinality(Before(S, R, x)) < Cardinality(Before(S, R, y))
  <2> DEFINE A == Before(S, R, x)
             B == Before(S, R, y)
  <2>1. A \subseteq B /\ x \in B /\ x \notin A /\ B \subseteq S
    BY <1>2 DEF Before, Orders
  <2> HIDE DEF A, B
  <2>2. Cardinality(A) < Cardinality(B)
    BY <2>1, FS_Subset, Strictly
  <2>3. QED
    BY <2>2 DEF A, B
<1>3. QED
  BY <1>1, <1>2

(* Every place from 0 on is somebody's. *)
LEMMA EveryPlaceTaken ==
  ASSUME NEW S, IsFiniteSet(S), NEW R, Orders(R, S), NEW n \in 0..(Cardinality(S) - 1)
  PROVE  \E x \in S : Cardinality(Before(S, R, x)) = n
<1> DEFINE f == [x \in S |-> Cardinality(Before(S, R, x))]
           T == {f[x] : x \in S}
           N == 0..(Cardinality(S) - 1)
<1>1. Cardinality(S) \in Nat
  BY FS_CardinalityType
<1>2. T \subseteq N
  BY PlacesGrow
<1>3. \A x, y \in S : f[x] = f[y] => x = y
  <2>1. SUFFICES ASSUME NEW x \in S, NEW y \in S, x # y PROVE f[x] # f[y]
    OBVIOUS
  <2>2. f[x] < f[y] \/ f[y] < f[x]
    BY <2>1, PlacesGrow DEF Orders
  <2>3. f[x] \in N /\ f[y] \in N
    BY <1>2
  <2> HIDE DEF f
  <2>4. f[x] \in Int /\ f[y] \in Int
    BY <1>1, <2>3
  <2>5. QED
    BY <2>2, <2>4
<1>4. f \in Bijection(S, T)
  BY <1>3 DEF Bijection, Injection, Surjection, IsInjective
<1>5. IsFiniteSet(T) /\ Cardinality(T) = Cardinality(S)
  BY <1>4, FS_Bijection DEF ExistsBijection
<1>6. IsFiniteSet(N) /\ Cardinality(N) = Cardinality(S)
  <2> DEFINE s == Cardinality(S)
  <2>1. s \in Nat
    BY <1>1
  <2> HIDE DEF s
  <2>2. IsFiniteSet(0..(s - 1)) /\ Cardinality(0..(s - 1)) = s
    <3>1. s - 1 \in Int /\ 0 \in Int
      BY <2>1
    <3>2. IsFiniteSet(0..(s - 1))
          /\ Cardinality(0..(s - 1)) = IF 0 > s - 1 THEN 0 ELSE (s - 1) - 0 + 1
      BY <3>1, FS_Interval
    <3>3. QED
      BY <2>1, <3>2
  <2>3. QED
    BY <2>2 DEF s
<1>7. T = N
  <2> HIDE DEF T, N
  <2>1. QED
    BY <1>2, <1>5, <1>6, FS_Subset
<1>8. QED
  BY <1>7

(* A page that lacks somebody is full. *)
LEMMA LackingIsFull ==
  ASSUME NEW S, IsFiniteSet(S), NEW R, Orders(R, S), NEW n \in Nat,
         NEW x \in S, x \notin FirstOf(S, R, n)
  PROVE  Cardinality(FirstOf(S, R, n)) = n
<1> DEFINE P == FirstOf(S, R, n)
           place(y) == Cardinality(Before(S, R, y))
           N == 0..(n - 1)
           f == [y \in P |-> place(y)]
           s == Cardinality(S)
<1>1. s \in Nat /\ \A y \in S : place(y) \in 0..(s - 1)
  BY PlacesGrow, FS_CardinalityType
<1>2. n < s
  <2> DEFINE p == place(x)
  <2>1. p \in 0..(s - 1) /\ ~(p < n)
    BY <1>1 DEF FirstOf
  <2> HIDE DEF p, s
  <2>2. QED
    BY <1>1, <2>1
<1>3. \A y \in P : y \in S /\ place(y) \in N
  <2>1. ASSUME NEW y \in P PROVE y \in S /\ place(y) \in N
    <3> DEFINE p == place(y)
    <3>1. y \in S /\ p < n
      BY DEF FirstOf
    <3>2. p \in 0..(s - 1)
      BY <1>1, <3>1
    <3> HIDE DEF p, s
    <3>3. p \in N
      BY <1>1, <3>1, <3>2
    <3>4. QED
      BY <3>1, <3>3 DEF p
  <2>2. QED
    BY <2>1
<1>4. \A y, z \in P : f[y] = f[z] => y = z
  <2>1. SUFFICES ASSUME NEW y \in P, NEW z \in P, y # z PROVE place(y) # place(z)
    OBVIOUS
  <2>2. place(y) < place(z) \/ place(z) < place(y)
    BY <1>3, <2>1, PlacesGrow DEF Orders
  <2> DEFINE p == place(y)
             q == place(z)
  <2>3. p \in N /\ q \in N /\ (p < q \/ q < p)
    BY <1>3, <2>2
  <2> HIDE DEF p, q
  <2>4. p # q
    BY <2>3
  <2>5. QED
    BY <2>4 DEF p, q
<1>5. \A i \in N : \E y \in P : f[y] = i
  <2>1. SUFFICES ASSUME NEW i \in N PROVE \E y \in P : place(y) = i
    OBVIOUS
  <2>2. i \in 0..(s - 1) /\ i < n
    <3> HIDE DEF s
    <3>1. QED
      BY <1>1, <1>2
  <2>3. PICK y \in S : place(y) = i
    BY <2>2, EveryPlaceTaken
  <2>4. QED
    BY <2>2, <2>3 DEF FirstOf
<1>6. f \in Bijection(P, N)
  <2> HIDE DEF P, N
  <2>1. f \in [P -> N]
    BY <1>3
  <2>2. QED
    BY <1>4, <1>5, <2>1 DEF Bijection, Injection, Surjection, IsInjective
<1>7. IsFiniteSet(P)
  BY FS_Subset DEF FirstOf
<1>8. Cardinality(N) = Cardinality(P)
  <2> HIDE DEF P, N, f
  <2>1. QED
    BY <1>6, <1>7, FS_Bijection DEF ExistsBijection
<1>9. Cardinality(N) = n
  <2>1. 0 \in Int /\ n - 1 \in Int
    OBVIOUS
  <2>2. Cardinality(N) = IF 0 > n - 1 THEN 0 ELSE (n - 1) - 0 + 1
    BY <2>1, FS_Interval
  <2>3. QED
    BY <2>2
<1>10. QED
  BY <1>8, <1>9

(* Ids in their order. *)
ById(S) == {p \in S \X S : p[1] < p[2]}

LEMMA IdsOrder ==
  ASSUME NEW S \in SUBSET Nat
  PROVE  /\ Orders(ById(S), S)
         /\ \A x, y \in S : <<x, y>> \in ById(S) <=> x < y
<1>1. \A x, y \in S : <<x, y>> \in ById(S) <=> x < y
  BY DEF ById
<1>2. \A x \in S : x \in Nat
  OBVIOUS
<1>3. (\A x \in S : ~(x < x)) /\ (\A x, y \in S : x # y => x < y \/ y < x)
      /\ \A x, y, z \in S : x < y /\ y < z => x < z
  BY <1>2
<1>4. QED
  BY <1>1, <1>3 DEF Orders

LEMMA MaxOf ==
  ASSUME NEW S \in SUBSET Nat, IsFiniteSet(S), S # {}
  PROVE  Max(S) \in S /\ \A j \in S : j <= Max(S)
<1> DEFINE s == Cardinality(S)
           R == ById(S)
<1>1. s \in Nat /\ s # 0
  BY FS_CardinalityType, FS_EmptySet
<1>2. s - 1 \in 0..(s - 1)
  <2> HIDE DEF s
  <2>1. QED
    BY <1>1
<1>3. PICK x \in S : Cardinality(Before(S, R, x)) = s - 1
  BY <1>2, IdsOrder, EveryPlaceTaken
<1>4. Before(S, R, x) = S \ {x}
  <2> DEFINE B == Before(S, R, x)
             O == S \ {x}
  <2>1. B \subseteq O
    BY IdsOrder DEF Before, Orders
  <2>2. IsFiniteSet(O) /\ Cardinality(O) = s - 1
    BY FS_RemoveElement
  <2>3. Cardinality(B) = s - 1
    BY <1>3
  <2> HIDE DEF B, O, s
  <2>4. B = O
    BY <2>1, <2>2, <2>3, FS_Subset
  <2>5. QED
    BY <2>4 DEF B, O
<1>5. \A j \in S : x >= j
  <2>1. ASSUME NEW j \in S PROVE x >= j
    <3>1. j = x \/ j < x
      BY <1>4, IdsOrder DEF Before
    <3>2. j \in Nat /\ x \in Nat
      OBVIOUS
    <3>3. QED
      BY <3>1, <3>2
  <2>2. QED
    BY <2>1
<1>6. Max(S) \in S /\ \A j \in S : Max(S) >= j
  BY <1>5 DEF Max
<1>7. QED
  <2>1. ASSUME NEW j \in S PROVE j <= Max(S)
    <3>1. Max(S) >= j /\ j \in Nat /\ Max(S) \in Nat
      BY <1>6
    <3>2. QED
      BY <3>1
  <2>2. QED
    BY <1>6, <2>1

LEMMA OldestPage ==
  ASSUME NEW S \in SUBSET Nat, IsFiniteSet(S), NEW n \in Nat, NEW id \in S
  PROVE  /\ id \notin Oldest(n, S) => Cardinality(Oldest(n, S)) = n
         /\ \A j \in Oldest(n, S) : id <= j => id \in Oldest(n, S)
<1>1. Oldest(n, S) = FirstOf(S, ById(S), n)
  <2>1. \A x \in S : Before(S, ById(S), x) = {i \in S : i < x}
    BY IdsOrder DEF Before
  <2>2. QED
    BY <2>1 DEF Oldest, FirstOf
<1>2. id \notin Oldest(n, S) => Cardinality(Oldest(n, S)) = n
  BY <1>1, IdsOrder, LackingIsFull
<1>3. ASSUME NEW j \in Oldest(n, S), id <= j PROVE id \in Oldest(n, S)
  <2> DEFINE A == {i \in S : i < id}
             B == {i \in S : i < j}
  <2>1. j \in S /\ Cardinality(B) < n
    BY DEF Oldest
  <2>2. A \subseteq B
    <3>1. ASSUME NEW i \in S, i < id PROVE i < j
      <4>1. i \in Nat /\ id \in Nat /\ j \in Nat
        BY <2>1
      <4>2. QED
        BY <1>3, <3>1, <4>1
    <3>2. QED
      BY <3>1
  <2>3. B \subseteq S
    OBVIOUS
  <2>4. Cardinality(A) < n
    <3> DEFINE a == Cardinality(A)
               b == Cardinality(B)
    <3>1. IsFiniteSet(A) /\ IsFiniteSet(B) /\ a <= b
      <4> HIDE DEF A, B
      <4>1. QED
        BY <2>2, <2>3, FS_Subset
    <3>2. a \in Nat /\ b \in Nat /\ b < n
      BY <2>1, <3>1, FS_CardinalityType
    <3> HIDE DEF a, b
    <3>3. a < n
      BY <3>1, <3>2
    <3>4. QED
      BY <3>3 DEF a
  <2>5. QED
    BY <2>4 DEF Oldest
<1>4. QED
  BY <1>2, <1>3

(* What is newer than an id of a set, in a larger set. *)
LEMMA NewestLacks ==
  ASSUME NEW S \in SUBSET Nat, IsFiniteSet(S), NEW T, T \subseteq S, NEW n \in Nat,
         NEW id \in T, id \notin Newest(n, T)
  PROVE  id \notin Newest(n, S)
<1> DEFINE A == {i \in T : i > id}
           B == {i \in S : i > id}
           a == Cardinality(A)
           b == Cardinality(B)
<1>1. A \subseteq B /\ B \subseteq S
  OBVIOUS
<1>2. ~(a < n)
  BY DEF Newest
<1>3. IsFiniteSet(A) /\ IsFiniteSet(B) /\ a <= b
  <2> HIDE DEF A, B
  <2>1. QED
    BY <1>1, FS_Subset
<1>4. a \in Nat /\ b \in Nat
  BY <1>3, FS_CardinalityType
<1>5. ~(b < n)
  <2> HIDE DEF a, b
  <2>1. QED
    BY <1>2, <1>3, <1>4
<1>6. QED
  BY <1>5 DEF Newest

-----------------------------------------------------------------------------
(* The tables and what is unread in them. *)

MessageRow == [from: Peers \cup {Me, System}, to: Peers \cup {Me} \cup RoomSet, alert: BOOLEAN]

Tables ==
  /\ log \in Seq(MessageRow) /\ Len(log) <= MaxLog
  /\ gone \cup read \subseteq DOMAIN log
  /\ joined \subseteq RoomSet
  /\ mark \in [RoomSet -> Nat] /\ \A room \in RoomSet : mark[room] <= Len(log)

LEMMA LogIds ==
  ASSUME Tables
  PROVE  /\ Len(log) \in Nat /\ DOMAIN log = 1..Len(log) /\ IsFiniteSet(DOMAIN log)
         /\ \A id \in DOMAIN log : log[id] \in MessageRow /\ id \in Nat /\ id <= Len(log)
<1>1. log \in Seq(MessageRow)
  BY DEF Tables
<1>2. Len(log) \in Nat /\ DOMAIN log = 1..Len(log)
  BY <1>1, LenProperties
<1>3. IsFiniteSet(1..Len(log))
  <2> DEFINE n == Len(log)
  <2>1. n \in Int /\ 1 \in Int
    BY <1>2
  <2> HIDE DEF n
  <2>2. IsFiniteSet(1..n)
    BY <2>1, FS_Interval
  <2>3. QED
    BY <2>2 DEF n
<1>4. \A id \in 1..Len(log) : log[id] \in MessageRow
  BY <1>1, ElementOfSeq
<1>5. QED
  BY <1>2, <1>3, <1>4

LEMMA Bounds == MaxLog \in Nat /\ Limit \in Nat /\ Cap \in Nat /\ LaneSize \in Nat
BY BoundsAssumption

LEMMA PlaceOf ==
  ASSUME NEW room \in RoomSet
  PROVE  Place(room) \in Nat /\ RoomNames[Place(room)] = room
<1>1. \E n \in DOMAIN RoomNames : RoomNames[n] = room
  BY DEF RoomSet, Range
<1>2. Place(room) \in DOMAIN RoomNames /\ RoomNames[Place(room)] = room
  BY <1>1 DEF Place
<1>3. DOMAIN RoomNames = 1..Len(RoomNames)
  BY NamesAssumption, LenProperties
<1>4. QED
  BY <1>2, <1>3

(* The unread messages of the rooms, room by room. *)
ByRoom(S) == {p \in S \X S : Precedes(p[1], p[2])}

LEMMA RoomsOrder ==
  ASSUME Tables, NEW S, S \subseteq {id \in DOMAIN log : log[id].to \in RoomSet}
  PROVE  /\ Orders(ByRoom(S), S)
         /\ \A x, y \in S : <<x, y>> \in ByRoom(S) <=> Precedes(x, y)
<1> DEFINE place(x) == Place(log[x].to)
<1>1. \A x, y \in S : <<x, y>> \in ByRoom(S) <=> Precedes(x, y)
  BY DEF ByRoom
<1>2. \A x \in S : x \in Nat /\ place(x) \in Nat /\ RoomNames[place(x)] = log[x].to
  BY LogIds, PlaceOf
<1>3. \A x, y \in S :
        Precedes(x, y) <=> (place(x) < place(y) \/ (place(x) = place(y) /\ x < y))
  BY <1>2 DEF Precedes
<1>4. \A x, y \in S : place(x) = place(y) \/ place(x) < place(y) \/ place(y) < place(x)
  <2>1. ASSUME NEW x \in S, NEW y \in S
        PROVE  place(x) = place(y) \/ place(x) < place(y) \/ place(y) < place(x)
    <3> DEFINE p == place(x)
               q == place(y)
    <3>1. p \in Nat /\ q \in Nat
      BY <1>2
    <3> HIDE DEF p, q
    <3>2. p = q \/ p < q \/ q < p
      BY <3>1
    <3>3. QED
      BY <3>2 DEF p, q
  <2>2. QED
    BY <2>1
<1>5. \A x \in S : ~Precedes(x, x)
  <2>1. ASSUME NEW x \in S PROVE ~Precedes(x, x)
    <3> DEFINE p == place(x)
    <3>1. p \in Nat /\ x \in Nat
      BY <1>2
    <3> HIDE DEF p
    <3>2. ~(p < p) /\ ~(x < x)
      BY <3>1
    <3>3. QED
      BY <1>3, <3>2 DEF p
  <2>2. QED
    BY <2>1
<1>6. \A x, y \in S : x # y => Precedes(x, y) \/ Precedes(y, x)
  <2>1. SUFFICES ASSUME NEW x \in S, NEW y \in S, x # y
                 PROVE  Precedes(x, y) \/ Precedes(y, x)
    OBVIOUS
  <2>2. x \in Nat /\ y \in Nat
    BY <1>2
  <2>3. x < y \/ y < x
    BY <2>1, <2>2
  <2>4. QED
    BY <1>3, <1>4, <2>3
<1>7. \A x, y, z \in S : Precedes(x, y) /\ Precedes(y, z) => Precedes(x, z)
  <2>1. ASSUME NEW x \in S, NEW y \in S, NEW z \in S, Precedes(x, y), Precedes(y, z)
        PROVE  Precedes(x, z)
    <3> DEFINE p == place(x)
               q == place(y)
               r == place(z)
    <3>1. p \in Nat /\ q \in Nat /\ r \in Nat /\ x \in Nat /\ y \in Nat /\ z \in Nat
      BY <1>2
    <3>2. (p < q \/ (p = q /\ x < y)) /\ (q < r \/ (q = r /\ y < z))
      BY <1>3, <2>1
    <3> HIDE DEF p, q, r
    <3>3. p < r \/ (p = r /\ x < z)
      BY <3>1, <3>2
    <3>4. QED
      BY <1>3, <3>3 DEF p, r
  <2>2. QED
    BY <2>1
<1>8. QED
  BY <1>1, <1>5, <1>6, <1>7 DEF Orders

LEMMA InRoomsIs ==
  ASSUME Tables
  PROVE  /\ InRooms \subseteq {id \in DOMAIN log : log[id].to \in RoomSet}
         /\ IsFiniteSet(InRooms)
         /\ \A id : id \in InRooms <=>
              /\ id \in Live /\ log[id].to \in joined
              /\ log[id].from # Me /\ id > mark[log[id].to]
<1>1. \A id : id \in InRooms <=>
        /\ id \in Live /\ log[id].to \in joined
        /\ log[id].from # Me /\ id > mark[log[id].to]
  BY DEF InRooms, RoomUnread, To
<1>2. InRooms \subseteq {id \in DOMAIN log : log[id].to \in RoomSet}
  BY <1>1 DEF Tables, Live
<1>3. QED
  BY <1>1, <1>2, LogIds, FS_Subset

LEMMA RoomsPage ==
  ASSUME Tables, NEW id \in InRooms
  PROVE  /\ id \notin AllRoomsUnread => Cardinality(AllRoomsUnread) = Cap
         /\ \A j \in AllRoomsUnread :
              log[id].to = log[j].to /\ id <= j => id \in AllRoomsUnread
<1> DEFINE S == InRooms
           R == ByRoom(InRooms)
<1>1. IsFiniteSet(S) /\ Orders(R, S) /\ \A x, y \in S : <<x, y>> \in R <=> Precedes(x, y)
  BY InRoomsIs, RoomsOrder
<1>2. \A x \in S : Before(S, R, x) = {i \in S : Precedes(i, x)}
  BY <1>1 DEF Before
<1>3. AllRoomsUnread = FirstOf(S, R, Cap)
  BY <1>2 DEF AllRoomsUnread, FirstOf
<1> HIDE DEF S, R
<1>4. id \notin AllRoomsUnread => Cardinality(AllRoomsUnread) = Cap
  BY <1>1, <1>3, Bounds, LackingIsFull DEF S
<1>5. ASSUME NEW j \in AllRoomsUnread, log[id].to = log[j].to, id <= j
      PROVE  id \in AllRoomsUnread
  <2>1. j \in S /\ id \in S
    BY DEF AllRoomsUnread, S
  <2>2. id = j \/ <<id, j>> \in R
    <3>1. id \in Nat /\ j \in Nat
      BY <2>1, InRoomsIs, LogIds DEF S
    <3>2. id = j \/ id < j
      BY <1>5, <3>1
    <3>3. QED
      BY <1>1, <1>5, <2>1, <3>2 DEF Precedes
  <2>3. CASE id = j
    BY <2>3
  <2>4. CASE <<id, j>> \in R
    <3> DEFINE a == Cardinality(Before(S, R, id))
               b == Cardinality(Before(S, R, j))
    <3>1. a < b
      BY <1>1, <2>1, <2>4, PlacesGrow
    <3>2. b < Cap
      BY <1>3 DEF FirstOf
    <3>3. a \in Nat /\ b \in Nat
      <4>1. Before(S, R, id) \subseteq S /\ Before(S, R, j) \subseteq S
        BY DEF Before
      <4>2. QED
        BY <1>1, <4>1, FS_Subset, FS_CardinalityType
    <3> HIDE DEF a, b
    <3>4. a < Cap
      BY <3>1, <3>2, <3>3, Bounds
    <3>5. QED
      BY <1>3, <2>1, <3>4 DEF a, FirstOf
  <2>5. QED
    BY <2>2, <2>3, <2>4
<1>6. QED
  BY <1>4, <1>5

-----------------------------------------------------------------------------
(* What writes do to the tables.                                           *)

(* Rows stay as they were written, and what was read stays read: a room's  *)
(* mark goes back only for who leaves it or when its messages go, and who  *)
(* enters is marked up to there.                                           *)
Forward ==
  /\ DOMAIN log \subseteq DOMAIN log' /\ \A id \in DOMAIN log : log'[id] = log[id]
  /\ gone \subseteq gone' /\ read \subseteq read'
  /\ \A room \in joined' : \/ room \in joined /\ mark[room] <= mark'[room]
                           \/ Len(log) <= mark'[room]
                           \/ To(room) \subseteq gone'

(* What a step adds is not unread after it. *)
NothingNew == \A id \in DOMAIN log' \ DOMAIN log : ~Unread(id)'

LEMMA StaysRead ==
  ASSUME Tables, Tables', Forward, NEW id \in DOMAIN log, Unread(id)'
  PROVE  Unread(id)
<1>1. id \in DOMAIN log' /\ log'[id] = log[id] /\ id \notin gone /\ id \in Live
  BY DEF Unread, Live, Forward
<1>2. CASE log[id].to = Me /\ id \notin read'
  BY <1>1, <1>2 DEF Unread, Forward
<1>3. CASE log[id].to \in joined' /\ log[id].from # Me /\ id > mark'[log[id].to]
  <2> DEFINE room == log[id].to
             m == mark[room]
             n == mark'[room]
             l == Len(log)
  <2>1. room \in RoomSet /\ m \in Nat /\ n \in Nat
    BY <1>3 DEF Tables
  <2>2. id \in Nat /\ l \in Nat /\ id <= l /\ id > n
    BY <1>3, LogIds
  <2>3. ~(To(room) \subseteq gone')
    <3>1. id \in To(room)
      BY <1>1 DEF To
    <3>2. id \notin gone'
      BY DEF Unread, Live
    <3>3. QED
      BY <3>1, <3>2
  <2>4. (room \in joined /\ m <= n) \/ l <= n
    BY <1>3, <2>3 DEF Forward
  <2>5. room \in joined /\ m <= n /\ id > m
    <3> HIDE DEF room, m, n, l
    <3>1. ~(l <= n)
      BY <2>1, <2>2
    <3>2. QED
      BY <2>1, <2>2, <2>4, <3>1
  <2>6. QED
    BY <1>1, <1>3, <2>5 DEF Unread
<1>4. QED
  BY <1>1, <1>2, <1>3 DEF Unread

LEMMA SameTables ==
  ASSUME Tables, UNCHANGED tables
  PROVE  Tables' /\ Forward /\ NothingNew
<1>1. log' = log /\ gone' = gone /\ read' = read /\ joined' = joined /\ mark' = mark
  BY DEF tables
<1>2. \A room \in joined : mark[room] <= mark[room]
  BY DEF Tables
<1>3. QED
  BY <1>1, <1>2 DEF Tables, Forward, NothingNew

LEMMA Inserted ==
  ASSUME Tables, MayPost, NEW message \in MessageRow, Insert(message)
  PROVE  /\ log' \in Seq(MessageRow) /\ Len(log') = NextId /\ Len(log') <= MaxLog
         /\ NextId \in Nat /\ Len(log) <= NextId
         /\ DOMAIN log' = DOMAIN log \cup {NextId} /\ NextId \notin DOMAIN log
         /\ \A id \in DOMAIN log : log'[id] = log[id]
         /\ log'[NextId] = message
<1> DEFINE n == Len(log)
<1>1. log \in Seq(MessageRow) /\ log' = Append(log, message)
  BY DEF Tables, Insert
<1>2. n \in Nat /\ DOMAIN log = 1..n
  BY LogIds
<1>3. /\ log' \in Seq(MessageRow) /\ Len(log') = n + 1
      /\ \A id \in 1..n : log'[id] = log[id]
      /\ log'[n + 1] = message
  BY <1>1, AppendProperties
<1>4. DOMAIN log' = 1..(n + 1)
  BY <1>3, LenProperties
<1>5. n + 1 <= MaxLog /\ n <= n + 1 /\ n + 1 \in Nat
  <2>1. n < MaxLog
    BY DEF MayPost
  <2> HIDE DEF n
  <2>2. QED
    BY <1>2, <2>1, Bounds
<1>6. 1..(n + 1) = 1..n \cup {n + 1} /\ n + 1 \notin 1..n
  <2> HIDE DEF n
  <2>1. QED
    BY <1>2
<1>7. QED
  BY <1>2, <1>3, <1>4, <1>5, <1>6 DEF NextId

(* A message with nothing else. *)
LEMMA PostKeeps ==
  ASSUME Tables, MayPost, NEW message \in MessageRow, Insert(message),
         UNCHANGED <<gone, read, joined, mark>>
  PROVE  Tables' /\ Forward
<1>1. \A room \in RoomSet : mark[room] <= NextId
  <2>1. ASSUME NEW room \in RoomSet PROVE mark[room] <= NextId
    <3> DEFINE m == mark[room]
               l == Len(log)
    <3>1. m \in Nat /\ l \in Nat /\ m <= l /\ NextId = l + 1
      BY LogIds DEF Tables, NextId
    <3> HIDE DEF m, l
    <3>2. m <= NextId
      BY <3>1
    <3>3. QED
      BY <3>2 DEF m
  <2>2. QED
    BY <2>1
<1>2. \A room \in joined : mark[room] <= mark[room]
  BY DEF Tables
<1>3. QED
  BY <1>1, <1>2, Inserted DEF Tables, Forward

(* A message, and the mark of its room up to it. *)
LEMMA PostAndMark ==
  ASSUME Tables, MayPost, NEW message \in MessageRow, Insert(message),
         UNCHANGED <<gone, read>>, NEW room \in RoomSet, message.to = room,
         joined' \in {joined, joined \cup {room}}, mark' = [mark EXCEPT ![room] = NextId]
  PROVE  Tables' /\ Forward /\ NothingNew
<1>1. mark' \in [RoomSet -> Nat] /\ \A r \in RoomSet : mark'[r] = IF r = room THEN NextId ELSE mark[r]
  BY Inserted DEF Tables
<1>2. \A r \in RoomSet : mark[r] \in Nat /\ mark[r] <= Len(log)
  BY DEF Tables
<1>3. \A r \in RoomSet : mark[r] <= NextId /\ mark[r] <= mark[r]
  <2>1. ASSUME NEW r \in RoomSet PROVE mark[r] <= NextId /\ mark[r] <= mark[r]
    <3> DEFINE m == mark[r]
               l == Len(log)
    <3>1. m \in Nat /\ l \in Nat /\ m <= l /\ NextId = l + 1
      BY <1>2, LogIds DEF NextId
    <3> HIDE DEF m, l
    <3>2. m <= NextId /\ m <= m
      BY <3>1
    <3>3. QED
      BY <3>2 DEF m
  <2>2. QED
    BY <2>1
<1>4. NextId <= NextId /\ Len(log) <= NextId
  BY Inserted
<1>5. Tables'
  BY <1>1, <1>3, <1>4, Inserted DEF Tables
<1>6. Forward
  <2>1. \A r \in joined' : \/ r \in joined /\ mark[r] <= mark'[r]
                           \/ Len(log) <= mark'[r]
    BY <1>1, <1>3, <1>4 DEF Tables
  <2>2. QED
    BY <2>1, Inserted DEF Forward
<1>7. NothingNew
  <2>1. SUFFICES ASSUME NEW id \in DOMAIN log' \ DOMAIN log PROVE ~Unread(id)'
    BY DEF NothingNew
  <2>2. id = NextId
    BY Inserted
  <2>3. log'[id].to = room /\ room # Me
    BY <2>2, Inserted, NamesAssumption DEF RoomSet
  <2>4. ~(id > mark'[room])
    BY <1>1, <1>4, <2>2, Inserted
  <2>5. QED
    BY <2>3, <2>4 DEF Unread
<1>8. QED
  BY <1>5, <1>6, <1>7

(* Views of which no message is of another. *)
LEMMA Apart ==
  ASSUME Tables, NEW v \in Views, NEW w \in Views, v # w, NEW id \in Conversation(v)
  PROVE  id \notin Conversation(w) /\ id \in Live
<1>1. v = Home \/ v \in [at: {"dm"}, of: Peers] \/ v \in [at: {"room"}, of: RoomSet]
  BY DEF Views
<1>2. w = Home \/ w \in [at: {"dm"}, of: Peers] \/ w \in [at: {"room"}, of: RoomSet]
  BY DEF Views
<1>3. Conversation(Home) = {}
  BY DEF Conversation, Home
<1>4. \A x \in [at: {"dm"}, of: Peers] :
        /\ x.of \in Peers /\ x.at = "dm"
        /\ Conversation(x) = {i \in To(x.of) : log[i].from = Me} \cup
                             {i \in To(Me) : log[i].from = x.of}
  BY DEF Conversation
<1>5. \A x \in [at: {"room"}, of: RoomSet] :
        x.of \in RoomSet /\ x.at = "room" /\ Conversation(x) = To(x.of)
  BY DEF Conversation
<1>6. Me \notin Peers /\ \A room \in RoomSet : room \notin Peers /\ room # Me
  BY NamesAssumption DEF RoomSet
<1>7. \A t : \A i \in To(t) : i \in Live /\ log[i].to = t
  BY DEF To
<1>8. CASE v \in [at: {"dm"}, of: Peers] /\ w \in [at: {"dm"}, of: Peers]
  <2>1. v.of # w.of
    BY <1>8
  <2>2. QED
    BY <1>4, <1>6, <1>7, <1>8, <2>1
<1>9. CASE v \in [at: {"room"}, of: RoomSet] /\ w \in [at: {"room"}, of: RoomSet]
  <2>1. v.of # w.of
    BY <1>9
  <2>2. QED
    BY <1>5, <1>7, <1>9, <2>1
<1>10. CASE v \in [at: {"dm"}, of: Peers] /\ w \in [at: {"room"}, of: RoomSet]
  BY <1>4, <1>5, <1>6, <1>7, <1>10
<1>11. CASE v \in [at: {"room"}, of: RoomSet] /\ w \in [at: {"dm"}, of: Peers]
  BY <1>4, <1>5, <1>6, <1>7, <1>11
<1>12. CASE w = Home
  <2>1. v # Home
    BY <1>12
  <2>2. QED
    BY <1>1, <1>3, <1>4, <1>5, <1>7, <1>12, <2>1
<1>13. QED
  BY <1>1, <1>2, <1>3, <1>8, <1>9, <1>10, <1>11, <1>12

LEMMA RoomIsView ==
  ASSUME NEW room \in RoomSet
  PROVE  RoomView(room) \in Views /\ Conversation(RoomView(room)) = To(room)
BY DEF RoomView, Views, Conversation

(* What deletes a room's messages, leaves it or empties a conversation. *)
LEMMA RemovalKeeps ==
  ASSUME Tables, UNCHANGED <<log, read>>, joined' \subseteq joined,
         gone \subseteq gone', gone' \subseteq DOMAIN log,
         NEW room \in RoomSet, mark' \in {mark, [mark EXCEPT ![room] = 0]},
         mark' = mark \/ room \notin joined' \/ To(room) \subseteq gone'
  PROVE  Tables' /\ Forward /\ NothingNew
<1>1. \A r \in RoomSet : mark[r] \in Nat /\ mark[r] <= Len(log) /\ mark[r] <= mark[r]
                         /\ 0 \in Nat /\ 0 <= Len(log)
  <2>1. ASSUME NEW r \in RoomSet
        PROVE mark[r] \in Nat /\ mark[r] <= Len(log) /\ mark[r] <= mark[r]
    BY DEF Tables
  <2>2. 0 \in Nat /\ 0 <= Len(log)
    BY LogIds
  <2>3. QED
    BY <2>1, <2>2
<1>2. mark' \in [RoomSet -> Nat] /\ \A r \in RoomSet : mark'[r] = mark[r] \/ (r = room /\ mark'[r] = 0)
  BY DEF Tables
<1>3. Tables'
  BY <1>1, <1>2 DEF Tables
<1>4. Forward
  <2>1. \A r \in joined' : r \in joined /\ r \in RoomSet
    BY DEF Tables
  <2>2. ASSUME NEW r \in joined', r # room \/ mark' = mark
        PROVE  r \in joined /\ mark[r] <= mark'[r]
    BY <1>1, <1>2, <2>1, <2>2
  <2>3. QED
    BY <2>2 DEF Forward
<1>5. QED
  BY <1>3, <1>4 DEF NothingNew

LEMMA ExitKeeps ==
  ASSUME Tables, NEW room \in RoomSet, Exit(room)
  PROVE  Tables' /\ Forward /\ NothingNew
<1>1. /\ log' = log /\ read' = read /\ gone' = gone /\ joined' = joined \ {room}
      /\ mark' = [mark EXCEPT ![room] = 0]
  BY DEF Exit
<1>2. gone' \subseteq DOMAIN log
  BY <1>1 DEF Tables
<1>3. QED
  BY <1>1, <1>2, RemovalKeeps

LEMMA DropKeeps ==
  ASSUME Tables, NEW room \in RoomSet, Drop(room)
  PROVE  Tables' /\ Forward /\ NothingNew
<1>1. /\ log' = log /\ read' = read /\ gone' = gone \cup To(room) /\ joined' = joined \ {room}
      /\ mark' = [mark EXCEPT ![room] = 0]
  BY DEF Drop
<1>2. gone' \subseteq DOMAIN log
  BY <1>1 DEF Tables, To, Live
<1>3. QED
  BY <1>1, <1>2, RemovalKeeps

LEMMA WipeKeeps ==
  ASSUME Tables, NEW v \in Views, Wipe(v)
  PROVE  Tables' /\ Forward /\ NothingNew
<1>1. /\ log' = log /\ read' = read /\ gone' = gone \cup Conversation(v) /\ joined' = joined
      /\ mark' = IF v.at = "room" THEN [mark EXCEPT ![v.of] = 0] ELSE mark
  BY DEF Wipe
<1>2. Conversation(v) \subseteq DOMAIN log
  BY DEF Conversation, To, Live
<1>3. gone' \subseteq DOMAIN log
  BY <1>1, <1>2 DEF Tables
<1>4. CASE v.at = "room"
  <2>1. v.of \in RoomSet /\ Conversation(v) = To(v.of)
    BY <1>4 DEF Views, Home, Conversation
  <2>2. QED
    BY <1>1, <1>3, <1>4, <2>1, RemovalKeeps
<1>5. CASE v.at # "room"
  <2>1. mark' = mark
    BY <1>1, <1>5
  <2>2. \A r \in joined : mark[r] <= mark[r]
    BY DEF Tables
  <2>3. QED
    BY <1>1, <1>3, <2>1, <2>2 DEF Tables, Forward, NothingNew
<1>6. QED
  BY <1>4, <1>5

LEMMA EnterKeeps ==
  ASSUME Tables, NEW room \in RoomSet, Enter(room), UNCHANGED <<gone, read>>
  PROVE  Tables' /\ Forward /\ NothingNew
<1>1. CASE room \in joined
  BY <1>1, SameTables DEF Enter, tables
<1>2. CASE room \notin joined
  <2>1. Message(System, room, FALSE) \in MessageRow /\ Message(System, room, FALSE).to = room
    BY DEF Message, MessageRow
  <2>2. QED
    BY <1>2, <2>1, PostAndMark DEF Enter
<1>3. QED
  BY <1>1, <1>2

LEMMA AdvanceIs ==
  ASSUME Tables, NEW room \in RoomSet, Advance(room, NextId)
  PROVE  mark' = [mark EXCEPT ![room] = NextId]
<1> DEFINE m == mark[room]
           l == Len(log)
<1>1. m \in Nat /\ l \in Nat /\ m <= l /\ NextId = l + 1
  BY LogIds DEF Tables, NextId
<1>2. NextId > m
  <2> HIDE DEF m, l
  <2>1. QED
    BY <1>1
<1>3. QED
  BY <1>2 DEF Advance, Tables

(* What the user writes, or an announcement in a room the user is in. *)
LEMMA OwnPostKeeps ==
  ASSUME Tables, MayPost, NEW message \in MessageRow, Insert(message),
         UNCHANGED <<gone, read, joined>>,
         \/ message.to \in RoomSet /\ Advance(message.to, NextId)
         \/ message.to \in Peers /\ UNCHANGED mark
  PROVE  Tables' /\ Forward /\ NothingNew
<1>1. CASE message.to \in RoomSet /\ Advance(message.to, NextId)
  BY <1>1, AdvanceIs, PostAndMark
<1>2. CASE message.to \in Peers /\ UNCHANGED mark
  <2>1. Tables' /\ Forward
    BY <1>2, PostKeeps
  <2>2. SUFFICES ASSUME NEW id \in DOMAIN log' \ DOMAIN log PROVE ~Unread(id)'
    BY <2>1 DEF NothingNew
  <2>3. log'[id] = message
    BY Inserted
  <2>4. message.to # Me /\ message.to \notin joined'
    BY <1>2, NamesAssumption DEF Tables, RoomSet
  <2>5. QED
    BY <2>3, <2>4 DEF Unread
<1>3. QED
  BY <1>1, <1>2

(* Ids that are marked: read_at for some, and for each room the newest. *)
LEMMA MarkingKeeps ==
  ASSUME Tables, UNCHANGED <<log, gone, joined>>,
         NEW dms \in SUBSET DOMAIN log, read' = read \cup dms,
         NEW seen \in [RoomSet -> SUBSET DOMAIN log],
         mark' = [room \in RoomSet |-> Max({mark[room]} \cup seen[room])]
  PROVE  /\ Tables' /\ Forward /\ NothingNew
         /\ \A room \in RoomSet : /\ mark'[room] \in {mark[room]} \cup seen[room]
                                  /\ \A id \in seen[room] : id <= mark'[room]
<1>1. ASSUME NEW room \in RoomSet
      PROVE  /\ mark'[room] \in {mark[room]} \cup seen[room]
             /\ \A id \in {mark[room]} \cup seen[room] : id <= mark'[room]
  <2> DEFINE S == {mark[room]} \cup seen[room]
  <2>1. mark[room] \in Nat /\ seen[room] \subseteq DOMAIN log
    BY DEF Tables
  <2>2. S \in SUBSET Nat /\ S # {}
    BY <2>1, LogIds
  <2>3. IsFiniteSet(S)
    <3>1. IsFiniteSet(seen[room])
      BY <2>1, LogIds, FS_Subset
    <3>2. IsFiniteSet(seen[room] \cup {mark[room]})
      BY <3>1, FS_AddElement
    <3>3. seen[room] \cup {mark[room]} = S
      OBVIOUS
    <3>4. QED
      BY <3>2, <3>3
  <2>4. mark'[room] = Max(S)
    OBVIOUS
  <2> HIDE DEF S
  <2>5. mark'[room] \in S /\ \A id \in S : id <= mark'[room]
    BY <2>2, <2>3, <2>4, MaxOf
  <2>6. QED
    BY <2>5 DEF S
<1>2. \A room \in RoomSet : mark'[room] \in Nat /\ mark'[room] <= Len(log) /\ mark[room] <= mark'[room]
  <2>1. ASSUME NEW room \in RoomSet
        PROVE  mark'[room] \in Nat /\ mark'[room] <= Len(log)
    <3>1. mark'[room] = mark[room] \/ mark'[room] \in DOMAIN log
      BY <1>1
    <3>2. QED
      BY <3>1, LogIds DEF Tables
  <2>2. QED
    BY <1>1, <2>1
<1>3. mark' \in [RoomSet -> Nat]
  BY <1>2
<1>4. Tables' /\ NothingNew
  BY <1>2, <1>3 DEF Tables, NothingNew
<1>5. Forward
  BY <1>2 DEF Forward, Tables
<1>6. QED
  BY <1>1, <1>4, <1>5

(* The alerts of /all-hands, one to each peer that is online. *)
LEMMA Alerts ==
  ASSUME NEW online \in SUBSET Peers
  PROVE  LET ringing == {Message(Me, peer, TRUE) : peer \in online}
             alerts == SetToSeq(ringing)
         IN /\ alerts \in Seq(ringing) /\ Len(alerts) <= Cardinality(online)
            /\ Cardinality(online) \in Nat
<1> DEFINE ringing == {Message(Me, peer, TRUE) : peer \in online}
           alerts == SetToSeq(ringing)
           f == [peer \in online |-> Message(Me, peer, TRUE)]
           n == Cardinality(ringing)
<1>1. IsFiniteSet(online)
  BY NamesAssumption, FS_Subset
<1>2. f \in Surjection(online, ringing)
  BY DEF Surjection
<1>3. IsFiniteSet(ringing) /\ n <= Cardinality(online)
  <2> HIDE DEF f, ringing
  <2>1. QED
    BY <1>1, <1>2, FS_Surjection
<1>4. n \in Nat /\ ExistsBijection(1..n, ringing)
  <2> HIDE DEF ringing
  <2>1. QED
    BY <1>3, FS_CardinalityType
<1>5. \E g \in [1..n -> ringing] : IsInjective(g)
  <2> HIDE DEF ringing, n
  <2>1. PICK g \in Bijection(1..n, ringing) : TRUE
    BY <1>4 DEF ExistsBijection
  <2>2. g \in [1..n -> ringing] /\ IsInjective(g)
    BY <2>1 DEF Bijection, Injection, IsInjective
  <2>3. QED
    BY <2>2
<1>6. alerts \in [1..n -> ringing]
  <2>1. alerts = CHOOSE g \in [1..n -> ringing] : IsInjective(g)
    BY DEF SetToSeq
  <2> HIDE DEF ringing, n, alerts
  <2>2. QED
    BY <1>5, <2>1
<1>7. alerts \in Seq(ringing) /\ Len(alerts) = n
  <2> HIDE DEF ringing, n, alerts
  <2>1. alerts \in Seq(ringing)
    BY <1>4, <1>6
  <2>2. DOMAIN alerts = 1..n /\ DOMAIN alerts = 1..Len(alerts) /\ Len(alerts) \in Nat
    BY <1>6, <2>1, LenProperties
  <2>3. QED
    BY <1>4, <2>1, <2>2
<1>8. QED
  BY <1>1, <1>3, <1>7, FS_CardinalityType

LEMMA AllHandsKeeps ==
  ASSUME Tables, NEW room \in RoomSet, NEW online \in SUBSET Peers, AllHands(room, online)
  PROVE  Tables' /\ Forward /\ NothingNew
<1> DEFINE ringing == {Message(Me, peer, TRUE) : peer \in online}
           alerts == SetToSeq(ringing)
           told == Message(System, room, FALSE)
           base == IF room \in joined THEN log ELSE Append(log, told)
           l == Len(log)
           b == Len(base)
           a == Len(alerts)
           c == Cardinality(online)
<1>1. /\ l + c < MaxLog /\ log' = base \o alerts
      /\ gone' = gone /\ read' = read
      /\ \/ room \in joined /\ joined' = joined /\ mark' = mark
         \/ /\ room \notin joined /\ joined' = joined \cup {room}
            /\ mark' = [mark EXCEPT ![room] = NextId]
  BY DEF AllHands
<1>2. alerts \in Seq(ringing) /\ a <= c /\ c \in Nat
  BY Alerts
<1>3. ringing \subseteq MessageRow /\ \A message \in ringing : message.to \in Peers
  <2>1. ASSUME NEW message \in ringing PROVE message \in MessageRow /\ message.to \in Peers
    <3>1. PICK peer \in online : message = [from |-> Me, to |-> peer, alert |-> TRUE]
      BY DEF Message
    <3>2. peer \in Peers
      OBVIOUS
    <3>3. QED
      BY <3>1, <3>2 DEF MessageRow
  <2>2. QED
    BY <2>1
<1>4. alerts \in Seq(MessageRow) /\ a \in Nat
  <2> HIDE DEF ringing, alerts
  <2>1. QED
    BY <1>2, <1>3, LenProperties
<1>5. told \in MessageRow /\ told.to = room /\ log \in Seq(MessageRow) /\ l \in Nat
  BY LogIds DEF Message, MessageRow, Tables
<1>6. /\ base \in Seq(MessageRow) /\ b \in {l, l + 1}
      /\ \A id \in 1..l : base[id] = log[id]
      /\ room \in joined => b = l
      /\ room \notin joined => b = l + 1 /\ base[b] = told
  <2>1. CASE room \in joined
    BY <1>5, <2>1
  <2>2. CASE room \notin joined
    <3>1. base = Append(log, told)
      BY <2>2
    <3> HIDE DEF base, told
    <3>2. base \in Seq(MessageRow) /\ b = l + 1 /\ (\A id \in 1..l : base[id] = log[id])
          /\ base[l + 1] = told
      BY <1>5, <3>1, AppendProperties
    <3>3. QED
      BY <2>2, <3>2
  <2>3. QED
    BY <2>1, <2>2
<1> HIDE DEF ringing, alerts, told, base
<1>7. /\ log' \in Seq(MessageRow) /\ Len(log') = b + a
      /\ \A id \in 1..(b + a) : log'[id] = IF id <= b THEN base[id] ELSE alerts[id - b]
  BY <1>1, <1>4, <1>6, ConcatProperties
<1>8. DOMAIN log' = 1..(b + a) /\ DOMAIN log = 1..l
  BY <1>5, <1>7, LenProperties
<1>9. /\ b + a <= MaxLog /\ l <= b /\ b <= b + a /\ b \in Nat
      /\ 1..l \subseteq 1..(b + a) /\ \A id \in 1..l : id <= b
  <2> HIDE DEF a, b, c, l
  <2>1. b \in Nat /\ l <= b /\ b <= l + 1
    BY <1>5, <1>6
  <2>2. b + a <= MaxLog
    BY <1>1, <1>2, <1>4, <1>5, <2>1, Bounds
  <2>3. QED
    BY <1>4, <1>5, <2>1, <2>2
<1>10. \A id \in 1..l : log'[id] = log[id]
  BY <1>6, <1>7, <1>9
<1>11. mark' \in [RoomSet -> Nat]
       /\ \A r \in RoomSet : \/ mark'[r] = mark[r]
                             \/ r = room /\ room \notin joined /\ mark'[r] = b
  <2>1. mark \in [RoomSet -> Nat]
    BY DEF Tables
  <2>2. CASE room \in joined
    BY <1>1, <2>1, <2>2
  <2>3. CASE room \notin joined
    <3>1. NextId = b
      BY <1>6, <2>3 DEF NextId
    <3>2. mark' = [mark EXCEPT ![room] = b] /\ b \in Nat
      BY <1>1, <1>9, <2>3, <3>1
    <3> HIDE DEF b
    <3>3. QED
      BY <2>1, <2>3, <3>2
  <2>4. QED
    BY <2>2, <2>3
<1>12. \A r \in RoomSet : mark[r] \in Nat /\ mark[r] <= l /\ mark[r] <= b + a /\ mark[r] <= mark[r]
  <2>1. ASSUME NEW r \in RoomSet
        PROVE  mark[r] \in Nat /\ mark[r] <= l /\ mark[r] <= b + a /\ mark[r] <= mark[r]
    <3> DEFINE m == mark[r]
    <3>1. m \in Nat /\ m <= l
      BY DEF Tables
    <3> HIDE DEF m, l, a, b
    <3>2. m <= b + a /\ m <= m
      BY <1>4, <1>5, <1>9, <3>1
    <3>3. QED
      BY <3>1, <3>2 DEF m
  <2>2. QED
    BY <2>1
<1>13. Tables'
  <2>1. \A r \in RoomSet : mark'[r] <= Len(log')
    BY <1>7, <1>9, <1>11, <1>12
  <2>2. joined' \subseteq RoomSet /\ (gone' \cup read') \subseteq DOMAIN log'
    BY <1>1, <1>8, <1>9 DEF Tables
  <2>3. Len(log') <= MaxLog
    BY <1>7, <1>9
  <2>4. QED
    BY <1>7, <1>11, <2>1, <2>2, <2>3 DEF Tables
<1>14. Forward
  <2>1. \A r \in joined' : r \in RoomSet /\ (r \in joined \/ r = room)
    BY <1>1 DEF Tables
  <2>2. \A r \in joined' : (r \in joined /\ mark[r] <= mark'[r]) \/ Len(log) <= mark'[r]
    <3>1. ASSUME NEW r \in joined' PROVE (r \in joined /\ mark[r] <= mark'[r]) \/ l <= mark'[r]
      <4>1. CASE r \in joined
        BY <1>9, <1>11, <1>12, <2>1, <4>1
      <4>2. CASE r \notin joined
        <5>1. r = room /\ room \notin joined
          BY <2>1, <4>2
        <5>2. mark' = [mark EXCEPT ![room] = NextId] /\ NextId = b
          BY <1>1, <1>6, <5>1 DEF NextId
        <5>3. mark'[r] = b
          <6> HIDE DEF b
          <6>1. QED
            BY <5>1, <5>2 DEF Tables
        <5>4. QED
          BY <1>9, <5>3
      <4>3. QED
        BY <4>1, <4>2
    <3>2. QED
      BY <3>1
  <2>3. DOMAIN log \subseteq DOMAIN log'
    BY <1>8, <1>9
  <2>4. QED
    BY <1>1, <1>8, <1>10, <2>2, <2>3 DEF Forward
<1>15. NothingNew
  <2>1. SUFFICES ASSUME NEW id \in DOMAIN log' \ DOMAIN log PROVE ~Unread(id)'
    BY DEF NothingNew
  <2>2. id \in Nat /\ id \in 1..(b + a) /\ id > l
    <3> HIDE DEF a, b, l
    <3>1. QED
      BY <1>4, <1>5, <1>8, <1>9
  <2>3. CASE id <= b
    <3>1. room \notin joined /\ id = b
      <4> HIDE DEF a, b, l
      <4>1. QED
        BY <1>5, <1>6, <1>9, <2>2, <2>3
    <3>2. log'[id] = told /\ told.to # Me /\ told.to = room
      BY <1>5, <1>6, <1>7, <2>2, <2>3, <3>1, NamesAssumption DEF RoomSet
    <3>3. mark'[room] = b
      <4>1. mark' = [mark EXCEPT ![room] = NextId] /\ NextId = b
        BY <1>1, <1>6, <3>1 DEF NextId
      <4> HIDE DEF b
      <4>2. QED
        BY <4>1 DEF Tables
    <3>4. ~(id > mark'[room])
      <4> HIDE DEF b
      <4>1. QED
        BY <1>9, <3>1, <3>3
    <3>5. QED
      BY <3>2, <3>4 DEF Unread
  <2>4. CASE ~(id <= b)
    <3>1. log'[id] = alerts[id - b]
      BY <1>7, <2>2, <2>4
    <3>2. id - b \in 1..a
      <4> HIDE DEF a, b, l
      <4>1. QED
        BY <1>4, <1>9, <2>2, <2>4
    <3>3. log'[id] \in ringing
      BY <1>2, <3>1, <3>2, ElementOfSeq
    <3>4. log'[id].to # Me /\ log'[id].to \notin joined'
      BY <1>3, <1>13, <3>3, NamesAssumption DEF RoomSet, Tables
    <3>5. QED
      BY <3>4 DEF Unread
  <2>5. QED
    BY <2>3, <2>4
<1>16. QED
  BY <1>13, <1>14, <1>15

-----------------------------------------------------------------------------
(* What a client shows, beside the tables.                                 *)
(*                                                                         *)
(* Between a render and its effect only others act, and whoever removes a  *)
(* message of the view removes them all: Awaits says that what the view    *)
(* drew, or what was beyond its page, still is or is gone.  Printed and    *)
(* Rung are inductive since what is read once stays read.                  *)

Client ==
  /\ toRing \subseteq DOMAIN log /\ bell \in BOOLEAN
  /\ ui \in {"none", "ink", "repl"} /\ view \in Views
  /\ screen \in [rows: SUBSET DOMAIN log, lane: SUBSET DOMAIN log, badged: SUBSET DOMAIN log]
  /\ ui = "none" => screen = NoScreen
  /\ due # Ran => ui = "ink" /\ due \in Nat /\ due <= Len(log)

Awaits ==
  due # Ran =>
    \A id \in Conversation(view) :
      id <= due => id \in screen.rows \/ id \notin Newest(Limit, Conversation(view))

Printed == ui = "repl" => \A id \in screen.rows : ~Unread(id)

Rung ==
  ui # "none" /\ ~bell =>
    \A id \in DOMAIN log \ toRing :
      Unread(id) => id \in screen.badged \/ PageIsFull(IsDm(id))

TerminalInv == Tables /\ Client /\ Awaits /\ Printed /\ Rung

(* What is badged is unread, and what is unread is badged, or a page of it *)
(* is full.                                                                *)
LEMMA BadgedIs ==
  ASSUME Tables
  PROVE  /\ Badged \subseteq {id \in DOMAIN log : Unread(id)}
         /\ \A id \in PendingInbox : log[id].to = Me /\ id \notin read
         /\ \A id \in AllRoomsUnread : log[id].to \in joined /\ log[id].to # Me
         /\ \A id : Unread(id) =>
              \/ id \in Badged
              \/ Cardinality({j \in Badged : IsDm(j) = IsDm(id)}) = Cap
<1> DEFINE Mine == To(Me) \ read
<1>1. \A id : id \in Mine <=> id \in Live /\ log[id].to = Me /\ id \notin read
  BY DEF To
<1>2. Mine \subseteq DOMAIN log
  BY <1>1 DEF Live
<1>3. Mine \in SUBSET Nat /\ IsFiniteSet(Mine)
  <2> HIDE DEF Mine
  <2>1. QED
    BY <1>2, LogIds, FS_Subset
<1>4. PendingInbox = Oldest(Cap, Mine)
  BY DEF PendingInbox
<1>5. PendingInbox \subseteq Mine
  BY <1>4 DEF Oldest
<1>6. AllRoomsUnread \subseteq InRooms
  BY DEF AllRoomsUnread
<1>7. \A id \in InRooms : log[id].to \in joined /\ log[id].to # Me /\ id \in DOMAIN log
  BY InRoomsIs, NamesAssumption DEF RoomSet
<1>8. Badged \subseteq {id \in DOMAIN log : Unread(id)}
  <2>1. \A id \in PendingInbox : id \in DOMAIN log /\ Unread(id)
    BY <1>1, <1>2, <1>5 DEF Unread
  <2>2. \A id \in AllRoomsUnread : id \in DOMAIN log /\ Unread(id)
    BY <1>6, InRoomsIs DEF Unread
  <2>3. QED
    BY <2>1, <2>2 DEF Badged
<1>9. {j \in Badged : IsDm(j)} = PendingInbox /\ {j \in Badged : ~IsDm(j)} = AllRoomsUnread
  BY <1>1, <1>5, <1>6, <1>7 DEF Badged, IsDm
<1>10. ASSUME NEW id, Unread(id)
       PROVE  \/ id \in Badged
              \/ Cardinality({j \in Badged : IsDm(j) = IsDm(id)}) = Cap
  <2>1. CASE IsDm(id)
    <3>1. id \in Mine
      <4>1. log[id].to \notin joined
        BY <2>1, NamesAssumption DEF IsDm, Tables, RoomSet
      <4>2. QED
        BY <1>1, <1>10, <2>1, <4>1 DEF Unread, IsDm
    <3>2. id \in PendingInbox \/ Cardinality(PendingInbox) = Cap
      <4> HIDE DEF Mine
      <4>1. QED
        BY <1>3, <1>4, <3>1, Bounds, OldestPage
    <3>3. {j \in Badged : IsDm(j) = IsDm(id)} = PendingInbox
      BY <1>9, <2>1
    <3>4. QED
      BY <3>2, <3>3 DEF Badged
  <2>2. CASE ~IsDm(id)
    <3>1. id \in InRooms
      BY <1>10, <2>2, InRoomsIs DEF Unread, IsDm
    <3>2. id \in AllRoomsUnread \/ Cardinality(AllRoomsUnread) = Cap
      BY <3>1, RoomsPage
    <3>3. {j \in Badged : IsDm(j) = IsDm(id)} = AllRoomsUnread
      BY <1>9, <2>2 DEF IsDm
    <3>4. QED
      BY <3>2, <3>3 DEF Badged
  <2>3. QED
    BY <2>1, <2>2
<1>11. QED
  BY <1>1, <1>5, <1>6, <1>7, <1>8, <1>10

LEMMA ViewIds ==
  ASSUME Tables, NEW v \in Views
  PROVE  /\ Conversation(v) \subseteq DOMAIN log
         /\ Conversation(v) \in SUBSET Nat /\ IsFiniteSet(Conversation(v))
         /\ Rows(v) \subseteq DOMAIN log /\ Lane \subseteq DOMAIN log
<1>1. Conversation(v) \subseteq DOMAIN log
  BY DEF Conversation, To, Live
<1>2. Conversation(v) \in SUBSET Nat /\ IsFiniteSet(Conversation(v))
  BY <1>1, LogIds, FS_Subset
<1>3. Rows(v) \subseteq DOMAIN log /\ Lane \subseteq DOMAIN log
  BY <1>1 DEF Rows, Newest, Lane, Live
<1>4. QED
  BY <1>1, <1>2, <1>3

(* The conversation of a view after a step, but for what was added. *)
LEMMA Remains ==
  ASSUME Tables, Tables', Forward, NEW v \in Views, NEW id \in DOMAIN log
  PROVE  id \in Conversation(v)' <=> id \in Conversation(v) /\ id \notin gone'
<1>1. id \in DOMAIN log' /\ log'[id] = log[id] /\ gone \subseteq gone'
  BY DEF Forward
<1>2. \A t : id \in To(t)' <=> id \in To(t) /\ id \notin gone'
  BY <1>1 DEF To, Live
<1>3. QED
  BY <1>1, <1>2 DEF Conversation

(* A step that draws nothing. *)
LEMMA Undrawn ==
  ASSUME TerminalInv, Tables', Forward, UNCHANGED <<ui, screen>>, view' \in Views,
         toRing' \subseteq DOMAIN log', bell' \in BOOLEAN, bell => bell',
         ui = "none" => due' = Ran,
         \/ due' = Ran
         \/ /\ due' = due /\ view' = view
            /\ \E v \in Views : gone' \in {gone, gone \cup Conversation(v)},
         ui # "none" /\ ~bell' => \A id \in DOMAIN log' \ toRing' :
           Unread(id)' => id \in DOMAIN log \ toRing
  PROVE  TerminalInv'
<1>1. DOMAIN log \subseteq DOMAIN log' /\ \A id \in DOMAIN log : log'[id] = log[id]
  BY DEF Forward
<1>2. Client'
  <2>1. screen' \in [rows: SUBSET DOMAIN log', lane: SUBSET DOMAIN log', badged: SUBSET DOMAIN log']
    BY <1>1 DEF TerminalInv, Client
  <2>2. due' # Ran => ui' = "ink" /\ due' \in Nat /\ due' <= Len(log')
    <3>1. SUFFICES ASSUME due' # Ran PROVE ui' = "ink" /\ due' \in Nat /\ due' <= Len(log')
      OBVIOUS
    <3>2. due' = due /\ ui = "ink" /\ due \in Nat /\ due <= Len(log)
      BY <3>1 DEF TerminalInv, Client
    <3>3. Len(log) <= Len(log') /\ Len(log) \in Nat /\ Len(log') \in Nat
      <4>1. DOMAIN log = 1..Len(log) /\ Len(log) \in Nat
        BY LogIds DEF TerminalInv
      <4>2. DOMAIN log' = 1..Len(log') /\ Len(log') \in Nat
        BY LenProperties DEF Tables
      <4> DEFINE l == Len(log)
                 k == Len(log')
      <4>3. 1..l \subseteq 1..k /\ l \in Nat /\ k \in Nat
        BY <1>1, <4>1, <4>2
      <4> HIDE DEF l, k
      <4>4. l <= k
        <5>1. CASE l = 0
          BY <4>3, <5>1
        <5>2. CASE l # 0
          <6>1. l \in 1..l
            BY <4>3, <5>2
          <6>2. l \in 1..k
            BY <4>3, <6>1
          <6>3. QED
            BY <4>3, <6>2
        <5>3. QED
          BY <5>1, <5>2
      <4>5. QED
        BY <4>3, <4>4 DEF l, k
    <3>4. QED
      BY <3>2, <3>3
  <2>3. QED
    BY <2>1, <2>2 DEF TerminalInv, Client
<1>3. Awaits'
  <2>1. SUFFICES ASSUME due' # Ran, NEW id \in Conversation(view)', id <= due', id \notin screen'.rows
                 PROVE  id \notin Newest(Limit, Conversation(view))'
    BY DEF Awaits
  <2>2. PICK v \in Views : gone' \in {gone, gone \cup Conversation(v)}
    BY <2>1
  <2>3. due' = due /\ due # Ran /\ view' = view /\ due \in Nat /\ due <= Len(log)
    BY <2>1 DEF TerminalInv, Client
  <2>4. PICK w \in Views : w = view
    BY DEF TerminalInv, Client
  <2>5. Conversation(view)' = Conversation(w)'
    BY <2>3, <2>4
  <2>6. id \in DOMAIN log
    <3>1. id \in DOMAIN log' /\ id \in Nat /\ 1 <= id
      <4>1. Conversation(w)' \subseteq DOMAIN log'
        BY DEF Conversation, To, Live
      <4>2. DOMAIN log' = 1..Len(log') /\ Len(log') \in Nat
        BY LenProperties DEF Tables
      <4>3. QED
        BY <2>1, <2>5, <4>1, <4>2
    <3>2. DOMAIN log = 1..Len(log) /\ Len(log) \in Nat
      BY LogIds DEF TerminalInv
    <3>3. id <= Len(log)
      BY <2>1, <2>3, <3>1, <3>2
    <3>4. QED
      BY <3>1, <3>2, <3>3
  <2>7. id \in Conversation(w) /\ id \notin gone'
    BY <2>1, <2>5, <2>6, Remains DEF TerminalInv
  <2>8. id \notin Newest(Limit, Conversation(w))
    BY <2>1, <2>3, <2>4, <2>7 DEF TerminalInv, Awaits
  <2>9. Conversation(w) \subseteq Conversation(w)'
    <3>1. SUFFICES ASSUME NEW i \in Conversation(w) PROVE i \in Conversation(w)'
      OBVIOUS
    <3>2. i \in DOMAIN log /\ i \in Live
      BY ViewIds DEF TerminalInv, Conversation, To
    <3>3. i \notin gone'
      <4>1. gone' = gone \/ v # w
        BY <2>2, <2>7
      <4>2. v # w => i \notin Conversation(v)
        BY Apart DEF TerminalInv
      <4>3. QED
        BY <2>2, <3>2, <4>1, <4>2 DEF Live
    <3>4. QED
      BY <3>2, <3>3, Remains DEF TerminalInv
  <2>10. Conversation(w)' \in SUBSET Nat /\ IsFiniteSet(Conversation(w)')
    <3>1. Conversation(w)' \subseteq DOMAIN log'
      BY DEF Conversation, To, Live
    <3>2. DOMAIN log' = 1..Len(log') /\ Len(log') \in Nat
      BY LenProperties DEF Tables
    <3>3. IsFiniteSet(1..Len(log')) /\ 1..Len(log') \subseteq Nat
      <4> DEFINE k == Len(log')
      <4>1. k \in Int /\ k \in Nat
        BY <3>2
      <4> HIDE DEF k
      <4>2. IsFiniteSet(1..k) /\ 1..k \subseteq Nat
        BY <4>1, FS_Interval
      <4>3. QED
        BY <4>2 DEF k
    <3>4. QED
      BY <3>1, <3>2, <3>3, FS_Subset
  <2>11. id \notin Newest(Limit, Conversation(w)')
    <3> DEFINE S == Conversation(w)'
               T == Conversation(w)
    <3>1. /\ S \in SUBSET Nat /\ IsFiniteSet(S) /\ T \subseteq S
          /\ id \in T /\ id \notin Newest(Limit, T)
      BY <2>7, <2>8, <2>9, <2>10
    <3> HIDE DEF S, T
    <3>2. id \notin Newest(Limit, S)
      BY <3>1, Bounds, NewestLacks
    <3>3. QED
      BY <3>2 DEF S
  <2>12. QED
    BY <2>5, <2>11 DEF Newest
<1>4. Printed'
  <2>1. SUFFICES ASSUME ui = "repl", NEW id \in screen.rows, Unread(id)' PROVE FALSE
    BY DEF Printed
  <2>2. id \in DOMAIN log /\ ~Unread(id)
    BY <2>1 DEF TerminalInv, Client, Printed
  <2>3. QED
    BY <2>1, <2>2, StaysRead DEF TerminalInv
<1>5. Rung'
  <2>1. SUFFICES ASSUME ui # "none", ~bell', NEW id \in DOMAIN log' \ toRing', Unread(id)'
                 PROVE  id \in screen'.badged \/ PageIsFull(IsDm(id))'
    BY DEF Rung
  <2>2. id \in DOMAIN log \ toRing
    BY <2>1
  <2>3. Unread(id) /\ ~bell
    BY <2>1, <2>2, StaysRead DEF TerminalInv
  <2>4. id \in screen.badged \/ PageIsFull(IsDm(id))
    BY <2>1, <2>2, <2>3 DEF TerminalInv, Rung
  <2>5. \A j \in DOMAIN log : IsDm(j)' <=> IsDm(j)
    BY <1>1 DEF IsDm
  <2>6. screen.badged \subseteq DOMAIN log
    BY DEF TerminalInv, Client
  <2>7. \A j \in screen.badged : (IsDm(j)' = IsDm(id)') <=> (IsDm(j) = IsDm(id))
    BY <2>2, <2>5, <2>6 DEF IsDm
  <2>8. {j \in screen'.badged : IsDm(j)' = IsDm(id)'} = {j \in screen.badged : IsDm(j) = IsDm(id)}
    BY <2>7
  <2>9. PageIsFull(IsDm(id)) => PageIsFull(IsDm(id))'
    BY <2>8 DEF PageIsFull
  <2>10. QED
    BY <2>4, <2>9
<1>6. QED
  BY <1>2, <1>3, <1>4, <1>5 DEF TerminalInv

(* The same of the state after a step. *)
Drawable ==
  /\ Badged \subseteq {id \in DOMAIN log : Unread(id)}
  /\ Lane \subseteq DOMAIN log
  /\ \A v \in Views : Rows(v) \subseteq DOMAIN log
  /\ \A id : Unread(id) =>
       \/ id \in Badged
       \/ Cardinality({j \in Badged : IsDm(j) = IsDm(id)}) = Cap

LEMMA DrawableNow == Tables => Drawable
<1>1. \E v : v \in Views
  BY DEF Views
<1>2. QED
  BY <1>1, BadgedIs, ViewIds DEF Drawable

LEMMA DrawableNext == Tables' => Drawable'
BY DrawableNow, PTL

(* A render of the console. *)
LEMMA Drawn ==
  ASSUME TerminalInv, Tables', Forward, NEW v \in Views, NEW tick \in BOOLEAN, Render(v, tick),
         ui' = "ink", toRing' \subseteq DOMAIN log', bell' \in BOOLEAN,
         tick \/ (ui = "ink" /\ UNCHANGED <<tables, toRing, bell>>)
  PROVE  TerminalInv'
<1>1. /\ view' = v /\ due' = Len(log')
      /\ screen' = [rows |-> Rows(v)', lane |-> IF tick THEN Lane' ELSE screen.lane,
                    badged |-> IF tick THEN Badged' ELSE screen.badged]
  BY DEF Render
<1>2. /\ Badged' \subseteq DOMAIN log' /\ Lane' \subseteq DOMAIN log'
      /\ Rows(v)' \subseteq DOMAIN log'
      /\ \A id : Unread(id)' =>
           \/ id \in Badged'
           \/ Cardinality({j \in Badged' : IsDm(j)' = IsDm(id)'}) = Cap
  BY DrawableNext DEF Drawable
<1>3. DOMAIN log \subseteq DOMAIN log'
  BY DEF Forward
<1>4. Client'
  <2>1. screen.lane \subseteq DOMAIN log' /\ screen.badged \subseteq DOMAIN log'
    BY <1>3 DEF TerminalInv, Client
  <2>2. screen' \in [rows: SUBSET DOMAIN log', lane: SUBSET DOMAIN log', badged: SUBSET DOMAIN log']
    BY <1>1, <1>2, <2>1
  <2>3. Len(log') \in Nat /\ Len(log') <= Len(log')
    BY LenProperties DEF Tables
  <2>4. QED
    BY <1>1, <2>2, <2>3 DEF Client
<1>5. Awaits'
  <2>1. Rows(view)' = Newest(Limit, Conversation(view)')
    BY DEF Rows, Newest
  <2>2. Rows(view)' = Rows(v)'
    BY <1>1
  <2>3. screen'.rows = Newest(Limit, Conversation(view)')
    BY <1>1, <2>1, <2>2
  <2>4. Newest(Limit, Conversation(view))' = Newest(Limit, Conversation(view)')
    BY DEF Newest
  <2>5. QED
    BY <2>3, <2>4 DEF Awaits
<1>6. Printed'
  BY DEF Printed
<1>7. Rung'
  <2>1. CASE tick
    <3>1. SUFFICES ASSUME NEW id \in DOMAIN log' \ toRing', Unread(id)'
                   PROVE  id \in screen'.badged \/ PageIsFull(IsDm(id))'
      BY DEF Rung
    <3>2. screen'.badged = Badged'
      BY <1>1, <2>1
    <3>3. \/ id \in Badged'
          \/ Cardinality({j \in Badged' : IsDm(j)' = IsDm(id)'}) = Cap
      BY <1>2, <3>1
    <3>4. PageIsFull(IsDm(id))' <=>
            Cardinality({j \in screen'.badged : IsDm(j)' = IsDm(id)'}) = Cap
      BY DEF PageIsFull
    <3>5. QED
      BY <3>2, <3>3, <3>4
  <2>2. CASE ~tick
    <3>1. ui = "ink" /\ log' = log /\ gone' = gone /\ read' = read /\ joined' = joined
          /\ mark' = mark /\ toRing' = toRing /\ bell' = bell
      BY <2>2 DEF tables
    <3>2. screen'.badged = screen.badged
      BY <1>1, <2>2
    <3>3. \A id : Unread(id)' <=> Unread(id)
      BY <3>1 DEF Unread, Live
    <3>4. \A id : IsDm(id)' = IsDm(id)
      BY <3>1 DEF IsDm
    <3>5. \A id : PageIsFull(IsDm(id))' <=> PageIsFull(IsDm(id))
      BY <3>2, <3>4 DEF PageIsFull
    <3>6. QED
      BY <3>1, <3>2, <3>3, <3>5 DEF TerminalInv, Rung
  <2>3. QED
    BY <2>1, <2>2
<1>8. QED
  BY <1>4, <1>5, <1>6, <1>7 DEF TerminalInv

(* A message that a flush prints is marked by it. *)
LEMMA FlushMarks ==
  ASSUME Tables, Flush
  PROVE  Tables' /\ Forward /\ \A id \in Badged : ~Unread(id)'
<1> DEFINE seen == [room \in RoomSet |-> AllRoomsUnread \cap To(room)]
<1>1. PendingInbox \in SUBSET DOMAIN log /\ AllRoomsUnread \subseteq DOMAIN log
  BY BadgedIs DEF Badged
<1>2. seen \in [RoomSet -> SUBSET DOMAIN log]
  BY <1>1
<1>3. /\ read' = read \cup PendingInbox /\ log' = log /\ gone' = gone /\ joined' = joined
      /\ mark' = [room \in RoomSet |-> Max({mark[room]} \cup seen[room])]
  BY DEF Flush
<1> HIDE DEF seen
<1>4. /\ Tables' /\ Forward
      /\ \A room \in RoomSet : \A id \in seen[room] : id <= mark'[room]
  BY <1>1, <1>2, <1>3, MarkingKeeps
<1>5. ASSUME NEW id \in PendingInbox PROVE ~Unread(id)'
  <2>1. log[id].to = Me /\ Me \notin joined
    BY BadgedIs, NamesAssumption DEF Tables, RoomSet
  <2>2. QED
    BY <1>3, <2>1 DEF Unread
<1>6. ASSUME NEW id \in AllRoomsUnread PROVE ~Unread(id)'
  <2>1. log[id].to \in RoomSet /\ log[id].to # Me /\ id \in Live
    BY BadgedIs DEF Tables, AllRoomsUnread, InRooms, RoomUnread, To
  <2>2. id \in seen[log[id].to]
    BY <2>1 DEF seen, To
  <2>3. id <= mark'[log[id].to] /\ id \in Nat /\ mark'[log[id].to] \in Nat
    BY <1>1, <1>4, <2>1, <2>2, LogIds DEF Tables
  <2>4. ~(id > mark'[log[id].to])
    BY <2>3
  <2>5. QED
    BY <1>3, <2>1, <2>4 DEF Unread
<1>7. QED
  BY <1>4, <1>5, <1>6 DEF Badged

(* The line client prints what is unread. *)
LEMMA Flushed ==
  ASSUME TerminalInv, Flush, ui' = "repl", ui # "ink", bell' = FALSE,
         UNCHANGED <<view, due, toRing>>
  PROVE  TerminalInv'
<1>1. Tables' /\ Forward /\ \A id \in Badged : ~Unread(id)'
  BY FlushMarks DEF TerminalInv
<1>2. /\ log' = log /\ screen' = [screen EXCEPT !.rows = @ \cup Badged, !.badged = Badged]
  BY DEF Flush
<1>3. Badged \subseteq DOMAIN log
  BY BadgedIs DEF TerminalInv
<1>4. screen \in [rows: SUBSET DOMAIN log, lane: SUBSET DOMAIN log, badged: SUBSET DOMAIN log]
  BY DEF TerminalInv, Client
<1>5. screen'.rows = screen.rows \cup Badged /\ screen'.badged = Badged
      /\ screen' \in [rows: SUBSET DOMAIN log, lane: SUBSET DOMAIN log, badged: SUBSET DOMAIN log]
  BY <1>2, <1>3, <1>4
<1>6. due = Ran
  BY DEF TerminalInv, Client
<1>7. Client'
  BY <1>2, <1>5, <1>6 DEF TerminalInv, Client
<1>8. Awaits'
  BY <1>6 DEF Awaits
<1>9. Printed'
  <2>1. SUFFICES ASSUME NEW id \in screen.rows PROVE ~Unread(id)'
    BY <1>1, <1>5 DEF Printed
  <2>2. id \in DOMAIN log /\ ~Unread(id)
    <3>1. ui = "repl" \/ screen = NoScreen
      BY DEF TerminalInv, Client
    <3>2. screen # NoScreen
      BY <2>1 DEF NoScreen
    <3>3. QED
      BY <1>4, <2>1, <3>1, <3>2 DEF TerminalInv, Printed
  <2>3. QED
    BY <1>1, <2>2, StaysRead DEF TerminalInv
<1>10. Rung'
  <2>1. SUFFICES ASSUME NEW id \in DOMAIN log', Unread(id)' PROVE PageIsFull(IsDm(id))'
    BY DEF Rung
  <2>2. Unread(id) /\ id \notin Badged
    BY <1>1, <1>2, <2>1, StaysRead DEF TerminalInv
  <2>3. Cardinality({j \in Badged : IsDm(j) = IsDm(id)}) = Cap
    BY <2>2, BadgedIs DEF TerminalInv
  <2>4. \A j : IsDm(j)' = IsDm(j)
    BY <1>2 DEF IsDm
  <2>5. QED
    BY <1>5, <2>3, <2>4 DEF PageIsFull
<1>11. QED
  BY <1>1, <1>7, <1>8, <1>9, <1>10 DEF TerminalInv

-----------------------------------------------------------------------------
(* Every step keeps the invariant.                                         *)

LEMMA SentIs ==
  ASSUME NEW message \in Sent
  PROVE  /\ message \in MessageRow /\ message.to # message.from
         /\ message.from \in Peers => message.to \in RoomSet \cup {Me}
         /\ message.from = Me => message.to \in RoomSet \cup Peers
<1>1. \/ message \in [from: Peers, to: RoomSet \cup {Me}, alert: BOOLEAN]
      \/ message \in [from: {Me}, to: RoomSet \cup Peers, alert: BOOLEAN]
  BY SentAssumption DEF RoomSet
<1>2. QED
  BY <1>1, NamesAssumption DEF MessageRow, RoomSet

(* A step that draws nothing and adds nothing unread. *)
LEMMA Quietly ==
  ASSUME TerminalInv, Tables', Forward, NothingNew, UNCHANGED <<ui, screen, toRing>>,
         view' \in Views, bell' \in BOOLEAN, bell => bell',
         ui = "none" => due' = Ran,
         \/ due' = Ran
         \/ /\ due' = due /\ view' = view
            /\ \E v \in Views : gone' \in {gone, gone \cup Conversation(v)}
  PROVE  TerminalInv'
<1>1. toRing' \subseteq DOMAIN log'
  BY DEF TerminalInv, Client, Forward
<1>2. \A id \in DOMAIN log' \ toRing' : Unread(id)' => id \in DOMAIN log \ toRing
  BY DEF NothingNew
<1>3. QED
  BY <1>1, <1>2, Undrawn

LEMMA PostStep ==
  ASSUME TerminalInv, NEW message \in Sent, Post(message)
  PROVE  TerminalInv'
<1>1. /\ MayPost /\ Insert(message) /\ toRing' = toRing \cup {NextId}
      /\ gone' = gone /\ UNCHANGED <<gone, read, joined, mark>>
      /\ UNCHANGED <<ui, screen>> /\ view' = view /\ due' = due /\ bell' = bell
  BY DEF Post, client
<1>2. Tables' /\ Forward
  BY <1>1, SentIs, PostKeeps DEF TerminalInv
<1>3. DOMAIN log' = DOMAIN log \cup {NextId}
  BY <1>1, SentIs, Inserted DEF TerminalInv
<1>4. toRing' \subseteq DOMAIN log' /\ DOMAIN log' \ toRing' \subseteq DOMAIN log \ toRing
  BY <1>1, <1>3 DEF TerminalInv, Client
<1>5. view \in Views /\ bell \in BOOLEAN /\ (ui = "none" => due = Ran)
  BY DEF TerminalInv, Client
<1>6. \E v \in Views : gone' \in {gone, gone \cup Conversation(v)}
  BY <1>1, <1>5
<1>7. QED
  BY <1>1, <1>2, <1>4, <1>5, <1>6, Undrawn

LEMMA RingStep ==
  ASSUME TerminalInv, NEW id \in toRing, Ring(id)
  PROVE  TerminalInv'
<1>1. /\ toRing' = toRing \ {id} /\ bell' = (bell \/ log[id].to \in joined \cup {Me})
      /\ UNCHANGED tables /\ UNCHANGED <<ui, screen>> /\ view' = view /\ due' = due
      /\ log' = log /\ gone' = gone /\ joined' = joined
  BY DEF Ring, client, tables
<1>2. Tables' /\ Forward
  BY <1>1, SameTables DEF TerminalInv
<1>3. toRing' \subseteq DOMAIN log' /\ view \in Views /\ (ui = "none" => due = Ran)
  BY <1>1 DEF TerminalInv, Client
<1>4. bell' \in BOOLEAN /\ (bell => bell')
  BY <1>1 DEF TerminalInv, Client
<1>5. ~bell' => ~Unread(id)'
  BY <1>1 DEF Unread
<1>6. ~bell' => \A i \in DOMAIN log' \ toRing' : Unread(i)' => i \in DOMAIN log \ toRing
  BY <1>1, <1>5
<1>7. \E v \in Views : gone' \in {gone, gone \cup Conversation(v)}
  BY <1>1, <1>3
<1>8. QED
  BY <1>1, <1>2, <1>3, <1>4, <1>6, <1>7, Undrawn

LEMMA InvitedStep ==
  ASSUME TerminalInv, NEW room \in RoomSet, Invited(room)
  PROVE  TerminalInv'
<1>1. /\ Enter(room) /\ toRing' = toRing \cup {NextId} /\ UNCHANGED <<gone, read>>
      /\ gone' = gone /\ UNCHANGED <<ui, screen>> /\ view' = view /\ due' = due /\ bell' = bell
      /\ MayPost /\ Insert(Message(System, room, FALSE))
  BY DEF Invited, client, Enter
<1>2. Tables' /\ Forward /\ NothingNew
  BY <1>1, EnterKeeps DEF TerminalInv
<1>3. Message(System, room, FALSE) \in MessageRow
  BY DEF Message, MessageRow
<1>4. DOMAIN log' = DOMAIN log \cup {NextId}
  BY <1>1, <1>3, Inserted DEF TerminalInv
<1>5. toRing' \subseteq DOMAIN log' /\ DOMAIN log' \ toRing' \subseteq DOMAIN log \ toRing
  BY <1>1, <1>4 DEF TerminalInv, Client
<1>6. view \in Views /\ bell \in BOOLEAN /\ (ui = "none" => due = Ran)
  BY DEF TerminalInv, Client
<1>7. \E v \in Views : gone' \in {gone, gone \cup Conversation(v)}
  BY <1>1, <1>6
<1>8. QED
  BY <1>1, <1>2, <1>5, <1>6, <1>7, Undrawn

LEMMA OthersKeep ==
  ASSUME TerminalInv, Others
  PROVE  TerminalInv'
<1>1. view \in Views /\ (ui = "none" => due = Ran) /\ bell \in BOOLEAN
  BY DEF TerminalInv, Client
<1>2. ASSUME Tables' /\ Forward /\ NothingNew, MayRing,
             \E v \in Views : gone' \in {gone, gone \cup Conversation(v)}
      PROVE  TerminalInv'
  <2>1. /\ bell' \in {bell, TRUE} /\ UNCHANGED <<ui, screen, toRing>>
        /\ view' = view /\ due' = due
    BY <1>2 DEF MayRing, client
  <2>2. QED
    BY <1>1, <1>2, <2>1, Quietly
<1>3. ASSUME NEW room \in RoomSet, Booted(room) PROVE TerminalInv'
  <2>1. Exit(room) /\ MayRing /\ gone' = gone
    BY <1>3 DEF Booted, Exit
  <2>2. QED
    BY <1>1, <1>2, <2>1, ExitKeeps DEF TerminalInv
<1>4. ASSUME NEW room \in RoomSet, Deleted(room) PROVE TerminalInv'
  <2>1. Drop(room) /\ MayRing /\ gone' = gone \cup To(room)
    BY <1>4 DEF Deleted, Drop
  <2>2. RoomView(room) \in Views /\ Conversation(RoomView(room)) = To(room)
    BY RoomIsView
  <2>3. QED
    BY <1>2, <2>1, <2>2, DropKeeps DEF TerminalInv
<1>5. ASSUME NEW v \in Views, Wiped(v) PROVE TerminalInv'
  <2>1. Wipe(v) /\ MayRing /\ gone' = gone \cup Conversation(v)
    BY <1>5 DEF Wiped, Wipe
  <2>2. QED
    BY <1>2, <2>1, WipeKeeps DEF TerminalInv
<1>6. QED
  BY <1>3, <1>4, <1>5, PostStep, RingStep, InvitedStep DEF Others

LEMMA LineKeeps ==
  ASSUME TerminalInv, LineClient
  PROVE  TerminalInv'
<1>1. ASSUME NEW v \in Views, Line(v), Tables' /\ Forward /\ NothingNew
      PROVE  TerminalInv'
  <2>1. /\ ui = "repl" /\ view' = v /\ toRing' = toRing /\ bell' = bell
        /\ UNCHANGED <<ui, screen, toRing>> /\ due' = due
    BY <1>1 DEF Line, Quiet
  <2>2. due' = Ran /\ bell \in BOOLEAN
    BY <2>1 DEF TerminalInv, Client
  <2>3. QED
    BY <1>1, <2>1, <2>2, Quietly
<1>2. view \in Views /\ Home \in Views
  BY DEF TerminalInv, Client, Views
<1>3. view.at = "room" => view.of \in RoomSet
  BY <1>2 DEF Views, Home
<1>4. view.at # "home" => view.of \in RoomSet \cup Peers
  BY <1>2 DEF Views, Home
<1>5. \A room \in RoomSet : [at |-> "room", of |-> room] \in Views
  BY RoomIsView DEF RoomView
<1>6. ASSUME NEW v \in Views, LineLook(v) PROVE TerminalInv'
  BY <1>1, <1>6, SameTables DEF LineLook, TerminalInv
<1>7. ASSUME NEW room \in RoomSet, LineJoin(room) PROVE TerminalInv'
  BY <1>1, <1>5, <1>7, EnterKeeps DEF LineJoin, TerminalInv
<1>8. CASE LineLeave
  BY <1>1, <1>2, <1>3, <1>8, ExitKeeps DEF LineLeave, TerminalInv
<1>9. ASSUME NEW room \in RoomSet, LineDelete(room) PROVE TerminalInv'
  BY <1>1, <1>2, <1>9, DropKeeps DEF LineDelete, TerminalInv
<1>10. CASE LineText
  <2> DEFINE message == Message(Me, view.of, FALSE)
  <2>1. /\ MayPost /\ view.at # "home" /\ Line(view) /\ Insert(message)
        /\ UNCHANGED <<gone, read, joined>>
        /\ IF view.at = "room" THEN Advance(view.of, NextId) ELSE UNCHANGED mark
    BY <1>10 DEF LineText
  <2>2. message \in MessageRow /\ message.to = view.of
    BY <1>4, <2>1 DEF Message, MessageRow
  <2>3. \/ message.to \in RoomSet /\ Advance(message.to, NextId)
        \/ message.to \in Peers /\ UNCHANGED mark
    <3>1. view.at # "room" => view.of \in Peers
      BY <1>2, <2>1 DEF Views, Home
    <3>2. QED
      BY <1>3, <2>1, <2>2, <3>1
  <2> HIDE DEF message
  <2>4. QED
    BY <1>1, <1>2, <2>1, <2>2, <2>3, OwnPostKeeps DEF TerminalInv
<1>11. CASE LineBoot
  <2> DEFINE message == Message(System, view.of, FALSE)
  <2>1. /\ MayPost /\ view.at = "room" /\ Line(view) /\ Insert(message)
        /\ UNCHANGED <<gone, read, joined>> /\ Advance(view.of, NextId)
    BY <1>11 DEF LineBoot
  <2>2. message \in MessageRow /\ message.to = view.of /\ view.of \in RoomSet
    BY <1>3, <2>1 DEF Message, MessageRow
  <2> HIDE DEF message
  <2>3. QED
    BY <1>1, <1>2, <2>1, <2>2, OwnPostKeeps DEF TerminalInv
<1>12. QED
  BY <1>6, <1>7, <1>8, <1>9, <1>10, <1>11 DEF LineClient

LEMMA AckMarks ==
  ASSUME TerminalInv, Ack
  PROVE  Tables' /\ Forward
<1> DEFINE dms == {id \in screen.lane \cap Live : log[id].to = Me}
           seen == [room \in RoomSet |-> {id \in screen.lane : log[id].to = room}]
<1>1. screen.lane \subseteq DOMAIN log
  BY DEF TerminalInv, Client
<1>2. dms \in SUBSET DOMAIN log /\ seen \in [RoomSet -> SUBSET DOMAIN log]
  BY <1>1
<1>3. /\ UNCHANGED <<log, gone, joined>> /\ read' = read \cup dms
      /\ mark' = [room \in RoomSet |-> Max({mark[room]} \cup seen[room])]
  BY DEF Ack
<1> HIDE DEF dms, seen
<1>4. QED
  BY <1>2, <1>3, MarkingKeeps DEF TerminalInv

LEMMA EffectMarks ==
  ASSUME TerminalInv, Effect
  PROVE  /\ Tables' /\ Forward /\ NothingNew
         /\ \A room \in RoomSet :
              mark'[room] \in {mark[room]} \cup (SeenInRoom \cap To(room))
<1> DEFINE seen == [room \in RoomSet |-> SeenInRoom \cap To(room)]
<1>1. Seen \in SUBSET DOMAIN log /\ SeenInRoom \subseteq DOMAIN log
  BY BadgedIs DEF TerminalInv, Seen, SeenInRoom, Badged
<1>2. seen \in [RoomSet -> SUBSET DOMAIN log]
  BY <1>1
<1>3. /\ UNCHANGED <<log, gone, joined>> /\ read' = read \cup Seen
      /\ mark' = [room \in RoomSet |-> Max({mark[room]} \cup seen[room])]
  BY DEF Effect
<1> HIDE DEF seen
<1>4. /\ Tables' /\ Forward /\ NothingNew
      /\ \A room \in RoomSet : mark'[room] \in {mark[room]} \cup seen[room]
  BY <1>1, <1>2, <1>3, MarkingKeeps DEF TerminalInv
<1>5. QED
  BY <1>4 DEF seen

LEMMA SendKeeps ==
  ASSUME TerminalInv, NEW message \in Sent, SendTo(message)
  PROVE  Tables' /\ Forward
<1>1. /\ MayPost /\ Insert(message) /\ UNCHANGED <<gone, read, joined>> /\ message.from = Me
      /\ IF message.to \in RoomSet THEN Advance(message.to, NextId) ELSE UNCHANGED mark
  BY DEF SendTo
<1>2. message \in MessageRow /\ message.to \in RoomSet \cup Peers
  BY <1>1, SentIs
<1>3. QED
  BY <1>1, <1>2, OwnPostKeeps DEF TerminalInv

LEMMA ConsoleKeeps ==
  ASSUME TerminalInv, Console
  PROVE  TerminalInv'
<1>1. ASSUME NEW v \in Views, NEW tick \in BOOLEAN, Event(v, tick), Tables', Forward, Quiet,
             tick \/ UNCHANGED tables
      PROVE  TerminalInv'
  <2>1. /\ ui = "ink" /\ ui' = "ink" /\ Render(v, tick) /\ toRing' = toRing /\ bell' = bell
        /\ UNCHANGED <<toRing, bell>>
    BY <1>1 DEF Event, Quiet
  <2>2. toRing' \subseteq DOMAIN log' /\ bell' \in BOOLEAN
    BY <1>1, <2>1 DEF TerminalInv, Client, Forward
  <2>3. QED
    BY <1>1, <2>1, <2>2, Drawn DEF tables
<1>2. ASSUME NEW v \in Views, Command(v), Tables', Forward PROVE TerminalInv'
  BY <1>1, <1>2 DEF Command
<1>3. ASSUME NEW v \in Views, Look(v) PROVE TerminalInv'
  BY <1>1, <1>3, SameTables DEF Look, TerminalInv
<1>4. view \in Views /\ Home \in Views /\ \A room \in RoomSet : RoomView(room) \in Views
  BY RoomIsView DEF TerminalInv, Client, Views
<1>5. CASE Close
  BY <1>3, <1>4, <1>5 DEF Close
<1>6. ASSUME NEW peer \in Peers, OpenDm(peer) PROVE TerminalInv'
  <2>1. [at |-> "dm", of |-> peer] \in Views
    BY DEF Views
  <2>2. QED
    BY <1>3, <1>6, <2>1 DEF OpenDm
<1>7. ASSUME NEW room \in RoomSet, OpenRoom(room) PROVE TerminalInv'
  BY <1>3, <1>4, <1>7 DEF OpenRoom
<1>8. ASSUME NEW room \in RoomSet, Join(room) PROVE TerminalInv'
  BY <1>2, <1>4, <1>8, EnterKeeps DEF Join, TerminalInv
<1>9. ASSUME NEW room \in RoomSet, Delete(room) PROVE TerminalInv'
  BY <1>2, <1>4, <1>9, DropKeeps DEF Delete, TerminalInv
<1>10. ASSUME NEW room \in RoomSet, Invite(room) PROVE TerminalInv'
  <2>1. Message(System, room, FALSE) \in MessageRow
    BY DEF Message, MessageRow
  <2>2. QED
    BY <1>2, <1>4, <1>10, <2>1, PostKeeps DEF Invite, TerminalInv
<1>11. ASSUME NEW room \in RoomSet, NEW online \in SUBSET Peers, AllHands(room, online)
       PROVE  TerminalInv'
  <2>1. Tables' /\ Forward /\ NothingNew
    BY <1>11, AllHandsKeeps DEF TerminalInv
  <2>2. CASE online = {}
    <3>1. /\ due = Ran /\ UNCHANGED <<ui, screen, toRing>> /\ view' = view /\ due' = due
          /\ bell' = bell
      BY <1>11, <2>2 DEF AllHands, Quiet, client
    <3>2. bell \in BOOLEAN
      BY DEF TerminalInv, Client
    <3>3. QED
      BY <1>4, <2>1, <3>1, <3>2, Quietly
  <2>3. CASE online # {}
    BY <1>2, <1>4, <1>11, <2>1, <2>3 DEF AllHands
  <2>4. QED
    BY <2>2, <2>3
<1>12. ASSUME NEW message \in Sent, SendTo(message) PROVE TerminalInv'
  BY <1>2, <1>4, <1>12, SendKeeps DEF SendTo
<1>13. ASSUME NEW message \in Sent, SendCurrent(message) \/ SendElsewhere(message)
       PROVE  TerminalInv'
  BY <1>12, <1>13 DEF SendCurrent, SendElsewhere
<1>14. CASE Leave
  <2>1. view.of \in RoomSet
    BY <1>4, <1>14 DEF Leave, Views, Home
  <2>2. QED
    BY <1>2, <1>4, <1>14, <2>1, ExitKeeps DEF Leave, TerminalInv
<1>15. CASE Ack
  BY <1>2, <1>4, <1>15, AckMarks DEF Ack
<1>16. CASE Clear
  BY <1>2, <1>4, <1>16, WipeKeeps DEF Clear, TerminalInv
<1>17. CASE Bump
  BY <1>2, <1>4, <1>17, SameTables DEF Bump, TerminalInv
<1>18. CASE Effect
  <2>1. Tables' /\ Forward /\ NothingNew
    BY <1>18, EffectMarks
  <2>2. /\ due' = Ran /\ UNCHANGED <<ui, screen, toRing>> /\ view' = view /\ bell' = bell
    BY <1>18 DEF Effect, Quiet
  <2>3. bell \in BOOLEAN
    BY DEF TerminalInv, Client
  <2>4. QED
    BY <1>4, <2>1, <2>2, <2>3, Quietly
<1>19. QED
  BY <1>5, <1>6, <1>7, <1>8, <1>9, <1>10, <1>11, <1>13, <1>14, <1>15, <1>16, <1>17, <1>18
     DEF Console

LEMMA InitTerminal == Init => TerminalInv
<1> SUFFICES ASSUME Init PROVE TerminalInv
  OBVIOUS
<1>1. /\ log = << >> /\ gone = {} /\ read = {} /\ joined \subseteq RoomSet
      /\ mark = [room \in RoomSet |-> 0] /\ toRing = {} /\ bell = FALSE
      /\ ui = "none" /\ view = Home /\ screen = NoScreen /\ due = Ran
  BY DEF Init
<1>2. log \in Seq(MessageRow) /\ Len(log) = 0 /\ DOMAIN log = {}
  BY <1>1, EmptySeq
<1>3. Tables
  BY <1>1, <1>2, Bounds DEF Tables
<1>4. Client
  BY <1>1 DEF Client, NoScreen, Views
<1>5. QED
  BY <1>1, <1>3, <1>4 DEF TerminalInv, Awaits, Printed, Rung

LEMMA NextTerminal == TerminalInv /\ [Next]_vars => TerminalInv'
<1> SUFFICES ASSUME TerminalInv, [Next]_vars PROVE TerminalInv'
  OBVIOUS
<1>1. view \in Views /\ Home \in Views /\ bell \in BOOLEAN /\ toRing \subseteq DOMAIN log
      /\ (ui = "none" => due = Ran)
  BY DEF TerminalInv, Client, Views
<1>2. CASE StartConsole
  <2>1. /\ ui' = "ink" /\ bell' = FALSE /\ UNCHANGED tables /\ toRing' = toRing
        /\ Render(Home, TRUE) /\ log' = log
    BY <1>2 DEF StartConsole, tables
  <2>2. Tables' /\ Forward
    BY <2>1, SameTables DEF TerminalInv
  <2>3. QED
    BY <1>1, <2>1, <2>2, Drawn
<1>3. CASE StartLine
  BY <1>3, Flushed DEF StartLine
<1>4. CASE Poll
  <2>1. CASE UNCHANGED tables /\ Event(view, TRUE)
    <3>1. /\ ui' = "ink" /\ bell' = FALSE /\ toRing' = toRing /\ Render(view, TRUE) /\ log' = log
      BY <1>4, <2>1 DEF Poll, Event, tables
    <3>2. Tables' /\ Forward
      BY <2>1, SameTables DEF TerminalInv
    <3>3. QED
      BY <1>1, <3>1, <3>2, Drawn
  <2>2. CASE ui = "repl" /\ Flush /\ UNCHANGED <<ui, view, due>>
    BY <1>4, <2>2, Flushed DEF Poll
  <2>3. QED
    BY <1>4, <2>1, <2>2 DEF Poll
<1>5. CASE Quit
  <2>1. /\ ui' = "none" /\ view' = Home /\ screen' = NoScreen /\ due' = Ran
        /\ toRing' = toRing /\ bell' = bell /\ UNCHANGED tables /\ log' = log
    BY <1>5 DEF Quit, Quiet, tables
  <2>2. Tables'
    BY <2>1, SameTables DEF TerminalInv
  <2>3. Client'
    BY <1>1, <2>1 DEF Client, NoScreen
  <2>4. QED
    BY <2>1, <2>2, <2>3 DEF TerminalInv, Awaits, Printed, Rung
<1>6. CASE UNCHANGED vars
  <2>1. UNCHANGED tables /\ UNCHANGED <<ui, screen, toRing>> /\ view' = view /\ due' = due
        /\ bell' = bell /\ gone' = gone
    BY <1>6 DEF vars, tables, client
  <2>2. Tables' /\ Forward /\ NothingNew
    BY <2>1, SameTables DEF TerminalInv
  <2>3. \E v \in Views : gone' \in {gone, gone \cup Conversation(v)}
    BY <1>1, <2>1
  <2>4. QED
    BY <1>1, <2>1, <2>2, <2>3, Quietly
<1>7. QED
  BY <1>2, <1>3, <1>4, <1>5, <1>6, OthersKeep, LineKeeps, ConsoleKeeps DEF Next

LEMMA TerminalInductive == Spec => []TerminalInv
BY InitTerminal, NextTerminal, PTL DEF Spec

-----------------------------------------------------------------------------
(* The theorems.                                                           *)

(* The rows of the tables, the two pages of the sidebar and what is drawn  *)
(* stay of their types, the marks and the ids within the log.              *)
THEOREM TerminalTyped == Spec => []TypeOK
<1>1. ASSUME TerminalInv PROVE TypeOK
  <2>1. DOMAIN log \subseteq Ids
    <3> DEFINE n == Len(log)
    <3>1. n \in Nat /\ n <= MaxLog /\ DOMAIN log = 1..n
      BY <1>1, LogIds DEF TerminalInv, Tables
    <3> HIDE DEF n
    <3>2. 1..n \subseteq 1..MaxLog
      BY <3>1, Bounds
    <3>3. QED
      BY <3>1, <3>2 DEF Ids
  <2>2. mark \in [RoomSet -> 0..MaxLog]
    <3>1. ASSUME NEW room \in RoomSet PROVE mark[room] \in 0..MaxLog
      <4> DEFINE n == Len(log)
                 m == mark[room]
      <4>1. n \in Nat /\ n <= MaxLog /\ m \in Nat /\ m <= n
        BY <1>1, LogIds DEF TerminalInv, Tables
      <4> HIDE DEF n, m
      <4>2. m \in 0..MaxLog
        BY <4>1, Bounds
      <4>3. QED
        BY <4>2 DEF m
    <3>2. QED
      BY <1>1, <3>1 DEF TerminalInv, Tables
  <2>3. due \in {Ran} \cup 0..MaxLog
    <3>1. SUFFICES ASSUME due # Ran PROVE due \in 0..MaxLog
      OBVIOUS
    <3> DEFINE n == Len(log)
    <3>2. n \in Nat /\ n <= MaxLog /\ due \in Nat /\ due <= n
      BY <1>1, <3>1, LogIds DEF TerminalInv, Tables, Client
    <3> HIDE DEF n
    <3>3. QED
      BY <3>2, Bounds
  <2>4. screen \in [rows: SUBSET Ids, lane: SUBSET Ids, badged: SUBSET Ids]
    BY <1>1, <2>1 DEF TerminalInv, Client
  <2>5. QED
    BY <1>1, <2>2, <2>3, <2>4 DEF TerminalInv, Tables, Client, TypeOK, MessageRow
<1>2. QED
  BY <1>1, TerminalInductive, PTL

(* Whoever writes, rings, dies before the ring, empties or deletes, and    *)
(* whatever the user opens in between: once the doorbell was polled, an    *)
(* unread message that was rung is on the screen of the client that runs   *)
(* or counted by a badge, or the page of its kind was full                 *)
(* (App.tsx:78-85, 229-243, cli/index.ts:98-99).                           *)
THEOREM RungIsSeen == Spec => []RungIsOnScreen
<1>1. ASSUME TerminalInv PROVE RungIsOnScreen
  <2>1. Badged \subseteq {id \in DOMAIN log : Unread(id)}
    BY <1>1, BadgedIs DEF TerminalInv
  <2>2. QED
    BY <1>1, <2>1 DEF TerminalInv, Rung, RungIsOnScreen, Badged
<1>2. QED
  BY <1>1, TerminalInductive, PTL

(* The line client never prints a message a second time, also after a boot *)
(* and an invitation took its mark away and set it again, or a room was    *)
(* emptied (cli/index.ts:68-96).                                           *)
THEOREM NeverTwice == Spec => PrintsOnce
<1>1. ASSUME TerminalInv
      PROVE  [ui = "repl" /\ bell /\ ~bell' => Badged \cap screen.rows = {}]_vars
  <2>1. Badged \subseteq {id \in DOMAIN log : Unread(id)}
    BY <1>1, BadgedIs DEF TerminalInv
  <2>2. QED
    BY <1>1, <2>1 DEF TerminalInv, Printed
<1>2. QED
  BY <1>1, TerminalInductive, PTL DEF PrintsOnce

-----------------------------------------------------------------------------
(* What a step consumes is on the screen, or excused.                      *)

Excused(id) ==
  \/ id \in screen.rows \cup screen.lane \cup screen'.rows
  \/ due # Ran /\ id > due
  \/ BeyondThePage(id) \/ PassedByOwnPost(id) \/ PassedByAlert(id)

LEMMA ConsumedIs ==
  ASSUME TerminalInv, Tables', Forward, NEW id \in Consumed
  PROVE  /\ id \in Live /\ id \in Nat /\ id > 0
         /\ \/ log[id].to = Me /\ id \notin read /\ id \in read'
            \/ /\ log[id].to \in joined /\ log[id].to \in joined' /\ log[id].to \in RoomSet
               /\ log[id].from # Me /\ id \in InRooms
               /\ mark[log[id].to] \in Nat /\ mark'[log[id].to] \in Nat
               /\ id > mark[log[id].to] /\ id <= mark'[log[id].to]
<1>1. /\ id \in Live /\ Unread(id) /\ ~Unread(id)' /\ id \notin gone'
      /\ log[id].to \in RoomSet => log[id].to \in joined'
  BY DEF Consumed
<1>2. id \in DOMAIN log /\ id \in Nat /\ id > 0
  BY <1>1, LogIds DEF TerminalInv, Live
<1>3. id \in Live' /\ log'[id] = log[id]
  BY <1>1, <1>2 DEF Forward, Live
<1>4. CASE log[id].to = Me /\ id \notin read
  BY <1>1, <1>2, <1>3, <1>4 DEF Unread
<1>5. CASE log[id].to \in joined /\ log[id].from # Me /\ id > mark[log[id].to]
  <2>1. log[id].to \in RoomSet /\ log[id].to \in joined' /\ id \in InRooms
    BY <1>1, <1>5, InRoomsIs DEF TerminalInv, Tables
  <2>2. mark[log[id].to] \in Nat /\ mark'[log[id].to] \in Nat
    BY <2>1 DEF TerminalInv, Tables
  <2>3. ~(id > mark'[log[id].to])
    BY <1>1, <1>3, <1>5, <2>1 DEF Unread
  <2>4. id <= mark'[log[id].to]
    BY <1>2, <2>2, <2>3
  <2>5. QED
    BY <1>1, <1>2, <1>5, <2>1, <2>2, <2>4
<1>6. QED
  BY <1>1, <1>4, <1>5 DEF Unread

(* A step that marks nothing in a room it does not leave. *)
LEMMA NothingMarked ==
  ASSUME TerminalInv, Tables', Forward, read' = read,
         \A room \in joined \cap joined' : mark'[room] \in {0, mark[room]}
  PROVE  Consumed = {}
<1>1. SUFFICES ASSUME NEW id \in Consumed PROVE FALSE
  OBVIOUS
<1> DEFINE m == mark[log[id].to]
           n == mark'[log[id].to]
<1>2. /\ id \in Nat /\ id > 0 /\ m \in Nat /\ n \in Nat /\ id > m /\ id <= n
      /\ log[id].to \in joined \cap joined'
  BY ConsumedIs
<1>3. n \in {0, m}
  BY <1>2
<1> HIDE DEF m, n
<1>4. QED
  BY <1>2, <1>3

LEMMA SameMarked ==
  ASSUME TerminalInv, UNCHANGED tables
  PROVE  Consumed = {}
BY SameTables, NothingMarked DEF tables, TerminalInv

LEMMA EnterMarks ==
  ASSUME TerminalInv, NEW room \in RoomSet, Enter(room), UNCHANGED <<gone, read>>
  PROVE  Consumed = {}
<1>1. Tables' /\ Forward
  BY EnterKeeps DEF TerminalInv
<1>2. \A r \in joined \cap joined' : mark'[r] = mark[r]
  BY DEF Enter, TerminalInv, Tables
<1>3. QED
  BY <1>1, <1>2, NothingMarked

LEMMA ExitMarks ==
  ASSUME TerminalInv, NEW room \in RoomSet, Exit(room)
  PROVE  Consumed = {}
<1>1. Tables' /\ Forward
  BY ExitKeeps DEF TerminalInv
<1>2. \A r \in joined \cap joined' : mark'[r] \in {0, mark[r]}
  BY DEF Exit, TerminalInv, Tables
<1>3. QED
  BY <1>1, <1>2, NothingMarked DEF Exit

LEMMA DropMarks ==
  ASSUME TerminalInv, NEW room \in RoomSet, Drop(room)
  PROVE  Consumed = {}
<1>1. Tables' /\ Forward
  BY DropKeeps DEF TerminalInv
<1>2. \A r \in joined \cap joined' : mark'[r] \in {0, mark[r]}
  BY DEF Drop, TerminalInv, Tables
<1>3. QED
  BY <1>1, <1>2, NothingMarked DEF Drop

LEMMA WipeMarks ==
  ASSUME TerminalInv, NEW v \in Views, Wipe(v)
  PROVE  Consumed = {}
<1>1. Tables' /\ Forward
  BY WipeKeeps DEF TerminalInv
<1>2. \A r \in joined \cap joined' : mark'[r] \in {0, mark[r]}
  BY DEF Wipe, TerminalInv, Tables
<1>3. QED
  BY <1>1, <1>2, NothingMarked DEF Wipe

LEMMA AllHandsMarks ==
  ASSUME TerminalInv, NEW room \in RoomSet, NEW online \in SUBSET Peers, AllHands(room, online)
  PROVE  Consumed = {}
<1>1. Tables' /\ Forward
  BY AllHandsKeeps DEF TerminalInv
<1>2. /\ read' = read
      /\ \/ mark' = mark
         \/ room \notin joined /\ mark' = [mark EXCEPT ![room] = NextId]
  BY DEF AllHands
<1>3. \A r \in joined \cap joined' : mark'[r] = mark[r]
  BY <1>2 DEF TerminalInv, Tables
<1>4. QED
  BY <1>1, <1>2, <1>3, NothingMarked

(* The user's line passes the mark over what is unread in its room alone.  *)
LEMMA OwnPostMarks ==
  ASSUME TerminalInv, MayPost, NEW message \in MessageRow, Insert(message),
         UNCHANGED <<gone, read, joined>>,
         \/ message.to \in RoomSet /\ Advance(message.to, NextId)
         \/ message.to \in Peers /\ UNCHANGED mark,
         NEW id \in Consumed
  PROVE  PassedByOwnPost(id)
<1>1. Tables' /\ Forward
  BY OwnPostKeeps DEF TerminalInv
<1>2. CASE message.to \in Peers /\ UNCHANGED mark
  BY <1>1, <1>2, NothingMarked
<1>3. CASE message.to \in RoomSet /\ Advance(message.to, NextId)
  <2>1. mark' = [mark EXCEPT ![message.to] = NextId]
    BY <1>3, AdvanceIs DEF TerminalInv
  <2>2. log[id].to = message.to
    <3>1. SUFFICES ASSUME log[id].to # message.to PROVE FALSE
      OBVIOUS
    <3> DEFINE m == mark[log[id].to]
    <3>2. /\ id \in Nat /\ m \in Nat /\ id > m
          /\ id <= mark'[log[id].to] /\ log[id].to \in RoomSet
      BY <1>1, ConsumedIs
    <3>3. mark'[log[id].to] = m
      BY <2>1, <3>1, <3>2 DEF TerminalInv, Tables
    <3> HIDE DEF m
    <3>4. QED
      BY <3>2, <3>3
  <2>3. log'[Len(log')] = message /\ Len(log') > Len(log)
    <3>1. Len(log') = NextId /\ log'[NextId] = message /\ Len(log) \in Nat
      BY Inserted, LogIds DEF TerminalInv
    <3>2. QED
      BY <3>1 DEF NextId
  <2>4. QED
    BY <2>2, <2>3 DEF PassedByOwnPost
<1>4. QED
  BY <1>2, <1>3

LEMMA AckShows ==
  ASSUME TerminalInv, Ack, NEW id \in Consumed
  PROVE  Excused(id)
<1> DEFINE room == log[id].to
           seen == [r \in RoomSet |-> {i \in screen.lane : log[i].to = r}]
<1>1. Tables' /\ Forward
  BY AckMarks
<1>2. screen.lane \subseteq DOMAIN log
  BY DEF TerminalInv, Client
<1>3. CASE id \in read' /\ id \notin read
  BY <1>3 DEF Ack, Excused
<1>4. CASE room \in RoomSet /\ mark[room] \in Nat /\ id > mark[room] /\ id <= mark'[room]
  <2>1. mark'[room] \in {mark[room]} \cup seen[room]
    <3>1. /\ UNCHANGED <<log, gone, joined>>
          /\ mark' = [r \in RoomSet |-> Max({mark[r]} \cup seen[r])]
          /\ read' = read \cup {i \in screen.lane \cap Live : log[i].to = Me}
      BY DEF Ack
    <3>2. seen \in [RoomSet -> SUBSET DOMAIN log]
      BY <1>2
    <3>3. {i \in screen.lane \cap Live : log[i].to = Me} \in SUBSET DOMAIN log
      BY <1>2
    <3> HIDE DEF seen, room
    <3>4. QED
      BY <1>4, <3>1, <3>2, <3>3, MarkingKeeps DEF TerminalInv
  <2>2. id \in Nat /\ mark[room] \in Nat
    BY <1>1, <1>4, ConsumedIs
  <2>3. mark'[room] # mark[room]
    <3> DEFINE m == mark[room]
               n == mark'[room]
    <3>1. id \in Nat /\ m \in Nat /\ id > m /\ id <= n
      BY <1>4, <2>2
    <3> HIDE DEF m, n
    <3>2. n # m
      BY <3>1
    <3>3. QED
      BY <3>2 DEF m, n
  <2>4. PICK alert \in screen.lane : alert = mark'[room] /\ log[alert].to = room
    BY <1>4, <2>1, <2>3
  <2>5. alert \in Nat /\ id <= alert
    BY <1>2, <1>4, <2>4, LogIds DEF TerminalInv
  <2>6. id = alert \/ id < alert
    BY <2>2, <2>5
  <2>7. QED
    BY <2>4, <2>6 DEF Excused, PassedByAlert
<1>5. QED
  BY <1>1, <1>3, <1>4, ConsumedIs

(* What the effect marks is of the view, so it was drawn, came later, or   *)
(* is beyond the view's page.                                              *)
LEMMA EffectShows ==
  ASSUME TerminalInv, Effect, NEW id \in Consumed
  PROVE  Excused(id)
<1> DEFINE room == log[id].to
<1>1. Tables' /\ Forward /\ due # Ran /\ read' = read \cup Seen
      /\ \A r \in RoomSet : mark'[r] \in {mark[r]} \cup (SeenInRoom \cap To(r))
  BY EffectMarks DEF Effect
<1>2. due \in Nat /\ id \in Nat /\ id \in Live
  BY <1>1, ConsumedIs DEF TerminalInv, Client
<1>3. SUFFICES ASSUME id \in Conversation(view),
                      view = IF log[id].to = Me THEN [at |-> "dm", of |-> log[id].from]
                                                ELSE [at |-> "room", of |-> log[id].to]
               PROVE  Excused(id)
  <2>1. view \in Views
    BY DEF TerminalInv, Client
  <2>2. CASE log[id].to = Me /\ id \in Seen
    <3>1. view.at = "dm" /\ log[id].from = view.of
      BY <2>2 DEF Seen
    <3>2. view = [at |-> "dm", of |-> log[id].from]
      BY <2>1, <3>1 DEF Views, Home
    <3>3. id \in Conversation(view)
      BY <1>2, <2>2, <3>1 DEF Conversation, To
    <3>4. QED
      BY <1>3, <2>2, <3>2, <3>3
  <2>3. CASE room \in RoomSet /\ id \in InRooms /\ mark[room] \in Nat
             /\ id > mark[room] /\ id <= mark'[room]
    <3>1. mark'[room] # mark[room]
      <4> DEFINE m == mark[room]
                 n == mark'[room]
      <4>1. m \in Nat /\ id > m /\ id <= n
        BY <2>3
      <4> HIDE DEF m, n
      <4>2. n # m
        BY <1>2, <4>1
      <4>3. QED
        BY <4>2 DEF m, n
    <3>2. PICK j \in SeenInRoom \cap To(room) : id <= j
      BY <1>1, <2>3, <3>1
    <3>3. /\ j \in AllRoomsUnread /\ log[j].to = room
          /\ view.at = "room" /\ view.of = room
      BY DEF SeenInRoom, To
    <3>4. room # Me
      BY <2>3, NamesAssumption DEF RoomSet
    <3>5. view = [at |-> "room", of |-> room]
      BY <2>1, <3>3 DEF Views, Home
    <3>6. id \in Conversation(view)
      BY <1>2, <3>3 DEF Conversation, To
    <3>7. QED
      BY <1>3, <3>4, <3>5, <3>6
  <2>4. QED
    BY <1>1, <2>2, <2>3, ConsumedIs
<1>4. CASE id <= due
  <2>1. id \in screen.rows \/ id \notin Newest(Limit, Conversation(view))
    BY <1>1, <1>3, <1>4 DEF TerminalInv, Awaits
  <2>2. id \notin Newest(Limit, Conversation(view)) => BeyondThePage(id)
    BY <1>3 DEF BeyondThePage
  <2>3. QED
    BY <2>1, <2>2 DEF Excused
<1>5. CASE ~(id <= due)
  <2>1. id > due
    BY <1>2, <1>5
  <2>2. QED
    BY <1>1, <2>1 DEF Excused
<1>6. QED
  BY <1>4, <1>5

(* What a flush marks it prints: a page holds what is older in its room.   *)
LEMMA FlushShows ==
  ASSUME TerminalInv, Flush, NEW id \in Consumed
  PROVE  Excused(id)
<1> DEFINE room == log[id].to
           seen == [r \in RoomSet |-> AllRoomsUnread \cap To(r)]
<1>1. Tables' /\ Forward
  BY FlushMarks DEF TerminalInv
<1>2. SUFFICES ASSUME id \in Badged PROVE id \in screen'.rows
  <2>1. Badged \subseteq DOMAIN log
    BY BadgedIs DEF TerminalInv
  <2>2. CASE id \in read' /\ id \notin read
    BY <1>2, <2>2 DEF Flush, Badged, Excused
  <2>3. CASE room \in RoomSet /\ id \in InRooms /\ mark[room] \in Nat
             /\ id > mark[room] /\ id <= mark'[room]
    <3>1. mark'[room] \in {mark[room]} \cup seen[room]
      <4>1. /\ UNCHANGED <<log, gone, joined>> /\ read' = read \cup PendingInbox
            /\ mark' = [r \in RoomSet |-> Max({mark[r]} \cup seen[r])]
        BY DEF Flush
      <4>2. seen \in [RoomSet -> SUBSET DOMAIN log] /\ PendingInbox \in SUBSET DOMAIN log
        BY <2>1 DEF Badged
      <4> HIDE DEF seen, room
      <4>3. QED
        BY <2>3, <4>1, <4>2, MarkingKeeps DEF TerminalInv
    <3>2. id \in Nat
      BY <1>1, ConsumedIs
    <3>3. mark'[room] # mark[room]
      <4> DEFINE m == mark[room]
                 n == mark'[room]
      <4>1. m \in Nat /\ id > m /\ id <= n
        BY <2>3
      <4> HIDE DEF m, n
      <4>2. n # m
        BY <3>2, <4>1
      <4>3. QED
        BY <4>2 DEF m, n
    <3>4. PICK j \in AllRoomsUnread : log[j].to = room /\ id <= j
      BY <2>3, <3>1, <3>3 DEF To
    <3>5. id \in AllRoomsUnread
      BY <2>3, <3>4, RoomsPage DEF TerminalInv
    <3>6. QED
      BY <1>2, <3>5 DEF Badged, Excused
  <2>4. QED
    BY <1>1, <2>2, <2>3, ConsumedIs
<1>3. screen \in [rows: SUBSET DOMAIN log, lane: SUBSET DOMAIN log, badged: SUBSET DOMAIN log]
  BY DEF TerminalInv, Client
<1>4. screen' = [screen EXCEPT !.rows = @ \cup Badged, !.badged = Badged]
  BY DEF Flush
<1>5. QED
  BY <1>2, <1>3, <1>4

LEMMA ShownByOthers ==
  ASSUME TerminalInv, Others, NEW id \in Consumed
  PROVE  Excused(id)
<1>1. ASSUME NEW message \in Sent, Post(message) PROVE FALSE
  <2>1. /\ MayPost /\ Insert(message) /\ UNCHANGED <<gone, read, joined, mark>>
    BY <1>1 DEF Post
  <2>2. Tables' /\ Forward
    BY <2>1, SentIs, PostKeeps DEF TerminalInv
  <2>3. QED
    BY <2>1, <2>2, NothingMarked
<1>2. ASSUME NEW i \in toRing, Ring(i) PROVE FALSE
  BY <1>2, SameMarked DEF Ring
<1>3. ASSUME NEW room \in RoomSet, Invited(room) \/ Booted(room) \/ Deleted(room) PROVE FALSE
  BY <1>3, EnterMarks, ExitMarks, DropMarks DEF Invited, Booted, Deleted
<1>4. ASSUME NEW v \in Views, Wiped(v) PROVE FALSE
  BY <1>4, WipeMarks DEF Wiped
<1>5. QED
  BY <1>1, <1>2, <1>3, <1>4 DEF Others

LEMMA ShownByLine ==
  ASSUME TerminalInv, LineClient, NEW id \in Consumed
  PROVE  Excused(id)
<1>1. view.at = "room" => view.of \in RoomSet
  BY DEF TerminalInv, Client, Views, Home
<1>2. view.at # "room" /\ view.at # "home" => view.of \in Peers
  BY DEF TerminalInv, Client, Views, Home
<1>3. ASSUME NEW v \in Views, LineLook(v) PROVE FALSE
  BY <1>3, SameMarked DEF LineLook
<1>4. ASSUME NEW room \in RoomSet, LineJoin(room) \/ LineDelete(room) PROVE FALSE
  BY <1>4, EnterMarks, DropMarks DEF LineJoin, LineDelete
<1>5. CASE LineLeave
  BY <1>1, <1>5, ExitMarks DEF LineLeave
<1>6. ASSUME NEW from \in {Me, System}, MayPost, Insert(Message(from, view.of, FALSE)),
             UNCHANGED <<gone, read, joined>>, view.at # "home",
             IF view.at = "room" THEN Advance(view.of, NextId) ELSE UNCHANGED mark
      PROVE  PassedByOwnPost(id)
  <2> DEFINE message == Message(from, view.of, FALSE)
  <2>1. message \in MessageRow /\ message.to = view.of
    BY <1>1, <1>2, <1>6 DEF Message, MessageRow
  <2>2. /\ Insert(message)
        /\ \/ message.to \in RoomSet /\ Advance(message.to, NextId)
           \/ message.to \in Peers /\ UNCHANGED mark
    BY <1>1, <1>2, <1>6, <2>1
  <2> HIDE DEF message
  <2>3. QED
    BY <1>6, <2>1, <2>2, OwnPostMarks
<1>7. CASE LineText \/ LineBoot
  BY <1>6, <1>7 DEF LineText, LineBoot, Excused
<1>8. QED
  BY <1>3, <1>4, <1>5, <1>7 DEF LineClient

LEMMA ShownByConsole ==
  ASSUME TerminalInv, Console, NEW id \in Consumed
  PROVE  Excused(id)
<1>1. view.at = "room" => view.of \in RoomSet
  BY DEF TerminalInv, Client, Views, Home
<1>2. view \in Views
  BY DEF TerminalInv, Client
<1>3. ASSUME NEW v, Look(v) PROVE FALSE
  BY <1>3, SameMarked DEF Look
<1>4. ASSUME NEW room \in RoomSet, Join(room) \/ Delete(room) PROVE FALSE
  BY <1>4, EnterMarks, DropMarks DEF Join, Delete
<1>5. ASSUME NEW room \in RoomSet, Invite(room) PROVE FALSE
  <2>1. Message(System, room, FALSE) \in MessageRow
    BY DEF Message, MessageRow
  <2>2. Tables' /\ Forward
    BY <1>5, <2>1, PostKeeps DEF Invite, TerminalInv
  <2>3. QED
    BY <1>5, <2>2, NothingMarked DEF Invite
<1>6. ASSUME NEW room \in RoomSet, NEW online \in SUBSET Peers, AllHands(room, online)
      PROVE  FALSE
  BY <1>6, AllHandsMarks
<1>7. ASSUME NEW message \in Sent, SendCurrent(message) \/ SendElsewhere(message)
      PROVE  Excused(id)
  <2>1. /\ MayPost /\ Insert(message) /\ UNCHANGED <<gone, read, joined>> /\ message.from = Me
        /\ IF message.to \in RoomSet THEN Advance(message.to, NextId) ELSE UNCHANGED mark
    BY <1>7 DEF SendCurrent, SendElsewhere, SendTo
  <2>2. message \in MessageRow /\ message.to \in RoomSet \cup Peers
    BY <2>1, SentIs
  <2>3. PassedByOwnPost(id)
    BY <2>1, <2>2, OwnPostMarks
  <2>4. QED
    BY <2>3 DEF Excused
<1>8. CASE Leave
  BY <1>1, <1>8, ExitMarks DEF Leave
<1>9. CASE Clear
  BY <1>2, <1>9, WipeMarks DEF Clear
<1>10. CASE Bump
  BY <1>10, SameMarked DEF Bump
<1>11. QED
  BY <1>3, <1>4, <1>5, <1>6, <1>7, <1>8, <1>9, <1>10, AckShows, EffectShows
     DEF Console, Close, OpenDm, OpenRoom

(* Whatever arrives, is removed or is typed between a drawing and the      *)
(* effect that marks: a message of somebody else that a client marks read  *)
(* in a room it stays in was drawn or printed, or it came after the        *)
(* drawing, lies beyond the page of its view, or an own post or a          *)
(* dismissed alert of its room passed it (App.tsx:209-227, 260, 544,       *)
(* cli/index.ts:68-96).                                                    *)
THEOREM MarkedIsShown == Spec => MarksWhatItShows
<1>1. ASSUME TerminalInv, Next, NEW id \in Consumed PROVE Excused(id)
  <2>1. CASE StartConsole
    BY <1>1, <2>1, SameMarked DEF StartConsole
  <2>2. CASE StartLine
    BY <1>1, <2>2, FlushShows DEF StartLine
  <2>3. CASE Poll
    BY <1>1, <2>3, SameMarked, FlushShows DEF Poll
  <2>4. CASE Quit
    BY <1>1, <2>4, SameMarked DEF Quit
  <2>5. QED
    BY <1>1, <2>1, <2>2, <2>3, <2>4, ShownByOthers, ShownByLine, ShownByConsole DEF Next
<1>2. ASSUME TerminalInv, [Next]_vars
      PROVE  [\A id \in Consumed :
                \/ id \in screen.rows \cup screen.lane \cup screen'.rows
                \/ due # Ran /\ id > due
                \/ BeyondThePage(id) \/ PassedByOwnPost(id) \/ PassedByAlert(id)]_vars
  BY <1>1, <1>2 DEF Excused
<1>3. QED
  BY <1>2, TerminalInductive, PTL DEF Spec, MarksWhatItShows

-----------------------------------------------------------------------------
(* RoomStyle, for any rooms and texts.  A request says what the page had   *)
(* on view, so SavesWhereItSays rests on what the page does to its editor; *)
(* which text a style has, on who may write a row.                         *)

(* The editor that is open over a room is for that room. *)
EditorFits == editor.open /\ target \in StyledRooms => editor.room = target

(* A request for a custom style brings a text for it, and a row whose style *)
(* is another has none.                                                     *)
PostsBringText == \A post \in posts : post.style = "custom" => post.custom # NoMarkdown
NoStrayText == \A room \in StyledRooms : row[room].style # "custom" => row[room].custom = NoMarkdown

StyleInv ==
  /\ StyleTypeOK /\ IsFiniteSet(posts)
  /\ EditorFits /\ SavesWhereItSays /\ PostsBringText /\ NoStrayText

LEMMA InitStyle == StyleInit => StyleInv
<1> SUFFICES ASSUME StyleInit PROVE StyleInv
  OBVIOUS
<1>1. IsFiniteSet(posts) /\ Cardinality(posts) = 0
  BY FS_EmptySet DEF StyleInit
<1>2. row \in [StyledRooms -> Row] /\ NoStrayText
  BY DEF StyleInit, Row, Styles, NoStrayText
<1>3. StyleTypeOK
  BY <1>1, <1>2, StyleAssumption DEF StyleInit, StyleTypeOK, Row, Styles, Shut
<1> QED
  BY <1>1, <1>2, <1>3 DEF StyleInit, StyleInv, EditorFits, SavesWhereItSays, PostsBringText, Shut

(* Whoever sets a style leaves no markdown beside one that is not custom. *)
LEMMA SetRoomStyleKeeps ==
  ASSUME StyleInv, NEW room \in StyledRooms, NEW style \in Styles,
         NEW custom \in Markdowns \cup {NoMarkdown}, SetRoomStyle(room, style, custom)
  PROVE  /\ row' \in [StyledRooms -> Row] /\ NoStrayText'
         /\ row'[room] = [style |-> style,
                          custom |-> IF style = "custom" THEN custom ELSE NoMarkdown]
         /\ \A other \in StyledRooms \ {room} : row'[other] = row[other]
BY DEF StyleInv, StyleTypeOK, SetRoomStyle, NoStrayText, Row

LEMMA NextStyleTyped ==
  ASSUME NEW style, NEW hasCustom \in BOOLEAN
  PROVE  /\ NextStyle(style, hasCustom) \in {"succinct", "custom", "none"}
         /\ NextStyle(style, hasCustom) = "custom" => style = "succinct" /\ hasCustom
BY DEF NextStyle

(* What is asked for is what the page has on view. *)
LEMMA AskKeeps ==
  ASSUME StyleInv, NEW style \in Styles, NEW custom \in Markdowns \cup {NoMarkdown},
         NEW label \in StyledRooms \cup {Dm}, Ask(style, custom, label),
         target \in StyledRooms => label = target,
         style = "custom" => custom # NoMarkdown
  PROVE  /\ posts' \subseteq StylePost /\ IsFiniteSet(posts') /\ Cardinality(posts') <= MaxPosts
         /\ SavesWhereItSays' /\ PostsBringText'
<1> DEFINE post == [room |-> target, style |-> style, custom |-> custom,
                    label |-> label, answer |-> "none"]
<1>1. posts' = posts \cup {post} /\ Cardinality(posts) < MaxPosts
  BY DEF Ask
<1>2. post \in StylePost
  BY DEF StyleInv, StyleTypeOK, StylePost
<1>3. IsFiniteSet(posts')
  BY <1>1, FS_AddElement DEF StyleInv
<1>4. Cardinality(posts') <= MaxPosts
  <2>1. Cardinality(posts) \in Nat /\ MaxPosts \in Nat
    BY FS_CardinalityType, StyleAssumption DEF StyleInv
  <2>2. Cardinality(posts') = Cardinality(posts) \/ Cardinality(posts') = Cardinality(posts) + 1
    BY <1>1, FS_AddElement DEF StyleInv
  <2> QED
    BY <1>1, <2>1, <2>2
<1>5. SavesWhereItSays' /\ PostsBringText'
  BY <1>1 DEF StyleInv, SavesWhereItSays, PostsBringText
<1> QED
  BY <1>1, <1>2, <1>3, <1>4, <1>5 DEF StyleInv, StyleTypeOK

(* A request that is answered or heard stays the request it was. *)
LEMMA AnsweredKeeps ==
  ASSUME StyleInv, NEW post \in posts, NEW after \in StylePost,
         after.room = post.room, after.label = post.label,
         after.style = post.style, after.custom = post.custom,
         posts' = posts \ {post} \/ posts' = (posts \ {post}) \cup {after}
  PROVE  /\ posts' \subseteq StylePost /\ IsFiniteSet(posts') /\ Cardinality(posts') <= MaxPosts
         /\ SavesWhereItSays' /\ PostsBringText'
<1> DEFINE rest == posts \ {post}
<1>1. /\ Cardinality(posts) \in Nat /\ MaxPosts \in Nat /\ Cardinality(posts) <= MaxPosts
      /\ IsFiniteSet(rest) /\ Cardinality(rest) = Cardinality(posts) - 1
  BY FS_CardinalityType, FS_RemoveElement, StyleAssumption DEF StyleInv, StyleTypeOK
<1>2. /\ IsFiniteSet(rest \cup {after})
      /\ \/ Cardinality(rest \cup {after}) = Cardinality(rest)
         \/ Cardinality(rest \cup {after}) = Cardinality(rest) + 1
  <2> HIDE DEF rest
  <2> QED
    BY <1>1, FS_AddElement
<1>3. IsFiniteSet(posts') /\ Cardinality(posts') <= MaxPosts
  <2> DEFINE few == Cardinality(rest)
             one == Cardinality(rest \cup {after})
             all == Cardinality(posts)
  <2>1. /\ all \in Nat /\ MaxPosts \in Nat /\ all <= MaxPosts
        /\ few = all - 1 /\ (one = few \/ one = few + 1)
    BY <1>1, <1>2
  <2>2. Cardinality(posts') \in {few, one}
    OBVIOUS
  <2> HIDE DEF few, one, all
  <2>3. Cardinality(posts') <= MaxPosts
    BY <2>1, <2>2
  <2> QED
    BY <1>1, <1>2, <2>3
<1> QED
  BY <1>3 DEF StyleInv, StyleTypeOK, SavesWhereItSays, PostsBringText

LEMMA StyleStep == StyleInv /\ [StyleNext]_styleVars => StyleInv'
<1> SUFFICES ASSUME StyleInv, [StyleNext]_styleVars PROVE StyleInv'
  OBVIOUS
<1> USE StyleAssumption
<1>r. ASSUME row' \in [StyledRooms -> Row], NoStrayText', drawn' \in [StyledRooms -> Styles],
             UNCHANGED <<target, editor, posts>>
      PROVE  StyleInv'
  BY <1>r DEF StyleInv, StyleTypeOK, EditorFits, SavesWhereItSays, PostsBringText
<1>e. ASSUME UNCHANGED <<row, drawn, posts>>, EditorFits',
             target' \in StyledRooms \cup {Dm},
             editor' \in [open: BOOLEAN, room: StyledRooms \cup {Dm},
                          markdown: Markdowns \cup {NoMarkdown}]
      PROVE  StyleInv'
  BY <1>e DEF StyleInv, StyleTypeOK, NoStrayText, SavesWhereItSays, PostsBringText
<1>p. ASSUME UNCHANGED <<drawn, target>>, editor' \in {editor, Shut},
             row' \in [StyledRooms -> Row], NoStrayText',
             posts' \subseteq StylePost, IsFiniteSet(posts'), Cardinality(posts') <= MaxPosts,
             SavesWhereItSays', PostsBringText'
      PROVE  StyleInv'
  <2>1. /\ editor' \in [open: BOOLEAN, room: StyledRooms \cup {Dm},
                        markdown: Markdowns \cup {NoMarkdown}]
        /\ EditorFits'
    <3>1. CASE editor' = editor
      BY <1>p, <3>1 DEF StyleInv, StyleTypeOK, EditorFits
    <3>2. CASE editor' = Shut
      BY <3>2 DEF Shut, EditorFits
    <3> QED
      BY <1>p, <3>1, <3>2
  <2> QED
    BY <1>p, <2>1 DEF StyleInv, StyleTypeOK
<1>t. /\ row \in [StyledRooms -> Row] /\ NoStrayText /\ drawn \in [StyledRooms -> Styles]
      /\ \A r \in StyledRooms : row[r].style \in Styles
  BY DEF StyleInv, StyleTypeOK, Row
<1>1. ASSUME NEW room \in StyledRooms, NEW style \in Styles \ {"retired"},
             NEW custom \in Markdowns \cup {NoMarkdown}, SetStyle(room, style, custom)
      PROVE  StyleInv'
  BY <1>1, <1>r, <1>t, SetRoomStyleKeeps DEF SetStyle
<1>2. ASSUME NEW room \in StyledRooms, Cycle(room) PROVE StyleInv'
  <2>1. /\ NextStyle(drawn[room], HasCustomStyle(room)) \in Styles
        /\ SetRoomStyle(room, NextStyle(drawn[room], HasCustomStyle(room)), NoMarkdown)
    BY <1>2, NextStyleTyped DEF Cycle, Styles, Presets, HasCustomStyle
  <2>2. row' \in [StyledRooms -> Row] /\ NoStrayText'
    BY <2>1, SetRoomStyleKeeps
  <2>3. drawn' \in [StyledRooms -> Styles]
    BY <1>2, <2>2 DEF Cycle, Row
  <2> QED
    BY <1>2, <1>r, <2>2, <2>3 DEF Cycle
<1>3. ASSUME NEW t \in StyledRooms \cup {Dm}, SelectTarget(t) PROVE StyleInv'
  <2>1. EditorFits'
    BY <1>3 DEF SelectTarget, Header, EditorFits, Shut
  <2> QED
    BY <1>3, <1>e, <2>1 DEF SelectTarget, Header, Shut, StyleInv, StyleTypeOK
<1>4. ASSUME NEW markdown \in Markdowns \cup {NoMarkdown},
             OpenStyleEditor(markdown) \/ Edit(markdown)
      PROVE  StyleInv'
  <2>1. /\ editor' \in [open: BOOLEAN, room: StyledRooms \cup {Dm},
                        markdown: Markdowns \cup {NoMarkdown}]
        /\ EditorFits' /\ target' \in StyledRooms \cup {Dm}
    <3>1. CASE OpenStyleEditor(markdown)
      BY <3>1 DEF OpenStyleEditor, StyleInv, StyleTypeOK, EditorFits
    <3>2. CASE Edit(markdown)
      BY <3>2 DEF Edit, StyleInv, StyleTypeOK, EditorFits
    <3> QED
      BY <1>4, <3>1, <3>2
  <2> QED
    BY <1>4, <1>e, <2>1 DEF OpenStyleEditor, Edit
<1>5. ASSUME NEW style \in Styles, PickPreset(style) PROVE StyleInv'
  BY <1>5, <1>p, <1>t, AskKeeps DEF PickPreset, Presets, NoStrayText
<1>6. ASSUME NEW post \in posts, HandleRoomStyle(post) PROVE StyleInv'
  <2>1. /\ post \in StylePost /\ post.style \in Styles
        /\ post.custom \in Markdowns \cup {NoMarkdown}
    BY DEF StyleInv, StyleTypeOK, StylePost
  <2>2. PICK answer \in {"ok", "error"} : Answered(post, answer)
    BY <1>6 DEF HandleRoomStyle
  <2> DEFINE after == [post EXCEPT !.answer = answer]
  <2>3. /\ after \in StylePost /\ after.room = post.room /\ after.label = post.label
        /\ after.style = post.style /\ after.custom = post.custom
    BY <2>1 DEF StylePost
  <2>4. posts' = (posts \ {post}) \cup {after}
    BY <2>2 DEF Answered
  <2> HIDE DEF after
  <2>5. /\ posts' \subseteq StylePost /\ IsFiniteSet(posts') /\ Cardinality(posts') <= MaxPosts
        /\ SavesWhereItSays' /\ PostsBringText'
    BY <2>3, <2>4, AnsweredKeeps
  <2>6. row' \in [StyledRooms -> Row] /\ NoStrayText'
    <3>1. CASE UNCHANGED row
      BY <1>t, <3>1 DEF NoStrayText
    <3>2. CASE post.room \in StyledRooms /\ SetRoomStyle(post.room, post.style, post.custom)
      BY <2>1, <3>2, SetRoomStyleKeeps
    <3> QED
      BY <1>6, <3>1, <3>2 DEF HandleRoomStyle
  <2> QED
    BY <1>6, <1>p, <2>5, <2>6 DEF HandleRoomStyle
<1>7. ASSUME NEW post \in posts, Hear(post) PROVE StyleInv'
  <2>1. /\ posts' \subseteq StylePost /\ IsFiniteSet(posts') /\ Cardinality(posts') <= MaxPosts
        /\ SavesWhereItSays' /\ PostsBringText'
    BY <1>7, AnsweredKeeps DEF Hear, StyleInv, StyleTypeOK
  <2> QED
    BY <1>7, <1>p, <1>t, <2>1 DEF Hear, NoStrayText
<1>8. CASE Redraw
  BY <1>8, <1>r, <1>t DEF Redraw, NoStrayText
<1>9. CASE Cancel
  BY <1>9, <1>e DEF Cancel, EditorFits, Shut, StyleInv, StyleTypeOK
<1>10. CASE Save
  <2>1. editor.markdown \in Markdowns /\ editor.room \in StyledRooms \cup {Dm}
        /\ (target \in StyledRooms => editor.room = target) /\ "custom" \in Styles
    BY <1>10 DEF Save, StyleInv, StyleTypeOK, EditorFits, Styles
  <2> QED
    BY <1>10, <1>p, <1>t, <2>1, AskKeeps DEF Save, NoStrayText
<1>11. CASE UNCHANGED styleVars
  BY <1>11, <1>r, <1>t DEF styleVars, NoStrayText
<1> QED
  BY <1>1, <1>2, <1>3, <1>4, <1>5, <1>6, <1>7, <1>8, <1>9, <1>10, <1>11 DEF StyleNext

LEMMA HalvedWhenStale ==
  ASSUME StyleInv, StyleNext, NEW room \in StyledRooms,
         HalfWritten(room)', ~HalfWritten(room)
  PROVE  drawn[room] # row[room].style
<1>1. ASSUME NEW other \in StyledRooms, NEW style \in Styles,
             NEW custom \in Markdowns \cup {NoMarkdown}, SetRoomStyle(other, style, custom)
      PROVE  other = room /\ style = "custom" /\ custom = NoMarkdown
  <2>1. /\ row'[other] = [style |-> style,
                          custom |-> IF style = "custom" THEN custom ELSE NoMarkdown]
        /\ \A r \in StyledRooms \ {other} : row'[r] = row[r]
    BY <1>1, SetRoomStyleKeeps
  <2>2. CASE other # room
    BY <2>1, <2>2 DEF HalfWritten, Resolves, HasCustomStyle
  <2>3. CASE other = room
    BY <2>1, <2>3 DEF HalfWritten, Resolves, HasCustomStyle
  <2> QED
    BY <2>2, <2>3
<1>2. ASSUME UNCHANGED row PROVE FALSE
  BY <1>2 DEF HalfWritten, Resolves, HasCustomStyle
<1>3. ASSUME NEW other \in StyledRooms, NEW style \in Styles \ {"retired"},
             NEW custom \in Markdowns \cup {NoMarkdown}, SetStyle(other, style, custom)
      PROVE  FALSE
  BY <1>1, <1>3 DEF SetStyle, AssertStyleCustom
<1>4. ASSUME NEW post \in posts, HandleRoomStyle(post) PROVE FALSE
  <2>1. /\ post.style \in Styles /\ post.custom \in Markdowns \cup {NoMarkdown}
        /\ post.style = "custom" => post.custom # NoMarkdown
    BY DEF StyleInv, StyleTypeOK, StylePost, PostsBringText
  <2> QED
    BY <1>1, <1>2, <1>4, <2>1 DEF HandleRoomStyle
<1>5. ASSUME NEW other \in StyledRooms, Cycle(other) PROVE drawn[room] # row[room].style
  <2> DEFINE style == NextStyle(drawn[other], HasCustomStyle(other))
  <2>1. style \in Styles /\ SetRoomStyle(other, style, NoMarkdown)
    BY <1>5, NextStyleTyped DEF Cycle, Styles, Presets, HasCustomStyle
  <2>2. other = room /\ style = "custom"
    BY <1>1, <2>1
  <2>3. drawn[room] = "succinct" /\ HasCustomStyle(room)
    BY <2>2, NextStyleTyped DEF HasCustomStyle
  <2> QED
    BY <2>3 DEF StyleInv, NoStrayText, HasCustomStyle
<1> QED
  BY <1>2, <1>3, <1>4, <1>5
     DEF StyleNext, SelectTarget, OpenStyleEditor, Edit, PickPreset, Hear, Redraw, Cancel, Save

(* Whichever rooms are opened, styles picked, and saves pressed, answered  *)
(* and lost: a request for a room carries the label of that room, though   *)
(* Save reads the one from the page and the other from the editor.         *)
THEOREM SavedWhereSaid == StyleSpec => []SavesWhereItSays
<1>1. StyleInv => SavesWhereItSays
  BY DEF StyleInv
<1> QED
  BY InitStyle, StyleStep, <1>1, PTL DEF StyleSpec

(* No agent, page or console leaves a room with a style that has no text,  *)
(* but a console whose list shows another style than the row has.          *)
THEOREM HalvesOnlyWhenStale == StyleSpec => HalfWrittenOnlyWhenStale
<1>1. ASSUME StyleInv, [StyleNext]_styleVars
      PROVE  [\A room \in StyledRooms :
                HalfWritten(room)' /\ ~HalfWritten(room) => drawn[room] # row[room].style]_styleVars
  BY <1>1, HalvedWhenStale
<1> QED
  BY InitStyle, StyleStep, <1>1, PTL DEF StyleSpec, HalfWrittenOnlyWhenStale
=============================================================================
