-------------------------- MODULE CredStore_proofs ---------------------------
(***************************************************************************)
(* Proofs about CredStore, for every number of slots, relying parties and  *)
(* users, and at the end about Assertion, which answers with the records   *)
(* in these files: for lists of every length and relying parties without   *)
(* number.                                                                 *)
(***************************************************************************)
EXTENDS CredStore, Assertion, SequenceTheorems, FiniteSetTheorems, WellFoundedInduction, TLAPS

TypeInv == TypeOK /\ cut \in BOOLEAN

(* While a write is left over the file of its relying party is one behind, *)
(* and what the enumerations replied is of no interest.                    *)
TodoInv ==
    /\ todo.op = "none" => todo = Idle
    /\ todo # Idle => todo.rp \in RPs /\ {"rp", "cred"} \subseteq stale
    /\ todo.op = "add" => CredsOf(todo.rp) # {}
    /\ todo.op = "sub" => Used(cred) # Slot

(* The credentials of a relying party that its file has to count by now *)
Pending(r) == IF todo.rp # r THEN 0 ELSE CASE todo.op = "add" -> 1 [] todo.op = "sub" -> -1 [] OTHER -> 0
Counted(r) == Cardinality(CredsOf(r)) - Pending(r)

(* The files of a relying party with n credentials *)
Counts(r, n) ==
    IF n = 0 THEN FilesOf(r) = {} ELSE \E i \in Slot : FilesOf(r) = {i} /\ rpFile[i].n = n % Slots

CountInv == ~cut => \A r \in RPs : Counts(r, Counted(r))

First(S, m) == {i \in S : Place(S, i) <= m}

(* An enumeration that goes on has replied the first m, and asks next for  *)
(* the one after them.                                                     *)
RpEnumInv == "rp" \notin stale =>
    /\ todo = Idle
    /\ rpTotal = Cardinality(Listed) % Slots
    /\ Cardinality(Listed) < Slots =>
          \E m \in 0..rpTotal : /\ rpCounter = (m + 1) % Slots
                                /\ rpsSeen = {rpFile[i].rp : i \in First(Listed, m)}

CredEnumInv == "cred" \notin stale =>
    /\ todo = Idle /\ asked \in RPs
    /\ credTotal = Cardinality(CredsOf(asked)) % Slots
    /\ Cardinality(CredsOf(asked)) < Slots =>
          \E m \in 0..credTotal : /\ credCounter = (m + 1) % Slots
                                  /\ credsSeen = First(CredsOf(asked), m)

-----------------------------------------------------------------------------
(* Bytes and sets of slots *)

LEMMA ByteFacts ==
    /\ Slots \in Nat /\ Slots > 1
    /\ \A n \in Byte : n \in Nat /\ n % Slots = n
    /\ Slots % Slots = 0
    /\ (0 - 1) % Slots = Slots - 1
    /\ \A n \in Int : n % Slots \in Byte
<1>1. Slots \in Nat /\ Slots > 1
    BY SlotsAssumption
<1>2. \A n \in Byte : n \in Nat /\ n % Slots = n
    BY <1>1 DEF Byte
<1>3. Slots % Slots = 0
    BY <1>1
<1>4. (0 - 1) % Slots = Slots - 1
    BY <1>1
<1>5. \A n \in Int : n % Slots \in Byte
    BY <1>1 DEF Byte
<1> QED
    BY <1>1, <1>2, <1>3, <1>4, <1>5

(* A count of 1 to Slots, in a byte, less one *)
LEMMA LessFacts ==
    ASSUME NEW n \in 1..Slots
    PROVE  (n % Slots = 1 <=> n = 1) /\ ((n % Slots) - 1) % Slots = (n - 1) % Slots
<1>1. CASE n = Slots
  <2>1. n % Slots = 0
      BY <1>1, ByteFacts
  <2>2. (0 - 1) % Slots = Slots - 1 /\ Slots - 1 \in Byte
      BY ByteFacts DEF Byte
  <2>3. (n - 1) % Slots = Slots - 1
      BY <1>1, <2>2, ByteFacts
  <2> QED
      BY <1>1, <2>1, <2>2, <2>3, ByteFacts
<1>2. CASE n # Slots
  <2>1. n \in Byte
      BY <1>2, ByteFacts DEF Byte
  <2> QED
      BY <2>1, ByteFacts
<1> QED
    BY <1>1, <1>2

LEMMA Minimum ==
    ASSUME NEW S \in SUBSET Nat, S # {}
    PROVE  \E i \in S : \A j \in S : i <= j
<1>1. PICK R : IsWellFoundedOn(R, Nat) /\ \A i, j \in Nat : <<j, i>> \in R <=> j < i
    BY NatLessThanWellFounded DEF OpToRel
<1>2. PICK i \in S : \A j \in S : <<j, i>> \notin R
    BY <1>1, WFMin
<1>3. i \in Nat /\ \A j \in S : j \in Nat /\ ~(j < i)
    BY <1>1, <1>2
<1>4. \A j \in S : i <= j
    BY <1>3
<1> QED
    BY <1>4

LEMMA IntervalSets ==
    ASSUME NEW n \in Nat, NEW S \in SUBSET (1..n)
    PROVE  /\ IsFiniteSet(S) /\ Cardinality(S) \in 0..n
           /\ Cardinality(S) = 0 <=> S = {}
           /\ S # 1..n => Cardinality(S) < n
           /\ \A T \in SUBSET S : /\ IsFiniteSet(T) /\ Cardinality(T) \in Nat
                                  /\ Cardinality(T) <= Cardinality(S)
                                  /\ Cardinality(T) = Cardinality(S) => T = S
<1>1. IsFiniteSet(1..n) /\ Cardinality(1..n) = n
    BY FS_Interval
<1>2. IsFiniteSet(S) /\ Cardinality(S) <= n /\ (Cardinality(S) = n => S = 1..n)
    BY <1>1, FS_Subset
<1>3. Cardinality(S) \in Nat /\ (Cardinality(S) = 0 <=> S = {})
    BY <1>2, FS_CardinalityType, FS_EmptySet
<1>4. ASSUME NEW T \in SUBSET S
      PROVE  /\ IsFiniteSet(T) /\ Cardinality(T) \in Nat
             /\ Cardinality(T) <= Cardinality(S)
             /\ Cardinality(T) = Cardinality(S) => T = S
    BY <1>2, FS_Subset, FS_CardinalityType
<1> QED
    BY <1>1, <1>2, <1>3, <1>4

LEMMA Maximum ==
    ASSUME NEW n \in Nat, NEW S \in SUBSET (1..n), S # {}
    PROVE  \E i \in S : \A j \in S : j <= i
<1> DEFINE T == {n - i : i \in S}
<1>1. \A i \in S : i \in Int /\ n - i \in Nat
    OBVIOUS
<1>2. T \in SUBSET Nat /\ T # {}
    BY <1>1
<1>3. PICK t \in T : \A u \in T : t <= u
    BY <1>2, Minimum
<1>4. PICK i \in S : t = n - i
    BY <1>3
<1>5. \A j \in S : n - i <= n - j
    BY <1>3, <1>4
<1>6. \A j \in S : j <= i
    BY <1>1, <1>5
<1> QED
    BY <1>6

LEMMA SlotSets ==
    ASSUME NEW S \in SUBSET Slot
    PROVE  /\ IsFiniteSet(S) /\ Cardinality(S) \in 0..Slots
           /\ Cardinality(S) = 0 <=> S = {}
           /\ S # Slot => Cardinality(S) < Slots
           /\ \A T \in SUBSET S : /\ IsFiniteSet(T) /\ Cardinality(T) \in Nat
                                  /\ Cardinality(T) <= Cardinality(S)
                                  /\ Cardinality(T) = Cardinality(S) => T = S
BY ByteFacts, IntervalSets DEF Slot

LEMMA LowestFacts ==
    ASSUME NEW S \in SUBSET Slot, S # {}
    PROVE  Lowest(S) \in S /\ \A j \in S : Lowest(S) <= j
<1>1. S \in SUBSET Nat
    BY DEF Slot
<1> QED
    BY <1>1, Minimum DEF Lowest

LEMMA PlaceFacts ==
    ASSUME NEW n \in Nat, NEW S \in SUBSET (1..n)
    PROVE  /\ \A i \in S : Place(S, i) \in 1..Cardinality(S) /\ i \in Nat /\ Place(S, i) \in Nat
           /\ \A i, j \in S : i < j => Place(S, i) < Place(S, j)
<1> DEFINE Upto(i) == {j \in S : j <= i}
<1>0. Cardinality(S) \in Nat /\ S \subseteq Int
    BY IntervalSets
<1>1. \A i \in S : Place(S, i) = Cardinality(Upto(i)) /\ i \in Upto(i) /\ Upto(i) \in SUBSET S
    BY <1>0 DEF Place
<1>2. \A i \in S : Upto(i) \in SUBSET (1..n)
    BY <1>1
<1>3. ASSUME NEW i \in S PROVE Place(S, i) \in 1..Cardinality(S) /\ i \in Nat /\ Place(S, i) \in Nat
  <2>1. Upto(i) # {} /\ Cardinality(Upto(i)) <= Cardinality(S) /\ Cardinality(Upto(i)) \in Nat
      BY <1>1, <1>3, IntervalSets
  <2>2. Cardinality(Upto(i)) # 0
      BY <1>2, <1>3, <2>1, IntervalSets
  <2> QED
      BY <1>0, <1>1, <1>3, <2>1, <2>2
<1>4. ASSUME NEW i \in S, NEW j \in S, i < j PROVE Place(S, i) < Place(S, j)
  <2>1. Upto(i) \in SUBSET Upto(j) /\ j \in Upto(j) /\ j \notin Upto(i)
    <3>1. i \in Int /\ j \in Int /\ \A l \in S : l \in Int
        BY <1>0
    <3>2. (\A l \in S : l <= i => l <= j) /\ j <= j /\ ~(j <= i)
        BY <1>4, <3>1
    <3> QED
        BY <3>2
  <2>2. Cardinality(Upto(i)) <= Cardinality(Upto(j)) /\ Cardinality(Upto(i)) # Cardinality(Upto(j))
      BY <1>2, <1>4, <2>1, IntervalSets
  <2>3. Place(S, i) \in Int /\ Place(S, j) \in Int
      BY <1>3, <1>4
  <2> QED
      BY <1>1, <1>4, <2>2, <2>3
<1> QED
    BY <1>3, <1>4

LEMMA PlaceOnto ==
    ASSUME NEW n \in Nat, NEW S \in SUBSET (1..n), NEW k \in 1..Cardinality(S)
    PROVE  \E i \in S : Place(S, i) = k
<1> DEFINE T == {i \in S : Place(S, i) >= k}
<1>0. /\ Cardinality(S) \in Nat /\ S \subseteq Int /\ S \subseteq Nat /\ S # {}
      /\ \A i \in S : Place(S, i) \in Int
  <2>1. Cardinality(S) \in Nat /\ S \subseteq Int /\ S \subseteq Nat /\ S # {}
      BY IntervalSets
  <2>2. \A i \in S : Place(S, i) \in Nat
      BY PlaceFacts
  <2> QED
      BY <2>1, <2>2
<1>1. T # {}
  <2>1. PICK m \in S : \A j \in S : j <= m
      BY <1>0, Maximum
  <2>2. {j \in S : j <= m} = S
      BY <2>1
  <2>3. Place(S, m) >= k
      BY <1>0, <2>2 DEF Place
  <2> QED
      BY <2>3
<1>2. PICK i \in T : \A j \in T : i <= j
    BY <1>0, <1>1, Minimum
<1>3. ASSUME Place(S, i) # k PROVE FALSE
  <2> DEFINE U == {j \in S : j < i}
  <2>1. U = {j \in S : j <= i} \ {i} /\ i \in {j \in S : j <= i} /\ U \in SUBSET (1..n)
    <3>1. i \in S /\ i \in Int /\ \A l \in S : l \in Int
        BY <1>0, <1>2
    <3>2. i <= i /\ \A l \in S : l < i <=> l <= i /\ l # i
        BY <3>1
    <3> QED
        BY <3>1, <3>2
  <2>2. Cardinality(U) = Place(S, i) - 1
    <3>1. IsFiniteSet({j \in S : j <= i})
        BY IntervalSets
    <3> QED
        BY <2>1, <3>1, FS_RemoveElement DEF Place
  <2>3. Cardinality(U) >= k /\ U # {}
    <3>1. Cardinality(U) >= k /\ Cardinality(U) # 0
        BY <1>0, <1>2, <1>3, <2>2
    <3> QED
        BY <2>1, <3>1, IntervalSets
  <2>4. PICK p \in U : \A j \in U : j <= p
      BY <2>1, <2>3, Maximum
  <2>5. {j \in S : j <= p} = U
    <3>1. p \in Int /\ p < i /\ i \in Int
        BY <1>0, <1>2, <2>4
    <3>2. \A j \in S : j <= p <=> j < i
        BY <1>0, <2>4, <3>1
    <3> QED
        BY <3>2
  <2>6. Place(S, p) >= k
      BY <2>3, <2>5 DEF Place
  <2>7. i <= p
      BY <1>2, <2>4, <2>6
  <2> QED
      BY <1>0, <1>2, <2>4, <2>7
<1> QED
    BY <1>2, <1>3

LEMMA SlotPlaces ==
    ASSUME NEW S \in SUBSET Slot
    PROVE  /\ \A i \in S : Place(S, i) \in 1..Cardinality(S)
           /\ \A i, j \in S : i < j => Place(S, i) < Place(S, j)
           /\ \A k \in 1..Cardinality(S) : \E i \in S : Place(S, i) = k
<1>1. Slots \in Nat /\ S \in SUBSET (1..Slots)
    BY ByteFacts DEF Slot
<1> QED
    BY <1>1, PlaceFacts, PlaceOnto

LEMMA FirstFacts ==
    ASSUME NEW S \in SUBSET Slot
    PROVE  /\ First(S, 0) = {} /\ First(S, Cardinality(S)) = S
           /\ \A m \in Nat, i \in S : Place(S, i) = m + 1 => First(S, m + 1) = First(S, m) \cup {i}
           /\ S # {} => First(S, 1) = {Lowest(S)}
<1>0. Cardinality(S) \in Nat /\ S \subseteq Int
    BY SlotSets DEF Slot
<1>1. First(S, 0) = {} /\ First(S, Cardinality(S)) = S
  <2>1. \A i \in S : Place(S, i) \in 1..Cardinality(S)
      BY SlotPlaces
  <2>2. \A i \in S : ~(Place(S, i) <= 0) /\ Place(S, i) <= Cardinality(S)
      BY <1>0, <2>1
  <2> QED
      BY <2>2 DEF First
<1>2. ASSUME NEW m \in Nat, NEW i \in S, Place(S, i) = m + 1
      PROVE  First(S, m + 1) = First(S, m) \cup {i}
  <2>1. \A j \in S : Place(S, j) \in Int /\ (j # i => Place(S, j) # m + 1)
      BY <1>0, <1>2, SlotPlaces
  <2>2. \A j \in S : Place(S, j) <= m + 1 <=> Place(S, j) <= m \/ j = i
      BY <1>2, <2>1
  <2> QED
      BY <2>2 DEF First
<1>3. ASSUME S # {} PROVE First(S, 1) = {Lowest(S)}
  <2>1. Lowest(S) \in S /\ \A j \in S : Lowest(S) <= j
      BY <1>3, LowestFacts
  <2>2. {j \in S : j <= Lowest(S)} = {Lowest(S)}
    <3> DEFINE low == Lowest(S)
    <3>1. low \in S /\ low \in Int /\ \A j \in S : j \in Int /\ low <= j
        BY <1>0, <2>1
    <3> HIDE DEF low
    <3>2. \A j \in S : j <= low <=> j = low
        BY <3>1
    <3>3. {j \in S : j <= low} = {low}
        BY <3>1, <3>2
    <3> QED
        BY <3>3 DEF low
  <2>3. Place(S, Lowest(S)) = 1
      BY <2>2, FS_Singleton DEF Place
  <2>4. First(S, 0 + 1) = First(S, 0) \cup {Lowest(S)}
      BY <1>2, <2>1, <2>3
  <2> QED
      BY <1>1, <2>4
<1> QED
    BY <1>1, <1>2, <1>3

LEMMA NthFacts ==
    ASSUME NEW S \in SUBSET Slot, Cardinality(S) < Slots, NEW pos \in Byte
    PROVE  /\ Nth(S, pos) # 0 => Nth(S, pos) \in S /\ Place(S, Nth(S, pos)) = pos
           /\ pos \in 1..Cardinality(S) => Nth(S, pos) \in S /\ Place(S, Nth(S, pos)) = pos
<1> DEFINE hits == {i \in S : Place(S, i) % Slots = pos}
<1>1. \A i \in S : Place(S, i) \in Byte
    BY SlotPlaces, SlotSets, ByteFacts DEF Byte
<1>2. hits = {i \in S : Place(S, i) = pos} /\ hits \in SUBSET Slot
    BY <1>1, ByteFacts
<1>3. Nth(S, pos) = IF hits = {} THEN 0 ELSE Lowest(hits)
    BY DEF Nth
<1> HIDE DEF hits
<1>4. hits # {} => Nth(S, pos) \in S /\ Place(S, Nth(S, pos)) = pos
    BY <1>2, <1>3, LowestFacts
<1>5. pos \in 1..Cardinality(S) => hits # {}
    BY <1>2, SlotPlaces
<1> QED
    BY <1>3, <1>4, <1>5

-----------------------------------------------------------------------------
(* What the writes do to the files *)

Creds == [rp : RPs, user : Users]
RpFiles == [rp : RPs, n : Byte]
Ops == [op : {"none", "add", "sub"}, rp : RPs \cup {NoHash}]
Todo(op, r) == [op |-> op, rp |-> r]

LEMMA TypeFacts ==
    ASSUME TypeOK
    PROVE  /\ cred \in [Slot -> {Free} \cup Creds] /\ rpFile \in [Slot -> {Free} \cup RpFiles]
           /\ Free \notin Creds /\ Free \notin RpFiles
           /\ Used(cred) \in SUBSET Slot /\ \A i \in Used(cred) : cred[i] \in Creds
           /\ Used(rpFile) \in SUBSET Slot /\ \A i \in Used(rpFile) : rpFile[i] \in RpFiles
           /\ \A r : /\ CredsOf(r) \in SUBSET Slot /\ \A u : Matches(r, u) \in SUBSET CredsOf(r)
                     /\ FilesOf(r) \in SUBSET Slot
           /\ Listed \in SUBSET Slot
<1>1. /\ cred \in [Slot -> {Free} \cup Creds] /\ rpFile \in [Slot -> {Free} \cup RpFiles]
      /\ Free \notin Creds /\ Free \notin RpFiles
    BY FreeAssumption DEF TypeOK, Creds, RpFiles
<1>2. Used(cred) \in SUBSET Slot /\ \A i \in Used(cred) : cred[i] \in Creds
    BY <1>1 DEF Used
<1>3. Used(rpFile) \in SUBSET Slot /\ \A i \in Used(rpFile) : rpFile[i] \in RpFiles
    BY <1>1 DEF Used
<1>4. \A r : /\ CredsOf(r) \in SUBSET Slot /\ \A u : Matches(r, u) \in SUBSET CredsOf(r)
             /\ FilesOf(r) \in SUBSET Slot
    BY <1>2, <1>3 DEF CredsOf, Matches, FilesOf
<1>5. Listed \in SUBSET Slot
    BY <1>3 DEF Listed
<1> QED
    BY <1>1, <1>2, <1>3, <1>4, <1>5

LEMMA TodoFacts ==
    ASSUME NEW op, NEW r
    PROVE  Todo(op, r).op = op /\ Todo(op, r).rp = r /\ Idle = Todo("none", NoHash)
BY DEF Todo, Idle

(* A credential is stored in an empty slot, or over one of its party. *)
LEMMA PutFacts ==
    ASSUME TypeOK, NEW r \in RPs, NEW u \in Users, NEW i \in Slot, Put(r, u, i),
           IF Matches(r, u) = {} THEN i \notin Used(cred) ELSE i \in Matches(r, u)
    PROVE  /\ cred' \in [Slot -> {Free} \cup Creds]
           /\ CredsOf(r)' = CredsOf(r) \cup {i}
           /\ \A s \in RPs \ {r} : CredsOf(s)' = CredsOf(s)
           /\ \/ i \notin Used(cred) /\ i \notin CredsOf(r) /\ todo' = Todo("add", r)
              \/ i \in CredsOf(r) /\ todo' = Idle
<1> DEFINE c == [rp |-> r, user |-> u]
<1>1. cred' = [cred EXCEPT ![i] = c] /\ c \in Creds /\ c.rp = r /\ c # Free
    BY TypeFacts DEF Put, Creds
<1> HIDE DEF c
<1>2. cred' \in [Slot -> {Free} \cup Creds]
    BY <1>1, TypeFacts
<1>3. \A j \in Slot : cred'[j] = IF j = i THEN c ELSE cred[j]
    BY <1>1, TypeFacts
<1>4. Matches(r, u) \subseteq CredsOf(r) /\ CredsOf(r) \subseteq Used(cred)
    BY DEF Matches, CredsOf
<1>5. i \notin Used(cred) \/ i \in CredsOf(r)
    BY <1>4
<1>6. CredsOf(r)' = CredsOf(r) \cup {i}
    BY <1>1, <1>3 DEF CredsOf, Used
<1>7. \A s \in RPs \ {r} : CredsOf(s)' = CredsOf(s)
    BY <1>1, <1>3, <1>5 DEF CredsOf, Used
<1>8. \/ i \notin Used(cred) /\ i \notin CredsOf(r) /\ todo' = Todo("add", r)
      \/ i \in CredsOf(r) /\ todo' = Idle
    BY <1>4 DEF Put, Todo
<1> QED
    BY <1>2, <1>6, <1>7, <1>8

(* Both requests that store a credential *)
Stored(r, i) ==
    /\ todo = Idle /\ Interrupt /\ UNCHANGED <<rpFile, rpEnum, credEnum, cut>>
    /\ cred' \in [Slot -> {Free} \cup Creds]
    /\ CredsOf(r)' = CredsOf(r) \cup {i}
    /\ \A s \in RPs \ {r} : CredsOf(s)' = CredsOf(s)
    /\ \/ i \notin Used(cred) /\ i \notin CredsOf(r) /\ todo' = Todo("add", r)
       \/ i \in CredsOf(r) /\ todo' = Idle

LEMMA StoreFacts ==
    ASSUME TypeOK, NEW r \in RPs, NEW u \in Users, Store(r, u)
    PROVE  \E i \in Slot : Stored(r, i)
<1>1. CASE Matches(r, u) # {}
  <2> DEFINE i == Lowest(Matches(r, u))
  <2>1. i \in Matches(r, u)
      BY <1>1, TypeFacts, LowestFacts
  <2>2. Put(r, u, i)
      BY <1>1 DEF Store
  <2> HIDE DEF i
  <2>3. i \in Slot
      BY <2>1, TypeFacts
  <2> QED
      BY <1>1, <2>1, <2>2, <2>3, PutFacts DEF Store, Stored
<1>2. CASE Matches(r, u) = {}
  <2> DEFINE i == Lowest(Slot \ Used(cred))
  <2>1. Slot \ Used(cred) # {}
      BY <1>2, TypeFacts DEF Store
  <2>2. i \in Slot \ Used(cred)
      BY <2>1, LowestFacts
  <2>3. Put(r, u, i)
      BY <1>2 DEF Store
  <2> HIDE DEF i
  <2> QED
      BY <1>2, <2>2, <2>3, PutFacts DEF Store, Stored
<1> QED
    BY <1>1, <1>2

LEMMA UpdateFacts ==
    ASSUME TypeOK, NEW k \in Slot, UpdateUser(k)
    PROVE  \E r \in RPs, i \in Slot : Stored(r, i)
<1>1. k \in Used(cred) /\ cred[k].rp \in RPs /\ cred[k].user \in Users
    BY TypeFacts DEF UpdateUser, Creds
<1>2. PICK r \in RPs, u \in Users : r = cred[k].rp /\ u = cred[k].user
    BY <1>1
<1>3. k \in Matches(r, u)
    BY <1>1, <1>2, ClashAssumption DEF Matches, CredsOf
<1>4. PICK i \in Slot : i = Lowest(Matches(r, u)) /\ i \in Matches(r, u)
    BY <1>3, TypeFacts, LowestFacts
<1>5. Put(r, u, i)
    BY <1>2, <1>4 DEF UpdateUser
<1>6. Stored(r, i)
    BY <1>3, <1>4, <1>5, PutFacts DEF UpdateUser, Stored
<1> QED
    BY <1>6

LEMMA DeleteFacts ==
    ASSUME TypeOK, NEW i \in Slot, Delete(i)
    PROVE  /\ cred' \in [Slot -> {Free} \cup Creds] /\ i \notin Used(cred)'
           /\ \E r \in RPs : /\ i \in CredsOf(r) /\ CredsOf(r)' = CredsOf(r) \ {i}
                             /\ \A s \in RPs \ {r} : CredsOf(s)' = CredsOf(s)
                             /\ todo' = Todo("sub", r)
<1>0. i \in Used(cred) /\ cred[i].rp \in RPs
    BY TypeFacts DEF Delete, Creds
<1>1. PICK r \in RPs : r = cred[i].rp /\ cred' = [cred EXCEPT ![i] = Free] /\ todo' = Todo("sub", r)
    BY <1>0 DEF Delete, Todo
<1>2. \A j \in Slot : cred'[j] = IF j = i THEN Free ELSE cred[j]
    BY <1>1, TypeFacts
<1>3. i \in CredsOf(r)
    BY <1>0, <1>1 DEF CredsOf
<1>4. cred' \in [Slot -> {Free} \cup Creds] /\ i \notin Used(cred)'
    BY <1>1, <1>2, TypeFacts DEF Used
<1>5. CredsOf(r)' = CredsOf(r) \ {i}
    BY <1>2, TypeFacts DEF CredsOf, Used
<1>6. \A s \in RPs \ {r} : CredsOf(s)' = CredsOf(s)
    BY <1>1, <1>2, TypeFacts DEF CredsOf, Used
<1> QED
    BY <1>1, <1>3, <1>4, <1>5, <1>6

LEMMA AddFacts ==
    ASSUME TypeOK, TodoInv, AddRp
    PROVE  /\ rpFile' \in [Slot -> {Free} \cup RpFiles] /\ todo' = Idle
           /\ \E r \in RPs :
                 /\ todo = Todo("add", r)
                 /\ \A s \in RPs \ {r} : FilesOf(s)' = FilesOf(s) /\ \A j \in FilesOf(s) : rpFile'[j] = rpFile[j]
                 /\ FilesOf(r) = {} /\ Used(rpFile) # Slot
                       => \E i \in Slot : FilesOf(r)' = {i} /\ rpFile'[i].n = 1
                 /\ \A i : FilesOf(r) = {i} => FilesOf(r)' = {i} /\ rpFile'[i].n = (rpFile[i].n + 1) % Slots
<1>1. PICK r \in RPs : todo.rp = r /\ todo = Todo("add", r)
  <2>1. todo.op = "add" /\ todo \in Ops
      BY DEF AddRp, TypeOK, Ops
  <2>2. todo # Idle
      BY <2>1, TodoFacts
  <2>3. todo = Todo(todo.op, todo.rp)
      BY <2>1 DEF Ops, Todo
  <2> QED
      BY <2>1, <2>2, <2>3 DEF TodoInv
<1>2. todo' = Idle
    BY DEF AddRp
<1>3. CASE FilesOf(r) = {} /\ Used(rpFile) = Slot
  <2>1. rpFile' = rpFile
      BY <1>1, <1>3 DEF AddRp
  <2>2. \A s : FilesOf(s)' = FilesOf(s)
      BY <2>1 DEF FilesOf, Used
  <2> QED
      BY <1>1, <1>2, <1>3, <2>1, <2>2, TypeFacts
<1>4. CASE ~(FilesOf(r) = {} /\ Used(rpFile) = Slot)
  <2> DEFINE T == IF FilesOf(r) # {} THEN FilesOf(r) ELSE Slot \ Used(rpFile)
  <2>1. T \in SUBSET Slot /\ T # {}
      BY <1>4, TypeFacts
  <2>2. PICK i \in Slot : i = Lowest(T) /\ i \in T
      BY <2>1, LowestFacts
  <2> DEFINE n == IF i \in Used(rpFile) THEN (rpFile[i].n + 1) % Slots ELSE 1
             f == [rp |-> r, n |-> n]
  <2>3. rpFile' = [rpFile EXCEPT ![i] = f]
      BY <1>1, <1>4, <2>2 DEF AddRp
  <2>4. n \in Byte
    <3>1. 1 \in Byte
        BY ByteFacts DEF Byte
    <3>2. i \in Used(rpFile) => rpFile[i].n + 1 \in Int
        BY TypeFacts, ByteFacts DEF RpFiles
    <3> QED
        BY <3>1, <3>2, ByteFacts
  <2>5. f \in RpFiles /\ f.rp = r /\ f.n = n /\ f # Free
      BY <2>4, TypeFacts DEF RpFiles
  <2>6. i \in Used(rpFile) => rpFile[i].rp = r
      BY <2>2 DEF FilesOf
  <2>7. FilesOf(r) = {} => i \notin Used(rpFile)
      BY <2>2
  <2>8. \A k : FilesOf(r) = {k} => i = k /\ i \in Used(rpFile)
      BY <2>2 DEF FilesOf
  <2>9. i \in Used(rpFile) => n = (rpFile[i].n + 1) % Slots
      OBVIOUS
  <2>10. i \notin Used(rpFile) => n = 1
      OBVIOUS
  <2> HIDE DEF f, n, T
  <2>11. \A j \in Slot : rpFile'[j] = IF j = i THEN f ELSE rpFile[j]
      BY <2>3, TypeFacts
  <2>12. rpFile' \in [Slot -> {Free} \cup RpFiles]
      BY <2>3, <2>5, TypeFacts
  <2>13. \A s \in RPs \ {r} : FilesOf(s)' = FilesOf(s) /\ \A j \in FilesOf(s) : rpFile'[j] = rpFile[j]
      BY <2>5, <2>6, <2>11 DEF FilesOf, Used
  <2>14. FilesOf(r)' = FilesOf(r) \cup {i}
      BY <2>5, <2>11 DEF FilesOf, Used
  <2>15. rpFile'[i].n = n
      BY <2>5, <2>11
  <2>16. FilesOf(r) = {} => FilesOf(r)' = {i} /\ rpFile'[i].n = 1
      BY <2>7, <2>10, <2>14, <2>15
  <2>17. \A k : FilesOf(r) = {k} => FilesOf(r)' = {k} /\ rpFile'[k].n = (rpFile[k].n + 1) % Slots
      BY <2>8, <2>9, <2>14, <2>15
  <2> QED
      BY <1>1, <1>2, <2>12, <2>13, <2>16, <2>17
<1> QED
    BY <1>3, <1>4

LEMMA SubFacts ==
    ASSUME TypeOK, TodoInv, SubRp
    PROVE  /\ rpFile' \in [Slot -> {Free} \cup RpFiles] /\ todo' = Idle
           /\ \E r \in RPs :
                 /\ todo = Todo("sub", r)
                 /\ \A s \in RPs \ {r} : FilesOf(s)' = FilesOf(s) /\ \A j \in FilesOf(s) : rpFile'[j] = rpFile[j]
                 /\ \A i : FilesOf(r) = {i} =>
                       IF rpFile[i].n = 1 THEN FilesOf(r)' = {}
                       ELSE FilesOf(r)' = {i} /\ rpFile'[i].n = (rpFile[i].n - 1) % Slots
<1>1. PICK r \in RPs : todo.rp = r /\ todo = Todo("sub", r)
  <2>1. todo.op = "sub" /\ todo \in Ops
      BY DEF SubRp, TypeOK, Ops
  <2>2. todo # Idle
      BY <2>1, TodoFacts
  <2>3. todo = Todo(todo.op, todo.rp)
      BY <2>1 DEF Ops, Todo
  <2> QED
      BY <2>1, <2>2, <2>3 DEF TodoInv
<1>2. todo' = Idle
    BY DEF SubRp
<1>3. CASE FilesOf(r) = {}
  <2>1. rpFile' = rpFile
      BY <1>1, <1>3 DEF SubRp
  <2>2. \A s : FilesOf(s)' = FilesOf(s)
      BY <2>1 DEF FilesOf, Used
  <2> QED
      BY <1>1, <1>2, <1>3, <2>1, <2>2, TypeFacts
<1>4. CASE FilesOf(r) # {}
  <2>1. PICK i \in Slot : i = Lowest(FilesOf(r)) /\ i \in FilesOf(r)
      BY <1>4, TypeFacts, LowestFacts
  <2> DEFINE f == Less(rpFile[i])
  <2>2. rpFile' = [rpFile EXCEPT ![i] = f]
      BY <1>1, <1>4, <2>1 DEF SubRp
  <2>3. rpFile[i] \in RpFiles /\ rpFile[i].rp = r /\ rpFile[i].n \in Int
      BY <2>1, TypeFacts, ByteFacts DEF FilesOf, RpFiles
  <2>4. (rpFile[i].n - 1) % Slots \in Byte
      BY <2>3, ByteFacts
  <2>5. rpFile[i].n = 1 => f = Free
      BY DEF Less
  <2>6. rpFile[i].n # 1 => f \in RpFiles /\ f.rp = r /\ f.n = (rpFile[i].n - 1) % Slots /\ f # Free
      BY <2>3, <2>4, TypeFacts DEF Less, RpFiles
  <2> HIDE DEF f
  <2>7. \A j \in Slot : rpFile'[j] = IF j = i THEN f ELSE rpFile[j]
      BY <2>2, TypeFacts
  <2>8. rpFile' \in [Slot -> {Free} \cup RpFiles]
      BY <2>2, <2>5, <2>6, TypeFacts
  <2>9. \A s \in RPs \ {r} : FilesOf(s)' = FilesOf(s) /\ \A j \in FilesOf(s) : rpFile'[j] = rpFile[j]
      BY <2>3, <2>5, <2>6, <2>7 DEF FilesOf, Used
  <2>10. rpFile[i].n = 1 => FilesOf(r)' = FilesOf(r) \ {i}
      BY <2>5, <2>7 DEF FilesOf, Used
  <2>11. rpFile[i].n # 1 => FilesOf(r)' = FilesOf(r) /\ rpFile'[i].n = (rpFile[i].n - 1) % Slots
      BY <2>1, <2>6, <2>7 DEF FilesOf, Used
  <2> QED
      BY <1>1, <1>2, <2>1, <2>8, <2>9, <2>10, <2>11
<1> QED
    BY <1>3, <1>4

-----------------------------------------------------------------------------
(* Types, and what a request has still to write *)

LEMMA InitType == Init => TypeInv /\ TodoInv
<1> SUFFICES ASSUME Init PROVE TypeInv /\ TodoInv
    OBVIOUS
<1>1. /\ cred \in [Slot -> {Free} \cup Creds] /\ rpFile \in [Slot -> {Free} \cup RpFiles]
      /\ todo = Idle
    BY DEF Init
<1>2. Idle \in Ops /\ 0 \in Byte /\ 1 \in Byte
    BY ByteFacts DEF Idle, Ops, Byte
<1>3. TypeInv
    BY <1>1, <1>2 DEF Init, TypeInv, TypeOK, Creds, RpFiles, Ops
<1>4. TodoInv
    BY <1>1, TodoFacts DEF TodoInv
<1> QED
    BY <1>3, <1>4

LEMMA StepType == TypeInv /\ TodoInv /\ [Next]_vars => TypeInv'
<1> SUFFICES ASSUME TypeInv, TodoInv, [Next]_vars PROVE TypeInv'
    OBVIOUS
<1>a. /\ TypeOK /\ cut \in BOOLEAN
      /\ cred \in [Slot -> {Free} \cup Creds] /\ rpFile \in [Slot -> {Free} \cup RpFiles] /\ todo \in Ops
      /\ {rpCounter, rpTotal, credCounter, credTotal} \subseteq Byte
      /\ hash \in RPs \cup {NoHash, Freed} /\ asked \in RPs \cup {NoHash}
    BY DEF TypeInv, TypeOK, Creds, RpFiles, Ops
<1>b. ASSUME cut' \in BOOLEAN,
             cred' \in [Slot -> {Free} \cup Creds], rpFile' \in [Slot -> {Free} \cup RpFiles], todo' \in Ops,
             {rpCounter', rpTotal', credCounter', credTotal'} \subseteq Byte,
             hash' \in RPs \cup {NoHash, Freed}, asked' \in RPs \cup {NoHash}
      PROVE  TypeInv'
    BY <1>b DEF TypeInv, TypeOK, Creds, RpFiles, Ops
<1>c. /\ Idle \in Ops /\ \A r \in RPs : Todo("add", r) \in Ops /\ Todo("sub", r) \in Ops
      /\ 0 \in Byte /\ 1 \in Byte /\ 2 % Slots \in Byte
      /\ \A n \in Byte : (n + 1) % Slots \in Byte
  <2>1. \A n \in Byte : n + 1 \in Int
      BY ByteFacts
  <2> QED
      BY <2>1, ByteFacts DEF Idle, Ops, Todo, Byte
<1>d. \A S \in SUBSET Slot : Cardinality(S) % Slots \in Byte
  <2>1. \A S \in SUBSET Slot : Cardinality(S) \in Int
      BY SlotSets, ByteFacts
  <2> QED
      BY <2>1, ByteFacts
<1>1. ASSUME NEW r \in RPs, NEW i \in Slot, Stored(r, i) PROVE TypeInv'
    BY <1>1, <1>a, <1>b, <1>c DEF Stored, Interrupt, rpEnum, credEnum
<1>2. ASSUME NEW r \in RPs, NEW u \in Users, Store(r, u) PROVE TypeInv'
    BY <1>2, <1>a, <1>1, StoreFacts
<1>3. ASSUME NEW i \in Slot, UpdateUser(i) PROVE TypeInv'
    BY <1>3, <1>a, <1>1, UpdateFacts
<1>4. ASSUME NEW i \in Slot, Delete(i) PROVE TypeInv'
  <2>1. cred' \in [Slot -> {Free} \cup Creds] /\ todo' \in Ops
      BY <1>4, <1>a, <1>c, DeleteFacts
  <2> QED
      BY <1>4, <1>a, <1>b, <2>1 DEF Delete, Interrupt, rpEnum, credEnum
<1>5. CASE AddRp
  <2>1. rpFile' \in [Slot -> {Free} \cup RpFiles] /\ todo' = Idle
      BY <1>5, <1>a, AddFacts
  <2> QED
      BY <1>5, <1>a, <1>b, <1>c, <2>1 DEF AddRp, rpEnum, credEnum, seen
<1>6. CASE SubRp
  <2>1. rpFile' \in [Slot -> {Free} \cup RpFiles] /\ todo' = Idle
      BY <1>6, <1>a, SubFacts
  <2> QED
      BY <1>6, <1>a, <1>b, <1>c, <2>1 DEF SubRp, rpEnum, credEnum, seen
<1>7. CASE EnumerateRPsBegin
  <2>1. rpTotal' \in Byte /\ rpCounter' \in Byte
      BY <1>7, <1>a, <1>c, <1>d, TypeFacts DEF EnumerateRPsBegin
  <2> QED
      BY <1>7, <1>a, <1>b, <2>1 DEF EnumerateRPsBegin, files, credEnum
<1>8. CASE EnumerateRPsNext
    BY <1>8, <1>a, <1>b, <1>c DEF EnumerateRPsNext, files, credEnum
<1>9. ASSUME NEW r \in RPs, NEW opens \in BOOLEAN, EnumerateCredsBegin(r, opens) PROVE TypeInv'
  <2>1. credTotal' \in Byte /\ credCounter' \in Byte
      BY <1>9, <1>a, <1>c, <1>d, TypeFacts DEF EnumerateCredsBegin
  <2>2. hash' \in {r, hash} /\ asked' \in {r, NoHash}
      BY <1>9 DEF EnumerateCredsBegin
  <2> QED
      BY <1>9, <1>a, <1>b, <2>1, <2>2 DEF EnumerateCredsBegin, files, rpEnum
<1>10. ASSUME NEW r \in RPs \cup {NoHash}, NEW opens \in BOOLEAN, EnumerateCredsNext(r, opens) PROVE TypeInv'
  <2>1. credCounter' \in Byte /\ hash' \in {hash, Freed} /\ asked' \in {asked, NoHash}
      BY <1>10, <1>a, <1>c DEF EnumerateCredsNext, Keep
  <2> QED
      BY <1>10, <1>a, <1>b, <2>1 DEF EnumerateCredsNext, files, rpEnum
<1>11. CASE PowerLoss
    BY <1>11, <1>a, <1>b, <1>c DEF PowerLoss, ForgetEnums, Interrupt
<1>12. CASE FactoryReset
    BY <1>12, <1>a, <1>b DEF FactoryReset, Interrupt, rpEnum, credEnum
<1>13. CASE UNCHANGED vars
    BY <1>13, <1>a, <1>b DEF vars, files, rpEnum, credEnum, seen
<1> QED
    BY <1>2, <1>3, <1>4, <1>5, <1>6, <1>7, <1>8, <1>9, <1>10, <1>11, <1>12, <1>13 DEF Next

LEMMA StepTodo == TypeInv /\ TodoInv /\ [Next]_vars => TodoInv'
<1> SUFFICES ASSUME TypeInv, TodoInv, [Next]_vars PROVE TodoInv'
    OBVIOUS
<1>a. TypeOK
    BY DEF TypeInv
<1>1. ASSUME todo' = Idle PROVE TodoInv'
    BY <1>1, TodoFacts DEF TodoInv
<1>2. ASSUME UNCHANGED files, stale' = stale \/ todo = Idle PROVE TodoInv'
  <2>1. CredsOf(todo.rp)' = CredsOf(todo.rp) /\ Used(cred)' = Used(cred) /\ todo' = todo
      BY <1>2 DEF files, CredsOf, Used
  <2> QED
      BY <1>2, <2>1, TodoFacts DEF TodoInv
<1>3. ASSUME NEW r \in RPs, NEW i \in Slot, Stored(r, i) PROVE TodoInv'
  <2>1. CASE todo' = Idle
      BY <1>1, <2>1
  <2>2. CASE todo' = Todo("add", r)
    <3>1. todo'.op = "add" /\ todo'.rp = r
        BY <2>2, TodoFacts
    <3>2. CredsOf(r)' # {} /\ stale' = {"rp", "cred"}
        BY <1>3 DEF Stored, Interrupt
    <3>3. CredsOf(todo.rp)' = CredsOf(r)'
        BY <3>1
    <3> QED
        BY <3>1, <3>2, <3>3 DEF TodoInv
  <2> QED
      BY <1>3, <2>1, <2>2 DEF Stored
<1>4. ASSUME NEW i \in Slot, Delete(i) PROVE TodoInv'
  <2>1. PICK r \in RPs : todo' = Todo("sub", r)
      BY <1>4, <1>a, DeleteFacts
  <2>2. todo'.op = "sub" /\ todo'.rp = r
      BY <2>1, TodoFacts
  <2>3. Used(cred)' # Slot /\ stale' = {"rp", "cred"}
      BY <1>4, <1>a, DeleteFacts DEF Delete, Interrupt
  <2> QED
      BY <2>2, <2>3 DEF TodoInv
<1>5. ASSUME NEW r \in RPs, NEW u \in Users, Store(r, u) PROVE TodoInv'
    BY <1>5, <1>a, <1>3, StoreFacts
<1>6. ASSUME NEW i \in Slot, UpdateUser(i) PROVE TodoInv'
    BY <1>6, <1>a, <1>3, UpdateFacts
<1>7. CASE AddRp \/ SubRp
    BY <1>7, <1>1 DEF AddRp, SubRp
<1>8. CASE EnumerateRPsBegin \/ EnumerateRPsNext
    BY <1>8, <1>2 DEF EnumerateRPsBegin, EnumerateRPsNext
<1>9. ASSUME NEW r \in RPs, NEW opens \in BOOLEAN, EnumerateCredsBegin(r, opens) PROVE TodoInv'
    BY <1>9, <1>2 DEF EnumerateCredsBegin
<1>10. ASSUME NEW r \in RPs \cup {NoHash}, NEW opens \in BOOLEAN, EnumerateCredsNext(r, opens) PROVE TodoInv'
    BY <1>10, <1>2 DEF EnumerateCredsNext
<1>11. CASE PowerLoss \/ FactoryReset
    BY <1>11, <1>1 DEF PowerLoss, FactoryReset
<1>12. CASE UNCHANGED vars
    BY <1>12, <1>2 DEF vars, seen
<1> QED
    BY <1>4, <1>5, <1>6, <1>7, <1>8, <1>9, <1>10, <1>11, <1>12 DEF Next

-----------------------------------------------------------------------------
(* Counts *)

LEMMA CountedFacts ==
    ASSUME TypeOK, NEW r \in RPs
    PROVE  /\ Cardinality(CredsOf(r)) \in 0..Slots /\ (Cardinality(CredsOf(r)) = 0 <=> CredsOf(r) = {})
           /\ \A s \in RPs \ {r} : todo = Todo("add", s) \/ todo = Todo("sub", s)
                 => Counted(r) = Cardinality(CredsOf(r))
           /\ todo = Idle => Counted(r) = Cardinality(CredsOf(r))
           /\ todo = Todo("add", r) => Counted(r) = Cardinality(CredsOf(r)) - 1
           /\ todo = Todo("sub", r) => Counted(r) = Cardinality(CredsOf(r)) + 1
<1>1. Cardinality(CredsOf(r)) \in 0..Slots /\ (Cardinality(CredsOf(r)) = 0 <=> CredsOf(r) = {})
    BY TypeFacts, SlotSets
<1>2. Cardinality(CredsOf(r)) \in Int
    BY <1>1
<1>3. \A s \in RPs \ {r} : todo = Todo("add", s) \/ todo = Todo("sub", s) => Pending(r) = 0
    BY TodoFacts DEF Pending
<1>4. todo = Idle => Pending(r) = 0
    BY TodoFacts DEF Pending
<1>5. todo = Todo("add", r) => Pending(r) = 1
    BY TodoFacts DEF Pending
<1>6. todo = Todo("sub", r) => Pending(r) = -1
    BY TodoFacts DEF Pending
<1> QED
    BY <1>1, <1>2, <1>3, <1>4, <1>5, <1>6 DEF Counted

(* There is a free file for a party that gets its first credential: every  *)
(* file belongs to a party with a credential, and the new one has a slot.  *)
LEMMA RoomForRp ==
    ASSUME TypeOK, TodoInv, CountInv, ~cut,
           NEW r \in RPs, todo = Todo("add", r), FilesOf(r) = {}
    PROVE  Used(rpFile) # Slot
<1> SUFFICES ASSUME Used(rpFile) = Slot PROVE FALSE
    OBVIOUS
<1>1. ASSUME NEW i \in Slot
      PROVE  /\ rpFile[i].rp \in RPs \ {r} /\ CredsOf(rpFile[i].rp) # {}
             /\ FilesOf(rpFile[i].rp) = {i}
  <2>1. rpFile[i].rp \in RPs /\ i \in FilesOf(rpFile[i].rp)
      BY TypeFacts DEF FilesOf, RpFiles
  <2>2. PICK s \in RPs : s = rpFile[i].rp /\ i \in FilesOf(s) /\ s # r
      BY <2>1
  <2>3. Counts(s, Counted(s)) /\ Counted(s) = Cardinality(CredsOf(s))
      BY <2>2, CountedFacts DEF CountInv
  <2>4. Counted(s) # 0 /\ FilesOf(s) = {i}
      BY <2>2, <2>3 DEF Counts
  <2> QED
      BY <2>2, <2>3, <2>4, CountedFacts
<1> DEFINE f == [i \in Slot |-> CHOOSE j \in CredsOf(rpFile[i].rp) : TRUE]
<1>2. \A i \in Slot : f[i] \in CredsOf(rpFile[i].rp)
    BY <1>1
<1>3. f \in [Slot -> Slot]
    BY <1>2, TypeFacts
<1> HIDE DEF f
<1>4. \A i \in Slot : cred[f[i]].rp = rpFile[i].rp
    BY <1>2 DEF CredsOf
<1>5. ASSUME NEW i \in Slot, NEW k \in Slot, f[i] = f[k] PROVE i = k
  <2>1. rpFile[i].rp = rpFile[k].rp
      BY <1>4, <1>5
  <2> QED
      BY <1>1, <2>1
<1>6. f \in Injection(Slot, Slot)
    BY <1>3, <1>5 DEF Injection, IsInjective
<1>7. IsFiniteSet(Slot)
    BY FS_Interval, ByteFacts DEF Slot
<1>8. f \in Surjection(Slot, Slot)
    BY <1>6, <1>7, FS_Injection
<1>9. PICK j \in Slot : j \in CredsOf(r)
    BY TodoFacts, TypeFacts DEF TodoInv
<1>10. PICK i \in Slot : f[i] = j
    BY <1>8, <1>9 DEF Surjection
<1> QED
    BY <1>1, <1>4, <1>9, <1>10 DEF CredsOf

LEMMA InitCount == Init => CountInv
<1> SUFFICES ASSUME Init, NEW r \in RPs PROVE Counts(r, Counted(r))
    BY DEF CountInv
<1>1. TypeOK
    BY InitType DEF TypeInv
<1>2. CredsOf(r) = {} /\ FilesOf(r) = {} /\ todo = Idle
    BY DEF Init, CredsOf, FilesOf, Used
<1> QED
    BY <1>1, <1>2, CountedFacts DEF Counts

LEMMA StepCount == TypeInv /\ TodoInv /\ CountInv /\ [Next]_vars => CountInv'
<1> SUFFICES ASSUME TypeInv, TodoInv, CountInv, [Next]_vars, ~cut' PROVE \A r \in RPs : Counts(r, Counted(r))'
    BY DEF CountInv
<1>a. TypeOK /\ TypeOK'
    BY StepType DEF TypeInv
<1>b. \A r \in RPs : /\ Cardinality(CredsOf(r)) \in 0..Slots
                     /\ Cardinality(CredsOf(r)) \in Nat /\ IsFiniteSet(CredsOf(r))
                     /\ (Cardinality(CredsOf(r)) = 0 <=> CredsOf(r) = {})
  <2>1. \A n \in 0..Slots : n \in Nat
      BY ByteFacts
  <2> QED
      BY <1>a, <2>1, CountedFacts, TypeFacts, SlotSets
\* A step that writes no file of a relying party
<1>c. ASSUME ~cut, rpFile' = rpFile, NEW r \in RPs, Counted(r)' = Counted(r)
      PROVE  Counts(r, Counted(r))'
  <2>1. FilesOf(r)' = FilesOf(r)
      BY <1>c DEF FilesOf, Used
  <2>2. Counts(r, Counted(r))
      BY <1>c DEF CountInv
  <2> QED
      BY <1>c, <2>1, <2>2 DEF Counts
<1>d. ASSUME ~cut, UNCHANGED files, NEW r \in RPs PROVE Counts(r, Counted(r))'
  <2>1. CredsOf(r)' = CredsOf(r) /\ Pending(r)' = Pending(r)
      BY <1>d DEF files, CredsOf, Used, Pending
  <2> QED
      BY <1>c, <1>d, <2>1 DEF files, Counted
<1>1. ASSUME NEW r \in RPs, NEW i \in Slot, Stored(r, i), NEW s \in RPs PROVE Counts(s, Counted(s))'
  <2>1. ~cut /\ rpFile' = rpFile /\ todo = Idle
      BY <1>1 DEF Stored
  <2>2. Counted(s) = Cardinality(CredsOf(s))
      BY <1>a, <2>1, CountedFacts
  <2>3. CASE s = r
    <3>1. CASE i \notin CredsOf(r) /\ todo' = Todo("add", r)
      <4>1. Cardinality(CredsOf(r)') = Cardinality(CredsOf(r)) + 1
          BY <1>1, <1>b, <3>1, FS_AddElement DEF Stored
      <4>2. Pending(r)' = 1
          BY <3>1, TodoFacts DEF Pending
      <4> QED
          BY <1>b, <1>c, <2>1, <2>2, <2>3, <4>1, <4>2 DEF Counted
    <3>2. CASE i \in CredsOf(r) /\ todo' = Idle
      <4>1. CredsOf(r)' = CredsOf(r)
          BY <1>1, <3>2 DEF Stored
      <4>2. Pending(r)' = 0
          BY <3>2, TodoFacts DEF Pending
      <4> QED
          BY <1>b, <1>c, <2>1, <2>2, <2>3, <4>1, <4>2 DEF Counted
    <3> QED
        BY <1>1, <3>1, <3>2 DEF Stored
  <2>4. CASE s # r
    <3>1. CredsOf(s)' = CredsOf(s)
        BY <1>1, <2>4 DEF Stored
    <3>2. Pending(s)' = 0
        BY <1>1, <2>4, TodoFacts DEF Stored, Pending
    <3> QED
        BY <1>b, <1>c, <2>1, <2>2, <3>1, <3>2 DEF Counted
  <2> QED
      BY <2>3, <2>4
<1>2. ASSUME NEW r \in RPs, NEW u \in Users, Store(r, u) PROVE \A s \in RPs : Counts(s, Counted(s))'
    BY <1>2, <1>a, <1>1, StoreFacts
<1>3. ASSUME NEW i \in Slot, UpdateUser(i) PROVE \A s \in RPs : Counts(s, Counted(s))'
    BY <1>3, <1>a, <1>1, UpdateFacts
<1>4. ASSUME NEW i \in Slot, Delete(i), NEW s \in RPs PROVE Counts(s, Counted(s))'
  <2>1. ~cut /\ rpFile' = rpFile /\ todo = Idle
      BY <1>4 DEF Delete
  <2>2. Counted(s) = Cardinality(CredsOf(s))
      BY <1>a, <2>1, CountedFacts
  <2>3. PICK r \in RPs : /\ i \in CredsOf(r) /\ CredsOf(r)' = CredsOf(r) \ {i}
                         /\ \A t \in RPs \ {r} : CredsOf(t)' = CredsOf(t)
                         /\ todo' = Todo("sub", r)
      BY <1>4, <1>a, DeleteFacts
  <2>4. CASE s = r
    <3>1. Cardinality(CredsOf(r)') = Cardinality(CredsOf(r)) - 1
        BY <1>b, <2>3, FS_RemoveElement
    <3>2. Pending(r)' = -1
        BY <2>3, TodoFacts DEF Pending
    <3> QED
        BY <1>b, <1>c, <2>1, <2>2, <2>4, <3>1, <3>2 DEF Counted
  <2>5. CASE s # r
    <3>1. CredsOf(s)' = CredsOf(s) /\ Pending(s)' = 0
        BY <2>3, <2>5, TodoFacts DEF Pending
    <3> QED
        BY <1>b, <1>c, <2>1, <2>2, <3>1 DEF Counted
  <2> QED
      BY <2>4, <2>5
<1>5. ASSUME AddRp, NEW s \in RPs PROVE Counts(s, Counted(s))'
  <2>1. ~cut /\ todo' = Idle /\ cred' = cred
      BY <1>5 DEF AddRp
  <2>2. PICK r \in RPs :
           /\ todo = Todo("add", r)
           /\ \A t \in RPs \ {r} : FilesOf(t)' = FilesOf(t) /\ \A j \in FilesOf(t) : rpFile'[j] = rpFile[j]
           /\ FilesOf(r) = {} /\ Used(rpFile) # Slot
                 => \E i \in Slot : FilesOf(r)' = {i} /\ rpFile'[i].n = 1
           /\ \A i : FilesOf(r) = {i} => FilesOf(r)' = {i} /\ rpFile'[i].n = (rpFile[i].n + 1) % Slots
      BY <1>5, <1>a, AddFacts
  <2>3. Counted(s)' = Cardinality(CredsOf(s))
    <3>1. Pending(s)' = 0 /\ CredsOf(s)' = CredsOf(s)
        BY <2>1, TodoFacts DEF Pending, CredsOf, Used
    <3> QED
        BY <1>b, <3>1 DEF Counted
  <2>4. Counts(s, Counted(s))
      BY <2>1 DEF CountInv
  <2>5. CASE s = r
    <3> DEFINE m == Counted(s)
    <3>1. m \in Int /\ Counted(s)' = m + 1 /\ m + 1 <= Slots /\ m + 1 # 0 /\ m + 1 >= 0
      <4>1. m = Cardinality(CredsOf(s)) - 1
          BY <1>a, <2>2, <2>5, CountedFacts
      <4>2. Cardinality(CredsOf(s)) # 0
          BY <1>b, <2>2, <2>5, TodoFacts DEF TodoInv
      <4>3. \A n \in 0..Slots : n \in Int /\ n <= Slots /\ n >= 0
          BY ByteFacts
      <4> QED
          BY <1>b, <2>3, <4>1, <4>2, <4>3
    <3>2. CASE m = 0
      <4>1. FilesOf(r) = {} /\ Used(rpFile) # Slot
        <5>1. FilesOf(r) = {}
            BY <2>4, <2>5, <3>2 DEF Counts
        <5> QED
            BY <1>a, <2>1, <2>2, <5>1, RoomForRp
      <4>2. Counted(s)' = 1 /\ 1 % Slots = 1
          BY <3>1, <3>2, ByteFacts DEF Byte
      <4> QED
          BY <2>2, <2>5, <4>1, <4>2 DEF Counts
    <3>3. CASE m # 0
      <4>1. PICK i \in Slot : FilesOf(s) = {i} /\ rpFile[i].n = m % Slots
          BY <2>4, <3>3 DEF Counts
      <4>2. FilesOf(s)' = {i} /\ rpFile'[i].n = ((m % Slots) + 1) % Slots
          BY <2>2, <2>5, <4>1
      <4> HIDE DEF m
      <4>3. m \in 0..Slots - 1
          BY <3>1, ByteFacts
      <4>4. ((m % Slots) + 1) % Slots = (m + 1) % Slots
          BY <4>3, ByteFacts DEF Byte
      <4>5. Counted(s)' # 0
          BY <3>1
      <4> QED
          BY <3>1, <4>2, <4>4, <4>5 DEF Counts
    <3> QED
        BY <3>2, <3>3
  <2>6. CASE s # r
    <3>1. Counted(s) = Cardinality(CredsOf(s))
        BY <1>a, <2>2, <2>6, CountedFacts
    <3>2. FilesOf(s)' = FilesOf(s) /\ \A j \in FilesOf(s) : rpFile'[j] = rpFile[j]
        BY <2>2, <2>6
    <3> QED
        BY <2>3, <2>4, <3>1, <3>2 DEF Counts
  <2> QED
      BY <2>5, <2>6
<1>6. ASSUME SubRp, NEW s \in RPs PROVE Counts(s, Counted(s))'
  <2>1. ~cut /\ todo' = Idle /\ cred' = cred
      BY <1>6 DEF SubRp
  <2>2. PICK r \in RPs :
           /\ todo = Todo("sub", r)
           /\ \A t \in RPs \ {r} : FilesOf(t)' = FilesOf(t) /\ \A j \in FilesOf(t) : rpFile'[j] = rpFile[j]
           /\ \A i : FilesOf(r) = {i} =>
                 IF rpFile[i].n = 1 THEN FilesOf(r)' = {}
                 ELSE FilesOf(r)' = {i} /\ rpFile'[i].n = (rpFile[i].n - 1) % Slots
      BY <1>6, <1>a, SubFacts
  <2>3. Counted(s)' = Cardinality(CredsOf(s))
    <3>1. Pending(s)' = 0 /\ CredsOf(s)' = CredsOf(s)
        BY <2>1, TodoFacts DEF Pending, CredsOf, Used
    <3> QED
        BY <1>b, <3>1 DEF Counted
  <2>4. Counts(s, Counted(s))
      BY <2>1 DEF CountInv
  <2>5. CASE s = r
    <3> DEFINE m == Counted(s)
    <3>1. m \in 1..Slots /\ Counted(s)' = m - 1
      <4>1. m = Cardinality(CredsOf(s)) + 1
          BY <1>a, <2>2, <2>5, CountedFacts
      <4>2. Cardinality(CredsOf(s)) < Slots
        <5>1. Used(cred) # Slot /\ CredsOf(s) \in SUBSET Used(cred)
            BY <2>2, TodoFacts DEF TodoInv, CredsOf
        <5>2. Cardinality(CredsOf(s)) <= Cardinality(Used(cred)) /\ Cardinality(Used(cred)) < Slots
            BY <1>a, <5>1, TypeFacts, SlotSets
        <5>3. Cardinality(Used(cred)) \in Int
            BY <1>a, TypeFacts, SlotSets, ByteFacts
        <5> QED
            BY <1>b, <5>2, <5>3, ByteFacts
      <4> QED
          BY <1>b, <2>3, <4>1, <4>2, ByteFacts
    <3>2. PICK i \in Slot : FilesOf(s) = {i} /\ rpFile[i].n = m % Slots
      <4>1. m # 0
          BY <3>1
      <4> QED
          BY <2>4, <4>1 DEF Counts
    <3>3. IF m % Slots = 1 THEN FilesOf(s)' = {}
          ELSE FilesOf(s)' = {i} /\ rpFile'[i].n = ((m % Slots) - 1) % Slots
        BY <2>2, <2>5, <3>2
    <3> HIDE DEF m
    <3>4. m % Slots = 1 <=> m = 1
        BY <3>1, LessFacts
    <3>5. ((m % Slots) - 1) % Slots = (m - 1) % Slots
        BY <3>1, LessFacts
    <3>6. m = 1 <=> Counted(s)' = 0
        BY <3>1
    <3> QED
        BY <3>1, <3>3, <3>4, <3>5, <3>6 DEF Counts
  <2>6. CASE s # r
    <3>1. Counted(s) = Cardinality(CredsOf(s))
        BY <1>a, <2>2, <2>6, CountedFacts
    <3>2. FilesOf(s)' = FilesOf(s) /\ \A j \in FilesOf(s) : rpFile'[j] = rpFile[j]
        BY <2>2, <2>6
    <3> QED
        BY <2>3, <2>4, <3>1, <3>2 DEF Counts
  <2> QED
      BY <2>5, <2>6
<1>7. CASE EnumerateRPsBegin \/ EnumerateRPsNext
    BY <1>7, <1>d DEF EnumerateRPsBegin, EnumerateRPsNext
<1>8. ASSUME NEW r \in RPs, NEW opens \in BOOLEAN, EnumerateCredsBegin(r, opens)
      PROVE  \A s \in RPs : Counts(s, Counted(s))'
    BY <1>8, <1>d DEF EnumerateCredsBegin
<1>9. ASSUME NEW r \in RPs \cup {NoHash}, NEW opens \in BOOLEAN, EnumerateCredsNext(r, opens)
      PROVE  \A s \in RPs : Counts(s, Counted(s))'
    BY <1>9, <1>d DEF EnumerateCredsNext
<1>10. CASE PowerLoss
  <2>1. ~cut /\ UNCHANGED files
      BY <1>10 DEF PowerLoss, files
  <2> QED
      BY <1>d, <2>1
<1>11. ASSUME FactoryReset, NEW s \in RPs PROVE Counts(s, Counted(s))'
  <2>1. CredsOf(s)' = {} /\ FilesOf(s)' = {} /\ todo' = Idle
      BY <1>11 DEF FactoryReset, CredsOf, FilesOf, Used
  <2>2. Pending(s)' = 0 /\ Cardinality(CredsOf(s)') = 0
      BY <2>1, TodoFacts, FS_EmptySet DEF Pending
  <2> QED
      BY <2>1, <2>2 DEF Counts, Counted
<1>12. CASE UNCHANGED vars
    BY <1>12, <1>d DEF vars
<1> QED
    BY <1>2, <1>3, <1>4, <1>5, <1>6, <1>7, <1>8, <1>9, <1>10, <1>11, <1>12 DEF Next

-----------------------------------------------------------------------------
(* Enumerations *)

LEMMA StepHash == HashLive /\ [Next]_vars => HashLive'
<1> SUFFICES ASSUME HashLive, [Next]_vars, credCounter' <= credTotal', "cred" \notin stale'
             PROVE  hash' = asked'
    BY DEF HashLive
<1>1. ASSUME NEW r \in RPs, NEW u \in Users, Store(r, u) PROVE hash' = asked'
    BY <1>1 DEF Store, Interrupt
<1>2. ASSUME NEW i \in Slot, UpdateUser(i) \/ Delete(i) PROVE hash' = asked'
    BY <1>2 DEF UpdateUser, Delete, Interrupt
<1>3. CASE AddRp \/ SubRp \/ EnumerateRPsBegin \/ EnumerateRPsNext \/ UNCHANGED vars
  <2>1. UNCHANGED <<credCounter, credTotal, hash, asked>> /\ ("cred" \in stale' <=> "cred" \in stale)
      BY <1>3 DEF AddRp, SubRp, EnumerateRPsBegin, EnumerateRPsNext, vars, credEnum, seen
  <2> QED
      BY <2>1 DEF HashLive
<1>4. ASSUME NEW r \in RPs, NEW opens \in BOOLEAN, EnumerateCredsBegin(r, opens) PROVE hash' = asked'
    BY <1>4 DEF EnumerateCredsBegin
<1>5. ASSUME NEW r \in RPs \cup {NoHash}, NEW opens \in BOOLEAN, EnumerateCredsNext(r, opens) PROVE hash' = asked'
  <2>1. /\ credCounter <= credTotal /\ stale' = stale /\ asked' = asked /\ credTotal' = credTotal
        /\ hash' = Keep(credCounter')
      BY <1>5 DEF EnumerateCredsNext
  <2> QED
      BY <2>1 DEF HashLive, Keep
<1>6. CASE PowerLoss \/ FactoryReset
    BY <1>6 DEF PowerLoss, FactoryReset, Interrupt
<1> QED
    BY <1>1, <1>2, <1>3, <1>4, <1>5, <1>6 DEF Next

(* What is next after the first m *)
LEMMA NextFacts ==
    ASSUME NEW S \in SUBSET Slot, Cardinality(S) < Slots,
           NEW m \in 0..Cardinality(S), NEW pos, pos = (m + 1) % Slots
    PROVE  /\ pos \in Byte
           /\ Nth(S, pos) # 0 =>
                 /\ Nth(S, pos) \in S /\ pos = m + 1
                 /\ m + 1 \in 0..Cardinality(S) /\ First(S, m + 1) = First(S, m) \cup {Nth(S, pos)}
           /\ pos \in 1..Cardinality(S) => Nth(S, pos) \in S \ First(S, m)
           /\ pos \notin 1..Cardinality(S) => m = Cardinality(S) /\ First(S, m) = S
<1>1. m \in Nat /\ m + 1 \in 1..Slots /\ Cardinality(S) \in Nat /\ Cardinality(S) < Slots
  <2>1. PICK c \in Nat : c = Cardinality(S)
      BY SlotSets, ByteFacts
  <2>2. c < Slots /\ m \in 0..c /\ Slots \in Nat
      BY <2>1, ByteFacts
  <2>3. m \in Nat /\ m + 1 \in 1..Slots
      BY <2>2
  <2>4. Cardinality(S) \in Nat
      BY <2>1
  <2>5. Cardinality(S) < Slots
      OBVIOUS
  <2> QED
      BY <2>3, <2>4, <2>5
<1>2. (m + 1 = Slots /\ pos = 0) \/ (m + 1 \in Byte /\ pos = m + 1)
  <2>1. m + 1 = Slots => pos = 0
      BY ByteFacts
  <2>2. m + 1 # Slots => m + 1 \in Byte
      BY <1>1, ByteFacts DEF Byte
  <2>3. m + 1 \in Byte => pos = m + 1
      BY ByteFacts
  <2> QED
      BY <2>1, <2>2, <2>3
<1>3. pos \in Byte
    BY <1>2, ByteFacts DEF Byte
<1>4. ASSUME Nth(S, pos) # 0
      PROVE  /\ Nth(S, pos) \in S /\ pos = m + 1
             /\ m + 1 \in 0..Cardinality(S) /\ First(S, m + 1) = First(S, m) \cup {Nth(S, pos)}
  <2>1. Nth(S, pos) \in S /\ Place(S, Nth(S, pos)) = pos
      BY <1>3, <1>4, NthFacts
  <2>2. pos \in 1..Cardinality(S)
      BY <2>1, SlotPlaces
  <2>3. pos = m + 1 /\ m + 1 \in 0..Cardinality(S)
      BY <1>1, <1>2, <2>2
  <2> QED
      BY <1>1, <2>1, <2>3, FirstFacts
<1>5. ASSUME pos \in 1..Cardinality(S) PROVE Nth(S, pos) \in S \ First(S, m)
  <2>1. Nth(S, pos) \in S /\ Place(S, Nth(S, pos)) = pos
      BY <1>3, <1>5, NthFacts
  <2>2. pos = m + 1
      BY <1>1, <1>2, <1>5
  <2>3. ~(pos <= m)
      BY <1>1, <2>2
  <2> QED
      BY <2>1, <2>3 DEF First
<1>6. ASSUME pos \notin 1..Cardinality(S) PROVE m = Cardinality(S) /\ First(S, m) = S
  <2>1. m = Cardinality(S)
      BY <1>1, <1>2, <1>6
  <2> QED
      BY <2>1, FirstFacts
<1> QED
    BY <1>3, <1>4, <1>5, <1>6

LEMMA SmallFacts ==
    ASSUME NEW S \in SUBSET Slot, Cardinality(S) < Slots
    PROVE  Cardinality(S) % Slots = Cardinality(S)
BY SlotSets, ByteFacts DEF Byte

LEMMA StepRpEnum == TypeInv /\ TodoInv /\ RpEnumInv /\ [Next]_vars => RpEnumInv'
<1> SUFFICES ASSUME TypeInv, TodoInv, RpEnumInv, [Next]_vars, "rp" \notin stale'
             PROVE  /\ todo' = Idle
                    /\ rpTotal' = Cardinality(Listed') % Slots
                    /\ Cardinality(Listed') < Slots =>
                          \E m \in 0..rpTotal' : /\ rpCounter' = (m + 1) % Slots
                                                 /\ rpsSeen' = {rpFile'[i].rp : i \in First(Listed', m)}
    BY DEF RpEnumInv
<1>a. TypeOK /\ Listed \in SUBSET Slot
    BY TypeFacts DEF TypeInv
<1>1. ~PowerLoss /\ ~FactoryReset /\ ~AddRp /\ ~SubRp
  <2>1. AddRp \/ SubRp => todo # Idle
      BY TodoFacts DEF AddRp, SubRp
  <2> QED
      BY <2>1 DEF PowerLoss, FactoryReset, Interrupt, AddRp, SubRp, seen, TodoInv
<1>2. ASSUME NEW r \in RPs, NEW u \in Users PROVE ~Store(r, u)
    BY DEF Store, Interrupt
<1>3. ASSUME NEW i \in Slot PROVE ~UpdateUser(i) /\ ~Delete(i)
    BY DEF UpdateUser, Delete, Interrupt
<1>4. ASSUME UNCHANGED <<rpFile, todo, rpTotal, rpCounter, rpsSeen>>, "rp" \notin stale
      PROVE  /\ todo' = Idle
             /\ rpTotal' = Cardinality(Listed') % Slots
             /\ Cardinality(Listed') < Slots =>
                   \E m \in 0..rpTotal' : /\ rpCounter' = (m + 1) % Slots
                                          /\ rpsSeen' = {rpFile'[i].rp : i \in First(Listed', m)}
  <2>1. Listed' = Listed
      BY <1>4 DEF Listed, Used
  <2> QED
      BY <1>4, <2>1 DEF RpEnumInv
<1>5. CASE EnumerateRPsBegin
  <2>1. /\ Listed' = Listed /\ rpFile' = rpFile /\ todo' = Idle
        /\ rpTotal' = Cardinality(Listed) % Slots
      BY <1>5 DEF EnumerateRPsBegin, files, Listed, Used
  <2>2. ASSUME Cardinality(Listed) < Slots
        PROVE  \E m \in 0..rpTotal' : /\ rpCounter' = (m + 1) % Slots
                                      /\ rpsSeen' = {rpFile[i].rp : i \in First(Listed, m)}
    <3>1. rpTotal' = Cardinality(Listed) /\ Cardinality(Listed) \in Nat /\ First(Listed, 0) = {}
        BY <1>a, <2>1, <2>2, SmallFacts, FirstFacts, SlotSets, ByteFacts
    <3>2. CASE Listed = {}
      <4>1. rpCounter' = 1 /\ rpsSeen' = {}
          BY <1>5, <3>2 DEF EnumerateRPsBegin
      <4>2. (0 + 1) % Slots = 1
          BY ByteFacts DEF Byte
      <4>3. 0 \in 0..rpTotal' /\ {rpFile[i].rp : i \in First(Listed, 0)} = {}
          BY <3>1
      <4> QED
          BY <4>1, <4>2, <4>3
    <3>3. CASE Listed # {}
      <4>1. rpCounter' = (1 + 1) % Slots /\ rpsSeen' = {rpFile[Lowest(Listed)].rp}
          BY <1>5, <3>3 DEF EnumerateRPsBegin
      <4>2. First(Listed, 1) = {Lowest(Listed)} /\ Cardinality(Listed) # 0
          BY <1>a, <3>3, FirstFacts, SlotSets
      <4>3. 1 \in 0..rpTotal' /\ rpsSeen' = {rpFile[i].rp : i \in First(Listed, 1)}
          BY <3>1, <4>1, <4>2
      <4> QED
          BY <4>1, <4>3
    <3> QED
        BY <3>2, <3>3
  <2> QED
      BY <2>1, <2>2
<1>6. CASE EnumerateRPsNext
  <2> DEFINE i == Nth(Listed, rpCounter)
  <2>1. /\ Listed' = Listed /\ rpFile' = rpFile /\ UNCHANGED <<todo, rpTotal>> /\ "rp" \notin stale
        /\ rpCounter' = (rpCounter + 1) % Slots /\ i # 0 /\ rpsSeen' = rpsSeen \cup {rpFile[i].rp}
      BY <1>6 DEF EnumerateRPsNext, files, Listed, Used
  <2> HIDE DEF i
  <2>2. todo = Idle /\ rpTotal = Cardinality(Listed) % Slots
      BY <2>1 DEF RpEnumInv
  <2>3. ASSUME Cardinality(Listed) < Slots
        PROVE  \E m \in 0..rpTotal : /\ rpCounter' = (m + 1) % Slots
                                     /\ rpsSeen' = {rpFile[j].rp : j \in First(Listed, m)}
    <3>1. rpTotal = Cardinality(Listed)
        BY <1>a, <2>2, <2>3, SmallFacts
    <3>2. PICK m \in 0..rpTotal : /\ rpCounter = (m + 1) % Slots
                                  /\ rpsSeen = {rpFile[j].rp : j \in First(Listed, m)}
        BY <2>1, <2>3 DEF RpEnumInv
    <3>3. /\ rpCounter = m + 1 /\ m + 1 \in 0..rpTotal
          /\ First(Listed, m + 1) = First(Listed, m) \cup {i}
        BY <1>a, <2>1, <2>3, <3>1, <3>2, NextFacts DEF i
    <3>4. rpsSeen' = {rpFile[j].rp : j \in First(Listed, m + 1)}
        BY <2>1, <3>2, <3>3
    <3>5. rpCounter' = ((m + 1) + 1) % Slots
        BY <2>1, <3>3
    <3> QED
        BY <3>3, <3>4, <3>5
  <2> QED
      BY <2>1, <2>2, <2>3
<1>7. ASSUME NEW r \in RPs, NEW opens \in BOOLEAN, EnumerateCredsBegin(r, opens)
      PROVE  UNCHANGED <<rpFile, todo, rpTotal, rpCounter, rpsSeen>> /\ "rp" \notin stale
  <2>1. stale' = stale \ {"cred"} \/ stale' = stale \cup {"cred"}
      BY <1>7 DEF EnumerateCredsBegin
  <2> QED
      BY <1>7, <2>1 DEF EnumerateCredsBegin, files, rpEnum
<1>8. ASSUME NEW r \in RPs \cup {NoHash}, NEW opens \in BOOLEAN, EnumerateCredsNext(r, opens)
      PROVE  UNCHANGED <<rpFile, todo, rpTotal, rpCounter, rpsSeen>> /\ "rp" \notin stale
  <2>1. stale' = stale \/ stale' = stale \cup {"cred"}
      BY <1>8 DEF EnumerateCredsNext
  <2> QED
      BY <1>8, <2>1 DEF EnumerateCredsNext, files, rpEnum
<1>9. CASE UNCHANGED vars
    BY <1>4, <1>9 DEF vars, files, rpEnum, seen
<1> QED
    BY <1>1, <1>2, <1>3, <1>4, <1>5, <1>6, <1>7, <1>8, <1>9 DEF Next

LEMMA StepCredEnum == TypeInv /\ TodoInv /\ HashLive /\ CredEnumInv /\ [Next]_vars => CredEnumInv'
<1> SUFFICES ASSUME TypeInv, TodoInv, HashLive, CredEnumInv, [Next]_vars, "cred" \notin stale'
             PROVE  /\ todo' = Idle /\ asked' \in RPs
                    /\ credTotal' = Cardinality(CredsOf(asked)') % Slots
                    /\ Cardinality(CredsOf(asked)') < Slots =>
                          \E m \in 0..credTotal' : /\ credCounter' = (m + 1) % Slots
                                                   /\ credsSeen' = First(CredsOf(asked)', m)
    BY DEF CredEnumInv
<1>a. TypeOK /\ \A r : CredsOf(r) \in SUBSET Slot
    BY TypeFacts DEF TypeInv
<1>1. ~PowerLoss /\ ~FactoryReset /\ ~AddRp /\ ~SubRp
  <2>1. AddRp \/ SubRp => todo # Idle
      BY TodoFacts DEF AddRp, SubRp
  <2> QED
      BY <2>1 DEF PowerLoss, FactoryReset, Interrupt, AddRp, SubRp, seen, TodoInv
<1>2. ASSUME NEW r \in RPs, NEW u \in Users PROVE ~Store(r, u)
    BY DEF Store, Interrupt
<1>3. ASSUME NEW i \in Slot PROVE ~UpdateUser(i) /\ ~Delete(i)
    BY DEF UpdateUser, Delete, Interrupt
<1>4. ASSUME UNCHANGED <<cred, todo, asked, credTotal, credCounter, credsSeen>>, "cred" \notin stale
      PROVE  /\ todo' = Idle /\ asked' \in RPs
             /\ credTotal' = Cardinality(CredsOf(asked)') % Slots
             /\ Cardinality(CredsOf(asked)') < Slots =>
                   \E m \in 0..credTotal' : /\ credCounter' = (m + 1) % Slots
                                            /\ credsSeen' = First(CredsOf(asked)', m)
  <2>1. CredsOf(asked)' = CredsOf(asked)
      BY <1>4 DEF CredsOf, Used
  <2> QED
      BY <1>4, <2>1 DEF CredEnumInv
<1>5. ASSUME NEW r \in RPs, NEW opens \in BOOLEAN, EnumerateCredsBegin(r, opens)
      PROVE  /\ todo' = Idle /\ asked' \in RPs
             /\ credTotal' = Cardinality(CredsOf(asked)') % Slots
             /\ Cardinality(CredsOf(asked)') < Slots =>
                   \E m \in 0..credTotal' : /\ credCounter' = (m + 1) % Slots
                                            /\ credsSeen' = First(CredsOf(asked)', m)
  <2>1. /\ CredsOf(r) # {} /\ asked' = r /\ credCounter' = (1 + 1) % Slots
        /\ credsSeen' = {Lowest(CredsOf(r))} /\ todo' = Idle /\ cred' = cred
        /\ credTotal' = Cardinality(CredsOf(r)) % Slots
      BY <1>5 DEF EnumerateCredsBegin, files
  <2>2. CredsOf(asked)' = CredsOf(r)
      BY <2>1 DEF CredsOf, Used
  <2>3. ASSUME Cardinality(CredsOf(r)) < Slots PROVE 1 \in 0..credTotal'
    <3>1. credTotal' = Cardinality(CredsOf(r)) /\ Cardinality(CredsOf(r)) \in Nat /\ Cardinality(CredsOf(r)) # 0
        BY <1>a, <2>1, <2>3, SmallFacts, SlotSets, ByteFacts
    <3> QED
        BY <3>1
  <2>4. credsSeen' = First(CredsOf(r), 1)
      BY <1>a, <2>1, FirstFacts
  <2> QED
      BY <2>1, <2>2, <2>3, <2>4
<1>6. ASSUME NEW r \in RPs \cup {NoHash}, NEW opens \in BOOLEAN, EnumerateCredsNext(r, opens)
      PROVE  /\ todo' = Idle /\ asked' \in RPs
             /\ credTotal' = Cardinality(CredsOf(asked)') % Slots
             /\ Cardinality(CredsOf(asked)') < Slots =>
                   \E m \in 0..credTotal' : /\ credCounter' = (m + 1) % Slots
                                            /\ credsSeen' = First(CredsOf(asked)', m)
  <2> DEFINE i == Nth(CredsOf(r), credCounter)
  <2>1. /\ credCounter <= credTotal /\ r \in Compared /\ i # 0
        /\ UNCHANGED <<cred, todo, asked, credTotal, stale>>
        /\ credCounter' = (credCounter + 1) % Slots /\ credsSeen' = credsSeen \cup {i}
      BY <1>6 DEF EnumerateCredsNext, files
  <2>2. todo = Idle /\ asked \in RPs /\ credTotal = Cardinality(CredsOf(asked)) % Slots
      BY <2>1 DEF CredEnumInv
  <2>3. r = asked
      BY <2>1, <2>2 DEF HashLive, Compared
  <2>4. CredsOf(asked)' = CredsOf(r)
      BY <2>1, <2>3 DEF CredsOf, Used
  <2> HIDE DEF i
  <2>5. ASSUME Cardinality(CredsOf(r)) < Slots
        PROVE  \E m \in 0..credTotal : /\ credCounter' = (m + 1) % Slots
                                       /\ credsSeen' = First(CredsOf(r), m)
    <3>1. credTotal = Cardinality(CredsOf(r))
        BY <1>a, <2>2, <2>3, <2>5, SmallFacts
    <3>2. PICK m \in 0..credTotal : /\ credCounter = (m + 1) % Slots
                                    /\ credsSeen = First(CredsOf(r), m)
        BY <2>1, <2>3, <2>5 DEF CredEnumInv
    <3>3. /\ credCounter = m + 1 /\ m + 1 \in 0..credTotal
          /\ First(CredsOf(r), m + 1) = First(CredsOf(r), m) \cup {i}
        BY <1>a, <2>1, <2>5, <3>1, <3>2, NextFacts DEF i
    <3>4. credsSeen' = First(CredsOf(r), m + 1)
        BY <2>1, <3>2, <3>3
    <3>5. credCounter' = ((m + 1) + 1) % Slots
        BY <2>1, <3>3
    <3> QED
        BY <3>3, <3>4, <3>5
  <2> QED
      BY <2>1, <2>2, <2>3, <2>4, <2>5
<1>7. CASE EnumerateRPsBegin \/ EnumerateRPsNext
  <2>1. UNCHANGED <<cred, todo, asked, credTotal, credCounter, credsSeen>> /\ "cred" \notin stale
      BY <1>7 DEF EnumerateRPsBegin, EnumerateRPsNext, files, credEnum
  <2> QED
      BY <1>4, <2>1
<1>8. CASE UNCHANGED vars
    BY <1>4, <1>8 DEF vars, files, credEnum, seen
<1> QED
    BY <1>1, <1>2, <1>3, <1>5, <1>6, <1>7, <1>8 DEF Next

LEMMA InitEnums == Init => HashLive /\ RpEnumInv /\ CredEnumInv
<1>1. Init => stale = {"rp", "cred"}
    BY DEF Init
<1> QED
    BY <1>1 DEF HashLive, RpEnumInv, CredEnumInv

-----------------------------------------------------------------------------
(* What the runs check, for every store *)

IndInv == TypeInv /\ TodoInv /\ CountInv /\ HashLive /\ RpEnumInv /\ CredEnumInv

LEMMA Inductive == Spec => []IndInv
<1>1. Init => IndInv
    BY InitType, InitCount, InitEnums DEF IndInv
<1>2. IndInv /\ [Next]_vars => IndInv'
    BY StepType, StepTodo, StepCount, StepHash, StepRpEnum, StepCredEnum DEF IndInv
<1> QED
    BY <1>1, <1>2, PTL DEF Spec

(* The files hold credentials and counts of a byte, and a position in an   *)
(* enumeration is a byte (credential.c:330-384, cbor_cred_mgmt.c:27-31).   *)
THEOREM TypeCorrect == Spec => []TypeOK
<1>1. IndInv => TypeOK
    BY DEF IndInv, TypeInv
<1> QED
    BY Inductive, <1>1, PTL

(* The count of a relying party is the number of its credentials, in a     *)
(* byte, after every series of writes that a power loss did not cut        *)
(* (credential.c:340-376, cbor_cred_mgmt.c:379).                           *)
THEOREM CountsRight == Spec => []CountsExact
<1>1. IndInv => CountsExact
  <2> SUFFICES ASSUME IndInv, todo = Idle, ~cut, NEW r \in RPs
               PROVE  IF CredsOf(r) = {} THEN FilesOf(r) = {}
                      ELSE \E i \in Slot : FilesOf(r) = {i} /\ rpFile[i].n = Cardinality(CredsOf(r)) % Slots
      BY DEF CountsExact
  <2>1. TypeOK /\ Counts(r, Counted(r))
      BY DEF IndInv, TypeInv, CountInv
  <2>2. Counted(r) = Cardinality(CredsOf(r)) /\ (Counted(r) = 0 <=> CredsOf(r) = {})
      BY <2>1, CountedFacts
  <2> QED
      BY <2>1, <2>2 DEF Counts
<1> QED
    BY Inductive, <1>1, PTL

(* With exact counts, the relying parties listed are those of the credentials *)
LEMMA ListedFacts ==
    ASSUME IndInv, todo = Idle, ~cut, \A r \in RPs : Cardinality(CredsOf(r)) < Slots
    PROVE  {rpFile[i].rp : i \in Listed} = {cred[i].rp : i \in Used(cred)}
<1>1. TypeOK /\ \A r \in RPs : Counts(r, Counted(r))
    BY DEF IndInv, TypeInv, CountInv
<1>2. ASSUME NEW i \in Listed PROVE \E j \in Used(cred) : cred[j].rp = rpFile[i].rp
  <2>1. rpFile[i].rp \in RPs /\ i \in FilesOf(rpFile[i].rp)
      BY <1>1, TypeFacts DEF FilesOf, RpFiles, Listed
  <2>2. PICK r \in RPs : r = rpFile[i].rp /\ FilesOf(r) # {}
      BY <2>1
  <2>3. CredsOf(r) # {}
      BY <1>1, <2>2, CountedFacts DEF Counts
  <2> QED
      BY <2>2, <2>3 DEF CredsOf
<1>3. ASSUME NEW j \in Used(cred) PROVE \E i \in Listed : rpFile[i].rp = cred[j].rp
  <2>1. cred[j].rp \in RPs /\ j \in CredsOf(cred[j].rp)
      BY <1>1, TypeFacts DEF CredsOf, Creds
  <2>2. PICK r \in RPs : r = cred[j].rp /\ CredsOf(r) # {}
      BY <2>1
  <2>3. Counted(r) = Cardinality(CredsOf(r)) /\ Counted(r) # 0
      BY <1>1, <2>2, CountedFacts
  <2>4. PICK i \in Slot : FilesOf(r) = {i} /\ rpFile[i].n = Cardinality(CredsOf(r)) % Slots
      BY <1>1, <2>3 DEF Counts
  <2>5. CredsOf(r) \in SUBSET Slot /\ Cardinality(CredsOf(r)) < Slots
      BY <1>1, TypeFacts
  <2>6. rpFile[i].n = Counted(r)
      BY <2>3, <2>4, <2>5, SmallFacts
  <2>7. Cardinality(CredsOf(r)) \in Nat
      BY <2>5, SlotSets, ByteFacts
  <2>8. rpFile[i].n > 0
      BY <2>3, <2>6, <2>7
  <2> QED
      BY <2>2, <2>4, <2>8 DEF FilesOf, Listed
<1> QED
    BY <1>2, <1>3

(* An enumeration that nothing interrupts leaves no relying party out, and *)
(* no credential of the one that was asked for                             *)
(* (cbor_cred_mgmt.c:132-262).                                             *)
THEOREM EnumerationsFull == Spec => []EnumerationsComplete
<1>1. IndInv => RpsComplete
  <2> SUFFICES ASSUME IndInv, todo = Idle, ~cut, "rp" \notin stale,
                      rpCounter > rpTotal \/ rpCounter = 0,
                      Cardinality(Listed) < Slots,
                      \A r \in RPs : Cardinality(CredsOf(r)) < Slots
               PROVE  rpsSeen = {cred[i].rp : i \in Used(cred)}
      BY DEF RpsComplete
  <2>1. TypeOK /\ Listed \in SUBSET Slot
      BY TypeFacts DEF IndInv, TypeInv
  <2>2. rpTotal = Cardinality(Listed)
      BY <2>1, SmallFacts DEF IndInv, RpEnumInv
  <2>3. PICK m \in 0..Cardinality(Listed) :
                 rpCounter = (m + 1) % Slots /\ rpsSeen = {rpFile[i].rp : i \in First(Listed, m)}
      BY <2>2 DEF IndInv, RpEnumInv
  <2>4. rpCounter \in Nat /\ Cardinality(Listed) \in Nat
      BY <2>1, <2>2, ByteFacts DEF TypeOK
  <2>5. rpCounter \notin 1..Cardinality(Listed)
      BY <2>2, <2>4
  <2>6. First(Listed, m) = Listed
      BY <2>1, <2>3, <2>5, NextFacts
  <2> QED
      BY <2>3, <2>6, ListedFacts
<1>2. IndInv => CredsComplete
  <2> SUFFICES ASSUME IndInv, "cred" \notin stale, Cardinality(CredsOf(asked)) < Slots
               PROVE  IF credCounter \in 1..credTotal
                      THEN Nth(CredsOf(asked), credCounter) \in CredsOf(asked) \ credsSeen
                      ELSE credsSeen = CredsOf(asked)
      BY DEF CredsComplete
  <2>1. TypeOK /\ asked \in RPs /\ CredsOf(asked) \in SUBSET Slot
      BY TypeFacts DEF IndInv, TypeInv, CredEnumInv
  <2>2. credTotal = Cardinality(CredsOf(asked))
      BY <2>1, SmallFacts DEF IndInv, CredEnumInv
  <2>3. PICK m \in 0..Cardinality(CredsOf(asked)) :
                 credCounter = (m + 1) % Slots /\ credsSeen = First(CredsOf(asked), m)
      BY <2>2 DEF IndInv, CredEnumInv
  <2> QED
      BY <2>1, <2>2, <2>3, NextFacts
<1> QED
    BY Inductive, <1>1, <1>2, PTL DEF EnumerationsComplete

(* While more credentials are to come, rpIdHashx is that of the relying    *)
(* party asked for, and was not given back (cbor_cred_mgmt.c:237, 341).    *)
THEOREM HashKept == Spec => []HashLive
<1>1. IndInv => HashLive
    BY DEF IndInv
<1> QED
    BY Inductive, <1>1, PTL

-----------------------------------------------------------------------------
(* Assertion: what stands in the places of S, each number once *)

LEMMA AtFacts ==
    ASSUME NEW n \in Nat, NEW S \in SUBSET (1..n)
    PROVE  /\ \A k \in 1..Cardinality(S) : At(S, k) \in S /\ Place(S, At(S, k)) = k
           /\ \A i \in S : \E k \in 1..Cardinality(S) : At(S, k) = i
<1>1. \A k \in 1..Cardinality(S) : At(S, k) \in S /\ Place(S, At(S, k)) = k
    BY PlaceOnto DEF At
<1>2. ASSUME NEW i \in S PROVE \E k \in 1..Cardinality(S) : At(S, k) = i
  <2>1. PICK k : k = Place(S, i)
      OBVIOUS
  <2>2. k \in 1..Cardinality(S)
      BY <2>1, PlaceFacts
  <2>3. At(S, k) \in S /\ Place(S, At(S, k)) = Place(S, i)
      BY <1>1, <2>1, <2>2
  <2>4. PICK j \in S : j = At(S, k)
      BY <2>3
  <2>5. i \in Int /\ j \in Int /\ Place(S, i) \in Int /\ Place(S, j) = Place(S, i)
    <3>1. \A l \in S : l \in Nat /\ Place(S, l) \in Nat
        BY PlaceFacts
    <3> QED
        BY <2>3, <2>4, <3>1
  <2>6. ~(i < j) /\ ~(j < i)
    <3>1. \A l, m \in S : l < m => Place(S, l) < Place(S, m)
        BY PlaceFacts
    <3> QED
        BY <2>5, <3>1
  <2> QED
      BY <2>2, <2>4, <2>5, <2>6
<1> QED
    BY <1>1, <1>2

-----------------------------------------------------------------------------
(* The sort *)

(* A set of numbers that holds the first of an interval and with each one  *)
(* of it the next holds them all.                                          *)
LEMMA Climb ==
    ASSUME NEW a \in Nat, NEW n \in Nat, NEW B, a \in B,
           \A j \in a..n : j \in B /\ j < n => j + 1 \in B
    PROVE  \A j \in a..n : j \in B
<1> SUFFICES ASSUME {j \in a..n : j \notin B} # {} PROVE FALSE
    OBVIOUS
<1> DEFINE Out == {j \in a..n : j \notin B}
<1>1. PICK i \in Out : \A j \in Out : i <= j
  <2>1. Out \in SUBSET Nat
      OBVIOUS
  <2> QED
      BY <2>1, Minimum
<1>2. i \in a..n /\ i # a
    BY <1>1
<1>3. i - 1 \in a..n /\ i - 1 < n /\ i - 1 < i /\ (i - 1) + 1 = i
    BY <1>2
<1>4. i - 1 \in B
  <2>1. CASE i - 1 \in Out
      BY <1>1, <1>3, <2>1
  <2> QED
      BY <1>3, <2>1
<1> QED
    BY <1>1, <1>3, <1>4

(* The lists of n entries of the credentials of R, in any order: only one  *)
(* whose number is in D has two places.                                    *)
Orders(n, R, D) ==
    {s \in [1..n -> Kept] : /\ {s[k] : k \in 1..n} = R
                            /\ \A j, k \in 1..n : j # k /\ s[j].id = s[k].id => s[j].id \in D}

(* The first i entries are in order, with all that comes after them *)
Settled(n, i, s) == \A p, q \in 1..n : p <= i /\ p < q => s[q].created <= s[p].created

LEMMA OrdersFacts ==
    ASSUME NEW n \in Nat, NEW R, NEW D, NEW s \in Orders(n, R, D)
    PROVE  Len(s) = n /\ DOMAIN s = 1..n /\ s \in Seq(Kept) /\ \A k \in 1..n : s[k] \in Kept /\ s[k].created \in Nat
<1>1. s \in [1..n -> Kept]
    BY DEF Orders
<1>2. s \in Seq(Kept)
    BY <1>1
<1>3. DOMAIN s = 1..n /\ Len(s) \in Nat /\ DOMAIN s = 1..Len(s)
    BY <1>1, <1>2, LenProperties
<1>4. Len(s) = n
    BY <1>3
<1> QED
    BY <1>1, <1>2, <1>3, <1>4 DEF Kept

LEMMA SwappedFacts ==
    ASSUME NEW n \in Nat, NEW R, NEW D, NEW s \in Orders(n, R, D), NEW i \in 1..n, NEW j \in 1..n
    PROVE  /\ Swapped(s, i, j) \in Orders(n, R, D)
           /\ \A k \in 1..n : Swapped(s, i, j)[k] = s[IF k = i THEN j ELSE IF k = j THEN i ELSE k]
<1> DEFINE to == [k \in 1..n |-> IF k = i THEN j ELSE IF k = j THEN i ELSE k]
           t == Swapped(s, i, j)
<1>1. /\ \A k \in 1..n : to[k] \in 1..n /\ to[to[k]] = k
      /\ \A k \in 1..n : to[k] = IF k = i THEN j ELSE IF k = j THEN i ELSE k
    OBVIOUS
<1>2. DOMAIN s = 1..n /\ s \in [1..n -> Kept]
    BY OrdersFacts DEF Orders
<1>3. t = [k \in 1..n |-> s[IF k = i THEN j ELSE IF k = j THEN i ELSE k]]
    BY <1>2 DEF Swapped
<1>4. t = [k \in 1..n |-> s[to[k]]]
    BY <1>3
<1> HIDE DEF to, t
<1>5. t \in [1..n -> Kept] /\ \A k \in 1..n : t[k] = s[to[k]]
    BY <1>1, <1>2, <1>4
<1>6. {t[k] : k \in 1..n} = R
  <2>1. {s[k] : k \in 1..n} = R
      BY DEF Orders
  <2>2. \A k \in 1..n : t[k] \in {s[l] : l \in 1..n} /\ s[k] = t[to[k]]
      BY <1>1, <1>5
  <2> QED
      BY <1>1, <2>1, <2>2
<1>7. ASSUME NEW k \in 1..n, NEW l \in 1..n, k # l, t[k].id = t[l].id PROVE t[k].id \in D
  <2>1. to[to[k]] = k /\ to[to[l]] = l
      BY <1>1, <1>7
  <2>2. to[k] # to[l]
      BY <1>7, <2>1
  <2> QED
      BY <1>1, <1>5, <1>7, <2>2 DEF Orders
<1>8. t \in Orders(n, R, D)
    BY <1>5, <1>6, <1>7 DEF Orders
<1> QED
    BY <1>3, <1>8 DEF t

(* One exchange for the i-th place: what is before it stays settled, and   *)
(* it is the newest up to j afterwards.                                    *)
Leads(s, i, j) == \A q \in (i + 1)..j : s[q].created <= s[i].created

LEMMA ExchangedFacts ==
    ASSUME NEW n \in Nat, NEW R, NEW D, NEW s \in Orders(n, R, D), NEW i \in 1..n, NEW j \in (i + 1)..n,
           Settled(n, i - 1, s), Leads(s, i, j - 1)
    PROVE  /\ Exchanged(s, i, j) \in Orders(n, R, D)
           /\ Settled(n, i - 1, Exchanged(s, i, j)) /\ Leads(Exchanged(s, i, j), i, j)
<1>1. j \in 1..n /\ i < j /\ \A k \in 1..n : s[k].created \in Nat
    BY OrdersFacts
<1>2. CASE s[j].created > s[i].created
  <2> DEFINE t == Swapped(s, i, j)
  <2>1. Exchanged(s, i, j) = t
      BY <1>2 DEF Exchanged
  <2>2. t \in Orders(n, R, D) /\ \A k \in 1..n : t[k] = s[IF k = i THEN j ELSE IF k = j THEN i ELSE k]
      BY <1>1, SwappedFacts
  <2> HIDE DEF t
  <2>3. t[i] = s[j] /\ t[j] = s[i] /\ \A k \in 1..n : k # i /\ k # j => t[k] = s[k]
      BY <1>1, <2>2
  <2>4. ASSUME NEW p \in 1..n, NEW q \in 1..n, p <= i - 1, p < q
        PROVE  t[q].created <= t[p].created
    <3>1. t[p] = s[p]
        BY <1>1, <2>3, <2>4
    <3>2. s[i].created <= s[p].created /\ s[j].created <= s[p].created /\ s[q].created <= s[p].created
        BY <1>1, <2>4 DEF Settled
    <3>3. t[q] \in {s[i], s[j], s[q]}
        BY <2>3, <2>4
    <3> QED
        BY <3>1, <3>2, <3>3
  <2>5. ASSUME NEW q \in (i + 1)..j PROVE t[q].created <= t[i].created
    <3>1. CASE q = j
        BY <1>1, <1>2, <2>3, <3>1
    <3>2. CASE q # j
      <4>1. q \in (i + 1)..(j - 1) /\ q \in 1..n /\ q # i
          BY <1>1, <2>5, <3>2
      <4>2. t[q] = s[q] /\ s[q].created <= s[i].created
          BY <2>3, <3>2, <4>1 DEF Leads
      <4> QED
          BY <1>1, <1>2, <2>3, <4>1, <4>2
    <3> QED
        BY <3>1, <3>2
  <2> QED
      BY <2>1, <2>2, <2>4, <2>5 DEF Settled, Leads
<1>3. CASE ~(s[j].created > s[i].created)
  <2>1. Exchanged(s, i, j) = s
      BY <1>3 DEF Exchanged
  <2>2. ASSUME NEW q \in (i + 1)..j PROVE s[q].created <= s[i].created
    <3>1. CASE q = j
        BY <1>1, <1>3, <3>1
    <3>2. CASE q # j
        BY <2>2, <3>2 DEF Leads
    <3> QED
        BY <3>1, <3>2
  <2> QED
      BY <2>1, <2>2 DEF Leads
<1> QED
    BY <1>2, <1>3

(* The inner loop: the newest of what is left comes to the i-th place      *)
LEMMA PassFacts ==
    ASSUME NEW n \in Nat, NEW R, NEW D, NEW s \in Orders(n, R, D), NEW i \in 1..n, Settled(n, i - 1, s)
    PROVE  Pass(s, i) \in Orders(n, R, D) /\ Settled(n, i, Pass(s, i))
<1> DEFINE upTo == CHOOSE f : f = [j \in i..n |-> IF j = i THEN s ELSE Exchanged(f[j - 1], i, j)]
           Loop(m, f) == f = [j \in i..m |-> IF j = i THEN s ELSE Exchanged(f[j - 1], i, j)]
           Run == {m \in i..n : \E f : Loop(m, f)}
           Right == {j \in i..n : /\ upTo[j] \in Orders(n, R, D)
                                  /\ Settled(n, i - 1, upTo[j]) /\ Leads(upTo[j], i, j)}
<1>0. i \in Nat /\ i \in i..n /\ n \in i..n
    OBVIOUS
<1>1. Pass(s, i) = upTo[n]
  <2>1. Len(s) = n
      BY OrdersFacts
  <2> QED
      BY <2>1 DEF Pass
<1>2. upTo = [j \in i..n |-> IF j = i THEN s ELSE Exchanged(upTo[j - 1], i, j)]
  <2>1. i \in Run
    <3>1. PICK f : f = [j \in i..i |-> s]
        OBVIOUS
    <3>2. \A j \in i..i : j = i
        BY <1>0
    <3>3. f = [j \in i..i |-> IF j = i THEN s ELSE Exchanged(f[j - 1], i, j)]
        BY <3>1, <3>2
    <3> QED
        BY <1>0, <3>3
  <2>2. ASSUME NEW m \in i..n, m \in Run, m < n PROVE m + 1 \in Run
    <3>1. PICK f : Loop(m, f)
        BY <2>2
    <3>2. PICK g : g = [j \in i..(m + 1) |-> IF j = m + 1 THEN Exchanged(f[m], i, m + 1) ELSE f[j]]
        OBVIOUS
    <3>3. ASSUME NEW j \in i..(m + 1)
          PROVE  g[j] = IF j = i THEN s ELSE Exchanged(g[j - 1], i, j)
      <4>1. CASE j = m + 1
        <5>1. m \in i..(m + 1) /\ m # m + 1 /\ j # i /\ j - 1 = m
            BY <2>2, <4>1
        <5>2. g[m] = f[m]
            BY <3>2, <5>1
        <5> QED
            BY <3>2, <4>1, <5>1, <5>2
      <4>2. CASE j # m + 1
        <5>1. j \in i..m
            BY <2>2, <3>3, <4>2
        <5>2. g[j] = f[j]
            BY <3>2, <3>3, <4>2
        <5>3. j # i => j - 1 \in i..(m + 1) /\ j - 1 # m + 1
            BY <2>2, <5>1
        <5>4. j # i => g[j - 1] = f[j - 1]
            BY <3>2, <5>3
        <5>5. f[j] = IF j = i THEN s ELSE Exchanged(f[j - 1], i, j)
            BY <3>1, <5>1
        <5> QED
            BY <5>2, <5>4, <5>5
      <4> QED
          BY <4>1, <4>2
    <3>4. Loop(m + 1, g)
      <4>1. g = [j \in i..(m + 1) |-> g[j]]
          BY <3>2
      <4> QED
          BY <3>3, <4>1
    <3>5. m + 1 \in i..n
        BY <2>2
    <3> QED
        BY <3>4, <3>5
  <2> HIDE DEF Run
  <2>3. n \in Run
      BY <1>0, <2>1, <2>2, Climb
  <2>4. \E f : Loop(n, f)
      BY <2>3 DEF Run
  <2> QED
      BY <2>4
<1> HIDE DEF upTo
<1>3. i \in Right
  <2>1. upTo[i] = s
      BY <1>0, <1>2
  <2>2. Leads(s, i, i)
      BY DEF Leads
  <2> QED
      BY <1>0, <2>1, <2>2
<1>4. ASSUME NEW j \in i..n, j \in Right, j < n PROVE j + 1 \in Right
  <2>1. j + 1 \in i..n /\ j + 1 \in (i + 1)..n /\ j + 1 # i /\ (j + 1) - 1 = j
      BY <1>4
  <2>2. upTo[j + 1] = Exchanged(upTo[j], i, j + 1)
      BY <1>2, <2>1
  <2>3. PICK t \in Orders(n, R, D) : t = upTo[j]
      BY <1>4
  <2>4. PICK k \in (i + 1)..n : k = j + 1
      BY <2>1
  <2>5. Settled(n, i - 1, t) /\ Leads(t, i, k - 1)
      BY <1>4, <2>1, <2>3, <2>4
  <2>6. /\ Exchanged(t, i, k) \in Orders(n, R, D)
        /\ Settled(n, i - 1, Exchanged(t, i, k)) /\ Leads(Exchanged(t, i, k), i, k)
      BY <2>5, ExchangedFacts
  <2> QED
      BY <2>1, <2>2, <2>3, <2>4, <2>6
<1> HIDE DEF Right
<1>5. n \in Right
    BY <1>0, <1>3, <1>4, Climb
<1>6. upTo[n] \in Orders(n, R, D) /\ Settled(n, i - 1, upTo[n]) /\ Leads(upTo[n], i, n)
    BY <1>5 DEF Right
<1>7. ASSUME NEW p \in 1..n, NEW q \in 1..n, p <= i, p < q
      PROVE  upTo[n][q].created <= upTo[n][p].created
  <2>1. CASE p = i
    <3>1. q \in (i + 1)..n
        BY <1>7, <2>1
    <3> QED
        BY <1>6, <2>1, <3>1 DEF Leads
  <2>2. CASE p # i
    <3>1. p <= i - 1
        BY <1>7, <2>2
    <3> QED
        BY <1>6, <1>7, <3>1 DEF Settled
  <2> QED
      BY <2>1, <2>2
<1> QED
    BY <1>1, <1>6, <1>7 DEF Settled

(* The outer loop: the same credentials, all in order                      *)
LEMMA SortedFacts ==
    ASSUME NEW n \in Nat, NEW R, NEW D, NEW s \in Orders(n, R, D)
    PROVE  Sorted(s) \in Orders(n, R, D) /\ Settled(n, n, Sorted(s))
<1> DEFINE after == CHOOSE f : f = [i \in 0..n |-> IF i = 0 THEN s ELSE Pass(f[i - 1], i)]
           Loop(m, f) == f = [i \in 0..m |-> IF i = 0 THEN s ELSE Pass(f[i - 1], i)]
           Run == {m \in 0..n : \E f : Loop(m, f)}
           Right == {i \in 0..n : after[i] \in Orders(n, R, D) /\ Settled(n, i, after[i])}
<1>0. 0 \in Nat /\ 0 \in 0..n /\ n \in 0..n
    OBVIOUS
<1>1. Sorted(s) = after[n]
  <2>1. Len(s) = n
      BY OrdersFacts
  <2> QED
      BY <2>1 DEF Sorted
<1>2. after = [i \in 0..n |-> IF i = 0 THEN s ELSE Pass(after[i - 1], i)]
  <2>1. 0 \in Run
    <3>1. PICK f : f = [i \in 0..0 |-> s]
        OBVIOUS
    <3>2. \A i \in 0..0 : i = 0
        OBVIOUS
    <3>3. f = [i \in 0..0 |-> IF i = 0 THEN s ELSE Pass(f[i - 1], i)]
        BY <3>1, <3>2
    <3> QED
        BY <1>0, <3>3
  <2>2. ASSUME NEW m \in 0..n, m \in Run, m < n PROVE m + 1 \in Run
    <3>1. PICK f : Loop(m, f)
        BY <2>2
    <3>2. PICK g : g = [i \in 0..(m + 1) |-> IF i = m + 1 THEN Pass(f[m], m + 1) ELSE f[i]]
        OBVIOUS
    <3>3. ASSUME NEW i \in 0..(m + 1) PROVE g[i] = IF i = 0 THEN s ELSE Pass(g[i - 1], i)
      <4>1. CASE i = m + 1
        <5>1. m \in 0..(m + 1) /\ m # m + 1 /\ i # 0 /\ i - 1 = m
            BY <2>2, <4>1
        <5>2. g[m] = f[m]
            BY <3>2, <5>1
        <5> QED
            BY <3>2, <4>1, <5>1, <5>2
      <4>2. CASE i # m + 1
        <5>1. i \in 0..m
            BY <2>2, <3>3, <4>2
        <5>2. g[i] = f[i]
            BY <3>2, <3>3, <4>2
        <5>3. i # 0 => i - 1 \in 0..(m + 1) /\ i - 1 # m + 1
            BY <2>2, <5>1
        <5>4. i # 0 => g[i - 1] = f[i - 1]
            BY <3>2, <5>3
        <5>5. f[i] = IF i = 0 THEN s ELSE Pass(f[i - 1], i)
            BY <3>1, <5>1
        <5> QED
            BY <5>2, <5>4, <5>5
      <4> QED
          BY <4>1, <4>2
    <3>4. Loop(m + 1, g)
      <4>1. g = [i \in 0..(m + 1) |-> g[i]]
          BY <3>2
      <4> QED
          BY <3>3, <4>1
    <3>5. m + 1 \in 0..n
        BY <2>2
    <3> QED
        BY <3>4, <3>5
  <2> HIDE DEF Run
  <2>3. n \in Run
      BY <1>0, <2>1, <2>2, Climb
  <2>4. \E f : Loop(n, f)
      BY <2>3 DEF Run
  <2> QED
      BY <2>4
<1> HIDE DEF after
<1>3. 0 \in Right
  <2>1. after[0] = s
      BY <1>0, <1>2
  <2>2. Settled(n, 0, s)
      BY DEF Settled
  <2> QED
      BY <1>0, <2>1, <2>2
<1>4. ASSUME NEW i \in 0..n, i \in Right, i < n PROVE i + 1 \in Right
  <2>1. i + 1 \in 0..n /\ i + 1 \in 1..n /\ i + 1 # 0 /\ (i + 1) - 1 = i
      BY <1>4
  <2>2. after[i + 1] = Pass(after[i], i + 1)
      BY <1>2, <2>1
  <2>3. PICK t \in Orders(n, R, D) : t = after[i]
      BY <1>4
  <2>4. PICK k \in 1..n : k = i + 1
      BY <2>1
  <2>5. Settled(n, k - 1, t)
      BY <1>4, <2>1, <2>3, <2>4
  <2>6. Pass(t, k) \in Orders(n, R, D) /\ Settled(n, k, Pass(t, k))
      BY <2>5, PassFacts
  <2> QED
      BY <2>1, <2>2, <2>3, <2>4, <2>6
<1> HIDE DEF Right
<1>5. n \in Right
    BY <1>0, <1>3, <1>4, Climb
<1> QED
    BY <1>1, <1>5 DEF Right

-----------------------------------------------------------------------------
(* The credentials of a request *)

LEMMA FilteredFacts ==
    ASSUME NEW n \in Nat, NEW R, NEW D, NEW s \in Orders(n, R, D), NEW P \in SUBSET (1..n)
    PROVE  /\ Cardinality(P) \in 0..n
           /\ Filtered(s, P) \in Orders(Cardinality(P), {s[k] : k \in P}, D)
<1>1. Cardinality(P) \in 0..n
    BY IntervalSets
<1>2. PICK m : m = Cardinality(P) /\ m \in 0..n
    BY <1>1
<1>3. PICK t : t = Filtered(s, P)
    OBVIOUS
<1>4. t = [k \in 1..m |-> s[At(P, k)]]
    BY <1>2, <1>3 DEF Filtered
<1>5. /\ \A k \in 1..m : At(P, k) \in 1..n /\ At(P, k) \in P /\ Place(P, At(P, k)) = k
      /\ \A i \in P : \E k \in 1..m : At(P, k) = i
    BY <1>2, AtFacts
<1>6. s \in [1..n -> Kept] /\ \A j, k \in 1..n : j # k /\ s[j].id = s[k].id => s[j].id \in D
    BY DEF Orders
<1>7. t \in [1..m -> Kept]
    BY <1>4, <1>5, <1>6
<1>8. {t[k] : k \in 1..m} = {s[k] : k \in P}
    BY <1>4, <1>5
<1>9. ASSUME NEW j \in 1..m, NEW k \in 1..m, j # k, t[j].id = t[k].id PROVE t[j].id \in D
  <2>1. At(P, j) # At(P, k)
      BY <1>5, <1>9
  <2> QED
      BY <1>4, <1>5, <1>6, <1>9, <2>1
<1>10. t \in Orders(m, {s[k] : k \in P}, D)
    BY <1>7, <1>8, <1>9 DEF Orders
<1> QED
    BY <1>1, <1>2, <1>3, <1>10

(* No two credentials have the same number, a credential has one file, and *)
(* of two made since the same start the later has the later time.          *)
RecordInv ==
    /\ \A c \in Known : c.id <= made /\ c.boot <= boot /\ (c.boot = boot => c.created < clock)
    /\ \A c, d \in Known : /\ c.id = d.id => c = d
                           /\ c.boot = d.boot /\ c.id < d.id => c.created < d.created
    /\ \A s, t \in Slot : store[s] # None /\ store[s] = store[t] => s = t

LEMMA KeptFacts ==
    /\ None \notin Kept /\ None \notin Requests
    /\ \A c \in Kept : c.id \in 1..MaxMade /\ c.id \in Nat /\ c.created \in Nat /\ c.boot \in Nat
    /\ MaxMade \in Nat /\ MaxBoots \in Nat /\ MaxList \in Nat /\ MaxAllow \in Nat
    /\ Slots \in Nat
<1>1. MaxMade \in Nat /\ MaxBoots \in Nat /\ MaxList \in Nat /\ MaxAllow \in Nat
    BY AssertionAssumption
<1>2. None \notin Kept /\ None \notin Requests
    BY AssertionAssumption DEF Kept, Requests
<1> QED
    BY <1>1, <1>2, SlotsAssumption DEF Kept

LEMMA KnownFacts ==
    ASSUME AssertionTypeOK
    PROVE  /\ Known \subseteq Kept
           /\ \A s \in Slot : store[s] # None => store[s] \in Known
           /\ \A c \in Known : c \in wallet \/ \E s \in Slot : store[s] # None /\ c = store[s]
<1>1. store \in [Slot -> Kept \cup {None}] /\ wallet \subseteq Kept
    BY DEF AssertionTypeOK
<1> QED
    BY <1>1 DEF Known

LEMMA DiscoveredFacts ==
    ASSUME AssertionTypeOK, RecordInv, NEW rp \in RPs
    PROVE  \E n \in Nat, R \in SUBSET Known :
               /\ Discovered(rp) \in Orders(n, R, {}) /\ \A c \in R : c.rp = rp
               /\ Cardinality(FilesFor(rp)) <= MaxList => R = {store[s] : s \in FilesFor(rp)}
<1>1. PICK F : F = FilesFor(rp)
    OBVIOUS
<1>2. F \in SUBSET (1..Slots) /\ \A s \in F : s \in Slot /\ store[s] # None /\ store[s].rp = rp
    BY <1>1 DEF FilesFor, Slot
<1>3. PICK m : m = Cardinality(F) /\ m \in Nat
    BY <1>2, IntervalSets, KeptFacts
<1>4. PICK n : n = IF m < MaxList THEN m ELSE MaxList
    OBVIOUS
<1>5. n \in Nat /\ 1..n \subseteq 1..m /\ (m <= MaxList => n = m)
    BY <1>3, <1>4, KeptFacts
<1>6. PICK t : t = Discovered(rp)
    OBVIOUS
<1>7. t = [k \in 1..n |-> store[At(F, k)]]
    BY <1>1, <1>3, <1>4, <1>6 DEF Discovered
<1>8. /\ \A k \in 1..m : At(F, k) \in F /\ Place(F, At(F, k)) = k
      /\ \A i \in F : \E k \in 1..m : At(F, k) = i
    BY <1>2, <1>3, AtFacts, KeptFacts
<1>9. \A k \in 1..n : At(F, k) \in F /\ Place(F, At(F, k)) = k /\ store[At(F, k)] \in Known
    BY <1>2, <1>5, <1>8, KnownFacts
<1>10. PICK R : R = {t[k] : k \in 1..n}
    OBVIOUS
<1>11. t \in [1..n -> Kept] /\ R \in SUBSET Known /\ \A c \in R : c.rp = rp
    BY <1>2, <1>7, <1>9, <1>10, KnownFacts
<1>12. ASSUME NEW j \in 1..n, NEW k \in 1..n, j # k, t[j].id = t[k].id PROVE FALSE
  <2>1. t[j] = store[At(F, j)] /\ t[k] = store[At(F, k)]
      BY <1>7, <1>12
  <2>2. store[At(F, j)] = store[At(F, k)]
      BY <1>9, <1>12, <2>1 DEF RecordInv
  <2>3. At(F, j) = At(F, k)
      BY <1>2, <1>9, <1>12, <2>2 DEF RecordInv
  <2> QED
      BY <1>9, <1>12, <2>3
<1>13. t \in Orders(n, R, {})
    BY <1>10, <1>11, <1>12 DEF Orders
<1>14. ASSUME m <= MaxList PROVE R = {store[s] : s \in F}
  <2>1. n = m
      BY <1>5, <1>14
  <2> QED
      BY <1>7, <1>8, <1>10, <2>1
<1> QED
    BY <1>1, <1>3, <1>5, <1>6, <1>11, <1>13, <1>14

LEMMA NamedFacts ==
    ASSUME AssertionTypeOK, RecordInv, NEW rp \in RPs, NEW allow \in AllowLists
    PROVE  \E n \in Nat, R \in SUBSET Known :
               Named(rp, allow) \in Orders(n, R, Repeated(allow)) /\ \A c \in R : c.rp = rp
<1>1. PICK m \in 0..MaxAllow : allow \in [1..m -> 1..made]
    BY DEF AllowLists
<1>2. m \in Nat /\ DOMAIN allow = 1..m
    BY <1>1, KeptFacts
<1>3. PICK P : P = {k \in DOMAIN allow : \E c \in Known : c.id = allow[k] /\ c.rp = rp}
    OBVIOUS
<1>4. P \in SUBSET (1..m)
    BY <1>2, <1>3
<1>5. PICK n : n = Cardinality(P) /\ n \in 0..m
    BY <1>2, <1>4, IntervalSets
<1>6. n \in Nat
    BY <1>2, <1>5
<1>7. PICK names : names = Filtered(allow, P)
    OBVIOUS
<1>8. names = [k \in 1..n |-> allow[At(P, k)]]
    BY <1>5, <1>7 DEF Filtered
<1>9. \A k \in 1..n : At(P, k) \in P /\ Place(P, At(P, k)) = k
    BY <1>2, <1>4, <1>5, AtFacts
<1>10. PICK t : t = Named(rp, allow)
    OBVIOUS
<1>11. t = [k \in 1..n |-> CHOOSE c \in Known : c.id = names[k]]
  <2>1. DOMAIN names = 1..n
      BY <1>8
  <2> QED
      BY <1>3, <1>7, <1>10, <2>1 DEF Named
<1>12. ASSUME NEW k \in 1..n
       PROVE  t[k] \in Known /\ t[k].id = allow[At(P, k)] /\ t[k].rp = rp
  <2>1. names[k] = allow[At(P, k)] /\ At(P, k) \in P
      BY <1>8, <1>9, <1>12
  <2>2. PICK c \in Known : c.id = names[k] /\ c.rp = rp
      BY <1>3, <2>1
  <2>3. t[k] = CHOOSE d \in Known : d.id = names[k]
      BY <1>11, <1>12
  <2>4. t[k] \in Known /\ t[k].id = names[k]
      BY <2>2, <2>3
  <2>5. t[k] = c
      BY <2>2, <2>4 DEF RecordInv
  <2> QED
      BY <2>1, <2>2, <2>4, <2>5
<1>13. ASSUME NEW j \in 1..n, NEW k \in 1..n, j # k, t[j].id = t[k].id
       PROVE  t[j].id \in Repeated(allow)
  <2>1. t[j].id = allow[At(P, j)] /\ allow[At(P, j)] = allow[At(P, k)]
      BY <1>12, <1>13
  <2>2. At(P, j) # At(P, k) /\ At(P, j) \in DOMAIN allow /\ At(P, k) \in DOMAIN allow
      BY <1>2, <1>4, <1>9, <1>13
  <2> QED
      BY <2>1, <2>2 DEF Repeated
<1>14. PICK R : R = {t[k] : k \in 1..n}
    OBVIOUS
<1>15. t \in [1..n -> Kept] /\ R \in SUBSET Known /\ \A c \in R : c.rp = rp
  <2>1. \A k \in 1..n : t[k] \in Known /\ t[k] \in Kept /\ t[k].rp = rp
      BY <1>12, KnownFacts
  <2>2. t \in [1..n -> Kept]
      BY <1>11, <2>1
  <2> QED
      BY <1>14, <2>1, <2>2
<1>16. t \in Orders(n, R, Repeated(allow))
    BY <1>13, <1>14, <1>15 DEF Orders
<1> QED
    BY <1>6, <1>10, <1>15, <1>16

LEMMA ChosenFacts ==
    ASSUME AssertionTypeOK, RecordInv, NEW rp \in RPs, NEW allow \in AllowLists, NEW uv \in BOOLEAN
    PROVE  \E n \in Nat, R \in SUBSET Known :
               /\ Chosen(rp, allow, uv) \in Orders(n, R, Repeated(allow)) /\ Settled(n, n, Chosen(rp, allow, uv))
               /\ \A c \in R : c.rp = rp /\ Permitted(c, uv, allow)
               /\ allow = <<>> /\ Cardinality(FilesFor(rp)) <= MaxList =>
                     R = {c \in {store[s] : s \in FilesFor(rp)} : Permitted(c, uv, allow)}
<1>1. PICK l : l = Loaded(rp, allow)
    OBVIOUS
<1>2. PICK m \in Nat, Q \in SUBSET Known :
         /\ l \in Orders(m, Q, Repeated(allow)) /\ \A c \in Q : c.rp = rp
         /\ allow = <<>> /\ Cardinality(FilesFor(rp)) <= MaxList => Q = {store[s] : s \in FilesFor(rp)}
  <2>1. CASE allow = <<>>
    <3>1. PICK m \in Nat, Q \in SUBSET Known :
             /\ l \in Orders(m, Q, {}) /\ \A c \in Q : c.rp = rp
             /\ Cardinality(FilesFor(rp)) <= MaxList => Q = {store[s] : s \in FilesFor(rp)}
        BY <1>1, <2>1, DiscoveredFacts DEF Loaded
    <3>2. l \in Orders(m, Q, Repeated(allow))
        BY <3>1 DEF Orders
    <3> QED
        BY <3>1, <3>2
  <2>2. CASE allow # <<>>
      BY <1>1, <2>2, NamedFacts DEF Loaded
  <2> QED
      BY <2>1, <2>2
<1>3. m \in Nat /\ DOMAIN l = 1..m /\ {l[k] : k \in 1..m} = Q
    BY <1>2, KeptFacts, OrdersFacts DEF Orders
<1>4. PICK P : P = {k \in DOMAIN l : Permitted(l[k], uv, allow)}
    OBVIOUS
<1>5. P \in SUBSET (1..m)
    BY <1>3, <1>4
<1>6. PICK n, R : n = Cardinality(P) /\ R = {l[k] : k \in P}
    OBVIOUS
<1>7. n \in 0..m /\ Filtered(l, P) \in Orders(n, R, Repeated(allow))
    BY <1>2, <1>3, <1>5, <1>6, FilteredFacts
<1>8. n \in Nat
    BY <1>3, <1>7
<1>9. R = {c \in Q : Permitted(c, uv, allow)}
    BY <1>3, <1>4, <1>6
<1>10. PICK t : t = Sorted(Filtered(l, P))
    OBVIOUS
<1>11. t \in Orders(n, R, Repeated(allow)) /\ Settled(n, n, t)
    BY <1>7, <1>8, <1>10, SortedFacts
<1>12. Chosen(rp, allow, uv) = IF Resident(l, allow) /\ Len(allow) > 1 /\ t # <<>> THEN <<t[1]>> ELSE t
    BY <1>1, <1>4, <1>10 DEF Chosen
<1>13. CASE Resident(l, allow) /\ Len(allow) > 1 /\ t # <<>>
  <2>1. allow # <<>>
    <3>1. Len(<<>>) = 0
        BY EmptySeq
    <3> QED
        BY <1>13, <3>1
  <2>2. n # 0
    <3>1. t \in Seq(Kept) /\ Len(t) = n
        BY <1>8, <1>11, OrdersFacts
    <3> QED
        BY <1>13, <3>1, EmptySeq
  <2>3. 1 \in 1..n /\ t[1] \in R /\ t[1] \in Kept
      BY <1>8, <1>11, <2>2 DEF Orders
  <2>4. PICK c : c = t[1]
      OBVIOUS
  <2>5. PICK u : u = <<c>>
      OBVIOUS
  <2>6. u \in [1..1 -> Kept] /\ u[1] = c /\ \A k \in 1..1 : k = 1
      BY <2>3, <2>4, <2>5
  <2>7. u \in Orders(1, {c}, Repeated(allow)) /\ Settled(1, 1, u)
      BY <2>6 DEF Orders, Settled
  <2>8. 1 \in Nat /\ {c} \in SUBSET Known
    <3>1. c \in Known
        BY <1>2, <1>9, <2>3, <2>4
    <3> QED
        BY <3>1
  <2>9. Chosen(rp, allow, uv) = u
      BY <1>12, <1>13, <2>4, <2>5
  <2> QED
      BY <1>2, <1>9, <2>1, <2>3, <2>4, <2>7, <2>8, <2>9
<1>14. CASE ~(Resident(l, allow) /\ Len(allow) > 1 /\ t # <<>>)
  <2>1. Chosen(rp, allow, uv) = t
      BY <1>12, <1>14
  <2>2. R \in SUBSET Known /\ \A c \in R : c.rp = rp /\ Permitted(c, uv, allow)
      BY <1>2, <1>9
  <2> QED
      BY <1>2, <1>8, <1>9, <1>11, <2>1, <2>2
<1> QED
    BY <1>13, <1>14

-----------------------------------------------------------------------------
(* The list and its answers *)

InOrder(cs, D) ==
    \A i, j \in DOMAIN cs : i < j =>
        /\ cs[i].id = cs[j].id => cs[i].id \in D
        /\ cs[i].boot = cs[j].boot => cs[i].id >= cs[j].id

(* While the list lasts the answers are its beginning, without the first   *)
(* when the request that wrote it failed afterwards.                       *)
Missed == IF writer.answered THEN 0 ELSE 1
AnswersInv ==
    counter < total =>
        /\ counter >= 1 /\ writer \in Requests /\ Len(given) = counter - Missed
        /\ \A k \in 1..Len(given) : given[k] = credsx[k + Missed]

ListInv == InOrder(credsx, writer.twice) /\ InOrder(given, writer.twice) /\ ListLawful /\ AnswersInv

AssertionInv == AssertionTypeOK /\ RecordInv /\ ListInv

LEMMA OrdersInOrder ==
    ASSUME AssertionTypeOK, RecordInv, NEW n \in Nat, NEW R \in SUBSET Known, NEW D,
           NEW s \in Orders(n, R, D), Settled(n, n, s)
    PROVE  InOrder(s, D)
<1>1. DOMAIN s = 1..n /\ \A k \in 1..n : s[k] \in Known /\ s[k] \in Kept
    BY KnownFacts, OrdersFacts DEF Orders
<1>2. ASSUME NEW i \in 1..n, NEW j \in 1..n, i < j
      PROVE  /\ s[i].id = s[j].id => s[i].id \in D
             /\ s[i].boot = s[j].boot => s[i].id >= s[j].id
  <2>1. i # j /\ i <= n
      BY <1>2
  <2>2. (s[i].id = s[j].id => s[i].id \in D) /\ s[j].created <= s[i].created
      BY <1>2, <2>1 DEF Orders, Settled
  <2>3. PICK c \in Known, d \in Known : c = s[i] /\ d = s[j]
      BY <1>1, <1>2
  <2>4. /\ c.id \in Nat /\ d.id \in Nat /\ c.created \in Nat /\ d.created \in Nat
        /\ d.created <= c.created
      BY <1>1, <1>2, <2>2, <2>3, KeptFacts
  <2>5. c.boot = d.boot /\ c.id < d.id => c.created < d.created
      BY DEF RecordInv
  <2>6. c.boot = d.boot => c.id >= d.id
      BY <2>4, <2>5
  <2> QED
      BY <2>2, <2>3, <2>6
<1> QED
    BY <1>1, <1>2 DEF InOrder

LEMMA AssertionInitInv == AssertionInit => AssertionInv
<1> SUFFICES ASSUME AssertionInit PROVE AssertionInv
    OBVIOUS
<1>1. <<>> \in Seq(Kept) /\ Len(<<>>) = 0 /\ DOMAIN <<>> = {}
    BY EmptySeq
<1>2. AssertionTypeOK
  <2>1. store \in [Slot -> Kept \cup {None}] /\ wallet \subseteq Kept /\ {credsx, given} \subseteq Seq(Kept)
      BY <1>1 DEF AssertionInit
  <2>2. made \in 0..MaxMade /\ clock \in 0..made /\ boot \in 1..MaxBoots
      BY AssertionAssumption DEF AssertionInit
  <2>3. total = Len(credsx) /\ counter \in Nat /\ counter = 1
      BY <1>1, AssertionAssumption DEF AssertionInit
  <2>4. {uvx, late} \subseteq BOOLEAN /\ writer \in Requests \cup {None}
      BY DEF AssertionInit
  <2> QED
      BY <2>1, <2>2, <2>3, <2>4 DEF AssertionTypeOK
<1>3. RecordInv
  <2>1. Known = {}
      BY DEF AssertionInit, Known
  <2> QED
      BY <2>1 DEF AssertionInit, RecordInv
<1>4. ListInv
  <2>1. ~(counter < total)
      BY DEF AssertionInit
  <2>2. InOrder(credsx, writer.twice) /\ InOrder(given, writer.twice)
      BY <1>1 DEF AssertionInit, InOrder
  <2> QED
      BY <2>1, <2>2 DEF ListInv, ListLawful, AnswersInv
<1> QED
    BY <1>2, <1>3, <1>4 DEF AssertionInv

LEMMA ListKept ==
    ASSUME ListInv, UNCHANGED list
    PROVE  ListInv'
BY DEF ListInv, InOrder, ListLawful, AnswersInv, Missed, list

LEMMA RecordsKept ==
    ASSUME RecordInv, UNCHANGED records
    PROVE  RecordInv'
BY DEF RecordInv, Known, records

(* A new credential has the next number, and the latest time               *)
LEMMA MakeStep ==
    ASSUME AssertionInv, NEW rp \in RPs, NEW protect \in Protects, NEW resident \in BOOLEAN,
           MakeCredential(rp, protect, resident)
    PROVE  AssertionInv'
<1> DEFINE new == [id |-> made + 1, rp |-> rp, created |-> clock, protect |-> protect, boot |-> boot]
<1>1. /\ made \in Nat /\ made < MaxMade /\ made' = made + 1 /\ clock \in 0..made /\ clock' = clock + 1
      /\ boot \in 1..MaxBoots /\ boot' = boot /\ UNCHANGED list
    BY KeptFacts DEF AssertionInv, AssertionTypeOK, MakeCredential
<1>2. PICK c : c = new
    OBVIOUS
<1>3. c \in Kept /\ c.id = made + 1 /\ c.created = clock /\ c.boot = boot
  <2>1. made + 1 \in 1..MaxMade /\ clock \in 0..MaxMade
      BY <1>1, KeptFacts
  <2> QED
      BY <1>1, <1>2, <2>1 DEF Kept
<1> HIDE DEF new
<1>4. /\ store \in [Slot -> Kept \cup {None}] /\ wallet \subseteq Kept /\ Known \subseteq Kept
      /\ \A d \in Known : d.id \in Nat /\ d.boot \in Nat /\ d.created \in Nat
      /\ None \notin Kept /\ c # None
    BY <1>3, KeptFacts, KnownFacts DEF AssertionInv, AssertionTypeOK
<1>5. \/ wallet' = wallet /\ \E s \in Slot : store' = [store EXCEPT ![s] = c]
      \/ store' = store /\ wallet' = wallet \cup {c}
    BY <1>2 DEF MakeCredential, FirstFree, new
<1>6. store' \in [Slot -> Kept \cup {None}] /\ wallet' \subseteq Kept
    BY <1>3, <1>4, <1>5
<1>7. Known' \subseteq Known \cup {c}
  <2>1. CASE wallet' = wallet /\ \E s \in Slot : store' = [store EXCEPT ![s] = c]
    <3>1. PICK s \in Slot : store' = [store EXCEPT ![s] = c]
        BY <2>1
    <3>2. \A t \in Slot : store'[t] = c \/ store'[t] = store[t]
        BY <1>4, <3>1
    <3> QED
        BY <2>1, <3>2 DEF Known
  <2>2. CASE store' = store /\ wallet' = wallet \cup {c}
      BY <2>2 DEF Known
  <2> QED
      BY <1>5, <2>1, <2>2
<1>8. \A d \in Known : d.id < c.id /\ d.id # c.id /\ (d.boot = c.boot => d.created < c.created)
  <2>1. \A d \in Known : d.id <= made /\ (d.boot = boot => d.created < clock)
      BY DEF AssertionInv, RecordInv
  <2> QED
      BY <1>1, <1>3, <1>4, <2>1
<1>9. AssertionTypeOK'
  <2>1. made' \in 0..MaxMade /\ clock' \in 0..(made') /\ boot' \in 1..MaxBoots
      BY <1>1, KeptFacts
  <2> QED
      BY <1>1, <1>6, <2>1 DEF AssertionInv, AssertionTypeOK, list
<1>10. RecordInv'
  <2>1. ASSUME NEW d \in Known' PROVE d.id <= made' /\ d.boot <= boot' /\ (d.boot = boot' => d.created < clock')
    <3>1. CASE d \in Known
      <4>1. d.id <= made /\ d.boot <= boot /\ (d.boot = boot => d.created < clock)
          BY <3>1 DEF AssertionInv, RecordInv
      <4>2. d.id \in Nat /\ d.created \in Nat /\ clock \in Nat
          BY <1>1, <1>4, <3>1
      <4> QED
          BY <1>1, <4>1, <4>2
    <3>2. CASE d = c
        BY <1>1, <1>3, <3>2
    <3> QED
        BY <1>7, <2>1, <3>1, <3>2
  <2>2. ASSUME NEW d \in Known', NEW e \in Known'
        PROVE  /\ d.id = e.id => d = e
               /\ d.boot = e.boot /\ d.id < e.id => d.created < e.created
    <3>1. CASE d \in Known /\ e \in Known
        BY <3>1 DEF AssertionInv, RecordInv
    <3>2. CASE d \in Known /\ e = c
        BY <1>8, <3>2
    <3>3. CASE d = c /\ e \in Known
      <4>1. c.id \in Nat /\ e.id \in Nat /\ e.id < c.id
          BY <1>1, <1>3, <1>4, <1>8, <3>3
      <4> QED
          BY <3>3, <4>1
    <3>4. CASE d = c /\ e = c
      <4>1. c.id \in Nat
          BY <1>1, <1>3
      <4> QED
          BY <3>4, <4>1
    <3> QED
        BY <1>7, <2>2, <3>1, <3>2, <3>3, <3>4
  <2>3. ASSUME NEW s \in Slot, NEW t \in Slot, store'[s] # None, store'[s] = store'[t] PROVE s = t
    <3>1. CASE wallet' = wallet /\ \E r \in Slot : store' = [store EXCEPT ![r] = c]
      <4>1. PICK r \in Slot : store' = [store EXCEPT ![r] = c]
          BY <3>1
      <4>2. \A u \in Slot : store'[u] = IF u = r THEN c ELSE store[u]
          BY <1>4, <4>1
      <4>3. \A u \in Slot : store[u] # c
          BY <1>4, <1>8, KnownFacts DEF AssertionInv
      <4>4. CASE s # r /\ t # r
        <5>1. store[s] # None /\ store[s] = store[t]
            BY <2>3, <4>2, <4>4
        <5> QED
            BY <2>3, <5>1 DEF AssertionInv, RecordInv
      <4> QED
          BY <2>3, <4>2, <4>3, <4>4
    <3>2. CASE store' = store
        BY <2>3, <3>2 DEF AssertionInv, RecordInv
    <3> QED
        BY <1>5, <3>1, <3>2
  <2> QED
      BY <2>1, <2>2, <2>3 DEF RecordInv
<1> QED
    BY <1>1, <1>9, <1>10, ListKept DEF AssertionInv

LEMMA DeleteStep ==
    ASSUME AssertionInv, NEW s \in Slot, DeleteCredential(s)
    PROVE  AssertionInv'
<1>1. /\ store' = [store EXCEPT ![s] = None] /\ wallet' = wallet
      /\ clock' = clock /\ made' = made /\ boot' = boot /\ UNCHANGED list
    BY DEF DeleteCredential
<1>2. store \in [Slot -> Kept \cup {None}]
    BY DEF AssertionInv, AssertionTypeOK
<1>3. \A t \in Slot : store'[t] = IF t = s THEN None ELSE store[t]
    BY <1>1, <1>2
<1>4. AssertionTypeOK'
  <2>1. store' \in [Slot -> Kept \cup {None}]
      BY <1>1, <1>2
  <2> QED
      BY <1>1, <2>1 DEF AssertionInv, AssertionTypeOK, list
<1>5. Known' \subseteq Known
    BY <1>1, <1>3 DEF Known
<1>6. RecordInv'
    BY <1>1, <1>3, <1>5 DEF AssertionInv, RecordInv
<1> QED
    BY <1>1, <1>4, <1>6, ListKept DEF AssertionInv

(* The list is what the request chose                                      *)
LEMMA GetAssertionStep ==
    ASSUME AssertionInv, NEW rp \in RPs, NEW allow \in AllowLists, NEW uv \in BOOLEAN,
           GetAssertion(rp, allow, uv)
    PROVE  AssertionInv'
<1>1. PICK cs, D : cs = Chosen(rp, allow, uv) /\ D = Repeated(allow)
    OBVIOUS
<1>2. PICK n \in Nat, R \in SUBSET Known :
         cs \in Orders(n, R, D) /\ Settled(n, n, cs) /\ \A c \in R : c.rp = rp /\ Permitted(c, uv, allow)
    BY <1>1, ChosenFacts DEF AssertionInv
<1>3. n \in Nat /\ cs \in Seq(Kept) /\ Len(cs) = n /\ DOMAIN cs = 1..n /\ \A k \in 1..n : cs[k] \in R /\ cs[k] \in Kept
  <2>1. cs \in Seq(Kept) /\ Len(cs) = n /\ DOMAIN cs = 1..n
      BY <1>2, OrdersFacts
  <2> QED
      BY <1>2, <2>1 DEF Orders
<1>4. PICK w : \E fails \in BOOLEAN :
         /\ w = [rp |-> rp, uv |-> uv, listed |-> allow # <<>>, twice |-> D, answered |-> ~fails]
         /\ writer' = w /\ given' = (IF fails THEN <<>> ELSE <<cs[1]>>)
    BY <1>1 DEF GetAssertion
<1>. PICK fails \in BOOLEAN :
         /\ w = [rp |-> rp, uv |-> uv, listed |-> allow # <<>>, twice |-> D, answered |-> ~fails]
         /\ writer' = w /\ given' = (IF fails THEN <<>> ELSE <<cs[1]>>)
    BY <1>4
<1>5. /\ w \in Requests /\ w.rp = rp /\ w.uv = uv /\ w.listed = (allow # <<>>) /\ w.answered = ~fails
      /\ w.twice = D
  <2>1. D \in SUBSET (1..MaxMade)
    <3>1. PICK m \in 0..MaxAllow : allow \in [1..m -> 1..made]
        BY DEF AllowLists
    <3>2. 1..made \subseteq 1..MaxMade
        BY KeptFacts DEF AssertionInv, AssertionTypeOK
    <3> QED
        BY <1>1, <3>1, <3>2 DEF Repeated
  <2> QED
      BY <1>4, <2>1 DEF Requests
<1>6. /\ n > 1 /\ credsx' = cs /\ counter' = 1 /\ total' = n /\ uvx' = uv /\ late' = FALSE /\ writer' = w
      /\ given' = (IF fails THEN <<>> ELSE <<cs[1]>>) /\ UNCHANGED records
    BY <1>1, <1>3, <1>4 DEF GetAssertion
<1>7. /\ given' \in Seq(Kept) /\ Len(given') = (IF fails THEN 0 ELSE 1) /\ DOMAIN given' = 1..Len(given')
      /\ ~fails => given'[1] = cs[1]
  <2>1. CASE fails
      BY <1>6, <2>1, EmptySeq
  <2>2. CASE ~fails
    <3>1. given' = <<cs[1]>> /\ cs[1] \in Kept
        BY <1>3, <1>6, <2>2
    <3> QED
        BY <2>2, <3>1
  <2> QED
      BY <2>1, <2>2
<1>8. AssertionTypeOK'
  <2>1. total' = Len(credsx') /\ counter' \in Nat /\ counter' <= total'
      BY <1>2, <1>3, <1>6, KeptFacts
  <2>2. {credsx', given'} \subseteq Seq(Kept) /\ {uvx', late'} \subseteq BOOLEAN /\ writer' \in Requests
      BY <1>3, <1>5, <1>6, <1>7
  <2>3. UNCHANGED <<store, wallet, clock, made, boot>>
      BY <1>6 DEF records
  <2> QED
      BY <2>1, <2>2, <2>3 DEF AssertionInv, AssertionTypeOK
<1>9. RecordInv'
    BY <1>6, RecordsKept DEF AssertionInv
<1>10. ListInv'
  <2>1. InOrder(cs, D)
      BY <1>2, <1>3, OrdersInOrder DEF AssertionInv
  <2>2. InOrder(given', writer'.twice)
    <3>1. \A i, j \in DOMAIN given' : i = j
        BY <1>7
    <3>2. \A i \in DOMAIN given' : ~(i < i)
        BY <1>7
    <3> QED
        BY <3>1, <3>2 DEF InOrder
  <2>3. ListLawful'
    <3>1. \A k \in 1..n : cs[k].rp = rp /\ Permitted(cs[k], uv, allow)
        BY <1>2, <1>3
    <3> QED
        BY <1>3, <1>5, <1>6, <3>1 DEF ListLawful, Permitted
  <2>4. AnswersInv'
    <3>1. Missed' = (IF fails THEN 1 ELSE 0)
        BY <1>5, <1>6 DEF Missed
    <3>2. Len(given') = counter' - Missed'
        BY <1>6, <1>7, <3>1
    <3>3. ASSUME NEW k \in 1..Len(given') PROVE given'[k] = credsx'[k + Missed']
        BY <1>6, <1>7, <3>1, <3>3
    <3> QED
        BY <1>5, <1>6, <3>2, <3>3 DEF AnswersInv
  <2> QED
      BY <1>5, <1>6, <2>1, <2>2, <2>3, <2>4 DEF ListInv, InOrder
<1> QED
    BY <1>8, <1>9, <1>10 DEF AssertionInv

LEMMA ForgottenList ==
    ASSUME AssertionInv, Forget \/ (credsx' = <<>> /\ counter' = 1 /\ total' = 0 /\ uvx' = FALSE /\ late' = FALSE),
           RecordInv', InOrder(given', writer'.twice), given' \in Seq(Kept), writer' \in Requests \cup {None},
           store' \in [Slot -> Kept \cup {None}], wallet' \subseteq Kept,
           made' \in 0..MaxMade, clock' \in 0..(made'), boot' \in 1..MaxBoots
    PROVE  AssertionInv'
<1>1. credsx' = <<>> /\ counter' \in {0, 1} /\ total' = 0 /\ uvx' = FALSE /\ late' = FALSE
    BY DEF Forget
<1>2. credsx' \in Seq(Kept) /\ Len(credsx') = 0 /\ DOMAIN credsx' = {}
    BY <1>1, EmptySeq
<1>3. counter' \in Nat /\ (counter' <= total' \/ counter' = 1) /\ ~(counter' < total')
    BY <1>1
<1>4. AssertionTypeOK'
    BY <1>1, <1>2, <1>3 DEF AssertionTypeOK
<1>5. ListInv'
    BY <1>2, <1>3 DEF ListInv, ListLawful, AnswersInv, InOrder
<1> QED
    BY <1>4, <1>5 DEF AssertionInv

LEMMA GetNextStep ==
    ASSUME AssertionInv, GetNextAssertion
    PROVE  AssertionInv'
<1>1. counter < total /\ given' = Append(given, credsx[counter + 1]) /\ UNCHANGED records /\ writer' = writer
    BY DEF GetNextAssertion
<1>2. /\ credsx \in Seq(Kept) /\ given \in Seq(Kept) /\ total = Len(credsx) /\ total \in Nat
      /\ counter \in Nat /\ DOMAIN credsx = 1..total /\ DOMAIN given = 1..Len(given) /\ Len(given) \in Nat
    BY KeptFacts, LenProperties DEF AssertionInv, AssertionTypeOK
<1>3. /\ counter >= 1 /\ writer \in Requests /\ Len(given) = counter - Missed
      /\ \A k \in 1..Len(given) : given[k] = credsx[k + Missed]
    BY <1>1 DEF AssertionInv, ListInv, AnswersInv
<1>4. PICK m : m = Missed /\ m \in {0, 1} /\ Missed' = m
    BY <1>1 DEF Missed
<1>5. counter + 1 \in 1..total /\ credsx[counter + 1] \in Kept
    BY <1>1, <1>2, ElementOfSeq
<1>6. PICK c : c = credsx[counter + 1]
    OBVIOUS
<1>7. /\ given' \in Seq(Kept) /\ Len(given') = Len(given) + 1 /\ DOMAIN given' = 1..(Len(given) + 1)
      /\ \A k \in 1..Len(given) : given'[k] = given[k]
      /\ given'[Len(given) + 1] = c
    BY <1>1, <1>2, <1>5, <1>6, AppendProperties, LenProperties
<1>8. Len(given') = (counter + 1) - m /\ \A k \in DOMAIN given' : k \in 1..Len(given') /\ k + m \in 1..total
    BY <1>1, <1>2, <1>3, <1>4, <1>7
<1>9. ASSUME NEW k \in DOMAIN given' PROVE given'[k] = credsx[k + m]
  <2>1. CASE k = Len(given) + 1
    <3>1. k + m = counter + 1
        BY <1>2, <1>3, <1>4, <2>1
    <3> QED
        BY <1>6, <1>7, <2>1, <3>1
  <2>2. CASE k # Len(given) + 1
    <3>1. k \in 1..Len(given)
        BY <1>2, <1>7, <1>9, <2>2
    <3> QED
        BY <1>3, <1>4, <1>7, <3>1
  <2> QED
      BY <2>1, <2>2
<1>10. InOrder(given', writer'.twice)
  <2>1. ASSUME NEW i \in DOMAIN given', NEW j \in DOMAIN given', i < j
        PROVE  /\ given'[i].id = given'[j].id => given'[i].id \in writer'.twice
               /\ given'[i].boot = given'[j].boot => given'[i].id >= given'[j].id
    <3>1. i + m \in DOMAIN credsx /\ j + m \in DOMAIN credsx /\ i + m < j + m
        BY <1>2, <1>4, <1>7, <1>8, <2>1
    <3> QED
        BY <1>1, <1>9, <2>1, <3>1 DEF AssertionInv, ListInv, InOrder
  <2> QED
      BY <2>1 DEF InOrder
<1>11. RecordInv'
    BY <1>1, RecordsKept DEF AssertionInv
<1>12. UNCHANGED <<store, wallet, clock, made, boot>>
    BY <1>1 DEF records
<1>13. CASE counter + 1 = total
  <2>1. Forget
      BY <1>13 DEF GetNextAssertion
  <2>2. /\ store' \in [Slot -> Kept \cup {None}] /\ wallet' \subseteq Kept /\ writer' \in Requests \cup {None}
        /\ made' \in 0..MaxMade /\ clock' \in 0..(made') /\ boot' \in 1..MaxBoots
      BY <1>1, <1>12 DEF AssertionInv, AssertionTypeOK
  <2> QED
      BY <1>7, <1>10, <1>11, <2>1, <2>2, ForgottenList
<1>14. CASE counter + 1 # total
  <2>1. counter' = counter + 1 /\ late' = FALSE /\ credsx' = credsx /\ total' = total /\ uvx' = uvx
      BY <1>14 DEF GetNextAssertion
  <2>2. AssertionTypeOK'
    <3>1. counter' \in Nat /\ counter' <= total'
        BY <1>1, <1>2, <2>1, KeptFacts
    <3>2. {credsx', given'} \subseteq Seq(Kept) /\ {uvx', late'} \subseteq BOOLEAN
        BY <1>2, <1>7, <2>1 DEF AssertionInv, AssertionTypeOK
    <3> QED
        BY <1>1, <1>12, <2>1, <3>1, <3>2 DEF AssertionInv, AssertionTypeOK
  <2>3. InOrder(credsx', writer'.twice)
      BY <1>1, <2>1 DEF AssertionInv, ListInv, InOrder
  <2>4. ListLawful'
      BY <1>1, <2>1 DEF AssertionInv, ListInv, ListLawful
  <2>5. AnswersInv'
    <3>1. counter' >= 1 /\ writer' \in Requests /\ Len(given') = counter' - m
        BY <1>1, <1>2, <1>3, <1>8, <2>1
    <3>2. \A k \in 1..Len(given') : given'[k] = credsx'[k + m]
        BY <1>7, <1>9, <2>1
    <3> QED
        BY <1>4, <3>1, <3>2 DEF AnswersInv
  <2> QED
      BY <1>10, <1>11, <2>2, <2>3, <2>4, <2>5 DEF AssertionInv, ListInv
<1> QED
    BY <1>13, <1>14

LEMMA AssertionStep ==
    ASSUME AssertionInv, [AssertionNext]_assertionVars
    PROVE  AssertionInv'
<1>1. CASE \E rp \in RPs, p \in Protects, resident \in BOOLEAN : MakeCredential(rp, p, resident)
    BY <1>1, MakeStep
<1>2. CASE \E s \in Slot : DeleteCredential(s)
    BY <1>2, DeleteStep
<1>3. CASE \E rp \in RPs, a \in AllowLists, uv \in BOOLEAN : GetAssertion(rp, a, uv)
    BY <1>3, GetAssertionStep
<1>4. CASE GetNextAssertion
    BY <1>4, GetNextStep
<1> DEFINE NoAnswer == given' = <<>> /\ writer' = None
<1>5. NoAnswer => given' \in Seq(Kept) /\ InOrder(given', writer'.twice) /\ writer' \in Requests \cup {None}
  <2>1. <<>> \in Seq(Kept) /\ DOMAIN <<>> = {}
      BY EmptySeq
  <2> QED
      BY <2>1 DEF InOrder
<1>6. /\ store \in [Slot -> Kept \cup {None}] /\ wallet \subseteq Kept
      /\ made \in 0..MaxMade /\ clock \in 0..made /\ boot \in 1..MaxBoots
    BY DEF AssertionInv, AssertionTypeOK
<1>7. CASE GetNextFails
  <2>1. Forget /\ NoAnswer /\ UNCHANGED records /\ UNCHANGED <<store, wallet, clock, made, boot>>
      BY <1>7 DEF GetNextFails, records
  <2>2. RecordInv'
      BY <2>1, RecordsKept DEF AssertionInv
  <2> QED
      BY <1>5, <1>6, <2>1, <2>2, ForgottenList
<1>8. CASE HalfMinute
  <2>1. UNCHANGED <<records, credsx, counter, total, uvx, writer, given>> /\ late' = TRUE
      BY <1>8 DEF HalfMinute
  <2>2. RecordInv'
      BY <2>1, RecordsKept DEF AssertionInv
  <2>3. AssertionTypeOK'
    <3>1. {uvx', late'} \subseteq BOOLEAN
        BY <2>1 DEF AssertionInv, AssertionTypeOK
    <3> QED
        BY <2>1, <3>1 DEF AssertionInv, AssertionTypeOK, records
  <2>4. ListInv'
      BY <2>1 DEF AssertionInv, ListInv, InOrder, ListLawful, AnswersInv, Missed
  <2> QED
      BY <2>2, <2>3, <2>4 DEF AssertionInv
<1>9. CASE Restart
  <2>1. /\ boot < MaxBoots /\ boot' = boot + 1 /\ clock' = 0 /\ made' = made /\ store' = store /\ wallet' = wallet
        /\ credsx' = <<>> /\ counter' = 1 /\ total' = 0 /\ uvx' = FALSE /\ late' = FALSE /\ NoAnswer
      BY <1>9 DEF Restart
  <2>2. boot' \in 1..MaxBoots /\ clock' \in 0..(made')
      BY <1>6, <2>1, KeptFacts
  <2>3. Known' = Known
      BY <2>1 DEF Known
  <2>4. RecordInv'
    <3>1. ASSUME NEW c \in Known PROVE c.boot <= boot' /\ c.boot # boot'
      <4>1. c.boot <= boot /\ c.boot \in Nat /\ boot \in Nat
          BY <1>6, KeptFacts, KnownFacts DEF AssertionInv, RecordInv
      <4> QED
          BY <2>1, <4>1
    <3> QED
        BY <2>1, <2>3, <3>1 DEF AssertionInv, RecordInv
  <2> QED
      BY <1>5, <1>6, <2>1, <2>2, <2>4, ForgottenList
<1>10. CASE UNCHANGED assertionVars
  <2>1. UNCHANGED <<store, wallet, clock, made, boot>> /\ UNCHANGED list /\ UNCHANGED records
      BY <1>10 DEF assertionVars, records
  <2>2. AssertionTypeOK'
      BY <2>1 DEF AssertionInv, AssertionTypeOK, list
  <2> QED
      BY <2>1, <2>2, ListKept, RecordsKept DEF AssertionInv
<1> QED
    BY <1>1, <1>2, <1>3, <1>4, <1>7, <1>8, <1>9, <1>10 DEF AssertionNext

LEMMA AssertionInvariant == AssertionSpec => []AssertionInv
<1>1. AssertionInit => AssertionInv
    BY AssertionInitInv
<1>2. AssertionInv /\ [AssertionNext]_assertionVars => AssertionInv'
    BY AssertionStep
<1> QED
    BY <1>1, <1>2, PTL DEF AssertionSpec

-----------------------------------------------------------------------------
(* What the theorems say *)

LEMMA PromiseFromInv ==
    ASSUME AssertionInv
    PROVE  PromiseKept
<1> SUFFICES ASSUME counter < total, writer.answered PROVE given = SubSeq(credsx, 1, counter)
    BY DEF PromiseKept
<1>1. /\ credsx \in Seq(Kept) /\ given \in Seq(Kept) /\ total = Len(credsx)
      /\ total \in Nat /\ counter \in Nat
    BY KeptFacts, LenProperties DEF AssertionInv, AssertionTypeOK
<1>2. Len(given) = counter /\ counter >= 1 /\ \A k \in 1..Len(given) : given[k] = credsx[k]
  <2>1. Missed = 0
      BY DEF Missed
  <2>2. counter >= 1 /\ Len(given) = counter - Missed /\ \A k \in 1..Len(given) : given[k] = credsx[k + Missed]
      BY DEF AssertionInv, ListInv, AnswersInv
  <2> QED
      BY <1>1, <2>1, <2>2
<1>3. \A k \in 1..counter : credsx[k] \in Kept
  <2>1. \A k \in 1..counter : k \in 1..Len(credsx)
      BY <1>1
  <2> QED
      BY <1>1, <2>1, ElementOfSeq
<1>4. PICK s : s = SubSeq(credsx, 1, counter)
    OBVIOUS
<1>5. s \in Seq(Kept) /\ Len(s) = counter /\ \A k \in 1..counter : s[k] = credsx[k]
  <2>1. 1 \in Int /\ counter \in Int
      BY <1>1
  <2>2. /\ s \in Seq(Kept) /\ Len(s) = (IF 1 <= counter THEN counter - 1 + 1 ELSE 0)
        /\ \A k \in 1..(counter - 1 + 1) : s[k] = credsx[1 + k - 1]
      BY <1>3, <1>4, <2>1, SubSeqProperties
  <2> QED
      BY <1>1, <1>2, <2>2
<1>6. \A k \in 1..Len(given) : given[k] = s[k]
    BY <1>2, <1>5
<1> QED
    BY <1>1, <1>2, <1>4, <1>5, <1>6, SeqEqual

LEMMA OffersFromInv ==
    ASSUME AssertionInv
    PROVE  OffersAll
<1> SUFFICES ASSUME NEW rp \in RPs, NEW uv \in BOOLEAN,
                    Cardinality({store[s] : s \in {t \in Slot : store[t] # None /\ store[t].rp = rp}}) <= MaxList
             PROVE  ToSet(Chosen(rp, <<>>, uv)) =
                       {c \in {store[s] : s \in {t \in Slot : store[t] # None /\ store[t].rp = rp}} :
                           c.protect = UvRequired \/ c.protect = UvWithList => uv}
    BY DEF OffersAll
<1>1. PICK F, mine : F = FilesFor(rp) /\ mine = {store[s] : s \in F}
    OBVIOUS
<1>2. F = {t \in Slot : store[t] # None /\ store[t].rp = rp}
    BY <1>1 DEF FilesFor
<1>3. Cardinality(F) <= MaxList
  <2>1. PICK f : f = [s \in F |-> store[s]]
      OBVIOUS
  <2>2. f \in Bijection(F, mine)
    <3>1. \A s, t \in F : f[s] = f[t] => s = t
        BY <1>2, <2>1 DEF AssertionInv, RecordInv
    <3>2. f \in [F -> mine] /\ \A c \in mine : \E s \in F : f[s] = c
        BY <1>1, <2>1
    <3> QED
        BY <3>1, <3>2 DEF Bijection, Injection, Surjection, IsInjective
  <2>3. IsFiniteSet(F) /\ ExistsBijection(F, mine)
    <3>1. F \in SUBSET (1..Slots)
        BY <1>2 DEF Slot
    <3>2. IsFiniteSet(F)
        BY <3>1, KeptFacts, IntervalSets
    <3> QED
        BY <2>2, <3>2 DEF ExistsBijection
  <2> QED
      BY <1>1, <1>2, <2>3, FS_Bijection
<1>4. PICK allow \in AllowLists : allow = <<>>
  <2>1. <<>> \in [1..0 -> 1..made] /\ 0 \in 0..MaxAllow /\ Len(<<>>) <= MaxList
      BY KeptFacts, EmptySeq
  <2>2. <<>> \in UNION {[1..n -> 1..made] : n \in 0..MaxAllow}
      BY <2>1
  <2> QED
      BY <2>1, <2>2 DEF AllowLists
<1>5. PICK t : t = Chosen(rp, allow, uv)
    OBVIOUS
<1>6. PICK n \in Nat, R \in SUBSET Known :
         t \in Orders(n, R, Repeated(allow)) /\ R = {c \in mine : Permitted(c, uv, allow)}
    BY <1>1, <1>3, <1>4, <1>5, ChosenFacts DEF AssertionInv
<1>7. n \in Nat /\ DOMAIN t = 1..n /\ {t[k] : k \in 1..n} = R
    BY <1>6, KeptFacts, OrdersFacts DEF Orders
<1>8. ToSet(t) = R
    BY <1>7 DEF ToSet
<1>9. \A c : Permitted(c, uv, allow) <=> (c.protect = UvRequired \/ c.protect = UvWithList => uv)
    BY <1>4 DEF Permitted
<1> QED
    BY <1>1, <1>2, <1>4, <1>5, <1>6, <1>8, <1>9

(* What the credentials, the list and its position hold, in every state    *)
(* (cbor_get_assertion.c:36-43).                                           *)
THEOREM AssertionTypes == AssertionSpec => []AssertionTypeOK
<1>1. AssertionInv => AssertionTypeOK
    BY DEF AssertionInv
<1> QED
    BY <1>1, AssertionInvariant, PTL

(* Two answers from one list are the same credential only if its request   *)
(* named it twice, and of two made since the same start of the device the  *)
(* newer comes first, whatever the length of the list that                 *)
(* cbor_get_assertion.c:424-434 sorts.                                     *)
THEOREM OfferedOnce == AssertionSpec => []EachOnceNewestFirst
<1>1. AssertionInv => EachOnceNewestFirst
    BY DEF AssertionInv, ListInv, InOrder, EachOnceNewestFirst
<1> QED
    BY <1>1, AssertionInvariant, PTL

(* The answers so far are the beginning of the list as it was written, and *)
(* numberOfCredentials is what they and the rest make                      *)
(* (cbor_get_assertion.c:49, 470-484, 492).                                *)
THEOREM PromiseHolds == AssertionSpec => []PromiseKept
<1>1. AssertionInv => PromiseKept
    BY PromiseFromInv
<1> QED
    BY <1>1, AssertionInvariant, PTL

(* Every credential that waits in credsx is one that the request which     *)
(* wrote the list was allowed to see (cbor_get_assertion.c:361-388, 482).  *)
THEOREM AnswersLawful == AssertionSpec => []ListLawful
<1>1. AssertionInv => ListLawful
    BY DEF AssertionInv, ListInv
<1> QED
    BY <1>1, AssertionInvariant, PTL

(* Nothing the relying party may see is left out, of MaxList credentials   *)
(* or fewer (cbor_get_assertion.c:344-388).                                *)
THEOREM AllOffered == AssertionSpec => []OffersAll
<1>1. AssertionInv => OffersAll
    BY OffersFromInv
<1> QED
    BY <1>1, AssertionInvariant, PTL
=============================================================================
