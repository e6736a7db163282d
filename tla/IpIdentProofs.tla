---------------------------- MODULE IpIdentProofs ----------------------------
(***************************************************************************)
(* Theorems of the module IpIdent: types, and that races only slow the     *)
(* counter down.                                                           *)
(***************************************************************************)
EXTENDS IpIdent, Arithmetic, FiniteSetTheorems, TLAPS

-----------------------------------------------------------------------------
(* Types. *)

\* An lcore in the constructor has a packet left to build.
RoomForPacket ==
  /\ IsFiniteSet(issued)
  /\ \A c \in Cores : pc[c] # "load" => Cardinality(PacketsOf(c)) < MaxPackets

TypeInv == TypeOK /\ RoomForPacket

\* The initial values have their types.
LEMMA InitTypeInv == Init => TypeInv
<1> SUFFICES ASSUME Init PROVE TypeInv
  OBVIOUS
<1>1. First \in 0 .. Width - 1 /\ 0 \in 0 .. Width - 1
  BY IpIdentAssumption DEF IpIdentAssumption
<1>2. TypeOK
  BY <1>1 DEF Init, TypeOK
<1>3. RoomForPacket
  BY FS_EmptySet DEF Init, RoomForPacket
<1> QED
  BY <1>2, <1>3 DEF TypeInv

\* What the counter is bumped to has its type.
LEMMA BumpType ==
  ASSUME NEW v \in 0 .. Width - 1
  PROVE  Bump(v) \in 0 .. Width - 1
<1>1. v + Step \in Int
  BY IpIdentAssumption DEF IpIdentAssumption
<1>2. Width \in Nat \ {0}
  BY IpIdentAssumption DEF IpIdentAssumption
<1> QED
  BY <1>1, <1>2, DivMod DEF Bump

\* Every step preserves the types.
LEMMA NextTypeInv == TypeInv /\ [Next]_vars => TypeInv'
<1> SUFFICES ASSUME TypeInv, [Next]_vars PROVE TypeInv'
  OBVIOUS
<1> USE DEF TypeInv
<1>1. ASSUME NEW c \in Cores, Load(c) PROVE TypeInv'
  BY <1>1 DEF TypeOK, RoomForPacket, Load, PacketsOf
<1>2. ASSUME NEW c \in Cores, Store(c) PROVE TypeInv'
  <2>1. Bump(reg[c]) \in 0 .. Width - 1
    BY BumpType DEF TypeOK
  <2>2. TypeOK'
    BY <1>2, <2>1 DEF TypeOK, Store, Kept
  <2>3. RoomForPacket'
    BY <1>2 DEF TypeOK, RoomForPacket, Store, PacketsOf
  <2> QED
    BY <2>2, <2>3
<1>3. ASSUME NEW c \in Cores, SetId(c) PROVE TypeInv'
  <2> DEFINE n == Cardinality(PacketsOf(c)) + 1
  <2>1. PICK id \in {reg[c], ident} :
          issued' = issued \cup {[core |-> c, number |-> n, id |-> id]}
    BY <1>3 DEF SetId
  <2>2. n \in 1 .. MaxPackets
    <3>1. Cardinality(PacketsOf(c)) \in Nat
      BY FS_Subset, FS_CardinalityType DEF PacketsOf, RoomForPacket
    <3>2. Cardinality(PacketsOf(c)) < MaxPackets
      BY <1>3 DEF SetId, RoomForPacket
    <3> QED
      BY <3>1, <3>2, IpIdentAssumption DEF IpIdentAssumption
  <2>3. id \in 0 .. Width - 1
    BY DEF TypeOK
  <2>4. TypeOK'
    <3> HIDE DEF n
    <3>1. issued' \subseteq [core : Cores, number : 1 .. MaxPackets, id : 0 .. Width - 1]
      BY <2>1, <2>2, <2>3 DEF TypeOK
    <3> QED
      BY <1>3, <3>1 DEF TypeOK, SetId
  <2>5. RoomForPacket'
    <3> HIDE DEF n
    <3>1. IsFiniteSet(issued')
      BY <2>1, FS_AddElement DEF RoomForPacket
    <3>2. ASSUME NEW d \in Cores, pc'[d] # "load" PROVE Cardinality(PacketsOf(d)') < MaxPackets
      <4>1. d # c /\ pc[d] # "load"
        BY <1>3, <3>2 DEF SetId, TypeOK
      <4>2. PacketsOf(d)' = PacketsOf(d)
        BY <2>1, <4>1 DEF PacketsOf
      <4> QED
        BY <4>1, <4>2 DEF RoomForPacket
    <3> QED
      BY <3>1, <3>2 DEF RoomForPacket
  <2> QED
    BY <2>4, <2>5
<1>4. CASE UNCHANGED vars
  BY <1>4 DEF vars, TypeOK, RoomForPacket, PacketsOf
<1> QED
  BY <1>1, <1>2, <1>3, <1>4 DEF Next, Finished

\* The counter, the registers and the identifications of packets are 16-bit values
\* and no lcore builds more packets than it may.
THEOREM TypeCorrect == Spec => []TypeOK
<1>1. Spec => []TypeInv
  BY InitTypeInv, NextTypeInv, PTL DEF Spec
<1> QED
  BY <1>1, PTL DEF TypeInv

-----------------------------------------------------------------------------
(* The counter stays on its track. *)

\* v is a value the counter takes after lo to n bumps without a race.
OnTrack(v, lo, n) == \E k \in lo .. n : v = (First + Step * k) % Width

TrackInv ==
  /\ OnTrack(ident, 0, bumps)
  /\ bumps > 0 => OnTrack(ident, 1, bumps)
  /\ \A c \in Cores : pc[c] = "store" => OnTrack(reg[c], 0, bumps)
  /\ \A c \in Cores : pc[c] = "id" => bumps > 0 /\ OnTrack(reg[c], 1, bumps)
  /\ IdsOnTrack

\* The start of the track.
LEMMA InitTrackInv == Init => TrackInv
<1> SUFFICES ASSUME Init PROVE TrackInv
  OBVIOUS
<1>1. First + Step * 0 = First
  BY IpIdentAssumption DEF IpIdentAssumption
<1>2. First % Width = First
  <2>1. First \in Int /\ Width \in Nat \ {0} /\ First \in 0 .. Width - 1
    BY IpIdentAssumption DEF IpIdentAssumption
  <2>2. /\ First \div Width \in Int /\ First % Width \in 0 .. Width - 1
        /\ First = Width * (First \div Width) + (First % Width)
    BY <2>1, DivMod
  <2>3. Width * 0 + First = First
    BY <2>1
  <2> QED
    BY <2>1, <2>2, <2>3, Unique
<1>3. OnTrack(ident, 0, bumps)
  BY <1>1, <1>2 DEF Init, OnTrack
<1> QED
  BY <1>3 DEF Init, TrackInv, IdsOnTrack

\* More bumps leave what is on the track on it.
LEMMA TrackGrows ==
  ASSUME NEW v, NEW lo \in Nat, NEW n \in Nat, OnTrack(v, lo, n)
  PROVE  OnTrack(v, lo, n + 1)
BY DEF OnTrack

\* A bump goes one place further along the track.
LEMMA BumpOnTrack ==
  ASSUME NEW v, NEW n \in Nat, OnTrack(v, 0, n)
  PROVE  OnTrack(Bump(v), 1, n + 1)
<1>1. PICK k \in 0 .. n : v = (First + Step * k) % Width
  BY DEF OnTrack
<1>2. k + 1 \in 1 .. n + 1 /\ k \in Int
  OBVIOUS
<1>3. Step \in Int /\ First \in Int /\ Width \in Nat \ {0}
  BY IpIdentAssumption DEF IpIdentAssumption
<1>4. Step * k \in Int /\ Step * (k + 1) = Step * k + Step
  BY <1>2, <1>3
<1>5. Bump(v) = ((First + Step * k) + Step) % Width
  <2> DEFINE a == First + Step * k
  <2>1. a \in Int
    BY <1>3, <1>4
  <2>2. v = a % Width
    BY <1>1
  <2> HIDE DEF a
  <2>3. ((a % Width) + Step) % Width = (a + Step) % Width
    BY <1>3, <2>1, ModAdd
  <2> QED
    BY <2>2, <2>3 DEF Bump, a
<1>6. (First + Step * k) + Step = First + Step * (k + 1)
  BY <1>3, <1>4
<1> QED
  BY <1>2, <1>5, <1>6 DEF OnTrack

\* Every step keeps the counter, the registers and the packets on the track.
LEMMA NextTrackInv == TypeInv /\ TrackInv /\ [Next]_vars => TrackInv'
<1> SUFFICES ASSUME TypeInv, TrackInv, [Next]_vars PROVE TrackInv'
  OBVIOUS
<1>t. bumps \in Nat /\ pc \in [Cores -> {"load", "store", "id"}] /\ DOMAIN reg = Cores
  BY DEF TypeInv, TypeOK
<1>1. ASSUME NEW c \in Cores, Load(c) PROVE TrackInv'
  <2>1. /\ ident' = ident /\ bumps' = bumps /\ issued' = issued
        /\ reg' = [reg EXCEPT ![c] = ident] /\ pc' = [pc EXCEPT ![c] = "store"]
    BY <1>1 DEF Load
  <2> QED
    BY <1>t, <2>1 DEF TrackInv, IdsOnTrack
<1>2. ASSUME NEW c \in Cores, Store(c) PROVE TrackInv'
  <2>1. /\ pc[c] = "store" /\ ident' = Bump(reg[c]) /\ bumps' = bumps + 1 /\ issued' = issued
        /\ reg' = [reg EXCEPT ![c] = Bump(reg[c])] /\ pc' = [pc EXCEPT ![c] = "id"]
    BY <1>2 DEF Store, Kept
  <2>2. OnTrack(Bump(reg[c]), 1, bumps + 1)
    BY <1>t, <2>1, BumpOnTrack DEF TrackInv
  <2>3. OnTrack(Bump(reg[c]), 0, bumps + 1)
    BY <1>t, <2>2 DEF OnTrack
  <2>4. \A d \in Cores : pc'[d] = "store" => OnTrack(reg'[d], 0, bumps')
    BY <1>t, <2>1, TrackGrows DEF TrackInv
  <2>5. \A d \in Cores : pc'[d] = "id" => bumps' > 0 /\ OnTrack(reg'[d], 1, bumps')
    <3> SUFFICES ASSUME NEW d \in Cores, pc'[d] = "id"
                 PROVE  bumps' > 0 /\ OnTrack(reg'[d], 1, bumps')
      OBVIOUS
    <3>1. CASE d = c
      BY <1>t, <2>1, <2>2, <3>1
    <3>2. CASE d # c
      BY <1>t, <2>1, <3>2, TrackGrows DEF TrackInv
    <3> QED
      BY <3>1, <3>2
  <2>6. IdsOnTrack'
    BY <1>t, <2>1 DEF TrackInv, IdsOnTrack
  <2> QED
    BY <2>1, <2>2, <2>3, <2>4, <2>5, <2>6 DEF TrackInv
<1>3. ASSUME NEW c \in Cores, SetId(c) PROVE TrackInv'
  <2>1. /\ pc[c] = "id" /\ ident' = ident /\ bumps' = bumps /\ reg' = reg
        /\ pc' = [pc EXCEPT ![c] = "load"]
    BY <1>3 DEF SetId
  <2>2. PICK id \in {reg[c], ident} :
          issued' = issued \cup
            {[core |-> c, number |-> Cardinality(PacketsOf(c)) + 1, id |-> id]}
    BY <1>3 DEF SetId
  <2>3. OnTrack(id, 1, bumps)
    BY <2>1, <2>2 DEF TrackInv
  <2>4. IdsOnTrack'
    <3> SUFFICES ASSUME NEW x \in issued' PROVE OnTrack(x.id, 1, bumps)
      BY <2>1 DEF IdsOnTrack, OnTrack
    <3>1. CASE x \in issued
      BY <3>1 DEF TrackInv, IdsOnTrack, OnTrack
    <3>2. CASE x = [core |-> c, number |-> Cardinality(PacketsOf(c)) + 1, id |-> id]
      BY <2>3, <3>2
    <3> QED
      BY <2>2, <3>1, <3>2
  <2> QED
    BY <1>t, <2>1, <2>4 DEF TrackInv
<1>4. CASE UNCHANGED vars
  BY <1>4 DEF vars, TrackInv, IdsOnTrack
<1> QED
  BY <1>1, <1>2, <1>3, <1>4 DEF Next, Finished

\* However the loads and stores of the lcores interleave, and however many updates
\* are lost, every packet has an identification the counter would have reached without
\* a race after no more bumps, and none has the initial value.
THEOREM IdsOnTrackCorrect == Spec => []IdsOnTrack
<1>1. Spec => []TypeInv
  BY InitTypeInv, NextTypeInv, PTL DEF Spec
<1>2. Spec => []TrackInv
  BY <1>1, InitTrackInv, NextTrackInv, PTL DEF Spec
<1> QED
  BY <1>2, PTL DEF TrackInv

-----------------------------------------------------------------------------
(* Without a race identifications are unique. *)

\* The value of the counter after k bumps without a race.
At(k) == (First + Step * k) % Width

\* Packets of an lcore are numbered in the order it builds them.
PacketsNumbered ==
  /\ \A x \in issued : x.number <= Cardinality(PacketsOf(x.core))
  /\ \A x, y \in issued : x.core = y.core /\ x.number = y.number => x = y

\* As long as only one lcore at a time is in the constructor, the packets have the first
\* values of the track, and the counter has the next one while a packet is being built.
Building == \E c \in Cores : pc[c] = "id"
AloneInv ==
  /\ \A c, d \in Cores : c # d => pc[c] = "load" \/ pc[d] = "load"
  /\ ident = At(bumps)
  /\ \A c \in Cores : pc[c] # "load" => reg[c] = ident
  /\ bumps = Cardinality(issued) + IF Building THEN 1 ELSE 0
  /\ \A x \in issued : \E k \in 1 .. Cardinality(issued) : x.id = At(k)
  /\ \A x, y \in issued : x.id = y.id => x = y

UniqueInv == PacketsNumbered /\ (~shared => AloneInv)

\* Packets of one lcore, and of all, are finite in number.
LEMMA PacketsFinite ==
  ASSUME TypeInv, NEW c
  PROVE  /\ IsFiniteSet(PacketsOf(c)) /\ Cardinality(PacketsOf(c)) \in Nat
         /\ IsFiniteSet(issued) /\ Cardinality(issued) \in Nat
BY FS_Subset, FS_CardinalityType DEF TypeInv, RoomForPacket, PacketsOf

\* All lcores together build no more packets than each of them may.
LEMMA PacketsBounded ==
  ASSUME TypeInv, PacketsNumbered
  PROVE  Cardinality(issued) <= Cardinality(Cores) * MaxPackets
<1> DEFINE T == Cores \X (1 .. MaxPackets)
           f == [x \in issued |-> <<x.core, x.number>>]
<1>1. IsFiniteSet(Cores) /\ MaxPackets \in Nat
  BY IpIdentAssumption DEF IpIdentAssumption
<1>2. IsFiniteSet(1 .. MaxPackets) /\ Cardinality(1 .. MaxPackets) = MaxPackets
  BY <1>1, FS_Interval
<1>3. IsFiniteSet(T) /\ Cardinality(T) = Cardinality(Cores) * MaxPackets
  BY <1>1, <1>2, FS_Product
<1>4. \A x \in issued : x.core \in Cores /\ x.number \in 1 .. MaxPackets
  BY DEF TypeInv, TypeOK
<1>5. f \in [issued -> T]
  BY <1>4
<1>6. \A x, y \in issued : f[x] = f[y] => x = y
  BY DEF PacketsNumbered
<1>7. f \in Injection(issued, T)
  BY <1>5, <1>6 DEF Injection, IsInjective
<1> HIDE DEF T, f
<1> QED
  BY <1>3, <1>7, FS_Injection

\* If no number of steps that is not too large comes to a multiple of the width, values so
\* many steps apart differ.
LEMMA AtDiffers ==
  ASSUME NEW j \in Nat, NEW k \in Nat, (Step * (k - j)) % Width # 0
  PROVE  At(j) # At(k)
<1> SUFFICES ASSUME At(j) = At(k) PROVE FALSE
  OBVIOUS
<1>1. Step \in Int /\ First \in Int /\ Width \in Nat \ {0}
  BY IpIdentAssumption DEF IpIdentAssumption
<1> DEFINE a == First + Step * j
           b == First + Step * k
           d == Step * (k - j)
<1>2. Step * (k - j) = Step * k - Step * j /\ Step * k \in Int /\ Step * j \in Int
  BY <1>1, Dist
<1>3. a \in Int /\ b \in Int /\ d \in Int /\ d = b - a
  BY <1>1, <1>2
<1>4. a % Width = b % Width /\ d % Width # 0
  BY DEF At
<1> HIDE DEF a, b, d
<1>5. /\ a \div Width \in Int /\ a % Width \in 0 .. Width - 1
      /\ a = Width * (a \div Width) + (a % Width)
  BY <1>1, <1>3, DivMod
<1>6. b \div Width \in Int /\ b = Width * (b \div Width) + (b % Width)
  BY <1>1, <1>3, DivMod
<1>7. d \div Width \in Int /\ d % Width \in 0 .. Width - 1 /\ d = Width * (d \div Width) + (d % Width)
  BY <1>1, <1>3, DivMod
<1> DEFINE p == b \div Width
           q == a \div Width
           r == d \div Width
           e == d % Width
<1>8. Width * (p - q) = Width * p - Width * q /\ Width * p \in Int /\ Width * q \in Int
  BY <1>1, <1>5, <1>6, Dist
<1>9. d = Width * (p - q) + 0
  BY <1>3, <1>4, <1>5, <1>6, <1>8
<1>10. p - q \in Int /\ r \in Int /\ e \in 0 .. Width - 1 /\ 0 \in 0 .. Width - 1
  BY <1>1, <1>5, <1>6, <1>7
<1>11. Width * r + e = Width * (p - q) + 0
  BY <1>7, <1>9
<1> HIDE DEF p, q, r, e
<1>12. e = 0
  BY <1>1, <1>10, <1>11, Unique
<1> QED
  BY <1>4, <1>12 DEF e

\* Before any packet nothing has been issued.
LEMMA InitUniqueInv == Init => UniqueInv
<1> SUFFICES ASSUME Init PROVE UniqueInv
  OBVIOUS
<1>1. First + Step * 0 = First /\ First \in 0 .. Width - 1 /\ Width \in Nat \ {0}
  BY IpIdentAssumption DEF IpIdentAssumption
<1>2. First % Width = First
  BY <1>1, WrapOnce
<1>3. issued = {} /\ Cardinality(issued) = 0
  BY FS_EmptySet DEF Init
<1> QED
  BY <1>1, <1>2, <1>3 DEF Init, UniqueInv, PacketsNumbered, AloneInv, Building, At

\* A packet is numbered after those of its lcore.
LEMMA SetIdNumbered ==
  ASSUME TypeInv, PacketsNumbered, NEW c \in Cores, NEW id,
         issued' = issued \cup
           {[core |-> c, number |-> Cardinality(PacketsOf(c)) + 1, id |-> id]}
  PROVE  PacketsNumbered'
<1> DEFINE n   == Cardinality(PacketsOf(c))
           new == [core |-> c, number |-> n + 1, id |-> id]
<1>1. n \in Nat /\ IsFiniteSet(PacketsOf(c))
  BY PacketsFinite
<1>2. new.core = c /\ new.number = n + 1
  OBVIOUS
<1>3. issued' = issued \cup {new}
  OBVIOUS
<1>4. \A x \in issued : x.number \in Nat
  BY DEF TypeInv, TypeOK
<1>5. \A x \in PacketsOf(c) : x.number <= n
  BY DEF PacketsNumbered, PacketsOf
<1> HIDE DEF n, new
<1>6. new \notin PacketsOf(c)
  BY <1>1, <1>2, <1>5
<1>7. PacketsOf(c)' = PacketsOf(c) \cup {new}
  BY <1>2, <1>3 DEF PacketsOf
<1>8. Cardinality(PacketsOf(c) \cup {new}) = n + 1
  BY <1>1, <1>6, FS_AddElement DEF n
<1>9. \A d : d # c => PacketsOf(d)' = PacketsOf(d)
  BY <1>2, <1>3 DEF PacketsOf
<1>10. ASSUME NEW x \in issued' PROVE x.number <= Cardinality({y \in issued' : y.core = x.core})
  <2>1. \A d : {y \in issued' : y.core = d} = PacketsOf(d)'
    BY DEF PacketsOf
  <2>2. CASE x = new
    <3>1. {y \in issued' : y.core = x.core} = PacketsOf(c) \cup {new}
      BY <1>2, <1>7, <2>1, <2>2
    <3>2. Cardinality({y \in issued' : y.core = x.core}) = n + 1
      BY <1>8, <3>1
    <3> QED
      BY <1>1, <1>2, <2>2, <3>2
  <2>3. CASE x \in issued /\ x.core = c
    <3>1. x.number <= n /\ x.number \in Nat
      BY <1>4, <1>5, <2>3 DEF PacketsOf
    <3>2. Cardinality({y \in issued' : y.core = x.core}) = n + 1
      BY <1>7, <1>8, <2>1, <2>3
    <3> QED
      BY <1>1, <3>1, <3>2
  <2>4. CASE x \in issued /\ x.core # c
    <3>1. {y \in issued' : y.core = x.core} = PacketsOf(x.core)
      BY <1>9, <2>1, <2>4
    <3> QED
      BY <2>4, <3>1 DEF PacketsNumbered
  <2> QED
    BY <1>3, <2>2, <2>3, <2>4
<1>11. ASSUME NEW x \in issued', NEW y \in issued', x.core = y.core, x.number = y.number
       PROVE  x = y
  <2>1. \A z \in issued : z.core = c => z.number # n + 1
    BY <1>1, <1>4, <1>5 DEF PacketsOf
  <2> QED
    BY <1>2, <1>3, <1>11, <2>1 DEF PacketsNumbered
<1> QED
  BY <1>10, <1>11 DEF PacketsNumbered, PacketsOf

\* The values of the counter are all different for as many packets as the lcores build: so it
\* is if Step is odd, Width a power of two, and the packets are fewer than Width.
Spread == \A d \in 1 .. Cardinality(Cores) * MaxPackets : (Step * d) % Width # 0

\* A packet built alone has a value that no other has.
LEMMA SetIdAlone ==
  ASSUME Spread, TypeInv, PacketsNumbered, AloneInv, NEW c \in Cores, SetId(c)
  PROVE  AloneInv'
<1>1. /\ pc[c] = "id" /\ ident' = ident /\ bumps' = bumps /\ reg' = reg
      /\ pc' = [pc EXCEPT ![c] = "load"]
  BY DEF SetId
<1>2. PICK id \in {reg[c], ident} :
        issued' = issued \cup
          {[core |-> c, number |-> Cardinality(PacketsOf(c)) + 1, id |-> id]}
  BY DEF SetId
<1> DEFINE n   == Cardinality(issued)
           new == [core |-> c, number |-> Cardinality(PacketsOf(c)) + 1, id |-> id]
<1>3. n \in Nat /\ IsFiniteSet(issued)
  BY PacketsFinite
<1>4. pc \in [Cores -> {"load", "store", "id"}]
  BY DEF TypeInv, TypeOK
<1>5. bumps = n + 1
  BY <1>1 DEF AloneInv, Building
<1>6. ident = At(n + 1) /\ id = At(n + 1)
  BY <1>1, <1>2, <1>5 DEF AloneInv
<1>7. new.id = At(n + 1)
  BY <1>6
<1>8. issued' = issued \cup {new}
  BY <1>2
<1>9. n <= Cardinality(Cores) * MaxPackets
  BY PacketsBounded
<1>10. \A x \in issued : \E k \in 1 .. n : x.id = At(k)
  BY DEF AloneInv
<1> HIDE DEF n, new
<1>11. Cardinality(Cores) * MaxPackets \in Int
  BY IpIdentAssumption, FS_CardinalityType DEF IpIdentAssumption
<1>12. ASSUME NEW k \in 1 .. n PROVE At(k) # At(n + 1)
  <2> DEFINE m == n + 1
  <2>1. m - k \in 1 .. Cardinality(Cores) * MaxPackets /\ k \in Nat /\ m \in Nat
    BY <1>3, <1>9, <1>11
  <2> HIDE DEF m
  <2>2. (Step * (m - k)) % Width # 0
    BY <2>1 DEF Spread
  <2>3. At(k) # At(m)
    BY <2>1, <2>2, AtDiffers
  <2> QED
    BY <2>3 DEF m
<1>13. \A x \in issued : x.id # new.id
  BY <1>7, <1>10, <1>12
<1>14. new \notin issued
  BY <1>13
<1>15. Cardinality(issued') = n + 1
  BY <1>3, <1>8, <1>14, FS_AddElement DEF n
<1>16. \A d \in Cores : pc'[d] = "load"
  BY <1>1, <1>4 DEF AloneInv
<1>17. \A x \in issued' : \E k \in 1 .. n + 1 : x.id = At(k)
  <2>1. n + 1 \in 1 .. n + 1 /\ \A k \in 1 .. n : k \in 1 .. n + 1
    BY <1>3
  <2> QED
    BY <1>7, <1>8, <1>10, <2>1
<1>18. \A x, y \in issued' : x.id = y.id => x = y
  BY <1>8, <1>13 DEF AloneInv
<1>19. ident' = At(bumps')
  BY <1>1 DEF AloneInv
<1>20. bumps' = Cardinality(issued') + 0
  BY <1>1, <1>3, <1>5, <1>15
<1> QED
  BY <1>15, <1>16, <1>17, <1>18, <1>19, <1>20 DEF AloneInv, Building, At

\* A step keeps issued identifiers apart unless two lcores shared a value.
LEMMA NextUniqueInv == Spread /\ TypeInv /\ UniqueInv /\ [Next]_vars => UniqueInv'
<1> SUFFICES ASSUME Spread, TypeInv, UniqueInv, [Next]_vars PROVE UniqueInv'
  OBVIOUS
<1>t. /\ bumps \in Nat /\ pc \in [Cores -> {"load", "store", "id"}] /\ DOMAIN reg = Cores
      /\ shared \in BOOLEAN
  BY DEF TypeInv, TypeOK
<1>1. ASSUME NEW c \in Cores, Load(c) PROVE UniqueInv'
  <2>1. /\ pc[c] = "load" /\ UNCHANGED <<ident, bumps, issued>>
        /\ reg' = [reg EXCEPT ![c] = ident] /\ pc' = [pc EXCEPT ![c] = "store"]
        /\ shared' = (shared \/ \E d \in Cores \ {c} : pc[d] # "load")
    BY <1>1 DEF Load
  <2>2. PacketsNumbered'
    BY <2>1 DEF UniqueInv, PacketsNumbered, PacketsOf
  <2>3. ASSUME ~shared' PROVE AloneInv'
    <3>1. AloneInv /\ \A d \in Cores \ {c} : pc[d] = "load"
      BY <2>1, <2>3 DEF UniqueInv
    <3>2. ~Building /\ ~Building'
      BY <1>t, <2>1, <3>1 DEF Building
    <3>3. /\ \A d \in Cores : pc'[d] # "load" => d = c
          /\ reg'[c] = ident
      BY <1>t, <2>1, <3>1
    <3>4. bumps' = Cardinality(issued') + IF Building' THEN 1 ELSE 0
      BY <2>1, <3>1, <3>2 DEF AloneInv
    <3>5. /\ ident' = At(bumps')
          /\ \A x \in issued' : \E k \in 1 .. Cardinality(issued') : x.id = At(k)
          /\ \A x, y \in issued' : x.id = y.id => x = y
      BY <2>1, <3>1 DEF AloneInv
    <3> QED
      BY <2>1, <3>3, <3>4, <3>5 DEF AloneInv, At
  <2> QED
    BY <2>2, <2>3 DEF UniqueInv
<1>2. ASSUME NEW c \in Cores, Store(c) PROVE UniqueInv'
  <2>1. /\ pc[c] = "store" /\ ident' = Bump(reg[c]) /\ bumps' = bumps + 1
        /\ UNCHANGED <<issued, shared>>
        /\ reg' = [reg EXCEPT ![c] = Bump(reg[c])] /\ pc' = [pc EXCEPT ![c] = "id"]
    BY <1>2 DEF Store, Kept
  <2>2. PacketsNumbered'
    BY <2>1 DEF UniqueInv, PacketsNumbered, PacketsOf
  <2>3. ASSUME ~shared' PROVE AloneInv'
    <3>1. AloneInv
      BY <2>1, <2>3 DEF UniqueInv
    <3>2. \A d \in Cores : d # c => pc[d] = "load"
      BY <2>1, <3>1 DEF AloneInv
    <3>3. ~Building /\ Building'
      BY <1>t, <2>1, <3>2 DEF Building
    <3>4. reg[c] = At(bumps)
      BY <2>1, <3>1 DEF AloneInv
    <3>5. Bump(reg[c]) = At(bumps + 1)
      <4>1. Step \in Int /\ First \in Int /\ Width \in Nat \ {0}
        BY IpIdentAssumption DEF IpIdentAssumption
      <4> DEFINE a == First + Step * bumps
      <4>2. Step * bumps \in Int /\ Step * (bumps + 1) = Step * bumps + Step
        BY <1>t, <4>1
      <4>3. a \in Int /\ a + Step = First + Step * (bumps + 1)
        BY <4>1, <4>2
      <4>4. reg[c] = a % Width
        BY <3>4 DEF At
      <4> HIDE DEF a
      <4>5. ((a % Width) + Step) % Width = (a + Step) % Width
        BY <4>1, <4>3, ModAdd
      <4> QED
        BY <4>3, <4>4, <4>5 DEF Bump, At
    <3>6. ident' = At(bumps + 1) /\ reg'[c] = ident'
      BY <1>t, <2>1, <3>5
    <3>7. \A d \in Cores : pc'[d] # "load" => d = c
      BY <1>t, <2>1, <3>2
    <3>8. bumps = Cardinality(issued) + 0 /\ Cardinality(issued) \in Nat
      BY <3>1, <3>3, PacketsFinite DEF AloneInv
    <3>9. bumps' = Cardinality(issued') + IF Building' THEN 1 ELSE 0
      BY <2>1, <3>3, <3>8
    <3>10. /\ \A x \in issued' : \E k \in 1 .. Cardinality(issued') : x.id = At(k)
           /\ \A x, y \in issued' : x.id = y.id => x = y
      BY <2>1, <3>1 DEF AloneInv
    <3>11. ident' = At(bumps')
      BY <2>1, <3>6
    <3> QED
      BY <3>6, <3>7, <3>9, <3>10, <3>11 DEF AloneInv, At
  <2> QED
    BY <2>2, <2>3 DEF UniqueInv
<1>3. ASSUME NEW c \in Cores, SetId(c) PROVE UniqueInv'
  <2>1. shared' = shared
    BY <1>3 DEF SetId
  <2>2. PICK id \in {reg[c], ident} :
          issued' = issued \cup
            {[core |-> c, number |-> Cardinality(PacketsOf(c)) + 1, id |-> id]}
    BY <1>3 DEF SetId
  <2>3. PacketsNumbered'
    BY <2>2, SetIdNumbered DEF UniqueInv
  <2> QED
    BY <1>3, <2>1, <2>3, SetIdAlone DEF UniqueInv
<1>4. CASE UNCHANGED vars
  BY <1>4 DEF vars, UniqueInv, PacketsNumbered, PacketsOf, AloneInv, Building, At
<1> QED
  BY <1>1, <1>2, <1>3, <1>4 DEF Next, Finished

\* As long as no two lcores build a packet at the same time the identifications of all
\* packets are different, up to as many packets as the step's multiples need to come round
\* to 0: what the odd step is for.
THEOREM UniqueCorrect ==
  ASSUME \A d \in 1 .. Cardinality(Cores) * MaxPackets : (Step * d) % Width # 0
  PROVE  Spec => []UniqueUnlessShared
<1>s. Spread
  BY DEF Spread
<1>1. Spec => []TypeInv
  BY InitTypeInv, NextTypeInv, PTL DEF Spec
<1>2. TypeInv /\ UniqueInv /\ [Next]_vars => UniqueInv'
  BY <1>s, NextUniqueInv
<1>3. Spec => []UniqueInv
  BY <1>1, <1>2, InitUniqueInv, PTL DEF Spec
<1>4. UniqueInv => UniqueUnlessShared
  BY DEF UniqueInv, AloneInv, UniqueUnlessShared
<1> QED
  BY <1>3, <1>4, PTL
=============================================================================
