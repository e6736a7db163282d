---------------------------- MODULE DbKeysProofs ----------------------------
(***************************************************************************)
(* Theorems of the module DbKeys: types, reads of loaded records only, and *)
(* what the lcores load together, for every size of the table, range of    *)
(* the generators and number of lcores.                                    *)
(***************************************************************************)
EXTENDS DbKeys, Arithmetic, FiniteSetTheorems, WellFoundedInduction, TLAPS

-----------------------------------------------------------------------------
(* Types. *)

\* An lcore's counter is as far ahead of insertstart as it has inserted, which is
\* no more often than it has started a request; a ready object has its key sequence.
CountersOK ==
  /\ \A c \in Cores : inserts[c] \in InsertStart .. InsertStart + requests[c]
  /\ \A c \in Cores : phase[c] = "new" => requests[c] = 0
  /\ \A c \in Cores : phase[c] # "new" => sequence[c] = conf.records
  /\ \A c \in Cores : phase[c] # "new" /\ ~crashed => conf.dist # "other"

TypeInv == TypeOK /\ CountersOK

\* What is cut to the width is a key number.
LEMMA WrapType ==
  ASSUME NEW a \in Int
  PROVE  a % Width \in Keys
<1>1. Width \in Nat \ {0}
  BY DbKeysAssumption DEF DbKeysAssumption
<1> QED
  BY <1>1, DivMod DEF Keys

\* What conf says stays within the width.
LEMMA ConfFacts ==
  ASSUME TypeOK
  PROVE  /\ conf.records \in Nat /\ conf.newKeys \in Nat
         /\ conf.records + conf.newKeys < Width
         /\ conf.records \in Keys
         /\ \A v \in 0 .. conf.records + conf.newKeys - 1 :
              Scramble[conf.records + conf.newKeys][v] \in 0 .. conf.records + conf.newKeys - 1
<1>1. conf.records \in RecordCounts /\ conf.newKeys \in NewKeys
  BY DEF TypeOK
<1>2. /\ conf.records \in Nat /\ conf.newKeys \in Nat
      /\ conf.records + conf.newKeys < Width /\ Width \in Nat
  BY <1>1, DbKeysAssumption DEF DbKeysAssumption
<1>3. \A v \in 0 .. conf.records + conf.newKeys - 1 :
        Scramble[conf.records + conf.newKeys][v] \in 0 .. conf.records + conf.newKeys - 1
  BY <1>1, DbKeysAssumption DEF DbKeysAssumption
<1> QED
  BY <1>2, <1>3 DEF Keys

\* Every key a generator returns is a key number.
LEMMA DrawableType ==
  ASSUME TypeOK, NEW c \in Cores, conf.dist # "other"
  PROVE  Drawable(c) \subseteq Keys
<1>1. Width \in Nat /\ Width > 0
  BY DbKeysAssumption DEF DbKeysAssumption
<1>2. UniformRange \subseteq Keys
  <2>1. conf.records + Width - 1 \in Int
    BY <1>1, ConfFacts
  <2>2. (conf.records + Width - 1) % Width \in Keys
    BY <2>1, WrapType
  <2> QED
    BY <1>1, <2>2 DEF UniformRange, Keys
<1>3. ScrambledRange \subseteq Keys
  BY <1>1, ConfFacts DEF ScrambledRange, ZipfianRange, Items, Keys
<1>4. LatestRange(c) \subseteq Keys
  <2>1. sequence[c] + Width - 1 \in Int
    BY <1>1 DEF TypeOK, Keys
  <2>2. Last(c) \in Keys
    BY <2>1, WrapType DEF Last
  <2> QED
    BY <1>1, <2>2 DEF LatestRange, ZipfianRange, Keys
<1>5. conf.dist \in Distributions
  BY DEF TypeOK
<1> QED
  BY <1>2, <1>3, <1>4, <1>5 DEF Drawable, Distributions

\* The initial values have their types.
LEMMA InitTypeInv == Init => TypeInv
<1> SUFFICES ASSUME Init PROVE TypeInv
  OBVIOUS
<1>1. 3 \in Keys /\ 0 \in Keys /\ InsertStart \in Keys /\ InsertStart \in Nat /\ 0 \in 0 .. MaxOps
  BY DbKeysAssumption DEF DbKeysAssumption, Keys
<1>2. TypeOK
  BY <1>1 DEF Init, TypeOK, Operations
<1>3. CountersOK
  BY <1>1 DEF Init, CountersOK
<1> QED
  BY <1>2, <1>3 DEF TypeInv

\* What an lcore inserts next is a key number, as long as it may start a request.
LEMMA InsertType ==
  ASSUME TypeInv, NEW c \in Cores, requests[c] < MaxOps
  PROVE  /\ inserts[c] \in Keys /\ inserts[c] + 1 \in Keys
         /\ requests[c] + 1 \in 0 .. MaxOps
         /\ inserts[c] + 1 \in InsertStart .. InsertStart + (requests[c] + 1)
<1>1. requests[c] \in 0 .. MaxOps /\ inserts[c] \in InsertStart .. InsertStart + requests[c]
  BY DEF TypeInv, TypeOK, CountersOK
<1>2. InsertStart \in Nat /\ MaxOps \in Nat /\ InsertStart + MaxOps < Width /\ Width \in Nat
  BY DbKeysAssumption DEF DbKeysAssumption
<1> QED
  BY <1>1, <1>2 DEF Keys

\* Every step preserves the types.
LEMMA NextTypeInv == TypeInv /\ [Next]_vars => TypeInv'
<1> SUFFICES ASSUME TypeInv, [Next]_vars PROVE TypeInv'
  OBVIOUS
<1>i. InsertStart \in Keys /\ InsertStart \in Nat /\ MaxOps \in Nat
  BY DbKeysAssumption DEF DbKeysAssumption, Keys
<1>1. ASSUME NEW c \in Cores, InitWorkload(c) PROVE TypeInv'
  <2>1. conf.records \in Keys
    BY ConfFacts DEF TypeInv
  <2>2. /\ conf' = conf /\ padding' = padding /\ op' = op /\ key' = key /\ read' = read
        /\ inserted' = inserted /\ requests' = requests
        /\ inserts' = [inserts EXCEPT ![c] = InsertStart]
        /\ sequence' = [sequence EXCEPT ![c] = conf.records]
        /\ phase' = [phase EXCEPT ![c] = "ready"]
        /\ crashed' \in BOOLEAN /\ (~crashed' => ~crashed)
        /\ ~crashed' => ChooserAllowed
    BY <1>1 DEF InitWorkload, Crash, FirstFree, TypeInv, TypeOK
  <2>3. TypeOK'
    BY <1>i, <2>1, <2>2 DEF TypeInv, TypeOK
  <2>4. ~crashed' => conf.dist # "other"
    BY <2>2 DEF ChooserAllowed
  <2>5. requests[c] = 0
    BY <1>1 DEF InitWorkload, TypeInv, CountersOK
  <2>6. CountersOK'
    BY <1>i, <2>2, <2>4, <2>5 DEF TypeInv, TypeOK, CountersOK
  <2> QED
    BY <2>3, <2>6 DEF TypeInv
<1>2. ASSUME NEW c \in Cores, NoOperation(c) PROVE TypeInv'
  BY <1>2 DEF NoOperation, Crash, TypeInv, TypeOK, CountersOK
<1>3. ASSUME NEW c \in Cores, EmptyRequest(c) PROVE TypeInv'
  <2>1. requests[c] + 1 \in 0 .. MaxOps
    BY <1>3, InsertType DEF EmptyRequest
  <2>2. op' \in [Cores -> Operations]
    BY <1>3 DEF EmptyRequest, TypeInv, TypeOK, Operations
  <2>3. TypeOK'
    BY <1>3, <2>1, <2>2 DEF EmptyRequest, TypeInv, TypeOK
  <2>4. CountersOK'
    BY <1>3, <1>i, <2>1 DEF EmptyRequest, TypeInv, TypeOK, CountersOK
  <2> QED
    BY <2>3, <2>4 DEF TypeInv
<1>4. ASSUME NEW c \in Cores, Insert(c) PROVE TypeInv'
  <2>1. /\ inserts[c] \in Keys /\ inserts[c] + 1 \in Keys
        /\ requests[c] + 1 \in 0 .. MaxOps
        /\ inserts[c] + 1 \in InsertStart .. InsertStart + (requests[c] + 1)
    BY <1>4, InsertType DEF Insert
  <2>2. TypeOK'
    BY <1>4, <2>1 DEF Insert, Bumped, TypeInv, TypeOK, Operations
  <2>3. CountersOK'
    BY <1>4, <2>1 DEF Insert, Bumped, TypeInv, TypeOK, CountersOK
  <2> QED
    BY <2>2, <2>3 DEF TypeInv
<1>5. ASSUME NEW c \in Cores, Ask(c) PROVE TypeInv'
  <2>1. requests[c] + 1 \in 0 .. MaxOps
    BY <1>5, InsertType DEF Ask
  <2>2. op' \in [Cores -> Operations]
    BY <1>5 DEF Ask, TypeInv, TypeOK, Operations
  <2>3. TypeOK'
    BY <1>5, <2>1, <2>2 DEF Ask, TypeInv, TypeOK
  <2>4. CountersOK'
    BY <1>5, <1>i, <2>1 DEF Ask, TypeInv, TypeOK, CountersOK
  <2> QED
    BY <2>3, <2>4 DEF TypeInv
<1>6. ASSUME NEW c \in Cores, ~crashed, Draw(c) PROVE TypeInv'
  <2>1. conf.dist # "other"
    BY <1>6 DEF Draw, TypeInv, CountersOK
  <2>2. Drawable(c) \subseteq Keys
    BY <2>1, DrawableType DEF TypeInv
  <2>3. key' \in [Cores -> Keys]
    BY <1>6, <2>2 DEF Draw, TypeInv, TypeOK
  <2> QED
    BY <1>6, <2>3 DEF Draw, TypeInv, TypeOK, CountersOK
<1>7. ASSUME NEW c \in Cores, DrawAgain(c) PROVE TypeInv'
  BY <1>7 DEF DrawAgain, TypeInv, TypeOK, CountersOK
<1>8. ASSUME NEW c \in Cores, Accept(c) PROVE TypeInv'
  BY <1>8 DEF Accept, TypeInv, TypeOK, CountersOK
<1>9. CASE UNCHANGED vars
  BY <1>9 DEF vars, TypeInv, TypeOK, CountersOK
<1> QED
  BY <1>1, <1>2, <1>3, <1>4, <1>5, <1>6, <1>7, <1>8, <1>9 DEF Next, CoreStep, Finished

\* Key numbers stay within their width: neither the insert counter nor a generator
\* runs over it.
THEOREM TypeCorrect == Spec => []TypeOK
<1>1. Spec => []TypeInv
  BY InitTypeInv, NextTypeInv, PTL DEF Spec
<1> QED
  BY <1>1, PTL DEF TypeInv

-----------------------------------------------------------------------------
(* Requests name loaded records. *)

\* The last key the loop accepts is that of the last record.
LEMMA LastOfTable ==
  ASSUME TypeInv, NEW c \in Cores, phase[c] # "new", conf.records > 0
  PROVE  Last(c) = conf.records - 1
<1>1. Width \in Nat \ {0} /\ conf.records - 1 \in 0 .. Width - 1
  BY ConfFacts, DbKeysAssumption DEF DbKeysAssumption, TypeInv
<1>2. conf.records + Width - 1 = Width + (conf.records - 1)
  BY <1>1, ConfFacts DEF TypeInv
<1>3. (Width + (conf.records - 1)) % Width = conf.records - 1
  BY <1>1, WrapOnce
<1> QED
  BY <1>2, <1>3 DEF Last, TypeInv, CountersOK

\* Whatever the distribution draws, however large its range, and however often it draws
\* again, what an lcore asks for is a record of the table.
THEOREM ReadsCorrect == Spec => []ReadsAreLoaded
<1>1. Spec => []TypeInv
  BY InitTypeInv, NextTypeInv, PTL DEF Spec
<1>2. Init => ReadsAreLoaded
  BY DEF Init, ReadsAreLoaded
<1>3. TypeInv /\ ReadsAreLoaded /\ [Next]_vars => ReadsAreLoaded'
  <2> SUFFICES ASSUME TypeInv, ReadsAreLoaded, [Next]_vars PROVE ReadsAreLoaded'
    OBVIOUS
  <2>1. ASSUME NEW c \in Cores, Accept(c) PROVE ReadsAreLoaded'
    <3>1. conf' = conf /\ read' = [read EXCEPT ![c] = @ \cup {key[c]}]
      BY <2>1 DEF Accept
    <3>2. conf.records > 0 => key[c] \in 0 .. conf.records - 1
      <4> SUFFICES ASSUME conf.records > 0 PROVE key[c] \in 0 .. conf.records - 1
        OBVIOUS
      <4>1. Last(c) = conf.records - 1 /\ ~(key[c] > Last(c))
        BY <2>1, LastOfTable DEF Accept, TooNew
      <4>2. key[c] \in Nat /\ conf.records \in Nat
        BY ConfFacts, DbKeysAssumption DEF TypeInv, TypeOK, Keys, DbKeysAssumption
      <4> QED
        BY <4>1, <4>2
    <3> QED
      BY <3>1, <3>2 DEF ReadsAreLoaded, TypeInv, TypeOK
  <2>2. CASE UNCHANGED <<conf, read>>
    BY <2>2 DEF ReadsAreLoaded
  <2> QED
    BY <2>1, <2>2
       DEF Next, CoreStep, InitWorkload, NoOperation, EmptyRequest, Insert, Ask, Draw, DrawAgain,
           Crash, Finished, vars
<1> QED
  BY <1>1, <1>2, <1>3, PTL DEF Spec

-----------------------------------------------------------------------------
(* What the lcores load together. *)

\* An lcore has inserted the numbers from insertstart up to its counter.
InsertedOK == \A c \in Cores : inserted[c] = InsertStart .. inserts[c] - 1

\* Nothing is inserted at first, and a counter is put where it was.
LEMMA InsertedInv ==
  /\ Init => InsertedOK
  /\ TypeInv /\ InsertedOK /\ [Next]_vars => InsertedOK'
<1>1. Init => InsertedOK
  BY DbKeysAssumption DEF DbKeysAssumption, Init, InsertedOK
<1>2. ASSUME TypeInv, InsertedOK, [Next]_vars PROVE InsertedOK'
  <2>1. ASSUME NEW c \in Cores, Insert(c) PROVE InsertedOK'
    <3>1. /\ inserts' = [inserts EXCEPT ![c] = @ + 1]
          /\ inserted' = [inserted EXCEPT ![c] = @ \cup {inserts[c]}]
      BY <2>1 DEF Insert, Bumped
    <3>2. InsertStart \in Nat /\ inserts[c] \in Int /\ inserts[c] >= InsertStart
      BY <1>2, DbKeysAssumption DEF DbKeysAssumption, TypeInv, TypeOK, CountersOK
    <3>3. (InsertStart .. inserts[c] - 1) \cup {inserts[c]} = InsertStart .. (inserts[c] + 1) - 1
      BY <3>2
    <3> QED
      BY <1>2, <3>1, <3>3 DEF InsertedOK, TypeInv, TypeOK
  <2>2. ASSUME NEW c \in Cores, InitWorkload(c) PROVE InsertedOK'
    <3>1. inserts' = [inserts EXCEPT ![c] = InsertStart] /\ inserted' = inserted
      BY <2>2 DEF InitWorkload, Crash
    <3>2. inserts[c] = InsertStart
      <4>1. requests[c] = 0 /\ inserts[c] \in InsertStart .. InsertStart + requests[c]
        BY <1>2, <2>2 DEF InitWorkload, TypeInv, CountersOK
      <4>2. InsertStart \in Nat
        BY DbKeysAssumption DEF DbKeysAssumption
      <4> QED
        BY <4>1, <4>2
    <3> QED
      BY <1>2, <3>1, <3>2 DEF InsertedOK, TypeInv, TypeOK
  <2>3. CASE UNCHANGED <<inserts, inserted>>
    BY <1>2, <2>3 DEF InsertedOK
  <2> QED
    BY <1>2, <2>1, <2>2, <2>3
       DEF Next, CoreStep, NoOperation, EmptyRequest, Ask, Draw, DrawAgain, Accept, Crash,
           Finished, vars
<1> QED
  BY <1>1, <1>2

\* Among some lcores, one has come furthest.
LEMMA FurthestCore ==
  ASSUME TypeInv, Cores # {}
  PROVE  \E c \in Cores : \A d \in Cores : inserts[d] <= inserts[c]
<1> DEFINE left == {Width - inserts[c] : c \in Cores}
<1>1. \A c \in Cores : inserts[c] \in Int /\ Width - inserts[c] \in Nat
  <2>1. Width \in Nat
    BY DbKeysAssumption DEF DbKeysAssumption
  <2>2. \A c \in Cores : inserts[c] \in 0 .. Width - 1
    BY DEF TypeInv, TypeOK, Keys
  <2> QED
    BY <2>1, <2>2
<1>2. left \subseteq Nat /\ left # {}
  BY <1>1
<1> DEFINE below == OpToRel(<, Nat)
<1>3. IsWellFoundedOn(below, Nat)
  BY NatLessThanWellFounded
<1>4. \A x, y \in Nat : y < x => <<y, x>> \in below
  BY Zenon DEF OpToRel
<1>5. PICK x \in left : \A y \in left : ~(y < x)
  <2> HIDE DEF left, below
  <2> QED
    BY <1>2, <1>3, <1>4, WFMin
<1>6. PICK c \in Cores : x = Width - inserts[c]
  OBVIOUS
<1>7. Width \in Int
  BY DbKeysAssumption DEF DbKeysAssumption
<1>8. \A d \in Cores : ~(Width - inserts[d] < Width - inserts[c])
  BY <1>5, <1>6
<1> QED
  BY <1>1, <1>7, <1>8

\* The preloading of several lcores leaves no hole and goes no further than the fastest
\* of them.
THEOREM LoadingCorrect == ASSUME Cores # {} PROVE Spec => []LoadedByFastest
<1>1. Spec => []TypeInv
  BY InitTypeInv, NextTypeInv, PTL DEF Spec
<1>2. Spec => []InsertedOK
  BY <1>1, InsertedInv, PTL DEF Spec
<1>3. TypeInv /\ InsertedOK => LoadedByFastest
  <2> SUFFICES ASSUME TypeInv, InsertedOK PROVE LoadedByFastest
    OBVIOUS
  <2>1. PICK c \in Cores : \A d \in Cores : inserts[d] <= inserts[c]
    BY FurthestCore
  <2>2. InsertStart \in Int /\ \A d \in Cores : inserts[d] \in Int /\ inserts[d] >= InsertStart
    BY DbKeysAssumption DEF DbKeysAssumption, TypeInv, TypeOK, CountersOK
  <2>3. UNION {inserted[d] : d \in Cores} = InsertStart .. inserts[c] - 1
    BY <2>1, <2>2 DEF InsertedOK
  <2>4. Cardinality(inserted[c]) = inserts[c] - InsertStart
    <3>1. inserts[c] - 1 \in Int
      BY <2>2
    <3>2. Cardinality(InsertStart .. inserts[c] - 1) =
            IF InsertStart > inserts[c] - 1 THEN 0 ELSE (inserts[c] - 1) - InsertStart + 1
      BY <2>2, <3>1, FS_Interval
    <3> QED
      BY <2>2, <3>2 DEF InsertedOK
  <2>5. InsertStart + (inserts[c] - InsertStart) - 1 = inserts[c] - 1
    BY <2>2
  <2> QED
    BY <2>3, <2>4, <2>5 DEF LoadedByFastest
<1> QED
  BY <1>1, <1>2, <1>3, PTL

=============================================================================
