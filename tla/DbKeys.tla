------------------------------ MODULE DbKeys ------------------------------
(***************************************************************************)
(* The keys the RocksDB workload of every lcore asks for.  A workload      *)
(* object belongs to one lcore; what the lcores share is the properties    *)
(* file and the process, which an assertion or an exception of one lcore   *)
(* ends for all.                                                           *)
(*                                                                         *)
(* Key numbers are unsigned and wrap at Width.  Generators return any      *)
(* value of their range: the weights only decide how often.                *)
(***************************************************************************)
EXTENDS Integers, FiniteSets

CONSTANTS
  Cores,        \* lcores, each with its DBWorkload
  Width,        \* 2^64: the values of a key number
  InsertStart,  \* the insertstart property
  RecordCounts, \* values of recordcount to try
  NewKeys,      \* values of (int)(operationcount * insertproportion * 2) to try
  Mixes,        \* sets of operations with a positive proportion to try
  Digits,       \* Digits[k]: how many digits the number k is written with
  Paddings,     \* what a workload object may find in zero_padding_, which no code sets
  Scramble,     \* Scramble[n][v] = FNVHash64(v) % n
  MaxOps        \* bound on the requests of an lcore

Operations == {"READ", "UPDATE", "INSERT", "SCAN", "READMODIFYWRITE"}
Distributions == {"uniform", "zipfian", "latest", "other"}
Keys == 0 .. Width - 1

ASSUME DbKeysAssumption ==
  /\ IsFiniteSet(Cores)
  /\ Width \in Nat \ 0 .. 3   \* the counter is built with 3
  /\ InsertStart \in Nat
  /\ RecordCounts \subseteq Nat /\ NewKeys \subseteq Nat
  /\ \A r \in RecordCounts, n \in NewKeys : r + n < Width
  /\ Mixes \subseteq SUBSET Operations
  /\ Digits \in [Keys -> Nat] /\ Paddings \subseteq Nat   \* a negative one pads as 0 does
  /\ \A r \in RecordCounts, n \in NewKeys : \A v \in 0 .. r + n - 1 :
       Scramble[r + n][v] \in 0 .. r + n - 1
  /\ MaxOps \in Nat /\ InsertStart + MaxOps < Width

VARIABLES
  conf,      \* the properties: dist, records, newKeys, ops
  padding,   \* zero_padding_
  phase,     \* "new", "ready", "draw", "drawn", for each lcore
  sequence,  \* insert_key_sequence_.counter_
  inserts,   \* key_generator_'s counter_
  op,        \* the operation being built
  key,       \* key_num of NextTransactionKey
  crashed,   \* the process has ended on an assertion or an exception
  read,      \* history: the keys of the READs and UPDATEs of an lcore
  inserted,  \* history: the keys of its INSERTs
  requests   \* bound: the requests it has started

vars == <<conf, padding, phase, sequence, inserts, op, key, crashed, read, inserted, requests>>

Init ==
  /\ conf \in [dist : Distributions, records : RecordCounts,
               newKeys : NewKeys, ops : Mixes]
  /\ padding \in [Cores -> Paddings]
  /\ phase = [c \in Cores |-> "new"]
  /\ sequence = [c \in Cores |-> 3]
  /\ inserts = [c \in Cores |-> InsertStart]
  /\ op = [c \in Cores |-> "READ"]
  /\ key = [c \in Cores |-> 0]
  /\ crashed = FALSE
  /\ read = [c \in Cores |-> {}]
  /\ inserted = [c \in Cores |-> {}]
  /\ requests = [c \in Cores |-> 0]
-----------------------------------------------------------------------------
\* CounterGenerator::Last, of an unsigned counter.
Last(c) == (sequence[c] + Width - 1) % Width

\* What ZipfianGenerator::Next(num) can return; its assertion wants two items.
ZipfianRange(num) == 0 .. num - 1
ZipfianAllows(num) == num >= 2

\* How many items the request distribution draws from.
Items == conf.records + conf.newKeys

\* The generator can be built: the assertion of ZipfianGenerator holds (for no
\* records at all, basis_.Last() is the largest uint64_t, above kMaxNumItems) and
\* the name of the distribution is known.
ChooserAllowed ==
  CASE conf.dist = "uniform" -> TRUE
    [] conf.dist = "zipfian" -> ZipfianAllows(Items)
    [] conf.dist = "latest"  -> conf.records > 0 /\ ZipfianAllows(conf.records - 1)
    [] conf.dist = "other"   -> FALSE

\* What the three generators return. The bounds of the uniform one are unsigned too:
\* with no records it draws any key number.
UniformRange   == 0 .. (conf.records + Width - 1) % Width
ScrambledRange == {Scramble[Items][v] : v \in ZipfianRange(Items)}
LatestRange(c) == {Last(c) - v : v \in ZipfianRange(Last(c))}

\* What key_chooser_->Next() can return.
Drawable(c) ==
  CASE conf.dist = "uniform" -> UniformRange
    [] conf.dist = "zipfian" -> ScrambledRange
    [] conf.dist = "latest"  -> LatestRange(c)

\* BuildKeyName: "user", zeros up to zero_padding_, and the number. Nothing clears
\* ordered_inserts_, so that no number is hashed.
KeyName(c, k) ==
  [zeros |-> IF padding[c] > Digits[k] THEN padding[c] - Digits[k] ELSE 0, number |-> k]

Crash ==
  /\ crashed' = TRUE
  /\ UNCHANGED <<conf, padding, op, key, read, inserted, requests>>

\* Mutant of FirstFree: the last record's number.
FirstFreeOff == conf.records - 1

\* What the key sequence is set to: the first number past the table.
FirstFree == conf.records

\* DBWorkload::Init, on the lcore that owns the object.
InitWorkload(c) ==
  /\ phase[c] = "new"
  /\ inserts' = [inserts EXCEPT ![c] = InsertStart]
  /\ sequence' = [sequence EXCEPT ![c] = FirstFree]
  /\ phase' = [phase EXCEPT ![c] = "ready"]
  /\ \/ /\ ChooserAllowed
        /\ UNCHANGED <<conf, padding, op, key, crashed, read, inserted, requests>>
     \/ ~ChooserAllowed /\ Crash

\* NextOperation on a mix without operations reaches assert(false).
NoOperation(c) ==
  /\ phase[c] = "ready" /\ requests[c] < MaxOps
  /\ conf.ops = {}
  /\ Crash
  /\ UNCHANGED <<phase, sequence, inserts>>

\* TransactionScan and TransactionReadModifyWrite write nothing.
EmptyRequest(c) ==
  /\ phase[c] = "ready" /\ requests[c] < MaxOps
  /\ \E o \in conf.ops \cap {"SCAN", "READMODIFYWRITE"} : op' = [op EXCEPT ![c] = o]
  /\ requests' = [requests EXCEPT ![c] = @ + 1]
  /\ UNCHANGED <<conf, padding, phase, sequence, inserts, key, crashed, read, inserted>>

\* Mutant of Bumped: one counter for all the lcores.
BumpedForAll(c) == [d \in Cores |-> inserts[d] + 1]

Bumped(c) == [inserts EXCEPT ![c] = @ + 1]

\* TransactionInsert takes its key from the lcore's own counter.
Insert(c) ==
  /\ phase[c] = "ready" /\ requests[c] < MaxOps
  /\ "INSERT" \in conf.ops
  /\ op' = [op EXCEPT ![c] = "INSERT"]
  /\ inserts' = Bumped(c)
  /\ inserted' = [inserted EXCEPT ![c] = @ \cup {inserts[c]}]
  /\ requests' = [requests EXCEPT ![c] = @ + 1]
  /\ UNCHANGED <<conf, padding, phase, sequence, key, crashed, read>>

\* TransactionRead and TransactionUpdate enter the loop of NextTransactionKey.
Ask(c) ==
  /\ phase[c] = "ready" /\ requests[c] < MaxOps
  /\ \E o \in conf.ops \cap {"READ", "UPDATE"} : op' = [op EXCEPT ![c] = o]
  /\ phase' = [phase EXCEPT ![c] = "draw"]
  /\ requests' = [requests EXCEPT ![c] = @ + 1]
  /\ UNCHANGED <<conf, padding, sequence, inserts, key, crashed, read, inserted>>

Draw(c) ==
  /\ phase[c] = "draw"
  /\ \E k \in Drawable(c) : key' = [key EXCEPT ![c] = k]
  /\ phase' = [phase EXCEPT ![c] = "drawn"]
  /\ UNCHANGED <<conf, padding, sequence, inserts, op, crashed, read, inserted, requests>>

\* Mutants of TooNew: the loop is dropped; the comparison is off by one.
TooNewNever(c) == FALSE
TooNewOrLast(c) == key[c] >= Last(c)

TooNew(c) == key[c] > Last(c)

DrawAgain(c) ==
  /\ phase[c] = "drawn" /\ TooNew(c)
  /\ phase' = [phase EXCEPT ![c] = "draw"]
  /\ UNCHANGED <<conf, padding, sequence, inserts, op, key, crashed, read, inserted, requests>>

Accept(c) ==
  /\ phase[c] = "drawn" /\ ~TooNew(c)
  /\ read' = [read EXCEPT ![c] = @ \cup {key[c]}]
  /\ phase' = [phase EXCEPT ![c] = "ready"]
  /\ UNCHANGED <<conf, padding, sequence, inserts, op, key, crashed, inserted, requests>>

CoreStep(c) ==
  /\ ~crashed
  /\ \/ InitWorkload(c) \/ NoOperation(c) \/ EmptyRequest(c) \/ Insert(c)
     \/ Ask(c) \/ Draw(c) \/ DrawAgain(c) \/ Accept(c)

Finished ==
  /\ crashed \/ \A c \in Cores : phase[c] = "ready" /\ requests[c] = MaxOps
  /\ UNCHANGED vars

Next == (\E c \in Cores : CoreStep(c)) \/ Finished

Spec == Init /\ [][Next]_vars

\* An lcore keeps running, and its random engine does not for ever avoid the keys
\* of the table, if the distribution can return one.
Fairness ==
  \A c \in Cores :
    /\ WF_vars(CoreStep(c))
    /\ SF_vars(~crashed /\ Draw(c) /\ ~TooNew(c)')

FairSpec == Spec /\ Fairness
-----------------------------------------------------------------------------
TypeOK ==
  /\ conf \in [dist : Distributions, records : RecordCounts,
               newKeys : NewKeys, ops : Mixes]
  /\ padding \in [Cores -> Paddings]
  /\ phase \in [Cores -> {"new", "ready", "draw", "drawn"}]
  /\ sequence \in [Cores -> Keys]
  /\ inserts \in [Cores -> Keys]
  /\ op \in [Cores -> Operations]
  /\ key \in [Cores -> Keys]
  /\ crashed \in BOOLEAN
  /\ read \in [Cores -> SUBSET Keys]
  /\ inserted \in [Cores -> SUBSET Keys]
  /\ requests \in [Cores -> 0 .. MaxOps]

\* Whatever the distribution, and although the zipfian one draws from a range
\* larger than the table, a request only names a record the table was loaded with
\* (its number is below recordcount), unless there is no record at all.
ReadsAreLoaded ==
  conf.records > 0 => \A c \in Cores : read[c] \subseteq 0 .. conf.records - 1

\* The lcores do not share the preloading, each one inserts the whole range from
\* insertstart on: what they have loaded together has no hole, and is no more than
\* what the fastest of them has.
LoadedByFastest ==
  \E c \in Cores :
    UNION {inserted[d] : d \in Cores} =
      InsertStart .. InsertStart + Cardinality(inserted[c]) - 1

\* "Controls the number of 0s to left pad with": the zeropadding property, one for
\* the process, decides how a record is named, so that an lcore asks for a record by
\* the name another one has loaded it under.
NamesAsConfigured ==
  \A c, d \in Cores : \A k \in read[c] \cap inserted[d] : KeyName(c, k) = KeyName(d, k)

\* Every number the zipfian generator returns is scrambled to a key past the table, as
\* for one record and six new keys: FNVHash64(v) % 7 is 0 for none of 0 .. 6.
ScrambledPastTable ==
  /\ conf.dist = "zipfian" /\ conf.records > 0
  /\ \A v \in ZipfianRange(Items) : Scramble[Items][v] >= conf.records

\* The loop that draws a key again until it is one of the table ends for the uniform
\* and the latest distribution whatever the size of the table, one record included,
\* and for the zipfian one unless the hash leaves it no key of the table; then it
\* never ends, and the lcore with it.
DrawingEnds ==
  \A c \in Cores :
    /\ phase[c] = "draw" ~> (phase[c] = "ready" \/ crashed \/ ScrambledPastTable)
    /\ [](ScrambledPastTable => read[c] = {})
=============================================================================
