-------------------------- MODULE RoundTripProofs --------------------------
(***************************************************************************)
(* Theorems of the module RoundTrip: types, what identifies a request on   *)
(* its way, latencies no longer than the run, and files that agree with    *)
(* the counters, for every number of lcores and clients, of faults of the  *)
(* network and of foreign packets, and for every width and limit.          *)
(***************************************************************************)
EXTENDS RoundTrip, Arithmetic, FiniteSetTheorems, SequenceTheorems, TLAPS

-----------------------------------------------------------------------------
(* Types. *)

\* Only who reports reaches the files.
Reporting == \A l \in Lcores : phase[l] \in {"latency", "throughput"} => Reporter # {}

TypeInv == TypeOK /\ Reporting

\* Reporters and senders are among those that keep statistics.
LEMMA KeeperFacts == Reporter \subseteq Keepers /\ Senders \subseteq Keepers
BY DEF Reporter, Senders, ClientKeeps, WorkloadKeeps

\* TypeOK, its last counters one by one.
LEMMA CounterTypes ==
  TypeOK => /\ nr_rx_1 \in [Lcores -> Nat] /\ nr_rx_2 \in [Lcores -> Nat]
            /\ lost \in [Lcores -> Nat] /\ copies \in [Lcores -> Nat]
            /\ strays \in [Lcores -> Nat]
BY DEF TypeOK

\* Counting keeps the counters' type.
LEMMA BumpedType ==
  ASSUME NEW counter \in [Keepers -> [Lcores -> Nat]], NEW l \in Lcores, NEW K
  PROVE  Bumped(counter, l, K) \in [Keepers -> [Lcores -> Nat]]
<1>1. \A k \in Keepers : [counter[k] EXCEPT ![l] = @ + 1] \in [Lcores -> Nat]
  OBVIOUS
<1> QED
  BY <1>1 DEF Bumped

\* The record of a latency has its type.
LEMMA LatencyType ==
  ASSUME TypeOK, NEW l \in Lcores, NEW send \in Times
  PROVE  Latency(l, send) \in Records
BY DEF TypeOK, Latency, Records

\* What recv does keeps the types and the limit.
LEMMA RecordType ==
  ASSUME TypeOK, NEW l \in Lcores, NEW send \in Times, Record(l, send)
  PROVE  /\ nr_rx' \in [Keepers -> [Lcores -> Nat]]
         /\ nr_rx_1' \in [Lcores -> Nat] /\ nr_rx_2' \in [Lcores -> Nat]
         /\ latencies' \in [Lcores -> Seq(Records)]
         /\ \A k \in Lcores : Len(latencies'[k]) <= MaxRecords
<1>1. nr_rx' \in [Keepers -> [Lcores -> Nat]]
  BY BumpedType DEF Record, TypeOK
<1>2. nr_rx_1' \in [Lcores -> Nat] /\ nr_rx_2' \in [Lcores -> Nat]
  <2>1. nr_rx_1 \in [Lcores -> Nat] /\ nr_rx_2 \in [Lcores -> Nat]
    BY CounterTypes
  <2>2. Split(l) \/ UNCHANGED <<nr_rx_1, nr_rx_2>>
    BY DEF Record
  <2> QED
    BY <2>1, <2>2 DEF Split
<1>3. CASE latencies' = latencies
  BY <1>1, <1>2, <1>3 DEF TypeOK
<1>4. CASE Room(l) /\ latencies' = [latencies EXCEPT ![l] = Append(@, Latency(l, send))]
  <2>1. latencies[l] \in Seq(Records) /\ Latency(l, send) \in Records
    BY LatencyType DEF TypeOK
  <2>2. /\ Append(latencies[l], Latency(l, send)) \in Seq(Records)
        /\ Len(Append(latencies[l], Latency(l, send))) = Len(latencies[l]) + 1
        /\ Len(latencies[l]) \in Nat
    BY <2>1
  <2>3. MaxRecords \in Nat
    BY RoundTripAssumption DEF RoundTripAssumption
  <2>4. Len(latencies[l]) + 1 <= MaxRecords
    BY <1>4, <2>2, <2>3 DEF Room
  <2> HIDE DEF Latency
  <2> QED
    BY <1>1, <1>2, <1>4, <2>2, <2>4 DEF TypeOK
<1> QED
  BY <1>3, <1>4 DEF Record

\* The line of who reports is one of the lines the keepers would print.
LEMMA LineFacts ==
  ASSUME NEW l \in Lcores, Reporter # {}
  PROVE  \E k \in Reporter :
           Line(l) = [by |-> l, rx |-> nr_rx[k][l], rx_1 |-> nr_rx_1[l], rx_2 |-> nr_rx_2[l],
                      tx |-> nr_tx[k][l]]
<1>1. LinesOf(l) # {}
  BY DEF LinesOf
<1>2. Line(l) \in LinesOf(l)
  BY <1>1 DEF Line
<1> QED
  BY <1>2 DEF LinesOf

\* The initial values have their types.
LEMMA InitTypeInv == Init => TypeInv
<1> SUFFICES ASSUME Init PROVE TypeInv
  OBVIOUS
<1>1. 0 \in Times /\ 0 \in 0 .. IdWidth - 1 /\ MaxRecords \in Nat
  BY RoundTripAssumption DEF RoundTripAssumption, Times
<1>2. OldLatency \in Records /\ OldLine \in Lines
  BY <1>1 DEF OldLatency, OldLine, Records, Lines
<1>3. /\ latency_file \in [Cpus -> Seq(Records)] /\ thp_file \in [Cpus -> Seq(Lines)]
      /\ latencies \in [Lcores -> Seq(Records)]
      /\ \A l \in Lcores : Len(latencies[l]) <= MaxRecords
  <2>1. <<OldLatency>> \in Seq(Records) /\ <<OldLine>> \in Seq(Lines)
    BY <1>2
  <2>2. <<>> \in Seq(Records) /\ <<>> \in Seq(Lines) /\ Len(<<>>) = 0
    OBVIOUS
  <2> QED
    BY <1>1, <2>1, <2>2 DEF Init
<1>4. /\ nr_tx \in [Keepers -> [Lcores -> Nat]] /\ nr_rx \in [Keepers -> [Lcores -> Nat]]
      /\ sent \in [Lcores -> [Clients -> Nat]]
      /\ req_id \in [Lcores -> [Clients -> 0 .. IdWidth - 1]]
  BY <1>1 DEF Init
<1>5. \A f \in {nr_rx_1, nr_rx_2, lost, copies, strays} : f \in [Lcores -> Nat]
  BY DEF Init
<1>6. TypeOK
  BY <1>1, <1>3, <1>4, <1>5 DEF Init, TypeOK
<1>7. Reporting
  BY DEF Init, Reporting
<1> QED
  BY <1>6, <1>7 DEF TypeInv

\* The identifier of a client, a port number.
LEMMA ClientIdType ==
  ASSUME NEW l \in Lcores
  PROVE  ClientId(l) \in Nat
<1> DEFINE w == 65536
           a == (l + 1) * 256
<1>1. l \in Int /\ a \in Int /\ w \in Nat \ {0}
  BY RoundTripAssumption DEF RoundTripAssumption
<1>2. ClientId(l) = a % w
  BY <1>1, SMT DEF ClientId
<1> HIDE DEF a, w
<1>3. a % w \in 0 .. w - 1
  BY <1>1, DivMod
<1>4. a % w \in Nat
  BY <1>1, <1>3
<1> QED
  BY <1>2, <1>4

\* A request has its type.
LEMMA SendType ==
  ASSUME TypeOK, NEW l \in Lcores, NEW c \in Clients, Send(l, c)
  PROVE  /\ network' \subseteq Messages
         /\ req_id' \in [Lcores -> [Clients -> 0 .. IdWidth - 1]]
         /\ sent' \in [Lcores -> [Clients -> Nat]]
         /\ nr_tx' \in [Keepers -> [Lcores -> Nat]]
<1>1. /\ network' = network \cup
            {[lcore |-> l, client |-> c, seq |-> sent[l][c], copy |-> 0,
              client_id |-> ClientId(l), req_id |-> req_id[l][c], send |-> clock]}
      /\ req_id' = [req_id EXCEPT ![l][c] = IF Client = "shinjuku" THEN NextId(@) ELSE @]
      /\ nr_tx' = Bumped(nr_tx, l, Senders)
      /\ sent' = [sent EXCEPT ![l][c] = @ + 1]
  BY DEF Send
<1>2. ClientId(l) \in Nat
  BY ClientIdType
<1>3. network' \subseteq Messages
  BY <1>1, <1>2 DEF TypeOK, Messages
<1>4. NextId(req_id[l][c]) \in 0 .. IdWidth - 1
  <2>1. req_id[l][c] \in 0 .. IdWidth - 1
    BY DEF TypeOK
  <2>2. IdWidth \in Nat \ {0}
    BY RoundTripAssumption DEF RoundTripAssumption
  <2>3. req_id[l][c] + 1 \in Int
    BY <2>1
  <2> QED
    BY <2>2, <2>3, DivMod DEF NextId
<1>5. req_id' \in [Lcores -> [Clients -> 0 .. IdWidth - 1]]
  <2>1. req_id[l][c] \in 0 .. IdWidth - 1
    BY DEF TypeOK
  <2> HIDE DEF NextId
  <2> QED
    BY <1>1, <1>4, <2>1 DEF TypeOK
<1>6. nr_tx' \in [Keepers -> [Lcores -> Nat]]
  BY <1>1, BumpedType DEF TypeOK
<1> QED
  BY <1>1, <1>3, <1>5, <1>6 DEF TypeOK

\* Every step preserves the types.
LEMMA NextTypeInv == TypeInv /\ [Next]_vars => TypeInv'
<1> SUFFICES ASSUME TypeInv, [Next]_vars PROVE TypeInv'
  OBVIOUS
<1>t. TypeOK /\ Reporting
  BY DEF TypeInv
<1>1. ASSUME NEW l \in Lcores, NEW c \in Clients, Send(l, c) PROVE TypeInv'
  <2>1. UNCHANGED <<lifeVars, clock, recvVars, lost, copies, fileVars>>
    BY <1>1 DEF Send
  <2>2. TypeOK'
    BY <1>1, <1>t, <2>1, SendType DEF TypeOK, lifeVars, recvVars, fileVars
  <2> QED
    BY <1>t, <2>1, <2>2 DEF TypeInv, Reporting, Reporter, PassesOn, ClientKeeps, WorkloadKeeps,
                            Client, Workload, lifeVars
<1>2. ASSUME NEW l \in Lcores, NEW m \in network, Receive(l, m) PROVE TypeInv'
  <2>1. /\ network' = network \ {m} /\ Record(l, m.send)
        /\ UNCHANGED <<lifeVars, clock, sendVars, lost, copies, strays, fileVars>>
    BY <1>2 DEF Receive
  <2>2. m.send \in Times
    BY <1>t DEF TypeOK, Messages
  <2>3. TypeOK'
    BY <1>t, <2>1, <2>2, RecordType DEF TypeOK, lifeVars, sendVars, fileVars
  <2> QED
    BY <1>t, <2>1, <2>3 DEF TypeInv, Reporting, Reporter, PassesOn, ClientKeeps, WorkloadKeeps,
                            Client, Workload, lifeVars
<1>3. ASSUME NEW l \in Lcores, ReceiveStray(l) PROVE TypeInv'
  <2>1. PICK send \in Times : Record(l, send)
    BY <1>3 DEF ReceiveStray
  <2>2. /\ strays' = [strays EXCEPT ![l] = @ + 1]
        /\ UNCHANGED <<lifeVars, clock, sendVars, netVars, fileVars>>
    BY <1>3 DEF ReceiveStray
  <2>3. strays' \in [Lcores -> Nat]
    BY <1>t, <2>2, CounterTypes
  <2>4. TypeOK'
    BY <1>t, <2>1, <2>2, <2>3, RecordType DEF TypeOK, lifeVars, sendVars, netVars, fileVars
  <2> QED
    BY <1>t, <2>2, <2>4 DEF TypeInv, Reporting, Reporter, PassesOn, ClientKeeps, WorkloadKeeps,
                            Client, Workload, lifeVars
<1>4. ASSUME NEW l \in Lcores, EndRun(l) PROVE TypeInv'
  <2>1. /\ phase' = [phase EXCEPT ![l] = IF Reporter = {} THEN "done" ELSE "latency"]
        /\ UNCHANGED <<mode, aborted, clock, sendVars, recvVars, netVars, fileVars>>
    BY <1>4 DEF EndRun
  <2>2. TypeOK'
    BY <1>t, <2>1 DEF TypeOK, sendVars, recvVars, netVars, fileVars
  <2>3. Reporter' = Reporter
    BY <2>1 DEF Reporter, PassesOn, ClientKeeps, WorkloadKeeps, Client, Workload
  <2>4. Reporting'
    BY <1>t, <2>1, <2>3 DEF TypeOK, Reporting
  <2> QED
    BY <2>2, <2>4 DEF TypeInv
<1>5. ASSUME NEW l \in Lcores, WriteLatencies(l) PROVE TypeInv'
  <2>1. /\ phase[l] = "latency" /\ phase' = [phase EXCEPT ![l] = "throughput"]
        /\ UNCHANGED <<mode, aborted, clock, sendVars, recvVars, netVars, thp_file>>
        /\ \/ latency_file' = [latency_file EXCEPT ![File(l)] = latencies[l]]
           \/ UNCHANGED latency_file
    BY <1>5 DEF WriteLatencies
  <2>2. TypeOK'
    BY <1>t, <2>1, RoundTripAssumption
       DEF RoundTripAssumption, TypeOK, sendVars, recvVars, netVars
  <2>3. Reporter' = Reporter
    BY <2>1 DEF Reporter, PassesOn, ClientKeeps, WorkloadKeeps, Client, Workload
  <2>4. Reporting'
    BY <1>t, <2>1, <2>3 DEF TypeOK, Reporting
  <2> QED
    BY <2>2, <2>4 DEF TypeInv
<1>6. ASSUME NEW l \in Lcores, WriteThroughput(l) PROVE TypeInv'
  <2>1. /\ phase[l] = "throughput" /\ phase' = [phase EXCEPT ![l] = "done"]
        /\ thp_file' = [thp_file EXCEPT ![File(l)] = <<Line(l)>>]
        /\ UNCHANGED <<mode, aborted, clock, sendVars, recvVars, netVars, latency_file>>
    BY <1>6 DEF WriteThroughput
  <2>2. <<Line(l)>> \in Seq(Lines)
    <3>1. Reporter # {}
      BY <1>t, <2>1 DEF Reporting
    <3>2. PICK k \in Reporter :
            Line(l) = [by |-> l, rx |-> nr_rx[k][l], rx_1 |-> nr_rx_1[l], rx_2 |-> nr_rx_2[l],
                       tx |-> nr_tx[k][l]]
      BY <3>1, LineFacts
    <3>3. k \in Keepers
      BY KeeperFacts
    <3>4. Line(l) \in Lines
      BY <1>t, <3>2, <3>3, CounterTypes DEF TypeOK, Lines
    <3> QED
      BY <3>4
  <2>3. TypeOK'
    BY <1>t, <2>1, <2>2 DEF TypeOK, sendVars, recvVars, netVars
  <2>4. Reporter' = Reporter
    BY <2>1 DEF Reporter, PassesOn, ClientKeeps, WorkloadKeeps, Client, Workload
  <2>5. Reporting'
    BY <1>t, <2>1, <2>4 DEF TypeOK, Reporting
  <2> QED
    BY <2>3, <2>5 DEF TypeInv
<1>7. ASSUME NEW l \in Lcores, OpenFails(l) PROVE TypeInv'
  <2>1. /\ aborted' = TRUE
        /\ UNCHANGED <<mode, phase, clock, sendVars, recvVars, netVars, fileVars>>
    BY <1>7 DEF OpenFails
  <2> QED
    BY <1>t, <2>1
       DEF TypeInv, TypeOK, Reporting, Reporter, PassesOn, ClientKeeps, WorkloadKeeps,
           Client, Workload, sendVars, recvVars, netVars, fileVars
<1>8. ASSUME NEW m \in network, Lose(m) PROVE TypeInv'
  <2>1. /\ network' = network \ {m} /\ lost' = [lost EXCEPT ![m.lcore] = @ + 1]
        /\ UNCHANGED <<lifeVars, clock, sendVars, recvVars, copies, fileVars>>
    BY <1>8 DEF Lose
  <2>2. m.lcore \in Lcores
    BY <1>t DEF TypeOK, Messages
  <2>3. lost' \in [Lcores -> Nat]
    BY <1>t, <2>1, <2>2, CounterTypes
  <2>4. TypeOK'
    BY <1>t, <2>1, <2>3 DEF TypeOK, lifeVars, sendVars, recvVars, fileVars
  <2> QED
    BY <1>t, <2>1, <2>4 DEF TypeInv, Reporting, Reporter, PassesOn, ClientKeeps, WorkloadKeeps,
                            Client, Workload, lifeVars
<1>9. ASSUME NEW m \in network, Duplicate(m) PROVE TypeInv'
  <2>1. /\ network' = network \cup {[m EXCEPT !.copy = 1]}
        /\ copies' = [copies EXCEPT ![m.lcore] = @ + 1]
        /\ UNCHANGED <<lifeVars, clock, sendVars, recvVars, lost, fileVars>>
    BY <1>9 DEF Duplicate
  <2>2. m.lcore \in Lcores /\ [m EXCEPT !.copy = 1] \in Messages
    BY <1>t DEF TypeOK, Messages
  <2>3. copies' \in [Lcores -> Nat]
    BY <1>t, <2>1, <2>2, CounterTypes
  <2>n. network' \subseteq Messages
    BY <1>t, <2>1, <2>2 DEF TypeOK
  <2>u. UNCHANGED <<lifeVars, clock, sendVars, recvVars, lost, fileVars>>
    BY <2>1
  <2>4. TypeOK'
    BY <1>t, <2>3, <2>n, <2>u DEF TypeOK, lifeVars, sendVars, recvVars, fileVars
  <2> QED
    BY <1>t, <2>1, <2>4 DEF TypeInv, Reporting, Reporter, PassesOn, ClientKeeps, WorkloadKeeps,
                            Client, Workload, lifeVars
<1>10. CASE Tick
  <2>1. /\ clock < MaxClock /\ clock' = clock + 1
        /\ UNCHANGED <<lifeVars, sendVars, recvVars, netVars, fileVars>>
    BY <1>10 DEF Tick
  <2>2. clock' \in Times
    BY <1>t, <2>1, RoundTripAssumption DEF RoundTripAssumption, TypeOK, Times
  <2> QED
    BY <1>t, <2>1, <2>2
       DEF TypeInv, TypeOK, Reporting, Reporter, PassesOn, ClientKeeps, WorkloadKeeps,
           Client, Workload, lifeVars, sendVars, recvVars, netVars, fileVars
<1>11. CASE UNCHANGED vars
  BY <1>t, <1>11
     DEF TypeInv, TypeOK, Reporting, Reporter, PassesOn, ClientKeeps, WorkloadKeeps,
         Client, Workload, vars, lifeVars, sendVars, recvVars, netVars, fileVars
<1> QED
  BY <1>1, <1>2, <1>3, <1>4, <1>5, <1>6, <1>7, <1>8, <1>9, <1>10, <1>11
     DEF Next, LcoreStep, Ended

\* Counters, records and files keep their types: no lcore records more latencies than its
\* array holds, and identifiers and time stamps stay within their width.
THEOREM TypeCorrect == Spec => []TypeOK
<1>1. Spec => []TypeInv
  BY InitTypeInv, NextTypeInv, PTL DEF Spec
<1> QED
  BY <1>1, PTL DEF TypeInv

-----------------------------------------------------------------------------
(* Latencies. *)

\* The records of an lcore that are longer than a time.
Long(records, time) == {i \in DOMAIN records : Elapsed(records[i]) > time}

\* No message carries a time stamp ahead of the clock.
Stamped == \A m \in network : m.send <= clock

Sane == Stamped /\ LatencySane

\* An elapsed time is a number.
LEMMA ElapsedType ==
  ASSUME NEW r \in Records
  PROVE  Elapsed(r) \in Int
<1>1. r.done + TimeWidth - r.send \in Int /\ TimeWidth \in Nat \ {0}
  BY RoundTripAssumption DEF RoundTripAssumption, Records, Times
<1>2. (r.done + TimeWidth - r.send) % TimeWidth \in 0 .. TimeWidth - 1
  BY <1>1, DivMod
<1> QED
  BY <1>1, <1>2 DEF Elapsed

\* The latency of a reply whose time stamp is not ahead of the clock is not longer than the
\* time that has passed.
LEMMA ElapsedOfReply ==
  ASSUME NEW l \in Lcores, clock \in Times, NEW send \in Times, send <= clock
  PROVE  Elapsed(Latency(l, send)) <= clock
<1> DEFINE d == clock - send
<1>1. d \in 0 .. TimeWidth - 1 /\ TimeWidth \in Nat \ {0} /\ d <= clock
  BY RoundTripAssumption DEF RoundTripAssumption, Times
<1>2. (TimeWidth + d) % TimeWidth = d
  BY <1>1, WrapOnce
<1>3. clock + TimeWidth - send = TimeWidth + d
  BY <1>1 DEF Times
<1>4. Elapsed(Latency(l, send)) = (TimeWidth + d) % TimeWidth
  BY <1>3 DEF Elapsed, Latency
<1> QED
  BY <1>1, <1>2, <1>4

\* The long records are finite in number.
LEMMA LongFinite ==
  ASSUME NEW records \in Seq(Records), NEW time
  PROVE  IsFiniteSet(Long(records, time)) /\ Cardinality(Long(records, time)) \in Nat
<1>1. DOMAIN records = 1 .. Len(records) /\ Len(records) \in Nat
  OBVIOUS
<1>2. IsFiniteSet(DOMAIN records)
  BY <1>1, FS_Interval
<1>3. Long(records, time) \subseteq DOMAIN records
  BY DEF Long
<1> QED
  BY <1>2, <1>3, FS_Subset, FS_CardinalityType

\* A new record adds at most itself, and not itself if it is not long.
LEMMA LongAppend ==
  ASSUME NEW records \in Seq(Records), NEW r \in Records, NEW time
  PROVE  /\ Long(Append(records, r), time) \subseteq Long(records, time) \cup {Len(records) + 1}
         /\ ~(Elapsed(r) > time) => Long(Append(records, r), time) \subseteq Long(records, time)
<1> DEFINE more == Append(records, r)
<1>1. /\ DOMAIN more = 1 .. Len(records) + 1 /\ DOMAIN records = 1 .. Len(records)
      /\ Len(records) \in Nat
  OBVIOUS
<1>2. \A i \in 1 .. Len(records) : more[i] = records[i]
  OBVIOUS
<1>3. more[Len(records) + 1] = r
  OBVIOUS
<1> HIDE DEF more
<1>4. \A i \in DOMAIN more : i \in DOMAIN records \/ i = Len(records) + 1
  BY <1>1
<1>5. \A i \in Long(more, time) :
        i \in Long(records, time) \/ (i = Len(records) + 1 /\ Elapsed(r) > time)
  BY <1>1, <1>2, <1>3, <1>4 DEF Long
<1>6. /\ Long(more, time) \subseteq Long(records, time) \cup {Len(records) + 1}
      /\ ~(Elapsed(r) > time) => Long(more, time) \subseteq Long(records, time)
  BY <1>5
<1> QED
  BY <1>6 DEF more

\* As time passes fewer records are long.
LEMMA LongLater ==
  ASSUME NEW records \in Seq(Records), NEW time \in Int
  PROVE  Long(records, time + 1) \subseteq Long(records, time)
<1>1. \A i \in DOMAIN records : records[i] \in Records
  OBVIOUS
<1>2. \A i \in DOMAIN records : Elapsed(records[i]) \in Int
  BY <1>1, ElapsedType
<1>3. \A i \in DOMAIN records : Elapsed(records[i]) > time + 1 => Elapsed(records[i]) > time
  BY <1>2
<1> QED
  BY <1>3 DEF Long

\* recv makes at most one more record long, and none if the time stamp is not ahead of
\* the clock.
LEMMA RecordLong ==
  ASSUME TypeOK, NEW l \in Lcores, NEW send \in Times, Record(l, send), NEW k \in Lcores
  PROVE  /\ k # l => latencies'[k] = latencies[k]
         /\ Cardinality(Long(latencies'[k], clock)) <= Cardinality(Long(latencies[k], clock)) + 1
         /\ send <= clock =>
              Cardinality(Long(latencies'[k], clock)) <= Cardinality(Long(latencies[k], clock))
<1>1. latencies[k] \in Seq(Records)
  BY DEF TypeOK
<1>2. IsFiniteSet(Long(latencies[k], clock)) /\ Cardinality(Long(latencies[k], clock)) \in Nat
  BY <1>1, LongFinite
<1>3. CASE latencies'[k] = latencies[k]
  BY <1>2, <1>3
<1>4. CASE k = l /\ latencies'[k] = Append(latencies[k], Latency(l, send))
  <2> DEFINE old == Long(latencies[k], clock)
             r   == Latency(l, send)
             new == Long(Append(latencies[k], r), clock)
             all == old \cup {Len(latencies[k]) + 1}
  <2>1. r \in Records
    BY LatencyType
  <2> HIDE DEF r
  <2>2. new \subseteq all /\ (~(Elapsed(r) > clock) => new \subseteq old)
    BY <1>1, <2>1, LongAppend
  <2>3. send <= clock => ~(Elapsed(r) > clock)
    <3>1. Elapsed(r) \in Int
      BY <2>1, ElapsedType
    <3>2. send <= clock => Elapsed(r) <= clock
      BY ElapsedOfReply DEF TypeOK, r
    <3> QED
      BY <3>1, <3>2 DEF TypeOK, Times
  <2> HIDE DEF old, new
  <2>4. IsFiniteSet(old) /\ Cardinality(old) \in Nat
    BY <1>2 DEF old
  <2>5. IsFiniteSet(all) /\ Cardinality(all) \in Nat /\ Cardinality(all) <= Cardinality(old) + 1
    <3>1. /\ IsFiniteSet(all)
          /\ Cardinality(all) = IF Len(latencies[k]) + 1 \in old THEN Cardinality(old)
                                                               ELSE Cardinality(old) + 1
      BY <2>4, FS_AddElement
    <3> HIDE DEF all
    <3> QED
      BY <2>4, <3>1, FS_CardinalityType
  <2>6. IsFiniteSet(new) /\ Cardinality(new) \in Nat /\ Cardinality(new) <= Cardinality(all)
    BY <2>2, <2>5, FS_Subset, FS_CardinalityType
  <2>7. Cardinality(new) <= Cardinality(old) + 1
    BY <2>4, <2>5, <2>6
  <2>8. send <= clock => Cardinality(new) <= Cardinality(old)
    BY <2>2, <2>3, <2>4, FS_Subset
  <2> QED
    BY <1>4, <2>7, <2>8 DEF old, new, r
<1>5. k # l => latencies'[k] = latencies[k]
  BY DEF Record, TypeOK
<1>6. latencies'[k] = latencies[k] \/
      (k = l /\ latencies'[k] = Append(latencies[k], Latency(l, send)))
  BY DEF Record, TypeOK
<1> QED
  BY <1>3, <1>4, <1>5, <1>6

\* LatencySane, of the long records.
LEMMA SaneFacts ==
  LatencySane <=> \A l \in Lcores : Cardinality(Long(latencies[l], clock)) <= strays[l]
BY DEF LatencySane, Long

\* Steps that leave messages under way with their time stamps, and records, clock and
\* foreign packets alone.
LEMMA QuietSane ==
  ASSUME Sane, UNCHANGED <<latencies, clock, strays>>, \A m \in network' : m.send <= clock
  PROVE  Sane'
<1>1. Stamped'
  BY DEF Stamped
<1>2. LatencySane'
  BY DEF Sane, LatencySane, Elapsed
<1> QED
  BY <1>1, <1>2 DEF Sane

\* Before the first request no latency is recorded.
LEMMA InitSane == Init => Sane
<1> SUFFICES ASSUME Init PROVE Sane
  OBVIOUS
<1>1. Stamped
  BY DEF Init, Stamped
<1>2. ASSUME NEW l \in Lcores PROVE Cardinality(Long(latencies[l], clock)) <= strays[l]
  <2>1. latencies[l] = <<>> /\ strays[l] = 0
    BY DEF Init
  <2>2. Long(latencies[l], clock) = {}
    BY <2>1 DEF Long
  <2> QED
    BY <2>1, <2>2, FS_EmptySet
<1>3. LatencySane
  BY <1>2, SaneFacts
<1> QED
  BY <1>1, <1>3 DEF Sane

\* Only recv and the clock disturb the latencies.
LEMMA NextSane == TypeInv /\ Sane /\ [Next]_vars => Sane'
<1> SUFFICES ASSUME TypeInv, Sane, [Next]_vars PROVE Sane'
  OBVIOUS
<1>t. TypeOK
  BY DEF TypeInv
<1>s. Stamped /\ \A k \in Lcores : Cardinality(Long(latencies[k], clock)) <= strays[k]
  BY SaneFacts DEF Sane
<1>c. clock \in Nat /\ \A m \in network : m.send \in Times
  BY <1>t DEF TypeOK, Times, Messages
<1>n. strays \in [Lcores -> Nat]
  BY <1>t, CounterTypes
<1>f. \A k \in Lcores : /\ latencies[k] \in Seq(Records)
                        /\ IsFiniteSet(Long(latencies[k], clock))
                        /\ Cardinality(Long(latencies[k], clock)) \in Nat
  BY <1>t, LongFinite DEF TypeOK
<1>1. ASSUME NEW l \in Lcores, NEW c \in Clients, Send(l, c) PROVE Sane'
  <2>1. /\ UNCHANGED <<latencies, clock, strays>>
        /\ network' = network \cup
             {[lcore |-> l, client |-> c, seq |-> sent[l][c], copy |-> 0,
               client_id |-> ClientId(l), req_id |-> req_id[l][c], send |-> clock]}
    BY <1>1 DEF Send, recvVars
  <2>2. \A m \in network' : m.send <= clock
    BY <1>s, <1>c, <2>1 DEF Stamped
  <2> QED
    BY <2>1, <2>2, QuietSane
<1>2. ASSUME NEW l \in Lcores, NEW m \in network, Receive(l, m) PROVE Sane'
  <2>1. network' = network \ {m} /\ Record(l, m.send) /\ UNCHANGED <<clock, strays>>
    BY <1>2 DEF Receive
  <2>2. m.send \in Times /\ m.send <= clock
    BY <1>s, <1>c DEF Stamped
  <2>3. Stamped'
    BY <1>s, <2>1 DEF Stamped
  <2>4. ASSUME NEW k \in Lcores PROVE Cardinality(Long(latencies'[k], clock)) <= strays[k]
    <3>1. Cardinality(Long(latencies'[k], clock)) <= Cardinality(Long(latencies[k], clock))
      BY <1>t, <2>1, <2>2, RecordLong
    <3>2. latencies'[k] \in Seq(Records)
      BY <1>t, <2>1, <2>2, RecordType
    <3>3. Cardinality(Long(latencies'[k], clock)) \in Nat
      BY <3>2, LongFinite
    <3> QED
      BY <1>s, <1>f, <1>n, <3>1, <3>3
  <2>5. LatencySane'
    BY <2>1, <2>4 DEF LatencySane, Long, Elapsed
  <2> QED
    BY <2>3, <2>5 DEF Sane
<1>3. ASSUME NEW l \in Lcores, ReceiveStray(l) PROVE Sane'
  <2>1. PICK send \in Times : Record(l, send)
    BY <1>3 DEF ReceiveStray
  <2>2. strays' = [strays EXCEPT ![l] = @ + 1] /\ UNCHANGED <<clock, network>>
    BY <1>3 DEF ReceiveStray, netVars
  <2>3. Stamped'
    BY <1>s, <2>2 DEF Stamped
  <2>4. ASSUME NEW k \in Lcores PROVE Cardinality(Long(latencies'[k], clock)) <= strays'[k]
    <3>1. /\ k # l => latencies'[k] = latencies[k]
          /\ Cardinality(Long(latencies'[k], clock)) <= Cardinality(Long(latencies[k], clock)) + 1
      BY <1>t, <2>1, RecordLong
    <3>2. latencies'[k] \in Seq(Records)
      BY <1>t, <2>1, RecordType
    <3>3. Cardinality(Long(latencies'[k], clock)) \in Nat
      BY <3>2, LongFinite
    <3>4. strays'[k] = IF k = l THEN strays[k] + 1 ELSE strays[k]
      BY <1>n, <2>2
    <3>5. Cardinality(Long(latencies[k], clock)) \in Nat /\ strays[k] \in Nat
          /\ Cardinality(Long(latencies[k], clock)) <= strays[k]
      BY <1>s, <1>f, <1>n
    <3>6. CASE k = l
      BY <3>1, <3>3, <3>4, <3>5, <3>6
    <3>7. CASE k # l
      BY <3>1, <3>4, <3>5, <3>7
    <3> QED
      BY <3>6, <3>7
  <2>5. LatencySane'
    BY <2>2, <2>4 DEF LatencySane, Long, Elapsed
  <2> QED
    BY <2>3, <2>5 DEF Sane
<1>4. ASSUME NEW l \in Lcores, EndRun(l) \/ WriteLatencies(l) \/ WriteThroughput(l) \/ OpenFails(l)
      PROVE  Sane'
  <2>1. UNCHANGED <<latencies, clock, strays, network>>
    BY <1>4 DEF EndRun, WriteLatencies, WriteThroughput, OpenFails, recvVars, netVars
  <2> QED
    BY <1>s, <2>1, QuietSane DEF Stamped
<1>5. ASSUME NEW m \in network, Lose(m) PROVE Sane'
  <2>1. network' = network \ {m} /\ UNCHANGED <<latencies, clock, strays>>
    BY <1>5 DEF Lose, recvVars
  <2> QED
    BY <1>s, <2>1, QuietSane DEF Stamped
<1>6. ASSUME NEW m \in network, Duplicate(m) PROVE Sane'
  <2>1. network' = network \cup {[m EXCEPT !.copy = 1]} /\ UNCHANGED <<latencies, clock, strays>>
    BY <1>6 DEF Duplicate, recvVars
  <2>2. [m EXCEPT !.copy = 1].send = m.send
    BY <1>t DEF TypeOK, Messages
  <2>3. \A n \in network' : n.send <= clock
    BY <1>s, <2>1, <2>2 DEF Stamped
  <2> QED
    BY <2>1, <2>3, QuietSane
<1>7. CASE Tick
  <2>1. clock' = clock + 1 /\ UNCHANGED <<latencies, strays, network>>
    BY <1>7 DEF Tick, recvVars, netVars
  <2>2. Stamped'
    BY <1>s, <1>c, <2>1 DEF Stamped, Times
  <2>3. ASSUME NEW k \in Lcores PROVE Cardinality(Long(latencies[k], clock + 1)) <= strays[k]
    <3>1. Long(latencies[k], clock + 1) \subseteq Long(latencies[k], clock)
      BY <1>c, <1>f, LongLater
    <3>2. Cardinality(Long(latencies[k], clock + 1)) <= Cardinality(Long(latencies[k], clock))
      BY <1>f, <3>1, FS_Subset
    <3>3. Cardinality(Long(latencies[k], clock + 1)) \in Nat
      BY <1>f, LongFinite
    <3> QED
      BY <1>s, <1>f, <1>n, <3>2, <3>3
  <2>4. LatencySane'
    BY <2>1, <2>3 DEF LatencySane, Long, Elapsed
  <2> QED
    BY <2>2, <2>4 DEF Sane
<1>8. CASE UNCHANGED vars
  <2>1. UNCHANGED <<latencies, clock, strays, network>>
    BY <1>8 DEF vars, recvVars, netVars
  <2> QED
    BY <1>s, <2>1, QuietSane DEF Stamped
<1> QED
  BY <1>1, <1>2, <1>3, <1>4, <1>5, <1>6, <1>7, <1>8 DEF Next, LcoreStep, Ended

\* A latency longer than the time that has passed is the work of a foreign packet: without
\* them, no loss, delay, copy or reordering of replies makes one.
THEOREM LatencySaneCorrect == Spec => []LatencySane
<1>1. Spec => []TypeInv
  BY InitTypeInv, NextTypeInv, PTL DEF Spec
<1>2. Spec => []Sane
  BY <1>1, InitSane, NextSane, PTL DEF Spec
<1> QED
  BY <1>2, PTL DEF Sane

-----------------------------------------------------------------------------
(* Identifiers. *)

\* Identifiers are what is left of a client's count of requests.
Numbered ==
  Client = "shinjuku" =>
    /\ \A l \in Lcores : \A c \in Clients : req_id[l][c] = sent[l][c] % IdWidth
    /\ \A m \in network : m.client_id = ClientId(m.lcore) /\ m.req_id = m.seq % IdWidth

\* Two counts that leave the same are the same or at least a width apart.
LEMMA Apart ==
  ASSUME NEW w \in Nat \ {0}, NEW x \in Nat, NEW y \in Nat, x % w = y % w
  PROVE  x = y \/ x >= y + w \/ y >= x + w
<1> DEFINE p == x \div w
           q == y \div w
<1>1. p \in Int /\ x = w * p + (x % w) /\ x % w \in Int
  BY DivMod
<1>2. q \in Int /\ y = w * q + (y % w)
  BY DivMod
<1> HIDE DEF p, q
<1>3. w * (p - q) = w * p - w * q /\ w * p \in Int /\ w * q \in Int
  BY <1>1, <1>2, Dist
<1>4. w * (p - q) = x - y
  BY <1>1, <1>2, <1>3
<1>5. CASE x - y < w /\ y - x < w
  <2>1. p - q = 0
    BY <1>1, <1>2, <1>4, <1>5, Small
  <2>2. w * (p - q) = 0
    BY <2>1
  <2> QED
    BY <1>4, <2>2
<1> QED
  BY <1>5

\* Lcores have ports of their own, as long as there are no more than 256.
LEMMA ClientIdInjective ==
  ASSUME NEW k \in 0 .. 255, NEW l \in 0 .. 255, ClientId(k) = ClientId(l)
  PROVE  k = l
<1> DEFINE w == 65536
           a == (k + 1) * 256
           b == (l + 1) * 256
<1>1. /\ w \in Nat \ {0} /\ a \in Nat /\ b \in Nat
      /\ a <= w /\ b <= w /\ a > 0 /\ b > 0 /\ (a = b => k = l)
  BY SMT
<1>2. a % w = b % w
  BY SMT DEF ClientId
<1> HIDE DEF w, a, b
<1>3. a = b \/ a >= b + w \/ b >= a + w
  BY <1>1, <1>2, Apart
<1>4. a = b
  BY <1>1, <1>3
<1> QED
  BY <1>1, <1>4

\* Numbering tells the requests under way apart.
LEMMA NumberedIdentifies ==
  ASSUME Lcores \subseteq 0 .. 255, TypeOK, Numbered
  PROVE  IdsIdentify
<1> SUFFICES ASSUME Client = "shinjuku", NEW x \in network, NEW y \in network,
                    x.client_id = y.client_id, x.req_id = y.req_id
             PROVE  /\ x.lcore = y.lcore
                    /\ x.seq = y.seq \/ x.seq >= y.seq + IdWidth \/ y.seq >= x.seq + IdWidth
  BY DEF IdsIdentify
<1>1. x.lcore \in Lcores /\ y.lcore \in Lcores /\ x.seq \in Nat /\ y.seq \in Nat
  BY DEF TypeOK, Messages
<1>2. ClientId(x.lcore) = ClientId(y.lcore) /\ x.seq % IdWidth = y.seq % IdWidth
  BY DEF Numbered
<1>3. x.lcore \in 0 .. 255 /\ y.lcore \in 0 .. 255
  BY <1>1
<1>4. x.lcore = y.lcore
  BY <1>2, <1>3, ClientIdInjective
<1>5. IdWidth \in Nat \ {0}
  BY RoundTripAssumption DEF RoundTripAssumption
<1>6. x.seq = y.seq \/ x.seq >= y.seq + IdWidth \/ y.seq >= x.seq + IdWidth
  BY <1>1, <1>2, <1>5, Apart
<1> QED
  BY <1>4, <1>6

\* Before the first request none is under way.
LEMMA InitNumbered == Init => Numbered
<1> SUFFICES ASSUME Init PROVE Numbered
  OBVIOUS
<1>1. 0 % IdWidth = 0
  BY WrapOnce, RoundTripAssumption DEF RoundTripAssumption
<1>2. \A l \in Lcores : \A c \in Clients : req_id[l][c] = 0 /\ sent[l][c] = 0
  BY DEF Init
<1>3. network = {}
  BY DEF Init
<1> QED
  BY <1>1, <1>2, <1>3 DEF Numbered

\* A request takes the client's identifier, and the client the next one.
LEMMA SendNumbered ==
  ASSUME TypeOK, Numbered, NEW l \in Lcores, NEW c \in Clients, Send(l, c)
  PROVE  Numbered'
<1>1. /\ mode' = mode
      /\ network' = network \cup
           {[lcore |-> l, client |-> c, seq |-> sent[l][c], copy |-> 0,
             client_id |-> ClientId(l), req_id |-> req_id[l][c], send |-> clock]}
      /\ req_id' = [req_id EXCEPT ![l][c] = IF Client = "shinjuku" THEN NextId(@) ELSE @]
      /\ sent' = [sent EXCEPT ![l][c] = @ + 1]
  BY DEF Send, lifeVars
<1> SUFFICES ASSUME Client = "shinjuku"
             PROVE  /\ \A k \in Lcores : \A d \in Clients : req_id'[k][d] = sent'[k][d] % IdWidth
                    /\ \A m \in network' : /\ m.client_id = ClientId(m.lcore)
                                           /\ m.req_id = m.seq % IdWidth
  BY <1>1 DEF Numbered, Client, ClientId
<1>2. sent[l][c] \in Nat /\ IdWidth \in Nat \ {0} /\ req_id[l][c] = sent[l][c] % IdWidth
  BY RoundTripAssumption DEF RoundTripAssumption, TypeOK, Numbered
<1>3. NextId(req_id[l][c]) = (sent[l][c] + 1) % IdWidth
  BY <1>2, ModAdd DEF NextId
<1>4. req_id'[l][c] = NextId(req_id[l][c]) /\ sent'[l][c] = sent[l][c] + 1
  BY <1>1 DEF TypeOK
<1>5. \A k \in Lcores : \A d \in Clients :
        ~(k = l /\ d = c) => req_id'[k][d] = req_id[k][d] /\ sent'[k][d] = sent[k][d]
  BY <1>1 DEF TypeOK
<1>6. \A k \in Lcores : \A d \in Clients : req_id'[k][d] = sent'[k][d] % IdWidth
  BY <1>3, <1>4, <1>5 DEF Numbered
<1>7. \A m \in network' : m.client_id = ClientId(m.lcore) /\ m.req_id = m.seq % IdWidth
  <2> HIDE DEF ClientId
  <2> QED
    BY <1>1, <1>2 DEF Numbered
<1> QED
  BY <1>6, <1>7

\* Steps that send nothing.
LEMMA QuietNumbered ==
  ASSUME Numbered, UNCHANGED <<mode, req_id, sent>>,
         \A m \in network' : \E n \in network :
           /\ m.lcore = n.lcore /\ m.client_id = n.client_id
           /\ m.seq = n.seq /\ m.req_id = n.req_id
  PROVE  Numbered'
BY DEF Numbered, Client, ClientId

\* A step keeps requests apart by their numbers.
LEMMA NextNumbered == TypeInv /\ Numbered /\ [Next]_vars => Numbered'
<1> SUFFICES ASSUME TypeInv, Numbered, [Next]_vars PROVE Numbered'
  OBVIOUS
<1>t. TypeOK
  BY DEF TypeInv
<1>1. ASSUME NEW l \in Lcores, NEW c \in Clients, Send(l, c) PROVE Numbered'
  BY <1>t, <1>1, SendNumbered
<1>2. ASSUME NEW l \in Lcores, NEW m \in network, Receive(l, m) PROVE Numbered'
  <2>1. UNCHANGED <<mode, req_id, sent>> /\ network' \subseteq network
    BY <1>2 DEF Receive, lifeVars, sendVars
  <2> QED
    BY <2>1, QuietNumbered
<1>3. ASSUME NEW l \in Lcores,
             \/ ReceiveStray(l) \/ EndRun(l)
             \/ WriteLatencies(l) \/ WriteThroughput(l) \/ OpenFails(l)
      PROVE  Numbered'
  <2>1. UNCHANGED <<mode, req_id, sent, network>>
    BY <1>3 DEF ReceiveStray, EndRun, WriteLatencies, WriteThroughput, OpenFails,
                lifeVars, sendVars, netVars
  <2> QED
    BY <2>1, QuietNumbered
<1>4. ASSUME NEW m \in network, Lose(m) PROVE Numbered'
  <2>1. UNCHANGED <<mode, req_id, sent>> /\ network' \subseteq network
    BY <1>4 DEF Lose, lifeVars, sendVars
  <2> QED
    BY <2>1, QuietNumbered
<1>5. ASSUME NEW m \in network, Duplicate(m) PROVE Numbered'
  <2> DEFINE copy == [m EXCEPT !.copy = 1]
  <2>1. UNCHANGED <<mode, req_id, sent>> /\ network' = network \cup {copy}
    BY <1>5 DEF Duplicate, lifeVars, sendVars
  <2>2. /\ copy.lcore = m.lcore /\ copy.client_id = m.client_id
        /\ copy.seq = m.seq /\ copy.req_id = m.req_id
    BY <1>t DEF TypeOK, Messages
  <2> HIDE DEF copy
  <2> QED
    BY <2>1, <2>2, QuietNumbered
<1>6. CASE Tick \/ UNCHANGED vars
  <2>1. UNCHANGED <<mode, req_id, sent, network>>
    BY <1>6 DEF Tick, vars, lifeVars, sendVars, netVars
  <2> QED
    BY <2>1, QuietNumbered
<1> QED
  BY <1>1, <1>2, <1>3, <1>4, <1>5, <1>6 DEF Next, LcoreStep, Ended

\* With at most 256 lcores, client_id and req_id tell the requests under way apart, but for
\* clients of one lcore and for a client a whole width of identifiers ahead of itself.
THEOREM IdsCorrect ==
  ASSUME Lcores \subseteq 0 .. 255
  PROVE  Spec => []IdsIdentify
<1>1. Spec => []TypeInv
  BY InitTypeInv, NextTypeInv, PTL DEF Spec
<1>2. Spec => []Numbered
  BY <1>1, InitNumbered, NextNumbered, PTL DEF Spec
<1>3. TypeInv /\ Numbered => IdsIdentify
  BY NumberedIdentifies DEF TypeInv
<1> QED
  BY <1>1, <1>2, <1>3, PTL

-----------------------------------------------------------------------------
(* The report. *)

\* What an earlier run has left in a latency file.
Left(cpu) == IF cpu \in Old THEN <<OldLatency>> ELSE <<>>

\* The records of an lcore are those of its first replies, and the replies are split without
\* a rest.
Counted(l) ==
  /\ \A k \in Reporter : Len(latencies[l]) = Min2(nr_rx[k][l], MaxRecords)
  /\ Reporter = {"synthetic"} => nr_rx["synthetic"][l] = nr_rx_1[l] + nr_rx_2[l]
  /\ \A i \in DOMAIN latencies[l] : latencies[l][i].by = l

\* How far the two files of an lcore are, by its phase.
Filed(l) ==
  /\ phase[l] \in {"run", "latency"} => latency_file[CpuOf[l]] = Left(CpuOf[l])
  /\ phase[l] \in {"throughput", "done"} =>
       latency_file[CpuOf[l]] = latencies[l] \/ latency_file[CpuOf[l]] = Left(CpuOf[l])
  /\ phase[l] = "done" => thp_file[CpuOf[l]] = <<Line(l)>>

Filing == Reporter # {} => \A l \in Lcores : Counted(l) /\ Filed(l)

\* What a step leaves of an lcore's records, of its counters, of its report.
RepliesKept(l) ==
  /\ latencies'[l] = latencies[l]
  /\ \A k \in Keepers : nr_rx'[k][l] = nr_rx[k][l]
  /\ nr_rx_1'[l] = nr_rx_1[l] /\ nr_rx_2'[l] = nr_rx_2[l]
RequestsKept(l) == \A k \in Keepers : nr_tx'[k][l] = nr_tx[k][l]
ReportKept(l) ==
  /\ phase'[l] = phase[l]
  /\ latency_file'[CpuOf[l]] = latency_file[CpuOf[l]]
  /\ thp_file'[CpuOf[l]] = thp_file[CpuOf[l]]

\* Who reports is a matter of the command line.
LEMMA ReporterKept == mode' = mode => Reporter' = Reporter
BY DEF Reporter, ClientKeeps, WorkloadKeeps, PassesOn, Client, Workload

\* The line depends on the counters only.
LEMMA LineKept ==
  ASSUME NEW l \in Lcores, mode' = mode, RepliesKept(l), RequestsKept(l)
  PROVE  Line(l)' = Line(l)
<1>1. Reporter' = Reporter /\ Reporter \subseteq Keepers
  BY ReporterKept, KeeperFacts
<1>2. LinesOf(l)' = LinesOf(l)
  BY <1>1 DEF LinesOf, RepliesKept, RequestsKept
<1> QED
  BY <1>2 DEF Line

\* A count that was right stays right while its counters stay.
LEMMA CountedKept ==
  ASSUME NEW l \in Lcores, mode' = mode, RepliesKept(l), Counted(l)
  PROVE  Counted(l)'
<1>1. Reporter' = Reporter /\ Reporter \subseteq Keepers
  BY ReporterKept, KeeperFacts
<1>2. "synthetic" \in Keepers
  BY DEF Keepers
<1> QED
  BY <1>1, <1>2 DEF Counted, RepliesKept

\* Files that agree stay in agreement while they and the counters stay.
LEMMA FiledKept ==
  ASSUME NEW l \in Lcores, mode' = mode, RepliesKept(l), ReportKept(l), Filed(l),
         RequestsKept(l) \/ phase[l] # "done"
  PROVE  Filed(l)'
<1>1. phase[l] = "done" => Line(l)' = Line(l)
  BY LineKept
<1>2. Left(CpuOf[l])' = Left(CpuOf[l])
  BY DEF Left
<1> HIDE DEF Left
<1> QED
  BY <1>1, <1>2 DEF Filed, RepliesKept, ReportKept

\* recv counts for its lcore only.
LEMMA RecordOthers ==
  ASSUME TypeOK, NEW l \in Lcores, NEW send, Record(l, send), NEW k \in Lcores, k # l
  PROVE  RepliesKept(k)
<1>1. \A j \in Keepers : nr_rx'[j][k] = nr_rx[j][k]
  BY DEF Record, Bumped, TypeOK
<1>2. nr_rx_1'[k] = nr_rx_1[k] /\ nr_rx_2'[k] = nr_rx_2[k]
  BY CounterTypes DEF Record, Split
<1>3. latencies'[k] = latencies[k]
  BY DEF Record, TypeOK
<1> QED
  BY <1>1, <1>2, <1>3 DEF RepliesKept

\* recv counts a reply, and records it as long as there is room.
LEMMA RecordCounted ==
  ASSUME TypeOK, NEW l \in Lcores, NEW send \in Times, Record(l, send), mode' = mode,
         Reporter # {}, Counted(l)
  PROVE  Counted(l)'
<1>1. Reporter' = Reporter /\ Reporter \subseteq Keepers
  BY ReporterKept, KeeperFacts
<1>2. \A k \in Reporter : nr_rx'[k][l] = nr_rx[k][l] + 1 /\ nr_rx[k][l] \in Nat
  BY <1>1 DEF Record, Bumped, TypeOK
<1>3. MaxRecords \in Nat /\ latencies[l] \in Seq(Records) /\ Len(latencies[l]) \in Nat
  BY RoundTripAssumption DEF RoundTripAssumption, TypeOK
<1>4. Reporter = {"synthetic"} => nr_rx'["synthetic"][l] = nr_rx_1'[l] + nr_rx_2'[l]
  <2>1. nr_rx_1[l] \in Nat /\ nr_rx_2[l] \in Nat
    BY CounterTypes
  <2>2. Reporter = {"synthetic"} =>
          \/ nr_rx_1'[l] = nr_rx_1[l] + 1 /\ nr_rx_2'[l] = nr_rx_2[l]
          \/ nr_rx_2'[l] = nr_rx_2[l] + 1 /\ nr_rx_1'[l] = nr_rx_1[l]
    BY CounterTypes DEF Record, Split
  <2>3. Reporter = {"synthetic"} => nr_rx'["synthetic"][l] = nr_rx["synthetic"][l] + 1
    BY <1>2
  <2> QED
    BY <2>1, <2>2, <2>3 DEF Counted
<1>5. CASE Room(l)
  <2>1. latencies'[l] = Append(latencies[l], Latency(l, send))
    BY <1>5 DEF Record, TypeOK
  <2>2. Len(latencies[l]) < MaxRecords
    BY <1>5 DEF Room
  <2> DEFINE r == Latency(l, send)
  <2>3. r.by = l
    BY DEF Latency
  <2> HIDE DEF r
  <2>4. /\ Len(Append(latencies[l], r)) = Len(latencies[l]) + 1
        /\ DOMAIN Append(latencies[l], r) = 1 .. Len(latencies[l]) + 1
        /\ DOMAIN latencies[l] = 1 .. Len(latencies[l])
        /\ \A i \in 1 .. Len(latencies[l]) : Append(latencies[l], r)[i] = latencies[l][i]
        /\ Append(latencies[l], r)[Len(latencies[l]) + 1] = r
    BY <1>3
  <2>5. \A k \in Reporter : Len(Append(latencies[l], r)) = Min2(nr_rx'[k][l], MaxRecords)
    <3>1. \A k \in Reporter : Len(latencies[l]) = Min2(nr_rx[k][l], MaxRecords)
      BY DEF Counted
    <3>2. \A k \in Reporter : nr_rx[k][l] = Len(latencies[l])
      BY <1>2, <1>3, <2>2, <3>1 DEF Min2
    <3> QED
      BY <1>2, <1>3, <2>2, <2>4, <3>2 DEF Min2
  <2>6. \A i \in DOMAIN Append(latencies[l], r) : Append(latencies[l], r)[i].by = l
    <3>1. \A i \in DOMAIN Append(latencies[l], r) :
            i \in DOMAIN latencies[l] \/ i = Len(latencies[l]) + 1
      BY <1>3, <2>4
    <3> QED
      BY <2>3, <2>4, <3>1 DEF Counted
  <2>7. latencies'[l] = Append(latencies[l], r)
    BY <2>1 DEF r
  <2> QED
    BY <1>1, <1>4, <2>5, <2>6, <2>7 DEF Counted
<1>6. CASE ~Room(l)
  <2>1. latencies' = latencies /\ ~(Len(latencies[l]) < MaxRecords)
    BY <1>6 DEF Record, Room
  <2>2. \A k \in Reporter : Len(latencies[l]) = Min2(nr_rx[k][l], MaxRecords)
    BY DEF Counted
  <2>3. \A k \in Reporter : Len(latencies[l]) = Min2(nr_rx'[k][l], MaxRecords)
    BY <1>2, <1>3, <2>1, <2>2 DEF Min2
  <2> QED
    BY <1>1, <1>4, <2>1, <2>3 DEF Counted
<1> QED
  BY <1>5, <1>6

\* Before the first output there is nothing to disagree.
LEMMA InitFiling == Init => Filing
<1> SUFFICES ASSUME Init, NEW l \in Lcores PROVE Counted(l) /\ Filed(l)
  BY DEF Filing
<1>1. MaxRecords \in Nat /\ CpuOf[l] \in Cpus
  BY RoundTripAssumption DEF RoundTripAssumption
<1>2. latencies[l] = <<>> /\ nr_rx_1[l] = 0 /\ nr_rx_2[l] = 0 /\ phase[l] = "run"
  BY DEF Init
<1>3. \A k \in Keepers : nr_rx[k][l] = 0
  BY DEF Init
<1>4. Reporter \subseteq Keepers /\ "synthetic" \in Keepers
  BY KeeperFacts DEF Keepers
<1>5. Counted(l)
  BY <1>1, <1>2, <1>3, <1>4 DEF Counted, Min2
<1>6. latency_file[CpuOf[l]] = Left(CpuOf[l])
  BY <1>1 DEF Init, Left
<1> QED
  BY <1>2, <1>5, <1>6 DEF Filed

\* Steps that leave every report and every counter alone.
LEMMA QuietFiling ==
  ASSUME TypeOK, Filing, UNCHANGED <<mode, phase, recvVars, nr_tx, fileVars>>
  PROVE  Filing'
<1>1. \A l \in Lcores : RepliesKept(l) /\ RequestsKept(l) /\ ReportKept(l)
  BY DEF RepliesKept, RequestsKept, ReportKept, recvVars, fileVars
<1>2. Reporter' = Reporter
  BY ReporterKept
<1>3. Reporter # {} => \A l \in Lcores : Counted(l)' /\ Filed(l)'
  BY <1>1, CountedKept, FiledKept DEF Filing
<1> QED
  BY <1>2, <1>3 DEF Filing

\* Every step of an lcore leaves the others' replies, requests and files alone, because no
\* two are bound to one CPU.
LEMMA NextFiling == TypeInv /\ Filing /\ [Next]_vars => Filing'
<1> SUFFICES ASSUME TypeInv, Filing, [Next]_vars PROVE Filing'
  OBVIOUS
<1>t. TypeOK /\ Reporting
  BY DEF TypeInv
<1>c. /\ CpuOf \in [Lcores -> Cpus]
      /\ \A l, k \in Lcores : CpuOf[l] = CpuOf[k] => l = k
  BY RoundTripAssumption DEF RoundTripAssumption
<1>1. ASSUME NEW l \in Lcores, NEW c \in Clients, Send(l, c) PROVE Filing'
  <2>1. /\ phase[l] = "run" /\ nr_tx' = Bumped(nr_tx, l, Senders)
        /\ UNCHANGED <<mode, phase, recvVars, fileVars>>
    BY <1>1 DEF Send, Running, lifeVars
  <2>2. \A k \in Lcores : RepliesKept(k) /\ ReportKept(k)
    BY <2>1 DEF RepliesKept, ReportKept, recvVars, fileVars
  <2>3. \A k \in Lcores : k # l => RequestsKept(k)
    BY <1>t, <2>1 DEF RequestsKept, Bumped, TypeOK
  <2>4. Reporter' = Reporter
    BY <2>1, ReporterKept
  <2>5. Reporter # {} => \A k \in Lcores : Counted(k)' /\ Filed(k)'
    BY <2>1, <2>2, <2>3, CountedKept, FiledKept DEF Filing
  <2> QED
    BY <2>4, <2>5 DEF Filing
<1>2. ASSUME NEW l \in Lcores, NEW send \in Times, Running(l), Record(l, send),
             UNCHANGED <<mode, phase, nr_tx, fileVars>>
      PROVE  Filing'
  <2>1. phase[l] = "run" /\ phase'[l] = "run"
    BY <1>2 DEF Running
  <2>2. \A k \in Lcores : RequestsKept(k) /\ ReportKept(k)
    BY <1>2 DEF RequestsKept, ReportKept, fileVars
  <2>3. Reporter' = Reporter
    BY <1>2, ReporterKept
  <2>4. ASSUME NEW k \in Lcores, Reporter # {}, k # l PROVE Counted(k)' /\ Filed(k)'
    <3>1. RepliesKept(k)
      BY <1>t, <1>2, <2>4, RecordOthers
    <3> QED
      BY <1>2, <2>2, <2>4, <3>1, CountedKept, FiledKept DEF Filing
  <2>5. ASSUME Reporter # {} PROVE Counted(l)' /\ Filed(l)'
    <3>1. Counted(l)'
      BY <1>t, <1>2, <2>5, RecordCounted DEF Filing
    <3>2. latency_file[CpuOf[l]] = Left(CpuOf[l])
      BY <2>1, <2>5 DEF Filing, Filed
    <3>3. latency_file'[CpuOf[l]] = Left(CpuOf[l])
      BY <1>2, <3>2 DEF fileVars
    <3>4. Left(CpuOf[l])' = Left(CpuOf[l])
      BY DEF Left
    <3> HIDE DEF Left
    <3>5. Filed(l)'
      BY <2>1, <3>3, <3>4 DEF Filed
    <3> QED
      BY <3>1, <3>5
  <2> QED
    BY <2>3, <2>4, <2>5 DEF Filing
<1>3. ASSUME NEW l \in Lcores, NEW m \in network, Receive(l, m) PROVE Filing'
  <2>1. m.send \in Times
    BY <1>t DEF TypeOK, Messages
  <2>2. Running(l) /\ Record(l, m.send) /\ UNCHANGED <<mode, phase, nr_tx, fileVars>>
    BY <1>3 DEF Receive, lifeVars, sendVars
  <2> QED
    BY <1>2, <2>1, <2>2
<1>4. ASSUME NEW l \in Lcores, ReceiveStray(l) PROVE Filing'
  <2>1. PICK send \in Times : Record(l, send)
    BY <1>4 DEF ReceiveStray
  <2>2. Running(l) /\ UNCHANGED <<mode, phase, nr_tx, fileVars>>
    BY <1>4 DEF ReceiveStray, lifeVars, sendVars
  <2> QED
    BY <1>2, <2>1, <2>2
<1>5. ASSUME NEW l \in Lcores, phase' = [phase EXCEPT ![l] = phase'[l]],
             UNCHANGED <<mode, sendVars, recvVars>>,
             \A k \in Lcores : k # l =>
               /\ latency_file'[CpuOf[k]] = latency_file[CpuOf[k]]
               /\ thp_file'[CpuOf[k]] = thp_file[CpuOf[k]],
             Reporter # {} => Filed(l)'
      PROVE  Filing'
  <2>1. \A k \in Lcores : RepliesKept(k) /\ RequestsKept(k)
    BY <1>5 DEF RepliesKept, RequestsKept, recvVars, sendVars
  <2>2. \A k \in Lcores : k # l => ReportKept(k)
    BY <1>t, <1>5 DEF ReportKept, TypeOK
  <2>3. Reporter' = Reporter
    BY <1>5, ReporterKept
  <2>4. Reporter # {} => \A k \in Lcores : Counted(k)'
    BY <1>5, <2>1, CountedKept DEF Filing
  <2>5. Reporter # {} => \A k \in Lcores : k # l => Filed(k)'
    BY <1>5, <2>1, <2>2, FiledKept DEF Filing
  <2> QED
    BY <1>5, <2>3, <2>4, <2>5 DEF Filing
<1>6. ASSUME NEW l \in Lcores, EndRun(l) PROVE Filing'
  <2>1. /\ phase[l] = "run"
        /\ phase' = [phase EXCEPT ![l] = IF Reporter = {} THEN "done" ELSE "latency"]
        /\ UNCHANGED <<mode, sendVars, recvVars, fileVars>>
    BY <1>6 DEF EndRun, Running
  <2>2. phase'[l] = IF Reporter = {} THEN "done" ELSE "latency"
    BY <1>t, <2>1 DEF TypeOK
  <2>3. ASSUME Reporter # {} PROVE Filed(l)'
    <3>1. phase'[l] = "latency"
      BY <2>2, <2>3
    <3>2. latency_file[CpuOf[l]] = Left(CpuOf[l])
      BY <2>1, <2>3 DEF Filing, Filed
    <3>3. latency_file'[CpuOf[l]] = Left(CpuOf[l])
      BY <2>1, <3>2 DEF fileVars
    <3>4. Left(CpuOf[l])' = Left(CpuOf[l])
      BY DEF Left
    <3> HIDE DEF Left
    <3> QED
      BY <3>1, <3>3, <3>4 DEF Filed
  <2>4. /\ phase' = [phase EXCEPT ![l] = phase'[l]]
        /\ latency_file' = latency_file /\ thp_file' = thp_file
    BY <2>1, <2>2 DEF fileVars
  <2> QED
    BY <1>5, <2>1, <2>3, <2>4
<1>7. ASSUME NEW l \in Lcores, WriteLatencies(l) PROVE Filing'
  <2>1. /\ phase[l] = "latency" /\ phase' = [phase EXCEPT ![l] = "throughput"]
        /\ UNCHANGED <<mode, sendVars, recvVars, thp_file>>
        /\ \/ latency_file' = [latency_file EXCEPT ![CpuOf[l]] = latencies[l]]
           \/ latency_file' = latency_file
    BY <1>7 DEF WriteLatencies, File
  <2>2. phase'[l] = "throughput" /\ latency_file \in [Cpus -> Seq(Records)] /\ CpuOf[l] \in Cpus
    BY <1>t, <1>c, <2>1 DEF TypeOK
  <2>3. ASSUME Reporter # {} PROVE Filed(l)'
    <3>1. latency_file[CpuOf[l]] = Left(CpuOf[l])
      BY <2>1, <2>3 DEF Filing, Filed
    <3>2. \/ latency_file'[CpuOf[l]] = latencies[l]
          \/ latency_file'[CpuOf[l]] = Left(CpuOf[l])
      BY <2>1, <2>2, <3>1
    <3>3. Left(CpuOf[l])' = Left(CpuOf[l]) /\ latencies'[l] = latencies[l]
      BY <2>1 DEF Left, recvVars
    <3> HIDE DEF Left
    <3> QED
      BY <2>2, <3>2, <3>3 DEF Filed
  <2>4. \A k \in Lcores : k # l => latency_file'[CpuOf[k]] = latency_file[CpuOf[k]]
    BY <1>c, <2>1, <2>2
  <2>5. phase' = [phase EXCEPT ![l] = phase'[l]] /\ thp_file' = thp_file
    BY <2>1, <2>2
  <2> QED
    BY <1>5, <2>1, <2>3, <2>4, <2>5
<1>8. ASSUME NEW l \in Lcores, WriteThroughput(l) PROVE Filing'
  <2>1. /\ phase[l] = "throughput" /\ phase' = [phase EXCEPT ![l] = "done"]
        /\ thp_file' = [thp_file EXCEPT ![CpuOf[l]] = <<Line(l)>>]
        /\ UNCHANGED <<mode, sendVars, recvVars, latency_file>>
    BY <1>8 DEF WriteThroughput, File
  <2>2. phase'[l] = "done" /\ thp_file \in [Cpus -> Seq(Lines)] /\ CpuOf[l] \in Cpus
    BY <1>t, <1>c, <2>1 DEF TypeOK
  <2>3. ASSUME Reporter # {} PROVE Filed(l)'
    <3>1. \/ latency_file[CpuOf[l]] = latencies[l]
          \/ latency_file[CpuOf[l]] = Left(CpuOf[l])
      BY <2>1, <2>3 DEF Filing, Filed
    <3>2. /\ Left(CpuOf[l])' = Left(CpuOf[l])
          /\ latencies'[l] = latencies[l] /\ latency_file' = latency_file
      BY <2>1 DEF Left, recvVars
    <3>3. RepliesKept(l) /\ RequestsKept(l)
      BY <2>1 DEF RepliesKept, RequestsKept, recvVars, sendVars
    <3>4. Line(l)' = Line(l)
      BY <2>1, <3>3, LineKept
    <3>5. thp_file'[CpuOf[l]] = <<Line(l)>>
      BY <2>1, <2>2
    <3> HIDE DEF Left
    <3> QED
      BY <2>2, <3>1, <3>2, <3>4, <3>5 DEF Filed
  <2>4. \A k \in Lcores : k # l => thp_file'[CpuOf[k]] = thp_file[CpuOf[k]]
    BY <1>c, <2>1, <2>2
  <2>5. phase' = [phase EXCEPT ![l] = phase'[l]] /\ latency_file' = latency_file
    BY <2>1, <2>2
  <2> QED
    BY <1>5, <2>1, <2>3, <2>4, <2>5
<1>9. ASSUME NEW l \in Lcores, OpenFails(l) PROVE Filing'
  BY <1>9, <1>t, QuietFiling DEF OpenFails, sendVars
<1>10. ASSUME NEW m \in network, Lose(m) \/ Duplicate(m) PROVE Filing'
  BY <1>10, <1>t, QuietFiling DEF Lose, Duplicate, lifeVars, sendVars
<1>11. CASE Tick \/ UNCHANGED vars
  BY <1>11, <1>t, QuietFiling DEF Tick, vars, lifeVars, sendVars
<1> QED
  BY <1>1, <1>3, <1>4, <1>6, <1>7, <1>8, <1>9, <1>10, <1>11 DEF Next, LcoreStep, Ended

\* The files of every lcore, once all are done.
LEMMA FilingAgrees ==
  ASSUME TypeOK, Filing
  PROVE  FilesAgree
<1> SUFFICES ASSUME \A l \in Lcores : phase[l] = "done", Reporter # {}, NEW l \in Lcores
             PROVE  /\ thp_file[CpuOf[l]] = <<Line(l)>>
                    /\ Reporter = {"synthetic"} => Line(l).rx = Line(l).rx_1 + Line(l).rx_2
                    /\ \/ /\ Len(latency_file[CpuOf[l]]) = Min2(Line(l).rx, MaxRecords)
                          /\ \A i \in DOMAIN latency_file[CpuOf[l]] :
                               latency_file[CpuOf[l]][i].by = l
                       \/ latency_file[CpuOf[l]] = Left(CpuOf[l])
  BY DEF FilesAgree, Left
<1>1. Counted(l) /\ Filed(l) /\ phase[l] = "done"
  BY DEF Filing
<1>2. PICK k \in Reporter :
        Line(l) = [by |-> l, rx |-> nr_rx[k][l], rx_1 |-> nr_rx_1[l], rx_2 |-> nr_rx_2[l],
                   tx |-> nr_tx[k][l]]
  BY LineFacts
<1>3. Line(l).rx = nr_rx[k][l] /\ Line(l).rx_1 = nr_rx_1[l] /\ Line(l).rx_2 = nr_rx_2[l]
  BY <1>2
<1> QED
  BY <1>1, <1>3 DEF Counted, Filed

\* A run that ends normally leaves a throughput file of every lcore that reports, which agrees
\* with its counters, and a latency file that agrees with both, or what was there before if
\* that could not be opened, although the lcores write their files at the same time.
THEOREM FilesCorrect == Spec => []FilesAgree
<1>1. Spec => []TypeInv
  BY InitTypeInv, NextTypeInv, PTL DEF Spec
<1>2. Spec => []Filing
  BY <1>1, InitFiling, NextFiling, PTL DEF Spec
<1>3. TypeInv /\ Filing => FilesAgree
  BY FilingAgrees DEF TypeInv
<1> QED
  BY <1>1, <1>2, <1>3, PTL

-----------------------------------------------------------------------------
(* Totals. *)

\* The lcores that keep a balance: all of them together, and each one if replies come to it.
Scopes == {Lcores} \cup IF Steered THEN {{l} : l \in Lcores} ELSE {}

Under(L) == {m \in network : m.lcore \in L}

\* A message on its way is older than the next request of its client.
Fresh == \A m \in network : m.seq < sent[m.lcore][m.client]

Balancing == Fresh /\ IsFiniteSet(network) /\ \A k \in Reporter : \A L \in Scopes : Balanced(k, L)

\* A counter g that is one more than f at an lcore.
OneMore(g, f, l) == \A x \in Lcores : g[x] = IF x = l THEN f[x] + 1 ELSE f[x]

\* What an lcore in the scope adds to a total.
Part(l, L) == IF l \in L THEN 1 ELSE 0

\* Each scope is a finite set of lcores.
LEMMA ScopeFacts ==
  ASSUME NEW L \in Scopes
  PROVE  L \subseteq Lcores /\ IsFiniteSet(L)
<1>1. L \subseteq Lcores
  BY DEF Scopes
<1> QED
  BY <1>1, FS_Subset, RoundTripAssumption DEF RoundTripAssumption

\* A count more at one lcore is one more in the total of each set it is in.
LEMMA TotalBumped ==
  ASSUME NEW f \in [Lcores -> Nat], NEW l \in Lcores, NEW L \in Scopes,
         NEW g, OneMore(g, f, l)
  PROVE  Total(g, L) = Total(f, L) + Part(l, L)
<1>1. L \subseteq Lcores /\ IsFiniteSet(L)
  BY ScopeFacts
<1>2. \A y \in L : f[y] \in Nat /\ g[y] \in Nat /\ (y # l => g[y] = f[y])
  BY <1>1 DEF OneMore
<1>3. f[l] \in Nat /\ g[l] = f[l] + 1
  BY DEF OneMore
<1>4. SumFunctionOnSet(f, L) \in Nat /\ SumFunctionOnSet(g, L) \in Nat
  BY <1>1, <1>2, SumType
<1>5. CASE l \in L
  <2>1. SumFunctionOnSet(g, L) + f[l] = SumFunctionOnSet(f, L) + g[l]
    BY <1>1, <1>2, <1>5, SumUpdate
  <2> QED
    BY <1>3, <1>4, <1>5, <2>1 DEF Total, Part
<1>6. CASE l \notin L
  <2>1. SumFunctionOnSet(g, L) = SumFunctionOnSet(f, L)
    BY <1>1, <1>2, <1>6, SumSame
  <2> QED
    BY <1>4, <1>6, <2>1 DEF Total, Part
<1> QED
  BY <1>5, <1>6

\* The totals of the counters, whatever they are.
LEMMA TotalTypes ==
  ASSUME TypeOK, NEW L \in Scopes, NEW k \in Reporter
  PROVE  /\ Total(nr_tx[k], L) \in Nat /\ Total(nr_rx[k], L) \in Nat
         /\ Total(copies, L) \in Nat /\ Total(strays, L) \in Nat /\ Total(lost, L) \in Nat
<1>1. L \subseteq Lcores /\ IsFiniteSet(L)
  BY ScopeFacts
<1>2. ASSUME NEW f \in [Lcores -> Nat] PROVE Total(f, L) \in Nat
  <2>1. \A x \in L : f[x] \in Nat
    BY <1>1
  <2> QED
    BY <1>1, <2>1, SumType DEF Total
<1>3. nr_tx[k] \in [Lcores -> Nat] /\ nr_rx[k] \in [Lcores -> Nat]
  BY KeeperFacts DEF TypeOK
<1> QED
  BY <1>2, <1>3, CounterTypes

\* One message more on its way.
LEMMA MessageAdded ==
  ASSUME NEW L, NEW m, m \notin network, IsFiniteSet(network), network' = network \cup {m}
  PROVE  /\ IsFiniteSet(network')
         /\ Cardinality(Under(L)') = Cardinality(Under(L)) + Part(m.lcore, L)
         /\ Cardinality(Under(L)) \in Nat
<1>1. IsFiniteSet(Under(L)) /\ m \notin Under(L)
  BY FS_Subset DEF Under
<1>2. Cardinality(Under(L)) \in Nat
  BY <1>1, FS_CardinalityType
<1>3. Cardinality(Under(L) \cup {m}) = Cardinality(Under(L)) + 1
  BY <1>1, FS_AddElement
<1>4. Under(L)' = IF m.lcore \in L THEN Under(L) \cup {m} ELSE Under(L)
  BY DEF Under
<1>5. IsFiniteSet(network')
  BY FS_AddElement
<1> HIDE DEF Under
<1> QED
  BY <1>2, <1>3, <1>4, <1>5 DEF Part

\* One message less.
LEMMA MessageGone ==
  ASSUME NEW L, NEW m \in network, IsFiniteSet(network), network' = network \ {m}
  PROVE  /\ IsFiniteSet(network')
         /\ Cardinality(Under(L)') + Part(m.lcore, L) = Cardinality(Under(L))
         /\ Cardinality(Under(L)') \in Nat
<1>1. IsFiniteSet(Under(L)) /\ (m \in Under(L) <=> m.lcore \in L)
  BY FS_Subset DEF Under
<1>2. Cardinality(Under(L)) \in Nat
  BY <1>1, FS_CardinalityType
<1>3. Under(L)' = Under(L) \ {m}
  BY DEF Under
<1>4. IsFiniteSet(network')
  BY FS_Subset
<1> HIDE DEF Under
<1>5. CASE m.lcore \in L
  <2>1. IsFiniteSet(Under(L) \ {m}) /\ Cardinality(Under(L) \ {m}) = Cardinality(Under(L)) - 1
    BY <1>1, <1>5, FS_RemoveElement
  <2>2. Cardinality(Under(L) \ {m}) \in Nat
    BY <2>1, FS_CardinalityType
  <2> QED
    BY <1>2, <1>3, <1>4, <1>5, <2>1, <2>2 DEF Part
<1>6. CASE m.lcore \notin L
  <2>1. Under(L) \ {m} = Under(L)
    BY <1>1, <1>6
  <2> QED
    BY <1>2, <1>3, <1>4, <1>6, <2>1 DEF Part
<1> QED
  BY <1>5, <1>6

\* The scopes are a matter of the command line.
LEMMA ScopesKept == mode' = mode => Scopes' = Scopes
BY DEF Scopes, Steered

\* A counter as it is counted for those who report.
LEMMA BumpedReporter ==
  ASSUME NEW counter \in [Keepers -> [Lcores -> Nat]], NEW l \in Lcores, NEW K, NEW k \in K,
         k \in Keepers
  PROVE  counter[k] \in [Lcores -> Nat] /\ OneMore(Bumped(counter, l, K)[k], counter[k], l)
BY DEF Bumped, OneMore

\* Steps that leave the counters and the network alone.
LEMMA QuietBalancing ==
  ASSUME Balancing, UNCHANGED <<mode, sent, nr_tx, nr_rx, strays, netVars>>
  PROVE  Balancing'
<1>1. Reporter' = Reporter /\ Scopes' = Scopes
  BY ReporterKept, ScopesKept
<1>2. \A k, L : Balanced(k, L)' <=> Balanced(k, L)
  BY DEF Balanced, Total, netVars
<1>3. Fresh'
  BY DEF Balancing, Fresh, netVars
<1> HIDE DEF Scopes, Balanced
<1> QED
  BY <1>1, <1>2, <1>3 DEF Balancing, netVars

\* Before the first request every total is 0.
LEMMA InitBalancing == Init => Balancing
<1> SUFFICES ASSUME Init PROVE Balancing
  OBVIOUS
<1>1. network = {} /\ Fresh /\ IsFiniteSet(network)
  BY FS_EmptySet DEF Init, Fresh
<1>2. ASSUME NEW k \in Reporter, NEW L \in Scopes PROVE Balanced(k, L)
  <2>1. L \subseteq Lcores /\ IsFiniteSet(L) /\ k \in Keepers
    BY ScopeFacts, KeeperFacts
  <2> DEFINE none == [l \in Lcores |-> 0]
  <2>2. nr_tx[k] = none /\ nr_rx[k] = none /\ copies = none /\ strays = none /\ lost = none
    BY <2>1 DEF Init
  <2>3. \A x \in L : none[x] \in Nat
    BY <2>1
  <2> HIDE DEF none
  <2>4. Total(none, L) \in Nat
    BY <2>1, <2>3, SumType DEF Total
  <2>5. Total(none, L) = 0
    <3>1. \A x \in L : none[x] \in 0 .. 0
      BY <2>1 DEF none
    <3>2. Total(none, L) <= Cardinality(L) * 0
      BY <2>1, <3>1, SumBound DEF Total
    <3>3. Cardinality(L) \in Nat
      BY <2>1, FS_CardinalityType
    <3>4. Cardinality(L) * 0 = 0
      BY <3>3
    <3> QED
      BY <2>4, <3>2, <3>4
  <2>6. Cardinality({m \in network : m.lcore \in L}) = 0
    <3>1. {m \in network : m.lcore \in L} = {}
      BY <1>1
    <3> QED
      BY <3>1, FS_EmptySet
  <2> QED
    BY <2>2, <2>5, <2>6 DEF Balanced
<1> QED
  BY <1>1, <1>2 DEF Balancing

\* A request is counted by who reports, and on its way.
LEMMA SendBalancing ==
  ASSUME TypeOK, Balancing, NEW l \in Lcores, NEW c \in Clients, Send(l, c)
  PROVE  Balancing'
<1> DEFINE m == [lcore |-> l, client |-> c, seq |-> sent[l][c], copy |-> 0,
                 client_id |-> ClientId(l), req_id |-> req_id[l][c], send |-> clock]
<1>1. /\ network' = network \cup {m} /\ nr_tx' = Bumped(nr_tx, l, Senders)
      /\ sent' = [sent EXCEPT ![l][c] = @ + 1]
      /\ UNCHANGED <<mode, nr_rx, strays, lost, copies>>
  BY DEF Send, lifeVars, recvVars
<1>2. m.lcore = l /\ m.client = c /\ m.seq = sent[l][c]
  OBVIOUS
<1> HIDE DEF m
<1>3. \A n \in network : n.lcore \in Lcores /\ n.client \in Clients /\ n.seq \in Nat
  BY DEF TypeOK, Messages
<1>4. sent[l][c] \in Nat /\ \A k \in Lcores : \A d \in Clients : sent[k][d] \in Nat
  BY DEF TypeOK
<1>5. \A k \in Lcores : \A d \in Clients :
        sent'[k][d] = IF k = l /\ d = c THEN sent[k][d] + 1 ELSE sent[k][d]
  BY <1>1 DEF TypeOK
<1>6. m \notin network
  BY <1>2, <1>4 DEF Balancing, Fresh
<1>7. Fresh'
  BY <1>1, <1>2, <1>3, <1>4, <1>5 DEF Balancing, Fresh
<1>8. IsFiniteSet(network')
  BY <1>1, FS_AddElement DEF Balancing
<1>9. Reporter' = Reporter /\ Scopes' = Scopes
  BY <1>1, ReporterKept, ScopesKept
<1>10. ASSUME NEW k \in Reporter, NEW L \in Scopes PROVE Balanced(k, L)'
  <2>1. k \in Keepers /\ k \in Senders /\ nr_tx \in [Keepers -> [Lcores -> Nat]]
    BY KeeperFacts DEF TypeOK, Reporter, Senders
  <2>2. nr_tx[k] \in [Lcores -> Nat] /\ OneMore(nr_tx'[k], nr_tx[k], l)
    BY <1>1, <2>1, BumpedReporter
  <2>3. Total(nr_tx'[k], L) = Total(nr_tx[k], L) + Part(l, L)
    BY <2>2, TotalBumped
  <2>4. Cardinality(Under(L)') = Cardinality(Under(L)) + Part(l, L) /\ Cardinality(Under(L)) \in Nat
    BY <1>1, <1>2, <1>6, MessageAdded DEF Balancing
  <2>5. Total(nr_tx[k], L) + Total(copies, L) + Total(strays, L) =
          Total(nr_rx[k], L) + Total(lost, L) + Cardinality(Under(L))
    BY DEF Balancing, Balanced, Under
  <2>6. Part(l, L) \in Nat
    BY DEF Part
  <2>7. Total(nr_tx'[k], L) + Total(copies, L) + Total(strays, L) =
          Total(nr_rx[k], L) + Total(lost, L) + Cardinality(Under(L)')
    BY <2>3, <2>4, <2>5, <2>6, TotalTypes
  <2> QED
    BY <1>1, <2>7 DEF Balanced, Under, Total
<1> QED
  BY <1>7, <1>8, <1>9, <1>10 DEF Balancing

\* A reply is counted by who reports, and off its way: at the lcore it belongs to, or in
\* the total of all lcores only.
LEMMA ReceiveBalancing ==
  ASSUME TypeOK, Balancing, NEW l \in Lcores, NEW m \in network, Receive(l, m)
  PROVE  Balancing'
<1>1. /\ network' = network \ {m} /\ nr_rx' = Bumped(nr_rx, l, Reporter)
      /\ Steered => m.lcore = l
      /\ UNCHANGED <<mode, sent, nr_tx, strays, lost, copies>>
  BY DEF Receive, Record, lifeVars, sendVars
<1>2. m.lcore \in Lcores
  BY DEF TypeOK, Messages
<1>3. Fresh'
  BY <1>1 DEF Balancing, Fresh
<1>4. IsFiniteSet(network')
  BY <1>1, FS_Subset DEF Balancing
<1>5. Reporter' = Reporter /\ Scopes' = Scopes
  BY <1>1, ReporterKept, ScopesKept
<1>6. ASSUME NEW k \in Reporter, NEW L \in Scopes PROVE Balanced(k, L)'
  <2>1. k \in Keepers /\ nr_rx \in [Keepers -> [Lcores -> Nat]]
    BY KeeperFacts DEF TypeOK
  <2>2. nr_rx[k] \in [Lcores -> Nat] /\ OneMore(nr_rx'[k], nr_rx[k], l)
    BY <1>1, <2>1, BumpedReporter
  <2>3. Total(nr_rx'[k], L) = Total(nr_rx[k], L) + Part(l, L)
    BY <2>2, TotalBumped
  <2>4. Cardinality(Under(L)') + Part(m.lcore, L) = Cardinality(Under(L))
        /\ Cardinality(Under(L)') \in Nat
    BY <1>1, MessageGone DEF Balancing
  <2>5. Part(m.lcore, L) = Part(l, L) /\ Part(l, L) \in Nat
    BY <1>1, <1>2 DEF Scopes, Part
  <2>6. Total(nr_tx[k], L) + Total(copies, L) + Total(strays, L) =
          Total(nr_rx[k], L) + Total(lost, L) + Cardinality(Under(L))
    BY DEF Balancing, Balanced, Under
  <2>7. Total(nr_tx[k], L) + Total(copies, L) + Total(strays, L) =
          Total(nr_rx'[k], L) + Total(lost, L) + Cardinality(Under(L)')
    BY <2>3, <2>4, <2>5, <2>6, TotalTypes
  <2> QED
    BY <1>1, <2>7 DEF Balanced, Under, Total
<1> QED
  BY <1>3, <1>4, <1>5, <1>6 DEF Balancing

\* A foreign packet is counted by who reports, and as one.
LEMMA StrayBalancing ==
  ASSUME TypeOK, Balancing, NEW l \in Lcores, ReceiveStray(l)
  PROVE  Balancing'
<1>1. /\ strays' = [strays EXCEPT ![l] = @ + 1] /\ nr_rx' = Bumped(nr_rx, l, Reporter)
      /\ UNCHANGED <<mode, sent, nr_tx, network, lost, copies>>
  BY DEF ReceiveStray, Record, lifeVars, sendVars, netVars
<1>2. Fresh' /\ IsFiniteSet(network')
  BY <1>1 DEF Balancing, Fresh
<1>3. Reporter' = Reporter /\ Scopes' = Scopes
  BY <1>1, ReporterKept, ScopesKept
<1>4. ASSUME NEW k \in Reporter, NEW L \in Scopes PROVE Balanced(k, L)'
  <2>1. /\ k \in Keepers /\ nr_rx \in [Keepers -> [Lcores -> Nat]]
        /\ strays \in [Lcores -> Nat]
    BY KeeperFacts, CounterTypes DEF TypeOK
  <2>2. nr_rx[k] \in [Lcores -> Nat] /\ OneMore(nr_rx'[k], nr_rx[k], l)
    BY <1>1, <2>1, BumpedReporter
  <2>3. Total(nr_rx'[k], L) = Total(nr_rx[k], L) + Part(l, L)
    BY <2>2, TotalBumped
  <2>s. Total(strays', L) = Total(strays, L) + Part(l, L)
    <3>1. OneMore(strays', strays, l)
      BY <1>1, <2>1 DEF OneMore
    <3> QED
      BY <2>1, <3>1, TotalBumped
  <2>4. Total(nr_tx[k], L) + Total(copies, L) + Total(strays, L) =
          Total(nr_rx[k], L) + Total(lost, L) + Cardinality(Under(L))
    BY DEF Balancing, Balanced, Under
  <2>5. Part(l, L) \in Nat /\ Cardinality(Under(L)) \in Nat
    <3>1. IsFiniteSet(Under(L))
      BY FS_Subset DEF Balancing, Under
    <3> QED
      BY <3>1, FS_CardinalityType DEF Part
  <2>6. Total(nr_tx[k], L) + Total(copies, L) + Total(strays', L) =
          Total(nr_rx'[k], L) + Total(lost, L) + Cardinality(Under(L))
    BY <2>3, <2>s, <2>4, <2>5, TotalTypes
  <2> QED
    BY <1>1, <2>6 DEF Balanced, Under, Total
<1> QED
  BY <1>2, <1>3, <1>4 DEF Balancing

\* A message that is lost is counted as one.
LEMMA LoseBalancing ==
  ASSUME TypeOK, Balancing, NEW m \in network, Lose(m)
  PROVE  Balancing'
<1>1. /\ network' = network \ {m} /\ lost' = [lost EXCEPT ![m.lcore] = @ + 1]
      /\ UNCHANGED <<mode, sent, nr_tx, nr_rx, strays, copies>>
  BY DEF Lose, lifeVars, sendVars, recvVars
<1>2. m.lcore \in Lcores /\ lost \in [Lcores -> Nat]
  BY CounterTypes DEF TypeOK, Messages
<1>3. Fresh'
  BY <1>1 DEF Balancing, Fresh
<1>4. IsFiniteSet(network')
  BY <1>1, FS_Subset DEF Balancing
<1>5. Reporter' = Reporter /\ Scopes' = Scopes
  BY <1>1, ReporterKept, ScopesKept
<1>6. ASSUME NEW k \in Reporter, NEW L \in Scopes PROVE Balanced(k, L)'
  <2>1. Total(lost', L) = Total(lost, L) + Part(m.lcore, L)
    <3>1. OneMore(lost', lost, m.lcore)
      BY <1>1, <1>2 DEF OneMore
    <3> QED
      BY <1>2, <3>1, TotalBumped
  <2>2. Cardinality(Under(L)') + Part(m.lcore, L) = Cardinality(Under(L))
        /\ Cardinality(Under(L)') \in Nat
    BY <1>1, MessageGone DEF Balancing
  <2>3. Total(nr_tx[k], L) + Total(copies, L) + Total(strays, L) =
          Total(nr_rx[k], L) + Total(lost, L) + Cardinality(Under(L))
    BY DEF Balancing, Balanced, Under
  <2>4. Part(m.lcore, L) \in Nat
    BY DEF Part
  <2>5. Total(nr_tx[k], L) + Total(copies, L) + Total(strays, L) =
          Total(nr_rx[k], L) + Total(lost', L) + Cardinality(Under(L)')
    BY <2>1, <2>2, <2>3, <2>4, TotalTypes
  <2> QED
    BY <1>1, <2>5 DEF Balanced, Under, Total
<1> QED
  BY <1>3, <1>4, <1>5, <1>6 DEF Balancing

\* A copy is counted as one, and on its way.
LEMMA DuplicateBalancing ==
  ASSUME TypeOK, Balancing, NEW m \in network, Duplicate(m)
  PROVE  Balancing'
<1> DEFINE n == [m EXCEPT !.copy = 1]
<1>1. /\ network' = network \cup {n} /\ n \notin network
      /\ copies' = [copies EXCEPT ![m.lcore] = @ + 1]
      /\ UNCHANGED <<mode, sent, nr_tx, nr_rx, strays, lost>>
  BY DEF Duplicate, lifeVars, sendVars, recvVars
<1>2. /\ m.lcore \in Lcores /\ copies \in [Lcores -> Nat]
      /\ n.lcore = m.lcore /\ n.client = m.client /\ n.seq = m.seq
  BY CounterTypes DEF TypeOK, Messages
<1> HIDE DEF n
<1>3. Fresh'
  BY <1>1, <1>2 DEF Balancing, Fresh
<1>4. IsFiniteSet(network')
  BY <1>1, FS_AddElement DEF Balancing
<1>5. Reporter' = Reporter /\ Scopes' = Scopes
  BY <1>1, ReporterKept, ScopesKept
<1>6. ASSUME NEW k \in Reporter, NEW L \in Scopes PROVE Balanced(k, L)'
  <2>1. Total(copies', L) = Total(copies, L) + Part(m.lcore, L)
    <3>1. OneMore(copies', copies, m.lcore)
      BY <1>1, <1>2 DEF OneMore
    <3> QED
      BY <1>2, <3>1, TotalBumped
  <2>2. Cardinality(Under(L)') = Cardinality(Under(L)) + Part(m.lcore, L)
        /\ Cardinality(Under(L)) \in Nat
    BY <1>1, <1>2, MessageAdded DEF Balancing
  <2>3. Total(nr_tx[k], L) + Total(copies, L) + Total(strays, L) =
          Total(nr_rx[k], L) + Total(lost, L) + Cardinality(Under(L))
    BY DEF Balancing, Balanced, Under
  <2>4. Part(m.lcore, L) \in Nat
    BY DEF Part
  <2>5. Total(nr_tx[k], L) + Total(copies', L) + Total(strays, L) =
          Total(nr_rx[k], L) + Total(lost, L) + Cardinality(Under(L)')
    BY <2>1, <2>2, <2>3, <2>4, TotalTypes
  <2> QED
    BY <1>1, <2>5 DEF Balanced, Under, Total
<1> QED
  BY <1>3, <1>4, <1>5, <1>6 DEF Balancing

\* Every step keeps the balances.
LEMMA NextBalancing == TypeInv /\ Balancing /\ [Next]_vars => Balancing'
<1> SUFFICES ASSUME TypeInv, Balancing, [Next]_vars PROVE Balancing'
  OBVIOUS
<1>t. TypeOK
  BY DEF TypeInv
<1>1. ASSUME NEW l \in Lcores, LcoreStep(l) PROVE Balancing'
  <2>1. CASE EndRun(l) \/ WriteLatencies(l) \/ WriteThroughput(l) \/ OpenFails(l)
    <3>1. UNCHANGED <<mode, sent, nr_tx, nr_rx, strays, netVars>>
      BY <2>1 DEF EndRun, WriteLatencies, WriteThroughput, OpenFails, sendVars, recvVars
    <3> QED
      BY <3>1, QuietBalancing
  <2> QED
    BY <1>1, <1>t, <2>1, SendBalancing, ReceiveBalancing, StrayBalancing DEF LcoreStep
<1>2. ASSUME NEW m \in network, Lose(m) \/ Duplicate(m) PROVE Balancing'
  BY <1>2, <1>t, LoseBalancing, DuplicateBalancing
<1>3. CASE Tick \/ UNCHANGED vars
  <2>1. UNCHANGED <<mode, sent, nr_tx, nr_rx, strays, netVars>>
    BY <1>3 DEF Tick, vars, lifeVars, sendVars, recvVars
  <2> QED
    BY <2>1, QuietBalancing
<1> QED
  BY <1>1, <1>2, <1>3 DEF Next, Ended

\* The counters of who reports never drift from what the network has done, whatever it
\* loses, delays, copies and reorders: for each lcore when replies are steered, and for all
\* of them together when they are not.
THEOREM TotalsCorrect == Spec => []TotalsBalance
<1>1. Spec => []TypeInv
  BY InitTypeInv, NextTypeInv, PTL DEF Spec
<1>2. Spec => []Balancing
  BY <1>1, InitBalancing, NextBalancing, PTL DEF Spec
<1>3. Balancing => TotalsBalance
  BY DEF Balancing, TotalsBalance, Scopes
<1> QED
  BY <1>2, <1>3, PTL

-----------------------------------------------------------------------------
(* The analysis. *)

\* The CPUs this run reports on.
Used == IF Reporter = {} THEN {} ELSE {CpuOf[l] : l \in Lcores}

\* The throughput files of all others are as they were.
OthersLeft ==
  \A cpu \in Cpus \ Used :
    thp_file[cpu] = <<>> \/ (cpu \in Old /\ thp_file[cpu] = <<OldLine>>)

\* At most one reports: its counters are those of the line.
LEMMA OneReporter == \A j, k \in Reporter : j = k
BY DEF Reporter, ClientKeeps, WorkloadKeeps, PassesOn, Client, Workload, Keepers

\* Lcores write to the files of their own CPUs.
LEMMA NextOthersLeft == TypeInv /\ OthersLeft /\ [Next]_vars => OthersLeft'
<1> SUFFICES ASSUME TypeInv, OthersLeft, [Next]_vars PROVE OthersLeft'
  OBVIOUS
<1>1. ASSUME NEW l \in Lcores, WriteThroughput(l) PROVE OthersLeft'
  <2>1. thp_file' = [thp_file EXCEPT ![CpuOf[l]] = <<Line(l)>>] /\ mode' = mode
    BY <1>1 DEF WriteThroughput, File
  <2>2. Used' = Used
    BY <2>1, ReporterKept DEF Used
  <2>3. CpuOf[l] \in Used
    BY <1>1 DEF WriteThroughput, TypeInv, Reporting, Used
  <2>4. \A cpu \in Cpus \ Used : thp_file'[cpu] = thp_file[cpu]
    BY <2>1, <2>3
  <2> QED
    BY <2>2, <2>4 DEF OthersLeft
<1>2. ASSUME UNCHANGED <<mode, thp_file>> PROVE OthersLeft'
  <2>1. Used' = Used
    BY <1>2, ReporterKept DEF Used
  <2> QED
    BY <1>2, <2>1 DEF OthersLeft
<1>3. ASSUME NEW l \in Lcores, LcoreStep(l) PROVE WriteThroughput(l) \/ UNCHANGED <<mode, thp_file>>
  BY <1>3 DEF LcoreStep, Send, Receive, ReceiveStray, EndRun, WriteLatencies, OpenFails, fileVars,
              lifeVars
<1>4. ASSUME NEW m \in network, Lose(m) \/ Duplicate(m) PROVE UNCHANGED <<mode, thp_file>>
  BY <1>4 DEF Lose, Duplicate, fileVars, lifeVars
<1>5. Tick \/ UNCHANGED vars => UNCHANGED <<mode, thp_file>>
  BY DEF Tick, vars, fileVars, lifeVars
<1> QED
  BY <1>1, <1>2, <1>3, <1>4, <1>5 DEF Next, Ended

\* A rate is a number.
LEMMA RateType ==
  ASSUME NEW line, line.rx \in Nat, line.by \in Lcores \cup {Earlier}
  PROVE  Rate(line) \in Nat
<1>1. PICK d \in Nat \ {0} : d = Duration[line.by]
  BY RoundTripAssumption DEF RoundTripAssumption
<1>2. PICK a \in Nat : a = 10000 * line.rx + d \div 2
  OBVIOUS
<1>3. PICK q \in Int, r \in 0 .. d - 1 : q = a \div d /\ a = d * q + r
  <2>1. a \div d \in Int /\ a % d \in 0 .. d - 1 /\ a = d * (a \div d) + (a % d)
    BY DivMod
  <2> QED
    BY <2>1
<1>4. q >= 0
  <2>1. SUFFICES ASSUME q <= -1 PROVE FALSE
    BY <1>3
  <2>2. d * q <= -d
    BY <1>1, <1>3, <2>1
  <2> QED
    BY <1>1, <1>2, <1>3, <2>2
<1> QED
  BY <1>1, <1>2, <1>3, <1>4 DEF Rate

\* The throughput files there are once all lcores are done: one line of each lcore that
\* reports, and those left on other CPUs.
LEMMA FilesAtEnd ==
  ASSUME TypeOK, Filing, OthersLeft, \A l \in Lcores : phase[l] = "done",
         NEW left, left = {c \in CatOf(thp_file) : thp_file[c][1].by = Earlier}
  PROVE  /\ Reporter # {} => \A l \in Lcores :
              /\ thp_file[CpuOf[l]] = <<Line(l)>>
              /\ Line(l).by = l /\ Line(l).rx \in Nat
         /\ \A c \in left : c \in Old /\ thp_file[c] = <<OldLine>>
         /\ CatOf(thp_file) = Used \cup left /\ Used \cap left = {}
<1>1. /\ CpuOf \in [Lcores -> Cpus] /\ Lcores \subseteq Nat
      /\ Used \subseteq Cpus
  BY RoundTripAssumption DEF RoundTripAssumption, Used
<1>2. ASSUME Reporter # {}, NEW l \in Lcores
      PROVE  /\ thp_file[CpuOf[l]] = <<Line(l)>>
             /\ Line(l).by = l /\ Line(l).rx \in Nat
  <2>1. PICK k \in Reporter :
          Line(l) = [by |-> l, rx |-> nr_rx[k][l], rx_1 |-> nr_rx_1[l], rx_2 |-> nr_rx_2[l],
                     tx |-> nr_tx[k][l]]
    BY <1>2, LineFacts
  <2>2. nr_rx[k][l] \in Nat
    BY KeeperFacts DEF TypeOK
  <2> QED
    BY <1>2, <2>1, <2>2 DEF Filing, Filed
<1>3. \A c \in Used : c \in CatOf(thp_file) /\ thp_file[c][1].by # Earlier
  <2> TAKE c \in Used
  <2>1. PICK l \in Lcores : c = CpuOf[l] /\ Reporter # {}
    BY DEF Used
  <2>2. thp_file[c] = <<Line(l)>> /\ thp_file[c][1] = Line(l) /\ Line(l).by = l
    BY <1>2, <2>1
  <2>3. l # Earlier
    BY <1>1 DEF Earlier
  <2> QED
    BY <1>1, <2>2, <2>3 DEF CatOf
<1>4. \A c \in CatOf(thp_file) \ Used :
        c \in Old /\ thp_file[c] = <<OldLine>> /\ thp_file[c][1].by = Earlier
  BY DEF CatOf, OthersLeft, OldLine
<1> QED
  BY <1>2, <1>3, <1>4

\* Such files give the scripts at least two lines, or lines of one client only, exactly
\* if the lcores that report and the lines left do.
LEMMA LinesAtEnd ==
  ASSUME TypeOK, Filing, OthersLeft, \A l \in Lcores : phase[l] = "done", Lcores # {},
         NEW left, left = {c \in CatOf(thp_file) : thp_file[c][1].by = Earlier},
         NEW reporting, reporting = IF Reporter = {} THEN {} ELSE Lcores
  PROVE  /\ Several(LinesIn(thp_file)) <=>
              Several(reporting) \/ Several(left) \/ (reporting # {} /\ left # {})
         /\ KeepersIn(thp_file) = Reporter \cup {OldKeeper[c] : c \in left}
<1> DEFINE Cat == CatOf(thp_file)
<1>1. /\ CpuOf \in [Lcores -> Cpus]
      /\ \A l, j \in Lcores : CpuOf[l] = CpuOf[j] => l = j
  BY RoundTripAssumption DEF RoundTripAssumption
<1>2. /\ Reporter # {} => \A l \in Lcores : thp_file[CpuOf[l]] = <<Line(l)>> /\ Line(l).by = l
      /\ \A c \in left : c \in Old /\ thp_file[c] = <<OldLine>>
      /\ Cat = Used \cup left /\ Used \cap left = {}
  BY FilesAtEnd
<1>3. Used = {CpuOf[l] : l \in reporting}
  BY DEF Used
<1>4. \A c \in Used : \E l \in Lcores : c = CpuOf[l] /\ thp_file[c] = <<Line(l)>>
  BY <1>2 DEF Used
<1>5. \A c \in Cat : DOMAIN thp_file[c] = {1}
  <2>1. \A x : DOMAIN <<x>> = {1}
    OBVIOUS
  <2> QED
    BY <1>2, <1>4, <2>1
<1>6. LinesIn(thp_file) = {<<c, 1>> : c \in Cat}
  <2>1. Cat \subseteq Cpus /\ \A c \in Cpus \ Cat : DOMAIN thp_file[c] = {}
    BY DEF CatOf
  <2> QED
    BY <1>5, <2>1 DEF LinesIn
<1>7. Several(LinesIn(thp_file)) <=> Several(Cat)
  <2>1. \A x, y \in Cat : x # y => <<x, 1>> # <<y, 1>>
    OBVIOUS
  <2>2. \A x, y \in LinesIn(thp_file) : x # y =>
          \E c, d \in Cat : x = <<c, 1>> /\ y = <<d, 1>> /\ c # d
    BY <1>6
  <2>3. \A c \in Cat : <<c, 1>> \in LinesIn(thp_file)
    BY <1>6
  <2> HIDE DEF Cat
  <2>4. ASSUME Several(LinesIn(thp_file)) PROVE Several(Cat)
    BY <2>2, <2>4 DEF Several
  <2>5. ASSUME Several(Cat) PROVE Several(LinesIn(thp_file))
    <3>1. PICK c \in Cat, d \in Cat : c # d
      BY <2>5 DEF Several
    <3>2. <<c, 1>> \in LinesIn(thp_file) /\ <<d, 1>> \in LinesIn(thp_file) /\ <<c, 1>> # <<d, 1>>
      BY <2>1, <2>3, <3>1
    <3> QED
      BY <3>2 DEF Several
  <2> QED
    BY <2>4, <2>5
<1>8. Several(Used) <=> Several(reporting)
  <2>1. reporting \subseteq Lcores
    OBVIOUS
  <2>2. \A x, y \in Used : x # y =>
          \E l, j \in reporting : x = CpuOf[l] /\ y = CpuOf[j] /\ l # j
    BY <1>3
  <2>3. \A l, j \in reporting : l # j =>
          CpuOf[l] \in Used /\ CpuOf[j] \in Used /\ CpuOf[l] # CpuOf[j]
    BY <1>1, <1>3, <2>1
  <2> QED
    BY <2>2, <2>3 DEF Several
<1>9. Several(Cat) <=> Several(reporting) \/ Several(left) \/ (reporting # {} /\ left # {})
  <2>1. Used # {} <=> reporting # {}
    BY <1>3
  <2>2. Several(Cat) <=> Several(Used) \/ Several(left) \/ (Used # {} /\ left # {})
    BY <1>2 DEF Several
  <2> QED
    BY <1>8, <2>1, <2>2
<1>10. KeepersIn(thp_file) = {KeeperOf(c, thp_file[c][1].by) : c \in Cat}
  <2> HIDE DEF Cat
  <2> DEFINE keeper(c, i) == KeeperOf(c, thp_file[c][i].by)
  <2>1. KeepersIn(thp_file) = {keeper(x[1], x[2]) : x \in {<<c, 1>> : c \in Cat}}
    BY <1>6 DEF KeepersIn
  <2> HIDE DEF keeper
  <2>2. {keeper(x[1], x[2]) : x \in {<<c, 1>> : c \in Cat}} = {keeper(c, 1) : c \in Cat}
    <3>1. \A c : <<c, 1>>[1] = c /\ <<c, 1>>[2] = 1
      OBVIOUS
    <3>2. \A c : keeper(<<c, 1>>[1], <<c, 1>>[2]) = keeper(c, 1)
      BY <3>1
    <3> QED
      BY <3>2
  <2> QED
    BY <2>1, <2>2 DEF keeper
<1>11. \A c \in left : KeeperOf(c, thp_file[c][1].by) = OldKeeper[c]
  BY DEF KeeperOf
<1>12. \A c \in Used : \A k \in Reporter : KeeperOf(c, thp_file[c][1].by) = k
  <2>1. \A c \in Used : thp_file[c][1].by # Earlier
    BY <1>2
  <2>2. \A k \in Reporter : k = CHOOSE j \in Reporter : TRUE
    BY OneReporter
  <2> QED
    BY <2>1, <2>2 DEF KeeperOf
<1>13. /\ Reporter = {} => Used = {}
       /\ Reporter # {} => Used # {}
  BY DEF Used
<1>14. {KeeperOf(c, thp_file[c][1].by) : c \in Used} = Reporter
  BY <1>12, <1>13, OneReporter
<1> HIDE DEF Cat
<1>15. KeepersIn(thp_file) = Reporter \cup {OldKeeper[c] : c \in left}
  BY <1>2, <1>10, <1>11, <1>14
<1> QED
  BY <1>7, <1>9, <1>15

\* The sum over the lines of all files, once all lcores are done.
LEMMA RatesAtEnd ==
  ASSUME TypeOK, Filing, OthersLeft, \A l \in Lcores : phase[l] = "done",
         NEW left, left = {c \in CatOf(thp_file) : thp_file[c][1].by = Earlier},
         NEW reporting, reporting = IF Reporter = {} THEN {} ELSE Lcores
  PROVE  Total([c \in CatOf(thp_file) |-> Rate(thp_file[c][1])], CatOf(thp_file)) =
           Total([l \in reporting |-> Rate(Line(l))], reporting)
             + Total([c \in left |-> Rate(OldLine)], left)
<1> DEFINE Cat == CatOf(thp_file)
           f == [c \in Cat |-> Rate(thp_file[c][1])]
           g == [l \in reporting |-> Rate(Line(l))]
           h == [c \in left |-> Rate(OldLine)]
<1>1. /\ IsFiniteSet(Lcores) /\ IsFiniteSet(Cpus) /\ CpuOf \in [Lcores -> Cpus]
      /\ \A l, j \in Lcores : CpuOf[l] = CpuOf[j] => l = j
  BY RoundTripAssumption DEF RoundTripAssumption
<1>2. /\ \A l \in reporting : l \in Lcores /\ thp_file[CpuOf[l]][1] = Line(l)
                              /\ Line(l).by = l /\ Line(l).rx \in Nat
      /\ \A c \in left : thp_file[c][1] = OldLine
      /\ Cat = Used \cup left /\ Used \cap left = {}
  <2>1. \A x : <<x>>[1] = x
    OBVIOUS
  <2>2. \A l \in reporting : l \in Lcores /\ Reporter # {}
    OBVIOUS
  <2>3. /\ Reporter # {} => \A l \in Lcores :
              /\ thp_file[CpuOf[l]] = <<Line(l)>>
              /\ Line(l).by = l /\ Line(l).rx \in Nat
        /\ \A c \in left : thp_file[c] = <<OldLine>>
        /\ Cat = Used \cup left /\ Used \cap left = {}
    BY FilesAtEnd
  <2> HIDE DEF Cat
  <2> QED
    BY <2>1, <2>2, <2>3
<1>3. Used = {CpuOf[l] : l \in reporting}
  BY DEF Used
<1>4. /\ \A l \in reporting : g[l] \in Nat /\ f[CpuOf[l]] = g[l]
      /\ \A c \in left : h[c] \in Nat /\ f[c] = h[c]
  <2>1. \A l \in reporting : CpuOf[l] \in Cat
    BY <1>2, <1>3
  <2>2. \A l \in reporting : Rate(Line(l)) \in Nat
    BY <1>2, RateType
  <2>3. Rate(OldLine) \in Nat
    BY RateType DEF OldLine
  <2> QED
    BY <1>2, <2>1, <2>2, <2>3
<1>5. IsFiniteSet(reporting) /\ IsFiniteSet(left) /\ IsFiniteSet(Used)
  <2>1. Cat \subseteq Cpus
    BY DEF CatOf
  <2>2. Used \subseteq Cpus /\ left \subseteq Cpus
    BY <1>2, <2>1
  <2>3. reporting \subseteq Lcores
    OBVIOUS
  <2> QED
    BY <1>1, <2>2, <2>3, FS_Subset
<1> HIDE DEF f, g, h, Cat
<1>6. SumFunctionOnSet(f, Used) = SumFunctionOnSet(g, reporting)
  <2>1. \A l, j \in reporting : CpuOf[l] = CpuOf[j] => l = j
    BY <1>1, <1>2
  <2>2. \A l \in reporting : g[l] \in Nat /\ f[CpuOf[l]] = g[l]
    BY <1>4
  <2>3. IsFiniteSet({CpuOf[l] : l \in reporting})
    BY <1>3, <1>5
  <2>4. IsFiniteSet(reporting)
    BY <1>5
  <2>5. SumFunctionOnSet(f, {CpuOf[l] : l \in reporting}) = SumFunctionOnSet(g, reporting)
    BY <2>1, <2>2, <2>3, <2>4, SumImage
  <2> QED
    BY <1>3, <2>5
<1>7. SumFunctionOnSet(f, left) = SumFunctionOnSet(h, left)
  <2>1. \A c \in left : h[c] \in Nat /\ f[c] = h[c]
    BY <1>4
  <2> QED
    BY <1>5, <2>1, SumSame
<1>8. SumFunctionOnSet(f, Used \cup left) = SumFunctionOnSet(f, Used) + SumFunctionOnSet(f, left)
  <2>1. \A c \in Used \cup left : f[c] \in Nat
    BY <1>3, <1>4
  <2> QED
    BY <1>2, <1>5, <2>1, SumUnion
<1>9. Total(f, Cat) = Total(g, reporting) + Total(h, left)
  BY <1>2, <1>6, <1>7, <1>8 DEF Total
<1> QED
  BY <1>9 DEF f, g, h, Cat

\* What the scripts print as the throughput, if anything: there have to be two lines, all
\* of one client.
LEMMA LeftAnalyses ==
  ASSUME TypeOK, Filing, OthersLeft, Lcores # {}
  PROVE  AnalysisOfThisRun
<1> SUFFICES ASSUME \A l \in Lcores : phase[l] = "done"
             PROVE  AnalysisOfThisRun
  BY DEF AnalysisOfThisRun
<1> DEFINE reporting == IF Reporter = {} THEN {} ELSE Lcores
           left      == {c \in CatOf(thp_file) : thp_file[c][1].by = Earlier}
<1>1. left \subseteq Old \ {CpuOf[l] : l \in reporting}
  <2>1. Used = {CpuOf[l] : l \in reporting}
    BY DEF Used
  <2> QED
    BY <2>1, FilesAtEnd
<1>2. /\ Several(LinesIn(thp_file)) <=>
           Several(reporting) \/ Several(left) \/ (reporting # {} /\ left # {})
      /\ KeepersIn(thp_file) = Reporter \cup {OldKeeper[c] : c \in left}
  <2> HIDE DEF left, reporting
  <2> QED
    BY LinesAtEnd DEF left, reporting
<1>3. Total([c \in CatOf(thp_file) |-> Rate(thp_file[c][1])], CatOf(thp_file)) =
        Total([l \in reporting |-> Rate(Line(l))], reporting)
          + Total([c \in left |-> Rate(OldLine)], left)
  <2> HIDE DEF left, reporting
  <2> QED
    BY RatesAtEnd DEF left, reporting
<1> QED
  BY <1>1, <1>2, <1>3 DEF AnalysisOfThisRun, Analysed, Readable

\* What the scripts print as the throughput is what the lcores of this run have reached
\* and the lines an earlier run has left of other CPUs, and they print none unless these
\* are at least two, of one client, and the latencies can be read.
THEOREM AnalysisCorrect == ASSUME Lcores # {} PROVE Spec => []AnalysisOfThisRun
<1>1. Spec => []TypeInv
  BY InitTypeInv, NextTypeInv, PTL DEF Spec
<1>2. Spec => []Filing
  BY <1>1, InitFiling, NextFiling, PTL DEF Spec
<1>3. Init => OthersLeft
  BY RoundTripAssumption DEF RoundTripAssumption, Init, OthersLeft
<1>4. Spec => []OthersLeft
  BY <1>1, <1>3, NextOthersLeft, PTL DEF Spec
<1>5. TypeInv /\ Filing /\ OthersLeft => AnalysisOfThisRun
  BY LeftAnalyses DEF TypeInv
<1> QED
  BY <1>1, <1>2, <1>4, <1>5, PTL

=============================================================================
