------------------------------ MODULE RoundTrip ------------------------------
(***************************************************************************)
(* The exchange with the server under test, and the report of it: the      *)
(* client modules shinjuku, pkvs and dummy with the statistics they and    *)
(* the synthetic workload keep, the network and the server, which may      *)
(* lose, delay, reorder and duplicate, and the two files each lcore writes *)
(* when its run is over, which the analysis scripts concatenate.           *)
(*                                                                         *)
(* When an lcore sends and reads is the matter of the module Lcore: here   *)
(* it may do either at any time of its run.                                *)
(***************************************************************************)
EXTENDS Integers, Sequences, FiniteSets, Functions

CONSTANTS
  Lcores,      \* lcores that run clients
  NbClient,    \* clients of an lcore, option -f
  Cpus,        \* CPUs a report file can be named after
  Old,         \* those among them an earlier run has left latency files of
  OldThp,      \* sets of those it may have left throughput files of: fewer if it aborted
  OldKeeper,   \* who has kept the statistics it has left
  CpuOf,       \* the CPU the EAL has bound each lcore to
  Modes,       \* client module and workload, and whether replies come to their lcore
  IdWidth,     \* 2^16: the values of struct client's req_id
  TimeWidth,   \* 2^64: the values of a time stamp
  MaxRecords,  \* 131072: latency records of an lcore
  Duration,    \* how long each lcore has run when it writes its report, in microseconds
  MaxRequests, \* bound on the requests of all lcores
  Quota,       \* bound on the requests of each client
  MaxClock,    \* bound on the clock
  MaxFaults    \* bound on the messages lost and duplicated and the foreign packets

Clients  == 0 .. NbClient - 1
Kinds    == {"shinjuku", "pkvs", "dummy"} \X {"synthetic", "rocksdb"} \X BOOLEAN
Keepers  == {"pkvs", "synthetic"}   \* those with counters of their own
Times    == 0 .. TimeWidth - 1
Earlier  == -1   \* the writer of a file of an earlier run

ASSUME RoundTripAssumption ==
  /\ IsFiniteSet(Lcores) /\ Lcores \subseteq Nat
  /\ NbClient \in Nat
  /\ IsFiniteSet(Cpus) /\ Old \subseteq Cpus
  /\ OldThp \subseteq SUBSET Old /\ OldKeeper \in [Old -> Keepers]
  /\ Duration \in [Lcores \cup {Earlier} -> Nat \ {0}]
  /\ CpuOf \in [Lcores -> Cpus]
  /\ \A l, k \in Lcores : CpuOf[l] = CpuOf[k] => l = k
  /\ Modes \subseteq Kinds
  /\ IdWidth \in Nat \ {0} /\ TimeWidth \in Nat \ {0}
  /\ {MaxRecords, MaxRequests, MaxFaults} \subseteq Nat
  /\ Quota \in [Lcores -> [Clients -> Nat]]
  /\ MaxClock \in Times

VARIABLES
  mode,                \* the command line's choice, a member of Modes
  phase, aborted,      \* how far each lcore is; the process has ended by SIGSEGV
  clock,               \* the clock latencies are taken with, never set back
  req_id, sent,        \* of struct client; history: its requests
  nr_tx, nr_rx,        \* counters of each keeper, for each lcore
  nr_rx_1, nr_rx_2,    \* of the synthetic workload: replies to short and long requests
  latencies,           \* the latency records of an lcore
  network,             \* requests and replies under way
  lost, copies,        \* history: messages of each lcore lost and duplicated
  strays,              \* history: foreign packets each lcore has read
  latency_file, thp_file  \* the lines of latency-<cpu>.txt and thp-<cpu>.txt

lifeVars  == <<mode, phase, aborted>>
sendVars  == <<req_id, sent, nr_tx>>
recvVars  == <<nr_rx, nr_rx_1, nr_rx_2, latencies, strays>>
netVars   == <<network, lost, copies>>
fileVars  == <<latency_file, thp_file>>
vars == <<lifeVars, clock, sendVars, recvVars, netVars, fileVars>>

Client   == mode[1]
Workload == mode[2]
Steered  == mode[3]

ClientKeeps   == Keepers \cap {Client}
WorkloadKeeps == Keepers \cap {Workload}   \* the rocksdb workload records nothing

\* Every send asks its workload for a request, and both count it.
Senders == ClientKeeps \cup WorkloadKeeps

\* recv and output of the shinjuku client are those of its workload; the others do
\* not pass them on, and the dummy does nothing.
PassesOn == Client = "shinjuku"
Reporter == ClientKeeps \cup IF PassesOn THEN WorkloadKeeps ELSE {}

Bumped(counter, l, keepers) ==
  [k \in Keepers |-> IF k \in keepers THEN [counter[k] EXCEPT ![l] = @ + 1] ELSE counter[k]]

Total(f, L) == SumFunctionOnSet(f, L)

OldLine    == [by |-> Earlier, rx |-> 1, rx_1 |-> 1, rx_2 |-> 0, tx |-> 1]
OldLatency == [by |-> Earlier, send |-> 0, done |-> 0]

Init ==
  /\ mode \in Modes
  /\ phase = [l \in Lcores |-> "run"] /\ aborted = FALSE
  /\ clock = 0
  /\ req_id = [l \in Lcores |-> [c \in Clients |-> 0]]
  /\ sent = req_id
  /\ nr_tx = [k \in Keepers |-> [l \in Lcores |-> 0]] /\ nr_rx = nr_tx
  /\ nr_rx_1 = [l \in Lcores |-> 0] /\ nr_rx_2 = nr_rx_1
  /\ lost = nr_rx_1 /\ copies = nr_rx_1 /\ strays = nr_rx_1
  /\ latencies = [l \in Lcores |-> <<>>]
  /\ network = {}
  /\ latency_file = [c \in Cpus |-> IF c \in Old THEN <<OldLatency>> ELSE <<>>]
  /\ \E old \in OldThp : thp_file = [c \in Cpus |-> IF c \in old THEN <<OldLine>> ELSE <<>>]

Running(l) == ~aborted /\ phase[l] = "run"
-----------------------------------------------------------------------------
(* The clients. *)

\* The source port of the lcore, the same for all its clients.
ClientId(l) == ((l + 1) * 256) % 65536

\* Mutant of NextId: every request has the same identifier.
SameId(id) == id

NextId(id) == (id + 1) % IdWidth

AllSent == Total([l \in Lcores |-> Total(sent[l], Clients)], Lcores)

\* A client's send, and the request GenerateNextReq builds in it. seq and copy only
\* tell messages apart, no code reads them; the service time is chosen when it counts.
Send(l, c) ==
  /\ Running(l) /\ AllSent < MaxRequests /\ sent[l][c] < Quota[l][c]
  /\ network' = network \cup
       {[lcore |-> l, client |-> c, seq |-> sent[l][c], copy |-> 0,
         client_id |-> ClientId(l), req_id |-> req_id[l][c], send |-> clock]}
  /\ req_id' = [req_id EXCEPT ![l][c] = IF Client = "shinjuku" THEN NextId(@) ELSE @]
  /\ nr_tx' = Bumped(nr_tx, l, Senders)
  /\ sent' = [sent EXCEPT ![l][c] = @ + 1]
  /\ UNCHANGED <<lifeVars, clock, recvVars, lost, copies, fileVars>>

\* Mutant of Room: the last record is one too many.
RoomForOneMore(l) == Len(latencies[l]) <= MaxRecords

Room(l) == Len(latencies[l]) < MaxRecords

Latency(l, send) == [by |-> l, send |-> send, done |-> clock]

\* The replies of the synthetic workload are split by the service time they ask for.
Split(l) ==
  \/ nr_rx_1' = [nr_rx_1 EXCEPT ![l] = @ + 1] /\ UNCHANGED nr_rx_2
  \/ nr_rx_2' = [nr_rx_2 EXCEPT ![l] = @ + 1] /\ UNCHANGED nr_rx_1

\* Mutant of Record: a reply that finds no room is not counted either.
RecordOrDrop(l, send) ==
  /\ IF Reporter # {} /\ Room(l)
       THEN /\ nr_rx' = Bumped(nr_rx, l, Reporter)
            /\ latencies' = [latencies EXCEPT ![l] = Append(@, Latency(l, send))]
       ELSE UNCHANGED <<nr_rx, latencies>>
  /\ IF Reporter = {"synthetic"} THEN Split(l) ELSE UNCHANGED <<nr_rx_1, nr_rx_2>>

\* recv of whatever IPv4 packet the lcore has polled: nothing is checked, not even
\* who has asked. Replies are counted without limit, latencies only while there is room.
Record(l, send) ==
  /\ nr_rx' = Bumped(nr_rx, l, Reporter)
  /\ IF Reporter = {"synthetic"} THEN Split(l) ELSE UNCHANGED <<nr_rx_1, nr_rx_2>>
  /\ latencies' = IF Reporter # {} /\ Room(l)
                    THEN [latencies EXCEPT ![l] = Append(@, Latency(l, send))]
                    ELSE latencies

\* A message comes back to its lcore, or to any when replies are not steered.
Receive(l, m) ==
  /\ Running(l)
  /\ Steered => m.lcore = l
  /\ network' = network \ {m}
  /\ Record(l, m.send)
  /\ UNCHANGED <<lifeVars, clock, sendVars, lost, copies, strays, fileVars>>

Faults == Total(lost, Lcores) + Total(copies, Lcores) + Total(strays, Lcores)

\* An IPv4 packet that is no reply, with any bytes where a reply has its time stamp.
ReceiveStray(l) ==
  /\ Running(l) /\ Faults < MaxFaults
  /\ strays' = [strays EXCEPT ![l] = @ + 1]
  /\ \E send \in Times : Record(l, send)
  /\ UNCHANGED <<lifeVars, clock, sendVars, netVars, fileVars>>

-----------------------------------------------------------------------------
(* The report. *)

\* Mutant of File: the files are not named after the CPU.
FileOfAll(l) == CpuOf[CHOOSE k \in Lcores : TRUE]

\* sched_getcpu(), of a thread the EAL has bound to one CPU.
File(l) == CpuOf[l]

\* The deadline has passed; who keeps no statistics prints none.
EndRun(l) ==
  /\ Running(l)
  /\ phase' = [phase EXCEPT ![l] = IF Reporter = {} THEN "done" ELSE "latency"]
  /\ UNCHANGED <<mode, aborted, clock, sendVars, recvVars, netVars, fileVars>>

\* Mutant of Elapsed: the operands are swapped.
ElapsedBackwards(r) == (r.send + TimeWidth - r.done) % TimeWidth

\* The last column of latency-<cpu>.txt, a difference of two uint64_t.
Elapsed(r) == (r.done + TimeWidth - r.send) % TimeWidth

\* A latency file that cannot be opened is skipped without a word.
WriteLatencies(l) ==
  /\ ~aborted /\ phase[l] = "latency"
  /\ \/ latency_file' = [latency_file EXCEPT ![File(l)] = latencies[l]]
     \/ UNCHANGED latency_file
  /\ phase' = [phase EXCEPT ![l] = "throughput"]
  /\ UNCHANGED <<mode, aborted, clock, sendVars, recvVars, netVars, thp_file>>

\* What the keepers that report would print, which is the same for all of them.
LinesOf(l) ==
  {[by |-> l, rx |-> nr_rx[k][l], rx_1 |-> nr_rx_1[l], rx_2 |-> nr_rx_2[l],
    tx |-> nr_tx[k][l]] : k \in Reporter}

Line(l) == CHOOSE line \in LinesOf(l) : TRUE

WriteThroughput(l) ==
  /\ ~aborted /\ phase[l] = "throughput"
  /\ thp_file' = [thp_file EXCEPT ![File(l)] = <<Line(l)>>]
  /\ phase' = [phase EXCEPT ![l] = "done"]
  /\ UNCHANGED <<mode, aborted, clock, sendVars, recvVars, netVars, latency_file>>

\* One that cannot be opened is reported, and written to: the process aborts.
OpenFails(l) ==
  /\ ~aborted /\ phase[l] = "throughput"
  /\ aborted' = TRUE
  /\ UNCHANGED <<mode, phase, clock, sendVars, recvVars, netVars, fileVars>>

Several(S) == \E x, y \in S : x # y

\* cat latency-*.txt and cat thp-*.txt: the lines of all the files of a kind, each with
\* the keeper that has printed it, on which the number of its columns depends.
KeeperOf(c, by) == IF by = Earlier THEN OldKeeper[c] ELSE CHOOSE k \in Reporter : TRUE
CatOf(file)     == {c \in Cpus : file[c] # <<>>}
LinesIn(file)   == UNION {{<<c, i>> : i \in DOMAIN file[c]} : c \in Cpus}
KeepersIn(file) == {KeeperOf(x[1], file[x[1]][x[2]].by) : x \in LinesIn(file)}

\* np.loadtxt(...)[:,1]: lines of different lengths are an error of loadtxt, and it
\* makes a vector of a single line, which has no columns to choose from.
Readable(file) == Several(LinesIn(file)) /\ ~Several(KeepersIn(file))

\* The latencies come first; analysis.py takes their fourth column, which only pkvs prints.
LatenciesRead ==
  /\ Readable(latency_file)
  /\ KeepersIn(thp_file) = {"pkvs"} => KeepersIn(latency_file) = {"pkvs"}

\* The second column, replies per microsecond with four decimals.
Rate(line) == (10000 * line.rx + Duration[line.by] \div 2) \div Duration[line.by]

\* What the script for the client of the throughput files prints: the sum of the rates.
\* The sums over their other columns are like it.
NoResult == -1
Analysed ==
  IF LatenciesRead /\ Readable(thp_file)
    THEN Total([c \in CatOf(thp_file) |-> Rate(thp_file[c][1])], CatOf(thp_file))
    ELSE NoResult

LcoreStep(l) ==
  \/ \E c \in Clients : Send(l, c)
  \/ \E m \in network : Receive(l, m)
  \/ ReceiveStray(l)
  \/ EndRun(l) \/ WriteLatencies(l) \/ WriteThroughput(l) \/ OpenFails(l)

-----------------------------------------------------------------------------
(* The network with the server, which echoes what it gets, and the clock. *)

Lose(m) ==
  /\ Faults < MaxFaults
  /\ network' = network \ {m}
  /\ lost' = [lost EXCEPT ![m.lcore] = @ + 1]
  /\ UNCHANGED <<lifeVars, clock, sendVars, recvVars, copies, fileVars>>

\* At most one copy of a message at a time.
Duplicate(m) ==
  /\ Faults < MaxFaults /\ [m EXCEPT !.copy = 1] \notin network
  /\ network' = network \cup {[m EXCEPT !.copy = 1]}
  /\ copies' = [copies EXCEPT ![m.lcore] = @ + 1]
  /\ UNCHANGED <<lifeVars, clock, sendVars, recvVars, lost, fileVars>>

Tick ==
  /\ clock < MaxClock
  /\ clock' = clock + 1
  /\ UNCHANGED <<lifeVars, sendVars, recvVars, netVars, fileVars>>

Over == aborted \/ \A l \in Lcores : phase[l] = "done"

Ended == Over /\ UNCHANGED vars

Next ==
  \/ \E l \in Lcores : LcoreStep(l)
  \/ (\E l \in Lcores : Running(l))
       /\ ((\E m \in network : Lose(m) \/ Duplicate(m)) \/ Tick)
  \/ Ended

Spec == Init /\ [][Next]_vars
-----------------------------------------------------------------------------
Lines == [by : Lcores \cup {Earlier}, rx : Nat, rx_1 : Nat, rx_2 : Nat, tx : Nat]
Records == [by : Lcores \cup {Earlier}, send : Times, done : Times]
Messages == [lcore : Lcores, client : Clients, seq : Nat, copy : {0, 1}, client_id : Nat,
             req_id : 0 .. IdWidth - 1, send : Times]

TypeOK ==
  /\ mode \in Modes
  /\ phase \in [Lcores -> {"run", "latency", "throughput", "done"}]
  /\ aborted \in BOOLEAN /\ clock \in Times
  /\ req_id \in [Lcores -> [Clients -> 0 .. IdWidth - 1]]
  /\ sent \in [Lcores -> [Clients -> Nat]]
  /\ nr_tx \in [Keepers -> [Lcores -> Nat]] /\ nr_rx \in [Keepers -> [Lcores -> Nat]]
  /\ \A f \in {nr_rx_1, nr_rx_2, lost, copies, strays} : f \in [Lcores -> Nat]
  /\ latencies \in [Lcores -> Seq(Records)]
  /\ \A l \in Lcores : Len(latencies[l]) <= MaxRecords
  /\ network \subseteq Messages
  /\ latency_file \in [Cpus -> Seq(Records)] /\ thp_file \in [Cpus -> Seq(Lines)]

\* client_id and req_id tell the requests on their way apart, but for clients of
\* one lcore, which share client_id, and for a client that is IdWidth requests
\* ahead of a message still under way.
IdsIdentify ==
  Client = "shinjuku" =>
    \A x, y \in network :
      x.client_id = y.client_id /\ x.req_id = y.req_id =>
        /\ x.lcore = y.lcore
        /\ \/ x.client # y.client
           \/ x.seq = y.seq
           \/ x.seq >= y.seq + IdWidth \/ y.seq >= x.seq + IdWidth

\* Nothing the network does makes the counters drift: what lcores have counted as
\* sent they have counted as received, but for what is on its way or lost; only
\* duplicates and foreign packets are counted beyond. It holds for each lcore if
\* the replies are steered to it, and for all of them together in any case.
Balanced(k, L) ==
  Total(nr_tx[k], L) + Total(copies, L) + Total(strays, L) =
    Total(nr_rx[k], L) + Total(lost, L)
                       + Cardinality({m \in network : m.lcore \in L})
TotalsBalance ==
  \A k \in Reporter :
    /\ Balanced(k, Lcores)
    /\ Steered => \A l \in Lcores : Balanced(k, {l})

\* A process that ends normally leaves a report of every lcore that reports,
\* although the lcores write theirs at the same time: its throughput, split by
\* service time without a rest, and, unless the file could not be opened, a latency
\* for each reply of it up to MaxRecords.
Min2(a, b) == IF a < b THEN a ELSE b
FilesAgree ==
  (\A l \in Lcores : phase[l] = "done") /\ Reporter # {} =>
    \A l \in Lcores :
      /\ thp_file[CpuOf[l]] = <<Line(l)>>
      /\ Reporter = {"synthetic"} => Line(l).rx = Line(l).rx_1 + Line(l).rx_2
      /\ \/ Len(latency_file[CpuOf[l]]) = Min2(Line(l).rx, MaxRecords)
            /\ \A i \in DOMAIN latency_file[CpuOf[l]] : latency_file[CpuOf[l]][i].by = l
         \/ latency_file[CpuOf[l]] = IF CpuOf[l] \in Old THEN <<OldLatency>> ELSE <<>>

\* What the scripts print as the throughput is the sum of what the lcores of this run
\* have reached, each over its own time, and of the lines an earlier run in the same
\* directory has left of CPUs that this one has not reported on. They print none
\* if there is only one such line, as for a run on one lcore in a clean directory, if
\* lines were left by another client, or if the latencies cannot be read for such a
\* reason.
AnalysisOfThisRun ==
  (\A l \in Lcores : phase[l] = "done") =>
    LET reporting == IF Reporter = {} THEN {} ELSE Lcores
        left      == {c \in CatOf(thp_file) : thp_file[c][1].by = Earlier}
        oneClient == ~Several(Reporter \cup {OldKeeper[c] : c \in left})
        twoLines  == Several(reporting) \/ Several(left) \/ (reporting # {} /\ left # {})
    IN  /\ left \subseteq Old \ {CpuOf[l] : l \in reporting}
        /\ Analysed = IF LatenciesRead /\ oneClient /\ twoLines
                        THEN Total([l \in reporting |-> Rate(Line(l))], reporting)
                               + Total([c \in left |-> Rate(OldLine)], left)
                        ELSE NoResult

\* No latency is longer than the time that has passed, except for as many records as
\* foreign packets were read: their time stamps may lie ahead of the clock, and the
\* difference is unsigned.
LatencySane ==
  \A l \in Lcores :
    Cardinality({i \in DOMAIN latencies[l] : Elapsed(latencies[l][i]) > clock}) <= strays[l]
=============================================================================
