------------------------------ MODULE Startup ------------------------------
(***************************************************************************)
(* The process around the lcores: main, pktgen_config_ports and            *)
(* pktgen_create_flow, the launch of the lcores, their join, and the stop  *)
(* of the ports.  What an lcore does while it runs is the module Lcore.    *)
(*                                                                         *)
(* Every error of the set-up is only printed, so that the program goes on  *)
(* with what it has got; failed remembers that there was one.              *)
(***************************************************************************)
EXTENDS Integers, FiniteSets

CONSTANTS
  NbPorts,   \* Ethernet ports found by the EAL
  NbCore,    \* pktgen.nb_core: option -c, the queues of a port
  Lcores,    \* the lcores the EAL runs, MainLcore among them
  MainLcore, \* the lcore main runs on
  FlowCap,   \* rules the flow table of a port holds
  Faulty     \* calls of the DPDK that may fail: a part of Calls

Ports    == 0 .. NbPorts - 1
Cores    == 0 .. NbCore - 1
Workers  == Lcores \ {MainLcore}
Calls    == {"mempool", "rx_queue", "tx_queue", "dev_start",
             "flow_validate", "flow_create", "flow_flush"}
NoPool   == [port |-> -1, queue |-> -1]
Pools    == [port : Ports, queue : Cores]

ASSUME StartupAssumption ==
  /\ NbPorts \in Nat
  /\ NbCore \in Nat
  /\ Lcores \subseteq Nat /\ IsFiniteSet(Lcores)
  /\ MainLcore \in Lcores
  /\ FlowCap \in Nat \ {0}
  /\ Faulty \subseteq Calls

\* The UDP port the clients of core lid send from and their replies come to:
\* sport and dst_port are both (lid + 1) << 8, 16 bits wide.
UdpPorts    == 65536
PortOf(lid) == ((lid + 1) * 256) % UdpPorts

\* Mutant of Rule: the replies of a core are directed to its neighbour's queue.
RuleOffByOne(c) == [dport |-> PortOf(c), queue |-> c + 1]

Rule(c) == [dport |-> PortOf(c), queue |-> c]

Locations == {"mempool", "rx_queue", "tx_queue", "fill", "start", "validate", "create",
              "launch", "lcore", "join", "stop", "returned", "aborted"}

VARIABLES
  pc,            \* control point of main
  pid, i,        \* its loops over ports and cores
  pkt_mempool,   \* core_info[i].pkt_mempool
  rx_pool,       \* the pool each RX queue was set up with
  tx_queues,     \* TX queues set up
  filled,        \* tx_mbufs[pid] of core i: the pool its buffers came from
  started,       \* ports started and not stopped
  flows,         \* the flow table of each port
  announced,     \* history: <<port, core>> whose rule main has announced
  refused,       \* history: ports that refused a rule their table had room for
  lcore,         \* state the EAL keeps of each lcore
  failed         \* history: a call has failed

queueVars == <<pkt_mempool, rx_pool, tx_queues, filled>>
vars == <<pc, pid, i, queueVars, started, flows, announced, refused, lcore, failed>>

Init ==
  /\ pc = IF NbPorts > 0 /\ NbCore > 0 THEN "mempool" ELSE "start"
  /\ pid = 0 /\ i = 0
  /\ pkt_mempool = [c \in Cores |-> NoPool]
  /\ rx_pool = [q \in Ports \X Cores |-> NoPool]
  /\ tx_queues = {}
  /\ filled = [q \in Ports \X Cores |-> NoPool]
  /\ started = {}
  /\ flows = [p \in Ports |-> {}]
  /\ announced = {}
  /\ refused = {}
  /\ lcore = [l \in Lcores |-> "wait"]
  /\ failed = FALSE

-----------------------------------------------------------------------------
(* pktgen_config_ports. *)

\* A call of the DPDK: it succeeds only if what it needs is there, and may then
\* still fail if it is one of the faulty ones.
Outcome(call, needs, ok) == IF ok THEN needs ELSE ~needs \/ call \in Faulty

\* Mutant of NewPool: the cores of a port share a pool.
NewPoolPerPort == [port |-> pid, queue |-> 0]

NewPool == [port |-> pid, queue |-> i]

\* 1. A pool for each core: core_info[i].pkt_mempool is overwritten for every port.
CreateMempool ==
  /\ pc = "mempool"
  /\ \E ok \in BOOLEAN :
       /\ Outcome("mempool", TRUE, ok)
       /\ pkt_mempool' = [pkt_mempool EXCEPT ![i] = IF ok THEN NewPool ELSE NoPool]
       /\ failed' = (failed \/ ~ok)
  /\ pc' = "rx_queue"
  /\ UNCHANGED <<pid, i, rx_pool, tx_queues, filled, started, flows, announced, refused, lcore>>

\* 2. The queues: a RX queue cannot be set up without a pool.
SetupRxQueue ==
  /\ pc = "rx_queue"
  /\ \E ok \in BOOLEAN :
       /\ Outcome("rx_queue", pkt_mempool[i] # NoPool, ok)
       /\ rx_pool' = IF ok THEN [rx_pool EXCEPT ![<<pid, i>>] = pkt_mempool[i]] ELSE rx_pool
       /\ failed' = (failed \/ ~ok)
  /\ pc' = "tx_queue"
  /\ UNCHANGED <<pid, i, pkt_mempool, tx_queues, filled, started, flows, announced, refused, lcore>>

SetupTxQueue ==
  /\ pc = "tx_queue"
  /\ \E ok \in BOOLEAN :
       /\ Outcome("tx_queue", TRUE, ok)
       /\ tx_queues' = IF ok THEN tx_queues \cup {<<pid, i>>} ELSE tx_queues
       /\ failed' = (failed \/ ~ok)
  /\ pc' = "fill"
  /\ UNCHANGED <<pid, i, pkt_mempool, rx_pool, filled, started, flows, announced, refused, lcore>>

\* Mutant of NextQueue: one port too many.
NextQueuePastLast ==
  CASE i + 1 < NbCore                      -> pc' = "mempool" /\ i' = i + 1 /\ pid' = pid
    [] i + 1 = NbCore /\ pid + 1 <= NbPorts -> pc' = "mempool" /\ i' = 0 /\ pid' = pid + 1
    [] OTHER                               -> pc' = "start" /\ i' = 0 /\ pid' = 0

\* The next core, the next port, or the start of the ports.
NextQueue ==
  CASE i + 1 < NbCore                     -> pc' = "mempool" /\ i' = i + 1 /\ pid' = pid
    [] i + 1 = NbCore /\ pid + 1 < NbPorts -> pc' = "mempool" /\ i' = 0 /\ pid' = pid + 1
    [] OTHER                              -> pc' = "start" /\ i' = 0 /\ pid' = 0

\* The table of the core and port is filled from pkt_mempool; without one the
\* allocation faults and the handler of SIGSEGV aborts.
FillTable ==
  /\ pc = "fill"
  /\ IF pkt_mempool[i] = NoPool
       THEN pc' = "aborted" /\ UNCHANGED <<pid, i, filled>>
       ELSE filled' = [filled EXCEPT ![<<pid, i>>] = pkt_mempool[i]] /\ NextQueue
  /\ UNCHANGED <<pkt_mempool, rx_pool, tx_queues, started, flows, announced, refused, lcore, failed>>

\* A port with a queue that was not set up does not start.
StartPort ==
  /\ pc = "start" /\ pid < NbPorts
  /\ \E ok \in BOOLEAN :
       /\ Outcome("dev_start",
                  \A c \in Cores : rx_pool[<<pid, c>>] # NoPool /\ <<pid, c>> \in tx_queues, ok)
       /\ started' = IF ok THEN started \cup {pid} ELSE started
       /\ failed' = (failed \/ ~ok)
  /\ pid' = pid + 1
  /\ UNCHANGED <<pc, i, queueVars, flows, announced, refused, lcore>>

EndStart ==
  /\ pc = "start" /\ pid = NbPorts
  /\ pc' = "validate" /\ pid' = 0
  /\ UNCHANGED <<i, queueVars, started, flows, announced, refused, lcore, failed>>

-----------------------------------------------------------------------------
(* pktgen_create_flow(i), over the ports. *)

\* A rule the port cannot take is reported and left out.
ValidateFlow ==
  /\ pc = "validate" /\ i < NbCore /\ pid < NbPorts
  /\ \E ok \in BOOLEAN :
       /\ Outcome("flow_validate", TRUE, ok)
       /\ IF ok
            THEN pc' = "create" /\ announced' = announced \cup {<<pid, i>>} /\ UNCHANGED pid
            ELSE pid' = pid + 1 /\ UNCHANGED <<pc, announced>>
       /\ failed' = (failed \/ ~ok)
  /\ UNCHANGED <<i, queueVars, started, flows, refused, lcore>>

\* Mutant of NewRules: the rule of the last core is lost.
NewRulesButLast == IF i = NbCore - 1 THEN {} ELSE {Rule(i)}

NewRules == {Rule(i)}

HasRoom(p) == Cardinality(flows[p]) < FlowCap

CreateFlow ==
  /\ pc = "create"
  /\ HasRoom(pid)
  /\ flows' = [flows EXCEPT ![pid] = @ \cup NewRules]
  /\ pc' = "validate" /\ pid' = pid + 1
  /\ UNCHANGED <<i, queueVars, started, announced, refused, lcore, failed>>

Flushed(rules) == {}


\* rte_flow_create fails, for whatever reason: for want of room, because the port did
\* not start, or because its driver refuses the rule though it was validated. The
\* whole table of the port is flushed, rules of other cores included, and the
\* rule is tried again, without end if it is refused again and again.
FlushFlows ==
  /\ pc = "create"
  /\ ~HasRoom(pid) \/ pid \notin started \/ "flow_create" \in Faulty
  /\ \E ok \in BOOLEAN :
       /\ Outcome("flow_flush", TRUE, ok)
       /\ flows' = IF ok THEN [flows EXCEPT ![pid] = Flushed(@)] ELSE flows
       /\ failed' = (failed \/ ~ok \/ HasRoom(pid))
  /\ refused' = IF HasRoom(pid) THEN refused \cup {pid} ELSE refused
  /\ UNCHANGED <<pc, pid, i, queueVars, started, announced, lcore>>

NextFlowCore ==
  /\ pc = "validate" /\ i < NbCore /\ pid = NbPorts
  /\ i' = i + 1 /\ pid' = 0
  /\ UNCHANGED <<pc, queueVars, started, flows, announced, refused, lcore, failed>>

EndFlows ==
  /\ pc = "validate" /\ i = NbCore
  /\ pc' = "launch"
  /\ UNCHANGED <<pid, i, queueVars, started, flows, announced, refused, lcore, failed>>

-----------------------------------------------------------------------------
(* main: the launch, the join and the end. *)

\* rte_eal_mp_remote_launch starts one worker after the other.
LaunchWorker(l) ==
  /\ pc = "launch"
  /\ l \in Workers /\ lcore[l] = "wait"
  /\ lcore' = [lcore EXCEPT ![l] = "running"]
  /\ UNCHANGED <<pc, pid, i, queueVars, started, flows, announced, refused, failed>>

\* CALL_MAIN: when all workers are launched, main runs the same function itself.
RunMainLcore ==
  /\ pc = "launch"
  /\ \A l \in Workers : lcore[l] # "wait"
  /\ lcore' = [lcore EXCEPT ![MainLcore] = "running"]
  /\ pc' = "lcore"
  /\ UNCHANGED <<pid, i, queueVars, started, flows, announced, refused, failed>>

\* pktgen_launch_one_lcore returns (Lcore!Terminates).
WorkerReturns(l) ==
  /\ pc \notin {"aborted", "returned"}
  /\ l \in Workers /\ lcore[l] = "running"
  /\ lcore' = [lcore EXCEPT ![l] = "finished"]
  /\ UNCHANGED <<pc, pid, i, queueVars, started, flows, announced, refused, failed>>

MainReturns ==
  /\ pc = "lcore"
  /\ lcore' = [lcore EXCEPT ![MainLcore] = "finished"]
  /\ pc' = "join"
  /\ UNCHANGED <<pid, i, queueVars, started, flows, announced, refused, failed>>

\* rte_exit in an lcore that finds no buffer ends the process (Lcore!AllocFails).
LcoreExits(l) ==
  /\ pc \notin {"aborted", "returned"}
  /\ lcore[l] = "running"
  /\ pc' = "aborted"
  /\ UNCHANGED <<pid, i, queueVars, started, flows, announced, refused, lcore, failed>>

\* Mutant of AllFinished: the delay of 250 ms is taken for the join.
DelayOver == TRUE

AllFinished == \A l \in Workers : lcore[l] = "finished"

\* rte_eal_mp_wait_lcore.
Join ==
  /\ pc = "join"
  /\ AllFinished
  /\ pc' = "stop" /\ pid' = 0
  /\ UNCHANGED <<i, queueVars, started, flows, announced, refused, lcore, failed>>

StopPort ==
  /\ pc = "stop" /\ pid < NbPorts
  /\ started' = started \ {pid}
  /\ pid' = pid + 1
  /\ UNCHANGED <<pc, i, queueVars, flows, announced, refused, lcore, failed>>

Return ==
  /\ pc = "stop" /\ pid = NbPorts
  /\ pc' = "returned"
  /\ UNCHANGED <<pid, i, queueVars, started, flows, announced, refused, lcore, failed>>

Ended ==
  /\ pc \in {"returned", "aborted"}
  /\ UNCHANGED vars

ConfigStep ==
  \/ CreateMempool \/ SetupRxQueue \/ SetupTxQueue \/ FillTable
  \/ StartPort \/ EndStart
  \/ ValidateFlow \/ CreateFlow \/ FlushFlows \/ NextFlowCore \/ EndFlows

MainStep ==
  \/ ConfigStep
  \/ \E l \in Workers : LaunchWorker(l)
  \/ RunMainLcore \/ Join \/ StopPort \/ Return

Next ==
  \/ MainStep
  \/ MainReturns
  \/ \E l \in Workers : WorkerReturns(l)
  \/ \E l \in Lcores : LcoreExits(l)
  \/ Ended

Spec == Init /\ [][Next]_vars

\* main runs. An lcore returns (Lcore!Terminates) if the set-up was right; on a port
\* that did not start, or with a queue that is missing, the loop of
\* pktgen_main_transmit may never see its packets taken.
FairSpec ==
  /\ Spec
  /\ WF_vars(MainStep)
  /\ WF_vars(~failed /\ MainReturns)
  /\ \A l \in Workers : WF_vars(~failed /\ WorkerReturns(l))
-----------------------------------------------------------------------------
(* Properties. *)

TypeOK ==
  /\ pc \in Locations /\ pid \in 0 .. NbPorts /\ i \in 0 .. NbCore
  /\ pkt_mempool \in [Cores -> Pools \cup {NoPool}]
  /\ rx_pool \in [Ports \X Cores -> Pools \cup {NoPool}]
  /\ tx_queues \subseteq Ports \X Cores
  /\ filled \in [Ports \X Cores -> Pools \cup {NoPool}]
  /\ started \subseteq Ports
  /\ flows \in [Ports -> SUBSET {Rule(c) : c \in Cores}]
  /\ announced \subseteq Ports \X Cores /\ refused \subseteq Ports
  /\ lcore \in [Lcores -> {"wait", "running", "finished"}]
  /\ failed \in BOOLEAN

\* What Lcore!Init takes for granted holds as long as an lcore runs, if no call of
\* the set-up failed: its ports are started, the RX queue and the table of each are
\* filled from a pool of that port, and refills draw on the pool of the last one.
\* In particular main stops no port under an lcore that still polls it.
LcoreInitHolds ==
  ~failed => \A l \in Lcores \cap Cores : lcore[l] = "running" =>
    /\ started = Ports
    /\ \A p \in Ports :
         /\ rx_pool[<<p, l>>] = [port |-> p, queue |-> l]
         /\ filled[<<p, l>>] = [port |-> p, queue |-> l]
         /\ <<p, l>> \in tx_queues
    /\ NbPorts > 0 => pkt_mempool[l] = [port |-> NbPorts - 1, queue |-> l]

\* The pools are created with MEMPOOL_F_SP_PUT and MEMPOOL_F_SC_GET: no two lcores
\* that run ever put to or get from the same one, whatever failed before.
Drawn(l) == ({pkt_mempool[l]} \cup {rx_pool[<<p, l>>] : p \in Ports}
                             \cup {filled[<<p, l>>] : p \in Ports}) \ {NoPool}
PoolsPrivate ==
  \A l, k \in Lcores \cap Cores :
    l # k /\ lcore[l] = "running" /\ lcore[k] = "running" => Drawn(l) \cap Drawn(k) = {}

\* The queues a packet to UDP port d may come to: those its rules name, or any,
\* by RSS, when there is none.
Steering(p, d) ==
  LET matching == {f \in flows[p] : f.dport = d}
  IN  IF matching = {} THEN Cores ELSE {f.queue : f \in matching}

FlowsConfigured == pc \notin {"mempool", "rx_queue", "tx_queue", "fill", "start",
                              "validate", "create"}

\* The replies to a core come to its queue and to no other if the table has room
\* for the rules its port accepts, and the port has refused none of them: no two
\* cores share a UDP port, and nothing else flushes a rule.
RepliesSteered ==
  FlowsConfigured =>
    \A p \in Ports \ refused :
      Cardinality({c \in Cores : <<p, c>> \in announced}) <= FlowCap =>
        \A c \in Cores : <<p, c>> \in announced => Steering(p, PortOf(c)) = {c}

\* However often the table is flushed, the rules in it are those of the last cores
\* the port accepted: a rule never outlives a later one.
NewestFlowsKept ==
  \A p \in Ports : \A c, d \in Cores :
    /\ c < d /\ Rule(c) \in flows[p]
    /\ <<p, d>> \in announced /\ ~(pc = "create" /\ pid = p /\ i = d)
    => Rule(d) \in flows[p]

\* "Direct flow to port %x to core %d via queue %d": what main announces is so
\* when the lcores are launched.
AnnouncedIsSteered ==
  FlowsConfigured => \A p \in Ports, c \in Cores :
    <<p, c>> \in announced => Steering(p, PortOf(c)) = {c}

=============================================================================
