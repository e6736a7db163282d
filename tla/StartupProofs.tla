---------------------------- MODULE StartupProofs ----------------------------
(***************************************************************************)
(* Theorems of the module Startup: what an lcore finds when it runs is its *)
(* own and ready, and the flow rules of the ports are what they should be, *)
(* for every number of ports, cores and rules and every failing call.      *)
(***************************************************************************)
EXTENDS Startup, Arithmetic, FiniteSetTheorems, TLAPS

QueuePcs == {"mempool", "rx_queue", "tx_queue", "fill"}
FlowPcs  == {"validate", "create"}
SetupPcs == QueuePcs \cup {"start"} \cup FlowPcs

-----------------------------------------------------------------------------
(* Types, and what the control point says of the loop variables. *)

ControlOK ==
  /\ pc \in QueuePcs => pid \in Ports /\ i \in Cores
  /\ pc = "start" => i = 0
  /\ pc = "create" => pid \in Ports /\ i \in Cores

TypeInv == TypeOK /\ ControlOK

\* A loop variable that is below its limit is a port or a core.
LEMMA LoopVariables ==
  /\ \A p \in 0 .. NbPorts : p < NbPorts <=> p \in Ports
  /\ \A p \in Ports : p + 1 \in 0 .. NbPorts /\ p \in 0 .. NbPorts
  /\ \A c \in 0 .. NbCore : c < NbCore <=> c \in Cores
  /\ \A c \in Cores : c + 1 \in 0 .. NbCore /\ c \in 0 .. NbCore
  /\ 0 \in 0 .. NbPorts /\ 0 \in 0 .. NbCore
  /\ NbPorts > 0 => 0 \in Ports
  /\ NbCore > 0 => 0 \in Cores
BY StartupAssumption DEF StartupAssumption, Ports, Cores

\* The pool made for the current queue is one of the pools.
LEMMA NewPoolType ==
  ASSUME pid \in Ports, i \in Cores
  PROVE  NewPool \in Pools /\ NewPool # NoPool
BY StartupAssumption DEF StartupAssumption, NewPool, Pools, NoPool, Ports, Cores

\* The initial values have their types.
LEMMA InitTypeInv == Init => TypeInv
<1> SUFFICES ASSUME Init PROVE TypeInv
  OBVIOUS
<1>1. /\ pc \in Locations
      /\ pc \in {"mempool", "start"}
      /\ pc = "mempool" => NbPorts > 0 /\ NbCore > 0
  BY DEF Init, Locations
<1>2. TypeOK
  BY <1>1, LoopVariables, StartupAssumption DEF Init, TypeOK
<1>3. ControlOK
  BY <1>1, LoopVariables DEF Init, ControlOK, QueuePcs
<1> QED
  BY <1>2, <1>3 DEF TypeInv

\* The three ways to go on after a queue.
LEMMA NextQueueType ==
  ASSUME pid \in Ports, i \in Cores, NextQueue
  PROVE  \/ /\ pc' = "mempool" /\ pid' = pid /\ i' = i + 1
            /\ pid' \in Ports /\ i' \in Cores
         \/ /\ pc' = "mempool" /\ pid' = pid + 1 /\ i' = 0 /\ i + 1 = NbCore
            /\ pid' \in Ports /\ i' \in Cores
         \/ /\ pc' = "start" /\ pid' = 0 /\ i' = 0
            /\ i + 1 = NbCore /\ pid + 1 = NbPorts
<1>1. /\ i + 1 = NbCore \/ i + 1 < NbCore
      /\ pid + 1 = NbPorts \/ pid + 1 < NbPorts
      /\ ~(i + 1 = NbCore /\ i + 1 < NbCore)
  BY StartupAssumption DEF StartupAssumption, Ports, Cores
<1>2. i + 1 \in 0 .. NbCore /\ pid + 1 \in 0 .. NbPorts
  BY LoopVariables
<1>3. CASE i + 1 < NbCore
  BY <1>1, <1>2, <1>3, LoopVariables DEF NextQueue
<1>4. CASE i + 1 = NbCore /\ pid + 1 < NbPorts
  <2>1. 0 \in Cores
    BY <1>4, StartupAssumption DEF StartupAssumption, Cores
  <2> QED
    BY <1>1, <1>2, <1>4, <2>1, LoopVariables DEF NextQueue
<1>5. CASE i + 1 = NbCore /\ pid + 1 = NbPorts
  <2>1. ~(i + 1 < NbCore) /\ ~(pid + 1 < NbPorts)
    BY <1>5, StartupAssumption DEF StartupAssumption
  <2> QED
    BY <1>5, <2>1 DEF NextQueue
<1> QED
  BY <1>1, <1>3, <1>4, <1>5

\* Every step preserves the types.
LEMMA NextTypeInv == TypeInv /\ [Next]_vars => TypeInv'
<1> SUFFICES ASSUME TypeInv, [Next]_vars PROVE TypeInv'
  OBVIOUS
<1> USE LoopVariables DEF TypeInv
<1>1. CASE CreateMempool
  <2>1. pid \in Ports /\ i \in Cores
    BY <1>1 DEF CreateMempool, ControlOK, QueuePcs
  <2>2. NewPool \in Pools
    BY <2>1, NewPoolType
  <2>3. pkt_mempool' \in [Cores -> Pools \cup {NoPool}] /\ failed' \in BOOLEAN
    BY <1>1, <2>2 DEF CreateMempool, TypeOK
  <2> QED
    BY <1>1, <2>1, <2>3 DEF CreateMempool, TypeOK, ControlOK, Locations, QueuePcs
<1>2. CASE SetupRxQueue
  <2>1. pid \in Ports /\ i \in Cores
    BY <1>2 DEF SetupRxQueue, ControlOK, QueuePcs
  <2>2. rx_pool' \in [Ports \X Cores -> Pools \cup {NoPool}] /\ failed' \in BOOLEAN
    BY <1>2, <2>1 DEF SetupRxQueue, TypeOK
  <2> QED
    BY <1>2, <2>1, <2>2 DEF SetupRxQueue, TypeOK, ControlOK, Locations, QueuePcs
<1>3. CASE SetupTxQueue
  <2>1. pid \in Ports /\ i \in Cores
    BY <1>3 DEF SetupTxQueue, ControlOK, QueuePcs
  <2>2. tx_queues' \subseteq Ports \X Cores /\ failed' \in BOOLEAN
    BY <1>3, <2>1 DEF SetupTxQueue, TypeOK
  <2> QED
    BY <1>3, <2>1, <2>2 DEF SetupTxQueue, TypeOK, ControlOK, Locations, QueuePcs
<1>4. CASE FillTable
  <2>1. pid \in Ports /\ i \in Cores
    BY <1>4 DEF FillTable, ControlOK, QueuePcs
  <2>2. CASE pkt_mempool[i] = NoPool
    BY <1>4, <2>1, <2>2 DEF FillTable, TypeOK, ControlOK, Locations, QueuePcs
  <2>3. CASE pkt_mempool[i] # NoPool
    <3>1. filled' \in [Ports \X Cores -> Pools \cup {NoPool}]
      BY <1>4, <2>1, <2>3 DEF FillTable, TypeOK
    <3>2. /\ pc' \in {"mempool", "start"} /\ pid' \in 0 .. NbPorts /\ i' \in 0 .. NbCore
          /\ pc' = "mempool" => pid' \in Ports /\ i' \in Cores
          /\ pc' = "start" => i' = 0
      BY <1>4, <2>1, <2>3, NextQueueType DEF FillTable
    <3> QED
      BY <1>4, <3>1, <3>2 DEF FillTable, TypeOK, ControlOK, Locations, QueuePcs
  <2> QED
    BY <2>2, <2>3
<1>5. CASE StartPort
  <2>1. pid \in Ports
    BY <1>5 DEF StartPort, TypeOK
  <2>2. started' \subseteq Ports /\ failed' \in BOOLEAN
    BY <1>5, <2>1 DEF StartPort, TypeOK
  <2> QED
    BY <1>5, <2>1, <2>2 DEF StartPort, TypeOK, ControlOK, Locations, QueuePcs, queueVars
<1>6. CASE EndStart
  BY <1>6 DEF EndStart, TypeOK, ControlOK, Locations, QueuePcs, queueVars
<1>7. CASE ValidateFlow
  <2>1. pid \in Ports /\ i \in Cores
    BY <1>7 DEF ValidateFlow, TypeOK
  <2>2. announced' \subseteq Ports \X Cores /\ failed' \in BOOLEAN
    BY <1>7, <2>1 DEF ValidateFlow, TypeOK
  <2> QED
    BY <1>7, <2>1, <2>2 DEF ValidateFlow, TypeOK, ControlOK, Locations, QueuePcs, queueVars
<1>8. CASE CreateFlow
  <2>1. pid \in Ports /\ i \in Cores
    BY <1>8 DEF CreateFlow, ControlOK
  <2>2. flows' \in [Ports -> SUBSET {Rule(c) : c \in Cores}]
    BY <1>8, <2>1 DEF CreateFlow, NewRules, TypeOK
  <2> QED
    BY <1>8, <2>1, <2>2 DEF CreateFlow, TypeOK, ControlOK, Locations, QueuePcs, queueVars
<1>9. CASE FlushFlows
  <2>1. flows' \in [Ports -> SUBSET {Rule(c) : c \in Cores}]
    BY <1>9 DEF FlushFlows, Flushed, TypeOK
  <2>2. pid \in Ports
    BY <1>9 DEF FlushFlows, ControlOK
  <2>3. refused' \subseteq Ports /\ failed' \in BOOLEAN
    BY <1>9, <2>2 DEF FlushFlows, HasRoom, TypeOK
  <2> QED
    BY <1>9, <2>1, <2>3 DEF FlushFlows, TypeOK, ControlOK, Locations, QueuePcs, queueVars
<1>10. CASE NextFlowCore
  <2>1. i \in Cores
    BY <1>10 DEF NextFlowCore, TypeOK
  <2> QED
    BY <1>10, <2>1 DEF NextFlowCore, TypeOK, ControlOK, Locations, QueuePcs, queueVars
<1>11. CASE EndFlows
  BY <1>11 DEF EndFlows, TypeOK, ControlOK, Locations, QueuePcs, queueVars
<1>12. ASSUME NEW l \in Workers, LaunchWorker(l) PROVE TypeInv'
  BY <1>12 DEF LaunchWorker, TypeOK, ControlOK, QueuePcs, queueVars
<1>13. CASE RunMainLcore
  BY <1>13 DEF RunMainLcore, TypeOK, ControlOK, Locations, QueuePcs, queueVars
<1>14. ASSUME NEW l \in Workers, WorkerReturns(l) PROVE TypeInv'
  BY <1>14 DEF WorkerReturns, TypeOK, ControlOK, QueuePcs, queueVars
<1>15. CASE MainReturns
  BY <1>15 DEF MainReturns, TypeOK, ControlOK, Locations, QueuePcs, queueVars
<1>16. ASSUME NEW l \in Lcores, LcoreExits(l) PROVE TypeInv'
  BY <1>16 DEF LcoreExits, TypeOK, ControlOK, Locations, QueuePcs, queueVars
<1>17. CASE Join
  BY <1>17 DEF Join, TypeOK, ControlOK, Locations, QueuePcs, queueVars
<1>18. CASE StopPort
  <2>1. pid \in Ports
    BY <1>18 DEF StopPort, TypeOK
  <2> QED
    BY <1>18, <2>1 DEF StopPort, TypeOK, ControlOK, QueuePcs, queueVars
<1>19. CASE Return
  BY <1>19 DEF Return, TypeOK, ControlOK, Locations, QueuePcs, queueVars
<1>20. CASE UNCHANGED vars
  BY <1>20 DEF vars, TypeOK, ControlOK, queueVars
<1> QED
  BY <1>1, <1>2, <1>3, <1>4, <1>5, <1>6, <1>7, <1>8, <1>9, <1>10, <1>11, <1>12, <1>13,
     <1>14, <1>15, <1>16, <1>17, <1>18, <1>19, <1>20
     DEF Next, MainStep, ConfigStep, Ended

\* The loop variables stay in their loops and every pool is one that was created.
THEOREM TypeCorrect == Spec => []TypeOK
<1>1. Spec => []TypeInv
  BY InitTypeInv, NextTypeInv, PTL DEF Spec
<1> QED
  BY <1>1, PTL DEF TypeInv

-----------------------------------------------------------------------------
(* Every pool has one user. *)

\* The pools created for core c.
OwnedBy(c) == {m \in Pools : m.queue = c} \cup {NoPool}

PoolsOwned ==
  \A c \in Cores :
    /\ pkt_mempool[c] \in OwnedBy(c)
    /\ \A p \in Ports : rx_pool[<<p, c>>] \in OwnedBy(c) /\ filled[<<p, c>>] \in OwnedBy(c)

\* There are no pools at first.
LEMMA InitPoolsOwned == Init => PoolsOwned
BY DEF Init, PoolsOwned, OwnedBy

\* A pool is drawn on only where the core it was created for stands.
LEMMA NextPoolsOwned == TypeInv /\ PoolsOwned /\ [Next]_vars => PoolsOwned'
<1> SUFFICES ASSUME TypeInv, PoolsOwned, [Next]_vars PROVE PoolsOwned'
  OBVIOUS
<1>1. CASE CreateMempool
  <2>1. pid \in Ports /\ i \in Cores
    BY <1>1 DEF CreateMempool, TypeInv, ControlOK, QueuePcs
  <2>2. NewPool \in OwnedBy(i) /\ NoPool \in OwnedBy(i)
    BY <2>1, NewPoolType DEF OwnedBy, NewPool
  <2>3. PICK m \in OwnedBy(i) : pkt_mempool' = [pkt_mempool EXCEPT ![i] = m]
    BY <1>1, <2>2 DEF CreateMempool
  <2>4. DOMAIN pkt_mempool = Cores /\ rx_pool' = rx_pool /\ filled' = filled
    BY <1>1 DEF CreateMempool, TypeInv, TypeOK
  <2> QED
    BY <2>1, <2>3, <2>4 DEF PoolsOwned
<1>2. CASE SetupRxQueue
  <2>1. pid \in Ports /\ i \in Cores
    BY <1>2 DEF SetupRxQueue, TypeInv, ControlOK, QueuePcs
  <2>2. /\ rx_pool' = [rx_pool EXCEPT ![<<pid, i>>] = pkt_mempool[i]] \/ rx_pool' = rx_pool
        /\ rx_pool \in [Ports \X Cores -> Pools \cup {NoPool}]
        /\ pkt_mempool' = pkt_mempool /\ filled' = filled
    BY <1>2 DEF SetupRxQueue, TypeInv, TypeOK
  <2>3. \A c \in Cores, p \in Ports : rx_pool'[<<p, c>>] \in OwnedBy(c)
    BY <2>1, <2>2 DEF PoolsOwned
  <2> QED
    BY <2>2, <2>3 DEF PoolsOwned
<1>3. CASE FillTable
  <2>1. pid \in Ports /\ i \in Cores
    BY <1>3 DEF FillTable, TypeInv, ControlOK, QueuePcs
  <2>2. /\ filled' = [filled EXCEPT ![<<pid, i>>] = pkt_mempool[i]] \/ filled' = filled
        /\ filled \in [Ports \X Cores -> Pools \cup {NoPool}]
        /\ pkt_mempool' = pkt_mempool /\ rx_pool' = rx_pool
    BY <1>3 DEF FillTable, TypeInv, TypeOK
  <2>3. \A c \in Cores, p \in Ports : filled'[<<p, c>>] \in OwnedBy(c)
    BY <2>1, <2>2 DEF PoolsOwned
  <2> QED
    BY <2>2, <2>3 DEF PoolsOwned
<1>4. CASE UNCHANGED <<pkt_mempool, rx_pool, filled>>
  BY <1>4 DEF PoolsOwned
<1> QED
  BY <1>1, <1>2, <1>3, <1>4
     DEF Next, MainStep, ConfigStep, SetupTxQueue, StartPort, EndStart, ValidateFlow, CreateFlow,
         FlushFlows, NextFlowCore, EndFlows, LaunchWorker, RunMainLcore, WorkerReturns, MainReturns,
         LcoreExits, Join, StopPort, Return, Ended, vars, queueVars

\* No two cores draw on one pool, whatever failed and in whatever order they run: the
\* single-producer, single-consumer pools of pktgen_mempool_create are used as such.
THEOREM PoolsPrivateCorrect == Spec => []PoolsPrivate
<1>1. Spec => []TypeInv
  BY InitTypeInv, NextTypeInv, PTL DEF Spec
<1>2. Spec => []PoolsOwned
  BY <1>1, InitPoolsOwned, NextPoolsOwned, PTL DEF Spec
<1>3. PoolsOwned => PoolsPrivate
  <2> SUFFICES ASSUME PoolsOwned, NEW l \in Lcores \cap Cores, NEW k \in Lcores \cap Cores, l # k
               PROVE  Drawn(l) \cap Drawn(k) = {}
    BY DEF PoolsPrivate
  <2>1. Drawn(l) \subseteq OwnedBy(l) \ {NoPool} /\ Drawn(k) \subseteq OwnedBy(k) \ {NoPool}
    BY DEF PoolsOwned, Drawn
  <2>2. (OwnedBy(l) \ {NoPool}) \cap (OwnedBy(k) \ {NoPool}) = {}
    BY DEF OwnedBy
  <2> QED
    BY <2>1, <2>2
<1> QED
  BY <1>2, <1>3, PTL

-----------------------------------------------------------------------------
(* An lcore runs on ports, queues and pools that are ready. *)

Own(p, c) == [port |-> p, queue |-> c]

QueueReady(p, c) ==
  rx_pool[<<p, c>>] = Own(p, c) /\ filled[<<p, c>>] = Own(p, c) /\ <<p, c>> \in tx_queues

Ready ==
  /\ \A p \in Ports, c \in Cores : QueueReady(p, c)
  /\ NbPorts > 0 => \A c \in Cores : pkt_mempool[c] = Own(NbPorts - 1, c)

\* How far the queues are when none of the calls has failed.
QueuesDone ==
  pc \in QueuePcs =>
    /\ \A p \in Ports, c \in Cores : p < pid \/ (p = pid /\ c < i) => QueueReady(p, c)
    /\ \A c \in Cores : c < i => pkt_mempool[c] = Own(pid, c)
    /\ pc # "mempool" => pkt_mempool[i] = Own(pid, i)
    /\ pc \in {"tx_queue", "fill"} => rx_pool[<<pid, i>>] = Own(pid, i)
    /\ pc = "fill" => <<pid, i>> \in tx_queues

\* How far the ports are, and when lcores run.
PortsDone ==
  /\ pc \in {"start", "launch", "lcore", "join"} \cup FlowPcs => Ready
  /\ pc = "start" => \A p \in Ports : p < pid => p \in started
  /\ pc \in {"launch", "lcore", "join"} \cup FlowPcs => started = Ports
  /\ \A l \in Lcores : lcore[l] = "running" => Ready /\ started = Ports

\* Lcores run between the launch and the join.
LaunchOK ==
  /\ pc \in SetupPcs => \A l \in Lcores : lcore[l] = "wait"
  /\ pc = "launch" => lcore[MainLcore] = "wait"
  /\ pc = "join" => lcore[MainLcore] = "finished"
  /\ pc \in {"stop", "returned"} => \A l \in Lcores : lcore[l] # "running"

ReadyInv == LaunchOK /\ (~failed => QueuesDone /\ PortsDone)

\* Nothing is done and no lcore runs at first.
LEMMA InitReadyInv == Init => ReadyInv
<1> SUFFICES ASSUME Init PROVE ReadyInv
  OBVIOUS
<1>1. pc \in {"mempool", "start"} /\ pid = 0 /\ i = 0 /\ \A l \in Lcores : lcore[l] = "wait"
  BY DEF Init
<1>2. pc = "start" => Ports = {} \/ Cores = {}
  BY StartupAssumption DEF Init, StartupAssumption, Ports, Cores
<1>3. (\A p \in Ports : ~(p < 0)) /\ (\A c \in Cores : ~(c < 0))
  BY StartupAssumption DEF StartupAssumption, Ports, Cores
<1>4. QueuesDone
  <2>1. pc # "fill" /\ pc \notin {"tx_queue", "fill"} /\ (pc \in QueuePcs => pc = "mempool")
    BY <1>1 DEF QueuePcs
  <2>2. /\ \A p \in Ports, c \in Cores : ~(p < pid) /\ ~(p = pid /\ c < i)
        /\ \A c \in Cores : ~(c < i)
    BY <1>1, <1>3
  <2> QED
    BY <2>1, <2>2 DEF QueuesDone
<1>5. pc = "start" => Ready
  <2>1. NbPorts > 0 => Ports # {}
    BY LoopVariables
  <2> QED
    BY <1>2, <2>1 DEF Ready
<1>6. PortsDone
  <2>1. pc \notin {"launch", "lcore", "join"} \cup FlowPcs
    BY <1>1 DEF FlowPcs
  <2>2. \A l \in Lcores : lcore[l] # "running"
    BY <1>1
  <2>3. \A p \in Ports : ~(p < pid)
    BY <1>1, <1>3
  <2> QED
    BY <1>5, <2>1, <2>2, <2>3 DEF PortsDone
<1>7. LaunchOK
  BY <1>1, StartupAssumption DEF StartupAssumption, LaunchOK, SetupPcs, QueuePcs, FlowPcs
<1> QED
  BY <1>4, <1>6, <1>7 DEF ReadyInv

\* The steps of a queue keep what is done and add their own part.
LEMMA QueueStepReady ==
  ASSUME TypeInv, ReadyInv, CreateMempool \/ SetupRxQueue \/ SetupTxQueue
  PROVE  ReadyInv'
<1>1. pid \in Ports /\ i \in Cores
  BY DEF CreateMempool, SetupRxQueue, SetupTxQueue, TypeInv, ControlOK, QueuePcs
<1>2. /\ pc \in QueuePcs /\ pc' \in QueuePcs
      /\ pid' = pid /\ i' = i /\ lcore' = lcore /\ started' = started
      /\ filled' = filled
  BY DEF CreateMempool, SetupRxQueue, SetupTxQueue, QueuePcs
<1>3. \A l \in Lcores : lcore[l] = "wait"
  BY <1>2 DEF ReadyInv, LaunchOK, SetupPcs
<1>4. LaunchOK'
  BY <1>2, <1>3, StartupAssumption
     DEF StartupAssumption, LaunchOK, QueuePcs, SetupPcs, FlowPcs
<1>5. PortsDone'
  BY <1>2, <1>3 DEF PortsDone, QueuePcs, FlowPcs
<1>6. failed' = FALSE => failed = FALSE
  BY DEF CreateMempool, SetupRxQueue, SetupTxQueue, TypeInv, TypeOK
<1>i. i \in Int /\ pid \in Int /\ Cores \subseteq Int /\ Ports \subseteq Int /\ ~(i < i) /\ ~(pid < pid)
  BY <1>1, StartupAssumption DEF Ports, Cores
<1>7. ASSUME ~failed' PROVE QueuesDone'
  <2>0. ~failed /\ QueuesDone
    BY <1>6, <1>7 DEF ReadyInv, TypeInv, TypeOK
  <2>1. CASE CreateMempool
    <3>1. /\ pc' = "rx_queue" /\ pkt_mempool' = [pkt_mempool EXCEPT ![i] = Own(pid, i)]
          /\ rx_pool' = rx_pool /\ tx_queues' = tx_queues
      BY <1>7, <2>1 DEF CreateMempool, NewPool, Own, TypeInv, TypeOK
    <3> QED
      BY <1>1, <1>2, <1>i, <2>0, <3>1 DEF QueuesDone, QueueReady, TypeInv, TypeOK
  <2>2. CASE SetupRxQueue
    <3>1. /\ pc' = "tx_queue" /\ rx_pool' = [rx_pool EXCEPT ![<<pid, i>>] = pkt_mempool[i]]
          /\ pkt_mempool' = pkt_mempool /\ tx_queues' = tx_queues /\ pkt_mempool[i] = Own(pid, i)
      BY <1>2, <1>7, <2>0, <2>2 DEF SetupRxQueue, QueuesDone
    <3>2. rx_pool' \in [Ports \X Cores -> Pools \cup {NoPool}] /\ rx_pool'[<<pid, i>>] = Own(pid, i)
      BY <1>1, <3>1 DEF TypeInv, TypeOK
    <3>3. \A p \in Ports, c \in Cores : QueueReady(p, c) => QueueReady(p, c)'
      BY <1>1, <1>2, <3>1, <3>2 DEF QueueReady, TypeInv, TypeOK
    <3> QED
      BY <1>2, <1>i, <2>0, <3>1, <3>2, <3>3 DEF QueuesDone
  <2>3. CASE SetupTxQueue
    <3>1. /\ pc = "tx_queue" /\ pc' = "fill" /\ tx_queues' = tx_queues \cup {<<pid, i>>}
          /\ pkt_mempool' = pkt_mempool /\ rx_pool' = rx_pool
      BY <1>7, <2>3 DEF SetupTxQueue
    <3>2. \A p \in Ports, c \in Cores : QueueReady(p, c) => QueueReady(p, c)'
      BY <1>2, <3>1 DEF QueueReady
    <3> QED
      BY <1>2, <2>0, <3>1, <3>2 DEF QueuesDone
  <2> QED
    BY <2>1, <2>2, <2>3
<1> QED
  BY <1>4, <1>5, <1>7 DEF ReadyInv

\* The fill completes a queue, and the last one completes them all.
LEMMA FillReady ==
  ASSUME TypeInv, ReadyInv, FillTable
  PROVE  ReadyInv'
<1>1. pid \in Ports /\ i \in Cores /\ pc = "fill"
  BY DEF FillTable, TypeInv, ControlOK, QueuePcs
<1>2. /\ lcore' = lcore /\ started' = started /\ failed' = failed
      /\ pkt_mempool' = pkt_mempool /\ rx_pool' = rx_pool /\ tx_queues' = tx_queues
  BY DEF FillTable
<1>3. \A l \in Lcores : lcore[l] = "wait"
  BY <1>1 DEF ReadyInv, LaunchOK, SetupPcs, QueuePcs
<1>4. pc' \in {"aborted", "mempool", "start"}
  BY <1>1, NextQueueType DEF FillTable
<1>5. LaunchOK'
  BY <1>2, <1>3, <1>4, StartupAssumption
     DEF StartupAssumption, LaunchOK, QueuePcs, SetupPcs, FlowPcs
<1>6. ASSUME ~failed' PROVE QueuesDone' /\ PortsDone'
  <2>0. ~failed /\ QueuesDone /\ pkt_mempool[i] = Own(pid, i)
    BY <1>1, <1>2, <1>6 DEF ReadyInv, QueuesDone, QueuePcs
  <2>1. pkt_mempool[i] # NoPool
    BY <1>1, <2>0, NewPoolType DEF NewPool, Own
  <2>2. filled' = [filled EXCEPT ![<<pid, i>>] = Own(pid, i)] /\ NextQueue
    BY <2>0, <2>1 DEF FillTable
  <2>3. \A p \in Ports, c \in Cores : p = pid /\ c = i => QueueReady(p, c)'
    <3>1. rx_pool[<<pid, i>>] = Own(pid, i) /\ <<pid, i>> \in tx_queues
      BY <1>1, <2>0 DEF QueuesDone, QueuePcs
    <3>2. filled \in [Ports \X Cores -> Pools \cup {NoPool}] /\ <<pid, i>> \in Ports \X Cores
      BY <1>1 DEF TypeInv, TypeOK
    <3>3. filled'[<<pid, i>>] = Own(pid, i)
      BY <2>2, <3>2
    <3> QED
      BY <1>2, <3>1, <3>3 DEF QueueReady
  <2>4. \A p \in Ports, c \in Cores : QueueReady(p, c) => QueueReady(p, c)'
    BY <1>1, <1>2, <2>2, <2>3 DEF QueueReady, TypeInv, TypeOK
  <2>5. \A p \in Ports, c \in Cores : p < pid \/ (p = pid /\ c <= i) => QueueReady(p, c)'
    <3> SUFFICES ASSUME NEW p \in Ports, NEW c \in Cores, p < pid \/ (p = pid /\ c <= i)
                 PROVE  QueueReady(p, c)'
      OBVIOUS
    <3>1. (p = pid /\ c = i) \/ p < pid \/ (p = pid /\ c < i)
      BY <1>1, StartupAssumption DEF Ports, Cores
    <3>2. CASE p = pid /\ c = i
      BY <2>3, <3>2
    <3>3. CASE p < pid \/ (p = pid /\ c < i)
      <4>1. QueueReady(p, c)
        BY <1>1, <2>0, <3>3 DEF QueuesDone, QueuePcs
      <4> QED
        BY <2>4, <4>1
    <3> QED
      BY <3>1, <3>2, <3>3
  <2>6. \A c \in Cores : c <= i => pkt_mempool'[c] = Own(pid, c)
    <3> SUFFICES ASSUME NEW c \in Cores, c <= i PROVE pkt_mempool[c] = Own(pid, c)
      BY <1>2
    <3>1. c = i \/ c < i
      BY <1>1, StartupAssumption DEF Cores
    <3> QED
      BY <1>1, <2>0, <3>1 DEF QueuesDone, QueuePcs
  <2>7. CASE pc' = "mempool" /\ pid' = pid /\ i' = i + 1
    <3>1. /\ \A p \in Ports, c \in Cores : p < pid \/ (p = pid /\ c < i + 1) => QueueReady(p, c)'
          /\ \A c \in Cores : c < i + 1 => pkt_mempool'[c] = Own(pid, c)
      <4>1. \A c \in Cores : c < i + 1 <=> c <= i
        BY <1>1, StartupAssumption DEF Cores
      <4> QED
        BY <2>5, <2>6, <4>1
    <3>2. QueuesDone'
      BY <2>7, <3>1 DEF QueuesDone
    <3>3. PortsDone'
      BY <1>2, <1>3, <2>7 DEF PortsDone, FlowPcs
    <3> QED
      BY <3>2, <3>3
  <2>8. CASE pc' = "mempool" /\ pid' = pid + 1 /\ i' = 0 /\ i + 1 = NbCore
    <3>1. /\ \A p \in Ports, c \in Cores : p < pid + 1 \/ (p = pid + 1 /\ c < 0) => QueueReady(p, c)'
          /\ \A c \in Cores : ~(c < 0)
      <4>1. /\ \A c \in Cores : c <= i /\ ~(c < 0)
            /\ \A p \in Ports : p < pid + 1 => p < pid \/ p = pid
        BY <1>1, <2>8, StartupAssumption DEF Cores, Ports, StartupAssumption
      <4> QED
        BY <2>5, <4>1
    <3>2. QueuesDone'
      BY <2>8, <3>1 DEF QueuesDone
    <3>3. PortsDone'
      BY <1>2, <1>3, <2>8 DEF PortsDone, FlowPcs
    <3> QED
      BY <3>2, <3>3
  <2>9. CASE pc' = "start" /\ pid' = 0 /\ i' = 0 /\ i + 1 = NbCore /\ pid + 1 = NbPorts
    <3>1. /\ \A c \in Cores : c <= i
          /\ \A p \in Ports : (p < pid \/ p = pid) /\ ~(p < 0)
          /\ NbPorts - 1 = pid
      BY <1>1, <2>9, StartupAssumption DEF Cores, Ports, StartupAssumption
    <3>2. Ready'
      BY <2>5, <2>6, <3>1 DEF Ready
    <3>3. PortsDone'
      BY <1>2, <1>3, <2>9, <3>1, <3>2 DEF PortsDone, FlowPcs
    <3> QED
      BY <2>9, <3>3 DEF QueuesDone, QueuePcs
  <2> QED
    BY <1>1, <2>2, <2>7, <2>8, <2>9, NextQueueType
<1> QED
  BY <1>5, <1>6 DEF ReadyInv

\* Without a failing call every port starts.
LEMMA StartReady ==
  ASSUME TypeInv, ReadyInv, StartPort \/ EndStart
  PROVE  ReadyInv'
<1>1. /\ pc = "start" /\ pc' \in {"start", "validate"} /\ lcore' = lcore
      /\ pkt_mempool' = pkt_mempool /\ rx_pool' = rx_pool /\ tx_queues' = tx_queues
      /\ filled' = filled
  BY DEF StartPort, EndStart, queueVars
<1>2. \A l \in Lcores : lcore[l] = "wait"
  BY <1>1 DEF ReadyInv, LaunchOK, SetupPcs
<1>3. LaunchOK'
  BY <1>1, <1>2, StartupAssumption DEF StartupAssumption, LaunchOK
<1>4. QueuesDone'
  BY <1>1 DEF QueuesDone, QueuePcs
<1>5. ASSUME ~failed' PROVE PortsDone'
  <2>1. ~failed /\ PortsDone
    BY <1>5 DEF ReadyInv, StartPort, EndStart, TypeInv, TypeOK
  <2>2. Ready'
    BY <1>1, <2>1 DEF PortsDone, Ready, QueueReady
  <2>3. CASE StartPort
    <3>1. pid \in Ports /\ pid' = pid + 1 /\ started' = started \cup {pid} /\ pc' = "start"
      BY <1>1, <1>5, <2>3, LoopVariables DEF StartPort, TypeInv, TypeOK
    <3>2. \A p \in Ports : p < pid + 1 => p < pid \/ p = pid
      BY <3>1, StartupAssumption DEF Ports
    <3> QED
      BY <1>1, <1>2, <2>1, <2>2, <3>1, <3>2 DEF PortsDone, FlowPcs
  <2>4. CASE EndStart
    <3>1. \A p \in Ports : p < NbPorts
      BY StartupAssumption DEF StartupAssumption, Ports
    <3>2. started = Ports
      BY <1>1, <2>1, <2>4, <3>1 DEF PortsDone, EndStart, TypeInv, TypeOK
    <3> QED
      BY <1>1, <1>2, <2>2, <2>4, <3>2 DEF PortsDone, EndStart, FlowPcs
  <2> QED
    BY <2>3, <2>4
<1> QED
  BY <1>3, <1>4, <1>5 DEF ReadyInv

\* The flow rules, the launch, the join and the stop leave the queues alone, and the
\* ports are only stopped when no lcore runs.
LEMMA LaunchReady ==
  ASSUME TypeInv, ReadyInv,
         \/ ValidateFlow \/ CreateFlow \/ FlushFlows \/ NextFlowCore \/ EndFlows
         \/ (\E l \in Workers : LaunchWorker(l)) \/ RunMainLcore
         \/ (\E l \in Workers : WorkerReturns(l)) \/ MainReturns \/ Join \/ StopPort \/ Return
         \/ (\E l \in Lcores : LcoreExits(l)) \/ UNCHANGED vars
  PROVE  ReadyInv'
<1>1. /\ pkt_mempool' = pkt_mempool /\ rx_pool' = rx_pool /\ tx_queues' = tx_queues
      /\ filled' = filled /\ (~failed' => ~failed)
      /\ lcore \in [Lcores -> {"wait", "running", "finished"}]
      /\ MainLcore \in Lcores /\ MainLcore \notin Workers /\ Workers \subseteq Lcores
      /\ Lcores = Workers \cup {MainLcore}
  BY StartupAssumption
     DEF ValidateFlow, CreateFlow, FlushFlows, NextFlowCore, EndFlows, LaunchWorker, RunMainLcore,
         WorkerReturns, MainReturns, Join, StopPort, Return, LcoreExits, vars, queueVars,
         TypeInv, TypeOK, StartupAssumption, Workers
<1>2. Ready => Ready'
  BY <1>1 DEF Ready, QueueReady
<1>3. CASE ValidateFlow \/ CreateFlow \/ FlushFlows \/ NextFlowCore \/ EndFlows
  <2>1. /\ pc \in FlowPcs /\ pc' \in FlowPcs \cup {"launch"}
        /\ lcore' = lcore /\ started' = started
    BY <1>3 DEF ValidateFlow, CreateFlow, FlushFlows, NextFlowCore, EndFlows, FlowPcs
  <2>2. \A l \in Lcores : lcore[l] = "wait"
    BY <2>1 DEF ReadyInv, LaunchOK, SetupPcs
  <2>3. LaunchOK'
    BY <1>1, <2>1, <2>2 DEF LaunchOK, FlowPcs
  <2>4. QueuesDone'
    BY <2>1 DEF QueuesDone, QueuePcs, FlowPcs
  <2>5. ~failed => PortsDone'
    BY <1>2, <2>1, <2>2 DEF ReadyInv, PortsDone, FlowPcs
  <2> QED
    BY <1>1, <2>3, <2>4, <2>5 DEF ReadyInv
<1>4. ASSUME NEW l \in Workers, LaunchWorker(l) PROVE ReadyInv'
  BY <1>1, <1>2, <1>4
     DEF LaunchWorker, ReadyInv, LaunchOK, SetupPcs, QueuePcs, FlowPcs, QueuesDone, PortsDone
<1>5. CASE RunMainLcore
  BY <1>1, <1>2, <1>5
     DEF RunMainLcore, ReadyInv, LaunchOK, SetupPcs, QueuePcs, FlowPcs, QueuesDone, PortsDone
<1>6. ASSUME NEW l \in Workers, WorkerReturns(l) PROVE ReadyInv'
  <2>1. /\ lcore[l] = "running" /\ lcore' = [lcore EXCEPT ![l] = "finished"] /\ started' = started
        /\ pc' = pc /\ failed' = failed
    BY <1>6 DEF WorkerReturns
  <2>2. pc \notin SetupPcs
    BY <1>1, <2>1 DEF ReadyInv, LaunchOK
  <2>3. LaunchOK'
    BY <1>1, <2>1, <2>2 DEF ReadyInv, LaunchOK
  <2>4. QueuesDone'
    BY <2>1, <2>2 DEF QueuesDone, SetupPcs
  <2>5. ~failed => PortsDone'
    BY <1>1, <1>2, <2>1, <2>2 DEF ReadyInv, PortsDone, SetupPcs, FlowPcs
  <2> QED
    BY <2>1, <2>3, <2>4, <2>5 DEF ReadyInv
<1>7. CASE MainReturns
  BY <1>1, <1>2, <1>7
     DEF MainReturns, ReadyInv, LaunchOK, SetupPcs, QueuePcs, FlowPcs, QueuesDone, PortsDone
<1>8. CASE Join
  BY <1>1, <1>2, <1>8
     DEF Join, AllFinished, ReadyInv, LaunchOK, SetupPcs, QueuePcs, FlowPcs, QueuesDone, PortsDone
<1>9. CASE StopPort \/ Return
  <2>1. pc = "stop" /\ pc' \in {"stop", "returned"} /\ lcore' = lcore
    BY <1>9 DEF StopPort, Return
  <2> QED
    BY <2>1 DEF ReadyInv, LaunchOK, SetupPcs, QueuePcs, FlowPcs, QueuesDone, PortsDone
<1>10. ASSUME NEW l \in Lcores, LcoreExits(l) PROVE ReadyInv'
  BY <1>1, <1>2, <1>10
     DEF LcoreExits, ReadyInv, LaunchOK, SetupPcs, QueuePcs, FlowPcs, QueuesDone, PortsDone
<1>11. CASE UNCHANGED vars
  BY <1>1, <1>2, <1>11 DEF vars, ReadyInv, LaunchOK, QueuesDone, QueueReady, PortsDone
<1> QED
  BY <1>3, <1>4, <1>5, <1>6, <1>7, <1>8, <1>9, <1>10, <1>11

\* Every step.
LEMMA NextReadyInv == TypeInv /\ ReadyInv /\ [Next]_vars => ReadyInv'
BY QueueStepReady, FillReady, StartReady, LaunchReady DEF Next, MainStep, ConfigStep, Ended

\* When no call of the set-up has failed an lcore that runs finds all ports started,
\* its queues and tables set up with its own pools, and refills from the last one:
\* the state Lcore starts from, which lasts until the lcore has returned.
THEOREM LcoreInitCorrect == Spec => []LcoreInitHolds
<1>1. Spec => []TypeInv
  BY InitTypeInv, NextTypeInv, PTL DEF Spec
<1>2. Spec => []ReadyInv
  BY <1>1, InitReadyInv, NextReadyInv, PTL DEF Spec
<1>3. ReadyInv => LcoreInitHolds
  BY DEF ReadyInv, PortsDone, Ready, QueueReady, Own, LcoreInitHolds
<1> QED
  BY <1>2, <1>3, PTL

-----------------------------------------------------------------------------
(* The flow rules. *)

Pending(p, c)  == pc = "create" /\ pid = p /\ i = c
AnnouncedAt(p) == {c \in Cores : <<p, c>> \in announced}
Settled(p)     == {c \in AnnouncedAt(p) : ~Pending(p, c)}

\* Rules are announced core by core, and for each core port by port.
FlowOrder ==
  /\ pc \in QueuePcs \cup {"start"} => announced = {}
  /\ pc = "create" => <<pid, i>> \in announced
  /\ pc \in FlowPcs => \A p \in Ports, c \in Cores :
       <<p, c>> \in announced => c < i \/ (c = i /\ p < pid) \/ Pending(p, c)

\* A table holds rules that were announced, and all of them if they fit and the port
\* refused none of them.
FlowRules ==
  \A p \in Ports :
    /\ flows[p] \subseteq {Rule(c) : c \in Settled(p)}
    /\ p \notin refused /\ Cardinality(AnnouncedAt(p)) <= FlowCap
         => flows[p] = {Rule(c) : c \in Settled(p)}

FlowInv == FlowOrder /\ FlowRules /\ NewestFlowsKept

\* The rules of two cores differ.
LEMMA RuleInjective == \A c, d : Rule(c) = Rule(d) => c = d
BY DEF Rule

\* There are finitely many cores.
LEMMA CoresFinite == IsFiniteSet(Cores)
<1>1. NbCore - 1 \in Int /\ 0 \in Int
  BY StartupAssumption DEF StartupAssumption
<1> QED
  BY <1>1, FS_Interval DEF Cores

\* No rule is announced or created at first.
LEMMA InitFlowInv == Init => FlowInv
BY DEF Init, FlowInv, FlowOrder, FlowRules, NewestFlowsKept, AnnouncedAt, Settled, FlowPcs

\* A table is flushed only if the port refused a rule, or more rules were announced
\* than it holds.
LEMMA FlushMeansTooMany ==
  ASSUME TypeInv, FlowInv, FlushFlows, pid \notin refused'
  PROVE  ~(Cardinality(AnnouncedAt(pid)) <= FlowCap)
<1>1. pid \in Ports /\ i \in Cores /\ pc = "create" /\ <<pid, i>> \in announced
  BY DEF FlushFlows, TypeInv, ControlOK, FlowInv, FlowOrder
<1> DEFINE A == AnnouncedAt(pid)
           rules == flows[pid]
           f == [r \in rules |-> r.queue]
<1>2. i \in A /\ Settled(pid) = A \ {i}
  BY <1>1 DEF AnnouncedAt, Settled, Pending
<1>3. IsFiniteSet(A)
  <2>1. A \in SUBSET Cores
    BY DEF AnnouncedAt
  <2> QED
    BY <2>1, CoresFinite, FS_Subset
<1>4. f \in Injection(rules, A \ {i})
  <2>1. \A r \in rules : \E c \in A \ {i} : r = Rule(c)
    BY <1>1, <1>2 DEF FlowInv, FlowRules
  <2>2. \A r \in rules : r.queue \in A \ {i} /\ r = Rule(r.queue)
    BY <2>1 DEF Rule
  <2>3. f \in [rules -> A \ {i}]
    BY <2>2
  <2>4. \A r, s \in rules : f[r] = f[s] => r = s
    BY <2>2
  <2> QED
    BY <2>3, <2>4 DEF Injection, IsInjective
<1>5. IsFiniteSet(A \ {i}) /\ Cardinality(A \ {i}) = Cardinality(A) - 1
  BY <1>2, <1>3, FS_RemoveElement
<1>6. Cardinality(rules) <= Cardinality(A \ {i})
  BY <1>4, <1>5, FS_Injection
<1>7. /\ Cardinality(A) \in Nat /\ Cardinality(rules) \in Nat /\ FlowCap \in Nat
      /\ ~(Cardinality(rules) < FlowCap)
  <2>1. IsFiniteSet(rules)
    BY <1>4, <1>5, FS_Injection
  <2>2. ~HasRoom(pid)
    BY DEF FlushFlows
  <2> QED
    BY <1>3, <2>1, <2>2, FS_CardinalityType, StartupAssumption DEF HasRoom, StartupAssumption
<1> HIDE DEF A, rules, f
<1>8. ~(Cardinality(A) <= FlowCap)
  BY <1>5, <1>6, <1>7
<1> QED
  BY <1>8 DEF A

\* A new rule is announced: it is the latest, and pending.
LEMMA ValidateFlowInv ==
  ASSUME TypeInv, FlowInv, ValidateFlow
  PROVE  FlowInv'
<1>1. /\ pid \in Ports /\ i \in Cores /\ pc = "validate"
      /\ flows' = flows /\ refused' = refused /\ i' = i
  BY LoopVariables DEF ValidateFlow, TypeInv, TypeOK
<1>i. i \in Int /\ pid \in Int /\ Ports \subseteq Int /\ Cores \subseteq Int
      /\ ~(i < i) /\ ~(pid < pid)
  BY <1>1, StartupAssumption DEF Ports, Cores
<1>2. <<pid, i>> \notin announced
  BY <1>1, <1>i DEF FlowInv, FlowOrder, FlowPcs, Pending
<1>3. CASE pc' = "create" /\ pid' = pid /\ announced' = announced \cup {<<pid, i>>}
  <2>1. FlowOrder'
    BY <1>1, <1>i, <1>3 DEF FlowInv, FlowOrder, FlowPcs, QueuePcs, Pending
  <2>2. \A p \in Ports : Settled(p)' = Settled(p) /\ AnnouncedAt(p) \subseteq AnnouncedAt(p)'
    BY <1>1, <1>2, <1>3 DEF Settled, AnnouncedAt, Pending
  <2>3. \A p \in Ports : Cardinality(AnnouncedAt(p)') <= FlowCap
                           => Cardinality(AnnouncedAt(p)) <= FlowCap
    <3> SUFFICES ASSUME NEW p \in Ports, Cardinality(AnnouncedAt(p)') <= FlowCap
                 PROVE  Cardinality(AnnouncedAt(p)) <= FlowCap
      OBVIOUS
    <3>1. FlowCap \in Nat /\ AnnouncedAt(p)' \in SUBSET Cores
      BY StartupAssumption DEF StartupAssumption, AnnouncedAt
    <3>2. IsFiniteSet(AnnouncedAt(p)') /\ AnnouncedAt(p) \in SUBSET AnnouncedAt(p)'
      BY <2>2, <3>1, CoresFinite, FS_Subset
    <3>3. /\ Cardinality(AnnouncedAt(p)') \in Nat /\ Cardinality(AnnouncedAt(p)) \in Nat
          /\ Cardinality(AnnouncedAt(p)) <= Cardinality(AnnouncedAt(p)')
      BY <3>2, FS_Subset, FS_CardinalityType
    <3> QED
      BY <3>1, <3>3
  <2>4. FlowRules'
    BY <1>1, <2>2, <2>3 DEF FlowInv, FlowRules
  <2>5. NewestFlowsKept'
    BY <1>1, <1>3 DEF FlowInv, NewestFlowsKept
  <2> QED
    BY <2>1, <2>4, <2>5 DEF FlowInv
<1>4. CASE pc' = pc /\ pid' = pid + 1 /\ announced' = announced
  <2>1. FlowOrder'
    BY <1>1, <1>i, <1>4 DEF FlowInv, FlowOrder, FlowPcs, QueuePcs, Pending
  <2>2. \A p \in Ports : Settled(p)' = Settled(p) /\ AnnouncedAt(p)' = AnnouncedAt(p)
    BY <1>1, <1>4 DEF Settled, AnnouncedAt, Pending
  <2>3. FlowRules' /\ NewestFlowsKept'
    BY <1>1, <1>4, <2>2 DEF FlowInv, FlowRules, NewestFlowsKept
  <2> QED
    BY <2>1, <2>3 DEF FlowInv
<1> QED
  BY <1>3, <1>4 DEF ValidateFlow

\* The pending rule enters the table.
LEMMA CreateFlowInv ==
  ASSUME TypeInv, FlowInv, CreateFlow
  PROVE  FlowInv'
<1>1. /\ pid \in Ports /\ i \in Cores /\ pc = "create" /\ pc' = "validate" /\ pid' = pid + 1
      /\ i' = i /\ announced' = announced /\ refused' = refused /\ <<pid, i>> \in announced
      /\ flows' = [flows EXCEPT ![pid] = @ \cup {Rule(i)}] /\ DOMAIN flows = Ports
  BY DEF CreateFlow, NewRules, TypeInv, TypeOK, ControlOK, FlowInv, FlowOrder
<1>i. i \in Int /\ pid \in Int /\ Ports \subseteq Int /\ Cores \subseteq Int
  BY <1>1, StartupAssumption DEF Ports, Cores
<1>2. FlowOrder'
  <2>1. pc \in FlowPcs
    BY <1>1 DEF FlowPcs
  <2>2. \A p \in Ports, c \in Cores :
          c < i \/ (c = i /\ p < pid) \/ Pending(p, c) => c < i \/ (c = i /\ p < pid + 1)
    BY <1>i DEF Pending
  <2> QED
    BY <1>1, <2>1, <2>2 DEF FlowInv, FlowOrder, QueuePcs
<1>3. FlowRules'
  <2> SUFFICES ASSUME NEW p \in Ports
               PROVE  /\ flows'[p] \subseteq {Rule(c) : c \in Settled(p)'}
                      /\ p \notin refused /\ Cardinality(AnnouncedAt(p)') <= FlowCap
                           => flows'[p] = {Rule(c) : c \in Settled(p)'}
    BY <1>1 DEF FlowRules
  <2>1. AnnouncedAt(p)' = AnnouncedAt(p)
    BY <1>1 DEF AnnouncedAt
  <2>2. CASE p = pid
    <3>1. Settled(p)' = Settled(p) \cup {i} /\ flows'[p] = flows[p] \cup {Rule(i)}
      BY <1>1, <2>2 DEF Settled, AnnouncedAt, Pending
    <3> QED
      BY <2>1, <3>1 DEF FlowInv, FlowRules
  <2>3. CASE p # pid
    <3>1. Settled(p)' = Settled(p) /\ flows'[p] = flows[p]
      BY <1>1, <2>3 DEF Settled, AnnouncedAt, Pending
    <3> QED
      BY <2>1, <3>1 DEF FlowInv, FlowRules
  <2> QED
    BY <2>2, <2>3
<1>4. NewestFlowsKept'
  <2> SUFFICES ASSUME NEW p \in Ports, NEW c \in Cores, NEW d \in Cores,
                      c < d, Rule(c) \in flows'[p], <<p, d>> \in announced
               PROVE  Rule(d) \in flows'[p]
    BY <1>1 DEF NewestFlowsKept
  <2>1. CASE p = pid /\ d = i
    BY <1>1, <2>1
  <2>2. CASE ~(p = pid /\ d = i)
    <3>1. d < i \/ (d = i /\ p < pid)
      BY <1>1, <2>2 DEF FlowInv, FlowOrder, FlowPcs, Pending
    <3>2. c # i
      BY <1>i, <3>1
    <3>3. Rule(c) \in flows[p]
      BY <1>1, <3>2, RuleInjective
    <3>4. Rule(d) \in flows[p]
      BY <2>2, <3>3 DEF FlowInv, NewestFlowsKept
    <3> QED
      BY <1>1, <3>4
  <2> QED
    BY <2>1, <2>2
<1> QED
  BY <1>2, <1>3, <1>4 DEF FlowInv

\* The table is emptied, or it is not and the port has refused the rule.
LEMMA FlushFlowsInv ==
  ASSUME TypeInv, FlowInv, FlushFlows
  PROVE  FlowInv'
<1>1. /\ pid \in Ports /\ pc' = pc /\ pid' = pid /\ i' = i /\ announced' = announced
      /\ flows' = [flows EXCEPT ![pid] = {}] \/ flows' = flows
      /\ DOMAIN flows = Ports /\ refused \subseteq refused'
  BY DEF FlushFlows, Flushed, TypeInv, TypeOK, ControlOK
<1>2. FlowOrder'
  BY <1>1 DEF FlowInv, FlowOrder, Pending
<1>3. \A p \in Ports : Settled(p)' = Settled(p) /\ AnnouncedAt(p)' = AnnouncedAt(p)
  BY <1>1 DEF Settled, AnnouncedAt, Pending
<1>4. FlowRules'
  BY <1>1, <1>3, FlushMeansTooMany DEF FlowInv, FlowRules
<1>5. NewestFlowsKept'
  BY <1>1 DEF FlowInv, NewestFlowsKept
<1> QED
  BY <1>2, <1>4, <1>5 DEF FlowInv

\* All other steps leave the tables alone.
LEMMA OtherFlowInv ==
  ASSUME TypeInv, FlowInv, UNCHANGED <<flows, announced, refused>>,
         (pc # "create" /\ pc' # "create") \/ (pc' = pc /\ pid' = pid /\ i' = i),
         \/ pc' \in QueuePcs \cup {"start"} /\ pc \in QueuePcs \cup {"start"}
         \/ pc' \notin SetupPcs
         \/ pc' = "validate" /\ pc = "start"
         \/ pc' = "validate" /\ pc = "validate" /\ i' = i + 1 /\ pid = NbPorts /\ i \in Cores
         \/ pc' = pc /\ pid' = pid /\ i' = i
  PROVE  FlowInv'
<1>1. \A p \in Ports : Settled(p)' = Settled(p) /\ AnnouncedAt(p)' = AnnouncedAt(p)
  BY DEF Settled, AnnouncedAt, Pending
<1>2. FlowRules' /\ NewestFlowsKept'
  BY <1>1 DEF FlowInv, FlowRules, NewestFlowsKept
<1>3. FlowOrder'
  <2>1. CASE pc' \in QueuePcs \cup {"start"} /\ pc \in QueuePcs \cup {"start"}
    BY <2>1 DEF FlowInv, FlowOrder, QueuePcs, FlowPcs
  <2>2. CASE pc' \notin SetupPcs
    BY <2>2 DEF FlowOrder, SetupPcs, FlowPcs
  <2>3. CASE pc' = "validate" /\ pc = "start"
    BY <2>3 DEF FlowInv, FlowOrder, QueuePcs
  <2>4. CASE pc' = "validate" /\ pc = "validate" /\ i' = i + 1 /\ pid = NbPorts /\ i \in Cores
    <3>1. \A c \in Cores : c < i \/ c = i => c < i + 1
      BY <2>4, StartupAssumption DEF Cores
    <3>2. \A p \in Ports, c \in Cores : <<p, c>> \in announced => c < i \/ c = i
      BY <2>4 DEF FlowInv, FlowOrder, FlowPcs, Pending
    <3> QED
      BY <2>4, <3>1, <3>2 DEF FlowOrder, QueuePcs
  <2>5. CASE pc' = pc /\ pid' = pid /\ i' = i
    BY <2>5 DEF FlowInv, FlowOrder, Pending
  <2> QED
    BY <2>1, <2>2, <2>3, <2>4, <2>5
<1> QED
  BY <1>2, <1>3 DEF FlowInv

\* Every step; an lcore that could end the process in the middle of the set-up, with a
\* rule pending, would run before the launch.
LEMMA NextFlowInv == TypeInv /\ ReadyInv /\ FlowInv /\ [Next]_vars => FlowInv'
<1> SUFFICES ASSUME TypeInv, ReadyInv, FlowInv, [Next]_vars PROVE FlowInv'
  OBVIOUS
<1>1. CASE CreateMempool \/ SetupRxQueue \/ SetupTxQueue
  BY <1>1, OtherFlowInv DEF CreateMempool, SetupRxQueue, SetupTxQueue, QueuePcs
<1>2. CASE FillTable
  <2>1. pc = "fill" /\ pc' \in {"aborted", "mempool", "start"} /\ UNCHANGED <<flows, announced, refused>>
    BY <1>2, NextQueueType DEF FillTable, TypeInv, ControlOK, QueuePcs
  <2> QED
    BY <2>1, OtherFlowInv DEF QueuePcs, SetupPcs, FlowPcs
<1>3. CASE StartPort \/ EndStart
  BY <1>3, OtherFlowInv DEF StartPort, EndStart
<1>4. CASE NextFlowCore
  <2>1. i \in Cores
    BY <1>4, LoopVariables DEF NextFlowCore, TypeInv, TypeOK
  <2> QED
    BY <1>4, <2>1, OtherFlowInv DEF NextFlowCore
<1>5. CASE \/ EndFlows \/ RunMainLcore \/ MainReturns \/ Join \/ StopPort \/ Return
           \/ (\E l \in Workers : LaunchWorker(l)) \/ (\E l \in Lcores : LcoreExits(l))
  <2>1. pc' \notin SetupPcs /\ UNCHANGED <<flows, announced, refused>>
    BY <1>5 DEF EndFlows, RunMainLcore, MainReturns, Join, StopPort, Return, LaunchWorker,
                LcoreExits, SetupPcs, QueuePcs, FlowPcs
  <2>2. pc # "create"
    <3>1. pc = "create" => \A l \in Lcores : lcore[l] = "wait"
      BY DEF ReadyInv, LaunchOK, SetupPcs, FlowPcs
    <3> QED
      BY <1>5, <3>1 DEF EndFlows, RunMainLcore, MainReturns, Join, StopPort, Return, LaunchWorker,
                        LcoreExits
  <2> QED
    BY <2>1, <2>2, OtherFlowInv DEF SetupPcs, FlowPcs
<1>6. ASSUME NEW l \in Workers, WorkerReturns(l) PROVE FlowInv'
  BY <1>6, OtherFlowInv DEF WorkerReturns
<1>7. CASE UNCHANGED vars
  BY <1>7, OtherFlowInv DEF vars
<1> QED
  BY <1>1, <1>2, <1>3, <1>4, <1>5, <1>6, <1>7, ValidateFlowInv, CreateFlowInv, FlushFlowsInv
     DEF Next, MainStep, ConfigStep, Ended

\* However often a table is flushed, a rule in it never outlives a later one.
THEOREM NewestFlowsCorrect == Spec => []NewestFlowsKept
<1>1. Spec => []TypeInv
  BY InitTypeInv, NextTypeInv, PTL DEF Spec
<1>2. Spec => []ReadyInv
  BY <1>1, InitReadyInv, NextReadyInv, PTL DEF Spec
<1>3. Spec => []FlowInv
  BY <1>1, <1>2, InitFlowInv, NextFlowInv, PTL DEF Spec
<1> QED
  BY <1>3, PTL DEF FlowInv

\* The port of one of 256 cores, before it is cut to 16 bits.
LEMMA PortRange ==
  ASSUME NEW x \in 0 .. 255
  PROVE  (x + 1) * 256 \in Int /\ 1 <= (x + 1) * 256 /\ (x + 1) * 256 <= UdpPorts
BY DEF UdpPorts

\* Up to 256 cores have ports of their own: the 257th would share the first one's.
LEMMA PortOfInjective ==
  ASSUME NbCore <= 256, NEW c \in Cores, NEW d \in Cores, PortOf(c) = PortOf(d)
  PROVE  c = d
<1>1. c \in 0 .. 255 /\ d \in 0 .. 255
  BY StartupAssumption DEF StartupAssumption, Cores
<1>2. UdpPorts \in Nat \ {0}
  BY DEF UdpPorts
<1>3. PICK a \in Int, b \in Int : a = (c + 1) * 256 /\ b = (d + 1) * 256
  BY <1>1, PortRange
<1>4. a \in 1 .. UdpPorts /\ b \in 1 .. UdpPorts
  BY <1>1, <1>2, <1>3, PortRange
<1>5. a % UdpPorts = b % UdpPorts
  BY <1>3 DEF PortOf
<1>6. a = b
  BY <1>2, <1>4, <1>5, OneTurn
<1> QED
  BY <1>1, <1>3, <1>6

\* With no more than 256 cores and a table that has room for the rules a port has
\* accepted, the replies to a core come to its own queue, whatever other calls failed.
THEOREM SteeringCorrect == ASSUME NbCore <= 256 PROVE Spec => []RepliesSteered
<1>1. Spec => []TypeInv
  BY InitTypeInv, NextTypeInv, PTL DEF Spec
<1>2. Spec => []ReadyInv
  BY <1>1, InitReadyInv, NextReadyInv, PTL DEF Spec
<1>3. Spec => []FlowInv
  BY <1>1, <1>2, InitFlowInv, NextFlowInv, PTL DEF Spec
<1>4. FlowInv => RepliesSteered
  <2> SUFFICES ASSUME FlowInv, FlowsConfigured, NEW p \in Ports,
                      p \notin refused, Cardinality(AnnouncedAt(p)) <= FlowCap,
                      NEW c \in Cores, <<p, c>> \in announced
               PROVE  Steering(p, PortOf(c)) = {c}
    BY DEF RepliesSteered, AnnouncedAt
  <2>1. flows[p] = {Rule(d) : d \in AnnouncedAt(p)}
    <3>1. Settled(p) = AnnouncedAt(p)
      BY DEF Settled, Pending, FlowsConfigured
    <3> QED
      BY <3>1 DEF FlowInv, FlowRules
  <2>2. c \in AnnouncedAt(p) /\ AnnouncedAt(p) \subseteq Cores
    BY DEF AnnouncedAt
  <2>3. {r \in flows[p] : r.dport = PortOf(c)} = {Rule(c)}
    <3>1. Rule(c) \in flows[p] /\ Rule(c).dport = PortOf(c)
      BY <2>1, <2>2 DEF Rule
    <3>2. \A r \in flows[p] : r.dport = PortOf(c) => r = Rule(c)
      <4> SUFFICES ASSUME NEW d \in Cores, Rule(d).dport = PortOf(c) PROVE Rule(d) = Rule(c)
        BY <2>1, <2>2
      <4>1. PortOf(d) = PortOf(c)
        BY DEF Rule
      <4> QED
        BY <4>1, PortOfInjective
    <3> QED
      BY <3>1, <3>2
  <2>4. Steering(p, PortOf(c)) = {f.queue : f \in {Rule(c)}}
    BY <2>3 DEF Steering
  <2> QED
    BY <2>4 DEF Rule
<1> QED
  BY <1>3, <1>4, PTL

=============================================================================
