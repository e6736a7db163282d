----------------------------- MODULE LcoreProofs -----------------------------
(***************************************************************************)
(* Theorems of the module Lcore: its variables keep their types, every     *)
(* packet buffer has exactly one holder, nothing is written to a packet in *)
(* flight, how large the pool that serves every refill has to be, and that *)
(* the lcore implements the life cycle of packet buffers, MbufLifecycle.   *)
(***************************************************************************)
EXTENDS Lcore, FiniteSetTheorems, TLAPS

\* The sets of the model, without the parts of LcoreAssumption a leaf does not need.
LEMMA PortsFacts == 0 \in Ports /\ LastPort \in Ports /\ Ports \subseteq Int
BY LcoreAssumption DEF Ports, LastPort

\* A part of an interval is finite, so it has a size.
LEMMA PartOfInterval ==
  ASSUME NEW a \in Int, NEW b \in Int, NEW S, S \subseteq a .. b
  PROVE  Cardinality(S) \in Nat
BY FS_Interval, FS_Subset, FS_CardinalityType

-----------------------------------------------------------------------------
(* Types. *)

\* The initial values of the variables have their types.
LEMMA InitTypeOK == Init => TypeOK
<1> SUFFICES ASSUME Init PROVE TypeOK
  OBVIOUS
<1>1. now \in Nat
  BY LcoreAssumption DEF Init
<1>2. m_table \in [Ports -> [Slots -> Mbufs]] /\ len \in [Ports -> 0 .. Burst] /\ off \in 0 .. Burst
  BY LcoreAssumption DEF Init
<1>3. data \in [Mbufs -> Packets]
  BY DEF Init, Packets, Blank, Types
<1>4. wired \in [TxTypes -> Nat] /\ arrived \in [RxTypes -> Nat]
  BY DEF Init
<1>5. pool \subseteq Mbufs /\ rx_ring \in [Ports -> SUBSET Mbufs]
      /\ rx_ready \in [Ports -> SUBSET Mbufs] /\ tx_ring \in [Ports -> SUBSET Mbufs]
      /\ \A p \in Ports : rx_ready[p] \subseteq rx_ring[p]
  BY DEF Init
<1> QED
  BY PortsFacts, <1>1, <1>2, <1>3, <1>4, <1>5 DEF Init, TypeOK, Locations, Clients

\* A step of pktgen_setup_arp keeps the table's length and the buffers' contents typed.
LEMMA SetupArpType ==
  ASSUME TypeOK, SetupArp
  PROVE  len' \in [Ports -> 0 .. Burst] /\ data' \in [Mbufs -> Packets]
<1>1. CASE len[port] = Burst
  BY <1>1 DEF TypeOK, SetupArp, TableFull
<1>2. CASE len[port] # Burst
  <2>1. len[port] \in Slots /\ len[port] + 1 \in 0 .. Burst
    <3>1. len[port] \in 0 .. Burst
      BY DEF TypeOK
    <3> QED
      BY <1>2, <3>1, LcoreAssumption DEF LcoreAssumption, Slots
  <2>2. m_table[port][len[port]] \in Mbufs
    BY <2>1 DEF TypeOK
  <2>3. [type |-> "arp_reply", cksum |-> data[m_table[port][len[port]]].cksum] \in Packets
    BY <2>2 DEF TypeOK, Packets, Types, TxTypes
  <2>4. data' \in [Mbufs -> Packets]
    BY <1>2, <2>2, <2>3 DEF TypeOK, SetupArp, TableFull
  <2>5. len' \in [Ports -> 0 .. Burst]
    BY <1>2, <2>1 DEF TypeOK, SetupArp, TableFull
  <2> QED
    BY <2>4, <2>5
<1> QED
  BY <1>1, <1>2

\* The same for pktgen_setup_packets.
LEMMA SetupPacketsType ==
  ASSUME TypeOK, SetupPackets
  PROVE  /\ len' \in [Ports -> 0 .. Burst] /\ data' \in [Mbufs -> Packets]
         /\ nr_tx' \in Nat
<1>1. CASE len[port] = Burst
  BY <1>1 DEF TypeOK, SetupPackets, TableFull, Sent
<1>2. CASE len[port] # Burst
  <2>1. len[port] \in Slots /\ len[port] + 1 \in 0 .. Burst
    <3>1. len[port] \in 0 .. Burst
      BY DEF TypeOK
    <3> QED
      BY <1>2, <3>1, LcoreAssumption DEF LcoreAssumption, Slots
  <2>2. m_table[port][len[port]] \in Mbufs
    BY <2>1 DEF TypeOK
  <2>3. [type |-> "request", cksum |-> TRUE] \in Packets
    BY DEF Packets, Types, TxTypes
  <2>4. data' \in [Mbufs -> Packets]
    BY <1>2, <2>2, <2>3 DEF TypeOK, SetupPackets, TableFull, Sent
  <2>5. len' \in [Ports -> 0 .. Burst] /\ nr_tx' \in Nat
    BY <1>2, <2>1 DEF TypeOK, SetupPackets, TableFull, Sent
  <2> QED
    BY <2>4, <2>5
<1> QED
  BY <1>1, <1>2

\* The number of packets of a kind among those a call of rte_eth_tx_burst accepts.
LEMMA TxBurstType ==
  ASSUME TypeOK, TxBurst
  PROVE  /\ off' \in 0 .. Burst /\ wired' \in [TxTypes -> Nat]
         /\ tx_ring' \in [Ports -> SUBSET Mbufs]
<1>1. PICK ret \in 0 .. len[port] - off :
        LET next == off .. off + ret - 1 IN
         /\ tx_ring' = [tx_ring EXCEPT ![port] = @ \cup {m_table[port][k] : k \in next}]
         /\ off' = off + ret
         /\ wired' = [t \in TxTypes |-> wired[t] +
                        Cardinality({k \in next : data[m_table[port][k]].type = t})]
  BY DEF TxBurst
<1> DEFINE next == off .. off + ret - 1
<1>2. len[port] \in 0 .. Burst /\ off \in 0 .. Burst
  BY DEF TypeOK
<1>3. off' \in 0 .. Burst
  BY <1>1, <1>2, LcoreAssumption
<1>4. \A k \in next : m_table[port][k] \in Mbufs
  <2>1. next \subseteq Slots
    BY <1>2, LcoreAssumption DEF Slots
  <2> QED
    BY <2>1 DEF TypeOK
<1>5. tx_ring' \in [Ports -> SUBSET Mbufs]
  <2>1. {m_table[port][k] : k \in next} \subseteq Mbufs
    BY <1>4
  <2> QED
    BY <1>1, <2>1 DEF TypeOK
<1>6. ASSUME NEW t \in TxTypes
      PROVE  Cardinality({k \in next : data[m_table[port][k]].type = t}) \in Nat
  <2>1. off \in Int /\ off + ret - 1 \in Int
    BY <1>2
  <2>2. {k \in next : data[m_table[port][k]].type = t} \subseteq off .. off + ret - 1
    OBVIOUS
  <2> HIDE DEF next
  <2> QED
    BY <2>1, <2>2, PartOfInterval
<1>7. wired' \in [TxTypes -> Nat]
  <2>1. wired' = [t \in TxTypes |-> wired[t] +
                   Cardinality({k \in next : data[m_table[port][k]].type = t})]
    BY <1>1
  <2> HIDE DEF next
  <2> QED
    BY <2>1, <1>6 DEF TypeOK
<1> QED
  BY <1>3, <1>5, <1>7

\* The next port is a port.
LEMMA NextPortType ==
  ASSUME TypeOK, NextPort
  PROVE  port' \in Ports /\ pc' \in Locations
BY LcoreAssumption DEF TypeOK, NextPort, Ports, LastPort, Locations

\* Every step keeps the types.
LEMMA NextTypeOK == TypeOK /\ [Next]_vars => TypeOK'
<1> SUFFICES ASSUME TypeOK, [Next]_vars PROVE TypeOK'
  OBVIOUS
<1> USE DEF TypeOK
<1>1. CASE InitClient
  <2>1. last_send' \in [Clients -> Nat]
    BY <1>1 DEF InitClient
  <2>2. interval' \in [Clients -> Nat]
    BY <1>1, LcoreAssumption DEF InitClient
  <2> QED
    BY <1>1, <2>1, <2>2 DEF InitClient, timerVars, tableVars, receiveVars, rxVars
<1>2. CASE StartClock
  BY <1>2 DEF StartClock, clientVars, tableVars, receiveVars, rxVars, Locations
<1>3. CASE CheckDeadline
  BY <1>3, PortsFacts DEF CheckDeadline, clientVars, tableVars, receiveVars, rxVars, Locations
<1>4. CASE Receive
  <2>1. PICK got \in SUBSET rx_ready[port], fresh \in SUBSET Available(port) :
          /\ burst' = got /\ todo' = got
          /\ pool' = pool \ fresh
          /\ rx_ring' = [rx_ring EXCEPT ![port] = (@ \ got) \cup fresh]
          /\ rx_ready' = [rx_ready EXCEPT ![port] = @ \ got]
          /\ pc' = IF got = {} THEN "clock" ELSE "handle"
    BY <1>4 DEF Receive
  <2>2. got \subseteq Mbufs /\ fresh \subseteq Mbufs
    <3>1. rx_ready[port] \subseteq Mbufs
      OBVIOUS
    <3> QED
      BY <3>1 DEF Available
  <2>3. /\ rx_ring' \in [Ports -> SUBSET Mbufs] /\ rx_ready' \in [Ports -> SUBSET Mbufs]
        /\ \A p \in Ports : rx_ready'[p] \subseteq rx_ring'[p]
    BY <2>1, <2>2
  <2> QED
    BY <1>4, <2>1, <2>2, <2>3
       DEF Receive, timerVars, clientVars, tableVars, Locations
<1>5. CASE HandlePacket
  <2>1. len' \in [Ports -> 0 .. Burst] /\ data' \in [Mbufs -> Packets]
    BY <1>5, SetupArpType DEF HandlePacket
  <2>2. todo' \subseteq burst /\ nr_rx' \in Nat
    BY <1>5 DEF HandlePacket
  <2> QED
    BY <1>5, <2>1, <2>2 DEF HandlePacket, timerVars, clientVars, rxVars
<1>6. CASE FreeBurst
  BY <1>6 DEF FreeBurst, Freed, timerVars, clientVars, tableVars, rxVars, Locations
<1>7. CASE ReadClock
  BY <1>7 DEF ReadClock, clientVars, tableVars, receiveVars, rxVars, Locations
<1>8. CASE ClientDue
  <2>1. /\ len' \in [Ports -> 0 .. Burst] /\ data' \in [Mbufs -> Packets]
        /\ nr_tx' \in Nat
    BY <1>8, SetupPacketsType DEF ClientDue, Reschedule
  <2>2. last_send' \in [Clients -> Nat]
    BY <1>8 DEF ClientDue, Reschedule
  <2>3. interval' \in [Clients -> Nat]
    BY <1>8, LcoreAssumption DEF ClientDue, Reschedule
  <2>4. sent_at' \in [Clients -> Nat]
    BY <1>8 DEF ClientDue, SetupPackets
  <2> QED
    BY <1>8, <2>1, <2>2, <2>3, <2>4 DEF ClientDue, Reschedule, timerVars, receiveVars, rxVars
<1>9. CASE ClientWaits
  BY <1>9 DEF ClientWaits, timerVars, clientVars, tableVars, receiveVars, rxVars
<1>10. CASE EndClients
  BY <1>10 DEF EndClients, timerVars, clientVars, tableVars, receiveVars, rxVars, Locations
<1>11. CASE NothingToSend
  BY <1>11, NextPortType DEF NothingToSend, timerVars, clientVars, tableVars, receiveVars, rxVars
<1>12. CASE TxBurst
  <2>1. /\ off' \in 0 .. Burst /\ wired' \in [TxTypes -> Nat]
        /\ tx_ring' \in [Ports -> SUBSET Mbufs]
    BY <1>12, TxBurstType
  <2>2. pc' \in Locations /\ idx' \in Nat
    BY <1>12 DEF TxBurst, Locations
  <2> QED
    BY <1>12, <2>1, <2>2 DEF TxBurst, timerVars, clientVars, receiveVars, rxVars
<1>13. CASE Refill
  <2>1. PICK m \in pool :
          /\ pool' = pool \ {m}
          /\ m_table' = [m_table EXCEPT ![port][idx] = m]
          /\ data' = [data EXCEPT ![m] = [type |-> @.type, cksum |-> FALSE]]
    BY <1>13 DEF Refill, Reset, Available
  <2>2. m_table' \in [Ports -> [Slots -> Mbufs]]
    BY <2>1
  <2>3. [type |-> data[m].type, cksum |-> FALSE] \in Packets
    BY DEF Packets
  <2>4. data' \in [Mbufs -> Packets]
    BY <2>1, <2>3
  <2> QED
    BY <1>13, <2>1, <2>2, <2>4 DEF Refill, Reset, timerVars, clientVars, receiveVars, rxVars
<1>14. CASE AllocFails
  BY <1>14 DEF AllocFails, timerVars, clientVars, tableVars, receiveVars, rxVars, Locations
<1>15. CASE EndRefill
  BY <1>15, NextPortType, LcoreAssumption DEF EndRefill, timerVars, clientVars, receiveVars, rxVars
<1>16. CASE Output
  BY <1>16 DEF Output, timerVars, clientVars, tableVars, receiveVars, rxVars, Locations
<1>17. ASSUME NEW p \in Ports, NEW m \in Mbufs, NicComplete(p, m) PROVE TypeOK'
  BY <1>17 DEF NicComplete, timerVars, clientVars, tableVars, receiveVars, rxVars
<1>18. ASSUME NEW p \in Ports, NEW m \in Mbufs, NEW t \in RxTypes, NicReceive(p, m, t)
       PROVE  TypeOK'
  <2>1. [type |-> t, cksum |-> FALSE] \in Packets
    BY DEF Packets, Types
  <2>2. data' \in [Mbufs -> Packets] /\ arrived' \in [RxTypes -> Nat]
    BY <1>18, <2>1 DEF NicReceive
  <2>3. /\ rx_ready' \in [Ports -> SUBSET Mbufs]
        /\ \A q \in Ports : rx_ready'[q] \subseteq rx_ring[q]
    BY <1>18 DEF NicReceive
  <2> QED
    BY <1>18, <2>2, <2>3 DEF NicReceive, timerVars, clientVars, tableVars, receiveVars
<1>19. CASE Tick
  BY <1>19 DEF Tick, timerVars, clientVars, tableVars, receiveVars, rxVars
<1>20. CASE UNCHANGED vars
  BY <1>20 DEF vars, timerVars, clientVars, tableVars, receiveVars, rxVars
<1> QED
  BY <1>1, <1>2, <1>3, <1>4, <1>5, <1>6, <1>7, <1>8, <1>9, <1>10, <1>11, <1>12, <1>13,
     <1>14, <1>15, <1>16, <1>17, <1>18, <1>19, <1>20 DEF Next, LcoreStep, Stopped

\* The variables of an lcore always have their types: in particular a table never
\* holds more than Burst packets and every slot names a buffer.
THEOREM TypeCorrect == Spec => []TypeOK
BY InitTypeOK, NextTypeOK, PTL DEF Spec
-----------------------------------------------------------------------------
(* Holders of buffers. *)

\* The inductive invariant: where the dangling slots of a table are, and that
\* the rest of the model agrees on who holds what.
HolderInv == ControlOK /\ OneHolder /\ NoLeak

\* The control part of the invariant, over every step.
LEMMA NextControlOK == TypeOK /\ TypeOK' /\ ControlOK /\ [Next]_vars => ControlOK'
<1> SUFFICES ASSUME TypeOK, TypeOK', ControlOK, [Next]_vars PROVE ControlOK'
  OBVIOUS
<1> USE DEF ControlOK
<1>1. CASE InitClient
  BY <1>1 DEF InitClient, tableVars, receiveVars
<1>2. CASE StartClock
  BY <1>2 DEF StartClock, tableVars, receiveVars
<1>3. CASE CheckDeadline
  BY <1>3 DEF CheckDeadline, tableVars, receiveVars, TypeOK
<1>4. CASE Receive
  BY <1>4 DEF Receive, tableVars
<1>5. CASE HandlePacket
  <2>1. len'[port] >= 0
    BY <1>5 DEF HandlePacket, TypeOK
  <2> QED
    BY <1>5, <2>1 DEF HandlePacket
<1>6. CASE FreeBurst
  BY <1>6 DEF FreeBurst, Freed, tableVars
<1>7. CASE ReadClock
  BY <1>7 DEF ReadClock, tableVars, receiveVars
<1>8. CASE ClientDue
  <2>1. len'[port] >= 0
    BY <1>8 DEF ClientDue, Reschedule, TypeOK
  <2> QED
    BY <1>8, <2>1 DEF ClientDue, Reschedule, receiveVars
<1>9. CASE ClientWaits
  BY <1>9 DEF ClientWaits, tableVars, receiveVars
<1>10. CASE EndClients
  BY <1>10 DEF EndClients, tableVars, receiveVars
<1>11. CASE NothingToSend
  BY <1>11 DEF NothingToSend, NextPort, tableVars, receiveVars, TypeOK
<1>12. CASE TxBurst
  BY <1>12 DEF TxBurst, receiveVars, TypeOK
<1>13. CASE Refill
  BY <1>13 DEF Refill, Reset, receiveVars
<1>14. CASE AllocFails
  BY <1>14 DEF AllocFails, tableVars, receiveVars
<1>15. CASE EndRefill
  BY <1>15 DEF EndRefill, NextPort, receiveVars, TypeOK
<1>16. CASE Output
  BY <1>16 DEF Output, tableVars, receiveVars
<1>17. ASSUME NEW p \in Ports, NEW m \in Mbufs, NicComplete(p, m) PROVE ControlOK'
  BY <1>17 DEF NicComplete, tableVars, receiveVars
<1>18. ASSUME NEW p \in Ports, NEW m \in Mbufs, NEW t \in RxTypes, NicReceive(p, m, t)
       PROVE  ControlOK'
  BY <1>18 DEF NicReceive, tableVars, receiveVars
<1>19. CASE Tick
  BY <1>19 DEF Tick, tableVars, receiveVars
<1>20. CASE UNCHANGED vars
  BY <1>20 DEF vars, tableVars, receiveVars
<1> QED
  BY <1>1, <1>2, <1>3, <1>4, <1>5, <1>6, <1>7, <1>8, <1>9, <1>10, <1>11, <1>12, <1>13,
     <1>14, <1>15, <1>16, <1>17, <1>18, <1>19, <1>20 DEF Next, LcoreStep, Stopped

\* A step that moves no buffer and leaves the dangling slots alone changes no holder.
LEMMA QuietStep ==
  ASSUME OneHolder, NoLeak, UNCHANGED <<m_table, pool, burst, tx_ring, rx_ring>>,
         \A p \in Ports : Stale(p)' = Stale(p)
  PROVE  OneHolder' /\ NoLeak'
BY DEF OneHolder, NoLeak, Live

\* The steps that move no buffer.
LEMMA QuietSteps ==
  ASSUME TypeOK, ControlOK, ControlOK', OneHolder, NoLeak,
         \/ InitClient \/ StartClock \/ CheckDeadline \/ HandlePacket \/ ReadClock
         \/ ClientDue \/ ClientWaits \/ EndClients \/ NothingToSend \/ AllocFails
         \/ EndRefill \/ Output \/ Tick \/ UNCHANGED vars
         \/ \E p \in Ports, m \in Mbufs, t \in RxTypes : NicReceive(p, m, t)
  PROVE  OneHolder' /\ NoLeak'
<1>1. UNCHANGED <<m_table, pool, burst, tx_ring, rx_ring>>
  BY DEF InitClient, StartClock, CheckDeadline, HandlePacket, ReadClock, ClientDue, Reschedule,
         ClientWaits, EndClients, NothingToSend, AllocFails, EndRefill, Output, Tick,
         NicReceive, vars, tableVars, receiveVars, rxVars
<1>2. ASSUME NEW p \in Ports PROVE Stale(p)' = Stale(p)
  <2>1. CASE InitClient \/ StartClock \/ CheckDeadline \/ HandlePacket \/ ReadClock
             \/ ClientDue \/ ClientWaits \/ Output
    BY <2>1 DEF InitClient, StartClock, CheckDeadline, HandlePacket, ReadClock, ClientDue, Reschedule,
                ClientWaits, Output, Stale
  <2>2. CASE EndClients
    BY <2>2 DEF EndClients, ControlOK, Stale, TypeOK, tableVars
  <2>3. CASE NothingToSend
    BY <2>3 DEF NothingToSend, NextPort, ControlOK, Stale, TypeOK, tableVars
  <2>4. CASE EndRefill
    BY <2>4 DEF EndRefill, NextPort, ControlOK, Stale, TypeOK
  <2>5. CASE AllocFails
    BY <2>5 DEF AllocFails, Stale, tableVars
  <2>6. CASE Tick \/ UNCHANGED vars
             \/ \E q \in Ports, m \in Mbufs, t \in RxTypes : NicReceive(q, m, t)
    BY <2>6 DEF Tick, vars, NicReceive, Stale, tableVars
  <2> QED
    BY <2>1, <2>2, <2>3, <2>4, <2>5, <2>6
<1> QED
  BY <1>1, <1>2, QuietStep

\* rte_eth_rx_burst moves buffers from the RX ring to the burst and from the
\* pool to the RX ring.
LEMMA ReceiveStep ==
  ASSUME TypeOK, ControlOK, OneHolder, NoLeak, Receive
  PROVE  OneHolder' /\ NoLeak'
<1>1. PICK got \in SUBSET rx_ready[port], fresh \in SUBSET Available(port) :
        /\ burst' = got
        /\ pool' = pool \ fresh
        /\ rx_ring' = [rx_ring EXCEPT ![port] = (@ \ got) \cup fresh]
  BY DEF Receive
<1>2. got \subseteq rx_ring[port] /\ fresh \subseteq pool /\ burst = {} /\ port \in Ports
  BY DEF Receive, TypeOK, ControlOK, Available
<1>3. UNCHANGED <<m_table, tx_ring>>
  BY DEF Receive, tableVars
<1>4. \A p \in Ports : Live(p)' = Live(p)
  BY DEF Receive, Stale, Live, tableVars
<1>5. \A q \in Ports : rx_ring'[q] = IF q = port THEN (rx_ring[q] \ got) \cup fresh
                                                  ELSE rx_ring[q]
  BY <1>1 DEF TypeOK
<1>6. OneHolder'
  BY <1>1, <1>2, <1>3, <1>4, <1>5 DEF OneHolder
<1>7. NoLeak'
  BY <1>1, <1>2, <1>3, <1>4, <1>5 DEF NoLeak
<1> QED
  BY <1>6, <1>7

\* rte_pktmbuf_free_bulk moves the burst to the pool.
LEMMA FreeBurstStep ==
  ASSUME OneHolder, NoLeak, FreeBurst
  PROVE  OneHolder' /\ NoLeak'
<1>1. \A p \in Ports : Live(p)' = Live(p)
  BY DEF FreeBurst, Freed, Stale, Live, tableVars
<1>2. /\ pool' = pool \cup burst /\ burst' = {}
      /\ UNCHANGED <<m_table, tx_ring, rx_ring>>
  BY DEF FreeBurst, Freed, tableVars, rxVars
<1>3. OneHolder'
  BY <1>1, <1>2 DEF OneHolder
<1>4. NoLeak'
  BY <1>1, <1>2 DEF NoLeak
<1> QED
  BY <1>3, <1>4

\* rte_eth_tx_burst moves the buffers of the next slots to the TX ring: the slots
\* dangle from then on.
LEMMA TxBurstStep ==
  ASSUME TypeOK, ControlOK, OneHolder, NoLeak, TxBurst
  PROVE  OneHolder' /\ NoLeak'
<1>1. PICK ret \in 0 .. len[port] - off :
        /\ tx_ring' = [tx_ring EXCEPT ![port] =
                         @ \cup {m_table[port][k] : k \in off .. off + ret - 1}]
        /\ off' = off + ret
        /\ IF off + ret = len[port]
             THEN pc' = "refill" /\ idx' = 0
             ELSE UNCHANGED <<pc, idx>>
  BY DEF TxBurst
<1> DEFINE next == off .. off + ret - 1
           sent == {m_table[port][k] : k \in next}
<1>2. port \in Ports /\ len[port] \in 0 .. Burst /\ off \in 0 .. Burst /\ pc = "transmit"
      /\ UNCHANGED <<m_table, len, port, pool, burst, rx_ring>>
  BY DEF TxBurst, TypeOK, receiveVars, rxVars
<1>3. Live(port) = Slots \ (0 .. off - 1) /\ Live(port)' = Slots \ (0 .. off + ret - 1)
  BY <1>1, <1>2 DEF Live, Stale
<1>4. next \subseteq Live(port) /\ Live(port)' = Live(port) \ next
  BY <1>1, <1>2, <1>3, LcoreAssumption DEF Slots
<1>5. \A p \in Ports : p # port => Live(p)' = Live(p)
  BY <1>2 DEF Live, Stale
<1>6. \A q \in Ports : \A n : n \in tx_ring'[q] <=> n \in tx_ring[q] \/ (q = port /\ n \in sent)
  BY <1>1 DEF TypeOK
<1> HIDE DEF next
<1>7. \A m \in sent : \E k \in Live(port) : k \in next /\ m = m_table[port][k]
  BY <1>4
<1>8. \A k \in next : m_table[port][k] \in sent
  OBVIOUS
<1> HIDE DEF sent
<1>9. OneHolder'
  BY <1>2, <1>4, <1>5, <1>6, <1>7 DEF OneHolder
<1>10. NoLeak'
  BY <1>2, <1>4, <1>5, <1>6, <1>8 DEF NoLeak
<1> QED
  BY <1>9, <1>10

\* A refill moves a buffer from the pool to the first dangling slot.
LEMMA RefillStep ==
  ASSUME TypeOK, ControlOK, OneHolder, NoLeak, Refill
  PROVE  OneHolder' /\ NoLeak'
<1>1. PICK m \in pool :
        /\ pool' = pool \ {m}
        /\ m_table' = [m_table EXCEPT ![port][idx] = m]
  BY DEF Refill, Reset, Available
<1>2. /\ pc = "refill" /\ idx < len[port] /\ idx' = idx + 1
      /\ UNCHANGED <<pc, port, len, off, tx_ring, rx_ring, burst>>
  BY DEF Refill, Reset, receiveVars, rxVars
<1>3. port \in Ports /\ len[port] \in 0 .. Burst /\ idx \in Nat
  BY DEF TypeOK
<1>4. idx \in Slots
  BY <1>2, <1>3, LcoreAssumption DEF Slots
<1>5. \A k : k \in Live(port)' <=> k \in Live(port) \/ k = idx
  BY <1>2, <1>3, <1>4 DEF Live, Stale, Slots
<1>6. \A p \in Ports : p # port => Live(p)' = Live(p)
  BY <1>2 DEF Live, Stale
<1>7. \A p \in Ports : \A k \in Live(p) : k \in Slots /\ ~(p = port /\ k = idx)
  BY <1>2, <1>3 DEF Live, Stale
<1>8. \A p \in Ports, k \in Slots : ~(p = port /\ k = idx) => m_table'[p][k] = m_table[p][k]
  BY <1>1 DEF TypeOK
<1>9. m_table'[port][idx] = m
  BY <1>1, <1>3, <1>4 DEF TypeOK
<1>10. m \in pool /\ \A n : n \in pool' <=> n \in pool /\ n # m
  BY <1>1
<1>11. OneHolder'
  BY <1>2, <1>3, <1>5, <1>6, <1>7, <1>8, <1>9, <1>10 DEF OneHolder
<1>12. NoLeak'
  BY <1>2, <1>3, <1>5, <1>6, <1>7, <1>8, <1>9, <1>10 DEF NoLeak
<1> QED
  BY <1>11, <1>12

\* The driver moves a buffer whose packet has left to the pool.
LEMMA NicCompleteStep ==
  ASSUME TypeOK, OneHolder, NoLeak, NEW p \in Ports, NEW m \in Mbufs, NicComplete(p, m)
  PROVE  OneHolder' /\ NoLeak'
<1>1. \A q \in Ports : Live(q)' = Live(q)
  BY DEF NicComplete, Stale, Live, tableVars
<1>2. /\ m \in tx_ring[p] /\ \A n : n \in pool' <=> n \in pool \/ n = m
      /\ UNCHANGED <<m_table, burst, rx_ring>>
  BY DEF NicComplete, tableVars, receiveVars, rxVars
<1>3. \A q \in Ports : \A n : n \in tx_ring'[q] <=> n \in tx_ring[q] /\ ~(q = p /\ n = m)
  BY DEF NicComplete, TypeOK
<1>4. OneHolder'
  BY <1>1, <1>2, <1>3 DEF OneHolder
<1>5. NoLeak'
  BY <1>1, <1>2, <1>3 DEF NoLeak
<1> QED
  BY <1>4, <1>5

\* Initially the tables and the RX rings hold buffers of their own, the pool the rest.
LEMMA InitHolderInv == Init => HolderInv
<1> SUFFICES ASSUME Init PROVE HolderInv
  OBVIOUS
<1>1. ControlOK
  BY PortsFacts DEF Init, ControlOK
<1>2. \A p \in Ports : Live(p) = Slots
  BY DEF Init, Live, Stale
<1>3. \A m : m \in pool <=>
        /\ m \in Mbufs
        /\ \A p \in Ports : m \notin rx_ring[p] /\ \A k \in Slots : m # m_table[p][k]
  BY DEF Init
<1>4. \A p \in Ports :
        /\ \A k \in Slots : m_table[p][k] \in Mbufs /\ PoolOf[m_table[p][k]] = p
        /\ \A m \in rx_ring[p] : PoolOf[m] = p /\ \A k \in Slots : m # m_table[p][k]
  BY DEF Init, PoolMbufs
<1>5. burst = {} /\ \A p \in Ports : tx_ring[p] = {}
  BY DEF Init
<1>6. \A p \in Ports : \A k, l \in Slots : m_table[p][k] = m_table[p][l] => k = l
  BY DEF Init
<1>7. OneHolder
  BY <1>2, <1>3, <1>4, <1>5, <1>6 DEF OneHolder
<1>8. NoLeak
  BY <1>2, <1>3 DEF NoLeak
<1> QED
  BY <1>1, <1>7, <1>8 DEF HolderInv

\* The invariant is inductive.
LEMMA NextHolderInv == TypeOK /\ TypeOK' /\ HolderInv /\ [Next]_vars => HolderInv'
<1> SUFFICES ASSUME TypeOK, TypeOK', HolderInv, [Next]_vars PROVE HolderInv'
  OBVIOUS
<1>1. ControlOK /\ OneHolder /\ NoLeak
  BY DEF HolderInv
<1>2. ControlOK'
  BY <1>1, NextControlOK
<1>3. OneHolder' /\ NoLeak'
  <2>1. CASE Receive
    BY <1>1, <2>1, ReceiveStep
  <2>2. CASE FreeBurst
    BY <1>1, <2>2, FreeBurstStep
  <2>3. CASE TxBurst
    BY <1>1, <2>3, TxBurstStep
  <2>4. CASE Refill
    BY <1>1, <2>4, RefillStep
  <2>5. CASE \E p \in Ports, m \in Mbufs : NicComplete(p, m)
    BY <1>1, <2>5, NicCompleteStep
  <2>6. CASE \/ InitClient \/ StartClock \/ CheckDeadline \/ HandlePacket \/ ReadClock
             \/ ClientDue \/ ClientWaits \/ EndClients \/ NothingToSend \/ AllocFails
             \/ EndRefill \/ Output \/ Tick \/ UNCHANGED vars
             \/ \E p \in Ports, m \in Mbufs, t \in RxTypes : NicReceive(p, m, t)
    BY <1>1, <1>2, <2>6, QuietSteps
  <2> QED
    BY <2>1, <2>2, <2>3, <2>4, <2>5, <2>6 DEF Next, LcoreStep, Stopped
<1> QED
  BY <1>2, <1>3 DEF HolderInv

\* At every moment every packet buffer has one holder and none is lost, for any
\* number of ports, clients, buffers and descriptors, whatever the NIC accepts,
\* completes and delivers between two statements of the lcore.
THEOREM HoldersCorrect == Spec => [](OneHolder /\ NoLeak)
<1>1. Init => TypeOK /\ HolderInv
  BY InitTypeOK, InitHolderInv
<1>2. TypeOK /\ HolderInv /\ [Next]_vars => (TypeOK /\ HolderInv)'
  BY NextTypeOK, NextHolderInv
<1>3. TypeOK /\ HolderInv => OneHolder /\ NoLeak
  BY DEF HolderInv
<1> QED
  BY <1>1, <1>2, <1>3, PTL DEF Spec

\* In particular no step of the lcore or the NIC loses a buffer.
THEOREM NoLeakCorrect == Spec => []NoLeak
BY HoldersCorrect, PTL

-----------------------------------------------------------------------------
(* Packets in flight. *)

\* A slot that is not yet used is held by the table, so its buffer is not being sent.
LEMMA FreeSlotHeld ==
  ASSUME TypeOK, HolderInv, pc \in {"handle", "send"}, len[port] # Burst
  PROVE  \A p \in Ports : m_table[port][len[port]] \notin tx_ring[p]
<1>1. port \in Ports /\ len[port] \in Slots
  BY LcoreAssumption DEF TypeOK, Slots
<1>2. len[port] \in Live(port)
  BY <1>1 DEF Live, Stale
<1> QED
  BY <1>1, <1>2 DEF HolderInv, OneHolder

\* No step writes to a buffer that the NIC is sending.
LEMMA NextInFlight ==
  TypeOK /\ HolderInv /\ [Next]_vars =>
    \A p \in Ports : \A m \in tx_ring[p] : data'[m] = data[m]
<1> SUFFICES ASSUME TypeOK, HolderInv, [Next]_vars, NEW p \in Ports, NEW m \in tx_ring[p]
             PROVE  data'[m] = data[m]
  OBVIOUS
<1>1. CASE HandlePacket
  <2>1. UNCHANGED data \/ SetupArp
    BY <1>1 DEF HandlePacket
  <2>2. CASE SetupArp /\ len[port] # Burst
    BY <1>1, <2>2, FreeSlotHeld DEF HandlePacket, SetupArp, TableFull, TypeOK
  <2> QED
    BY <2>1, <2>2 DEF SetupArp, TableFull
<1>2. CASE ClientDue
  <2>1. SetupPackets
    BY <1>2 DEF ClientDue, Reschedule
  <2>2. CASE len[port] # Burst
    BY <1>2, <2>1, <2>2, FreeSlotHeld DEF ClientDue, Reschedule, SetupPackets, TableFull, Sent, TypeOK
  <2> QED
    BY <2>1, <2>2 DEF SetupPackets, TableFull, Sent
<1>3. CASE Refill
  <2>1. m \notin pool
    BY DEF HolderInv, OneHolder
  <2> QED
    BY <1>3, <2>1 DEF Refill, Reset, TypeOK, Available
<1>4. ASSUME NEW q \in Ports, NEW n \in Mbufs, NEW t \in RxTypes, NicReceive(q, n, t)
      PROVE  data'[m] = data[m]
  <2>1. n # m
    BY <1>4 DEF HolderInv, OneHolder, NicReceive
  <2> QED
    BY <1>4, <2>1 DEF NicReceive, TypeOK
<1>5. CASE \/ InitClient \/ StartClock \/ CheckDeadline \/ Receive \/ FreeBurst
           \/ ReadClock \/ ClientWaits \/ EndClients \/ NothingToSend \/ TxBurst
           \/ AllocFails \/ EndRefill \/ Output \/ Tick \/ UNCHANGED vars
           \/ \E q \in Ports, n \in Mbufs : NicComplete(q, n)
  BY <1>5 DEF InitClient, StartClock, CheckDeadline, Receive, FreeBurst, Freed, ReadClock,
              ClientWaits, EndClients, NothingToSend, TxBurst, AllocFails, EndRefill,
              Output, Tick, NicComplete, vars
<1> QED
  BY <1>1, <1>2, <1>3, <1>4, <1>5 DEF Next, LcoreStep, Stopped

\* While the NIC is sending a packet no step of the lcore, the network or the
\* driver writes to its buffer: what pktgen_setup_packets built is what is sent.
THEOREM InFlightCorrect == Spec => InFlightUnchanged
<1>1. Init => TypeOK /\ HolderInv
  BY InitTypeOK, InitHolderInv
<1>2. TypeOK /\ HolderInv /\ [Next]_vars => (TypeOK /\ HolderInv)'
  BY NextTypeOK, NextHolderInv
<1>3. TypeOK /\ HolderInv /\ [Next]_vars =>
        [\A p \in Ports : \A m \in tx_ring[p] \cap tx_ring'[p] : data'[m] = data[m]]_vars
  BY NextInFlight
<1> QED
  BY <1>1, <1>2, <1>3, PTL DEF Spec, InFlightUnchanged

-----------------------------------------------------------------------------
(* The size of the pool that serves every refill. *)

\* How full the rings are: an RX ring is never short of a buffer of the port's own
\* pool, a TX ring holds what its descriptors do.
RingsOK ==
  /\ \A p \in Ports : rx_ring[p] \subseteq PoolMbufs(p) /\ Cardinality(rx_ring[p]) = RxDesc
  /\ \A p \in Ports : Cardinality(tx_ring[p]) <= TxDesc

\* A part of the buffers is finite, so it has a size.
LEMMA MbufsFinite ==
  ASSUME NEW S \in SUBSET Mbufs
  PROVE  IsFiniteSet(S) /\ Cardinality(S) \in Nat
BY LcoreAssumption, FS_Subset, FS_CardinalityType DEF LcoreAssumption

\* Swapping buffers of a set for as many others keeps its size.
LEMMA SwapSize ==
  ASSUME NEW S \in SUBSET Mbufs, NEW A \in SUBSET S, NEW B \in SUBSET Mbufs, B \cap S = {},
         Cardinality(A) = Cardinality(B)
  PROVE  Cardinality((S \ A) \cup B) = Cardinality(S)
<1>1. IsFiniteSet(S) /\ IsFiniteSet(B) /\ IsFiniteSet(S \ A)
      /\ Cardinality(S) \in Nat /\ Cardinality(A) \in Nat /\ Cardinality(B) \in Nat
  BY MbufsFinite
<1>2. Cardinality(S \ A) = Cardinality(S) - Cardinality(A)
  <2>1. S \cap A = A
    OBVIOUS
  <2> QED
    BY <1>1, <2>1, FS_Difference
<1>3. Cardinality((S \ A) \cup B) = Cardinality(S \ A) + Cardinality(B)
  <2>1. Cardinality((S \ A) \cup B) =
          Cardinality(S \ A) + Cardinality(B) - Cardinality((S \ A) \cap B)
    BY <1>1, FS_Union
  <2>2. (S \ A) \cap B = {}
    OBVIOUS
  <2>3. Cardinality((S \ A) \cap B) = 0
    BY <2>2, FS_EmptySet
  <2>4. Cardinality(S \ A) \in Int /\ Cardinality(B) \in Int
    BY <1>1, <1>2
  <2> QED
    BY <2>1, <2>3, <2>4
<1> QED
  BY <1>1, <1>2, <1>3

\* Two sets together are no larger than their sizes added.
LEMMA UnionSize ==
  ASSUME NEW S \in SUBSET Mbufs, NEW T \in SUBSET Mbufs
  PROVE  Cardinality(S \cup T) <= Cardinality(S) + Cardinality(T)
<1>1. IsFiniteSet(S) /\ IsFiniteSet(T) /\ S \cap T \in SUBSET Mbufs
  BY MbufsFinite
<1>2. Cardinality(S \cup T) = Cardinality(S) + Cardinality(T) - Cardinality(S \cap T)
  BY <1>1, FS_Union
<1>3. Cardinality(S) \in Nat /\ Cardinality(T) \in Nat /\ Cardinality(S \cap T) \in Nat
  BY <1>1, MbufsFinite
<1> QED
  BY <1>2, <1>3

\* The buffers of some slots are no more than the slots.
LEMMA SlotsSize ==
  ASSUME NEW I, IsFiniteSet(I), NEW g, NEW S \in SUBSET Mbufs,
         \A m \in S : \E i \in I : g[i] = m, \A i \in I : g[i] \in S
  PROVE  Cardinality(S) <= Cardinality(I)
<1> DEFINE f == [i \in I |-> g[i]]
<1>1. f \in Surjection(I, S)
  BY DEF Surjection
<1> QED
  BY <1>1, FS_Surjection

\* The rings the ports are started with are full for reception and empty for sending.
LEMMA InitRings == Init => RingsOK
<1> SUFFICES ASSUME Init PROVE RingsOK
  OBVIOUS
<1>1. \A p \in Ports : rx_ring[p] \subseteq PoolMbufs(p) /\ Cardinality(rx_ring[p]) = RxDesc
  BY DEF Init
<1>2. \A p \in Ports : Cardinality(tx_ring[p]) = 0
  BY FS_EmptySet DEF Init
<1> QED
  BY <1>1, <1>2, LcoreAssumption DEF RingsOK, LcoreAssumption

\* A poll posts as many buffers as it takes.
LEMMA ReceiveRings ==
  ASSUME TypeOK, OneHolder, RingsOK, Receive
  PROVE  RingsOK'
<1>1. PICK got \in SUBSET rx_ready[port], fresh \in SUBSET Available(port) :
        /\ Cardinality(fresh) = Cardinality(got)
        /\ rx_ring' = [rx_ring EXCEPT ![port] = (@ \ got) \cup fresh]
  BY DEF Receive
<1>2. port \in Ports /\ got \subseteq rx_ring[port] /\ rx_ring[port] \subseteq Mbufs
      /\ fresh \subseteq pool /\ fresh \subseteq Mbufs /\ fresh \subseteq PoolMbufs(port)
  BY <1>1 DEF TypeOK, Available
<1>3. fresh \cap rx_ring[port] = {}
  BY <1>2 DEF OneHolder
<1>4. Cardinality((rx_ring[port] \ got) \cup fresh) = Cardinality(rx_ring[port])
  BY <1>1, <1>2, <1>3, SwapSize
<1>5. tx_ring' = tx_ring
  BY DEF Receive
<1>6. \A p \in Ports : rx_ring'[p] = IF p = port THEN (rx_ring[port] \ got) \cup fresh
                                                 ELSE rx_ring[p]
  BY <1>1 DEF TypeOK
<1> QED
  BY <1>2, <1>4, <1>5, <1>6 DEF RingsOK, PoolMbufs

\* A burst is accepted up to the room in the TX ring.
LEMMA TxBurstRings ==
  ASSUME TypeOK, RingsOK, TxBurst
  PROVE  RingsOK'
<1>1. PICK ret \in 0 .. len[port] - off :
        /\ Cardinality(tx_ring[port]) + ret <= TxDesc
        /\ tx_ring' = [tx_ring EXCEPT ![port] =
                         @ \cup {m_table[port][k] : k \in off .. off + ret - 1}]
  BY DEF TxBurst
<1> DEFINE next == off .. off + ret - 1
           sent == {m_table[port][k] : k \in next}
<1>2. port \in Ports /\ len[port] \in 0 .. Burst /\ off \in 0 .. Burst
      /\ tx_ring[port] \in SUBSET Mbufs /\ rx_ring' = rx_ring
  BY DEF TxBurst, TypeOK, rxVars
<1>3. IsFiniteSet(next) /\ Cardinality(next) = ret
  <2>1. off \in Int /\ off + ret - 1 \in Int /\ ret \in Int /\ ret >= 0
    BY <1>1, <1>2
  <2>2. Cardinality(next) = IF off > off + ret - 1 THEN 0 ELSE (off + ret - 1) - off + 1
    BY <2>1, FS_Interval
  <2> QED
    BY <2>1, <2>2, FS_Interval
<1>4. sent \in SUBSET Mbufs
  <2>1. next \subseteq Slots
    BY <1>1, <1>2, LcoreAssumption DEF Slots, LcoreAssumption
  <2> QED
    BY <1>2, <2>1 DEF TypeOK
<1>5. Cardinality(sent) <= ret
  <2>1. /\ \A m \in sent : \E k \in next : m_table[port][k] = m
        /\ \A k \in next : m_table[port][k] \in sent
    OBVIOUS
  <2> HIDE DEF next, sent
  <2> QED
    BY <1>3, <1>4, <2>1, SlotsSize
<1> HIDE DEF next, sent
<1>6. Cardinality(tx_ring[port] \cup sent) <= Cardinality(tx_ring[port]) + Cardinality(sent)
  BY <1>2, <1>4, UnionSize
<1>7. Cardinality(tx_ring[port] \cup sent) <= TxDesc
  BY <1>1, <1>2, <1>4, <1>5, <1>6, MbufsFinite, LcoreAssumption DEF LcoreAssumption
<1>8. \A p \in Ports : tx_ring'[p] = IF p = port THEN tx_ring[port] \cup sent ELSE tx_ring[p]
  BY <1>1 DEF TypeOK, sent, next
<1> QED
  BY <1>2, <1>7, <1>8 DEF RingsOK

\* Every step leaves the rings as full as they may be.
LEMMA NextRings == TypeOK /\ OneHolder /\ RingsOK /\ [Next]_vars => RingsOK'
<1> SUFFICES ASSUME TypeOK, OneHolder, RingsOK, [Next]_vars PROVE RingsOK'
  OBVIOUS
<1>1. CASE Receive
  BY <1>1, ReceiveRings
<1>2. CASE TxBurst
  BY <1>2, TxBurstRings
<1>3. ASSUME NEW p \in Ports, NEW m \in Mbufs, NicComplete(p, m) PROVE RingsOK'
  <2>1. /\ tx_ring' = [tx_ring EXCEPT ![p] = @ \ {m}] /\ rx_ring' = rx_ring
        /\ tx_ring[p] \in SUBSET Mbufs
    BY <1>3 DEF NicComplete, rxVars, TypeOK
  <2>2. Cardinality(tx_ring[p] \ {m}) <= Cardinality(tx_ring[p])
        /\ Cardinality(tx_ring[p] \ {m}) \in Nat /\ Cardinality(tx_ring[p]) \in Nat
    BY <2>1, MbufsFinite, FS_Subset
  <2>3. Cardinality(tx_ring[p] \ {m}) <= TxDesc
    BY <2>2, LcoreAssumption DEF RingsOK, LcoreAssumption
  <2> QED
    BY <2>1, <2>3 DEF RingsOK, TypeOK
<1>4. CASE UNCHANGED <<tx_ring, rx_ring>>
  BY <1>4 DEF RingsOK
<1> QED
  BY <1>1, <1>2, <1>3, <1>4
     DEF Next, LcoreStep, Stopped, InitClient, StartClock, CheckDeadline, HandlePacket,
         FreeBurst, ReadClock, ClientDue, ClientWaits, EndClients, NothingToSend, Refill,
         AllocFails, EndRefill, Output, Tick, NicReceive, vars, rxVars

-----------------------------------------------------------------------------
(* The buffers of the last pool. *)

\* All the slots of all the tables, and all the places of all the TX rings.
LEMMA PlacesSize ==
  ASSUME NEW n \in Nat
  PROVE  /\ IsFiniteSet(Ports \X (0 .. n - 1))
         /\ Cardinality(Ports \X (0 .. n - 1)) = NbPorts * n
<1>1. NbPorts \in Nat
  BY LcoreAssumption DEF LcoreAssumption
<1>2. IsFiniteSet(Ports) /\ Cardinality(Ports) = NbPorts
  BY <1>1, FS_Interval DEF Ports
<1>3. IsFiniteSet(0 .. n - 1) /\ Cardinality(0 .. n - 1) = n
  BY FS_Interval
<1> QED
  BY <1>2, <1>3, FS_Product

\* A buffer of the last pool that is not free during a refill is posted on the last
\* port, being sent, or in a slot other than the one to be filled.
LEMMA WhereBuffersAre ==
  ASSUME TypeOK, HolderInv, RingsOK, AllocFails
  PROVE  \A m \in PoolMbufs(LastPort) \ Parked :
           \/ m \in rx_ring[LastPort]
           \/ \E p \in Ports : m \in tx_ring[p]
           \/ \E s \in (Ports \X Slots) \ {<<port, idx>>} : m_table[s[1]][s[2]] = m
<1> SUFFICES ASSUME NEW m \in PoolMbufs(LastPort) \ Parked, m \notin rx_ring[LastPort],
                    \A p \in Ports : m \notin tx_ring[p]
             PROVE  \E s \in (Ports \X Slots) \ {<<port, idx>>} : m_table[s[1]][s[2]] = m
  OBVIOUS
<1>1. m \in Mbufs /\ PoolOf[m] = LastPort
  BY DEF PoolMbufs
<1>2. m \notin pool /\ m \notin burst
  BY DEF AllocFails, Available, HolderInv, ControlOK
<1>3. \A p \in Ports : m \notin rx_ring[p]
  BY <1>1 DEF RingsOK, PoolMbufs
<1>4. PICK p \in Ports : \E k \in Live(p) : m_table[p][k] = m
  BY <1>1, <1>2, <1>3 DEF HolderInv, NoLeak
<1>5. PICK k \in Live(p) : m_table[p][k] = m
  BY <1>4
<1>6. k \in Slots /\ ~(p = port /\ k = idx)
  <2>1. idx \in idx .. len[port] - 1
    BY DEF AllocFails, TypeOK
  <2> QED
    BY <1>5, <2>1 DEF Live, Stale, AllocFails
<1>7. <<p, k>> \in (Ports \X Slots) \ {<<port, idx>>}
  BY <1>6
<1> QED
  BY <1>5, <1>7

\* When no buffer is left, the last pool without what main's cache keeps of it is smaller
\* than what the lcore and the NIC can hold of it at the moment.
LEMMA ExitSize ==
  ASSUME TypeOK, HolderInv, RingsOK, AllocFails
  PROVE  Cardinality(PoolMbufs(LastPort) \ Parked) <
           RxDesc + NbPorts * Burst
                  + Cardinality((UNION {tx_ring[p] : p \in Ports}) \cap PoolMbufs(LastPort))
<1> DEFINE Pool    == PoolMbufs(LastPort) \ Parked
           Sending == (UNION {tx_ring[p] : p \in Ports}) \cap PoolMbufs(LastPort)
           Others  == (Ports \X Slots) \ {<<port, idx>>}
           Held    == {m \in Pool : \E s \in Others : m_table[s[1]][s[2]] = m}
           Used    == {s \in Others : m_table[s[1]][s[2]] \in Pool}
           g       == [s \in Used |-> m_table[s[1]][s[2]]]
<1>1. Pool \in SUBSET Mbufs /\ Sending \in SUBSET Mbufs /\ Held \in SUBSET Mbufs
      /\ rx_ring[LastPort] \in SUBSET Mbufs
  BY PortsFacts DEF PoolMbufs, TypeOK
<1>2. Burst \in Nat /\ NbPorts \in Nat /\ RxDesc \in Nat /\ NbPorts * Burst \in Nat
  BY LcoreAssumption DEF LcoreAssumption
<1>3. IsFiniteSet(Others) /\ Cardinality(Others) = NbPorts * Burst - 1
  <2>1. IsFiniteSet(Ports \X Slots) /\ Cardinality(Ports \X Slots) = NbPorts * Burst
    BY <1>2, PlacesSize DEF Slots
  <2>2. <<port, idx>> \in Ports \X Slots
    BY <1>2 DEF AllocFails, TypeOK, Slots
  <2> QED
    BY <2>1, <2>2, FS_RemoveElement
<1>4. Cardinality(Held) <= NbPorts * Burst - 1
  <2>1. /\ \A m \in Held : \E s \in Used : g[s] = m
        /\ \A s \in Used : g[s] \in Held
    OBVIOUS
  <2>2. Used \in SUBSET Others
    OBVIOUS
  <2> HIDE DEF Held, Used, Others, g
  <2>3. IsFiniteSet(Used) /\ Cardinality(Used) <= Cardinality(Others)
    BY <1>3, <2>2, FS_Subset
  <2>4. Cardinality(Held) <= Cardinality(Used)
    BY <1>1, <2>1, <2>3, SlotsSize
  <2>5. Cardinality(Used) \in Nat /\ Cardinality(Held) \in Nat
    BY <1>1, <2>3, FS_CardinalityType, MbufsFinite
  <2> QED
    BY <1>2, <1>3, <2>3, <2>4, <2>5
<1>5. Pool \subseteq (rx_ring[LastPort] \cup Held) \cup Sending
  <2> SUFFICES ASSUME NEW m \in Pool, m \notin rx_ring[LastPort], m \notin Held
               PROVE  m \in Sending
    OBVIOUS
  <2>1. PICK p \in Ports : m \in tx_ring[p]
    BY WhereBuffersAre
  <2>2. m \in UNION {tx_ring[q] : q \in Ports}
    BY <2>1
  <2> QED
    BY <2>2
<1> HIDE DEF Pool, Sending, Others, Held
<1>6. Cardinality(Pool) <= Cardinality((rx_ring[LastPort] \cup Held) \cup Sending)
  <2>1. (rx_ring[LastPort] \cup Held) \cup Sending \in SUBSET Mbufs
    BY <1>1
  <2>2. IsFiniteSet((rx_ring[LastPort] \cup Held) \cup Sending)
    BY <2>1, MbufsFinite
  <2> QED
    BY <1>5, <2>2, FS_Subset
<1>7. Cardinality((rx_ring[LastPort] \cup Held) \cup Sending) <=
        Cardinality(rx_ring[LastPort] \cup Held) + Cardinality(Sending)
  BY <1>1, UnionSize
<1>8. Cardinality(rx_ring[LastPort] \cup Held) <= Cardinality(rx_ring[LastPort]) + Cardinality(Held)
  BY <1>1, UnionSize
<1>9. Cardinality(rx_ring[LastPort]) = RxDesc
  BY PortsFacts DEF RingsOK
<1>10. /\ Cardinality(Pool) \in Nat /\ Cardinality(Held) \in Nat /\ Cardinality(Sending) \in Nat
       /\ Cardinality(rx_ring[LastPort] \cup Held) \in Nat
       /\ Cardinality((rx_ring[LastPort] \cup Held) \cup Sending) \in Nat
  BY <1>1, MbufsFinite
<1>11. Cardinality(Pool) < RxDesc + NbPorts * Burst + Cardinality(Sending)
  BY <1>2, <1>4, <1>6, <1>7, <1>8, <1>9, <1>10
<1> QED
  BY <1>11 DEF Pool, Sending

\* The conjunction that every step of the lcore keeps.
PoolInv == TypeOK /\ HolderInv /\ RingsOK

\* Types, holders and rings hold in every reachable state.
LEMMA PoolInvCorrect == Spec => []PoolInv
<1>1. Init => PoolInv
  BY InitTypeOK, InitHolderInv, InitRings DEF PoolInv
<1>2. PoolInv /\ [Next]_vars => PoolInv'
  <2> SUFFICES ASSUME PoolInv, [Next]_vars PROVE PoolInv'
    OBVIOUS
  <2>1. TypeOK /\ HolderInv /\ OneHolder /\ RingsOK
    BY DEF PoolInv, HolderInv
  <2>2. TypeOK'
    BY <2>1, NextTypeOK
  <2> QED
    BY <2>1, <2>2, NextHolderInv, NextRings DEF PoolInv
<1> QED
  BY <1>1, <1>2, PTL DEF Spec

\* Only AllocFails ends the process.
LEMMA OnlyAllocFails == [Next]_vars /\ pc' = "exited" /\ pc # "exited" => AllocFails
BY DEF Next, LcoreStep, Stopped, InitClient, StartClock, CheckDeadline, Receive, HandlePacket,
       FreeBurst, ReadClock, ClientDue, ClientWaits, EndClients, NothingToSend, NextPort,
       TxBurst, Refill, EndRefill, Output, NicComplete, NicReceive, Tick, vars

\* The process gives up for want of a buffer only while the NIC sits on packets: the
\* refills of all ports draw on one pool, and without leaks nothing else can hold it but
\* the cache of main's lcore.
THEOREM ExitCorrect == Spec => ExitsOnlyUnderBackpressure
<1>1. PoolInv /\ [Next]_vars =>
        [pc' = "exited" /\ pc # "exited" =>
           Cardinality(PoolMbufs(LastPort) \ Parked) <
             RxDesc + NbPorts * Burst
                    + Cardinality((UNION {tx_ring[p] : p \in Ports}) \cap PoolMbufs(LastPort))]_vars
  BY OnlyAllocFails, ExitSize DEF PoolInv
<1> QED
  BY <1>1, PoolInvCorrect, PTL DEF Spec, ExitsOnlyUnderBackpressure

\* What all the TX rings hold together is no more than their descriptors.
LEMMA SendingSize ==
  ASSUME TypeOK, RingsOK
  PROVE  Cardinality((UNION {tx_ring[p] : p \in Ports}) \cap PoolMbufs(LastPort)) <= NbPorts * TxDesc
<1> DEFINE Sending == (UNION {tx_ring[p] : p \in Ports}) \cap PoolMbufs(LastPort)
           nth  == [p \in Ports |-> CHOOSE f \in Bijection(1 .. Cardinality(tx_ring[p]), tx_ring[p]) : TRUE]
           Used == {s \in Ports \X (0 .. TxDesc - 1) :
                      s[2] + 1 \in 1 .. Cardinality(tx_ring[s[1]]) /\ nth[s[1]][s[2] + 1] \in Sending}
           g    == [s \in Used |-> nth[s[1]][s[2] + 1]]
<1>1. Sending \in SUBSET Mbufs /\ \A p \in Ports : tx_ring[p] \in SUBSET Mbufs
  BY DEF PoolMbufs, TypeOK
<1>2. TxDesc \in Nat /\ NbPorts \in Nat /\ NbPorts * TxDesc \in Nat
  BY LcoreAssumption DEF LcoreAssumption
<1>3. IsFiniteSet(Used) /\ Cardinality(Used) <= NbPorts * TxDesc
  <2>1. Used \in SUBSET (Ports \X (0 .. TxDesc - 1))
    OBVIOUS
  <2>2. /\ IsFiniteSet(Ports \X (0 .. TxDesc - 1))
        /\ Cardinality(Ports \X (0 .. TxDesc - 1)) = NbPorts * TxDesc
    BY <1>2, PlacesSize
  <2> HIDE DEF Used
  <2> QED
    BY <2>1, <2>2, FS_Subset
<1>4. ASSUME NEW m \in Sending PROVE \E s \in Used : g[s] = m
  <2>1. PICK p \in Ports : m \in tx_ring[p]
    OBVIOUS
  <2>2. IsFiniteSet(tx_ring[p]) /\ Cardinality(tx_ring[p]) \in Nat
    BY <1>1, MbufsFinite
  <2>3. nth[p] \in Bijection(1 .. Cardinality(tx_ring[p]), tx_ring[p])
    BY <2>2, FS_CardinalityType DEF ExistsBijection
  <2>4. PICK i \in 1 .. Cardinality(tx_ring[p]) : nth[p][i] = m
    BY <2>1, <2>3 DEF Bijection, Surjection
  <2>5. i - 1 \in 0 .. TxDesc - 1 /\ (i - 1) + 1 = i
    BY <1>2, <2>2 DEF RingsOK
  <2>6. <<p, i - 1>> \in Used /\ g[<<p, i - 1>>] = m
    <3> HIDE DEF nth, Sending
    <3> QED
      BY <2>4, <2>5
  <2> QED
    BY <2>6
<1>5. \A s \in Used : g[s] \in Sending
  OBVIOUS
<1>6. Cardinality(Sending) <= Cardinality(Used)
  <2> HIDE DEF Sending, Used, g
  <2> QED
    BY <1>1, <1>3, <1>4, <1>5, SlotsSize
<1>7. Cardinality(Sending) \in Nat /\ Cardinality(Used) \in Nat
  <2> HIDE DEF Sending, Used
  <2> QED
    BY <1>1, <1>3, MbufsFinite, FS_CardinalityType
<1>8. Cardinality(Sending) <= NbPorts * TxDesc
  <2> HIDE DEF Sending, Used
  <2> QED
    BY <1>2, <1>3, <1>6, <1>7
<1> QED
  BY <1>8

\* What MAX_MBUFS_PER_PORT would have to be. One pool serves the refills of all ports: a
\* pool of an RX ring, a table and a TX ring for each port, and the cache of main's lcore,
\* never runs dry for any lcore.
THEOREM NoAllocFailureCorrect ==
  ASSUME Cardinality(PoolMbufs(LastPort)) >=
           RxDesc + NbPorts * Burst + NbPorts * TxDesc + CacheSize
  PROVE  Spec => []NoAllocFailure
<1>1. Init => NoAllocFailure
  BY DEF Init, NoAllocFailure
<1>2. PoolInv /\ NoAllocFailure /\ [Next]_vars => NoAllocFailure'
  <2> SUFFICES ASSUME PoolInv, AllocFails PROVE FALSE
    BY OnlyAllocFails DEF NoAllocFailure
  <2> DEFINE Sending == (UNION {tx_ring[p] : p \in Ports}) \cap PoolMbufs(LastPort)
  <2> DEFINE Pool == PoolMbufs(LastPort)
             Kept == Pool \cap Parked
             Rest == Pool \ Parked
  <2>1. Cardinality(Rest) < RxDesc + NbPorts * Burst + Cardinality(Sending)
    BY ExitSize DEF PoolInv
  <2>2. Cardinality(Sending) <= NbPorts * TxDesc
    BY SendingSize DEF PoolInv
  <2>3. /\ Sending \in SUBSET Mbufs /\ Pool \in SUBSET Mbufs
        /\ Kept \in SUBSET Mbufs /\ Rest \in SUBSET Mbufs
    <3>1. Pool \in SUBSET Mbufs
      BY DEF PoolMbufs
    <3> QED
      BY <3>1
  <2>4. Cardinality(Kept) <= CacheSize
    BY PortsFacts, LcoreAssumption DEF LcoreAssumption
  <2>5. Pool = Rest \cup Kept
    OBVIOUS
  <2>6. Cardinality(Pool) >= RxDesc + NbPorts * Burst + NbPorts * TxDesc + CacheSize
    OBVIOUS
  <2> HIDE DEF Sending, Pool, Kept, Rest
  <2>7. Cardinality(Pool) <= Cardinality(Rest) + Cardinality(Kept)
    BY <2>3, <2>5, UnionSize
  <2>8. /\ Cardinality(Sending) \in Nat /\ Cardinality(Pool) \in Nat
        /\ Cardinality(Kept) \in Nat /\ Cardinality(Rest) \in Nat
    BY <2>3, MbufsFinite
  <2>9. /\ NbPorts * Burst \in Nat /\ NbPorts * TxDesc \in Nat /\ RxDesc \in Nat
        /\ CacheSize \in Nat
    BY LcoreAssumption DEF LcoreAssumption
  <2> QED
    BY <2>1, <2>2, <2>4, <2>6, <2>7, <2>8, <2>9
<1> QED
  BY <1>1, <1>2, PoolInvCorrect, PTL DEF Spec

-----------------------------------------------------------------------------
(* The life cycle of buffers: every step of Lcore is, through the mapping Place, one of *)
(* MbufLifecycle's or leaves every buffer where it was and as it was.                   *)

\* The slots of a table that wait for rte_eth_tx_burst, and those without a packet.
Filling(p)  == p = port /\ pc \in {"refill", "exited"}
Spare(p)    == Live(p) \ Queued(p)
InQueue(n)  == \E p \in Ports : \E k \in Queued(p) : m_table[p][k] = n
InSpare(n)  == \E p \in Ports : \E k \in Spare(p) : m_table[p][k] = n
InTx(n)     == \E p \in Ports : n \in tx_ring[p]
InRx(n)     == \E p \in Ports : n \in rx_ring[p]

SlotsKnown ==
  \A p \in Ports :
    /\ Queued(p) = IF Filling(p) THEN {} ELSE (IF p = port THEN off ELSE 0) .. len[p] - 1
    /\ Spare(p)  = IF Filling(p) THEN Slots \ (idx .. len[p] - 1) ELSE len[p] .. Burst - 1
    /\ Queued(p) \subseteq Live(p)

PlacesKnown ==
  \A n \in Mbufs :
    /\ Place(n) = "pool"   <=> n \in pool
    /\ Place(n) = "burst"  <=> n \in burst
    /\ Place(n) = "tx"     <=> InTx(n)
    /\ Place(n) = "rx"     <=> InRx(n)
    /\ Place(n) = "queued" <=> InQueue(n)
    /\ Place(n) = "spare"  <=> InSpare(n)
    /\ Place(n) \in {"pool", "spare", "queued", "tx", "rx", "burst"}

\* Which slots are queued and which are spare follows from the control point.
LEMMA SlotsNow == TypeOK /\ ControlOK => SlotsKnown
<1> SUFFICES ASSUME TypeOK, ControlOK, NEW p \in Ports
             PROVE  /\ Queued(p) = IF Filling(p) THEN {}
                                   ELSE (IF p = port THEN off ELSE 0) .. len[p] - 1
                    /\ Spare(p)  = IF Filling(p) THEN Slots \ (idx .. len[p] - 1)
                                   ELSE len[p] .. Burst - 1
                    /\ Queued(p) \subseteq Live(p)
  BY DEF SlotsKnown
<1>1. len[p] \in 0 .. Burst /\ off \in 0 .. Burst /\ port \in Ports /\ Burst \in Nat
  BY LcoreAssumption DEF LcoreAssumption, TypeOK
<1>2. {k \in Slots : k < len[p]} = 0 .. len[p] - 1
  BY <1>1 DEF Slots
<1>3. CASE p # port
  <2>1. Stale(p) = {} /\ ~Filling(p)
    BY <1>3 DEF Stale, Filling
  <2>2. Queued(p) = 0 .. len[p] - 1 /\ Live(p) = Slots
    BY <1>2, <1>3, <2>1 DEF Queued, Live
  <2>3. Spare(p) = len[p] .. Burst - 1
    BY <1>1, <2>2 DEF Spare, Slots
  <2> QED
    BY <1>1, <1>3, <2>1, <2>2, <2>3 DEF Slots
<1>4. CASE Filling(p)
  <2>1. Queued(p) = {}
    BY <1>4 DEF Queued, Filling
  <2>2. Live(p) = Slots \ (idx .. len[p] - 1)
    BY <1>4 DEF Live, Stale, Filling
  <2> QED
    BY <1>4, <2>1, <2>2 DEF Spare
<1>5. CASE p = port /\ ~Filling(p)
  <2>1. Stale(p) = 0 .. off - 1
    BY <1>1, <1>5 DEF Stale, ControlOK, Filling
  <2>2. Queued(p) = (0 .. len[p] - 1) \ (0 .. off - 1)
    BY <1>2, <1>5, <2>1 DEF Queued, Filling
  <2>3. Queued(p) = off .. len[p] - 1
    BY <1>1, <2>2
  <2>4. Live(p) = off .. Burst - 1
    BY <1>1, <2>1 DEF Live, Slots
  <2>5. off <= len[p]
    BY <1>5 DEF ControlOK
  <2>6. Spare(p) = len[p] .. Burst - 1 /\ Queued(p) \subseteq Live(p)
    BY <1>1, <2>3, <2>4, <2>5 DEF Spare
  <2> QED
    BY <1>5, <2>3, <2>6
<1> QED
  BY <1>3, <1>4, <1>5 DEF Filling

\* Its holder decides the place of a buffer.
LEMMA PlacesNow == TypeOK /\ HolderInv => PlacesKnown
<1> SUFFICES ASSUME TypeOK, HolderInv, NEW n \in Mbufs
             PROVE  /\ Place(n) = "pool"   <=> n \in pool
                    /\ Place(n) = "burst"  <=> n \in burst
                    /\ Place(n) = "tx"     <=> InTx(n)
                    /\ Place(n) = "rx"     <=> InRx(n)
                    /\ Place(n) = "queued" <=> InQueue(n)
                    /\ Place(n) = "spare"  <=> InSpare(n)
                    /\ Place(n) \in {"pool", "spare", "queued", "tx", "rx", "burst"}
  BY DEF PlacesKnown
<1>1. \A p \in Ports : Queued(p) \subseteq Live(p)
  BY SlotsNow DEF HolderInv, SlotsKnown
<1>2. OneHolder /\ NoLeak
  BY DEF HolderInv
<1> USE DEF InTx, InRx, InQueue, InSpare, Spare
<1>3. n \in pool \/ n \in burst \/ InTx(n) \/ InRx(n) \/ InQueue(n) \/ InSpare(n)
  BY <1>1, <1>2 DEF NoLeak
<1>4. n \in pool => n \notin burst /\ ~InTx(n) /\ ~InRx(n) /\ ~InQueue(n) /\ ~InSpare(n)
  BY <1>1, <1>2 DEF OneHolder
<1>5. n \in burst => ~InTx(n) /\ ~InRx(n) /\ ~InQueue(n) /\ ~InSpare(n)
  BY <1>1, <1>2 DEF OneHolder
<1>6. InTx(n) => ~InRx(n) /\ ~InQueue(n) /\ ~InSpare(n)
  BY <1>1, <1>2 DEF OneHolder
<1>7. InRx(n) => ~InQueue(n) /\ ~InSpare(n)
  BY <1>1, <1>2 DEF OneHolder
<1>8. InQueue(n) => ~InSpare(n)
  BY <1>1, <1>2 DEF OneHolder
<1>9. Place(n) = CASE n \in pool -> "pool" [] n \in burst -> "burst" [] InTx(n) -> "tx"
                   [] InRx(n) -> "rx" [] InQueue(n) -> "queued" [] OTHER -> "spare"
  BY DEF Place
<1> HIDE DEF InTx, InRx, InQueue, InSpare
<1> QED
  BY <1>3, <1>4, <1>5, <1>6, <1>7, <1>8, <1>9

\* The same of the state after a step.
LEMMA KnownNext ==
  /\ TypeOK' /\ HolderInv' => SlotsKnown'
  /\ TypeOK' /\ HolderInv' => PlacesKnown'
<1>1. TypeOK /\ HolderInv => SlotsKnown
  BY SlotsNow DEF HolderInv
<1> QED
  BY <1>1, PlacesNow, PTL

\* A buffer whose holder keeps it stays in its place.
LEMMA SamePlace ==
  ASSUME PlacesKnown, PlacesKnown', NEW n \in Mbufs,
         n \in pool => n \in pool', n \in burst => n \in burst',
         InTx(n) => InTx(n)', InRx(n) => InRx(n)',
         InQueue(n) => InQueue(n)', InSpare(n) => InSpare(n)'
  PROVE  Place(n)' = Place(n)
BY DEF PlacesKnown

Known == TypeOK /\ HolderInv /\ SlotsKnown /\ PlacesKnown

-----------------------------------------------------------------------------
(* Steps. *)

\* What moves in the model moves in the life cycle.
LEMMA MoveStep ==
  ASSUME NEW S, NEW q, \A n \in Mbufs : Place(n)' = IF n \in S THEN q ELSE Place(n)
  PROVE  Lifecycle!Move(S, q)
BY DEF Lifecycle!Move

\* A step that moves no buffer and no slot is none of the life cycle.
LEMMA StutterStep ==
  ASSUME Known, Known', UNCHANGED <<m_table, pool, burst, tx_ring, rx_ring, data>>,
         \A p \in Ports : Queued(p)' = Queued(p) /\ Spare(p)' = Spare(p)
  PROVE  UNCHANGED Lifecycle!vars
<1>1. ASSUME NEW n \in Mbufs PROVE Place(n)' = Place(n)
  <2>1. /\ InTx(n) => InTx(n)'
        /\ InRx(n) => InRx(n)'
        /\ InQueue(n) => InQueue(n)'
        /\ InSpare(n) => InSpare(n)'
    BY DEF InTx, InRx, InQueue, InSpare
  <2> QED
    BY <2>1, SamePlace DEF Known
<1> QED
  BY <1>1 DEF Lifecycle!vars

\* Slots are as they were while port, lengths and offset are, except that a refill begins.
LEMMA SameSlots ==
  ASSUME Known, Known', UNCHANGED <<port, len, off>>,
         UNCHANGED <<pc, idx>> \/ {pc, pc'} \cap {"refill", "exited"} = {}
  PROVE  \A p \in Ports : Queued(p)' = Queued(p) /\ Spare(p)' = Spare(p)
<1> SUFFICES ASSUME NEW p \in Ports PROVE Queued(p)' = Queued(p) /\ Spare(p)' = Spare(p)
  OBVIOUS
<1>1. CASE UNCHANGED <<pc, idx>>
  <2>1. Filling(p)' = Filling(p)
    BY <1>1 DEF Filling
  <2> QED
    BY <1>1, <2>1 DEF Known, SlotsKnown
<1>2. CASE {pc, pc'} \cap {"refill", "exited"} = {}
  <2>1. ~Filling(p) /\ ~Filling(p)'
    BY <1>2 DEF Filling
  <2> QED
    BY <2>1 DEF Known, SlotsKnown
<1> QED
  BY <1>1, <1>2

\* So they are in the steps of the lcore that only look, count or jump.
LEMMA QuietSlots ==
  ASSUME Known, Known',
         \/ InitClient \/ StartClock \/ CheckDeadline \/ ReadClock \/ ClientWaits
         \/ EndClients \/ NothingToSend \/ AllocFails \/ EndRefill \/ Output \/ Tick
         \/ UNCHANGED vars
  PROVE  \A p \in Ports : Queued(p)' = Queued(p) /\ Spare(p)' = Spare(p)
<1> SUFFICES ASSUME NEW p \in Ports PROVE Queued(p)' = Queued(p) /\ Spare(p)' = Spare(p)
  OBVIOUS
<1>1. /\ len[p] \in 0 .. Burst /\ off \in 0 .. Burst /\ len'[p] \in 0 .. Burst
      /\ port \in Ports /\ off <= len[port] /\ Burst \in Nat /\ idx \in Nat
  BY LcoreAssumption DEF LcoreAssumption, Known, TypeOK, HolderInv, ControlOK
<1>2. CASE /\ UNCHANGED <<port, len, off>>
           /\ ~Filling(p) /\ ~Filling(p)'
  BY <1>2 DEF Known, SlotsKnown
<1>3. CASE UNCHANGED <<pc, idx, port, len, off>>
  <2>1. Filling(p)' = Filling(p)
    BY <1>3 DEF Filling
  <2> QED
    BY <1>3, <2>1 DEF Known, SlotsKnown
<1>4. CASE AllocFails
  <2>1. Filling(p)' = Filling(p) /\ UNCHANGED <<idx, port, len, off>>
    BY <1>4 DEF AllocFails, Filling, tableVars
  <2> QED
    BY <2>1 DEF Known, SlotsKnown
<1>5. CASE CheckDeadline \/ NothingToSend
  <2>1. off = 0 /\ UNCHANGED <<len, off>> /\ ~Filling(p) /\ ~Filling(p)'
    BY <1>1, <1>5
       DEF CheckDeadline, NothingToSend, NextPort, Known, HolderInv, ControlOK, Filling, tableVars
  <2> QED
    BY <2>1 DEF Known, SlotsKnown
<1>6. CASE EndRefill
  <2>1. /\ off' = 0 /\ len' = [len EXCEPT ![port] = 0] /\ ~Filling(p)'
        /\ pc = "refill" /\ idx = len[port]
    BY <1>6 DEF EndRefill, NextPort, Filling
  <2>2. Queued(p)' = 0 .. len'[p] - 1 /\ Spare(p)' = len'[p] .. Burst - 1
    BY <2>1 DEF Known, SlotsKnown
  <2>3. CASE p = port
    <3>1. Filling(p) /\ len'[p] = 0
      BY <1>1, <2>1, <2>3 DEF Filling, Known, TypeOK
    <3>2. Queued(p) = {} /\ Spare(p) = Slots \ (idx .. len[p] - 1)
      BY <3>1 DEF Known, SlotsKnown
    <3>3. idx .. len[p] - 1 = {} /\ 0 .. len'[p] - 1 = {}
      BY <1>1, <2>1, <2>3, <3>1
    <3> QED
      BY <2>2, <3>1, <3>2, <3>3 DEF Slots
  <2>4. CASE p # port
    <3>1. len'[p] = len[p] /\ ~Filling(p)
      BY <1>1, <2>1, <2>4 DEF Known, TypeOK, Filling
    <3> QED
      BY <2>2, <2>4, <3>1 DEF Known, SlotsKnown
  <2> QED
    BY <2>3, <2>4
<1>7. CASE InitClient \/ StartClock \/ ReadClock \/ ClientWaits \/ EndClients \/ Output
  <2>1. UNCHANGED <<port, len, off>> /\ ~Filling(p) /\ ~Filling(p)'
    BY <1>7 DEF InitClient, StartClock, ReadClock, ClientWaits, EndClients, Output,
                Filling, tableVars
  <2> QED
    BY <1>2, <2>1
<1>8. CASE Tick \/ UNCHANGED vars
  BY <1>3, <1>8 DEF Tick, vars, tableVars
<1> QED
  BY <1>4, <1>5, <1>6, <1>7, <1>8

\* A packet takes the first slot after those of the table.
LEMMA BuildSlots ==
  ASSUME Known, Known', pc \in {"handle", "send"}, ~TableFull, UNCHANGED <<pc, port, off>>,
         len' = [len EXCEPT ![port] = @ + 1], NEW l, l = len[port]
  PROVE  /\ port \in Ports /\ l \in Slots
         /\ l \in Spare(port) /\ l \in Queued(port)'
         /\ l \notin Queued(port) /\ l \notin Spare(port)'
         /\ \A p \in Ports : /\ Queued(p) \subseteq Queued(p)'
                             /\ \A k \in Spare(p) : k \in Spare(p)' \/ (p = port /\ k = l)
                             /\ \A k \in Queued(p)' : k \in Queued(p) \/ (p = port /\ k = l)
                             /\ Spare(p)' \subseteq Spare(p)
<1>1. /\ port \in Ports /\ off = 0 /\ Burst \in Nat /\ len \in [Ports -> 0 .. Burst]
      /\ l \in Slots
  <2>1. /\ port \in Ports /\ off = 0 /\ Burst \in Nat /\ len \in [Ports -> 0 .. Burst]
    BY LcoreAssumption DEF LcoreAssumption, Known, TypeOK, HolderInv, ControlOK
  <2> QED
    BY <2>1 DEF TableFull, Slots
<1>2. \A p \in Ports : ~Filling(p) /\ ~Filling(p)'
  BY DEF Filling
<1>3. \A p \in Ports :
        /\ Queued(p) = 0 .. len[p] - 1 /\ Queued(p)' = 0 .. len'[p] - 1
        /\ Spare(p) = len[p] .. Burst - 1 /\ Spare(p)' = len'[p] .. Burst - 1
  BY <1>1, <1>2 DEF Known, SlotsKnown
<1>4. \A p \in Ports : len'[p] = IF p = port THEN l + 1 ELSE len[p]
  BY <1>1
<1>5. /\ l \in Spare(port) /\ l \in Queued(port)'
      /\ l \notin Queued(port) /\ l \notin Spare(port)'
  BY <1>1, <1>3, <1>4 DEF Slots
<1>6. ASSUME NEW p \in Ports
      PROVE  /\ Queued(p) \subseteq Queued(p)'
             /\ \A k \in Spare(p) : k \in Spare(p)' \/ (p = port /\ k = l)
             /\ \A k \in Queued(p)' : k \in Queued(p) \/ (p = port /\ k = l)
             /\ Spare(p)' \subseteq Spare(p)
  <2>1. len[p] \in 0 .. Burst /\ l \in Int /\ (p = port => len[p] = l)
    BY <1>1 DEF Slots
  <2> QED
    BY <1>1, <1>3, <1>4, <2>1
<1> QED
  BY <1>1, <1>5, <1>6

\* A refill makes its slot spare.
LEMMA RefillSlots ==
  ASSUME Known, Known', Refill, NEW i, i = idx
  PROVE  /\ i \in Slots
         /\ \A p \in Ports :
              /\ Queued(p)' = Queued(p)
              /\ Queued(p) \subseteq Slots /\ Spare(p) \subseteq Slots
              /\ \A k \in Queued(p) \cup Spare(p) : ~(p = port /\ k = i)
              /\ Spare(p) \subseteq Spare(p)'
              /\ \A k \in Spare(p)' : k \in Spare(p) \/ (p = port /\ k = i)
              /\ p = port => i \in Spare(p)'
<1>2. /\ port \in Ports /\ i \in Nat /\ i < len[port] /\ len[port] \in 0 .. Burst
      /\ pc = "refill" /\ idx' = i + 1 /\ Burst \in Nat
      /\ UNCHANGED <<pc, port, len, off>>
  BY LcoreAssumption
     DEF LcoreAssumption, Known, TypeOK, Refill, receiveVars, rxVars
<1>3. i \in Slots
  BY <1>2 DEF Slots
<1>5. ASSUME NEW p \in Ports
      PROVE  /\ Queued(p)' = Queued(p)
             /\ Queued(p) \subseteq Slots /\ Spare(p) \subseteq Slots
             /\ \A k \in Queued(p) \cup Spare(p) : ~(p = port /\ k = i)
             /\ Spare(p) \subseteq Spare(p)'
             /\ \A k \in Spare(p)' : k \in Spare(p) \/ (p = port /\ k = i)
             /\ p = port => i \in Spare(p)'
  <2>1. len[p] \in 0 .. Burst
    BY DEF Known, TypeOK
  <2>2. CASE p # port
    <3>1. ~Filling(p) /\ ~Filling(p)'
      BY <1>2, <2>2 DEF Filling
    <3> QED
      BY <1>2, <2>1, <2>2, <3>1 DEF Known, SlotsKnown, Slots
  <2>3. CASE p = port
    <3>1. Filling(p) /\ Filling(p)'
      BY <1>2, <2>3 DEF Filling
    <3>2. /\ Queued(p) = {} /\ Queued(p)' = {} /\ Spare(p) = Slots \ (i .. len[p] - 1)
          /\ Spare(p)' = Slots \ (i + 1 .. len[p] - 1)
      BY <1>2, <3>1 DEF Known, SlotsKnown
    <3> QED
      BY <1>2, <1>3, <2>1, <2>3, <3>2
  <2> QED
    BY <2>2, <2>3
<1> QED
  BY <1>3, <1>5

\* A call of rte_eth_tx_burst takes slots from the head of the queue.
LEMMA TxBurstSlots ==
  ASSUME Known, Known', TxBurst, NEW ret \in 0 .. len[port] - off, off' = off + ret,
         IF off + ret = len[port]
           THEN pc' = "refill" /\ idx' = 0
           ELSE UNCHANGED <<pc, idx>>,
         NEW next, next = off .. off + ret - 1
  PROVE  \A p \in Ports :
           /\ p # port => Queued(p)' = Queued(p)
           /\ Queued(port)' = Queued(port) \ next
           /\ next \subseteq Queued(port)
           /\ Spare(p)' = Spare(p)
<1>f. /\ port \in Ports /\ len[port] \in 0 .. Burst /\ off \in 0 .. Burst /\ pc = "transmit"
      /\ Burst \in Nat /\ UNCHANGED <<len, port>>
  BY LcoreAssumption DEF LcoreAssumption, TxBurst, Known, TypeOK
<1> SUFFICES ASSUME NEW p \in Ports
             PROVE  /\ p # port => Queued(p)' = Queued(p)
                    /\ Queued(port)' = Queued(port) \ next
                    /\ next \subseteq Queued(port)
                    /\ Spare(p)' = Spare(p)
  OBVIOUS
<1>1. len[p] \in 0 .. Burst
  BY DEF Known, TypeOK
<1>2. CASE p # port
  <2>1. ~Filling(p) /\ ~Filling(p)' /\ ~Filling(port)
    BY <1>f, <1>2 DEF Filling
  <2>2. /\ Queued(p)' = Queued(p) /\ Spare(p)' = Spare(p)
        /\ Queued(port) = off .. len[port] - 1
    BY <1>f, <1>2, <2>1 DEF Known, SlotsKnown
  <2>3. CASE off + ret = len[port]
    <3>1. Queued(port)' = {}
      BY <1>f, <2>3 DEF Filling, Known, SlotsKnown
    <3> QED
      BY <1>f, <1>2, <2>2, <2>3, <3>1
  <2>4. CASE off + ret # len[port]
    <3>1. ~Filling(port)'
      BY <1>f, <2>4 DEF Filling
    <3>2. Queued(port)' = off + ret .. len[port] - 1
      BY <1>f, <3>1 DEF Known, SlotsKnown
    <3> QED
      BY <1>f, <1>2, <2>2, <3>2
  <2> QED
    BY <2>3, <2>4
<1>3. CASE p = port
  <2>1. ~Filling(port) /\ Queued(port) = off .. len[port] - 1
        /\ Spare(port) = len[port] .. Burst - 1
    BY <1>f DEF Filling, Known, SlotsKnown
  <2>2. CASE off + ret = len[port]
    <3>1. /\ Filling(port)' /\ Spare(port)' = Slots \ (0 .. len[port] - 1)
          /\ Queued(port)' = {}
      BY <1>f, <2>2 DEF Filling, Known, SlotsKnown
    <3> QED
      BY <1>f, <1>3, <2>1, <2>2, <3>1 DEF Slots
  <2>3. CASE off + ret # len[port]
    <3>1. ~Filling(port)' /\ Queued(port)' = off + ret .. len[port] - 1
          /\ Spare(port)' = len[port] .. Burst - 1
      BY <1>f, <2>3 DEF Filling, Known, SlotsKnown
    <3> QED
      BY <1>f, <1>3, <2>1, <3>1
  <2> QED
    BY <2>2, <2>3
<1> QED
  BY <1>2, <1>3

\* The steps of the lcore that only look, count or jump.
LEMMA QuietLifecycle ==
  ASSUME Known, Known',
         \/ InitClient \/ StartClock \/ CheckDeadline \/ ReadClock \/ ClientWaits
         \/ EndClients \/ NothingToSend \/ AllocFails \/ EndRefill \/ Output \/ Tick
         \/ UNCHANGED vars
  PROVE  UNCHANGED Lifecycle!vars
<1>1. UNCHANGED <<m_table, pool, burst, tx_ring, rx_ring, data>>
  BY DEF InitClient, StartClock, CheckDeadline, ReadClock, ClientWaits, EndClients,
         NothingToSend, AllocFails, EndRefill, Output, Tick, vars, tableVars, receiveVars, rxVars
<1>2. \A p \in Ports : Queued(p)' = Queued(p) /\ Spare(p)' = Spare(p)
  BY QuietSlots
<1> QED
  BY <1>1, <1>2, StutterStep

\* pktgen_setup_arp and pktgen_setup_packets build one packet in the next slot's buffer.
LEMMA BuildStep ==
  ASSUME Known, Known', pc \in {"handle", "send"}, ~TableFull,
         UNCHANGED <<pc, port, off, m_table, pool, burst, tx_ring, rx_ring>>,
         len' = [len EXCEPT ![port] = @ + 1],
         NEW d \in Packets, data' = [data EXCEPT ![m_table[port][len[port]]] = d]
  PROVE  \E m \in Mbufs : Lifecycle!Build(m)
<1>l. PICK l : l = len[port]
  OBVIOUS
<1>b. PICK b : b = m_table[port][l]
  OBVIOUS
<1>1. /\ port \in Ports /\ l \in Slots /\ b \in Mbufs /\ off = 0 /\ Burst \in Nat
      /\ len \in [Ports -> 0 .. Burst]
  <2>1. /\ port \in Ports /\ off = 0 /\ Burst \in Nat /\ len \in [Ports -> 0 .. Burst]
        /\ m_table \in [Ports -> [Slots -> Mbufs]]
    BY LcoreAssumption DEF LcoreAssumption, Known, TypeOK, HolderInv, ControlOK
  <2>2. l \in Slots
    BY <1>l, <2>1 DEF TableFull, Slots
  <2> QED
    BY <1>b, <2>1, <2>2
<1>5. l \in Spare(port) /\ l \in Queued(port)'
  BY <1>l, BuildSlots
<1>6. \A p \in Ports : /\ Queued(p) \subseteq Queued(p)'
                       /\ \A k \in Spare(p) : k \in Spare(p)' \/ (p = port /\ k = l)
  BY <1>l, BuildSlots
<1>7. Place(b) = "spare" /\ Place(b)' = "queued"
  <2>1. InSpare(b) /\ InQueue(b)'
    BY <1>1, <1>b, <1>5 DEF InSpare, InQueue
  <2> QED
    BY <1>1, <2>1 DEF Known, PlacesKnown
<1>8. ASSUME NEW n \in Mbufs, n # b PROVE Place(n)' = Place(n)
  <2>1. /\ InTx(n) => InTx(n)'
        /\ InRx(n) => InRx(n)'
        /\ InQueue(n) => InQueue(n)'
        /\ InSpare(n) => InSpare(n)'
    BY <1>6, <1>8, <1>b DEF InTx, InRx, InQueue, InSpare
  <2> QED
    BY <2>1, SamePlace DEF Known
<1>9. data' = [data EXCEPT ![b] = d]
  BY <1>l, <1>b
<1> QED
  <2>1. Lifecycle!Move({b}, "queued")
    BY <1>7, <1>8, MoveStep
  <2> QED
    BY <1>1, <1>7, <1>9, <2>1 DEF Lifecycle!Build

\* A poll takes the burst and posts as many buffers.
LEMMA PollStep ==
  ASSUME Known, Known', Receive
  PROVE  \E S, R \in SUBSET Mbufs : Lifecycle!Poll(S, R)
<1>1. PICK got \in SUBSET rx_ready[port], fresh \in SUBSET Available(port) :
        /\ Cardinality(fresh) = Cardinality(got)
        /\ burst' = got /\ pool' = pool \ fresh
        /\ rx_ring' = [rx_ring EXCEPT ![port] = (@ \ got) \cup fresh]
        /\ pc' = IF got = {} THEN "clock" ELSE "handle"
  BY DEF Receive
<1>2. /\ got \subseteq rx_ring[port] /\ got \subseteq Mbufs /\ fresh \subseteq Mbufs
      /\ fresh \subseteq pool /\ port \in Ports /\ burst = {}
  BY DEF Known, TypeOK, HolderInv, ControlOK, Receive, Available
<1>3. UNCHANGED <<m_table, tx_ring, data, port, len, off>> /\ pc = "receive"
  BY DEF Receive, tableVars
<1>4. \A p \in Ports : Queued(p)' = Queued(p) /\ Spare(p)' = Spare(p)
  BY <1>1, <1>3, SameSlots
<1>5. \A p \in Ports : rx_ring'[p] = IF p = port THEN (rx_ring[port] \ got) \cup fresh
                                                 ELSE rx_ring[p]
  BY <1>1 DEF Known, TypeOK
<1>6. \A n \in got : Place(n) = "rx" /\ Place(n)' = "burst"
  BY <1>1, <1>2 DEF Known, PlacesKnown, InRx
<1>7. \A n \in fresh : Place(n) = "pool" /\ Place(n)' = "rx"
  <2> SUFFICES ASSUME NEW n \in fresh PROVE Place(n) = "pool" /\ Place(n)' = "rx"
    OBVIOUS
  <2>1. n \in pool /\ InRx(n)'
    BY <1>2, <1>5 DEF InRx
  <2> QED
    BY <1>2, <2>1 DEF Known, PlacesKnown
<1>8. ASSUME NEW n \in Mbufs, n \notin got, n \notin fresh PROVE Place(n)' = Place(n)
  <2>1. /\ InTx(n) => InTx(n)'
        /\ InRx(n) => InRx(n)'
        /\ InQueue(n) => InQueue(n)'
        /\ InSpare(n) => InSpare(n)'
    BY <1>3, <1>4, <1>5, <1>8 DEF InTx, InRx, InQueue, InSpare
  <2> QED
    BY <1>1, <1>2, <1>8, <2>1, SamePlace DEF Known
<1>9. got \in SUBSET Mbufs /\ fresh \in SUBSET Mbufs
  BY <1>2
<1>10. Lifecycle!Poll(got, fresh)
  <2>1. \A n \in Mbufs : Place(n)' = IF n \in got THEN "burst"
                                     ELSE IF n \in fresh THEN "rx" ELSE Place(n)
    BY <1>6, <1>7, <1>8
  <2>2. [n \in Mbufs |-> Place(n)]' =
          [m \in Mbufs |-> IF m \in got THEN "burst"
                           ELSE IF m \in fresh THEN "rx" ELSE [n \in Mbufs |-> Place(n)][m]]
    BY <2>1
  <2>3. /\ \A m \in got : [n \in Mbufs |-> Place(n)][m] = "rx"
        /\ \A m \in fresh : [n \in Mbufs |-> Place(n)][m] = "pool"
    BY <1>6, <1>7, <1>9
  <2>4. UNCHANGED data /\ Cardinality(fresh) = Cardinality(got)
    BY <1>1, <1>3
  <2>5. Lifecycle!Cardinality(fresh) = Lifecycle!Cardinality(got)
    BY <2>4 DEF Lifecycle!Cardinality, Cardinality
  <2> QED
    BY <2>2, <2>3, <2>4, <2>5 DEF Lifecycle!Poll
<1> QED
  BY <1>9, <1>10

\* The burst goes back to its pools.
LEMMA FreeStep ==
  ASSUME Known, Known', FreeBurst
  PROVE  Lifecycle!Free
<1>1. /\ pool' = pool \cup burst /\ burst' = {} /\ pc = "handle" /\ pc' = "clock"
      /\ UNCHANGED <<m_table, tx_ring, rx_ring, data, port, len, off>>
  BY DEF FreeBurst, Freed, tableVars, rxVars
<1>2. \A p \in Ports : Queued(p)' = Queued(p) /\ Spare(p)' = Spare(p)
  BY <1>1, SameSlots
<1>3. \A n \in Mbufs : n \in burst => Place(n) = "burst" /\ Place(n)' = "pool"
  BY <1>1 DEF Known, PlacesKnown
<1>4. ASSUME NEW n \in Mbufs, n \notin burst PROVE Place(n)' = Place(n)
  <2>1. /\ InTx(n) => InTx(n)'
        /\ InRx(n) => InRx(n)'
        /\ InQueue(n) => InQueue(n)'
        /\ InSpare(n) => InSpare(n)'
    BY <1>1, <1>2 DEF InTx, InRx, InQueue, InSpare
  <2> QED
    BY <1>1, <1>4, <2>1, SamePlace DEF Known
<1> DEFINE S == {m \in Mbufs : [n \in Mbufs |-> Place(n)][m] = "burst"}
<1>5. \A n \in Mbufs : n \in S <=> n \in burst
  BY DEF Known, PlacesKnown
<1> HIDE DEF S
<1>6. Lifecycle!Move(S, "pool")
  <2>1. \A n \in Mbufs : Place(n)' = IF n \in S THEN "pool" ELSE Place(n)
    BY <1>3, <1>4, <1>5
  <2> QED
    BY <2>1, MoveStep
<1> QED
  BY <1>1, <1>6 DEF Lifecycle!Free, S

\* A refill allocates one buffer.
LEMMA AllocStep ==
  ASSUME Known, Known', Refill
  PROVE  \E m \in Mbufs : Lifecycle!Alloc(m)
<1>1. PICK b \in pool :
        /\ pool' = pool \ {b}
        /\ m_table' = [m_table EXCEPT ![port][idx] = b]
        /\ data' = [data EXCEPT ![b] = [type |-> @.type, cksum |-> FALSE]]
  BY DEF Refill, Reset, Available
<1>i. PICK i : i = idx
  OBVIOUS
<1>2. /\ b \in Mbufs /\ port \in Ports /\ i \in Nat /\ i < len[port] /\ len[port] \in 0 .. Burst
      /\ pc = "refill" /\ idx' = i + 1 /\ Burst \in Nat
      /\ UNCHANGED <<pc, port, len, off, tx_ring, rx_ring, burst>>
  BY <1>i, LcoreAssumption
     DEF LcoreAssumption, Known, TypeOK, Refill, receiveVars, rxVars
<1>3. i \in Slots
  BY <1>2 DEF Slots
<1>4. \A p \in Ports, k \in Slots : m_table'[p][k] = IF p = port /\ k = i THEN b ELSE m_table[p][k]
  BY <1>1, <1>i DEF Known, TypeOK
<1>5. \A p \in Ports :
        /\ Queued(p)' = Queued(p)
        /\ Queued(p) \subseteq Slots /\ Spare(p) \subseteq Slots
        /\ \A k \in Queued(p) \cup Spare(p) : ~(p = port /\ k = i)
        /\ Spare(p) \subseteq Spare(p)'
        /\ p = port => i \in Spare(p)'
  BY <1>i, RefillSlots
<1>6. Place(b) = "pool" /\ Place(b)' = "spare"
  <2>1. InSpare(b)'
    BY <1>2, <1>3, <1>4, <1>5 DEF InSpare
  <2> QED
    BY <1>2, <2>1 DEF Known, PlacesKnown
<1>7. ASSUME NEW n \in Mbufs, n # b PROVE Place(n)' = Place(n)
  <2>1. InTx(n) => InTx(n)'
    BY <1>2 DEF InTx
  <2>2. InRx(n) => InRx(n)'
    BY <1>2 DEF InRx
  <2>3. InQueue(n) => InQueue(n)'
    BY <1>2, <1>4, <1>5 DEF InQueue
  <2>4. InSpare(n) => InSpare(n)'
    BY <1>2, <1>4, <1>5 DEF InSpare
  <2> QED
    BY <1>1, <1>2, <1>7, <2>1, <2>2, <2>3, <2>4, SamePlace DEF Known
<1>8. [type |-> data[b].type, cksum |-> FALSE] \in Packets
  BY <1>2 DEF Known, TypeOK, Packets
<1>9. \E d \in Packets : data' = [data EXCEPT ![b] = d]
  BY <1>1, <1>2, <1>8 DEF Known, TypeOK
<1>10. Lifecycle!Move({b}, "spare")
  BY <1>6, <1>7, MoveStep
<1>11. Lifecycle!Alloc(b)
  BY <1>2, <1>6, <1>9, <1>10 DEF Lifecycle!Alloc
<1> QED
  BY <1>2, <1>11

\* rte_eth_tx_burst hands queued packets over, some or all of them.
LEMMA HandStep ==
  ASSUME Known, Known', TxBurst
  PROVE  \E S \in SUBSET Mbufs : Lifecycle!Hand(S)
<1>1. PICK ret \in 0 .. len[port] - off :
        /\ tx_ring' = [tx_ring EXCEPT ![port] =
                         @ \cup {m_table[port][k] : k \in off .. off + ret - 1}]
        /\ off' = off + ret
        /\ IF off + ret = len[port]
             THEN pc' = "refill" /\ idx' = 0
             ELSE UNCHANGED <<pc, idx>>
  BY DEF TxBurst
<1>2. PICK next : next = off .. off + ret - 1
  OBVIOUS
<1>3. PICK sent : sent = {m_table[port][k] : k \in next}
  OBVIOUS
<1>4. /\ port \in Ports /\ len[port] \in 0 .. Burst /\ off \in 0 .. Burst /\ pc = "transmit"
      /\ Burst \in Nat /\ UNCHANGED <<m_table, len, port, pool, burst, rx_ring, data>>
  BY LcoreAssumption DEF LcoreAssumption, TxBurst, Known, TypeOK, receiveVars, rxVars
<1>5. \A p \in Ports :
        /\ p # port => Queued(p)' = Queued(p)
        /\ Queued(port) \ next \subseteq Queued(port)'
        /\ next \subseteq Queued(port)
        /\ Spare(p) \subseteq Spare(p)'
  BY <1>1, <1>2, TxBurstSlots
<1>6. next \subseteq Slots
  BY <1>1, <1>2, <1>4 DEF Slots
<1>7. sent \in SUBSET Mbufs
  BY <1>3, <1>4, <1>6 DEF Known, TypeOK
<1>8. \A q \in Ports : tx_ring'[q] = IF q = port THEN tx_ring[q] \cup sent ELSE tx_ring[q]
  BY <1>1, <1>2, <1>3 DEF Known, TypeOK
<1>9. ASSUME NEW n \in sent PROVE Place(n) = "queued" /\ Place(n)' = "tx"
  <2>1. InQueue(n)
    BY <1>3, <1>4, <1>5 DEF InQueue
  <2>2. InTx(n)'
    BY <1>4, <1>8 DEF InTx
  <2> QED
    BY <1>7, <2>1, <2>2 DEF Known, PlacesKnown
<1>10. ASSUME NEW n \in Mbufs, n \notin sent PROVE Place(n)' = Place(n)
  <2>1. InTx(n) => InTx(n)'
    BY <1>8 DEF InTx
  <2>2. InRx(n) => InRx(n)'
    BY <1>4 DEF InRx
  <2>3. InQueue(n) => InQueue(n)'
    <3> SUFFICES ASSUME NEW p \in Ports, NEW k \in Queued(p), m_table[p][k] = n
                 PROVE  k \in Queued(p)'
      BY <1>4 DEF InQueue
    <3>1. CASE p = port
      <4>1. k \notin next
        BY <1>3, <1>10, <3>1
      <4> QED
        BY <1>4, <1>5, <3>1, <4>1
    <3>2. CASE p # port
      BY <1>5, <3>2
    <3> QED
      BY <3>1, <3>2
  <2>4. InSpare(n) => InSpare(n)'
    BY <1>4, <1>5 DEF InSpare
  <2> QED
    BY <1>4, <2>1, <2>2, <2>3, <2>4, SamePlace DEF Known
<1>11. Lifecycle!Move(sent, "tx")
  BY <1>9, <1>10, MoveStep
<1>12. Lifecycle!Hand(sent)
  BY <1>4, <1>7, <1>9, <1>11 DEF Lifecycle!Hand
<1> QED
  BY <1>7, <1>12

\* A packet that has left frees its buffer.
LEMMA CompleteStep ==
  ASSUME Known, Known', NEW q \in Ports, NEW b \in Mbufs, NicComplete(q, b)
  PROVE  Lifecycle!Complete(b)
<1>1. /\ b \in tx_ring[q] /\ pool' = pool \cup {b}
      /\ UNCHANGED <<pc, idx, port, len, off, m_table, burst, rx_ring, data>>
  BY DEF NicComplete, tableVars, receiveVars, rxVars
<1>2. \A p \in Ports : tx_ring'[p] = IF p = q THEN tx_ring[p] \ {b} ELSE tx_ring[p]
  BY DEF NicComplete, Known, TypeOK
<1>3. \A p \in Ports : Queued(p)' = Queued(p) /\ Spare(p)' = Spare(p)
  BY <1>1, SameSlots
<1>4. Place(b) = "tx" /\ Place(b)' = "pool"
  BY <1>1 DEF Known, PlacesKnown, InTx
<1>5. ASSUME NEW n \in Mbufs, n # b PROVE Place(n)' = Place(n)
  <2>1. /\ InTx(n) => InTx(n)'
        /\ InRx(n) => InRx(n)'
        /\ InQueue(n) => InQueue(n)'
        /\ InSpare(n) => InSpare(n)'
    BY <1>1, <1>2, <1>3, <1>5 DEF InTx, InRx, InQueue, InSpare
  <2> QED
    BY <1>1, <2>1, SamePlace DEF Known
<1>6. Lifecycle!Move({b}, "pool")
  BY <1>4, <1>5, MoveStep
<1> QED
  BY <1>1, <1>4, <1>6 DEF Lifecycle!Complete

\* A packet is written to a posted buffer.
LEMMA ArriveStep ==
  ASSUME Known, Known', NEW q \in Ports, NEW b \in Mbufs, NEW t \in RxTypes, NicReceive(q, b, t)
  PROVE  Lifecycle!Arrive(b)
<1>1. /\ b \in rx_ring[q]
      /\ data' = [data EXCEPT ![b] = [type |-> t, cksum |-> FALSE]]
      /\ UNCHANGED <<pc, idx, port, len, off, m_table, pool, burst, tx_ring, rx_ring>>
  BY DEF NicReceive, tableVars, receiveVars
<1>2. \A p \in Ports : Queued(p)' = Queued(p) /\ Spare(p)' = Spare(p)
  BY <1>1, SameSlots
<1>3. \A n \in Mbufs : Place(n)' = Place(n)
  <2> SUFFICES ASSUME NEW n \in Mbufs PROVE Place(n)' = Place(n)
    OBVIOUS
  <2>1. /\ InTx(n) => InTx(n)'
        /\ InRx(n) => InRx(n)'
        /\ InQueue(n) => InQueue(n)'
        /\ InSpare(n) => InSpare(n)'
    BY <1>1, <1>2 DEF InTx, InRx, InQueue, InSpare
  <2> QED
    BY <1>1, <2>1, SamePlace DEF Known
<1>4. Place(b) = "rx"
  BY <1>1 DEF Known, PlacesKnown, InRx
<1>5. [type |-> t, cksum |-> FALSE] \in Packets
  BY DEF Packets, Types
<1> QED
  BY <1>1, <1>3, <1>4, <1>5 DEF Lifecycle!Arrive

\* One packet of a burst, and one request of a client: a packet is built, or none is.
LEMMA SetupSteps ==
  ASSUME Known, Known', HandlePacket \/ ClientDue
  PROVE  (\E m \in Mbufs : Lifecycle!Build(m)) \/ UNCHANGED Lifecycle!vars
<1>1. /\ pc \in {"handle", "send"}
      /\ UNCHANGED <<pc, port, off, m_table, pool, burst, tx_ring, rx_ring>>
  BY DEF HandlePacket, ClientDue, Reschedule, receiveVars, rxVars
<1>2. CASE UNCHANGED <<len, data>>
  <2>1. \A p \in Ports : Queued(p)' = Queued(p) /\ Spare(p)' = Spare(p)
    BY <1>1, <1>2, SameSlots
  <2> QED
    BY <1>1, <1>2, <2>1, StutterStep
<1>3. CASE ~TableFull /\ SetupArp
  <2>1. PICK d : d = [type |-> "arp_reply", cksum |-> data[m_table[port][len[port]]].cksum]
    OBVIOUS
  <2>2. /\ len' = [len EXCEPT ![port] = @ + 1]
        /\ data' = [data EXCEPT ![m_table[port][len[port]]] = d]
    BY <1>3, <2>1 DEF SetupArp
  <2>3. m_table[port][len[port]] \in Mbufs
    <3>1. len[port] \in Slots /\ port \in Ports
      <4>1. port \in Ports /\ len[port] \in 0 .. Burst
        BY DEF Known, TypeOK
      <4>2. Burst \in Nat /\ len[port] # Burst
        BY <1>3, LcoreAssumption DEF LcoreAssumption, TableFull
      <4> QED
        BY <4>1, <4>2 DEF Slots
    <3> QED
      BY <3>1 DEF Known, TypeOK
  <2>4. d \in Packets
    BY <2>1, <2>3 DEF Packets, Types, TxTypes, Known, TypeOK
  <2> QED
    BY <1>1, <1>3, <2>2, <2>4, BuildStep
<1>4. CASE ~TableFull /\ SetupPackets
  <2>1. /\ len' = [len EXCEPT ![port] = @ + 1]
        /\ data' = [data EXCEPT ![m_table[port][len[port]]] = [type |-> "request", cksum |-> TRUE]]
    BY <1>4 DEF SetupPackets
  <2>2. [type |-> "request", cksum |-> TRUE] \in Packets
    BY DEF Packets, Types, TxTypes
  <2> QED
    BY <1>1, <1>4, <2>1, <2>2, BuildStep
<1> QED
  BY <1>2, <1>3, <1>4 DEF HandlePacket, ClientDue, SetupArp, SetupPackets

\* Every step of the lcore, the NIC, the network or the clock is one of the life cycle.
LEMMA NextLifecycle == Known /\ Known' /\ [Next]_vars => [Lifecycle!Next]_(Lifecycle!vars)
<1> SUFFICES ASSUME Known, Known', [Next]_vars PROVE Lifecycle!Next \/ UNCHANGED Lifecycle!vars
  OBVIOUS
<1>1. CASE Receive
  BY <1>1, PollStep DEF Lifecycle!Next
<1>2. CASE FreeBurst
  BY <1>2, FreeStep DEF Lifecycle!Next
<1>3. CASE TxBurst
  BY <1>3, HandStep DEF Lifecycle!Next
<1>4. CASE Refill
  BY <1>4, AllocStep DEF Lifecycle!Next
<1>5. CASE HandlePacket \/ ClientDue
  BY <1>5, SetupSteps DEF Lifecycle!Next
<1>6. ASSUME NEW p \in Ports, NEW m \in Mbufs, NicComplete(p, m) PROVE Lifecycle!Next
  BY <1>6, CompleteStep DEF Lifecycle!Next
<1>7. ASSUME NEW p \in Ports, NEW m \in Mbufs, NEW t \in RxTypes, NicReceive(p, m, t)
      PROVE  Lifecycle!Next
  BY <1>7, ArriveStep DEF Lifecycle!Next
<1>8. CASE \/ InitClient \/ StartClock \/ CheckDeadline \/ ReadClock \/ ClientWaits
           \/ EndClients \/ NothingToSend \/ AllocFails \/ EndRefill \/ Output \/ Tick
           \/ UNCHANGED vars
  BY <1>8, QuietLifecycle
<1> QED
  BY <1>1, <1>2, <1>3, <1>4, <1>5, <1>6, <1>7, <1>8 DEF Next, LcoreStep, Stopped

\* Before the loop a buffer is free, posted or in a table.
LEMMA InitLifecycle == Init => Lifecycle!Init
<1> SUFFICES ASSUME Init PROVE Lifecycle!Init
  OBVIOUS
<1>1. Known
  BY InitTypeOK, InitHolderInv, SlotsNow, PlacesNow DEF Known, HolderInv
<1>2. burst = {} /\ (\A p \in Ports : tx_ring[p] = {}) /\ (\A p \in Ports : Queued(p) = {})
  BY DEF Init, Queued, Slots
<1>3. \A n \in Mbufs : Place(n) \in {"pool", "spare", "rx"}
  BY <1>1, <1>2 DEF Known, PlacesKnown, InTx, InQueue
<1>4. data \in [Mbufs -> Packets]
  BY <1>1 DEF Known, TypeOK
<1> QED
  BY <1>3, <1>4 DEF Lifecycle!Init

\* The lcore treats packet buffers as the DPDK asks, for every number of ports, slots,
\* descriptors and buffers: none is written to by the lcore while the NIC has it, sent
\* twice, or freed by two hands.
THEOREM LifecycleCorrect == Spec => ImplementsLifecycle
<1>1. Init => TypeOK /\ HolderInv
  BY InitTypeOK, InitHolderInv
<1>2. TypeOK /\ HolderInv /\ [Next]_vars => (TypeOK /\ HolderInv)'
  BY NextTypeOK, NextHolderInv
<1>3. TypeOK /\ HolderInv /\ TypeOK' /\ HolderInv' /\ [Next]_vars =>
        [Lifecycle!Next]_(Lifecycle!vars)
  <2> SUFFICES ASSUME TypeOK, HolderInv, TypeOK', HolderInv', [Next]_vars
               PROVE  [Lifecycle!Next]_(Lifecycle!vars)
    OBVIOUS
  <2>1. Known
    BY SlotsNow, PlacesNow DEF Known, HolderInv
  <2>2. Known'
    BY KnownNext DEF Known
  <2> QED
    BY <2>1, <2>2, NextLifecycle
<1> QED
  BY <1>1, <1>2, <1>3, InitLifecycle, PTL DEF Spec, ImplementsLifecycle, Lifecycle!Spec
=============================================================================
