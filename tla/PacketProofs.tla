---------------------------- MODULE PacketProofs ----------------------------
(***************************************************************************)
(* Theorems of the module Lcore about what its buffers hold: a run lasts   *)
(* longer than its seconds, only complete packets are sent, requests, ARP  *)
(* packets and replies are each accounted for once, and a late client does *)
(* not catch up.                                                           *)
(***************************************************************************)
EXTENDS LcoreProofs, Arithmetic

\* The buffers' holders, the slots and the places are as the lcore's control says.
LEMMA KnownCorrect == Spec => []Known
<1>1. Init => TypeOK /\ HolderInv
  BY InitTypeOK, InitHolderInv
<1>2. TypeOK /\ HolderInv /\ [Next]_vars => (TypeOK /\ HolderInv)'
  BY NextTypeOK, NextHolderInv
<1>3. TypeOK /\ HolderInv => Known
  BY SlotsNow, PlacesNow DEF Known, HolderInv
<1> QED
  BY <1>1, <1>2, <1>3, PTL DEF Spec

-----------------------------------------------------------------------------
(* The deadline. *)

\* A clock that shows r more whole seconds than another is r seconds ahead of it.
LEMMA WholeSeconds ==
  ASSUME NEW w \in Nat \ {0}, NEW a \in Nat, NEW b \in Nat, NEW r \in Nat,
         a \div w > b \div w + r
  PROVE  a - b > r * w
<1> DEFINE q == a \div w
           p == b \div w
<1>1. q \in Int /\ a % w \in 0 .. w - 1 /\ a = w * q + (a % w)
  BY DivMod
<1>2. p \in Int /\ b % w \in 0 .. w - 1 /\ b = w * p + (b % w)
  BY DivMod
<1>3. w * (q - p) = w * q - w * p
  BY <1>1, <1>2, Dist
<1>4. w * ((q - p) - (r + 1)) = w * (q - p) - w * (r + 1)
  BY <1>1, <1>2, Dist
<1>5. (q - p) - (r + 1) \in Nat
  BY <1>1, <1>2
<1> HIDE DEF q, p
<1>6. w * ((q - p) - (r + 1)) >= 0 /\ w * (r + 1) = r * w + w
  BY <1>5
<1> QED
  BY <1>1, <1>2, <1>3, <1>4, <1>6

\* No step ends a run early, or changes the times of a run that has ended.
LEMMA NextRunsFullTime == TypeOK /\ RunsFullTime /\ [Next]_vars => RunsFullTime'
<1> SUFFICES ASSUME TypeOK, RunsFullTime, [Next]_vars, pc' \in {"output", "done"}
             PROVE  end' - start' > RunSeconds * TicksPerSec
  BY DEF RunsFullTime
<1>1. CASE CheckDeadline
  <2>1. Sec(now) > Sec(start) + RunSeconds /\ end' = now /\ start' = start
    BY <1>1 DEF CheckDeadline, Expired
  <2>2. now \in Nat /\ start \in Nat /\ TicksPerSec \in Nat \ {0} /\ RunSeconds \in Nat
    BY LcoreAssumption DEF LcoreAssumption, TypeOK
  <2> QED
    BY <2>1, <2>2, WholeSeconds DEF Sec
<1>2. CASE pc \in {"output", "done"} /\ UNCHANGED <<start, end>>
  BY <1>2 DEF RunsFullTime
<1>3. CASE LcoreStep /\ ~CheckDeadline
  BY <1>2, <1>3
     DEF LcoreStep, InitClient, StartClock, Receive, HandlePacket, FreeBurst, ReadClock,
         ClientDue, ClientWaits, EndClients, NothingToSend, NextPort, TxBurst, Refill,
         AllocFails, EndRefill, Output, timerVars
<1>4. CASE Tick \/ Stopped \/ UNCHANGED vars
  BY <1>2, <1>4 DEF Tick, Stopped, vars, timerVars
<1>5. ASSUME NEW p \in Ports, NEW m \in Mbufs, NicComplete(p, m)
      PROVE  pc \in {"output", "done"} /\ UNCHANGED <<start, end>>
  BY <1>5 DEF NicComplete, timerVars
<1>6. ASSUME NEW p \in Ports, NEW m \in Mbufs, NEW t \in RxTypes, NicReceive(p, m, t)
      PROVE  pc \in {"output", "done"} /\ UNCHANGED <<start, end>>
  BY <1>6 DEF NicReceive, timerVars
<1> QED
  BY <1>1, <1>2, <1>3, <1>4, <1>5, <1>6 DEF Next

\* A run is longer than RunSeconds for every clock rate, though its deadline compares
\* whole seconds and its start may be late in one.
THEOREM RunsFullTimeCorrect == Spec => []RunsFullTime
<1>1. Init => TypeOK /\ RunsFullTime
  BY InitTypeOK DEF Init, RunsFullTime
<1>2. TypeOK /\ RunsFullTime /\ [Next]_vars => (TypeOK /\ RunsFullTime)'
  BY NextTypeOK, NextRunsFullTime
<1> QED
  BY <1>1, <1>2, PTL DEF Spec

-----------------------------------------------------------------------------
(* What the buffers in the slots and the unread ones hold. *)

\* Received, and not looked at by the lcore yet.
Unread(n) == n \in todo \/ \E p \in Ports : n \in rx_ready[p]

\* The packets a property counts, by their slots and by their buffers.
LEMMA MembersNow ==
  /\ \A t, n : n \in Waiting(t) <=> Unread(n) /\ data[n].type = t
  /\ \A t, s : s \in QueuedPackets(t) <=>
       /\ s \in Ports \X Slots /\ s[2] \in Queued(s[1])
       /\ data[m_table[s[1]][s[2]]].type = t
BY DEF Waiting, QueuedPackets, Unread

\* The same of the state after a step.
LEMMA MembersNext ==
  /\ \A t, n : n \in Waiting(t)' <=> Unread(n)' /\ data'[n].type = t
  /\ \A t, s : s \in QueuedPackets(t)' <=>
       /\ s \in Ports \X Slots /\ s[2] \in Queued(s[1])'
       /\ data'[m_table'[s[1]][s[2]]].type = t
BY DEF Waiting, QueuedPackets, Unread

\* The buffer of a slot that is queued or spare is in no pool, ring or burst, and in
\* no other such slot.
LEMMA SlotBuffers ==
  ASSUME Known, NEW p \in Ports, NEW k \in Queued(p) \cup Spare(p)
  PROVE  /\ k \in Slots /\ m_table[p][k] \in Mbufs /\ m_table[p][k] \notin pool
         /\ ~Unread(m_table[p][k])
         /\ \A q \in Ports : m_table[p][k] \notin tx_ring[q] \cup rx_ring[q]
         /\ \A q \in Ports : \A l \in Queued(q) \cup Spare(q) :
              m_table[q][l] = m_table[p][k] => q = p /\ l = k
<1>1. \A q \in Ports : Queued(q) \cup Spare(q) \subseteq Live(q)
  BY DEF Known, SlotsKnown, Spare
<1>2. k \in Live(p) /\ k \in Slots
  BY <1>1 DEF Live
<1>3. \A q \in Ports : rx_ready[q] \subseteq rx_ring[q]
  BY DEF Known, TypeOK
<1>4. todo \subseteq burst /\ m_table[p][k] \in Mbufs
  BY <1>2 DEF Known, TypeOK
<1> QED
  BY <1>1, <1>2, <1>3, <1>4 DEF Known, HolderInv, OneHolder, Unread

\* An unread packet is in no pool and on no TX ring.
LEMMA UnreadBuffers ==
  ASSUME Known, NEW n, Unread(n)
  PROVE  n \in Mbufs /\ n \notin pool /\ \A q \in Ports : n \notin tx_ring[q]
<1>1. n \in burst \/ \E p \in Ports : n \in rx_ring[p]
  BY DEF Unread, Known, TypeOK
<1>2. n \in Mbufs
  BY <1>1 DEF Known, TypeOK
<1> QED
  BY <1>1, <1>2 DEF Known, HolderInv, OneHolder

\* A step that leaves slots, contents and counters as they are, and hands nothing over.
Still ==
  /\ UNCHANGED <<m_table, data, wired, nr_tx, nr_rx, arrived>>
  /\ \A p \in Ports : Queued(p)' = Queued(p) /\ Spare(p)' = Spare(p)
  /\ \A p \in Ports : tx_ring'[p] \subseteq tx_ring[p]
  /\ \A n : Unread(n)' <=> Unread(n)

\* So does all that only looks, counts or jumps.
LEMMA QuietStill ==
  ASSUME Known, Known',
         \/ InitClient \/ StartClock \/ CheckDeadline \/ ReadClock \/ ClientWaits
         \/ EndClients \/ NothingToSend \/ AllocFails \/ EndRefill \/ Output \/ Tick
         \/ UNCHANGED vars
  PROVE  Still
<1>1. UNCHANGED <<m_table, data, wired, nr_tx, nr_rx, arrived, tx_ring, todo, rx_ready>>
  BY DEF InitClient, StartClock, CheckDeadline, ReadClock, ClientWaits, EndClients,
         NothingToSend, AllocFails, EndRefill, Output, Tick, vars, tableVars, receiveVars,
         rxVars, clientVars
<1>2. \A p \in Ports : Queued(p)' = Queued(p) /\ Spare(p)' = Spare(p)
  BY QuietSlots
<1> QED
  BY <1>1, <1>2 DEF Still, Unread

\* And a poll, which moves packets from a ring to the burst.
LEMMA ReceiveStill == ASSUME Known, Known', Receive PROVE Still
<1>1. PICK got \in SUBSET rx_ready[port] :
        /\ burst' = got /\ todo' = got
        /\ rx_ready' = [rx_ready EXCEPT ![port] = @ \ got]
        /\ pc' = IF got = {} THEN "clock" ELSE "handle"
  BY DEF Receive
<1>2. /\ UNCHANGED <<m_table, tx_ring, data, port, len, off, wired, nr_tx, nr_rx, arrived>>
      /\ pc = "receive"
  BY DEF Receive, tableVars, clientVars
<1>3. \A p \in Ports : Queued(p)' = Queued(p) /\ Spare(p)' = Spare(p)
  BY <1>1, <1>2, SameSlots
<1>4. todo = {} /\ port \in Ports
  BY <1>2 DEF Known, HolderInv, ControlOK, TypeOK
<1>5. \A p \in Ports : rx_ready'[p] = IF p = port THEN rx_ready[port] \ got ELSE rx_ready[p]
  BY <1>1 DEF Known, TypeOK
<1>6. \A n : Unread(n)' <=> Unread(n)
  BY <1>1, <1>4, <1>5 DEF Unread
<1> QED
  BY <1>2, <1>3, <1>6 DEF Still

\* And the end of a burst, all of which has been looked at.
LEMMA FreeStill == ASSUME Known, Known', FreeBurst PROVE Still
<1>1. /\ pc = "handle" /\ pc' = "clock"
      /\ UNCHANGED <<m_table, tx_ring, data, port, len, off, wired, nr_tx, nr_rx, arrived,
                     todo, rx_ready>>
  BY DEF FreeBurst, tableVars, rxVars, clientVars
<1>2. \A p \in Ports : Queued(p)' = Queued(p) /\ Spare(p)' = Spare(p)
  BY <1>1, SameSlots
<1> QED
  BY <1>1, <1>2 DEF Still, Unread

\* And a packet that leaves a TX ring.
LEMMA CompleteStill ==
  ASSUME Known, Known', NEW q \in Ports, NEW b \in Mbufs, NicComplete(q, b)
  PROVE  Still
<1>1. UNCHANGED <<pc, idx, port, len, off, m_table, data, wired, nr_tx, nr_rx, arrived,
                  todo, rx_ready>>
  BY DEF NicComplete, tableVars, receiveVars, rxVars, clientVars
<1>2. \A p \in Ports : tx_ring'[p] \subseteq tx_ring[p]
  BY DEF NicComplete, Known, TypeOK
<1>3. \A p \in Ports : Queued(p)' = Queued(p) /\ Spare(p)' = Spare(p)
  BY <1>1, SameSlots
<1> QED
  BY <1>1, <1>2, <1>3 DEF Still, Unread

-----------------------------------------------------------------------------
(* What is sent. *)

\* The two packets that are complete: a request with its offload flags, an ARP reply
\* without.
Sendable == {[type |-> "request", cksum |-> TRUE], [type |-> "arp_reply", cksum |-> FALSE]}

\* WireFormat with what it rests on: a queued packet is complete, and the buffer of a
\* spare slot has no offload flag left.
WireInv ==
  /\ \A p \in Ports : \A m \in tx_ring[p] : data[m] \in Sendable
  /\ \A p \in Ports : \A k \in Queued(p) : data[m_table[p][k]] \in Sendable
  /\ \A p \in Ports : \A k \in Spare(p) : data[m_table[p][k]].cksum = FALSE

\* A still step sends nothing new.
LEMMA StillWire == ASSUME WireInv, Still PROVE WireInv'
BY DEF WireInv, Still

\* A packet built in the first free slot is complete.
LEMMA BuildWire ==
  ASSUME Known, Known', WireInv, pc \in {"handle", "send"}, ~TableFull,
         UNCHANGED <<pc, port, off, m_table, tx_ring>>,
         len' = [len EXCEPT ![port] = @ + 1],
         NEW d \in Sendable, data' = [data EXCEPT ![m_table[port][len[port]]] = d]
  PROVE  WireInv'
<1>l. PICK l : l = len[port]
  OBVIOUS
<1>1. /\ port \in Ports /\ l \in Slots /\ l \in Spare(port)
      /\ \A p \in Ports : /\ \A k \in Queued(p)' : k \in Queued(p) \/ (p = port /\ k = l)
                          /\ Spare(p)' \subseteq Spare(p)
      /\ l \notin Queued(port) /\ l \notin Spare(port)'
  BY <1>l, BuildSlots
<1>2. PICK b : b = m_table[port][l]
  OBVIOUS
<1>3. data' = [data EXCEPT ![b] = d] /\ data \in [Mbufs -> Packets] /\ b \in Mbufs
  BY <1>l, <1>1, <1>2, SlotBuffers DEF Known, TypeOK
<1>4. \A n : n # b /\ n \in Mbufs => data'[n] = data[n]
  BY <1>3
<1>5. \A p \in Ports : \A m \in tx_ring[p] : m # b /\ m \in Mbufs
  BY <1>1, <1>2, SlotBuffers DEF Known, TypeOK
<1>6. ASSUME NEW p \in Ports, NEW k \in Queued(p) \cup Spare(p), ~(p = port /\ k = l)
      PROVE  m_table[p][k] # b /\ m_table[p][k] \in Mbufs
  BY <1>1, <1>2, <1>6, SlotBuffers
<1>7. \A p \in Ports : \A m \in tx_ring'[p] : data'[m] \in Sendable
  BY <1>4, <1>5 DEF WireInv
<1>8. \A p \in Ports : \A k \in Queued(p)' : data'[m_table'[p][k]] \in Sendable
  BY <1>1, <1>2, <1>3, <1>4, <1>6 DEF WireInv
<1>9. \A p \in Ports : \A k \in Spare(p)' : data'[m_table'[p][k]].cksum = FALSE
  BY <1>1, <1>2, <1>3, <1>4, <1>6 DEF WireInv
<1> QED
  BY <1>7, <1>8, <1>9 DEF WireInv

\* A burst handed to the NIC is complete.
LEMMA TxBurstWire == ASSUME Known, Known', WireInv, TxBurst PROVE WireInv'
<1>1. PICK ret \in 0 .. len[port] - off :
        /\ tx_ring' = [tx_ring EXCEPT ![port] =
                         @ \cup {m_table[port][k] : k \in off .. off + ret - 1}]
        /\ off' = off + ret
        /\ IF off + ret = len[port]
             THEN pc' = "refill" /\ idx' = 0
             ELSE UNCHANGED <<pc, idx>>
  BY DEF TxBurst
<1>2. PICK next : next = off .. off + ret - 1
  OBVIOUS
<1>3. \A p \in Ports : /\ p # port => Queued(p)' = Queued(p)
                       /\ Queued(port)' = Queued(port) \ next
                       /\ next \subseteq Queued(port)
                       /\ Spare(p)' = Spare(p)
  BY <1>1, <1>2, TxBurstSlots
<1>4. UNCHANGED <<m_table, data, port>> /\ port \in Ports
  BY DEF TxBurst, Known, TypeOK
<1>5. next \subseteq Queued(port) /\ Queued(port)' \subseteq Queued(port)
  BY <1>3, <1>4
<1>6. \A p \in Ports : tx_ring'[p] = IF p = port
                                     THEN tx_ring[p] \cup {m_table[port][k] : k \in next}
                                     ELSE tx_ring[p]
  BY <1>1, <1>2 DEF Known, TypeOK
<1>7. \A p \in Ports : \A m \in tx_ring'[p] : data'[m] \in Sendable
  <2>1. \A k \in next : data[m_table[port][k]] \in Sendable
    BY <1>4, <1>5 DEF WireInv
  <2>2. \A p \in Ports : \A m \in tx_ring[p] : data[m] \in Sendable
    BY DEF WireInv
  <2> SUFFICES ASSUME NEW p \in Ports, NEW m \in tx_ring'[p] PROVE data[m] \in Sendable
    BY <1>4
  <2>3. m \in tx_ring[p] \/ m \in {m_table[port][k] : k \in next}
    BY <1>6
  <2>4. CASE m \in tx_ring[p]
    BY <2>2, <2>4
  <2>5. CASE m \in {m_table[port][k] : k \in next}
    BY <2>1, <2>5
  <2> QED
    BY <2>3, <2>4, <2>5
<1>8. \A p \in Ports : /\ \A k \in Queued(p)' : data'[m_table'[p][k]] \in Sendable
                       /\ \A k \in Spare(p)' : data'[m_table'[p][k]].cksum = FALSE
  <2>1. \A p \in Ports : Queued(p)' \subseteq Queued(p) /\ Spare(p)' = Spare(p)
    BY <1>3, <1>4, <1>5
  <2> QED
    BY <1>4, <2>1 DEF WireInv
<1> QED
  BY <1>7, <1>8 DEF WireInv

\* A fresh buffer is in no other slot and on no ring, and its flags are cleared.
LEMMA RefillWire == ASSUME Known, Known', WireInv, Refill PROVE WireInv'
<1>1. PICK b \in pool :
        /\ m_table' = [m_table EXCEPT ![port][idx] = b]
        /\ data' = [data EXCEPT ![b] = [type |-> @.type, cksum |-> FALSE]]
  BY DEF Refill, Reset, Available
<1>2. PICK i : i = idx
  OBVIOUS
<1>3. /\ i \in Slots
      /\ \A p \in Ports :
           /\ Queued(p)' = Queued(p)
           /\ \A k \in Queued(p) \cup Spare(p) : ~(p = port /\ k = i)
           /\ \A k \in Spare(p)' : k \in Spare(p) \/ (p = port /\ k = i)
  BY <1>2, RefillSlots
<1>4. /\ b \in Mbufs /\ port \in Ports /\ data \in [Mbufs -> Packets] /\ UNCHANGED tx_ring
      /\ m_table \in [Ports -> [Slots -> Mbufs]]
  BY DEF Known, TypeOK, Refill
<1>5. data'[b].cksum = FALSE /\ \A n \in Mbufs : n # b => data'[n] = data[n]
  BY <1>1, <1>4
<1>6. \A p \in Ports : \A k \in Queued(p) \cup Spare(p) :
        /\ k \in Slots /\ m_table[p][k] # b /\ m_table[p][k] \in Mbufs
  BY SlotBuffers
<1>7. \A p \in Ports : \A k \in Slots :
        m_table'[p][k] = IF p = port /\ k = i THEN b ELSE m_table[p][k]
  BY <1>1, <1>2, <1>4
<1>8. \A p \in Ports : \A m \in tx_ring[p] : m # b /\ m \in Mbufs
  BY DEF Known, TypeOK, HolderInv, OneHolder
<1>9. \A p \in Ports : \A m \in tx_ring'[p] : data'[m] \in Sendable
  BY <1>4, <1>5, <1>8 DEF WireInv
<1>10. \A p \in Ports : \A k \in Queued(p)' : data'[m_table'[p][k]] \in Sendable
  BY <1>3, <1>5, <1>6, <1>7 DEF WireInv
<1>11. \A p \in Ports : \A k \in Spare(p)' : data'[m_table'[p][k]].cksum = FALSE
  BY <1>3, <1>5, <1>6, <1>7 DEF WireInv
<1> QED
  BY <1>9, <1>10, <1>11 DEF WireInv

\* A packet that arrives is written to a posted buffer.
LEMMA ArriveWire ==
  ASSUME Known, Known', WireInv, NEW q \in Ports, NEW b \in Mbufs, NEW t \in RxTypes,
         NicReceive(q, b, t)
  PROVE  WireInv'
<1>1. /\ b \in rx_ring[q] /\ data' = [data EXCEPT ![b] = [type |-> t, cksum |-> FALSE]]
      /\ UNCHANGED <<pc, idx, port, len, off, m_table, tx_ring>>
  BY DEF NicReceive, tableVars
<1>2. \A p \in Ports : Queued(p)' = Queued(p) /\ Spare(p)' = Spare(p)
  BY <1>1, SameSlots
<1>3. \A n \in Mbufs : n # b => data'[n] = data[n]
  BY <1>1 DEF Known, TypeOK
<1>4. \A p \in Ports : \A k \in Queued(p) \cup Spare(p) :
        m_table[p][k] # b /\ m_table[p][k] \in Mbufs
  BY <1>1, SlotBuffers
<1>5. \A p \in Ports : \A m \in tx_ring[p] : m # b /\ m \in Mbufs
  BY <1>1 DEF Known, TypeOK, HolderInv, OneHolder
<1> QED
  BY <1>1, <1>2, <1>3, <1>4, <1>5 DEF WireInv

\* One packet of a burst, and one request of a client.
LEMMA SetupWire == ASSUME Known, Known', WireInv, HandlePacket \/ ClientDue PROVE WireInv'
<1>1. /\ pc \in {"handle", "send"}
      /\ UNCHANGED <<pc, port, off, m_table, tx_ring>>
  BY DEF HandlePacket, ClientDue, Reschedule, receiveVars, rxVars
<1>2. CASE UNCHANGED <<len, data>>
  <2>1. \A p \in Ports : Queued(p)' = Queued(p) /\ Spare(p)' = Spare(p)
    BY <1>1, <1>2, SameSlots
  <2> QED
    BY <1>1, <1>2, <2>1 DEF WireInv
<1>3. CASE ~TableFull /\ SetupArp
  <2>1. PICK l : l = len[port]
    OBVIOUS
  <2>2. len' = [len EXCEPT ![port] = @ + 1]
    BY <1>3 DEF SetupArp
  <2>3. port \in Ports /\ l \in Spare(port)
    BY <1>1, <1>3, <2>1, <2>2, BuildSlots
  <2>4. data[m_table[port][l]].cksum = FALSE /\ m_table[port][l] \in Mbufs
    BY <2>3, SlotBuffers DEF WireInv
  <2>5. data' = [data EXCEPT ![m_table[port][len[port]]] =
                   [type |-> "arp_reply", cksum |-> FALSE]]
    BY <1>3, <2>1, <2>4 DEF SetupArp, Known, TypeOK
  <2>6. [type |-> "arp_reply", cksum |-> FALSE] \in Sendable
    BY DEF Sendable
  <2> QED
    BY <1>1, <1>3, <2>2, <2>5, <2>6, BuildWire
<1>4. CASE ~TableFull /\ SetupPackets
  <2>1. /\ len' = [len EXCEPT ![port] = @ + 1]
        /\ data' = [data EXCEPT ![m_table[port][len[port]]] = [type |-> "request", cksum |-> TRUE]]
    BY <1>4 DEF SetupPackets
  <2>2. [type |-> "request", cksum |-> TRUE] \in Sendable
    BY DEF Sendable
  <2> QED
    BY <1>1, <1>4, <2>1, <2>2, BuildWire
<1> QED
  BY <1>2, <1>3, <1>4 DEF HandlePacket, ClientDue, SetupArp, SetupPackets

\* Every step keeps what is sent complete.
LEMMA NextWire == Known /\ Known' /\ WireInv /\ [Next]_vars => WireInv'
<1> SUFFICES ASSUME Known, Known', WireInv, [Next]_vars PROVE WireInv'
  OBVIOUS
<1>1. CASE \/ InitClient \/ StartClock \/ CheckDeadline \/ ReadClock \/ ClientWaits
           \/ EndClients \/ NothingToSend \/ AllocFails \/ EndRefill \/ Output \/ Tick
           \/ UNCHANGED vars
  BY <1>1, QuietStill, StillWire
<1>2. CASE Receive
  BY <1>2, ReceiveStill, StillWire
<1>3. CASE FreeBurst
  BY <1>3, FreeStill, StillWire
<1>4. CASE HandlePacket \/ ClientDue
  BY <1>4, SetupWire
<1>5. CASE TxBurst
  BY <1>5, TxBurstWire
<1>6. CASE Refill
  BY <1>6, RefillWire
<1>7. ASSUME NEW p \in Ports, NEW m \in Mbufs, NicComplete(p, m) PROVE WireInv'
  BY <1>7, CompleteStill, StillWire
<1>8. ASSUME NEW p \in Ports, NEW m \in Mbufs, NEW t \in RxTypes, NicReceive(p, m, t)
      PROVE  WireInv'
  BY <1>8, ArriveWire
<1> QED
  BY <1>1, <1>2, <1>3, <1>4, <1>5, <1>6, <1>7, <1>8 DEF Next, LcoreStep, Stopped

\* Every packet on a TX ring was built for sending and has the offload flags of its
\* kind, whatever its buffer held before.
THEOREM WireFormatCorrect == Spec => []WireFormat
<1>1. Init => WireInv
  <2> SUFFICES ASSUME Init PROVE WireInv
    OBVIOUS
  <2>1. \A p \in Ports : tx_ring[p] = {} /\ Queued(p) = {}
    BY DEF Init, Queued, Slots
  <2>2. \A p \in Ports : \A k \in Spare(p) : m_table[p][k] \in Mbufs
    BY DEF Init, Spare, Live
  <2>3. \A n \in Mbufs : data[n].cksum = FALSE
    BY DEF Init, Blank
  <2> QED
    BY <2>1, <2>2, <2>3 DEF WireInv
<1>2. Known /\ Known' /\ WireInv /\ [Next]_vars => WireInv'
  BY NextWire
<1>3. WireInv => WireFormat
  BY DEF WireInv, WireFormat, Sendable
<1> QED
  BY <1>1, <1>2, <1>3, KnownCorrect, PTL DEF Spec

-----------------------------------------------------------------------------
(* The sets the accounts are kept of. *)

\* They are finite.
LEMMA PacketsFinite ==
  ASSUME Known, NEW t
  PROVE  /\ IsFiniteSet(QueuedPackets(t)) /\ Cardinality(QueuedPackets(t)) \in Nat
         /\ IsFiniteSet(Waiting(t)) /\ Cardinality(Waiting(t)) \in Nat
<1>1. IsFiniteSet(Ports \X Slots)
  BY PlacesSize, LcoreAssumption DEF LcoreAssumption, Slots
<1>2. QueuedPackets(t) \in SUBSET (Ports \X Slots)
  BY DEF QueuedPackets
<1>3. Waiting(t) \in SUBSET Mbufs
  <2> SUFFICES ASSUME NEW n \in Waiting(t) PROVE n \in Mbufs
    OBVIOUS
  <2> QED
    BY MembersNow, UnreadBuffers
<1> QED
  BY <1>1, <1>2, <1>3, MbufsFinite, FS_Subset, FS_CardinalityType

\* No packet is queued or received, and none changes its kind.
SamePackets == \A t : QueuedPackets(t)' = QueuedPackets(t) /\ Waiting(t)' = Waiting(t)

\* Queues that keep their slots and buffers keep their packets.
LEMMA SameQueues ==
  ASSUME \A p \in Ports : Queued(p)' = Queued(p), UNCHANGED <<m_table, data>>
  PROVE  \A t : QueuedPackets(t)' = QueuedPackets(t)
<1> SUFFICES ASSUME NEW t, NEW s PROVE s \in QueuedPackets(t)' <=> s \in QueuedPackets(t)
  <2>1. ASSUME NEW t PROVE QueuedPackets(t)' \subseteq Ports \X Slots
                        /\ QueuedPackets(t) \subseteq Ports \X Slots
    BY DEF QueuedPackets
  <2> QED
    BY <2>1
<1>1. CASE s \in Ports \X Slots
  <2>1. s[1] \in Ports
    BY <1>1
  <2>2. Queued(s[1])' = Queued(s[1])
    BY <2>1
  <2> QED
    BY <2>2, MembersNow, MembersNext
<1> QED
  BY <1>1, MembersNow, MembersNext

\* A still step changes neither set.
LEMMA StillPackets == ASSUME Still PROVE SamePackets
<1>1. \A t : QueuedPackets(t)' = QueuedPackets(t)
  BY SameQueues DEF Still
<1>2. ASSUME NEW t, NEW n PROVE n \in Waiting(t)' <=> n \in Waiting(t)
  BY MembersNow, MembersNext DEF Still
<1>3. \A t : Waiting(t)' = Waiting(t)
  <2>1. ASSUME NEW t PROVE Waiting(t)' \subseteq Waiting(t) /\ Waiting(t) \subseteq Waiting(t)'
    BY <1>2
  <2> QED
    BY <2>1
<1> QED
  BY <1>1, <1>3 DEF SamePackets

\* A fresh buffer held no packet that counts.
LEMMA RefillPackets == ASSUME Known, Known', Refill PROVE SamePackets
<1>1. PICK b \in pool :
        /\ m_table' = [m_table EXCEPT ![port][idx] = b]
        /\ data' = [data EXCEPT ![b] = [type |-> @.type, cksum |-> FALSE]]
  BY DEF Refill, Reset, Available
<1>2. PICK i : i = idx
  OBVIOUS
<1>3. \A p \in Ports : /\ Queued(p)' = Queued(p)
                       /\ \A k \in Queued(p) : ~(p = port /\ k = i)
  BY <1>2, RefillSlots
<1>4. /\ b \in Mbufs /\ port \in Ports /\ data \in [Mbufs -> Packets]
      /\ m_table \in [Ports -> [Slots -> Mbufs]] /\ UNCHANGED <<todo, rx_ready>>
  BY DEF Known, TypeOK, Refill, receiveVars, rxVars
<1>5. \A n \in Mbufs : data'[n].type = data[n].type
  BY <1>1, <1>4
<1>6. \A p \in Ports : \A k \in Queued(p) : k \in Slots /\ m_table[p][k] \in Mbufs
  BY SlotBuffers
<1>7. \A p \in Ports : \A k \in Queued(p) : m_table'[p][k] = m_table[p][k]
  BY <1>1, <1>2, <1>3, <1>4, <1>6
<1> SUFFICES ASSUME NEW t PROVE QueuedPackets(t)' = QueuedPackets(t) /\ Waiting(t)' = Waiting(t)
  BY DEF SamePackets
<1>8. ASSUME NEW s PROVE s \in QueuedPackets(t)' <=> s \in QueuedPackets(t)
  <2>1. CASE s \in Ports \X Slots
    <3>1. s[1] \in Ports
      BY <2>1
    <3>2. Queued(s[1])' = Queued(s[1])
      BY <1>3, <3>1
    <3>3. s[2] \in Queued(s[1]) =>
            data'[m_table'[s[1]][s[2]]].type = data[m_table[s[1]][s[2]]].type
      BY <1>5, <1>6, <1>7, <3>1
    <3> QED
      BY <3>2, <3>3, MembersNow, MembersNext
  <2> QED
    BY <2>1, MembersNow, MembersNext
<1>9. ASSUME NEW n PROVE n \in Waiting(t)' <=> n \in Waiting(t)
  <2>1. Unread(n)' <=> Unread(n)
    BY <1>4 DEF Unread
  <2>2. Unread(n) => data'[n].type = data[n].type
    BY <1>5, UnreadBuffers
  <2> QED
    BY <2>1, <2>2, MembersNow, MembersNext
<1> QED
  BY <1>8, <1>9

\* A packet that arrives is one more to look at.
LEMMA ArrivePackets ==
  ASSUME Known, Known', NEW q \in Ports, NEW b \in Mbufs, NEW u \in RxTypes,
         NicReceive(q, b, u), NEW t
  PROVE  /\ QueuedPackets(t)' = QueuedPackets(t)
         /\ Waiting(t)' = IF t = u THEN Waiting(t) \cup {b} ELSE Waiting(t)
         /\ b \notin Waiting(t)
<1>1. /\ b \in rx_ring[q] /\ b \notin rx_ready[q]
      /\ data' = [data EXCEPT ![b] = [type |-> u, cksum |-> FALSE]]
      /\ UNCHANGED <<pc, idx, port, len, off, m_table, todo>>
  BY DEF NicReceive, tableVars, receiveVars
<1>2. \A p \in Ports : Queued(p)' = Queued(p)
  BY <1>1, SameSlots
<1>3. data'[b].type = u /\ \A n \in Mbufs : n # b => data'[n] = data[n]
  BY <1>1 DEF Known, TypeOK
<1>4. \A p \in Ports : rx_ready'[p] = IF p = q THEN rx_ready[p] \cup {b} ELSE rx_ready[p]
  BY DEF NicReceive, Known, TypeOK
<1>5. ~Unread(b)
  BY <1>1 DEF Unread, Known, TypeOK, HolderInv, OneHolder
<1>6. \A p \in Ports : \A k \in Queued(p) : m_table[p][k] # b /\ m_table[p][k] \in Mbufs
  BY <1>1, SlotBuffers
<1>7. ASSUME NEW s PROVE s \in QueuedPackets(t)' <=> s \in QueuedPackets(t)
  <2>1. CASE s \in Ports \X Slots
    <3>1. s[1] \in Ports
      BY <2>1
    <3>2. Queued(s[1])' = Queued(s[1])
      BY <1>2, <3>1
    <3>3. s[2] \in Queued(s[1]) => data'[m_table'[s[1]][s[2]]] = data[m_table[s[1]][s[2]]]
      BY <1>1, <1>3, <1>6, <3>1
    <3> QED
      BY <3>2, <3>3, MembersNow, MembersNext
  <2> QED
    BY <2>1, MembersNow, MembersNext
<1>8. ASSUME NEW n PROVE Unread(n)' <=> Unread(n) \/ n = b
  BY <1>1, <1>4 DEF Unread
<1>9. ASSUME NEW n, Unread(n) PROVE data'[n] = data[n]
  BY <1>3, <1>5, <1>9, UnreadBuffers
<1>10. ASSUME NEW n PROVE n \in Waiting(t)' <=> n \in Waiting(t) \/ (n = b /\ t = u)
  BY <1>3, <1>8, <1>9, MembersNow, MembersNext
<1>11. b \notin Waiting(t)
  BY <1>5, MembersNow
<1> QED
  BY <1>7, <1>10, <1>11

\* A packet that is built takes one slot, and no packet that was received.
LEMMA BuildPackets ==
  ASSUME Known, Known', pc \in {"handle", "send"}, ~TableFull, UNCHANGED <<pc, port, off, m_table>>,
         len' = [len EXCEPT ![port] = @ + 1],
         NEW d, data' = [data EXCEPT ![m_table[port][len[port]]] = d]
  PROVE  /\ \A n : Unread(n) => data'[n] = data[n]
         /\ \E s : \A t : /\ s \notin QueuedPackets(t)
                          /\ QueuedPackets(t)' = IF t = d.type THEN QueuedPackets(t) \cup {s}
                                                               ELSE QueuedPackets(t)
<1>l. PICK l : l = len[port]
  OBVIOUS
<1>1. /\ port \in Ports /\ l \in Slots /\ l \in Spare(port) /\ l \notin Queued(port)
      /\ l \in Queued(port)'
      /\ \A p \in Ports : /\ Queued(p) \subseteq Queued(p)'
                          /\ \A k \in Queued(p)' : k \in Queued(p) \/ (p = port /\ k = l)
  BY <1>l, BuildSlots
<1>2. PICK b : b = m_table[port][l]
  OBVIOUS
<1>3. /\ data' = [data EXCEPT ![b] = d] /\ data \in [Mbufs -> Packets] /\ b \in Mbufs
      /\ ~Unread(b)
  BY <1>l, <1>1, <1>2, SlotBuffers DEF Known, TypeOK
<1>4. data'[b] = d /\ \A n \in Mbufs : n # b => data'[n] = data[n]
  BY <1>3
<1>5. \A n : Unread(n) => data'[n] = data[n]
  BY <1>3, <1>4, UnreadBuffers
<1>6. \A p \in Ports : \A k \in Queued(p) : m_table[p][k] # b /\ m_table[p][k] \in Mbufs
  BY <1>1, <1>2, SlotBuffers
<1> DEFINE s == <<port, l>>
<1>7. ASSUME NEW t
      PROVE  /\ s \notin QueuedPackets(t)
             /\ QueuedPackets(t)' = IF t = d.type THEN QueuedPackets(t) \cup {s}
                                                  ELSE QueuedPackets(t)
  <2>1. s \notin QueuedPackets(t)
    BY <1>1, MembersNow
  <2>2. ASSUME NEW r PROVE r \in QueuedPackets(t)' <=>
                             r \in QueuedPackets(t) \/ (r = s /\ t = d.type)
    <3>1. CASE r \in Ports \X Slots
      <4>1. r[1] \in Ports /\ r = <<r[1], r[2]>>
        BY <3>1
      <4>2. CASE r = s
        <5>1. r[1] = port /\ r[2] = l
          BY <4>2
        <5>2. r \in QueuedPackets(t)' <=> data'[b].type = t
          BY <1>1, <1>2, <3>1, <5>1, MembersNext
        <5> QED
          BY <1>4, <2>1, <4>2, <5>2
      <4>3. CASE r # s
        <5>1. ~(r[1] = port /\ r[2] = l)
          BY <4>1, <4>3
        <5>2. r[2] \in Queued(r[1])' <=> r[2] \in Queued(r[1])
          BY <1>1, <4>1, <5>1
        <5>3. r[2] \in Queued(r[1]) => data'[m_table'[r[1]][r[2]]] = data[m_table[r[1]][r[2]]]
          BY <1>4, <1>6, <4>1
        <5> QED
          BY <4>3, <5>2, <5>3, MembersNow, MembersNext
      <4> QED
        BY <4>2, <4>3
    <3>2. CASE r \notin Ports \X Slots
      <4>1. r # s
        BY <1>1, <3>2
      <4> QED
        BY <3>2, <4>1, MembersNow, MembersNext
    <3> QED
      BY <3>1, <3>2
  <2> QED
    BY <2>1, <2>2
<1> QED
  BY <1>5, <1>7

\* What a call of rte_eth_tx_burst takes from the queue it adds to what was sent.
LEMMA TxBurstPackets ==
  ASSUME Known, Known', TxBurst
  PROVE  /\ \A t \in TxTypes : wired'[t] + Cardinality(QueuedPackets(t))'
                             = wired[t] + Cardinality(QueuedPackets(t))
         /\ \A t : Waiting(t)' = Waiting(t)
<1>1. PICK ret \in 0 .. len[port] - off :
        /\ off' = off + ret
        /\ wired' = [t \in TxTypes |-> wired[t] +
                       Cardinality({k \in off .. off + ret - 1 :
                                      data[m_table[port][k]].type = t})]
        /\ IF off + ret = len[port]
             THEN pc' = "refill" /\ idx' = 0
             ELSE UNCHANGED <<pc, idx>>
  BY DEF TxBurst
<1>2. PICK next : next = off .. off + ret - 1
  OBVIOUS
<1>3. \A p \in Ports : /\ p # port => Queued(p)' = Queued(p)
                       /\ Queued(port)' = Queued(port) \ next
                       /\ next \subseteq Queued(port)
  BY <1>1, <1>2, TxBurstSlots
<1>4. UNCHANGED <<m_table, data, port, todo, rx_ready>> /\ port \in Ports
  BY DEF TxBurst, Known, TypeOK, receiveVars, rxVars
<1>5. next \subseteq Queued(port) /\ next \subseteq Slots
  BY <1>3, <1>4 DEF Queued
<1>6. ASSUME NEW t PROVE Waiting(t)' = Waiting(t)
  BY <1>4 DEF Waiting
<1>7. ASSUME NEW t \in TxTypes
      PROVE  wired'[t] + Cardinality(QueuedPackets(t))' = wired[t] + Cardinality(QueuedPackets(t))
  <2> DEFINE S == {k \in next : data[m_table[port][k]].type = t}
             T == {<<port, k>> : k \in S}
  <2>1. wired'[t] = wired[t] + Cardinality(S) /\ wired[t] \in Nat
    BY <1>1, <1>2 DEF Known, TypeOK
  <2>2. T \subseteq QueuedPackets(t)
    BY <1>4, <1>5, MembersNow
  <2>3. QueuedPackets(t)' = QueuedPackets(t) \ T
    <3>1. ASSUME NEW r PROVE r \in QueuedPackets(t)' <=> r \in QueuedPackets(t) /\ r \notin T
      <4>1. CASE r \in Ports \X Slots
        <5>1. r[1] \in Ports /\ r[2] \in Slots /\ r = <<r[1], r[2]>>
          BY <4>1
        <5>2. CASE r[1] = port
          <6>1. r[2] \in Queued(r[1])' <=> r[2] \in Queued(r[1]) /\ r[2] \notin next
            BY <1>3, <1>4, <5>2
          <6>2. r \in T <=> r[2] \in S
            BY <5>1, <5>2
          <6> QED
            BY <1>4, <4>1, <5>2, <6>1, <6>2, MembersNow, MembersNext
        <5>3. CASE r[1] # port
          <6>1. Queued(r[1])' = Queued(r[1]) /\ r \notin T
            BY <1>3, <5>1, <5>3
          <6> QED
            BY <1>4, <4>1, <6>1, MembersNow, MembersNext
        <5> QED
          BY <5>2, <5>3
      <4>2. CASE r \notin Ports \X Slots
        BY <4>2, MembersNow, MembersNext
      <4> QED
        BY <4>1, <4>2
    <3> QED
      BY <3>1
  <2>4. Cardinality(T) = Cardinality(S) /\ Cardinality(S) \in Nat
    <3>1. IsFiniteSet(S)
      <4>1. IsFiniteSet(Slots)
        BY FS_Interval, LcoreAssumption DEF LcoreAssumption, Slots
      <4> QED
        BY <1>5, <4>1, FS_Subset
    <3>2. [k \in S |-> <<port, k>>] \in Bijection(S, T)
      <4> DEFINE f == [k \in S |-> <<port, k>>]
      <4>1. f \in [S -> T] /\ \A k \in S : f[k] = <<port, k>>
        OBVIOUS
      <4>2. \A r \in T : \E k \in S : f[k] = r
        OBVIOUS
      <4>3. \A k, l \in S : f[k] = f[l] => k = l
        BY <4>1
      <4> HIDE DEF f, S, T
      <4>4. f \in Bijection(S, T)
        BY <4>1, <4>2, <4>3 DEF Bijection, Injection, IsInjective, Surjection
      <4> QED
        BY <4>4 DEF f
    <3>3. ExistsBijection(S, T)
      BY <3>2 DEF ExistsBijection
    <3> QED
      BY <3>1, <3>3, FS_Bijection, FS_CardinalityType
  <2>5. Cardinality(QueuedPackets(t))' = Cardinality(QueuedPackets(t)) - Cardinality(T)
    <3>1. QueuedPackets(t) \cap T = T
      BY <2>2
    <3>2. IsFiniteSet(QueuedPackets(t))
      BY PacketsFinite
    <3>3. Cardinality(QueuedPackets(t) \ T)
            = Cardinality(QueuedPackets(t)) - Cardinality(QueuedPackets(t) \cap T)
      BY <3>2, FS_Difference
    <3> QED
      BY <2>3, <3>1, <3>3
  <2>6. Cardinality(QueuedPackets(t)) \in Nat
    BY PacketsFinite
  <2> HIDE DEF S, T
  <2> QED
    BY <2>1, <2>4, <2>5, <2>6
<1> QED
  BY <1>6, <1>7

-----------------------------------------------------------------------------
(* Room in the tables. *)

\* Only the current port's table has packets, and none has before a poll.
Lengths ==
  /\ \A p \in Ports : p # port => len[p] = 0
  /\ pc \in {"init", "loop", "receive", "output", "done"} => len[port] = 0

\* Each packet of a burst that is left finds a slot, should it ask for one.
Room == pc = "handle" => len[port] + Cardinality(todo) <= Burst

\* Every step keeps the other tables empty, and none begins a poll with packets left.
LEMMA NextLengths == TypeOK /\ TypeOK' /\ Lengths /\ [Next]_vars => Lengths'
<1> SUFFICES ASSUME TypeOK, TypeOK', Lengths, [Next]_vars PROVE Lengths'
  OBVIOUS
<1>1. port \in Ports /\ port' \in Ports /\ len \in [Ports -> 0 .. Burst]
  BY DEF TypeOK
<1>2. CASE UNCHANGED <<port, len>> /\ (pc' = pc \/ pc \in {"init", "loop", "receive", "output"}
                                       \/ pc' \notin {"init", "loop", "receive", "output", "done"})
  BY <1>1, <1>2 DEF Lengths
<1>3. CASE CheckDeadline
  <2>1. /\ pc = "loop" /\ UNCHANGED len
    BY <1>3 DEF CheckDeadline, tableVars
  <2> QED
    BY <1>1, <2>1 DEF Lengths
<1>4. CASE HandlePacket \/ ClientDue
  <2>1. /\ pc' = pc /\ pc \in {"handle", "send"} /\ port' = port
        /\ \A p \in Ports : p # port => len'[p] = len[p]
    BY <1>1, <1>4 DEF HandlePacket, ClientDue, SetupArp, SetupPackets
  <2> QED
    BY <1>1, <2>1 DEF Lengths
<1>5. CASE NothingToSend \/ EndRefill
  <2>1. \A p \in Ports : len'[p] = 0
    BY <1>1, <1>5 DEF NothingToSend, EndRefill, Lengths, tableVars
  <2> QED
    BY <1>1, <2>1 DEF Lengths
<1>6. CASE LcoreStep /\ ~CheckDeadline /\ ~HandlePacket /\ ~ClientDue /\ ~NothingToSend /\ ~EndRefill
  BY <1>2, <1>6
     DEF LcoreStep, InitClient, StartClock, Receive, FreeBurst, ReadClock, ClientWaits,
         EndClients, TxBurst, Refill, AllocFails, Output, tableVars
<1>7. CASE Tick \/ Stopped \/ UNCHANGED vars
  BY <1>2, <1>7 DEF Tick, Stopped, vars, tableVars
<1>8. ASSUME NEW p \in Ports, NEW m \in Mbufs, NicComplete(p, m) PROVE Lengths'
  BY <1>2, <1>8 DEF NicComplete, tableVars
<1>9. ASSUME NEW p \in Ports, NEW m \in Mbufs, NEW t \in RxTypes, NicReceive(p, m, t)
      PROVE  Lengths'
  BY <1>2, <1>9 DEF NicReceive, tableVars
<1> QED
  BY <1>3, <1>4, <1>5, <1>6, <1>7, <1>8, <1>9 DEF Next

\* Every step keeps a slot for each packet of the burst that is left.
LEMMA NextRoom == TypeOK /\ TypeOK' /\ Lengths /\ Room /\ [Next]_vars => Room'
<1> SUFFICES ASSUME TypeOK, TypeOK', Lengths, Room, [Next]_vars, pc' = "handle"
             PROVE  len'[port'] + Cardinality(todo') <= Burst
  BY DEF Room
<1>1. /\ port \in Ports /\ len \in [Ports -> 0 .. Burst] /\ Burst \in Nat
      /\ IsFiniteSet(todo) /\ Cardinality(todo) \in Nat
  BY MbufsFinite, LcoreAssumption DEF LcoreAssumption, TypeOK
<1>2. CASE pc = "handle" /\ UNCHANGED <<port, len, todo>>
  BY <1>2 DEF Room
<1>3. CASE Receive
  <2>1. /\ pc = "receive" /\ UNCHANGED <<port, len>> /\ Cardinality(todo') <= Burst
    BY <1>3 DEF Receive, tableVars
  <2>2. Cardinality(todo') \in Nat
    BY MbufsFinite DEF TypeOK
  <2> QED
    BY <1>1, <2>1, <2>2 DEF Lengths
<1>4. CASE HandlePacket
  <2>1. PICK m \in todo : todo' = todo \ {m}
    BY <1>4 DEF HandlePacket
  <2>2. Cardinality(todo') = Cardinality(todo) - 1
    BY <1>1, <2>1, FS_RemoveElement
  <2>3. /\ pc = "handle" /\ port' = port /\ len'[port] \in {len[port], len[port] + 1}
    BY <1>1, <1>4 DEF HandlePacket, SetupArp
  <2> QED
    BY <1>1, <2>2, <2>3 DEF Room
<1>5. CASE LcoreStep /\ ~Receive /\ ~HandlePacket
  BY <1>5
     DEF LcoreStep, InitClient, StartClock, CheckDeadline, FreeBurst, ReadClock, ClientDue,
         ClientWaits, EndClients, NothingToSend, NextPort, TxBurst, Refill, AllocFails,
         EndRefill, Output
<1>6. CASE Tick \/ Stopped \/ UNCHANGED vars
  BY <1>2, <1>6 DEF Tick, Stopped, vars, tableVars, receiveVars
<1>7. ASSUME NEW p \in Ports, NEW m \in Mbufs, NicComplete(p, m)
      PROVE  pc = "handle" /\ UNCHANGED <<port, len, todo>>
  BY <1>7 DEF NicComplete, tableVars, receiveVars
<1>8. ASSUME NEW p \in Ports, NEW m \in Mbufs, NEW t \in RxTypes, NicReceive(p, m, t)
      PROVE  pc = "handle" /\ UNCHANGED <<port, len, todo>>
  BY <1>8 DEF NicReceive, tableVars, receiveVars
<1> QED
  BY <1>2, <1>3, <1>4, <1>5, <1>6, <1>7, <1>8 DEF Next

-----------------------------------------------------------------------------
(* The accounts. *)

Accounts == RequestsConserved /\ ArpsAnswered /\ RepliesCounted

\* Requests are only set up after the burst has been dealt with, one a client.
NoRequests == pc \in {"handle", "clock"} => QueuedPackets("request") = {}

PacketInv == Lengths /\ Room /\ NoRequests /\ Accounts /\ OneSlotPerClient

\* The numbers of packets of each kind, without the rest of Known.
LEMMA CountsFacts ==
  ASSUME Known
  PROVE  /\ nr_tx \in Nat /\ nr_rx \in Nat /\ wired["request"] \in Nat
         /\ wired["arp_reply"] \in Nat /\ arrived["arp"] \in Nat /\ arrived["ipv4"] \in Nat
         /\ \A t : /\ Cardinality(QueuedPackets(t)) \in Nat
                   /\ Cardinality(Waiting(t)) \in Nat
BY PacketsFinite DEF Known, TypeOK, TxTypes, RxTypes

\* A step that queues and receives nothing leaves the accounts as they are.
LEMMA SameAccounts ==
  ASSUME Accounts, SamePackets, UNCHANGED <<wired, nr_tx, nr_rx, arrived>>
  PROVE  Accounts'
BY DEF Accounts, SamePackets, RequestsConserved, ArpsAnswered, RepliesCounted

\* A packet that arrives is counted as arrived and as waiting.
LEMMA ArriveAccounts ==
  ASSUME Known, Known', Accounts, NEW q \in Ports, NEW b \in Mbufs, NEW u \in RxTypes,
         NicReceive(q, b, u)
  PROVE  Accounts'
<1>1. /\ UNCHANGED <<wired, nr_tx, nr_rx>>
      /\ \A t \in RxTypes : arrived'[t] = IF t = u THEN arrived[t] + 1 ELSE arrived[t]
  BY DEF NicReceive, clientVars, receiveVars, Known, TypeOK
<1>2. \A t : /\ QueuedPackets(t)' = QueuedPackets(t)
             /\ Waiting(t)' = IF t = u THEN Waiting(t) \cup {b} ELSE Waiting(t)
             /\ b \notin Waiting(t)
  BY ArrivePackets
<1>3. \A t : Cardinality(Waiting(t))' = IF t = u THEN Cardinality(Waiting(t)) + 1
                                                 ELSE Cardinality(Waiting(t))
  BY <1>2, PacketsFinite, FS_AddElement
<1>4. \A t : Cardinality(QueuedPackets(t))' = Cardinality(QueuedPackets(t))
  BY <1>2
<1>5. "arp" \in RxTypes /\ "ipv4" \in RxTypes
  BY DEF RxTypes
<1>6. RequestsConserved'
  BY <1>1, <1>4 DEF Accounts, RequestsConserved
<1>7. ArpsAnswered'
  BY <1>1, <1>3, <1>4, <1>5, CountsFacts DEF Accounts, ArpsAnswered
<1>8. RepliesCounted'
  BY <1>1, <1>3, <1>5, CountsFacts DEF Accounts, RepliesCounted
<1> QED
  BY <1>6, <1>7, <1>8 DEF Accounts

\* What is sent is no longer queued.
LEMMA TxBurstAccounts == ASSUME Known, Known', Accounts, TxBurst PROVE Accounts'
<1>1. UNCHANGED <<nr_tx, nr_rx, arrived>>
  BY DEF TxBurst, clientVars, receiveVars, rxVars
<1>2. "request" \in TxTypes /\ "arp_reply" \in TxTypes
  BY DEF TxTypes
<1>3. /\ wired'["request"] + Cardinality(QueuedPackets("request"))'
           = wired["request"] + Cardinality(QueuedPackets("request"))
      /\ wired'["arp_reply"] + Cardinality(QueuedPackets("arp_reply"))'
           = wired["arp_reply"] + Cardinality(QueuedPackets("arp_reply"))
  BY <1>2, TxBurstPackets
<1>4. \A t : Cardinality(Waiting(t))' = Cardinality(Waiting(t))
  BY TxBurstPackets
<1> QED
  BY <1>1, <1>3, <1>4 DEF Accounts, RequestsConserved, ArpsAnswered, RepliesCounted

\* One packet is built: what it does to the numbers of queued packets.
LEMMA BuildCounts ==
  ASSUME Known, Known', pc \in {"handle", "send"}, ~TableFull, UNCHANGED <<pc, port, off, m_table>>,
         len' = [len EXCEPT ![port] = @ + 1],
         NEW d, data' = [data EXCEPT ![m_table[port][len[port]]] = d]
  PROVE  \A t : Cardinality(QueuedPackets(t))' = IF t = d.type
                                                 THEN Cardinality(QueuedPackets(t)) + 1
                                                 ELSE Cardinality(QueuedPackets(t))
<1>1. PICK s : \A t : /\ s \notin QueuedPackets(t)
                      /\ QueuedPackets(t)' = IF t = d.type THEN QueuedPackets(t) \cup {s}
                                                           ELSE QueuedPackets(t)
  BY BuildPackets
<1> QED
  BY <1>1, PacketsFinite, FS_AddElement

\* A request that finds a slot is counted and queued, one that finds none is neither.
LEMMA DueAccounts ==
  ASSUME Known, Known', Accounts, ClientDue
  PROVE  /\ Accounts'
         /\ Cardinality(QueuedPackets("request"))' <= Cardinality(QueuedPackets("request")) + 1
<1>1. /\ pc = "send" /\ UNCHANGED <<pc, port, off, m_table, todo, rx_ready, nr_rx, wired, arrived>>
  BY DEF ClientDue, receiveVars, rxVars
<1>2. CASE TableFull
  <2>1. UNCHANGED <<nr_tx, len, data>>
    BY <1>2 DEF ClientDue, SetupPackets, Sent
  <2>2. \A p \in Ports : Queued(p)' = Queued(p)
    BY <1>1, <2>1, SameSlots
  <2>3. SamePackets
    <3>1. \A t : QueuedPackets(t)' = QueuedPackets(t)
      BY <1>1, <2>1, <2>2, SameQueues
    <3>2. \A t : Waiting(t)' = Waiting(t)
      BY <1>1, <2>1 DEF Waiting
    <3> QED
      BY <3>1, <3>2 DEF SamePackets
  <2> QED
    BY <1>1, <2>1, <2>3, SameAccounts, CountsFacts DEF SamePackets
<1>3. CASE ~TableFull
  <2>1. PICK d : d = [type |-> "request", cksum |-> TRUE]
    OBVIOUS
  <2>2. /\ nr_tx' = nr_tx + 1 /\ len' = [len EXCEPT ![port] = @ + 1] /\ d.type = "request"
        /\ data' = [data EXCEPT ![m_table[port][len[port]]] = d]
    BY <1>3, <2>1 DEF ClientDue, SetupPackets, Sent
  <2>3. \A t : Cardinality(QueuedPackets(t))' = IF t = "request"
                                                THEN Cardinality(QueuedPackets(t)) + 1
                                                ELSE Cardinality(QueuedPackets(t))
    BY <1>1, <1>3, <2>2, BuildCounts
  <2>4. \A n : Unread(n) => data'[n] = data[n]
    BY <1>1, <1>3, <2>2, BuildPackets
  <2>5. \A t : Waiting(t)' = Waiting(t)
    <3>1. \A n : Unread(n)' <=> Unread(n)
      BY <1>1 DEF Unread
    <3> QED
      BY <2>4, <3>1, MembersNow, MembersNext
  <2>6. \A t : Cardinality(Waiting(t))' = Cardinality(Waiting(t))
    BY <2>5
  <2>7. RequestsConserved'
    BY <1>1, <2>2, <2>3, CountsFacts DEF Accounts, RequestsConserved
  <2>8. ArpsAnswered' /\ RepliesCounted'
    BY <1>1, <2>3, <2>6 DEF Accounts, ArpsAnswered, RepliesCounted
  <2> QED
    BY <2>3, <2>7, <2>8, CountsFacts DEF Accounts
<1> QED
  BY <1>2, <1>3

\* An ARP packet is answered, a reply is counted, and neither waits any longer.
LEMMA HandleAccounts ==
  ASSUME Known, Known', Accounts, Room, HandlePacket
  PROVE  /\ Accounts'
         /\ Cardinality(QueuedPackets("request"))' = Cardinality(QueuedPackets("request"))
<1>1. PICK m \in todo :
        /\ todo' = todo \ {m}
        /\ IF data[m].type = "arp" THEN SetupArp ELSE UNCHANGED <<len, data>>
        /\ nr_rx' = IF IsReply(m) THEN nr_rx + 1 ELSE nr_rx
  BY DEF HandlePacket
<1>2. /\ pc = "handle" /\ UNCHANGED <<pc, port, off, m_table, rx_ready, nr_tx, wired, arrived>>
  BY DEF HandlePacket, clientVars, rxVars
<1>3. Unread(m) /\ \A n : Unread(n)' <=> Unread(n) /\ n # m
  <2>1. \A p \in Ports : m \notin rx_ready[p]
    BY DEF Known, TypeOK, HolderInv, OneHolder
  <2> QED
    BY <1>1, <1>2, <2>1 DEF Unread
<1>4. /\ \A t : Cardinality(QueuedPackets(t))' =
                  IF t = "arp_reply" /\ data[m].type = "arp"
                  THEN Cardinality(QueuedPackets(t)) + 1 ELSE Cardinality(QueuedPackets(t))
      /\ \A n : Unread(n) => data'[n] = data[n]
  <2>1. CASE data[m].type = "arp"
    <3>1. ~TableFull
      <4>1. Cardinality(todo) \in Nat \ {0}
        <5>1. IsFiniteSet(todo) /\ Cardinality(todo) \in Nat
          BY MbufsFinite DEF Known, TypeOK
        <5> QED
          BY <1>1, <5>1, FS_EmptySet
      <4>2. len[port] + Cardinality(todo) <= Burst /\ Burst \in Nat /\ len[port] \in Nat
        BY <1>2, LcoreAssumption DEF Room, LcoreAssumption, Known, TypeOK
      <4> QED
        BY <4>1, <4>2 DEF TableFull
    <3>2. PICK d : d = [type |-> "arp_reply", cksum |-> data[m_table[port][len[port]]].cksum]
      OBVIOUS
    <3>3. /\ len' = [len EXCEPT ![port] = @ + 1] /\ d.type = "arp_reply"
          /\ data' = [data EXCEPT ![m_table[port][len[port]]] = d]
      BY <1>1, <2>1, <3>1, <3>2 DEF SetupArp
    <3>4. \A t : Cardinality(QueuedPackets(t))' = IF t = "arp_reply"
                                                  THEN Cardinality(QueuedPackets(t)) + 1
                                                  ELSE Cardinality(QueuedPackets(t))
      BY <1>2, <3>1, <3>3, BuildCounts
    <3>5. \A n : Unread(n) => data'[n] = data[n]
      BY <1>2, <3>1, <3>3, BuildPackets
    <3> QED
      BY <2>1, <3>4, <3>5
  <2>2. CASE data[m].type # "arp"
    <3>1. UNCHANGED <<len, data>>
      BY <1>1, <2>2
    <3>2. \A p \in Ports : Queued(p)' = Queued(p)
      BY <1>2, <3>1, SameSlots
    <3>3. \A t : QueuedPackets(t)' = QueuedPackets(t)
      BY <1>2, <3>1, <3>2, SameQueues
    <3> QED
      BY <2>2, <3>1, <3>3
  <2> QED
    BY <2>1, <2>2
<1>5. \A t : Cardinality(Waiting(t))' = IF t = data[m].type
                                        THEN Cardinality(Waiting(t)) - 1
                                        ELSE Cardinality(Waiting(t))
  <2> SUFFICES ASSUME NEW t
               PROVE  Cardinality(Waiting(t))' = IF t = data[m].type
                                                 THEN Cardinality(Waiting(t)) - 1
                                                 ELSE Cardinality(Waiting(t))
    OBVIOUS
  <2>1. \A n : n \in Waiting(t)' <=> n \in Waiting(t) /\ n # m
    BY <1>3, <1>4, MembersNow, MembersNext
  <2>2. Waiting(t)' = Waiting(t) \ {m}
    BY <2>1
  <2>3. m \in Waiting(t) <=> t = data[m].type
    BY <1>3, MembersNow
  <2> QED
    BY <2>2, <2>3, PacketsFinite, FS_RemoveElement
<1>6. /\ RequestsConserved'
      /\ Cardinality(QueuedPackets("request"))' = Cardinality(QueuedPackets("request"))
  BY <1>2, <1>4 DEF Accounts, RequestsConserved
<1>7. ArpsAnswered'
  BY <1>2, <1>4, <1>5, CountsFacts DEF Accounts, ArpsAnswered
<1>8. RepliesCounted'
  BY <1>1, <1>2, <1>5, CountsFacts DEF Accounts, RepliesCounted, IsReply
<1> QED
  BY <1>6, <1>7, <1>8 DEF Accounts

\* Nothing is queued while all tables are empty.
LEMMA EmptyTables ==
  Known /\ Lengths /\ pc \in {"init", "loop", "receive", "output", "done"} =>
    \A t : QueuedPackets(t) = {}
<1> SUFFICES ASSUME Known, Lengths, pc \in {"init", "loop", "receive", "output", "done"}, NEW t,
                    NEW s \in QueuedPackets(t)
             PROVE  FALSE
  OBVIOUS
<1>1. s[1] \in Ports /\ s[2] \in Queued(s[1])
  BY DEF QueuedPackets
<1>2. len[s[1]] = 0
  BY <1>1 DEF Lengths
<1>3. s[2] \in Slots /\ s[2] < 0
  BY <1>1, <1>2 DEF Queued
<1> QED
  BY <1>3, LcoreAssumption DEF LcoreAssumption, Slots

\* Every step keeps the accounts.
LEMMA NextAccounts ==
  Known /\ Known' /\ Room /\ Accounts /\ [Next]_vars => Accounts'
<1> SUFFICES ASSUME Known, Known', Room, Accounts, [Next]_vars PROVE Accounts'
  OBVIOUS
<1>1. ASSUME Still PROVE Accounts'
  BY <1>1, StillPackets, SameAccounts DEF Still
<1>2. CASE \/ InitClient \/ StartClock \/ CheckDeadline \/ ReadClock \/ ClientWaits
           \/ EndClients \/ NothingToSend \/ AllocFails \/ EndRefill \/ Output \/ Tick
           \/ UNCHANGED vars
  BY <1>1, <1>2, QuietStill
<1>3. CASE Receive \/ FreeBurst
  BY <1>1, <1>3, ReceiveStill, FreeStill
<1>4. CASE HandlePacket
  BY <1>4, HandleAccounts
<1>5. CASE ClientDue
  BY <1>5, DueAccounts
<1>6. CASE TxBurst
  BY <1>6, TxBurstAccounts
<1>7. CASE Refill
  BY <1>7, RefillPackets, SameAccounts DEF Refill, clientVars, receiveVars, rxVars
<1>8. ASSUME NEW p \in Ports, NEW m \in Mbufs, NicComplete(p, m) PROVE Accounts'
  BY <1>1, <1>8, CompleteStill
<1>9. ASSUME NEW p \in Ports, NEW m \in Mbufs, NEW t \in RxTypes, NicReceive(p, m, t)
      PROVE  Accounts'
  BY <1>9, ArriveAccounts
<1> QED
  BY <1>2, <1>3, <1>4, <1>5, <1>6, <1>7, <1>8, <1>9 DEF Next, LcoreStep, Stopped

\* The requests in the tables are finitely many, before and after a step.
LEMMA RequestsFinite ==
  /\ Known => IsFiniteSet(QueuedPackets("request"))
  /\ Known' => IsFiniteSet(QueuedPackets("request"))'
<1>1. Known => IsFiniteSet(QueuedPackets("request"))
  BY PacketsFinite
<1> QED
  BY <1>1, PTL

\* A burst is dealt with before a request is set up, and a client sets up one at most.
LEMMA NextOneSlot ==
  /\ Known /\ Known' /\ Lengths /\ Room /\ Accounts /\ NoRequests /\ OneSlotPerClient
  /\ [Next]_vars
  => NoRequests' /\ OneSlotPerClient'
<1> SUFFICES ASSUME Known, Known', Lengths, Room, Accounts, NoRequests, OneSlotPerClient,
                    [Next]_vars
             PROVE  NoRequests' /\ OneSlotPerClient'
  OBVIOUS
<1> DEFINE Q == QueuedPackets("request")
<1>0. Cardinality(Q) \in Nat /\ Cardinality(Q') \in Nat /\ idx \in Nat
      /\ (Cardinality(Q) = 0 <=> Q = {}) /\ (Cardinality(Q') = 0 <=> Q' = {})
  <2>1. IsFiniteSet(Q) /\ IsFiniteSet(Q')
    BY RequestsFinite
  <2> QED
    BY <2>1, FS_EmptySet, FS_CardinalityType DEF Known, TypeOK
<1>1. CASE Receive
  <2>1. Q' = Q /\ pc = "receive" /\ pc' # "send"
    BY <1>1, ReceiveStill, StillPackets DEF Receive, SamePackets
  <2>2. Q = {}
    BY <2>1, EmptyTables
  <2> QED
    BY <2>1, <2>2 DEF NoRequests, OneSlotPerClient
<1>2. CASE FreeBurst \/ ReadClock
  <2>1. Q' = Q /\ pc \in {"handle", "clock"}
    BY <1>2, FreeStill, QuietStill, StillPackets DEF FreeBurst, ReadClock, SamePackets
  <2>2. Q = {} /\ (pc' = "send" => idx' = 0)
    BY <1>2, <2>1 DEF NoRequests, FreeBurst, ReadClock
  <2>3. Q' = {}
    BY <2>1, <2>2
  <2> HIDE DEF Q
  <2>4. pc' = "send" => Cardinality(Q') <= idx'
    BY <1>0, <2>2, <2>3
  <2> QED
    BY <2>3, <2>4 DEF NoRequests, OneSlotPerClient, Q
<1>3. CASE HandlePacket
  <2>1. Cardinality(Q') = Cardinality(Q) /\ pc = "handle" /\ pc' = "handle"
    BY <1>3, HandleAccounts DEF HandlePacket
  <2>2. Q' = {}
    BY <1>0, <2>1 DEF NoRequests
  <2> QED
    BY <2>1, <2>2 DEF NoRequests, OneSlotPerClient
<1>4. CASE ClientDue
  <2>1. Cardinality(Q') <= Cardinality(Q) + 1 /\ pc = "send" /\ pc' = "send" /\ idx' = idx + 1
    BY <1>4, DueAccounts DEF ClientDue
  <2>2. Cardinality(Q) <= idx
    BY <2>1 DEF OneSlotPerClient
  <2> HIDE DEF Q
  <2>3. Cardinality(Q') <= idx'
    BY <1>0, <2>1, <2>2
  <2> QED
    BY <2>1, <2>3 DEF NoRequests, OneSlotPerClient, Q
<1>5. CASE ClientWaits
  <2>1. Q' = Q /\ pc = "send" /\ pc' = "send" /\ idx' = idx + 1
    BY <1>5, QuietStill, StillPackets DEF ClientWaits, SamePackets
  <2>2. Cardinality(Q) <= idx
    BY <2>1 DEF OneSlotPerClient
  <2> HIDE DEF Q
  <2>3. Cardinality(Q') <= idx'
    BY <1>0, <2>1, <2>2
  <2> QED
    BY <2>1, <2>3 DEF NoRequests, OneSlotPerClient, Q
<1>6. CASE pc' \notin {"handle", "clock", "send"}
  BY <1>6 DEF NoRequests, OneSlotPerClient
<1>7. ASSUME Q' = Q, UNCHANGED <<pc, idx>> PROVE NoRequests' /\ OneSlotPerClient'
  BY <1>7 DEF NoRequests, OneSlotPerClient
<1>8. CASE LcoreStep /\ ~Receive /\ ~FreeBurst /\ ~ReadClock /\ ~HandlePacket /\ ~ClientDue
                     /\ ~ClientWaits
  <2>1. CASE InitClient \/ TxBurst \/ Refill
    BY <1>6, <2>1 DEF InitClient, TxBurst, Refill
  <2>2. CASE StartClock \/ CheckDeadline \/ EndClients \/ AllocFails \/ Output
    BY <1>6, <2>2 DEF StartClock, CheckDeadline, EndClients, AllocFails, Output
  <2>3. CASE NothingToSend \/ EndRefill
    BY <1>6, <2>3 DEF NothingToSend, EndRefill, NextPort
  <2> QED
    BY <1>8, <2>1, <2>2, <2>3 DEF LcoreStep
<1>9. CASE Tick \/ Stopped \/ UNCHANGED vars
  <2>1. Q' = Q
    BY <1>9, QuietStill, StillPackets DEF Stopped, SamePackets
  <2> QED
    BY <1>7, <1>9, <2>1 DEF Tick, Stopped, vars
<1>10. ASSUME NEW p \in Ports, NEW m \in Mbufs, NicComplete(p, m)
       PROVE  NoRequests' /\ OneSlotPerClient'
  <2>1. Q' = Q
    BY <1>10, CompleteStill, StillPackets DEF SamePackets
  <2> QED
    BY <1>7, <1>10, <2>1 DEF NicComplete
<1>11. ASSUME NEW p \in Ports, NEW m \in Mbufs, NEW t \in RxTypes, NicReceive(p, m, t)
       PROVE  NoRequests' /\ OneSlotPerClient'
  <2>1. Q' = Q
    BY <1>11, ArrivePackets
  <2> QED
    BY <1>7, <1>11, <2>1 DEF NicReceive
<1> QED
  BY <1>1, <1>2, <1>3, <1>4, <1>5, <1>8, <1>9, <1>10, <1>11 DEF Next

\* Before the loop nothing is queued, waiting or counted.
LEMMA InitPacketInv == Init => PacketInv
<1> SUFFICES ASSUME Init PROVE PacketInv
  OBVIOUS
<1>1. Known
  BY InitTypeOK, InitHolderInv, SlotsNow, PlacesNow DEF Known, HolderInv
<1>2. Lengths /\ Room
  BY PortsFacts DEF Init, Lengths, Room
<1>3. \A t : QueuedPackets(t) = {}
  BY <1>1, <1>2, EmptyTables DEF Init
<1>4. \A t : Waiting(t) = {}
  BY DEF Init, Waiting
<1>5. Accounts
  <2>1. /\ nr_tx = 0 /\ nr_rx = 0 /\ wired["request"] = 0 /\ wired["arp_reply"] = 0
        /\ arrived["arp"] = 0 /\ arrived["ipv4"] = 0
    BY DEF Init, RxTypes, TxTypes
  <2>2. \A t : Cardinality(QueuedPackets(t)) = 0 /\ Cardinality(Waiting(t)) = 0
    BY <1>3, <1>4, FS_EmptySet
  <2> QED
    BY <2>1, <2>2 DEF Accounts, RequestsConserved, ArpsAnswered, RepliesCounted
<1> QED
  BY <1>2, <1>5 DEF Init, PacketInv, NoRequests, OneSlotPerClient

\* The accounts and what they rest on hold in every reachable state.
LEMMA PacketInvCorrect == Spec => []PacketInv
<1>1. Known /\ Known' /\ PacketInv /\ [Next]_vars => PacketInv'
  BY NextLengths, NextRoom, NextAccounts, NextOneSlot DEF PacketInv, Known
<1> QED
  BY <1>1, InitPacketInv, KnownCorrect, PTL DEF Spec

\* Every request that is counted has been handed to the NIC or is in a table, however
\* sends are cut short and whatever finds no slot.
THEOREM RequestsCorrect == Spec => []RequestsConserved
<1>1. PacketInv => RequestsConserved
  BY DEF PacketInv, Accounts
<1> QED
  BY <1>1, PacketInvCorrect, PTL

\* Every ARP packet that has arrived is answered or waits to be: a burst of at most
\* Burst packets always finds its slots.
THEOREM ArpsCorrect == Spec => []ArpsAnswered
<1>1. PacketInv => ArpsAnswered
  BY DEF PacketInv, Accounts
<1> QED
  BY <1>1, PacketInvCorrect, PTL

\* Every IPv4 packet that has arrived is passed to the client once or waits to be.
THEOREM RepliesCorrect == Spec => []RepliesCounted
<1>1. PacketInv => RepliesCounted
  BY DEF PacketInv, Accounts
<1> QED
  BY <1>1, PacketInvCorrect, PTL

\* No client takes more than one slot of a round.
THEOREM OneSlotCorrect == Spec => []OneSlotPerClient
<1>1. PacketInv => OneSlotPerClient
  BY DEF PacketInv
<1> QED
  BY <1>1, PacketInvCorrect, PTL

-----------------------------------------------------------------------------
(* The schedule of late clients. *)

\* A client's last request is no later than its last turn, after which its next interval runs.
Scheduled == \A c \in Clients : sent_at[c] <= last_send[c]

\* A turn of a client whose interval is over, with or without a request.
LEMMA DueScheduled ==
  ASSUME TypeOK, Scheduled, ClientDue
  PROVE  Scheduled' /\ (nr_tx' # nr_tx => curr_tsc >= sent_at[idx] + interval[idx])
<1>1. /\ idx < NbClient /\ curr_tsc >= last_send[idx] + interval[idx]
      /\ last_send' = [last_send EXCEPT ![idx] = curr_tsc]
      /\ sent_at' \in {sent_at, [sent_at EXCEPT ![idx] = curr_tsc]}
  BY DEF ClientDue, Reschedule, SetupPackets
<1>2. NbClient \in Nat /\ idx \in Clients
  BY <1>1, LcoreAssumption DEF LcoreAssumption, TypeOK, Clients
<1>3. /\ curr_tsc \in Nat /\ interval[idx] \in Nat
      /\ \A c \in Clients : sent_at[c] \in Nat /\ last_send[c] \in Nat
      /\ sent_at \in [Clients -> Nat] /\ last_send \in [Clients -> Nat]
  BY <1>2 DEF TypeOK
<1>4. sent_at[idx] <= last_send[idx]
  BY <1>2 DEF Scheduled
<1>5. curr_tsc >= sent_at[idx] + interval[idx]
  BY <1>1, <1>2, <1>3, <1>4
<1>6. ASSUME NEW c \in Clients PROVE sent_at'[c] <= last_send'[c]
  <2>1. sent_at[c] <= last_send[c]
    BY DEF Scheduled
  <2>2. CASE c = idx
    <3>1. last_send'[c] = curr_tsc /\ sent_at'[c] \in {sent_at[c], curr_tsc}
      BY <1>1, <1>3, <2>2
    <3>2. sent_at[c] \in Nat /\ curr_tsc \in Nat /\ sent_at[c] <= curr_tsc
      BY <1>2, <1>3, <1>5, <2>2
    <3> QED
      BY <3>1, <3>2
  <2>3. CASE c # idx
    <3>1. last_send'[c] = last_send[c] /\ sent_at'[c] = sent_at[c]
      BY <1>1, <1>3, <2>3
    <3> QED
      BY <2>1, <3>1
  <2> QED
    BY <2>2, <2>3
<1> QED
  BY <1>5, <1>6 DEF Scheduled

\* Every step keeps the schedule, and only a client's turn counts a request.
LEMMA NextScheduled ==
  TypeOK /\ Scheduled /\ [Next]_vars =>
    Scheduled' /\ (nr_tx' # nr_tx => curr_tsc >= sent_at[idx] + interval[idx])
<1> SUFFICES ASSUME TypeOK, Scheduled, [Next]_vars
             PROVE  Scheduled' /\ (nr_tx' # nr_tx => curr_tsc >= sent_at[idx] + interval[idx])
  OBVIOUS
<1>1. ASSUME UNCHANGED clientVars
      PROVE  Scheduled' /\ (nr_tx' # nr_tx => curr_tsc >= sent_at[idx] + interval[idx])
  BY <1>1 DEF clientVars, Scheduled
<1>2. CASE InitClient
  <2>1. /\ last_send' = [last_send EXCEPT ![idx] = now]
        /\ sent_at' = [sent_at EXCEPT ![idx] = now] /\ nr_tx' = nr_tx
    BY <1>2 DEF InitClient
  <2>2. sent_at \in [Clients -> Nat] /\ last_send \in [Clients -> Nat] /\ now \in Nat
    BY DEF TypeOK
  <2>3. ASSUME NEW c \in Clients PROVE sent_at'[c] <= last_send'[c]
    BY <2>1, <2>2, <2>3 DEF Scheduled
  <2> QED
    BY <2>1, <2>3 DEF Scheduled
<1>3. CASE ClientDue
  BY <1>3, DueScheduled
<1>4. CASE \/ StartClock \/ CheckDeadline \/ Receive \/ HandlePacket \/ FreeBurst \/ ReadClock
           \/ ClientWaits \/ EndClients \/ NothingToSend \/ TxBurst \/ Refill \/ AllocFails
           \/ EndRefill \/ Output \/ Tick \/ UNCHANGED vars
  BY <1>1, <1>4
     DEF StartClock, CheckDeadline, Receive, HandlePacket, FreeBurst, ReadClock, ClientWaits,
         EndClients, NothingToSend, TxBurst, Refill, AllocFails, EndRefill, Output, Tick, vars
<1>5. ASSUME NEW p \in Ports, NEW m \in Mbufs, NicComplete(p, m) PROVE UNCHANGED clientVars
  BY <1>5 DEF NicComplete
<1>6. ASSUME NEW p \in Ports, NEW m \in Mbufs, NEW t \in RxTypes, NicReceive(p, m, t)
      PROVE  UNCHANGED clientVars
  BY <1>6 DEF NicReceive
<1> QED
  BY <1>1, <1>2, <1>3, <1>4, <1>5, <1>6 DEF Next, LcoreStep, Stopped

\* Whatever the delays of the lcore, the number of ports and the requests that found no
\* slot: between two requests of a client lies the interval drawn for it.
THEOREM NoCatchUpCorrect == Spec => NoCatchUp
<1>1. Init => Scheduled
  BY DEF Init, Scheduled
<1>2. TypeOK /\ Scheduled /\ [Next]_vars => Scheduled'
  BY NextScheduled
<1>3. TypeOK /\ Scheduled /\ [Next]_vars =>
        [nr_tx' # nr_tx => curr_tsc >= sent_at[idx] + interval[idx]]_vars
  BY NextScheduled
<1> QED
  BY <1>1, <1>2, <1>3, TypeCorrect, PTL DEF Spec, NoCatchUp
=============================================================================
