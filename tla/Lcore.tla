-------------------------------- MODULE Lcore --------------------------------
(***************************************************************************)
(* One logical core of pktgen: the polling loop of pktgen_launch_one_lcore *)
(* and everything it calls, with the NIC queues and the mbuf pools it      *)
(* shares with the DPDK driver.                                            *)
(*                                                                         *)
(* Lcores share no buffer: lcore lid uses queue lid of every port, its own *)
(* pools and its own row of core_info.  What they do share (the IPv4 ident *)
(* counter and the flow table) has modules of its own.                     *)
(*                                                                         *)
(* The lcore's statements are actions on pc; between any two of them the   *)
(* NIC may complete or deliver packets and time may pass.                  *)
(***************************************************************************)
EXTENDS Integers, FiniteSets

CONSTANTS
  NbPorts,      \* Ethernet ports found by the EAL
  NbClient,     \* flows per core, option -f
  Burst,        \* DEFAULT_PKT_BURST: slots of a TX table, most packets a poll reads
  RxDesc,       \* DEFAULT_RX_DESC: buffers the RX ring of a port always holds
  TxDesc,       \* DEFAULT_TX_DESC: most packets the TX ring of a port holds
  Mbufs,        \* packet buffers of the lcore's pools, one pool a port
  PoolOf,       \* the port whose pool a buffer was created in and is freed to
  Parked,       \* free buffers in the pool cache of main's lcore, which has filled
                \* the tables and rings; none if this lcore is main's
  CacheSize,    \* RTE_MEMPOOL_CACHE_MAX_SIZE: most buffers of a pool in such a cache
  Intervals,    \* inter-arrival times the exponential generator may draw
  TicksPerSec,  \* clock ticks in a second
  RunSeconds,   \* the 10 of the loop's deadline test
  Runtime,      \* pktgen.runtime: option runtime, in seconds
  MaxTime,      \* bound on the clock
  MaxArrivals   \* bound on the packets the network sends

Ports    == 0 .. NbPorts - 1
LastPort == NbPorts - 1
Slots    == 0 .. Burst - 1
Clients  == 0 .. NbClient - 1
PoolMbufs(p) == {m \in Mbufs : PoolOf[m] = p}

\* What the network can deliver, and what the lcore builds.
RxTypes == {"arp", "ipv4", "other"}
TxTypes == {"request", "arp_reply"}
Types   == RxTypes \cup TxTypes \cup {"blank"}

\* A packet: what the buffer holds, and its TX checksum offload flags.
Packets == [type : Types, cksum : BOOLEAN]
Blank   == [type |-> "blank", cksum |-> FALSE]

Locations == {"init", "loop", "receive", "handle", "clock", "send",
              "transmit", "refill", "output", "done", "exited"}

ASSUME LcoreAssumption ==
  /\ NbPorts \in Nat \ {0}
  /\ NbClient \in Nat
  /\ Burst \in Nat \ {0}
  /\ RxDesc \in Nat \ {0}
  /\ TxDesc \in Nat \ {0}
  /\ IsFiniteSet(Mbufs)
  /\ PoolOf \in [Mbufs -> Ports]
  /\ Parked \subseteq Mbufs
  /\ CacheSize \in Nat
  /\ \A p \in Ports : Cardinality(PoolMbufs(p) \cap Parked) <= CacheSize
  /\ Intervals \subseteq Nat
  /\ TicksPerSec \in Nat \ {0}
  /\ RunSeconds \in Nat
  /\ Runtime \in Nat
  /\ MaxTime \in Nat
  /\ MaxArrivals \in Nat

VARIABLES
  pc, port, idx,           \* control point; port loop i; client loop j or refill loop i
  now,                     \* the clock
  start, end, curr_tsc,    \* core_info.start, core_info.end, the poll's clock reading
  last_send, interval,     \* struct client
  nr_tx, nr_rx,            \* requests generated and replies recorded by the client
  m_table, len,            \* tx_mbufs[pid]
  off,                     \* packets of the current table the NIC has accepted
  burst, todo,             \* pkts_burst, and the part of it not yet looked at
  pool,                    \* free buffers
  tx_ring,                 \* buffers the NIC is sending
  rx_ring, rx_ready,       \* buffers posted for RX, and those that hold a packet
  data,                    \* contents of the buffers
  wired, arrived,          \* history: packets handed to the NIC, packets delivered by it
  sent_at                  \* history: the clock reading at a client's last request

clientVars  == <<last_send, interval, sent_at, nr_tx>>
timerVars   == <<start, end, curr_tsc>>
tableVars   == <<m_table, len, off>>
receiveVars == <<burst, todo, nr_rx>>
rxVars      == <<rx_ring, rx_ready, arrived>>
vars == <<pc, port, idx, now, timerVars, clientVars, tableVars, receiveVars,
          pool, tx_ring, rxVars, data, wired>>

Sec(t) == t \div TicksPerSec

\* The free buffers of a pool that this lcore can have: those of the pool's ring
\* and of its own cache.
Available(p) == (pool \cap PoolMbufs(p)) \ Parked

\* pktgen_config_ports has run: each port's RX ring and table are filled from
\* that port's pool, and nothing is queued.
Init ==
  /\ pc = "init" /\ port = 0 /\ idx = 0
  /\ now \in 0 .. TicksPerSec - 1
  /\ start = 0 /\ end = 0 /\ curr_tsc = 0
  /\ last_send = [c \in Clients |-> 0]
  /\ interval = [c \in Clients |-> 0]
  /\ sent_at = [c \in Clients |-> 0]
  /\ nr_tx = 0 /\ nr_rx = 0
  /\ m_table \in [Ports -> [Slots -> Mbufs]]
  /\ \A p \in Ports : \A k, l \in Slots :
       /\ m_table[p][k] \in PoolMbufs(p) \ Parked
       /\ k # l => m_table[p][k] # m_table[p][l]
  /\ len = [p \in Ports |-> 0] /\ off = 0
  /\ burst = {} /\ todo = {}
  /\ rx_ring \in [Ports -> {r \in SUBSET Mbufs : Cardinality(r) = RxDesc}]
  /\ \A p \in Ports :
       rx_ring[p] \subseteq PoolMbufs(p) \ (Parked \cup {m_table[p][k] : k \in Slots})
  /\ rx_ready = [p \in Ports |-> {}]
  /\ pool = Mbufs \ UNION {rx_ring[p] \cup {m_table[p][k] : k \in Slots} : p \in Ports}
  /\ tx_ring = [p \in Ports |-> {}]
  /\ data = [m \in Mbufs |-> Blank]
  /\ wired = [t \in TxTypes |-> 0]
  /\ arrived = [t \in RxTypes |-> 0]

-----------------------------------------------------------------------------
(* The lcore. *)

\* pktgen_init_core, one client: its first interval runs from now, not from start.
InitClient ==
  /\ pc = "init" /\ idx < NbClient
  /\ last_send' = [last_send EXCEPT ![idx] = now]
  /\ sent_at' = [sent_at EXCEPT ![idx] = now]
  /\ \E i \in Intervals : interval' = [interval EXCEPT ![idx] = i]
  /\ idx' = idx + 1
  /\ UNCHANGED <<pc, port, now, timerVars, nr_tx, tableVars, receiveVars,
                 pool, tx_ring, rxVars, data, wired>>

\* The start time stamp.
StartClock ==
  /\ pc = "init" /\ idx = NbClient
  /\ start' = now
  /\ pc' = "loop"
  /\ UNCHANGED <<port, idx, now, end, curr_tsc, clientVars, tableVars,
                 receiveVars, pool, tx_ring, rxVars, data, wired>>

\* Mutants of Expired: a run that starts late in a second is cut short; the
\* microseconds are compared for the seconds.
ExpiredMicros == now % TicksPerSec > Sec(start) + RunSeconds
ExpiredEarly == Sec(now) >= Sec(start) + RunSeconds

\* The head of while (true): whole seconds are compared, not times.
Expired == Sec(now) > Sec(start) + RunSeconds

CheckDeadline ==
  /\ pc = "loop"
  /\ IF Expired
       THEN pc' = "output" /\ end' = now /\ UNCHANGED port
       ELSE pc' = "receive" /\ port' = 0 /\ UNCHANGED end
  /\ UNCHANGED <<idx, now, start, curr_tsc, clientVars, tableVars, receiveVars,
                 pool, tx_ring, rxVars, data, wired>>

\* rte_eth_rx_burst: the driver hands over some of the packets that are ready,
\* and posts a fresh buffer of the queue's pool for each one.
Receive ==
  /\ pc = "receive"
  /\ \E got \in SUBSET rx_ready[port], fresh \in SUBSET Available(port) :
       /\ Cardinality(got) <= Burst
       /\ Cardinality(fresh) = Cardinality(got)
       /\ burst' = got /\ todo' = got
       /\ pool' = pool \ fresh
       /\ rx_ring' = [rx_ring EXCEPT ![port] = (@ \ got) \cup fresh]
       /\ rx_ready' = [rx_ready EXCEPT ![port] = @ \ got]
       /\ pc' = IF got = {} THEN "clock" ELSE "handle"
  /\ UNCHANGED <<port, idx, now, timerVars, clientVars, tableVars, nr_rx,
                 tx_ring, arrived, data, wired>>

\* Mutant of TableFull: the last slot is never used.
TableFullEarly == len[port] >= Burst - 1

\* The table of the current port has no slot left.
TableFull == len[port] = Burst

\* pktgen_setup_arp: nothing when the table is full; the offload flags of the
\* slot's buffer are left as they are.
SetupArp ==
  IF TableFull
    THEN UNCHANGED <<len, data>>
    ELSE /\ data' = [data EXCEPT ![m_table[port][len[port]]] =
                                   [type |-> "arp_reply", cksum |-> @.cksum]]
         /\ len' = [len EXCEPT ![port] = @ + 1]

\* Mutant of IsReply: whatever is not ARP is taken for a reply.
IsNotArp(m) == data[m].type # "arp"

IsReply(m) == data[m].type = "ipv4"

\* One packet of the burst: an ARP packet is answered, an IPv4 packet goes to
\* the client's recv, anything else is ignored.
HandlePacket ==
  /\ pc = "handle"
  /\ \E m \in todo :
       /\ todo' = todo \ {m}
       /\ IF data[m].type = "arp" THEN SetupArp ELSE UNCHANGED <<len, data>>
       /\ nr_rx' = IF IsReply(m) THEN nr_rx + 1 ELSE nr_rx
  /\ UNCHANGED <<pc, port, idx, now, timerVars, clientVars, m_table, off, burst,
                 pool, tx_ring, rxVars, wired>>

\* Mutant of Freed: the burst is forgotten.
FreedNone == {}

Freed == burst

\* rte_pktmbuf_free_bulk of the whole burst.
FreeBurst ==
  /\ pc = "handle"
  /\ todo = {}
  /\ pool' = pool \cup Freed
  /\ burst' = {}
  /\ pc' = "clock"
  /\ UNCHANGED <<port, idx, now, timerVars, clientVars, tableVars, todo, nr_rx,
                 tx_ring, rxVars, data, wired>>

\* curr_tsc is read once a port, before the clients are looked at.
ReadClock ==
  /\ pc = "clock"
  /\ curr_tsc' = now
  /\ idx' = 0
  /\ pc' = "send"
  /\ UNCHANGED <<port, now, start, end, clientVars, tableVars, receiveVars,
                 pool, tx_ring, rxVars, data, wired>>

\* Mutant of Sent: the client's send runs before the table is looked at.
SentAnyway == nr_tx + 1

Sent == IF TableFull THEN nr_tx ELSE nr_tx + 1

\* pktgen_setup_packets: nothing, not even the client's send, when the table is full.
SetupPackets ==
  /\ nr_tx' = Sent
  /\ IF TableFull
       THEN UNCHANGED <<len, data, sent_at>>
       ELSE /\ data' = [data EXCEPT ![m_table[port][len[port]]] =
                                      [type |-> "request", cksum |-> TRUE]]
            /\ len' = [len EXCEPT ![port] = @ + 1]
            /\ sent_at' = [sent_at EXCEPT ![idx] = curr_tsc]

\* Mutant of ClientDue: a late client is looked at again until it has caught up.
ClientCatchesUp ==
  /\ pc = "send" /\ idx < NbClient
  /\ curr_tsc >= last_send[idx] + interval[idx]
  /\ last_send' = [last_send EXCEPT ![idx] = @ + interval[idx]]
  /\ \E i \in Intervals : interval' = [interval EXCEPT ![idx] = i]
  /\ SetupPackets
  /\ UNCHANGED <<pc, port, idx, now, timerVars, m_table, off, receiveVars,
                 pool, tx_ring, rxVars, wired>>

\* Mutant of Reschedule: the next interval runs from the time the client was due.
RescheduleFromDue(c) ==
  /\ last_send' = [last_send EXCEPT ![c] = @ + interval[c]]
  /\ \E i \in Intervals : interval' = [interval EXCEPT ![c] = i]

\* The next interval runs from the clock reading, however late that was.
Reschedule(c) ==
  /\ last_send' = [last_send EXCEPT ![c] = curr_tsc]
  /\ \E i \in Intervals : interval' = [interval EXCEPT ![c] = i]

\* A client whose interval is over: it is rescheduled before its packet is set
\* up, whether or not the table has room.
ClientDue ==
  /\ pc = "send" /\ idx < NbClient
  /\ curr_tsc >= last_send[idx] + interval[idx]
  /\ Reschedule(idx)
  /\ SetupPackets
  /\ idx' = idx + 1
  /\ UNCHANGED <<pc, port, now, timerVars, m_table, off, receiveVars,
                 pool, tx_ring, rxVars, wired>>

ClientWaits ==
  /\ pc = "send" /\ idx < NbClient
  /\ curr_tsc < last_send[idx] + interval[idx]
  /\ idx' = idx + 1
  /\ UNCHANGED <<pc, port, now, timerVars, clientVars, tableVars, receiveVars,
                 pool, tx_ring, rxVars, data, wired>>

\* After the last client: pktgen_main_transmit.
EndClients ==
  /\ pc = "send" /\ idx = NbClient
  /\ pc' = "transmit"
  /\ UNCHANGED <<port, idx, now, timerVars, clientVars, tableVars, receiveVars,
                 pool, tx_ring, rxVars, data, wired>>

\* Mutant of NextPort: one port too many.
NextPortPastLast ==
  IF port > LastPort
    THEN pc' = "loop" /\ UNCHANGED port
    ELSE pc' = "receive" /\ port' = port + 1

\* The next port of RTE_ETH_FOREACH_DEV, or the head of the loop again.
NextPort ==
  IF port = LastPort
    THEN pc' = "loop" /\ UNCHANGED port
    ELSE pc' = "receive" /\ port' = port + 1

NothingToSend ==
  /\ pc = "transmit" /\ len[port] = 0
  /\ NextPort
  /\ UNCHANGED <<idx, now, timerVars, clientVars, tableVars, receiveVars,
                 pool, tx_ring, rxVars, data, wired>>

\* One call of rte_eth_tx_burst, which accepts as many packets as it likes up to
\* the room in its ring, none included; the loop calls it until none is left.
TxBurst ==
  /\ pc = "transmit" /\ len[port] > 0
  /\ \E ret \in 0 .. len[port] - off :
       LET next == off .. off + ret - 1 IN
         /\ Cardinality(tx_ring[port]) + ret <= TxDesc
         /\ tx_ring' = [tx_ring EXCEPT ![port] = @ \cup {m_table[port][k] : k \in next}]
         /\ off' = off + ret
         /\ wired' = [t \in TxTypes |-> wired[t] +
                        Cardinality({k \in next : data[m_table[port][k]].type = t})]
         /\ IF off + ret = len[port]
              THEN pc' = "refill" /\ idx' = 0
              ELSE UNCHANGED <<pc, idx>>
  /\ UNCHANGED <<port, now, timerVars, clientVars, m_table, len, receiveVars,
                 pool, rxVars, data>>

\* Mutant of Refill: the slot keeps the buffer the NIC was given.
RefillKeepsBuffer ==
  /\ pc = "refill" /\ idx < len[port]
  /\ idx' = idx + 1
  /\ UNCHANGED <<pc, port, now, timerVars, clientVars, tableVars, receiveVars,
                 pool, tx_ring, rxVars, data, wired>>

\* Mutant of Reset: the buffer keeps the flags of its last packet.
ResetNot(packet) == packet

\* What rte_pktmbuf_alloc leaves of a buffer's packet: its bytes, not its flags.
Reset(packet) == [type |-> packet.type, cksum |-> FALSE]

\* The table's slots that were sent get fresh buffers, always from pkt_mempool,
\* the pool of the port configured last.
Refill ==
  /\ pc = "refill" /\ idx < len[port]
  /\ \E m \in Available(LastPort) :
       /\ pool' = pool \ {m}
       /\ m_table' = [m_table EXCEPT ![port][idx] = m]
       /\ data' = [data EXCEPT ![m] = Reset(@)]
  /\ idx' = idx + 1
  /\ UNCHANGED <<pc, port, now, timerVars, clientVars, len, off, receiveVars,
                 tx_ring, rxVars, wired>>

\* rte_exit: no buffer is left in the pool for this lcore, though some may be in
\* the cache of main's.
AllocFails ==
  /\ pc = "refill" /\ idx < len[port]
  /\ Available(LastPort) = {}
  /\ pc' = "exited"
  /\ UNCHANGED <<port, idx, now, timerVars, clientVars, tableVars, receiveVars,
                 pool, tx_ring, rxVars, data, wired>>

EndRefill ==
  /\ pc = "refill" /\ idx = len[port]
  /\ len' = [len EXCEPT ![port] = 0]
  /\ off' = 0
  /\ NextPort
  /\ UNCHANGED <<idx, now, timerVars, clientVars, m_table, receiveVars,
                 pool, tx_ring, rxVars, data, wired>>

\* The client's output, and the return to the EAL.
Output ==
  /\ pc = "output"
  /\ pc' = "done"
  /\ UNCHANGED <<port, idx, now, timerVars, clientVars, tableVars, receiveVars,
                 pool, tx_ring, rxVars, data, wired>>

LcoreStep ==
  \/ InitClient \/ StartClock \/ CheckDeadline \/ Receive \/ HandlePacket \/ FreeBurst
  \/ ReadClock \/ ClientDue \/ ClientWaits \/ EndClients
  \/ NothingToSend \/ TxBurst \/ Refill \/ AllocFails \/ EndRefill \/ Output

-----------------------------------------------------------------------------
(* The NIC, the network and the clock. *)

\* A packet has left and the driver has freed its buffer to the buffer's pool.
NicComplete(p, m) ==
  /\ m \in tx_ring[p]
  /\ tx_ring' = [tx_ring EXCEPT ![p] = @ \ {m}]
  /\ pool' = pool \cup {m}
  /\ UNCHANGED <<pc, port, idx, now, timerVars, clientVars, tableVars,
                 receiveVars, rxVars, data, wired>>

\* A packet arrives in a posted buffer.
NicReceive(p, m, t) ==
  /\ m \in rx_ring[p] \ rx_ready[p]
  /\ arrived["arp"] + arrived["ipv4"] + arrived["other"] < MaxArrivals
  /\ arrived' = [arrived EXCEPT ![t] = @ + 1]
  /\ rx_ready' = [rx_ready EXCEPT ![p] = @ \cup {m}]
  /\ data' = [data EXCEPT ![m] = [type |-> t, cksum |-> FALSE]]
  /\ UNCHANGED <<pc, port, idx, now, timerVars, clientVars, tableVars,
                 receiveVars, pool, tx_ring, rx_ring, wired>>

\* Time passes, up to MaxTime; the clients' initialisation takes a second at most.
Tick ==
  /\ now < MaxTime
  /\ pc = "init" => now < TicksPerSec
  /\ now' = now + 1
  /\ UNCHANGED <<pc, port, idx, timerVars, clientVars, tableVars, receiveVars,
                 pool, tx_ring, rxVars, data, wired>>

\* The lcore has returned or the process is gone.
Stopped ==
  /\ pc \in {"done", "exited"}
  /\ UNCHANGED vars

Next ==
  \/ LcoreStep
  \/ \E p \in Ports, m \in Mbufs : NicComplete(p, m)
  \/ \E p \in Ports, m \in Mbufs, t \in RxTypes : NicReceive(p, m, t)
  \/ Tick
  \/ Stopped

Spec == Init /\ [][Next]_vars

\* The lcore runs under SCHED_RR, its links are up and drain, and time passes.
\* Nothing is assumed of the packets that arrive.
Fairness ==
  /\ WF_vars(LcoreStep)
  /\ \A p \in Ports, m \in Mbufs : WF_vars(NicComplete(p, m))
  /\ WF_vars(Tick)

FairSpec == Spec /\ Fairness
-----------------------------------------------------------------------------
(* Who holds a buffer. *)

\* The slots of a table whose buffers the NIC has taken and that have no fresh
\* buffer yet: their pointers are dangling.
Stale(p) ==
  IF p # port THEN {}
  ELSE CASE pc = "transmit" -> 0 .. off - 1
         [] pc \in {"refill", "exited"} -> idx .. len[p] - 1
         [] OTHER -> {}

\* The slots whose buffers the table holds.
Live(p) == Slots \ Stale(p)

\* The slots with a packet that waits for rte_eth_tx_burst.
Queued(p) ==
  {k \in Slots : k < len[p]} \ (IF p = port /\ pc \in {"refill", "exited"}
                                  THEN Slots ELSE Stale(p))
QueuedPackets(t) ==
  {s \in Ports \X Slots : s[2] \in Queued(s[1]) /\ data[m_table[s[1]][s[2]]].type = t}

\* Received packets the lcore has not looked at.
Waiting(t) == {m \in todo \cup UNION {rx_ready[p] : p \in Ports} : data[m].type = t}

-----------------------------------------------------------------------------
(* Properties. *)

TypeOK ==
  /\ pc \in Locations /\ port \in Ports /\ idx \in Nat
  /\ now \in Nat /\ start \in Nat /\ end \in Nat /\ curr_tsc \in Nat
  /\ last_send \in [Clients -> Nat] /\ interval \in [Clients -> Nat]
  /\ sent_at \in [Clients -> Nat]
  /\ nr_tx \in Nat /\ nr_rx \in Nat
  /\ m_table \in [Ports -> [Slots -> Mbufs]]
  /\ len \in [Ports -> 0 .. Burst] /\ off \in 0 .. Burst
  /\ burst \subseteq Mbufs /\ todo \subseteq burst /\ pool \subseteq Mbufs
  /\ tx_ring \in [Ports -> SUBSET Mbufs]
  /\ rx_ring \in [Ports -> SUBSET Mbufs]
  /\ rx_ready \in [Ports -> SUBSET Mbufs]
  /\ \A p \in Ports : rx_ready[p] \subseteq rx_ring[p]
  /\ data \in [Mbufs -> Packets]
  /\ wired \in [TxTypes -> Nat] /\ arrived \in [RxTypes -> Nat]

\* A buffer has one holder: a free pool, a ring of the NIC, the burst being
\* read, or one live slot of one table. The refill loop of pktgen_main_transmit
\* ("WHY NEED NEW BUFFER??") is what makes this true.
OneHolder ==
  /\ \A p, q \in Ports : \A k \in Live(p), l \in Live(q) :
       m_table[p][k] = m_table[q][l] => p = q /\ k = l
  /\ \A p, q \in Ports : \A k \in Live(p) :
       /\ m_table[p][k] \notin pool /\ m_table[p][k] \notin burst
       /\ m_table[p][k] \notin tx_ring[q] /\ m_table[p][k] \notin rx_ring[q]
  /\ \A m \in burst : m \notin pool
  /\ \A p \in Ports : \A m \in tx_ring[p] : m \notin pool /\ m \notin burst
  /\ \A p \in Ports : \A m \in rx_ring[p] : m \notin pool /\ m \notin burst
  /\ \A p, q \in Ports : \A m \in tx_ring[p] :
       m \notin rx_ring[q] /\ (m \in tx_ring[q] => p = q)
  /\ \A p, q \in Ports : \A m \in rx_ring[p] : m \in rx_ring[q] => p = q

\* What the control point says of the table and the burst; with OneHolder and
\* NoLeak it is inductive.
ControlOK ==
  /\ pc \notin {"transmit", "refill", "exited"} => off = 0
  /\ pc \in {"refill", "exited"} => off = len[port]
  /\ off <= len[port]
  /\ pc # "handle" => burst = {}

\* No buffer is lost: every one has a holder, however the rings, the partial
\* sends and the refills interleave.
NoLeak ==
  \A m \in Mbufs :
    \/ m \in pool \cup burst
    \/ \E p \in Ports : m \in tx_ring[p] \cup rx_ring[p]
    \/ \E p \in Ports : \E k \in Live(p) : m_table[p][k] = m

\* While the NIC is sending a packet the lcore never writes to its buffer.
InFlightUnchanged ==
  [][\A p \in Ports : \A m \in tx_ring[p] \cap tx_ring'[p] : data'[m] = data[m]]_vars

\* Every packet on a TX ring was built for sending, a request with checksum
\* offload and an ARP reply without it: a slot never sends what its buffer
\* held before.
WireFormat ==
  \A p \in Ports : \A m \in tx_ring[p] :
    data[m] \in {[type |-> "request", cksum |-> TRUE],
                 [type |-> "arp_reply", cksum |-> FALSE]}

\* nr_tx, which the throughput report divides by the run time, is the number of
\* requests the NIC was given plus those still in a table: a request that found
\* no slot is not counted, and no request is sent twice or lost by a partial send.
RequestsConserved == nr_tx = wired["request"] + Cardinality(QueuedPackets("request"))

\* Every ARP packet is answered once: pktgen_setup_arp never finds its table
\* full, since the table is empty when a burst of at most its size is read.
ArpsAnswered ==
  arrived["arp"] = wired["arp_reply"] + Cardinality(QueuedPackets("arp_reply"))
                                      + Cardinality(Waiting("arp"))

\* Every IPv4 packet is passed to the client's recv once.
RepliesCounted == arrived["ipv4"] = nr_rx + Cardinality(Waiting("ipv4"))

\* A client takes at most one slot of a burst, so that a request is dropped only
\* if the ARP replies of the same burst and the clients outnumber the slots.
OneSlotPerClient == pc = "send" => Cardinality(QueuedPackets("request")) <= idx

\* Late clients never catch up: however many polls a client has missed, and
\* whether or not its last turn found a slot, its next request comes a whole
\* interval after its last one, by the clock readings of the two polls.
NoCatchUp ==
  [][nr_tx' # nr_tx => curr_tsc >= sent_at[idx] + interval[idx]]_vars

\* pktgen_main_transmit cannot end the process for want of a buffer.
NoAllocFailure == pc # "exited"

\* The place of a buffer in the life the DPDK gives it.
Place(m) ==
  CASE m \in pool  -> "pool"
    [] m \in burst -> "burst"
    [] \E p \in Ports : m \in tx_ring[p] -> "tx"
    [] \E p \in Ports : m \in rx_ring[p] -> "rx"
    [] \E p \in Ports : \E k \in Queued(p) : m_table[p][k] = m -> "queued"
    [] OTHER -> "spare"

\* The lcore's tables, rings and loops move buffers, and write to them, only as
\* the life cycle allows: no packet is built in a buffer the NIC still has, sent
\* twice, or freed by two hands.
Lifecycle == INSTANCE MbufLifecycle WITH Contents <- Packets,
                                         place <- [m \in Mbufs |-> Place(m)]
ImplementsLifecycle == Lifecycle!Spec

\* The process gives up only while the NIC sits on packets: every buffer of the
\* last pool is posted, in a table, being sent, or in the cache of main's lcore,
\* none is lost or held twice.
ExitsOnlyUnderBackpressure ==
  [][pc' = "exited" /\ pc # "exited" =>
       Cardinality(PoolMbufs(LastPort) \ Parked) <
         RxDesc + NbPorts * Burst
                + Cardinality((UNION {tx_ring[p] : p \in Ports}) \cap PoolMbufs(LastPort))]_vars

\* The run lasts as long as the runtime option says.
RunsConfiguredTime == pc \in {"output", "done"} => end - start >= Runtime * TicksPerSec

\* Though the deadline compares whole seconds, the run is longer than RunSeconds.
RunsFullTime == pc \in {"output", "done"} => end - start > RunSeconds * TicksPerSec

\* The lcore returns to the EAL: a full TX ring only delays it while links drain.
Terminates == <>(pc = "done")
=============================================================================
