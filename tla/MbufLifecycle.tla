---------------------------- MODULE MbufLifecycle ----------------------------
(***************************************************************************)
(* What the DPDK promises and asks of the packet buffers of one lcore,     *)
(* whatever the rings, tables and loops that hold them: a buffer is in one *)
(* place at a time and moves between places only as below, and what it     *)
(* holds is written only by its holder.  The module Lcore implements it.   *)
(***************************************************************************)
EXTENDS FiniteSets

CONSTANTS
  Mbufs,    \* the packet buffers
  Contents  \* what a buffer may hold

Places == {"pool",    \* free
           "spare",   \* allocated by the application, its packet not built yet
           "queued",  \* its packet waits to be handed to the NIC
           "tx",      \* being sent
           "rx",      \* posted for reception
           "burst"}   \* received, being read

VARIABLES place, data
vars == <<place, data>>

TypeOK ==
  /\ place \in [Mbufs -> Places]
  /\ data \in [Mbufs -> Contents]

Init ==
  /\ place \in [Mbufs -> {"pool", "spare", "rx"}]
  /\ data \in [Mbufs -> Contents]

\* Every buffer of S goes to place q, the others stay.
Move(S, q) == place' = [m \in Mbufs |-> IF m \in S THEN q ELSE place[m]]

\* rte_pktmbuf_alloc resets the header of a free buffer.
Alloc(m) ==
  /\ place[m] = "pool"
  /\ Move({m}, "spare")
  /\ \E d \in Contents : data' = [data EXCEPT ![m] = d]

\* The application builds a packet, once.
Build(m) ==
  /\ place[m] = "spare"
  /\ Move({m}, "queued")
  /\ \E d \in Contents : data' = [data EXCEPT ![m] = d]

\* rte_eth_tx_burst: the buffers handed over are the driver's.
Hand(S) ==
  /\ \A m \in S : place[m] = "queued"
  /\ Move(S, "tx")
  /\ UNCHANGED data

\* The driver frees a buffer after its packet has left.
Complete(m) ==
  /\ place[m] = "tx"
  /\ Move({m}, "pool")
  /\ UNCHANGED data

\* The NIC writes a packet to a posted buffer.
Arrive(m) ==
  /\ place[m] = "rx"
  /\ \E d \in Contents : data' = [data EXCEPT ![m] = d]
  /\ UNCHANGED place

\* rte_eth_rx_burst: the buffers of S are the application's, as many free ones
\* are posted in their stead.
Poll(S, R) ==
  /\ \A m \in S : place[m] = "rx"
  /\ \A m \in R : place[m] = "pool"
  /\ Cardinality(R) = Cardinality(S)
  /\ place' = [m \in Mbufs |-> IF m \in S THEN "burst"
                               ELSE IF m \in R THEN "rx" ELSE place[m]]
  /\ UNCHANGED data

\* rte_pktmbuf_free_bulk: the whole burst goes back.
Free ==
  /\ Move({m \in Mbufs : place[m] = "burst"}, "pool")
  /\ UNCHANGED data

Next ==
  \/ \E m \in Mbufs : Alloc(m) \/ Build(m) \/ Complete(m) \/ Arrive(m)
  \/ \E S \in SUBSET Mbufs : Hand(S)
  \/ \E S, R \in SUBSET Mbufs : Poll(S, R)
  \/ Free

Spec == Init /\ [][Next]_vars
=============================================================================
