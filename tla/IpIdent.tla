------------------------------ MODULE IpIdent ------------------------------
(***************************************************************************)
(* pktgen.ident, the IPv4 identification counter that pktgen_ipv4_ctor     *)
(* bumps for every packet.  All lcores share it and nothing orders their   *)
(* accesses: the bump is a load and a store, and the identification is     *)
(* either the value just stored or, if the compiler reads the counter      *)
(* again, whatever is there by then.                                       *)
(***************************************************************************)
EXTENDS Integers, FiniteSets

CONSTANTS
  Cores,      \* lcores that build packets
  Width,      \* 2^16: the values of a uint16_t
  First,      \* 0x1234: the value main gives the counter
  Step,       \* 27: what is added for a packet
  MaxPackets  \* bound on the packets an lcore builds

ASSUME IpIdentAssumption ==
  /\ IsFiniteSet(Cores)
  /\ Width \in Nat \ {0}
  /\ First \in 0 .. Width - 1
  /\ Step \in Nat
  /\ MaxPackets \in Nat

VARIABLES
  ident,   \* pktgen.ident
  pc,      \* "load", "store" or "id", for each lcore
  reg,     \* the value an lcore has loaded, then stored
  bumps,   \* history: stores of all lcores
  issued,  \* history: the packets, each its lcore, its number and its identification
  shared   \* history: two lcores have been in the constructor at once

vars == <<ident, pc, reg, bumps, issued, shared>>

Init ==
  /\ ident = First
  /\ pc = [c \in Cores |-> "load"]
  /\ reg = [c \in Cores |-> 0]
  /\ bumps = 0
  /\ issued = {}
  /\ shared = FALSE

\* Mutants of Bump: a step that divides the width; a sum that is not cut to it.
BumpEven(v) == (v + Step + 1) % Width
BumpWide(v) == v + Step

Bump(v) == (v + Step) % Width

PacketsOf(c) == {x \in issued : x.core = c}

Load(c) ==
  /\ pc[c] = "load"
  /\ Cardinality(PacketsOf(c)) < MaxPackets
  /\ reg' = [reg EXCEPT ![c] = ident]
  /\ pc' = [pc EXCEPT ![c] = "store"]
  /\ shared' = (shared \/ \E d \in Cores \ {c} : pc[d] # "load")
  /\ UNCHANGED <<ident, bumps, issued>>

\* Mutant of Kept: the value before the bump.
KeptOld(c) == reg[c]

\* What the register holds after the store.
Kept(c) == Bump(reg[c])

Store(c) ==
  /\ pc[c] = "store"
  /\ ident' = Bump(reg[c])
  /\ reg' = [reg EXCEPT ![c] = Kept(c)]
  /\ bumps' = bumps + 1
  /\ pc' = [pc EXCEPT ![c] = "id"]
  /\ UNCHANGED <<issued, shared>>

SetId(c) ==
  /\ pc[c] = "id"
  /\ \E id \in {reg[c], ident} :
       issued' = issued \cup
         {[core |-> c, number |-> Cardinality(PacketsOf(c)) + 1, id |-> id]}
  /\ pc' = [pc EXCEPT ![c] = "load"]
  /\ UNCHANGED <<ident, reg, bumps, shared>>

Finished ==
  /\ \A c \in Cores : pc[c] = "load" /\ Cardinality(PacketsOf(c)) = MaxPackets
  /\ UNCHANGED vars

Next == (\E c \in Cores : Load(c) \/ Store(c) \/ SetId(c)) \/ Finished

Spec == Init /\ [][Next]_vars
-----------------------------------------------------------------------------
TypeOK ==
  /\ ident \in 0 .. Width - 1
  /\ pc \in [Cores -> {"load", "store", "id"}]
  /\ reg \in [Cores -> 0 .. Width - 1]
  /\ bumps \in Nat
  /\ issued \subseteq [core : Cores, number : 1 .. MaxPackets, id : 0 .. Width - 1]
  /\ shared \in BOOLEAN

\* As long as no two lcores build a packet at the same time the identifications
\* repeat only after Width packets, over all lcores together: this is what the
\* odd step is for. (It holds for as many packets as the bound allows, < Width.)
UniqueUnlessShared ==
  ~shared => \A x, y \in issued : x.id = y.id => x = y

\* Lost updates only slow the counter down: an identification is never one the
\* counter would not have reached after as many bumps without a race, and the
\* initial value itself is never sent.
IdsOnTrack ==
  \A x \in issued : \E k \in 1 .. bumps : x.id = (First + Step * k) % Width
=============================================================================
