------------------------------- MODULE MCLcore -------------------------------
(* Instances of Lcore for TLC: which buffers there are and how they are pooled. *)
EXTENDS Lcore, TLC

CONSTANTS m1, m2, m3, m4, m5, m6, m7, m8

\* One port: room for a RX ring, a table and a TX ring, and nothing to spare.
ThreePool   == {m1, m2, m3}
ThreePoolOf == [m \in ThreePool |-> 0]

\* The same for a worker: one more, which is in the cache of main's lcore.
SevenPool   == {m1, m2, m3, m4, m5, m6, m7}
SevenPoolOf == [m \in SevenPool |-> 0]
SeventhKept == {m7}
AnySix      == Permutations({m1, m2, m3, m4, m5, m6})

\* Two ports. The last port's pool serves the refills of both and has, beside the
\* buffer m5 in the cache of main's lcore, one less than they can have in use, so
\* that it can run dry.
TwoPools   == {m1, m2, m3, m4, m5, m6, m7, m8}
FifthKept  == {m5}
TwoPoolsOf == [m \in TwoPools |-> IF m \in {m6, m7, m8} THEN 0 ELSE 1]
AnyOfPool  == Permutations({m1, m2, m3, m4}) \cup Permutations({m6, m7, m8})

\* Three ports, the last pool four times a TX ring as in MAX_MBUFS_PER_PORT. The
\* other pools are never drawn on when nothing arrives: they hold what the ports do.
ThreePools   == {m1, m2, m3, m4, m5, m6, m7, m8}
ThreePoolsOf == [m \in ThreePools |-> CASE m \in {m5, m6} -> 0
                                        [] m \in {m7, m8} -> 1
                                        [] OTHER -> 2]
AnyOfThree   == Permutations({m1, m2, m3, m4}) \cup Permutations({m5, m6})
                                               \cup Permutations({m7, m8})
=============================================================================
