---------------------------- MODULE MCRoundTrip ----------------------------
EXTENDS RoundTrip

OwnCpu == [l \in Lcores |-> l]

OldThpFiles == {{0}, {0, 2}}

OldSynthetic == [c \in Old |-> "synthetic"]

\* Rates are a reply, and two replies, by the reply.
SomeDurations == [l \in Lcores \cup {Earlier} |-> IF l = 1 THEN 5000 ELSE 10000]

\* One client may be ahead of its own messages, and the other two send once.
SomeQuota == [l \in Lcores |-> [c \in Clients |-> IF l + c = 0 THEN 3 ELSE IF l + c = 1 THEN 1 ELSE 0]]

SomeModes == {<<"shinjuku", "synthetic", TRUE>>, <<"pkvs", "synthetic", FALSE>>,
              <<"dummy", "rocksdb", TRUE>>}
=============================================================================
