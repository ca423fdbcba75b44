------------------------- MODULE MCHeartbeatTiming -------------------------
EXTENDS HeartbeatTiming

Setting(i, t, d) == [interval |-> i, timeout |-> t, delay |-> d]

\* The default; the floor of the answer timeout; a timeout of one's own that is long
\* enough, and one that is shorter than the interval.
AllConfigs == {Setting(2, 0, 1), Setting(1, 0, 0), Setting(2, 4, 1), Setting(2, 1, 0)}
=============================================================================
