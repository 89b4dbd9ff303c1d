---------------------------- MODULE MCStreaming ----------------------------
(***************************************************************************)
(* One submission and one client; two workers of one slot each, so that a  *)
(* retry may publish through another Redis client than the first attempt.  *)
(***************************************************************************)
EXTENDS Streaming, TLC

CONSTANTS e1, s1, s2, w1, w2, u

OneExecution == {e1}
TwoSlots     == {s1, s2}
TwoWorkers   == {w1, w2}
OneClient    == {u}
OwnHosts     == [s \in {s1, s2} |-> IF s = s1 THEN w1 ELSE w2]
Plain        == [e \in {e1} |-> 0]
ByExecution  == [c \in {u} |-> {"execution"}]
NoSession    == {}
Watches      == [c \in {u} |-> e1]

(* Two failing calls, or a broken connection, or an outage.                *)
Budget == 2 * outages + faults + 2 * drops <= 2

(* The two workers are alike, each with its slot.                          *)
Twins == {p \in Permutations({s1, s2, w1, w2}) :
            /\ p[s1] \in {s1, s2} /\ p[s2] \in {s1, s2}
            /\ p[w1] = OwnHosts[p[s1]] /\ p[w2] = OwnHosts[p[s2]]}
=============================================================================
