----------------------------- MODULE MCSessions -----------------------------
(***************************************************************************)
(* Small instances of the sessions: overlapping reaper cycles.             *)
(***************************************************************************)
EXTENDS Sessions

CONSTANTS a, b, c1, c2

OneSession  == {a}
TwoSessions == {a, b}
OneCycle    == {c1}
TwoCycles   == {c1, c2}
Unprovided  == {}
=============================================================================
