----------------------------- MODULE MCSandbox -----------------------------
(***************************************************************************)
(* Small instances of the sandbox: two calls that may race for the image.  *)
(***************************************************************************)
EXTENDS Sandbox

CONSTANTS c1, c2

OneCall  == {c1}
TwoCalls == {c1, c2}
=============================================================================
