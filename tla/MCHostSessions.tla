-------------------------- MODULE MCHostSessions ----------------------------
(***************************************************************************)
(* Instances of HostSessions for TLC.  The specification treats connections   *)
(* and session ids alike, so permuting either set is sound.                  *)
(***************************************************************************)
EXTENDS HostSessions, TLC

CONSTANTS c1, c2, c3, s1, s2, s3

MCConn         == {c1, c2, c3}
MCSessionId    == {s1, s2, s3}
MCTwoConn      == {c1, c2}
MCTwoSessionId == {s1, s2}
Symmetry       == Permutations(MCConn) \cup Permutations(MCSessionId)
=============================================================================
