---------------------------- MODULE MCAcEvaluate ----------------------------
(* Inputs of AcEvaluate for TLC: every list of up to two roles over two        *)
(* organizations and every table over an organization key, a team key and "*". *)
EXTENDS AcEvaluate

CONSTANTS kOrg, kTeam, o1, o2, t1
=============================================================================
