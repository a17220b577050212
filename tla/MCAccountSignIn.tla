---------------------------- MODULE MCAccountSignIn ----------------------------
(***************************************************************************)
(* Instances of AccountSignIn: one label per authentication method.        *)
(***************************************************************************)
EXTENDS AccountSignIn

CONSTANTS c1, c2, c3, desk, web, mail

McTwoCalls   == {c1, c2}
McThreeCalls == {c1, c2, c3}
===============================================================================
