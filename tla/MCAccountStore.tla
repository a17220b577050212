---------------------------- MODULE MCAccountStore ----------------------------
(***************************************************************************)
(* Instances of AccountStore: the implicit default account and one more.   *)
(***************************************************************************)
EXTENDS AccountStore, TLC

CONSTANTS c1, c2, c3, default, work, home, ann, bob

McTwoCalls   == {c1, c2}
McThreeCalls == {c1, c2, c3}
McLabels     == {default, work}
McMoreLabels == {default, work, home}

\* The calls and the users are interchangeable.
McSymmetry == Permutations(Calls) \cup Permutations(Users)
===============================================================================
