--------------------------- MODULE MCAuthMiddleware ---------------------------
(***************************************************************************)
(* Three calls on three accounts, one per authentication method: the       *)
(* default account signs in with a device code, the others in a browser    *)
(* and with a pasted authorization code.                                   *)
(***************************************************************************)
EXTENDS AuthMiddleware, TLC

CONSTANTS c1, c2, c3, home, work, lab

McAccounts  == {home, work, lab}
McMethodOf  == (home :> "device_code") @@ (work :> "browser") @@ (lab :> "auth_code")

\* c1 and c3 compete for one credential, c2 pastes a code or uses home's.
McCalls     == {c1, c2, c3}
McAccountOf == (c1 :> work) @@ (c2 :> lab) @@ (c3 :> work)

\* Two calls on two accounts, for the runs where two are enough.
McTwoCalls     == {c1, c3}
McTwoAccountOf == (c1 :> work) @@ (c3 :> home)

\* One browser account for three calls.
McOneAccount   == {home}
McOneMethodOf  == home :> "browser"
McOneAccountOf == [c \in McCalls |-> home]
===============================================================================
