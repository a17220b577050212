---------------------------- MODULE AccountResolver ----------------------------
(***************************************************************************)
(* Which account a mail or calendar call is served by.  The registry is a  *)
(* function from labels to entries; an entry has a client exactly when it  *)
(* is connected, since a sign-in sets both and a logout clears both.       *)
(***************************************************************************)
EXTENDS FiniteSets

Served(label) == [ok |-> TRUE, value |-> label]
Refused(why)  == [ok |-> FALSE, value |-> why]

Connected(registry)    == {l \in DOMAIN registry : registry[l].connected}

\* Labels take precedence over addresses; among equal addresses the order of
\* the map decides.
Named(registry, name) ==
  IF name \in DOMAIN registry THEN {name}
  ELSE {l \in DOMAIN registry : registry[l].email # "" /\ registry[l].email = name}

CheckConnected(registry, label) ==
  IF registry[label].connected THEN Served(label) ELSE Refused("disconnected")

\* mutant: the user's choice is taken without a look at the entry
ElicitUnchecked(registry, reply) ==
  IF reply \in DOMAIN registry THEN Served(reply) ELSE Refused("no choice")

\* The user's answer to the elicitation: a label, as parseElicitationChoice
\* recovers it from the text of the choice, or no choice at all.
ElicitAccountSelection(registry, reply) ==
  CASE reply = "unavailable" ->
         IF "default" \in DOMAIN registry THEN CheckConnected(registry, "default")
         ELSE Refused("several accounts")
    [] reply \in {"declined", "cancelled"} -> Refused(reply)
    [] OTHER ->
         IF reply \in DOMAIN registry THEN CheckConnected(registry, reply)
         ELSE Refused("not found")

Replies(registry) == DOMAIN registry \cup {"unavailable", "declined", "cancelled"}

\* All ways a call may be resolved, the argument being "" when it is absent.
ResolveAccount(registry, name) ==
  IF name # ""
  THEN IF Named(registry, name) = {} THEN {Refused("not found")}
       ELSE {CheckConnected(registry, l) : l \in Named(registry, name)}
  ELSE CASE Connected(registry) = {} -> {Refused("none connected")}
         [] Cardinality(Connected(registry)) = 1 -> {Served(l) : l \in Connected(registry)}
         [] OTHER -> {ElicitAccountSelection(registry, r) : r \in Replies(registry)}
===============================================================================
