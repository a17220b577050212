--------------------------- MODULE ToolCallContract ---------------------------
(***************************************************************************)
(* What a client is promised about its tool calls, whatever happens to     *)
(* authentication underneath: each is answered once; its verb runs at most *)
(* twice, the second time only because the first failed to authenticate;   *)
(* and each sign-in started on the way is decided once.                    *)
(***************************************************************************)
EXTENDS Naturals

CONSTANT Calls

VARIABLES
  phase,  \* a call is new, open or answered
  answer, \* what it was answered
  runs,   \* how often its verb has run
  result, \* how the last run ended
  flow    \* the sign-in it started: none, running, ok or failed

vars == <<phase, answer, runs, result, flow>>

Init ==
  /\ phase = [c \in Calls |-> "new"]
  /\ answer = [c \in Calls |-> "none"]
  /\ runs = [c \in Calls |-> 0]
  /\ result = [c \in Calls |-> "none"]
  /\ flow = [c \in Calls |-> "none"]

Open(c) ==
  /\ phase[c] = "new"
  /\ phase' = [phase EXCEPT ![c] = "open"]
  /\ UNCHANGED <<answer, runs, result, flow>>

Answer(c, a) ==
  /\ phase' = [phase EXCEPT ![c] = "answered"]
  /\ answer' = [answer EXCEPT ![c] = a]

\* The verb may still run: for the first time, or after it could not authenticate.
MayRun(c) == phase[c] = "open" /\ (runs[c] = 0 \/ (runs[c] = 1 /\ result[c] = "auth"))

RunVerb(c) ==
  /\ MayRun(c)
  /\ runs' = [runs EXCEPT ![c] = @ + 1]
  /\ \E r \in {"ok", "auth", "other"} :
       /\ result' = [result EXCEPT ![c] = r]
       /\ \/ Answer(c, "handler")
          \/ r = "auth" /\ runs[c] = 0 /\ UNCHANGED <<phase, answer>>
  /\ UNCHANGED flow

\* The call is answered without its verb's result; "wait" only while, or
\* after, another call signed in.
Refuse(c) ==
  /\ MayRun(c)
  /\ \E a \in {"wait", "failed", "instructions", "declined"} :
       /\ a = "wait" => \E d \in Calls \ {c} : flow[d] # "none"
       /\ Answer(c, a)
  /\ UNCHANGED <<runs, result, flow>>

StartFlow(c) ==
  /\ MayRun(c)
  /\ flow[c] = "none"
  /\ flow' = [flow EXCEPT ![c] = "running"]
  /\ UNCHANGED <<phase, answer, runs, result>>

DecideFlow(c) ==
  /\ flow[c] = "running"
  /\ \E f \in {"ok", "failed"} : flow' = [flow EXCEPT ![c] = f]
  /\ UNCHANGED <<phase, answer, runs, result>>

CallStep(c) == RunVerb(c) \/ Refuse(c)

Next == \E c \in Calls : Open(c) \/ CallStep(c) \/ StartFlow(c) \/ DecideFlow(c)

\* Every open call is answered and every sign-in is decided.
Fairness ==
  \A c \in Calls : WF_vars(CallStep(c)) /\ WF_vars(DecideFlow(c))

Safety == Init /\ [][Next]_vars
Spec == Safety /\ Fairness
===============================================================================
