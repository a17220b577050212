------------------------- MODULE AuthMiddlewareProofs -------------------------
(***************************************************************************)
(* Theorems about AuthMiddleware, for every set of calls and accounts.     *)
(***************************************************************************)
EXTENDS AuthMiddleware, TLAPS

USE CallsAssumption, AccountsAssumption

-------------------------------------------------------------------------------
\* Types, one lemma per group of actions.
LEMMA InitType == Init => TypeOK
<1> SUFFICES ASSUME Init PROVE TypeOK
  OBVIOUS
<1>1. /\ pendingAuth \in BOOLEAN
      /\ preAuthenticated \in BOOLEAN
      /\ authenticated \in BOOLEAN
      /\ staleSettle \in BOOLEAN
  BY Zenon DEF Init
<1>0. /\ mu \in Calls \cup {NoCall}
      /\ pending \in Calls \cup {NoCall}
      /\ interactiveAuthCount \in Int
  BY DEF Init
<1>2. /\ flow \in [Calls -> Phases]
      /\ flowAccount \in [Calls -> Accounts]
      /\ prompted \in [Calls -> BOOLEAN]
      /\ flowOk \in [Calls -> BOOLEAN]
  BY DEF Init, Phases
<1>3. /\ pc \in [Calls -> Locations]
      /\ mode \in [Calls -> Modes]
      /\ slot \in [Calls -> Accounts \cup {NoAccount}]
      /\ observed \in [Calls -> Calls \cup {NoCall}]
      /\ runs \in [Calls -> Nat]
  BY DEF Init, Locations, Modes
<1>4. /\ result \in [Calls -> Results]
      /\ grant \in [Calls -> Grants]
      /\ answer \in [Calls -> Answers]
      /\ sawFlow \in [Calls -> BOOLEAN]
  BY DEF Init, Results, Grants, Answers
<1>5. QED
  BY <1>0, <1>1, <1>2, <1>3, <1>4 DEF TypeOK

LEMMA ReturnType ==
  ASSUME TypeOK, NEW c \in Calls, NEW a \in Answers, Return(c, a)
  PROVE  /\ pc' \in [Calls -> Locations]
         /\ answer' \in [Calls -> Answers]
         /\ mu' \in Calls \cup {NoCall}
  BY DEF TypeOK, Return, Goto, Locations

LEMMA CallNextType ==
  ASSUME TypeOK, NEW c \in Calls, NEW m \in Modes, NEW g \in Grants,
         CallNext(c, m, g)
  PROVE  /\ pc' \in [Calls -> Locations]
         /\ mode' \in [Calls -> Modes]
         /\ grant' \in [Calls -> Grants]
  BY DEF TypeOK, CallNext, Goto, Locations

LEMMA EntryType ==
  ASSUME TypeOK, NEW c \in Calls,
         \/ Arrive(c) \/ LoadPendingAuth(c) \/ OutcomeRunning(c)
         \/ OutcomeFinished(c) \/ Settle(c) \/ CheckFresh(c)
         \/ EntrySilentToken(c)
  PROVE  TypeOK'
<1> USE ReturnType, CallNextType
    DEF TypeOK, Answers, Modes, Grants, flagVars, flowVars, serveVars, nextVars
<1>1. CASE Arrive(c)
  BY <1>1 DEF Arrive, Goto, Locations
<1>2. CASE LoadPendingAuth(c)
  BY <1>2 DEF LoadPendingAuth, Goto, Locations
<1>3. CASE OutcomeRunning(c)
  BY <1>3 DEF OutcomeRunning
<1>4. CASE OutcomeFinished(c)
  BY <1>4 DEF OutcomeFinished, Goto, Locations
<1>5. CASE Settle(c)
  <2>1. pendingAuth' \in BOOLEAN /\ authenticated' \in BOOLEAN /\ staleSettle' \in BOOLEAN
    BY <1>5, Zenon DEF Settle
  <2>2. /\ pc' \in [Calls -> Locations]
        /\ answer' \in [Calls -> Answers]
        /\ mu' \in Calls \cup {NoCall}
    BY <1>5 DEF Settle, Goto, Locations
  <2>3. QED
    BY <1>5, <2>1, <2>2 DEF Settle
<1>6. CASE CheckFresh(c)
  BY <1>6 DEF CheckFresh, Goto, Locations
<1>7. CASE EntrySilentToken(c)
  <2>1. CASE CallNext(c, "direct", "silent") /\ authenticated' = TRUE
    BY <1>7, <2>1, CallNextType DEF EntrySilentToken
  <2>2. CASE Goto(c, "lock") /\ UNCHANGED <<authenticated, serveVars>>
    BY <1>7, <2>2 DEF EntrySilentToken, Goto, Locations
  <2>3. QED
    BY <1>7, <2>1, <2>2 DEF EntrySilentToken
<1>8. QED
  BY <1>1, <1>2, <1>3, <1>4, <1>5, <1>6, <1>7

LEMMA HandlerType ==
  ASSUME TypeOK, NEW c \in Calls,
         RunVerb(c) \/ RunRecoveryVerb(c) \/ CheckInFlight(c) \/ RecoveryGetToken(c)
  PROVE  TypeOK'
<1>1. ASSUME NEW r \in Results, HandlerReturns(c, r),
             slot' \in [Calls -> Accounts \cup {NoAccount}]
      PROVE  TypeOK'
  <2>1. /\ pc' \in [Calls -> Locations]
        /\ answer' \in [Calls -> Answers]
        /\ mu' \in Calls \cup {NoCall}
    BY <1>1, ReturnType DEF HandlerReturns, TypeOK, Goto, Locations, Answers
  <2>2. /\ runs' \in [Calls -> Nat]
        /\ result' \in [Calls -> Results]
    BY <1>1 DEF HandlerReturns, TypeOK
  <2>3. QED
    BY <1>1, <2>1, <2>2
       DEF HandlerReturns, TypeOK, flagVars, flowVars, serveVars
<1>2. CASE CheckInFlight(c)
  BY <1>2 DEF CheckInFlight, Goto, TypeOK, Locations, flagVars, flowVars,
              serveVars, nextVars
<1>3. {"ok", "auth", "other"} \subseteq Results
  BY DEF Results
<1>4. CASE RunVerb(c) \/ RunRecoveryVerb(c) \/ RecoveryGetToken(c)
  <2>1. PICK r \in {"ok", "auth", "other"} : HandlerReturns(c, r)
    BY <1>4 DEF RunVerb, RunRecoveryVerb, RecoveryGetToken
  <2>2. slot' \in [Calls -> Accounts \cup {NoAccount}]
    BY <1>4 DEF RunVerb, RunRecoveryVerb, RecoveryGetToken, TypeOK
  <2>3. QED
    BY <1>1, <1>3, <2>1, <2>2
<1>5. QED
  BY <1>2, <1>4

LEMMA ReauthType ==
  ASSUME TypeOK, NEW c \in Calls,
         \/ LockMu(c) \/ ReauthSilentToken(c) \/ AuthCodeURL(c) \/ CodeElicited(c)
         \/ URLElicited(c) \/ LinkElicited(c)
  PROVE  TypeOK'
<1> USE ReturnType, CallNextType
    DEF TypeOK, Answers, Modes, Grants, flagVars, flowVars, serveVars, nextVars
<1>1. CASE LockMu(c)
  BY <1>1 DEF LockMu, Goto, Locations
<1>2. CASE ReauthSilentToken(c)
  <2>1. CASE CallNext(c, "retry", "silent") /\ authenticated' = TRUE
    BY <1>2, <2>1, CallNextType DEF ReauthSilentToken
  <2>2. CASE /\ Goto(c, InteractiveStep(MethodOf[Target(c)]))
             /\ UNCHANGED <<authenticated, serveVars>>
    <3>1. MethodOf[Target(c)] \in Methods
      BY DEF Target
    <3>2. InteractiveStep(MethodOf[Target(c)]) \in {"authURL", "elicitURL", "begin"}
      BY <3>1 DEF InteractiveStep, Methods
    <3>3. pc' \in [Calls -> Locations]
      BY <2>2, <3>2 DEF Goto, Locations, Elicitations
    <3>4. QED
      BY <1>2, <2>2, <3>3 DEF ReauthSilentToken
  <2>3. QED
    BY <1>2, <2>1, <2>2 DEF ReauthSilentToken
<1>3. CASE AuthCodeURL(c)
  BY <1>3 DEF AuthCodeURL, Goto, Locations, Elicitations
<1>4. CASE CodeElicited(c)
  <2>1. CASE CallNext(c, "retry", "code") /\ authenticated' = TRUE
             /\ UNCHANGED <<mu, answer>>
    BY <1>4, <2>1, CallNextType DEF CodeElicited
  <2>2. CASE /\ \E a \in {"instructions", "failed", "declined"} : Return(c, a)
             /\ UNCHANGED <<authenticated, serveVars>>
    BY <1>4, <2>2, ReturnType DEF CodeElicited
  <2>3. QED
    BY <1>4, <2>1, <2>2 DEF CodeElicited
<1>5. CASE URLElicited(c)
  BY <1>5 DEF URLElicited, Goto, Locations
<1>6. CASE LinkElicited(c)
  BY <1>6 DEF LinkElicited, Goto, Locations
<1>7. QED
  BY <1>1, <1>2, <1>3, <1>4, <1>5, <1>6

LEMMA WaitType ==
  ASSUME TypeOK, NEW c \in Calls,
         \/ PublishAttempt(c) \/ RaisePendingAuth(c) \/ LaunchFlow(c)
         \/ CodeReceived(c) \/ FlowDone(c) \/ WaitTimesOut(c)
  PROVE  TypeOK'
<1> USE DEF TypeOK, flagVars, flowVars, serveVars, nextVars
<1>1. CASE PublishAttempt(c)
  <2>1. sawFlow' \in [Calls -> BOOLEAN]
    BY <1>1 DEF PublishAttempt
  <2>2. flowAccount' \in [Calls -> Accounts]
    BY <1>1 DEF PublishAttempt, Target
  <2>3. QED
    BY <1>1, <2>1, <2>2 DEF PublishAttempt, Goto, Locations, Phases
<1>2. CASE RaisePendingAuth(c)
  BY <1>2 DEF RaisePendingAuth, Goto, Locations
<1>3. CASE LaunchFlow(c)
  BY <1>3 DEF LaunchFlow, Goto, Locations, Phases
<1>4. CASE CodeReceived(c)
  BY <1>4 DEF CodeReceived, Goto, Locations, Elicitations
<1>5. CASE FlowDone(c)
  BY <1>5, ReturnType, CallNextType DEF FlowDone, Answers, Modes, Grants
<1>6. CASE WaitTimesOut(c)
  BY <1>6, ReturnType DEF WaitTimesOut, Answers
<1>7. QED
  BY <1>1, <1>2, <1>3, <1>4, <1>5, <1>6

LEMMA FlowType ==
  ASSUME TypeOK, NEW c \in Calls, FlowStep(c)
  PROVE  TypeOK'
<1> USE DEF TypeOK, Phases, goVars, flagVars, serveVars, nextVars
<1>1. CASE TakeCredential(c)
  BY <1>1 DEF TakeCredential
<1>2. CASE SendDeviceCode(c)
  BY <1>2 DEF SendDeviceCode
<1>3. CASE AuthenticateReturns(c)
  BY <1>3 DEF AuthenticateReturns
<1>4. CASE MarkAuthenticated(c)
  BY <1>4 DEF MarkAuthenticated
<1>5. CASE EndInteractiveAuth(c)
  BY <1>5 DEF EndInteractiveAuth
<1>6. CASE Finish(c)
  BY <1>6 DEF Finish
<1>7. QED
  BY <1>1, <1>2, <1>3, <1>4, <1>5, <1>6 DEF FlowStep

LEMMA NextType == TypeOK /\ [Next]_vars => TypeOK'
<1> SUFFICES ASSUME TypeOK, [Next]_vars PROVE TypeOK'
  OBVIOUS
<1>1. CASE \E c \in Calls : Arrive(c) \/ CallStep(c) \/ ClientAnswers(c) \/ FlowStep(c)
  BY <1>1, EntryType, HandlerType, ReauthType, WaitType, FlowType
     DEF CallStep, ClientAnswers
<1>2. CASE UNCHANGED vars
  BY <1>2 DEF vars, TypeOK
<1>3. QED
  BY <1>1, <1>2 DEF Next, Quiescent

\* Every variable of the middleware keeps its type, whatever the calls do.
THEOREM TypeCorrect == Spec => []TypeOK
  BY InitType, NextType, PTL DEF Spec

-------------------------------------------------------------------------------
\* Where a step of c leaves the other calls.
OthersStay(c) == \A d \in Calls \ {c} : /\ pc'[d] = pc[d]
                                        /\ mode'[d] = mode[d]
                                        /\ Critical(d)' <=> Critical(d)
                                        /\ NotBegun(d)' <=> NotBegun(d)
                                        /\ Attending(d)' <=> Attending(d)
                                        /\ Deciding(d)' <=> Deciding(d)

LEMMA Others ==
  ASSUME TypeOK, NEW c \in Calls, NEW l, pc' = [pc EXCEPT ![c] = l],
         NEW m, mode' = [mode EXCEPT ![c] = m]
  PROVE  /\ pc'[c] = l /\ mode'[c] = m
         /\ OthersStay(c)
<1>1. \A d \in Calls : d # c => pc'[d] = pc[d] /\ mode'[d] = mode[d]
  BY DEF TypeOK
<1>2. QED
  BY <1>1 DEF TypeOK, OthersStay, Critical, NotBegun, Attending, Deciding, InHandler

\* SingleFlightUnlessStale.  FlightInv is inductive: most steps only move one
\* call to a place where the invariant asks no more of it than before (QuietStep),
\* and the others are taken one at a time.
LEMMA QuietStep ==
  ASSUME TypeOK, FlightInv, NEW c \in Calls,
         NEW l, pc' = [pc EXCEPT ![c] = l],
         NEW m, mode' = [mode EXCEPT ![c] = m],
         UNCHANGED <<pendingAuth, pending, staleSettle, flow, observed>>,
         mu' = mu \/ (mu = c /\ ~Critical(c)'),
         Critical(c)' => Critical(c),
         NotBegun(c)' => NotBegun(c),
         Attending(c)' => Attending(c),
         Deciding(c)' => Deciding(c),
         pc[c] # "raise",
         l \notin {"raise", "launch", "settle"}
  PROVE  FlightInv'
<1> USE DEF FlightInv, OthersStay
<1>1. pc'[c] = l /\ OthersStay(c)
  BY Others
<1>2. MutexInv'
  BY <1>1 DEF MutexInv
<1>3. AttemptInv'
  BY <1>1 DEF AttemptInv
<1>4. ObservedInv'
  BY <1>1 DEF ObservedInv
<1>5. FlagInv'
  BY <1>1 DEF FlagInv, Running
<1>6. QED
  BY <1>2, <1>3, <1>4, <1>5

LEMMA InitFlight == Init => FlightInv
  BY CallsAssumption
     DEF Init, FlightInv, MutexInv, AttemptInv, ObservedInv, FlagInv, Critical,
         NotBegun, Attending, Deciding, InHandler, Running

\* At middleware entry.
LEMMA EntryFlight ==
  ASSUME TypeOK, FlightInv, NEW c \in Calls,
         \/ Arrive(c) \/ LoadPendingAuth(c) \/ OutcomeRunning(c) \/ CheckFresh(c)
         \/ EntrySilentToken(c)
  PROVE  FlightInv'
<1>1. /\ UNCHANGED <<pendingAuth, pending, staleSettle, flow, observed>>
      /\ pc[c] \in {"idle", "entry", "outcome", "fresh", "silent"}
  BY DEF Arrive, LoadPendingAuth, OutcomeRunning, CheckFresh, EntrySilentToken,
         flagVars, flowVars
<1>2. PICK l \in {"entry", "outcome", "fresh", "silent", "lock", "handler", "answered"} :
        pc' = [pc EXCEPT ![c] = l]
  BY DEF Arrive, LoadPendingAuth, OutcomeRunning, CheckFresh, EntrySilentToken,
         Goto, CallNext, Return
<1>3. PICK m : /\ mode' = [mode EXCEPT ![c] = m]
               /\ l = "handler" => m # "retry"
  <2>1. \/ l = "handler" /\ \E m \in {"direct", "inspected"} : mode' = [mode EXCEPT ![c] = m]
        \/ l # "handler" /\ mode' = mode
    BY <1>2 DEF Arrive, LoadPendingAuth, OutcomeRunning, CheckFresh,
           EntrySilentToken, Goto, CallNext, Return, serveVars, TypeOK
  <2>2. mode = [mode EXCEPT ![c] = mode[c]]
    BY DEF TypeOK
  <2>3. QED
    BY <2>1, <2>2
<1>4. pc'[c] = l /\ mode'[c] = m
  BY <1>2, <1>3 DEF TypeOK
<1>5. ~Critical(c)' /\ ~Attending(c)' /\ ~Deciding(c)' /\ NotBegun(c)
  BY <1>1, <1>2, <1>3, <1>4 DEF Critical, Attending, Deciding, NotBegun, InHandler
<1>6. mu' = mu \/ mu = c
  BY DEF Arrive, LoadPendingAuth, OutcomeRunning, CheckFresh, EntrySilentToken, Return
<1>7. QED
  BY <1>1, <1>2, <1>3, <1>5, <1>6, QuietStep

\* The inner handler: an answer, re-authentication, or the credential.
LEMMA HandlerFlight ==
  ASSUME TypeOK, FlightInv, NEW c \in Calls,
         RunVerb(c) \/ RunRecoveryVerb(c) \/ CheckInFlight(c) \/ RecoveryGetToken(c)
  PROVE  FlightInv'
<1>1. ASSUME NEW r, HandlerReturns(c, r), InHandler(c) PROVE FlightInv'
  <2>1. PICK l \in {"lock", "answered"} :
          /\ pc' = [pc EXCEPT ![c] = l]
          /\ l = "lock" => mode[c] = "inspected" /\ mu' = mu
    BY <1>1 DEF HandlerReturns, Goto, Return
  <2>2. /\ mode' = [mode EXCEPT ![c] = mode[c]]
        /\ UNCHANGED <<pendingAuth, pending, staleSettle, flow, observed>>
    BY <1>1 DEF HandlerReturns, serveVars, flagVars, flowVars, TypeOK
  <2>3. pc'[c] = l /\ mode'[c] = mode[c]
    BY <2>1, <2>2 DEF TypeOK
  <2>4. /\ ~Critical(c)' /\ ~Attending(c)' /\ ~Deciding(c)'
        /\ NotBegun(c)' => NotBegun(c)
        /\ pc[c] # "raise"
    BY <1>1, <2>1, <2>3 DEF Critical, Attending, Deciding, NotBegun, InHandler
  <2>5. mu' = mu \/ (mu = c /\ mu' = NoCall)
    BY <1>1 DEF HandlerReturns, Return
  <2>6. mu' = mu \/ (mu = c /\ ~Critical(c)')
    BY <2>4, <2>5
  <2>7. QED
    BY <2>1, <2>2, <2>4, <2>6, QuietStep
<1>2. CASE CheckInFlight(c)
  <2>1. PICK l \in {"credential"} :
          /\ pc' = [pc EXCEPT ![c] = l]
          /\ mode' = [mode EXCEPT ![c] = mode[c]]
          /\ mu' = mu
          /\ UNCHANGED <<pendingAuth, pending, staleSettle, flow, observed>>
          /\ pc[c] = "handler"
    BY <1>2 DEF CheckInFlight, Goto, serveVars, flagVars, flowVars, TypeOK
  <2>2. pc'[c] = l /\ mode'[c] = mode[c]
    BY <2>1 DEF TypeOK
  <2>3. /\ Critical(c)' => Critical(c)
        /\ NotBegun(c)' => NotBegun(c)
        /\ ~Attending(c)' /\ ~Deciding(c)'
        /\ pc[c] # "raise" /\ l \notin {"raise", "launch", "settle"}
    BY <2>1, <2>2 DEF Critical, Attending, Deciding, NotBegun, InHandler
  <2>4. QED
    BY <2>1, <2>3, QuietStep
<1>3. QED
  BY <1>1, <1>2 DEF RunVerb, RunRecoveryVerb, RecoveryGetToken, InHandler

\* Under the mutex, up to the flow's publication, and the waiting after it:
\* the steps that neither raise nor clear the flag.
LEMMA ReauthFlight ==
  ASSUME TypeOK, FlightInv, NEW c \in Calls,
         \/ ReauthSilentToken(c) \/ AuthCodeURL(c) \/ CodeElicited(c) \/ URLElicited(c)
         \/ LinkElicited(c) \/ CodeReceived(c) \/ WaitTimesOut(c)
  PROVE  FlightInv'
<1>1. /\ UNCHANGED <<pendingAuth, pending, staleSettle, flow, observed>>
      /\ Deciding(c) \/ Attending(c)
      /\ pc[c] # "raise"
  BY DEF ReauthSilentToken, AuthCodeURL, CodeElicited, URLElicited, LinkElicited,
         CodeReceived, WaitTimesOut, flagVars, flowVars, Deciding, Attending
<1>2. MethodOf[Target(c)] \in Methods
  BY DEF Target, TypeOK
<1>3. InteractiveStep(MethodOf[Target(c)]) \in {"authURL", "elicitURL", "begin"}
  BY <1>2 DEF InteractiveStep, Methods
<1>4. PICK l : /\ pc' = [pc EXCEPT ![c] = l]
               /\ \/ Deciding(c) /\ l \in {"authURL", "elicitURL", "elicitCode", "begin"}
                  \/ Attending(c) /\ l \in {"awaitAck", "elicitLink"}
                  \/ l = "handler" /\ \E g : CallNext(c, "retry", g)
                  \/ l = "answered"
               /\ l # "handler" => mode' = mode
               /\ l # "answered" => mu' = mu
  BY <1>3 DEF ReauthSilentToken, AuthCodeURL, CodeElicited, URLElicited, LinkElicited,
         CodeReceived, WaitTimesOut, Goto, CallNext, Return, serveVars, Deciding, Attending
<1>5. PICK m : mode' = [mode EXCEPT ![c] = m] /\ (l = "handler" => m = "retry")
  <2>1. mode = [mode EXCEPT ![c] = mode[c]]
    BY DEF TypeOK
  <2>2. QED
    BY <1>4, <2>1 DEF CallNext
<1>6. pc'[c] = l /\ mode'[c] = m
  BY <1>4, <1>5 DEF TypeOK
<1>7. /\ Critical(c)
      /\ NotBegun(c)' => NotBegun(c)
      /\ Attending(c)' => Attending(c)
      /\ Deciding(c)' => Deciding(c)
      /\ l = "answered" => ~Critical(c)'
      /\ l \notin {"raise", "launch", "settle"}
  BY <1>1, <1>4, <1>5, <1>6 DEF Critical, Attending, Deciding, NotBegun, InHandler
<1>8. mu = c
  BY <1>7 DEF FlightInv, MutexInv
<1>9. QED
  BY <1>1, <1>4, <1>5, <1>7, <1>8, QuietStep

\* A finished attempt is observed; only then may it be settled.
LEMMA ObserveFlight ==
  ASSUME TypeOK, FlightInv, NEW c \in Calls, OutcomeFinished(c)
  PROVE  FlightInv'
<1> USE DEF FlightInv, OthersStay
<1>1. /\ pc[c] = "outcome" /\ ~AttemptRunning
      /\ observed' = [observed EXCEPT ![c] = pending]
      /\ pc' = [pc EXCEPT ![c] = "settle"]
      /\ mode' = [mode EXCEPT ![c] = mode[c]]
      /\ UNCHANGED <<mu, pendingAuth, pending, staleSettle, flow>>
  BY DEF OutcomeFinished, Goto, serveVars, flagVars, flowVars, TypeOK
<1>2. pc'[c] = "settle" /\ OthersStay(c)
  BY <1>1, Others
<1>3. /\ ~Critical(c)' /\ ~Attending(c)' /\ ~Deciding(c)'
      /\ NotBegun(c)
  BY <1>1, <1>2 DEF Critical, Attending, Deciding, NotBegun, InHandler
<1>4. MutexInv'
  BY <1>1, <1>2, <1>3 DEF MutexInv
<1>5. AttemptInv'
  BY <1>1, <1>2, <1>3 DEF AttemptInv
<1>6. ObservedInv'
  BY <1>1, <1>2 DEF ObservedInv, AttemptRunning, Running, TypeOK
<1>7. FlagInv'
  BY <1>1, <1>2, <1>3 DEF FlagInv, Running
<1>8. QED
  BY <1>4, <1>5, <1>6, <1>7

\* The blind store: harmless while the observed attempt is the published one,
\* for then nobody runs; otherwise staleSettle records it.
LEMMA SettleFlight ==
  ASSUME TypeOK, FlightInv, NEW c \in Calls, Settle(c)
  PROVE  FlightInv'
<1> USE DEF FlightInv, OthersStay
<1>1. PICK l \in {"fresh", "answered"} :
        /\ pc' = [pc EXCEPT ![c] = l]
        /\ mode' = [mode EXCEPT ![c] = mode[c]]
        /\ pc[c] = "settle"
        /\ staleSettle' = (staleSettle \/ observed[c] # pending)
        /\ UNCHANGED <<pending, flow, observed>>
        /\ mu' = mu \/ mu = c
  BY DEF Settle, Goto, Return, serveVars, flowVars, TypeOK
<1>2. pc'[c] = l /\ OthersStay(c)
  BY <1>1, Others
<1>3. /\ ~Critical(c)' /\ ~Attending(c)' /\ ~Deciding(c)'
      /\ NotBegun(c)
  BY <1>1, <1>2 DEF Critical, Attending, Deciding, NotBegun, InHandler
<1>4. MutexInv'
  BY <1>1, <1>2, <1>3 DEF MutexInv
<1>5. AttemptInv'
  BY <1>1, <1>2, <1>3 DEF AttemptInv
<1>6. ObservedInv'
  BY <1>1, <1>2 DEF ObservedInv
<1>7. FlagInv'
  <2> SUFFICES ASSUME ~staleSettle'
               PROVE  /\ \A d \in Calls : ~Running(d)
                      /\ \A d \in Calls : Running(d)' <=> Running(d)
    BY DEF FlagInv
  <2>1. ~staleSettle /\ observed[c] = pending
    BY <1>1
  <2>2. pending # NoCall => flow[pending] = "done"
    BY <1>1, <2>1 DEF ObservedInv
  <2>3. \A d \in Calls : Running(d) => pending = d
    BY <2>1 DEF FlagInv
  <2>4. \A d \in Calls : ~Running(d)
    BY <2>2, <2>3 DEF Running
  <2>5. QED
    BY <1>1, <2>4 DEF Running
<1>8. QED
  BY <1>4, <1>5, <1>6, <1>7

\* The check under the mutex: with the flag down and the mutex free nobody
\* runs, not even an attempt whose flag is still to be raised.
LEMMA LockFlight ==
  ASSUME TypeOK, FlightInv, NEW c \in Calls, LockMu(c)
  PROVE  FlightInv'
<1> USE DEF FlightInv, OthersStay
<1>1. PICK l \in {"reauth", "answered"} :
        /\ pc' = [pc EXCEPT ![c] = l]
        /\ mode' = [mode EXCEPT ![c] = mode[c]]
        /\ pc[c] = "lock" /\ mu = NoCall
        /\ l = "reauth" => ~pendingAuth /\ mu' = c
        /\ UNCHANGED <<pendingAuth, pending, staleSettle, flow, observed>>
  BY DEF LockMu, Goto, serveVars, flagVars, flowVars, TypeOK
<1>2. pc'[c] = l /\ OthersStay(c)
  BY <1>1, Others
<1>3. /\ Critical(c)' => l = "reauth"
      /\ ~Attending(c)'
      /\ Deciding(c)' => l = "reauth"
      /\ NotBegun(c)
  BY <1>1, <1>2 DEF Critical, Attending, Deciding, NotBegun, InHandler
<1>4. \A d \in Calls : ~Critical(d)
  BY <1>1 DEF MutexInv
<1>5. MutexInv'
  BY <1>1, <1>2, <1>3, <1>4 DEF MutexInv
<1>6. AttemptInv'
  BY <1>1, <1>2, <1>3 DEF AttemptInv
<1>7. ObservedInv'
  BY <1>1, <1>2 DEF ObservedInv
<1>8. FlagInv'
  <2>1. \A d \in Calls : pc[d] # "raise"
    BY <1>4 DEF Critical, Attending
  <2>2. l = "reauth" /\ ~staleSettle => \A d \in Calls : ~Running(d)
    BY <1>1, <2>1 DEF FlagInv
  <2>3. QED
    BY <1>1, <1>2, <1>3, <2>1, <2>2 DEF FlagInv, Running
<1>9. QED
  BY <1>5, <1>6, <1>7, <1>8

\* begin(), between the decision and the launch.
LEMMA PublishFlight ==
  ASSUME TypeOK, FlightInv, NEW c \in Calls, PublishAttempt(c)
  PROVE  FlightInv'
<1> USE DEF FlightInv, OthersStay
<1>1. PICK l \in {"raise"} :
        /\ pc' = [pc EXCEPT ![c] = l]
        /\ mode' = [mode EXCEPT ![c] = mode[c]]
        /\ pc[c] = "begin"
        /\ pending' = c
        /\ flow' = [flow EXCEPT ![c] = "created"]
        /\ UNCHANGED <<mu, pendingAuth, staleSettle, observed>>
  BY DEF PublishAttempt, Goto, serveVars, TypeOK
<1>2. pc'[c] = l /\ OthersStay(c)
  BY <1>1, Others
<1>3. flow'[c] = "created" /\ \A d \in Calls \ {c} : flow'[d] = flow[d]
  BY <1>1 DEF TypeOK
<1>4. /\ Critical(c) /\ Deciding(c) /\ NotBegun(c)
      /\ Critical(c)' /\ Attending(c)' /\ ~Deciding(c)' /\ ~NotBegun(c)'
  BY <1>1, <1>2 DEF Critical, Attending, Deciding, NotBegun, InHandler
<1>5. mu = c /\ \A d \in Calls \ {c} : ~Critical(d)
  BY <1>4 DEF MutexInv
<1>6. \A d \in Calls \ {c} : ~Attending(d) /\ ~Deciding(d)
  BY <1>5 DEF Critical
<1>7. MutexInv'
  BY <1>1, <1>2, <1>5 DEF MutexInv
<1>8. AttemptInv'
  BY <1>1, <1>2, <1>3, <1>4, <1>6 DEF AttemptInv
<1>9. ObservedInv'
  <2>1. flow[c] = "none"
    BY <1>4 DEF AttemptInv
  <2>2. QED
    BY <1>1, <1>2, <1>3, <2>1 DEF ObservedInv
<1>10. FlagInv'
  BY <1>1, <1>2, <1>3, <1>4, <1>6 DEF FlagInv, Running
<1>11. QED
  BY <1>7, <1>8, <1>9, <1>10

\* The flag is raised while its own attempt is the published one.
LEMMA RaiseFlight ==
  ASSUME TypeOK, FlightInv, NEW c \in Calls, RaisePendingAuth(c)
  PROVE  FlightInv'
<1> USE DEF FlightInv, OthersStay
<1>1. PICK l \in {"launch"} :
        /\ pc' = [pc EXCEPT ![c] = l]
        /\ mode' = [mode EXCEPT ![c] = mode[c]]
        /\ pc[c] = "raise"
        /\ pendingAuth'
        /\ UNCHANGED <<mu, pending, flow, staleSettle, observed>>
  BY DEF RaisePendingAuth, Goto, serveVars, flowVars, TypeOK
<1>2. pc'[c] = l /\ OthersStay(c)
  BY <1>1, Others
<1>3. /\ Critical(c) /\ Attending(c)
      /\ Critical(c)' /\ Attending(c)' /\ ~Deciding(c)' /\ ~NotBegun(c)'
  BY <1>1, <1>2 DEF Critical, Attending, Deciding, NotBegun, InHandler
<1>4. MutexInv'
  BY <1>1, <1>2, <1>3 DEF MutexInv
<1>5. AttemptInv'
  BY <1>1, <1>2, <1>3 DEF AttemptInv
<1>6. ObservedInv'
  BY <1>1, <1>2 DEF ObservedInv
<1>7. FlagInv'
  BY <1>1, <1>2, <1>3 DEF FlagInv, Running
<1>8. QED
  BY <1>4, <1>5, <1>6, <1>7

LEMMA LaunchFlight ==
  ASSUME TypeOK, FlightInv, NEW c \in Calls, LaunchFlow(c)
  PROVE  FlightInv'
<1> USE DEF FlightInv, OthersStay
<1>1. PICK l \in {"awaitCode", "awaitFlow"} :
        /\ pc' = [pc EXCEPT ![c] = l]
        /\ mode' = [mode EXCEPT ![c] = mode[c]]
        /\ pc[c] = "launch"
        /\ flow' = [flow EXCEPT ![c] = "queued"]
        /\ UNCHANGED <<mu, pendingAuth, pending, staleSettle, observed>>
  BY DEF LaunchFlow, Goto, serveVars, flagVars, TypeOK
<1>2. pc'[c] = l /\ OthersStay(c)
  BY <1>1, Others
<1>3. flow'[c] = "queued" /\ \A d \in Calls \ {c} : flow'[d] = flow[d]
  BY <1>1 DEF TypeOK
<1>4. /\ Critical(c) /\ Attending(c)
      /\ Critical(c)' /\ Attending(c)' /\ ~Deciding(c)' /\ ~NotBegun(c)'
  BY <1>1, <1>2 DEF Critical, Attending, Deciding, NotBegun, InHandler
<1>5. flow[c] = "created"
  BY <1>1 DEF AttemptInv
<1>6. \A d \in Calls : Running(d)' <=> Running(d)
  BY <1>3, <1>5 DEF Running
<1>7. MutexInv'
  BY <1>1, <1>2, <1>4 DEF MutexInv
<1>8. AttemptInv'
  BY <1>1, <1>2, <1>3, <1>4 DEF AttemptInv
<1>9. ObservedInv'
  BY <1>1, <1>2, <1>3, <1>5 DEF ObservedInv, TypeOK
<1>10. FlagInv'
  BY <1>1, <1>2, <1>4, <1>6 DEF FlagInv
<1>11. QED
  BY <1>7, <1>8, <1>9, <1>10

\* The waiting caller clears the flag of its own attempt, which is done and
\* still the published one: the caller has held the mutex since it began.
LEMMA DoneFlight ==
  ASSUME TypeOK, FlightInv, NEW c \in Calls, FlowDone(c)
  PROVE  FlightInv'
<1> USE DEF FlightInv, OthersStay
<1>1. /\ pc[c] \in {"awaitCode", "awaitFlow", "awaitAck"}
      /\ flow[c] = "done"
      /\ UNCHANGED <<pending, staleSettle, flow, observed>>
  BY DEF FlowDone, flowVars
<1>2. PICK l \in {"handler", "answered"}, m \in Modes :
        /\ pc' = [pc EXCEPT ![c] = l]
        /\ mode' = [mode EXCEPT ![c] = m]
        /\ l = "handler" => m = "retry" /\ mu' = mu
        /\ mu' = mu \/ mu = c
  <2>1. CASE flowOk[c]
    BY <2>1 DEF FlowDone, CallNext, Goto, Modes
  <2>2. CASE ~flowOk[c]
    <3>1. mode' = [mode EXCEPT ![c] = mode[c]] /\ mode[c] \in Modes
      BY <2>2 DEF FlowDone, serveVars, TypeOK
    <3>2. QED
      BY <2>2, <3>1 DEF FlowDone, Return, Goto
  <2>3. QED
    BY <2>1, <2>2
<1>3. pc'[c] = l /\ mode'[c] = m /\ OthersStay(c)
  BY <1>2, Others
<1>4. /\ Critical(c) /\ Attending(c)
      /\ Critical(c)' => l = "handler"
      /\ ~Attending(c)' /\ ~Deciding(c)' /\ ~NotBegun(c)'
  BY <1>1, <1>2, <1>3 DEF Critical, Attending, Deciding, NotBegun, InHandler
<1>5. pending = c /\ mu = c
  BY <1>4 DEF AttemptInv, MutexInv
<1>6. ~staleSettle => \A d \in Calls : ~Running(d)
  BY <1>1, <1>5 DEF FlagInv, Running
<1>7. MutexInv'
  BY <1>2, <1>3, <1>4, <1>5 DEF MutexInv
<1>8. AttemptInv'
  BY <1>1, <1>2, <1>3, <1>4 DEF AttemptInv
<1>9. ObservedInv'
  BY <1>1, <1>2, <1>3 DEF ObservedInv
<1>10. FlagInv'
  BY <1>1, <1>2, <1>3, <1>4, <1>6 DEF FlagInv, Running
<1>11. QED
  BY <1>7, <1>8, <1>9, <1>10

\* The goroutine only moves its own attempt on, from running to done.
LEMMA GoroutineFlight ==
  ASSUME TypeOK, FlightInv, NEW c \in Calls, FlowStep(c)
  PROVE  FlightInv'
<1> USE DEF FlightInv
<1>1. /\ flow[c] \notin {"none", "created", "done"}
      /\ UNCHANGED <<mu, pendingAuth, pending, staleSettle, pc, mode, observed>>
  BY DEF FlowStep, TakeCredential, SendDeviceCode, AuthenticateReturns, MarkAuthenticated,
         EndInteractiveAuth, Finish, goVars, flagVars, serveVars
<1>2. PICK f \in Phases \ {"none", "created"} : flow' = [flow EXCEPT ![c] = f]
  <2>1. flow = [flow EXCEPT ![c] = flow[c]] /\ flow[c] \in Phases
    BY DEF TypeOK
  <2>2. QED
    BY <1>1, <2>1
       DEF FlowStep, TakeCredential, SendDeviceCode, AuthenticateReturns,
           MarkAuthenticated, EndInteractiveAuth, Finish, Phases
<1>3. flow'[c] = f /\ \A d \in Calls \ {c} : flow'[d] = flow[d]
  BY <1>2 DEF TypeOK
<1>4. \A d \in Calls : /\ Critical(d)' <=> Critical(d)
                       /\ NotBegun(d)' <=> NotBegun(d)
                       /\ Attending(d)' <=> Attending(d)
                       /\ Deciding(d)' <=> Deciding(d)
                       /\ Running(d)' => Running(d)
  BY <1>1, <1>3 DEF Critical, NotBegun, Attending, Deciding, InHandler, Running
<1>5. ~NotBegun(c) /\ pc[c] \notin {"raise", "launch"}
  BY <1>1 DEF AttemptInv
<1>6. MutexInv'
  BY <1>1, <1>4 DEF MutexInv
<1>7. AttemptInv'
  BY <1>1, <1>3, <1>4, <1>5 DEF AttemptInv
<1>8. ObservedInv'
  BY <1>1, <1>2, <1>3 DEF ObservedInv, TypeOK
<1>9. FlagInv'
  BY <1>1, <1>4 DEF FlagInv
<1>10. QED
  BY <1>6, <1>7, <1>8, <1>9

LEMMA NextFlight == TypeOK /\ FlightInv /\ [Next]_vars => FlightInv'
<1> SUFFICES ASSUME TypeOK, FlightInv, [Next]_vars PROVE FlightInv'
  OBVIOUS
<1>1. ASSUME NEW c \in Calls, Arrive(c) \/ CallStep(c) \/ ClientAnswers(c)
      PROVE  FlightInv'
  BY <1>1, EntryFlight, ObserveFlight, SettleFlight, HandlerFlight, LockFlight, ReauthFlight,
     PublishFlight, RaiseFlight, LaunchFlight, DoneFlight
     DEF CallStep, ClientAnswers
<1>2. ASSUME NEW c \in Calls, FlowStep(c) PROVE FlightInv'
  BY <1>2, GoroutineFlight
<1>3. CASE UNCHANGED vars
  BY <1>3 DEF vars, FlightInv, MutexInv, AttemptInv, ObservedInv, FlagInv, Critical,
              NotBegun, Attending, Deciding, InHandler, Running
<1>4. QED
  BY <1>1, <1>2, <1>3 DEF Next, Quiescent

LEMMA FlightIsSingle == FlightInv => SingleFlightUnlessStale
  BY DEF FlightInv, FlagInv, SingleFlightUnlessStale, SingleFlight

\* However many calls and accounts there are, two sign-ins never run at once
\* unless a settle() has cleared the flag of an attempt newer than the one it
\* observed.
THEOREM OneFlightAtATime == Spec => []SingleFlightUnlessStale
<1>1. Init => TypeOK /\ FlightInv
  BY InitType, InitFlight
<1>2. TypeOK /\ FlightInv /\ [Next]_vars => (TypeOK /\ FlightInv)'
  BY NextType, NextFlight
<1>3. QED
  BY <1>1, <1>2, FlightIsSingle, PTL DEF Spec
===============================================================================
