-------------------------- MODULE AuthPromisesProofs --------------------------
(***************************************************************************)
(* What AuthMiddleware promises to each call, for every set of calls and   *)
(* accounts: the counter, earned authentication, truthful waits, retries   *)
(* that hold a token, sign-ins for the account that failed, and the safety *)
(* part of ToolCallContract.                                               *)
(***************************************************************************)
EXTENDS AuthMiddlewareProofs, FiniteSetTheorems

USE CallsAssumption, AccountsAssumption

-------------------------------------------------------------------------------
\* A step of call c, or of the goroutine it started, leaves the local state
\* of every other call alone.
Untouched(d) ==
  /\ pc'[d] = pc[d] /\ mode'[d] = mode[d] /\ slot'[d] = slot[d]
  /\ observed'[d] = observed[d] /\ runs'[d] = runs[d]
  /\ result'[d] = result[d] /\ grant'[d] = grant[d] /\ answer'[d] = answer[d]
  /\ flow'[d] = flow[d] /\ flowAccount'[d] = flowAccount[d] /\ flowOk'[d] = flowOk[d]

ActionOf(c) == Arrive(c) \/ CallStep(c) \/ ClientAnswers(c) \/ FlowStep(c)

LEMMA Frame ==
  ASSUME TypeOK, NEW c \in Calls, ActionOf(c), NEW d \in Calls, d # c
  PROVE  Untouched(d)
<1> USE DEF TypeOK, Untouched, flagVars, flowVars, serveVars, nextVars, Goto,
            CallNext, Return
<1>1. CASE \/ Arrive(c) \/ LoadPendingAuth(c) \/ OutcomeRunning(c)
           \/ OutcomeFinished(c) \/ Settle(c) \/ CheckFresh(c)
           \/ EntrySilentToken(c)
  BY <1>1 DEF Arrive, LoadPendingAuth, OutcomeRunning, OutcomeFinished, Settle,
              CheckFresh, EntrySilentToken
<1>2. CASE \/ RunVerb(c) \/ RunRecoveryVerb(c) \/ CheckInFlight(c)
           \/ RecoveryGetToken(c)
  BY <1>2 DEF RunVerb, RunRecoveryVerb, CheckInFlight, RecoveryGetToken, HandlerReturns
<1>3. CASE \/ LockMu(c) \/ ReauthSilentToken(c) \/ AuthCodeURL(c) \/ CodeElicited(c)
           \/ URLElicited(c) \/ LinkElicited(c)
  BY <1>3 DEF LockMu, ReauthSilentToken, AuthCodeURL, CodeElicited, URLElicited,
              LinkElicited
<1>4. CASE \/ PublishAttempt(c) \/ RaisePendingAuth(c) \/ LaunchFlow(c)
           \/ CodeReceived(c) \/ FlowDone(c) \/ WaitTimesOut(c)
  BY <1>4 DEF PublishAttempt, RaisePendingAuth, LaunchFlow, CodeReceived, FlowDone,
              WaitTimesOut
<1>5. CASE FlowStep(c)
  BY <1>5 DEF FlowStep, TakeCredential, SendDeviceCode, AuthenticateReturns,
              MarkAuthenticated, EndInteractiveAuth, Finish, goVars
<1>6. QED
  BY <1>1, <1>2, <1>3, <1>4, <1>5 DEF ActionOf, CallStep, ClientAnswers

-------------------------------------------------------------------------------
\* ServedInv.  Only a step of c itself, or of its goroutine, disturbs what the
\* invariant says of c alone.
LEMMA EntryService ==
  ASSUME TypeOK, FlightInv, ServedInv, NEW c \in Calls,
         \/ Arrive(c) \/ LoadPendingAuth(c) \/ OutcomeRunning(c)
         \/ OutcomeFinished(c) \/ Settle(c) \/ CheckFresh(c)
         \/ EntrySilentToken(c)
  PROVE  Serviced(c)' /\ SlotFilled(c)'
<1>1. AtEntry(c) /\ runs'[c] = 0
  BY DEF Arrive, LoadPendingAuth, OutcomeRunning, OutcomeFinished, Settle, CheckFresh,
         EntrySilentToken, AtEntry, ServedInv, ServiceInv, Serviced, nextVars
<1>2. pc'[c] \in {"entry", "outcome", "settle", "fresh", "silent", "handler", "lock", "answered"}
  BY DEF Arrive, LoadPendingAuth, OutcomeRunning, OutcomeFinished, Settle, CheckFresh,
         EntrySilentToken, Goto, CallNext, Return, TypeOK
<1>3. pc'[c] = "handler" => mode'[c] \in {"direct", "inspected"}
  BY DEF Arrive, LoadPendingAuth, OutcomeRunning, OutcomeFinished, Settle, CheckFresh,
         EntrySilentToken, Goto, CallNext, Return, TypeOK
<1>4. AtEntry(c)' => grant'[c] = "none"
  <2>1. AtEntry(c)' => grant' = grant
    BY DEF Arrive, LoadPendingAuth, OutcomeRunning, OutcomeFinished, Settle, CheckFresh,
           EntrySilentToken, AtEntry, Goto, CallNext, Return, TypeOK, serveVars
  <2>2. QED
    BY <1>1, <2>1 DEF ServedInv, ServiceInv, Serviced
<1>5. QED
  BY <1>1, <1>2, <1>3, <1>4 DEF Serviced, SlotFilled, InHandler, AtEntry

LEMMA HandlerService ==
  ASSUME TypeOK, FlightInv, ServedInv, NEW c \in Calls,
         RunVerb(c) \/ RunRecoveryVerb(c) \/ CheckInFlight(c) \/ RecoveryGetToken(c)
  PROVE  Serviced(c)' /\ SlotFilled(c)'
<1> USE DEF ServedInv, ServiceInv, SlotFilled
<1>1. InHandler(c) /\ Serviced(c) /\ SlotFilled(c)
  BY DEF RunVerb, RunRecoveryVerb, CheckInFlight, RecoveryGetToken, InHandler
<1>2. HasToken(c)' <=> HasToken(c)
  BY DEF RunVerb, RunRecoveryVerb, CheckInFlight, RecoveryGetToken, HandlerReturns,
         HasToken, serveVars, flowVars
<1>3. CASE CheckInFlight(c)
  BY <1>1, <1>2, <1>3
     DEF CheckInFlight, IsRecoveryOperation, Goto, Serviced, InHandler, AtEntry,
         TypeOK, serveVars, nextVars
<1>4. ASSUME NEW r \in Results, HandlerReturns(c, r)
      PROVE  /\ Serviced(c)'
             /\ pc'[c] \in {"lock", "answered"}
             /\ pc'[c] = "lock" => r = "auth"
  BY <1>1, <1>2, <1>4
     DEF HandlerReturns, IsAuthRelated, Return, Goto, Serviced, InHandler, AtEntry,
         TypeOK, serveVars
<1>5. CASE RunVerb(c) \/ RunRecoveryVerb(c) \/ RecoveryGetToken(c)
  <2>1. PICK r \in Results : /\ HandlerReturns(c, r)
                             /\ \/ r # "auth"
                                \/ c \in RecoveryCalls
                                \/ slot' = [slot EXCEPT ![c] = AccountOf[c]]
    BY <1>1, <1>5 DEF RunVerb, RunRecoveryVerb, RecoveryGetToken, IsRecoveryOperation,
                      Results
  <2>2. Serviced(c)' /\ pc'[c] \in {"lock", "answered"} /\ (pc'[c] = "lock" => r = "auth")
    BY <1>4, <2>1
  <2>3. SlotFilled(c)'
    BY <2>1, <2>2 DEF TypeOK
  <2>4. QED
    BY <2>2, <2>3
<1>6. QED
  BY <1>3, <1>5

\* Between the mutex and the answer the handler has run at most once, and it
\* runs again only with a token.
LEMMA ReauthService ==
  ASSUME TypeOK, FlightInv, ServedInv, NEW c \in Calls,
         \/ LockMu(c) \/ ReauthSilentToken(c) \/ AuthCodeURL(c) \/ CodeElicited(c)
         \/ URLElicited(c) \/ LinkElicited(c) \/ PublishAttempt(c)
         \/ RaisePendingAuth(c) \/ LaunchFlow(c) \/ CodeReceived(c) \/ FlowDone(c)
         \/ WaitTimesOut(c)
  PROVE  Serviced(c)' /\ SlotFilled(c)'
<1> USE DEF ServedInv, ServiceInv
<1>1. /\ pc[c] = "lock" \/ Deciding(c) \/ Attending(c)
      /\ UNCHANGED <<runs, result, slot, flowOk>>
  BY DEF LockMu, ReauthSilentToken, AuthCodeURL, CodeElicited, URLElicited, LinkElicited,
         PublishAttempt, RaisePendingAuth, LaunchFlow, CodeReceived, FlowDone,
         WaitTimesOut, Deciding, Attending, nextVars, flowVars
<1>2. /\ runs[c] = 0 \/ (runs[c] = 1 /\ result[c] = "auth")
      /\ c \notin RecoveryCalls /\ runs[c] > 0 => slot[c] = AccountOf[c]
  BY <1>1 DEF Serviced, SlotFilled, Deciding, Attending
<1>3. \/ pc'[c] \in {"answered", "reauth", "elicitCode", "begin", "awaitAck", "raise",
                     "launch", "awaitCode", "awaitFlow", "elicitLink"}
      \/ pc'[c] = InteractiveStep(MethodOf[Target(c)])
      \/ pc'[c] = "handler" /\ mode'[c] = "retry" /\ HasToken(c)'
  <2>1. CASE ReauthSilentToken(c) \/ CodeElicited(c) \/ FlowDone(c)
    <3>1. \/ \E g \in Grants : /\ CallNext(c, "retry", g)
                               /\ g \in {"silent", "code"} \/ (g = "flow" /\ flowOk[c])
          \/ Goto(c, InteractiveStep(MethodOf[Target(c)]))
          \/ \E a : Return(c, a)
      BY <2>1 DEF ReauthSilentToken, CodeElicited, FlowDone, Grants
    <3>2. CASE Goto(c, InteractiveStep(MethodOf[Target(c)]))
      BY <3>2 DEF Goto, TypeOK
    <3>3. CASE \E a : Return(c, a)
      BY <3>3 DEF Goto, Return, TypeOK
    <3>4. CASE \E g \in Grants : /\ CallNext(c, "retry", g)
                                 /\ g \in {"silent", "code"} \/ (g = "flow" /\ flowOk[c])
      <4>1. PICK g \in Grants : /\ CallNext(c, "retry", g)
                                /\ g \in {"silent", "code"} \/ (g = "flow" /\ flowOk[c])
        BY <3>4
      <4>2. pc'[c] = "handler" /\ mode'[c] = "retry" /\ grant'[c] = g
        BY <4>1 DEF CallNext, Goto, TypeOK
      <4>3. flowOk'[c] = flowOk[c]
        BY <1>1
      <4>4. HasToken(c)'
        BY <4>1, <4>2, <4>3 DEF HasToken
      <4>5. QED
        BY <4>2, <4>4
    <3>5. QED
      BY <3>1, <3>2, <3>3, <3>4
  <2>2. CASE ~(ReauthSilentToken(c) \/ CodeElicited(c) \/ FlowDone(c))
    BY <2>2 DEF LockMu, AuthCodeURL, URLElicited, LinkElicited, PublishAttempt,
                RaisePendingAuth, LaunchFlow, CodeReceived, WaitTimesOut, Goto,
                Return, TypeOK
  <2>3. QED
    BY <2>1, <2>2
<1>4. InteractiveStep(MethodOf[Target(c)]) \in {"authURL", "elicitURL", "begin"}
  <2>1. MethodOf[Target(c)] \in Methods
    BY DEF Target, TypeOK
  <2>2. QED
    BY <2>1 DEF InteractiveStep, Methods
<1>5. ~AtEntry(c)' /\ pc'[c] # "credential"
  BY <1>3, <1>4 DEF AtEntry
<1>6. Serviced(c)'
  BY <1>1, <1>2, <1>3, <1>4, <1>5 DEF Serviced, InHandler
<1>7. SlotFilled(c)'
  BY <1>1, <1>2, <1>5 DEF SlotFilled
<1>8. QED
  BY <1>6, <1>7

\* The goroutine reports its outcome once, before anybody can have used it.
LEMMA GoroutineService ==
  ASSUME TypeOK, FlightInv, ServedInv, NEW c \in Calls, FlowStep(c)
  PROVE  Serviced(c)' /\ SlotFilled(c)' /\ (HasToken(c) => HasToken(c)')
<1> USE DEF ServedInv, ServiceInv
<1>1. UNCHANGED <<pc, mode, runs, result, slot, grant>>
  BY DEF FlowStep, TakeCredential, SendDeviceCode, AuthenticateReturns, MarkAuthenticated,
         EndInteractiveAuth, Finish, goVars, serveVars, nextVars
<1>2. flowOk[c] => flowOk'[c]
  BY DEF FlowStep, TakeCredential, SendDeviceCode, AuthenticateReturns, MarkAuthenticated,
         EndInteractiveAuth, Finish, OutcomeInv
<1>3. HasToken(c) => HasToken(c)'
  BY <1>1, <1>2 DEF HasToken
<1>4. Serviced(c)'
  BY <1>1, <1>3 DEF Serviced, AtEntry, InHandler
<1>5. SlotFilled(c)'
  BY <1>1 DEF SlotFilled
<1>6. QED
  BY <1>3, <1>4, <1>5

LEMMA NextService ==
  ASSUME TypeOK, FlightInv, ServedInv, NEW c \in Calls, ActionOf(c)
  PROVE  ServiceInv'
<1> SUFFICES ASSUME NEW d \in Calls PROVE Serviced(d)' /\ SlotFilled(d)'
  BY DEF ServiceInv
<1>1. CASE d = c
  BY <1>1, EntryService, HandlerService, ReauthService, GoroutineService
     DEF ActionOf, CallStep, ClientAnswers
<1>2. CASE d # c
  <2>1. Untouched(d)
    BY <1>2, Frame
  <2>2. Serviced(d) /\ SlotFilled(d)
    BY DEF ServedInv, ServiceInv
  <2>3. QED
    BY <2>1, <2>2 DEF Untouched, Serviced, SlotFilled, AtEntry, InHandler, HasToken
<1>3. QED
  BY <1>1, <1>2

LEMMA NextOutcome ==
  ASSUME TypeOK, FlightInv, ServedInv, NEW c \in Calls, ActionOf(c)
  PROVE  OutcomeInv'
<1> SUFFICES ASSUME NEW d \in Calls, flowOk'[d]
             PROVE  flow'[d] \in {"returned", "marked", "ended", "done"}
  BY DEF OutcomeInv
<1> DEFINE Over == {"returned", "marked", "ended", "done"}
<1>1. flowOk[d] => flow[d] \in Over
  BY DEF ServedInv, OutcomeInv
<1>2. CASE d # c
  BY <1>1, <1>2, Frame DEF Untouched
<1>3. CASE d = c
  <2>1. CASE FlowStep(c)
    BY <1>1, <1>3, <2>1
       DEF FlowStep, TakeCredential, SendDeviceCode, AuthenticateReturns,
           MarkAuthenticated, EndInteractiveAuth, Finish, TypeOK
  <2>2. CASE PublishAttempt(c) \/ LaunchFlow(c)
    <3>1. flow[c] \in {"none", "created"}
      BY <2>2 DEF FlightInv, AttemptInv, NotBegun, Deciding, PublishAttempt, LaunchFlow
    <3>2. UNCHANGED flowOk
      BY <2>2 DEF PublishAttempt, LaunchFlow
    <3>3. QED
      BY <1>1, <1>3, <3>1, <3>2
  <2>3. CASE UNCHANGED <<flow, flowOk>>
    BY <1>1, <1>3, <2>3
  <2>4. QED
    BY <2>1, <2>2, <2>3
       DEF ActionOf, Arrive, CallStep, ClientAnswers, LoadPendingAuth, OutcomeRunning,
           OutcomeFinished, Settle, CheckFresh, EntrySilentToken, RunVerb,
           RunRecoveryVerb, CheckInFlight, RecoveryGetToken, HandlerReturns, LockMu,
           ReauthSilentToken, AuthCodeURL, CodeElicited, URLElicited, LinkElicited,
           RaisePendingAuth, CodeReceived, FlowDone, WaitTimesOut, flowVars
<1>4. QED
  BY <1>2, <1>3

\* Every action but the named ones leaves the published attempt, the flag and
\* the history of attempts alone.
LEMMA Shared ==
  ASSUME TypeOK, FlightInv, NEW c \in Calls, ActionOf(c)
  PROVE  /\ pending' = pending \/ PublishAttempt(c)
         /\ pendingAuth' => pendingAuth \/ RaisePendingAuth(c)
         /\ sawFlow' = sawFlow \/ Arrive(c) \/ PublishAttempt(c)
         /\ flow' = flow \/ PublishAttempt(c) \/ LaunchFlow(c) \/ FlowStep(c)
         /\ pc'[c] = "outcome" => pc[c] = "entry" /\ pendingAuth
         /\ pc'[c] = "settle" => pc[c] = "outcome" /\ observed'[c] = pending
         /\ pc[c] = "idle" => Arrive(c)
         /\ pc[c] \in {"entry", "outcome", "settle"} =>
              LoadPendingAuth(c) \/ OutcomeRunning(c) \/ OutcomeFinished(c) \/ Settle(c)
         /\ pc[c] = "answered" => FlowStep(c)
         /\ FlowStep(c) => pc' = pc
         /\ answer' = answer \/ pc'[c] = "answered"
<1> USE DEF TypeOK, flagVars, flowVars, serveVars, nextVars, Goto, CallNext, Return
<1>0. FlowStep(c) => pc' = pc
  BY DEF FlowStep, TakeCredential, SendDeviceCode, AuthenticateReturns,
         MarkAuthenticated, EndInteractiveAuth, Finish, goVars
<1>1. CASE \/ Arrive(c) \/ LoadPendingAuth(c) \/ OutcomeRunning(c)
           \/ OutcomeFinished(c) \/ Settle(c) \/ CheckFresh(c)
           \/ EntrySilentToken(c)
  BY <1>0, <1>1 DEF Arrive, LoadPendingAuth, OutcomeRunning, OutcomeFinished, Settle,
              CheckFresh, EntrySilentToken
<1>2. CASE \/ RunVerb(c) \/ RunRecoveryVerb(c) \/ CheckInFlight(c)
           \/ RecoveryGetToken(c)
  BY <1>0, <1>2 DEF RunVerb, RunRecoveryVerb, CheckInFlight, RecoveryGetToken, HandlerReturns
<1>3. CASE \/ LockMu(c) \/ ReauthSilentToken(c) \/ AuthCodeURL(c) \/ CodeElicited(c)
           \/ URLElicited(c) \/ LinkElicited(c)
  <2>1. MethodOf[Target(c)] \in Methods
    BY DEF Target
  <2>2. InteractiveStep(MethodOf[Target(c)]) \notin {"outcome", "settle"}
    BY <2>1 DEF InteractiveStep, Methods
  <2>3. QED
    BY <1>0, <1>3, <2>2 DEF LockMu, ReauthSilentToken, AuthCodeURL, CodeElicited,
                      URLElicited, LinkElicited
<1>4. CASE \/ PublishAttempt(c) \/ RaisePendingAuth(c) \/ LaunchFlow(c)
           \/ CodeReceived(c) \/ FlowDone(c) \/ WaitTimesOut(c)
  BY <1>0, <1>4 DEF PublishAttempt, RaisePendingAuth, LaunchFlow, CodeReceived, FlowDone,
              WaitTimesOut
<1>5. CASE FlowStep(c)
  <2>1. flow[c] # "none" /\ UNCHANGED <<pending, pendingAuth, sawFlow, pc, answer>>
    BY <1>5 DEF FlowStep, TakeCredential, SendDeviceCode, AuthenticateReturns,
                MarkAuthenticated, EndInteractiveAuth, Finish, goVars
  <2>2. pc[c] \notin {"idle", "entry", "outcome", "settle"}
    BY <2>1 DEF FlightInv, AttemptInv, NotBegun
  <2>3. QED
    BY <1>5, <2>1, <2>2
<1>6. QED
  BY <1>1, <1>2, <1>3, <1>4, <1>5 DEF ActionOf, CallStep, ClientAnswers

LEMMA NextPublished ==
  ASSUME TypeOK, FlightInv, ServedInv, NEW c \in Calls, ActionOf(c)
  PROVE  PublishedInv'
<1>1. PublishedInv
  BY DEF ServedInv
<1>2. pending' = pending \/ pending' = c
  BY Shared DEF PublishAttempt
<1>3. pendingAuth' => pending' # NoCall
  <2>1. CASE RaisePendingAuth(c)
    BY <2>1 DEF RaisePendingAuth, FlightInv, AttemptInv, Attending
  <2>2. CASE pendingAuth
    BY <1>1, <1>2, <2>2 DEF PublishedInv
  <2>3. QED
    BY <2>1, <2>2, Shared
<1>4. ASSUME NEW d \in Calls
      PROVE  /\ pc'[d] = "outcome" => pending' # NoCall
             /\ pc'[d] = "settle" => observed'[d] # NoCall
  <2>1. CASE d = c
    BY <1>1, <1>2, <2>1, Shared DEF PublishedInv
  <2>2. CASE d # c
    BY <1>1, <1>2, <2>2, Frame DEF PublishedInv, Untouched
  <2>3. QED
    BY <2>1, <2>2
<1>5. QED
  BY <1>3, <1>4 DEF PublishedInv

\* A call is open while it is neither to come nor answered.
LEMMA NextSaw ==
  ASSUME TypeOK, FlightInv, ServedInv, NEW c \in Calls, ActionOf(c)
  PROVE  SawInv'
<1> DEFINE Open(d) == pc[d] \notin {"idle", "answered"}
           Past(d) == pc[d] \notin {"idle", "entry", "outcome", "settle", "answered"}
<1>1. SawInv
  BY DEF ServedInv
<1>2. ASSUME NEW d \in Calls, Open(d)', \E e \in Calls : Running(e)'
      PROVE  sawFlow'[d]
  <2>1. CASE Arrive(c)
    <3>1. \E e \in Calls : Running(e)
      BY <1>2, <2>1 DEF Arrive, flowVars, Running
    <3>2. d # c => Open(d)
      BY <1>2, Frame DEF Untouched
    <3>3. QED
      BY <1>1, <2>1, <3>1, <3>2 DEF Arrive, SawInv, TypeOK
  <2>2. CASE PublishAttempt(c)
    <3>1. Open(d)
      BY <1>2, <2>2, Frame DEF Untouched, PublishAttempt
    <3>2. QED
      BY <2>2, <3>1 DEF PublishAttempt
  <2>3. CASE ~Arrive(c) /\ ~PublishAttempt(c)
    <3>1. \E e \in Calls : Running(e)
      <4>1. PICK e \in Calls : Running(e)'
        BY <1>2
      <4>2. CASE LaunchFlow(c) \/ FlowStep(c)
        <5>1. flow[c] \notin {"none", "done"}
          BY <4>2 DEF LaunchFlow, FlightInv, AttemptInv, FlowStep, TakeCredential,
                      SendDeviceCode, AuthenticateReturns, MarkAuthenticated,
                      EndInteractiveAuth, Finish
        <5>2. QED
          BY <5>1 DEF Running
      <4>3. CASE flow' = flow
        BY <4>1, <4>3 DEF Running
      <4>4. QED
        BY <2>3, <4>2, <4>3, Shared
    <3>2. Open(d)
      BY <1>2, <2>3, Frame, Shared DEF Untouched, ActionOf
    <3>3. QED
      BY <1>1, <2>3, <3>1, <3>2, Shared DEF SawInv
  <2>4. QED
    BY <2>1, <2>2, <2>3
<1>3. ASSUME NEW d \in Calls, Past(d)', pendingAuth'
      PROVE  sawFlow'[d]
  <2>1. CASE RaisePendingAuth(c)
    <3>1. Running(c) /\ Open(d)
      BY <1>3, <2>1, Frame
         DEF RaisePendingAuth, Running, FlightInv, AttemptInv, Untouched
    <3>2. QED
      BY <1>1, <2>1, <3>1 DEF RaisePendingAuth, SawInv
  <2>2. CASE pendingAuth /\ Past(d)
    <3>1. sawFlow[d]
      BY <1>1, <2>2 DEF SawInv
    <3>2. CASE Arrive(c)
      BY <2>2, <3>1, <3>2 DEF Arrive, TypeOK
    <3>3. CASE PublishAttempt(c)
      BY <3>1, <3>3 DEF PublishAttempt
    <3>4. QED
      BY <3>1, <3>2, <3>3, Shared
  <2>3. CASE pendingAuth /\ ~Past(d)
    <3>1. d = c /\ pc'[c] # pc[c]
      BY <1>3, <2>3, Frame DEF Untouched
    <3>2. pc[c] \in {"entry", "outcome", "settle"}
      BY <1>3, <2>3, <3>1, Shared DEF Arrive, Goto, TypeOK
    <3>3. OutcomeRunning(c)
      BY <1>3, <2>3, <3>1, <3>2, Shared
         DEF LoadPendingAuth, OutcomeFinished, Settle, Goto, TypeOK
    <3>4. sawFlow[c]
      BY <1>1, <3>3 DEF OutcomeRunning, AttemptRunning, SawInv, TypeOK
    <3>5. QED
      BY <3>1, <3>3, <3>4 DEF OutcomeRunning
  <2>4. QED
    BY <1>3, <2>1, <2>2, <2>3, Shared
<1>4. ASSUME NEW d \in Calls, answer'[d] = "wait" PROVE pc'[d] = "answered"
  <2>1. CASE d = c
    BY <1>1, <1>4, <2>1, Shared DEF SawInv
  <2>2. CASE d # c
    BY <1>1, <1>4, <2>2, Frame DEF SawInv, Untouched
  <2>3. QED
    BY <2>1, <2>2
<1>5. QED
  BY <1>2, <1>3, <1>4 DEF SawInv

LEMMA InitServed == Init => ServedInv
<1> SUFFICES ASSUME Init PROVE ServedInv
  OBVIOUS
<1>1. ServiceInv
  BY DEF Init, ServiceInv, Serviced, SlotFilled, AtEntry, InHandler
<1>2. OutcomeInv
  BY DEF Init, OutcomeInv
<1>3. PublishedInv
  BY DEF Init, PublishedInv
<1>4. SawInv
  BY DEF Init, SawInv
<1>5. QED
  BY <1>1, <1>2, <1>3, <1>4 DEF ServedInv

LEMMA NextServed == TypeOK /\ FlightInv /\ ServedInv /\ [Next]_vars => ServedInv'
<1> SUFFICES ASSUME TypeOK, FlightInv, ServedInv, [Next]_vars PROVE ServedInv'
  OBVIOUS
<1>1. ASSUME NEW c \in Calls, ActionOf(c) PROVE ServedInv'
  BY <1>1, NextService, NextOutcome, NextPublished, NextSaw DEF ServedInv
<1>2. CASE UNCHANGED vars
  BY <1>2 DEF vars, ServedInv, ServiceInv, Serviced, SlotFilled, AtEntry, InHandler,
              HasToken, OutcomeInv, PublishedInv, SawInv, Running
<1>3. QED
  BY <1>1, <1>2 DEF Next, Quiescent, ActionOf

\* The mutex, the published attempt, the observed attempts and the flag agree
\* on who may be signing in, in every reachable state: the invariant behind
\* OneFlightAtATime, for any number of calls and accounts.
LEMMA FlightAgrees == Spec => []FlightInv
<1>1. Init => TypeOK /\ FlightInv
  BY InitType, InitFlight
<1>2. TypeOK /\ FlightInv /\ [Next]_vars => (TypeOK /\ FlightInv)'
  BY NextType, NextFlight
<1>3. QED
  BY <1>1, <1>2, PTL DEF Spec

\* Where a call is, how often its handler ran, the token and account it holds
\* and the attempts it met agree in every reachable state: the invariant the
\* promises below follow from.
LEMMA CallsAreServed == Spec => []ServedInv
<1>1. Init => TypeOK /\ FlightInv /\ ServedInv
  BY InitType, InitFlight, InitServed
<1>2. TypeOK /\ FlightInv /\ ServedInv /\ [Next]_vars => (TypeOK /\ FlightInv /\ ServedInv)'
  BY NextType, NextFlight, NextServed
<1>3. QED
  BY <1>1, <1>2, PTL DEF Spec

\* The two together, for every set of calls, accounts and authentication methods:
\* flag, mutex, published and observed attempts agree on who may be signing in,
\* and with them each call's progress, token and account.
THEOREM AuthAgrees == Spec => []AuthInv
BY FlightAgrees, CallsAreServed, PTL DEF AuthInv

-------------------------------------------------------------------------------
\* However many calls compete, none runs its handler a third time, and none a
\* second time without a token obtained for it.
THEOREM RetriesHoldToken == Spec => []RetriesOnceWithToken
<1>1. TypeOK /\ ServedInv => RetriesOnceWithToken
  BY DEF TypeOK, ServedInv, ServiceInv, Serviced, RetriesOnceWithToken
<1>2. QED
  BY <1>1, TypeCorrect, CallsAreServed, PTL

\* A call told to wait was open while some sign-in ran: OutcomeRunning saw one
\* running, and the flag LockMu saw up was raised for one published meanwhile.
LEMMA NextWait ==
  TypeOK /\ FlightInv /\ ServedInv /\ WaitIsTruthful /\ [Next]_vars => WaitIsTruthful'
<1> SUFFICES ASSUME TypeOK, FlightInv, ServedInv, WaitIsTruthful, [Next]_vars,
                    NEW d \in Calls, answer'[d] = "wait"
             PROVE  sawFlow'[d]
  BY DEF WaitIsTruthful
<1>1. ASSUME NEW c \in Calls, ActionOf(c) PROVE sawFlow'[d]
  <2>1. CASE answer[d] = "wait"
    <3>1. sawFlow[d] /\ pc[d] = "answered"
      BY <2>1 DEF WaitIsTruthful, ServedInv, SawInv
    <3>2. CASE Arrive(c)
      BY <3>1, <3>2 DEF Arrive, TypeOK
    <3>3. CASE PublishAttempt(c)
      BY <3>1, <3>3 DEF PublishAttempt
    <3>4. QED
      BY <1>1, <3>1, <3>2, <3>3, Shared
  <2>2. CASE answer[d] # "wait"
    <3>1. d = c
      BY <1>1, <2>2, Frame DEF Untouched
    <3>2. \/ OutcomeRunning(c)
          \/ LockMu(c) /\ pendingAuth
      BY <1>1, <2>2, <3>1
         DEF ActionOf, Arrive, CallStep, ClientAnswers, FlowStep, LoadPendingAuth,
             OutcomeFinished, Settle, CheckFresh, EntrySilentToken, RunVerb,
             RunRecoveryVerb, CheckInFlight, RecoveryGetToken, HandlerReturns, LockMu,
             ReauthSilentToken, AuthCodeURL, CodeElicited, URLElicited, LinkElicited,
             PublishAttempt, RaisePendingAuth, LaunchFlow, CodeReceived, FlowDone,
             WaitTimesOut, TakeCredential, SendDeviceCode, AuthenticateReturns,
             MarkAuthenticated, EndInteractiveAuth, Finish, goVars, Return, TypeOK
    <3>3. sawFlow[c] /\ sawFlow' = sawFlow
      BY <3>2 DEF OutcomeRunning, AttemptRunning, LockMu, ServedInv, SawInv, TypeOK
    <3>4. QED
      BY <3>1, <3>3
  <2>3. QED
    BY <2>1, <2>2
<1>2. CASE UNCHANGED vars
  BY <1>2 DEF vars, WaitIsTruthful
<1>3. QED
  BY <1>1, <1>2 DEF Next, Quiescent, ActionOf

\* Nobody is told to wait for a sign-in unless one ran while its call was open,
\* whatever flags are left up by attempts that are over.
THEOREM WaitsAreTruthful == Spec => []WaitIsTruthful
<1>1. Init => WaitIsTruthful
  BY DEF Init, WaitIsTruthful
<1>2. QED
  BY <1>1, NextWait, TypeCorrect, FlightAgrees, CallsAreServed, PTL DEF Spec

-------------------------------------------------------------------------------
\* What makes a call's authentication count stays.
Earned(c) == flowOk[c] \/ grant[c] \in {"silent", "code"}

LEMMA EarnedStays ==
  ASSUME TypeOK, ServedInv, NEW c \in Calls, ActionOf(c),
         NEW d \in Calls, Earned(d)
  PROVE  Earned(d)'
<1>1. CASE d # c
  BY <1>1, Frame DEF Untouched, Earned
<1>2. CASE d = c /\ FlowStep(c)
  <2>1. UNCHANGED grant
    BY <1>2 DEF FlowStep, TakeCredential, SendDeviceCode, AuthenticateReturns,
                MarkAuthenticated, EndInteractiveAuth, Finish, goVars, serveVars
  <2>2. flowOk[c] => flowOk'[c]
    BY <1>2 DEF FlowStep, TakeCredential, SendDeviceCode, AuthenticateReturns,
                MarkAuthenticated, EndInteractiveAuth, Finish, ServedInv, OutcomeInv
  <2>3. QED
    BY <1>2, <2>1, <2>2 DEF Earned
<1>3. CASE d = c /\ ~FlowStep(c)
  <2>1. flowOk' = flowOk
    BY <1>3 DEF ActionOf, Arrive, CallStep, ClientAnswers, LoadPendingAuth, OutcomeRunning,
           OutcomeFinished, Settle, CheckFresh, EntrySilentToken, RunVerb,
           RunRecoveryVerb, CheckInFlight, RecoveryGetToken, HandlerReturns, LockMu,
           ReauthSilentToken, AuthCodeURL, CodeElicited, URLElicited, LinkElicited,
           PublishAttempt, RaisePendingAuth, LaunchFlow, CodeReceived, FlowDone,
           WaitTimesOut, flowVars
  <2>2. CASE AtEntry(c)
    BY <1>3, <2>1, <2>2 DEF Earned, ServedInv, ServiceInv, Serviced
  <2>3. CASE FlowDone(c)
    <3>1. flowOk[c] \/ grant' = grant
      BY <2>3 DEF FlowDone, serveVars
    <3>2. QED
      BY <1>3, <2>1, <3>1 DEF Earned
  <2>4. CASE ReauthSilentToken(c) \/ CodeElicited(c)
    <3>1. grant'[c] \in {"silent", "code"} \/ grant' = grant
      BY <2>4 DEF ReauthSilentToken, CodeElicited, CallNext, serveVars, TypeOK
    <3>2. QED
      BY <1>3, <2>1, <3>1 DEF Earned
  <2>5. CASE grant' = grant
    BY <1>3, <2>1, <2>5 DEF Earned
  <2>6. QED
    BY <1>3, <2>2, <2>3, <2>4, <2>5
       DEF ActionOf, Arrive, CallStep, ClientAnswers, LoadPendingAuth, OutcomeRunning,
           OutcomeFinished, Settle, CheckFresh, EntrySilentToken, RunVerb,
           RunRecoveryVerb, CheckInFlight, RecoveryGetToken, HandlerReturns, LockMu,
           AuthCodeURL, URLElicited, LinkElicited, PublishAttempt, RaisePendingAuth,
           LaunchFlow, CodeReceived, WaitTimesOut, serveVars, AtEntry
<1>4. QED
  BY <1>1, <1>2, <1>3

LEMMA NextEarned ==
  TypeOK /\ ServedInv /\ AuthenticatedIsEarned /\ [Next]_vars => AuthenticatedIsEarned'
<1> SUFFICES ASSUME TypeOK, ServedInv, AuthenticatedIsEarned, [Next]_vars, authenticated'
             PROVE  \E d \in Calls : Earned(d)'
  BY DEF AuthenticatedIsEarned, Earned
<1>1. ASSUME NEW c \in Calls, ActionOf(c) PROVE \E d \in Calls : Earned(d)'
  <2>1. CASE authenticated
    BY <1>1, <2>1, EarnedStays DEF AuthenticatedIsEarned, Earned
  <2>2. CASE ~authenticated
    <3>1. \/ Settle(c) /\ ~ObservedFailure(c)
          \/ EntrySilentToken(c) /\ CallNext(c, "direct", "silent")
          \/ ReauthSilentToken(c) /\ CallNext(c, "retry", "silent")
          \/ CodeElicited(c) /\ CallNext(c, "retry", "code")
          \/ MarkAuthenticated(c) /\ flowOk[c]
      <4>1. CASE MarkAuthenticated(c)
        BY <2>2, <4>1, Zenon DEF MarkAuthenticated
      <4>2. CASE Settle(c)
        BY <2>2, <4>2, Zenon DEF Settle
      <4>3. CASE EntrySilentToken(c) \/ ReauthSilentToken(c) \/ CodeElicited(c)
        BY <2>2, <4>3 DEF EntrySilentToken, ReauthSilentToken, CodeElicited
      <4>4. CASE authenticated' = authenticated
        BY <2>2, <4>4
      <4>5. QED
        BY <1>1, <4>1, <4>2, <4>3, <4>4
           DEF ActionOf, Arrive, CallStep, ClientAnswers, FlowStep, LoadPendingAuth,
               OutcomeRunning, OutcomeFinished, CheckFresh, RunVerb, RunRecoveryVerb,
               CheckInFlight, RecoveryGetToken, HandlerReturns, LockMu, AuthCodeURL,
               URLElicited, LinkElicited, PublishAttempt, RaisePendingAuth,
               LaunchFlow, CodeReceived, FlowDone, WaitTimesOut, TakeCredential,
               SendDeviceCode, AuthenticateReturns, EndInteractiveAuth, Finish, goVars
    <3>2. CASE Settle(c) /\ ~ObservedFailure(c)
      <4>1. observed[c] \in Calls /\ flowOk[observed[c]]
        BY <3>2 DEF Settle, ObservedFailure, ServedInv, PublishedInv, TypeOK
      <4>2. QED
        BY <1>1, <4>1, EarnedStays DEF Earned
    <3>3. CASE MarkAuthenticated(c) /\ flowOk[c]
      BY <1>1, <3>3, EarnedStays DEF Earned
    <3>4. CASE \E m, g : CallNext(c, m, g) /\ g \in {"silent", "code"}
      BY <3>4 DEF CallNext, Earned, TypeOK
    <3>5. QED
      BY <3>1, <3>2, <3>3, <3>4
  <2>3. QED
    BY <2>1, <2>2
<1>2. CASE UNCHANGED vars
  BY <1>2 DEF vars, AuthenticatedIsEarned, Earned
<1>3. QED
  BY <1>1, <1>2 DEF Next, Quiescent, ActionOf

\* However loads and stores at entry interleave with begin() and finish(), the
\* middleware takes itself for authenticated only after somebody obtained a
\* token: it never observes an attempt that is missing or has failed as one
\* that succeeded.
THEOREM AuthenticationEarned == Spec => []AuthenticatedIsEarned
<1>1. Init => AuthenticatedIsEarned
  BY DEF Init, AuthenticatedIsEarned
<1>2. QED
  BY <1>1, NextEarned, TypeCorrect, CallsAreServed, PTL DEF Spec

-------------------------------------------------------------------------------
\* The goroutines the counter stands for.
Counted == {c \in Calls : flow[c] \in {"queued", "signing", "returned", "marked"}}

LEMMA CountedFinite == IsFiniteSet(Counted)
  BY FS_Subset DEF Counted

\* One step adds at most the flow it launches and removes at most the one it
\* ends.
LEMMA NextCount ==
  TypeOK /\ FlightInv /\ CountMatchesFlows /\ [Next]_vars => CountMatchesFlows'
<1> SUFFICES ASSUME TypeOK, FlightInv, CountMatchesFlows, [Next]_vars
             PROVE  interactiveAuthCount' = Cardinality(Counted')
  BY DEF CountMatchesFlows, Counted
<1>1. interactiveAuthCount = Cardinality(Counted) /\ interactiveAuthCount \in Int
  BY DEF CountMatchesFlows, Counted, TypeOK
<1>2. ASSUME NEW c \in Calls, LaunchFlow(c)
      PROVE  interactiveAuthCount' = Cardinality(Counted')
  <2>1. flow[c] = "created" /\ flow' = [flow EXCEPT ![c] = "queued"]
    BY <1>2 DEF LaunchFlow, FlightInv, AttemptInv
  <2>2. c \notin Counted /\ Counted' = Counted \cup {c}
    BY <2>1 DEF Counted, TypeOK
  <2>3. Cardinality(Counted') = Cardinality(Counted) + 1
    BY <2>2, CountedFinite, FS_AddElement
  <2>4. QED
    BY <1>1, <1>2, <2>3 DEF LaunchFlow
<1>3. ASSUME NEW c \in Calls, EndInteractiveAuth(c)
      PROVE  interactiveAuthCount' = Cardinality(Counted')
  <2>1. flow[c] = "marked" /\ flow' = [flow EXCEPT ![c] = "ended"]
    BY <1>3 DEF EndInteractiveAuth
  <2>2. c \in Counted /\ Counted' = Counted \ {c}
    BY <2>1 DEF Counted, TypeOK
  <2>3. Cardinality(Counted') = Cardinality(Counted) - 1
    BY <2>2, CountedFinite, FS_RemoveElement
  <2>4. QED
    BY <1>1, <1>3, <2>3 DEF EndInteractiveAuth
<1>4. CASE interactiveAuthCount' = interactiveAuthCount /\ Counted' = Counted
  BY <1>1, <1>4
<1>5. ASSUME NEW c \in Calls, PublishAttempt(c)
      PROVE  interactiveAuthCount' = interactiveAuthCount /\ Counted' = Counted
  <2>1. flow[c] = "none" /\ flow' = [flow EXCEPT ![c] = "created"]
    BY <1>5 DEF PublishAttempt, FlightInv, AttemptInv, NotBegun, Deciding
  <2>2. QED
    BY <1>5, <2>1 DEF PublishAttempt, Counted, TypeOK
<1>6. ASSUME NEW c \in Calls,
             \/ TakeCredential(c) \/ SendDeviceCode(c) \/ AuthenticateReturns(c)
             \/ MarkAuthenticated(c) \/ Finish(c)
      PROVE  interactiveAuthCount' = interactiveAuthCount /\ Counted' = Counted
  BY <1>6 DEF TakeCredential, SendDeviceCode, AuthenticateReturns, MarkAuthenticated,
              Finish, Counted, TypeOK
<1>7. ASSUME NEW c \in Calls, Arrive(c) \/ CallStep(c) \/ ClientAnswers(c),
             ~PublishAttempt(c), ~LaunchFlow(c)
      PROVE  interactiveAuthCount' = interactiveAuthCount /\ Counted' = Counted
  BY <1>7 DEF Arrive, CallStep, ClientAnswers, LoadPendingAuth, OutcomeRunning,
              OutcomeFinished, Settle, CheckFresh, EntrySilentToken, RunVerb,
              RunRecoveryVerb, CheckInFlight, RecoveryGetToken, HandlerReturns, LockMu,
              ReauthSilentToken, AuthCodeURL, CodeElicited, URLElicited, LinkElicited,
              RaisePendingAuth, CodeReceived, FlowDone, WaitTimesOut, flowVars, Counted
<1>8. CASE UNCHANGED vars
  BY <1>4, <1>8 DEF vars, Counted
<1>9. QED
  BY <1>2, <1>3, <1>4, <1>5, <1>6, <1>7, <1>8 DEF Next, Quiescent, FlowStep

\* The counter recovery verbs consult is the number of sign-in goroutines under
\* way in every reachable state: no error path, timeout or overlap leaks a
\* BeginInteractiveAuth or ends one twice.
THEOREM CounterIsExact == Spec => []CountMatchesFlows
<1>1. Init => CountMatchesFlows
  <2> SUFFICES ASSUME Init PROVE CountMatchesFlows
    OBVIOUS
  <2>1. Counted = {}
    BY DEF Init, Counted
  <2>2. QED
    BY <2>1, FS_EmptySet DEF Init, CountMatchesFlows, Counted
<1>2. QED
  BY <1>1, NextCount, TypeCorrect, FlightAgrees, PTL DEF Spec

-------------------------------------------------------------------------------
\* A step that gives a call its flow is that call's PublishAttempt.
LEMMA NextTarget ==
  ASSUME TypeOK, FlightInv, ServedInv, [Next]_vars,
         NEW d \in Calls \ RecoveryCalls, flow[d] = "none", flow'[d] # "none",
         runs[d] > 0
  PROVE  flowAccount'[d] = AccountOf[d]
<1>1. PICK c \in Calls : ActionOf(c)
  BY DEF Next, Quiescent, ActionOf, vars
<1>2. c = d
  BY <1>1, Frame DEF Untouched
<1>3. PublishAttempt(d)
  <2>1. ~FlowStep(d)
    BY DEF FlowStep, TakeCredential, SendDeviceCode, AuthenticateReturns,
           MarkAuthenticated, EndInteractiveAuth, Finish
  <2>2. ~LaunchFlow(d)
    BY DEF LaunchFlow, FlightInv, AttemptInv
  <2>3. QED
    BY <1>1, <1>2, <2>1, <2>2, Shared
<1>4. slot[d] = AccountOf[d] /\ slot[d] # NoAccount
  BY <1>3 DEF PublishAttempt, ServedInv, ServiceInv, SlotFilled
<1>5. QED
  BY <1>3, <1>4 DEF PublishAttempt, Target, TypeOK

\* A sign-in started because a mail or calendar verb failed signs in the
\* account that verb used, for any number of accounts and whichever of them
\* signed in before.
THEOREM SignInForTheRightAccount == Spec => FlowTargetsResolvedAccount
<1>1. TypeOK /\ FlightInv /\ ServedInv /\ [Next]_vars =>
        [\A c \in Calls \ RecoveryCalls :
           flow[c] = "none" /\ flow'[c] # "none" /\ runs[c] > 0
             => flowAccount'[c] = AccountOf[c]]_vars
  BY NextTarget
<1>2. QED
  BY <1>1, TypeCorrect, FlightAgrees, CallsAreServed, PTL
     DEF Spec, FlowTargetsResolvedAccount

-------------------------------------------------------------------------------
\* The safety part of ToolCallContract, step by step.  How the two mapped
\* variables follow the calls and the attempts:
LEMMA StaysOpen ==
  ASSUME TypeOK, NEW c \in Calls, pc[c] \notin {"idle", "answered"},
         NEW l, l \notin {"idle", "answered"}, pc' = [pc EXCEPT ![c] = l]
  PROVE  ContractPhase' = ContractPhase
  BY DEF TypeOK, ContractPhase

LEMMA BecomesAnswered ==
  ASSUME TypeOK, NEW c \in Calls, pc[c] \notin {"idle", "answered"},
         NEW a, pc' = [pc EXCEPT ![c] = "answered"], answer' = [answer EXCEPT ![c] = a]
  PROVE  ContractPhase[c] = "open" /\ Contract!Answer(c, a)
<1>1. ContractPhase[c] = "open"
  BY DEF ContractPhase
<1>2. ContractPhase' = [ContractPhase EXCEPT ![c] = "answered"]
  BY DEF TypeOK, ContractPhase
<1>3. QED
  BY <1>1, <1>2 DEF Contract!Answer

LEMMA FlowsAlone ==
  ASSUME UNCHANGED <<flow, flowOk>>
  PROVE  ContractFlow' = ContractFlow
  BY DEF ContractFlow, Running

\* What ServedInv says of a call the contract still owes something.
LEMMA ContractMayRun ==
  ASSUME TypeOK, ServedInv, NEW c \in Calls, pc[c] \notin {"idle", "answered"}
  PROVE  Contract!MayRun(c)
  BY DEF TypeOK, ServedInv, ServiceInv, Serviced, ContractPhase, Contract!MayRun

LEMMA ContractInit == Init => Contract!Init
<1> SUFFICES ASSUME Init PROVE Contract!Init
  OBVIOUS
<1>1. ContractPhase = [c \in Calls |-> "new"]
  BY DEF Init, ContractPhase
<1>2. ContractFlow = [c \in Calls |-> "none"]
  BY DEF Init, ContractFlow, Running
<1>3. QED
  BY <1>1, <1>2 DEF Init, Contract!Init

\* The handler's runs are the contract's.
LEMMA ContractRun ==
  ASSUME TypeOK, ServedInv, NEW c \in Calls, InHandler(c),
         NEW r \in {"ok", "auth", "other"}, HandlerReturns(c, r)
  PROVE  Contract!RunVerb(c)
<1>1. Contract!MayRun(c)
  BY ContractMayRun DEF InHandler
<1>2. /\ runs' = [runs EXCEPT ![c] = @ + 1]
      /\ result' = [result EXCEPT ![c] = r]
      /\ ContractFlow' = ContractFlow
  BY FlowsAlone DEF HandlerReturns, flowVars
<1>3. \/ Contract!Answer(c, "handler")
      \/ r = "auth" /\ runs[c] = 0 /\ UNCHANGED <<ContractPhase, answer>>
  <2>1. CASE Return(c, "handler")
    BY <2>1, BecomesAnswered DEF Return, Goto, InHandler
  <2>2. CASE mode[c] = "inspected" /\ IsAuthRelated(r) /\ Goto(c, "lock") /\ UNCHANGED answer
    <3>1. runs[c] = 0
      BY <2>2 DEF ServedInv, ServiceInv, Serviced
    <3>2. ContractPhase' = ContractPhase
      BY <2>2, StaysOpen DEF Goto, InHandler
    <3>3. QED
      BY <2>2, <3>1, <3>2 DEF IsAuthRelated
  <2>3. QED
    BY <2>1, <2>2 DEF HandlerReturns
<1>4. QED
  BY <1>1, <1>2, <1>3 DEF Contract!RunVerb

\* A call answered without its handler's result.  Only another call's attempt
\* can make a call wait: it has begun none of its own.
LEMMA ContractRefuse ==
  ASSUME TypeOK, ServedInv, NEW c \in Calls, pc[c] \notin {"idle", "answered"},
         NEW a \in {"wait", "failed", "instructions", "declined"},
         a = "wait" => \E d \in Calls \ {c} : flow[d] # "none",
         pc' = [pc EXCEPT ![c] = "answered"], answer' = [answer EXCEPT ![c] = a],
         UNCHANGED <<runs, result, flow, flowOk>>
  PROVE  Contract!Refuse(c)
<1>1. Contract!MayRun(c)
  BY ContractMayRun
<1>2. Contract!Answer(c, a)
  BY BecomesAnswered
<1>3. a = "wait" => \E d \in Calls \ {c} : ContractFlow[d] # "none"
  BY DEF ContractFlow, Running, TypeOK, Phases
<1>4. ContractFlow' = ContractFlow
  BY FlowsAlone
<1>5. QED
  BY <1>1, <1>2, <1>3, <1>4 DEF Contract!Refuse

\* Steps of the middleware the contract does not see.
Hidden(c) ==
  /\ pc[c] \notin {"idle", "answered"}
  /\ \E l \in Locations \ {"idle", "answered"} : pc' = [pc EXCEPT ![c] = l]
  /\ UNCHANGED <<answer, runs, result>>

LEMMA HiddenStutters ==
  ASSUME TypeOK, NEW c \in Calls, Hidden(c), ContractFlow' = ContractFlow
  PROVE  UNCHANGED Contract!vars
<1>1. PICK l \in Locations \ {"idle", "answered"} : pc' = [pc EXCEPT ![c] = l]
  BY DEF Hidden
<1>2. ContractPhase' = ContractPhase
  BY <1>1, StaysOpen DEF Hidden
<1>3. QED
  BY <1>2 DEF Hidden, Contract!vars

LEMMA ContractEntry ==
  ASSUME TypeOK, FlightInv, ServedInv, NEW c \in Calls,
         \/ LoadPendingAuth(c) \/ OutcomeRunning(c) \/ OutcomeFinished(c) \/ Settle(c)
         \/ CheckFresh(c) \/ EntrySilentToken(c) \/ LockMu(c)
  PROVE  Contract!Refuse(c) \/ UNCHANGED Contract!vars
<1>1. /\ UNCHANGED <<runs, result, flow, flowOk>>
      /\ pc[c] \notin {"idle", "answered"} /\ NotBegun(c)
  BY DEF LoadPendingAuth, OutcomeRunning, OutcomeFinished, Settle, CheckFresh,
         EntrySilentToken, LockMu, nextVars, flowVars, NotBegun
<1>2. ContractFlow' = ContractFlow /\ flow[c] = "none"
  BY <1>1, FlowsAlone DEF FlightInv, AttemptInv
<1>3. CASE Return(c, "failed")
  BY <1>1, <1>3, ContractRefuse DEF Return, Goto
<1>4. CASE /\ pending # NoCall /\ pc' = [pc EXCEPT ![c] = "answered"]
           /\ answer' = [answer EXCEPT ![c] = "wait"]
  <2>1. \E d \in Calls \ {c} : flow[d] # "none"
    BY <1>2, <1>4 DEF FlightInv, ObservedInv, TypeOK
  <2>2. QED
    BY <1>1, <1>4, <2>1, ContractRefuse
<1>5. CASE Hidden(c)
  BY <1>2, <1>5, HiddenStutters
<1>6. pendingAuth => pending # NoCall
  BY DEF ServedInv, PublishedInv
<1>7. QED
  BY <1>1, <1>3, <1>4, <1>5, <1>6
     DEF LoadPendingAuth, OutcomeRunning, OutcomeFinished, Settle, CheckFresh,
         EntrySilentToken, LockMu, AttemptRunning, Goto, CallNext, Return, Hidden,
         Locations, nextVars

LEMMA ContractReauth ==
  ASSUME TypeOK, FlightInv, ServedInv, NEW c \in Calls,
         \/ ReauthSilentToken(c) \/ AuthCodeURL(c) \/ CodeElicited(c) \/ URLElicited(c)
         \/ LinkElicited(c) \/ RaisePendingAuth(c) \/ CodeReceived(c) \/ FlowDone(c)
         \/ WaitTimesOut(c)
  PROVE  Contract!Refuse(c) \/ UNCHANGED Contract!vars
<1>1. /\ UNCHANGED <<runs, result, flow, flowOk>>
      /\ pc[c] \notin {"idle", "answered"}
  BY DEF ReauthSilentToken, AuthCodeURL, CodeElicited, URLElicited, LinkElicited,
         RaisePendingAuth, CodeReceived, FlowDone, WaitTimesOut, nextVars, flowVars
<1>2. ContractFlow' = ContractFlow
  BY <1>1, FlowsAlone
<1>3. CASE \E a \in {"failed", "instructions", "declined"} : Return(c, a)
  BY <1>1, <1>3, ContractRefuse DEF Return, Goto
<1>4. CASE Hidden(c)
  BY <1>2, <1>4, HiddenStutters
<1>5. MethodOf[Target(c)] \in Methods
  BY DEF Target, TypeOK
<1>6. InteractiveStep(MethodOf[Target(c)]) \in {"authURL", "elicitURL", "begin"}
  BY <1>5 DEF InteractiveStep, Methods
<1>7. Hidden(c) \/ \E a \in {"failed", "instructions", "declined"} : Return(c, a)
  BY <1>1, <1>6
     DEF ReauthSilentToken, AuthCodeURL, CodeElicited, URLElicited, LinkElicited,
         RaisePendingAuth, CodeReceived, FlowDone, WaitTimesOut, Goto, CallNext,
         Hidden, Locations, Elicitations, nextVars
<1>8. QED
  BY <1>3, <1>4, <1>7

LEMMA ContractAttempt ==
  ASSUME TypeOK, FlightInv, ServedInv, NEW c \in Calls,
         PublishAttempt(c) \/ LaunchFlow(c)
  PROVE  Contract!StartFlow(c) \/ UNCHANGED Contract!vars
<1>1. Hidden(c)
  BY DEF PublishAttempt, LaunchFlow, Goto, Hidden, Locations, nextVars
<1>2. PICK l \in Locations \ {"idle", "answered"} : pc' = [pc EXCEPT ![c] = l]
  BY <1>1 DEF Hidden
<1>3. ContractPhase' = ContractPhase /\ UNCHANGED <<answer, runs, result>>
  BY <1>1, <1>2, StaysOpen DEF Hidden
<1>4. CASE PublishAttempt(c)
  <2>1. flow[c] = "none" /\ flow' = [flow EXCEPT ![c] = "created"]
    BY <1>4 DEF PublishAttempt, FlightInv, AttemptInv, NotBegun, Deciding
  <2>2. ContractFlow[c] = "none" /\ ContractFlow' = [ContractFlow EXCEPT ![c] = "running"]
    BY ZenonT(60), <1>4, <2>1 DEF PublishAttempt, ContractFlow, Running, TypeOK
  <2>3. Contract!MayRun(c)
    BY <1>1, ContractMayRun DEF Hidden
  <2>4. QED
    BY <1>3, <2>2, <2>3 DEF Contract!StartFlow
<1>5. CASE LaunchFlow(c)
  <2>1. flow[c] = "created" /\ flow' = [flow EXCEPT ![c] = "queued"] /\ flowOk' = flowOk
    BY <1>5 DEF LaunchFlow, FlightInv, AttemptInv
  <2>2. ContractFlow' = ContractFlow
    BY <2>1 DEF ContractFlow, Running, TypeOK
  <2>3. QED
    BY <1>3, <2>2 DEF Contract!vars
<1>6. QED
  BY <1>4, <1>5

\* The goroutine decides its flow when it closes the done channel, not before.
LEMMA ContractGoroutine ==
  ASSUME TypeOK, NEW c \in Calls, FlowStep(c)
  PROVE  Contract!DecideFlow(c) \/ UNCHANGED Contract!vars
<1>1. UNCHANGED <<pc, answer, runs, result>>
  BY DEF FlowStep, TakeCredential, SendDeviceCode, AuthenticateReturns, MarkAuthenticated,
         EndInteractiveAuth, Finish, goVars, nextVars
<1>2. ContractPhase' = ContractPhase
  BY <1>1 DEF ContractPhase
<1>3. CASE Finish(c)
  <2>1. flow[c] = "ended" /\ flow' = [flow EXCEPT ![c] = "done"] /\ flowOk' = flowOk
    BY <1>3 DEF Finish
  <2>2. /\ ContractFlow[c] = "running"
        /\ \E f \in {"ok", "failed"} : ContractFlow' = [ContractFlow EXCEPT ![c] = f]
    <3>1. ContractFlow[c] = "running"
      BY <2>1 DEF ContractFlow, Running
    <3>2. CASE flowOk[c]
      BY <2>1, <3>2 DEF ContractFlow, Running, TypeOK
    <3>3. CASE ~flowOk[c]
      BY <2>1, <3>3 DEF ContractFlow, Running, TypeOK
    <3>4. QED
      BY <3>1, <3>2, <3>3
  <2>3. QED
    BY <1>1, <1>2, <2>2 DEF Contract!DecideFlow
<1>4. CASE ~Finish(c)
  <2>1. /\ flow[c] \notin {"none", "done"} /\ flow'[c] \notin {"none", "done"}
        /\ \A d \in Calls : d # c => flow'[d] = flow[d] /\ flowOk'[d] = flowOk[d]
    BY <1>4 DEF FlowStep, TakeCredential, SendDeviceCode, AuthenticateReturns,
                MarkAuthenticated, EndInteractiveAuth, TypeOK
  <2>2. ContractFlow' = ContractFlow
    BY <2>1 DEF ContractFlow, Running
  <2>3. QED
    BY <1>1, <1>2, <2>2 DEF Contract!vars
<1>5. QED
  BY <1>3, <1>4

LEMMA ContractNext ==
  TypeOK /\ FlightInv /\ ServedInv /\ [Next]_vars => [Contract!Next]_Contract!vars
<1> SUFFICES ASSUME TypeOK, FlightInv, ServedInv, [Next]_vars
             PROVE  Contract!Next \/ UNCHANGED Contract!vars
  OBVIOUS
<1>1. ASSUME NEW c \in Calls, Arrive(c) PROVE Contract!Open(c)
  <2>1. ContractPhase[c] = "new" /\ ContractPhase' = [ContractPhase EXCEPT ![c] = "open"]
    BY <1>1 DEF Arrive, Goto, ContractPhase, TypeOK
  <2>2. ContractFlow' = ContractFlow
    BY <1>1, FlowsAlone DEF Arrive, flowVars
  <2>3. QED
    BY <1>1, <2>1, <2>2 DEF Arrive, nextVars, Contract!Open
<1>2. ASSUME NEW c \in Calls,
             RunVerb(c) \/ RunRecoveryVerb(c) \/ CheckInFlight(c) \/ RecoveryGetToken(c)
      PROVE  Contract!RunVerb(c) \/ UNCHANGED Contract!vars
  <2>1. CASE CheckInFlight(c)
    <3>1. Hidden(c)
      BY <2>1 DEF CheckInFlight, Goto, Hidden, Locations, nextVars
    <3>2. ContractFlow' = ContractFlow
      BY <2>1, FlowsAlone DEF CheckInFlight, flowVars
    <3>3. QED
      BY <3>1, <3>2, HiddenStutters
  <2>2. CASE InHandler(c) /\ \E r \in {"ok", "auth", "other"} : HandlerReturns(c, r)
    BY <2>2, ContractRun
  <2>3. QED
    BY <1>2, <2>1, <2>2 DEF RunVerb, RunRecoveryVerb, RecoveryGetToken, InHandler
<1>3. CASE UNCHANGED vars
  BY <1>3 DEF vars, ContractPhase, ContractFlow, Running, Contract!vars
<1>4. ASSUME NEW c \in Calls, ActionOf(c)
      PROVE  \/ Contract!Open(c) \/ Contract!CallStep(c) \/ Contract!StartFlow(c)
             \/ Contract!DecideFlow(c)
             \/ UNCHANGED Contract!vars
  BY <1>1, <1>2, <1>4, ContractEntry, ContractReauth, ContractAttempt, ContractGoroutine
     DEF ActionOf, CallStep, ClientAnswers, Contract!CallStep
<1>5. QED
  BY <1>3, <1>4 DEF Next, Quiescent, ActionOf, Contract!Next

\* However many calls run and whatever authentication does underneath, the
\* middleware does nothing ToolCallContract forbids: each call is answered at
\* most once, after at most two runs of its verb, the second only because the
\* first could not authenticate; it is told to wait only once another call has
\* signed in or tried to; and each sign-in is decided once.
THEOREM ContractSafetyKept == Spec => Contract!Safety
<1>1. QED
  BY ContractInit, ContractNext, TypeCorrect, FlightAgrees, CallsAreServed, PTL
     DEF Spec, Contract!Safety
===============================================================================
