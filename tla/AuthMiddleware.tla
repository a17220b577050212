---------------------------- MODULE AuthMiddleware ----------------------------
(***************************************************************************)
(* The authentication middleware every tool call passes through            *)
(* (src/internal/auth/middleware.go, pending.go, browser_flow.go,          *)
(* devicecode_flow.go, devicecode_present.go, inflight.go, silent.go).     *)
(*                                                                         *)
(* One process per tool call, which the MCP server runs concurrently, and  *)
(* one per background sign-in goroutine, named by the call that started    *)
(* it.  A step is one atomic load or store of the code, or one blocking    *)
(* operation together with the local work up to the next shared access.    *)
(***************************************************************************)
EXTENDS Integers, FiniteSets

CONSTANTS
  Calls,           \* the tool calls the client sends
  RecoveryCalls,   \* those naming the "account" tool
  Accounts,        \* accounts, each with one credential
  DefaultAccount,  \* the account of the middleware's own credential
  AccountOf,       \* the account a call resolves to, or names as its label
  MethodOf,        \* the authentication method of an account
  NoCall, NoAccount

Methods == {"auth_code", "browser", "device_code"}

ASSUME CallsAssumption ==
  /\ RecoveryCalls \subseteq Calls
  /\ NoCall \notin Calls
  /\ IsFiniteSet(Calls)

ASSUME AccountsAssumption ==
  /\ DefaultAccount \in Accounts
  /\ NoAccount \notin Accounts
  /\ AccountOf \in [Calls -> Accounts]
  /\ MethodOf \in [Accounts -> Methods]

VARIABLES
  \* The fields of authMiddlewareState, and the in-flight counter.
  mu,                   \* the call holding the re-authentication mutex
  pendingAuth,          \* a background flow is believed to be running
  pending,              \* the attempt last published, named by its call
  preAuthenticated,     \* the startup probe found a usable token
  authenticated,        \* some authentication has succeeded
  interactiveAuthCount, \* process-wide counter of interactive flows
  \* The background attempts and their goroutines, by the call that began them.
  flow,                 \* how far the attempt is
  flowAccount,          \* whose credential it signs in with
  prompted,             \* its device code is in the channel
  flowOk,               \* it succeeded: err is nil
  \* The calls: where each one is, and its local state.
  pc, mode, slot, observed,
  runs,                 \* how often the inner handler has returned
  result,               \* what it returned last
  grant,                \* why the middleware let the call go (again)
  answer,               \* what the call was answered
  \* History variables: no action reads them.
  staleSettle,          \* a settle cleared the flag of a newer attempt
  sawFlow               \* an attempt was running while the call was open

flagVars  == <<pendingAuth, pending, staleSettle>>
flowVars  == <<interactiveAuthCount, flow, flowAccount, prompted, flowOk>>
serveVars == <<mode, grant>>
nextVars  == <<slot, runs, result>>
vars == <<mu, pendingAuth, pending, preAuthenticated, authenticated,
          interactiveAuthCount, flow, flowAccount, prompted, flowOk, pc, mode, slot, observed, runs,
          result, grant, answer, staleSettle, sawFlow>>

(***************************************************************************)
(* Types and helpers                                                       *)
(***************************************************************************)
\* Where a call is in the middleware.
Elicitations == {"elicitCode", "elicitURL", "elicitLink"}
Locations == {"idle", "entry", "outcome", "settle", "fresh", "silent",
              "handler", "credential", "lock", "reauth", "authURL", "begin",
              "raise", "launch", "awaitCode", "awaitFlow", "awaitAck",
              "answered"} \cup Elicitations

\* What becomes of the handler's result: returned as it is at middleware
\* entry, inspected for an authentication error, or returned by the retry.
Modes   == {"none", "direct", "inspected", "retry"}
Results == {"none", "ok", "auth", "other"}
Grants  == {"none", "recovery", "warm", "silent", "code", "flow"}
Answers == {"none", "handler", "wait", "failed", "instructions", "declined"}

\* pendingAuthAttempt and its goroutine: the done channel is open until
\* phase "done"; the credential's own mutex is held while "signing".
Phases == {"none", "created", "queued", "signing", "returned", "marked",
           "ended", "done"}
IsRecoveryOperation(c) == c \in RecoveryCalls

\* The attempt's done channel exists and is still open.
Running(c) == flow[c] \notin {"none", "done"}

\* An interactive Authenticate holds the credential's mutex to its end, and
\* every GetToken on the same credential waits for it.
Locked(a) == \E c \in Calls : flow[c] = "signing" /\ flowAccount[c] = a

\* Mutant of Target: the slot is never read back.
TargetIgnoresSlot(c) == DefaultAccount

\* The account re-authentication is for: the one the handler chain left in
\* the request's slot, else the middleware's own.
Target(c) == IF slot[c] # NoAccount THEN slot[c] ELSE DefaultAccount

Goto(c, l) == pc' = [pc EXCEPT ![c] = l]

\* Return from the middleware, running the deferred unlock when c holds mu.
Return(c, a) ==
  /\ Goto(c, "answered")
  /\ answer' = [answer EXCEPT ![c] = a]
  /\ mu' = IF mu = c THEN NoCall ELSE mu

\* Call next(ctx, request) because of g, treating its result as m says.
CallNext(c, m, g) ==
  /\ Goto(c, "handler")
  /\ mode' = [mode EXCEPT ![c] = m]
  /\ grant' = [grant EXCEPT ![c] = g]

Init ==
  /\ mu = NoCall
  /\ pendingAuth = FALSE
  /\ pending = NoCall
  /\ preAuthenticated \in BOOLEAN
  /\ authenticated = FALSE
  /\ interactiveAuthCount = 0
  /\ flow = [c \in Calls |-> "none"]
  /\ flowAccount = [c \in Calls |-> DefaultAccount]
  /\ prompted = [c \in Calls |-> FALSE]
  /\ flowOk = [c \in Calls |-> FALSE]
  /\ pc = [c \in Calls |-> "idle"]
  /\ mode = [c \in Calls |-> "none"]
  /\ slot = [c \in Calls |-> NoAccount]
  /\ observed = [c \in Calls |-> NoCall]
  /\ runs = [c \in Calls |-> 0]
  /\ result = [c \in Calls |-> "none"]
  /\ grant = [c \in Calls |-> "none"]
  /\ answer = [c \in Calls |-> "none"]
  /\ staleSettle = FALSE
  /\ sawFlow = [c \in Calls |-> FALSE]

(***************************************************************************)
(* Middleware entry                                                        *)
(***************************************************************************)
Arrive(c) ==
  /\ pc[c] = "idle"
  /\ Goto(c, "entry")
  /\ sawFlow' = [sawFlow EXCEPT ![c] = \E d \in Calls : Running(d)]
  /\ UNCHANGED <<mu, flagVars, preAuthenticated, authenticated, flowVars,
                 serveVars, observed, nextVars, answer>>

LoadPendingAuth(c) ==
  /\ pc[c] = "entry"
  /\ Goto(c, IF pendingAuth THEN "outcome" ELSE "fresh")
  /\ UNCHANGED <<mu, flagVars, preAuthenticated, authenticated, flowVars,
                 serveVars, observed, nextVars, answer, sawFlow>>

\* Mutant of AttemptRunning: the done channel is never looked at.
AnyAttemptRuns == pending # NoCall

\* pendingOutcome: the attempt published now, not the one the flag was for.
AttemptRunning == pending # NoCall /\ Running(pending)

OutcomeRunning(c) ==
  /\ pc[c] = "outcome"
  /\ AttemptRunning
  /\ \/ /\ IsRecoveryOperation(c)
        /\ CallNext(c, "direct", "recovery")
        /\ UNCHANGED <<mu, answer>>
     \/ /\ ~IsRecoveryOperation(c)
        /\ Return(c, "wait")
        /\ UNCHANGED serveVars
  /\ UNCHANGED <<flagVars, preAuthenticated, authenticated, flowVars,
                 observed, nextVars, sawFlow>>

OutcomeFinished(c) ==
  /\ pc[c] = "outcome"
  /\ ~AttemptRunning
  /\ observed' = [observed EXCEPT ![c] = pending]
  /\ Goto(c, "settle")
  /\ UNCHANGED <<mu, flagVars, preAuthenticated, authenticated, flowVars,
                 serveVars, nextVars, answer, sawFlow>>

\* Mutant of ObservedFailure: the attempt's error is dropped.
FailureForgotten(c) == FALSE

ObservedFailure(c) == observed[c] # NoCall /\ ~flowOk[observed[c]]

\* settle() is a blind store: by now the flag may belong to a newer attempt.
Settle(c) ==
  /\ pc[c] = "settle"
  /\ pendingAuth' = FALSE
  /\ staleSettle' = (staleSettle \/ observed[c] # pending)
  /\ \/ /\ ObservedFailure(c)
        /\ Return(c, "failed")
        /\ UNCHANGED authenticated
     \/ /\ ~ObservedFailure(c)
        /\ authenticated' = TRUE
        /\ Goto(c, "fresh")
        /\ UNCHANGED <<mu, answer>>
  /\ UNCHANGED <<pending, preAuthenticated, flowVars, serveVars, observed,
                 nextVars, sawFlow>>

\* The fresh-credential fast path.
CheckFresh(c) ==
  /\ pc[c] = "fresh"
  /\ \/ /\ preAuthenticated \/ authenticated
        /\ CallNext(c, "inspected", "warm")
     \/ /\ ~(preAuthenticated \/ authenticated)
        /\ IsRecoveryOperation(c)
        /\ CallNext(c, "direct", "recovery")
     \/ /\ ~(preAuthenticated \/ authenticated)
        /\ ~IsRecoveryOperation(c)
        /\ Goto(c, "silent")
        /\ UNCHANGED serveVars
  /\ UNCHANGED <<mu, flagVars, preAuthenticated, authenticated, flowVars,
                 observed, nextVars, answer, sawFlow>>

\* TrySilentToken on the middleware's own credential, whose mutex it waits for.
EntrySilentToken(c) ==
  /\ pc[c] = "silent"
  /\ ~Locked(DefaultAccount)
  /\ \/ /\ authenticated' = TRUE
        /\ CallNext(c, "direct", "silent")
     \/ /\ Goto(c, "lock")
        /\ UNCHANGED <<authenticated, serveVars>>
  /\ UNCHANGED <<mu, flagVars, preAuthenticated, flowVars, observed, nextVars,
                 answer, sawFlow>>

(***************************************************************************)
(* The inner handler                                                       *)
(***************************************************************************)
\* Mutant of IsAuthRelated: any error is taken for an authentication error.
AnyErrorIsAuth(r) == r # "ok"

IsAuthRelated(r) == r = "auth"

\* next returned r: hand it back, or go on to re-authentication.
HandlerReturns(c, r) ==
  /\ runs' = [runs EXCEPT ![c] = @ + 1]
  /\ result' = [result EXCEPT ![c] = r]
  /\ \/ /\ mode[c] = "inspected" /\ IsAuthRelated(r)
        /\ Goto(c, "lock")
        /\ UNCHANGED <<mu, answer>>
     \/ /\ ~(mode[c] = "inspected" /\ IsAuthRelated(r))
        /\ Return(c, "handler")
  /\ UNCHANGED <<flagVars, preAuthenticated, authenticated, flowVars,
                 serveVars, observed, sawFlow>>

\* A mail or calendar verb: AccountResolver fails before it picks an account,
\* or leaves the account in the slot and the verb uses its credential.
RunVerb(c) ==
  /\ pc[c] = "handler"
  /\ ~IsRecoveryOperation(c)
  /\ \/ /\ HandlerReturns(c, "other")
        /\ UNCHANGED slot
     \/ /\ ~Locked(AccountOf[c])
        /\ slot' = [slot EXCEPT ![c] = AccountOf[c]]
        /\ \E r \in {"ok", "auth", "other"} : HandlerReturns(c, r)

\* An account verb that needs no token, or that declines to ask for one
\* because InteractiveAuthInFlight.
RunRecoveryVerb(c) ==
  /\ pc[c] = "handler"
  /\ IsRecoveryOperation(c)
  /\ \E r \in {"ok", "other"} : HandlerReturns(c, r)
  /\ UNCHANGED slot

\* account.refresh and account.list: no flow is in flight, so use the token.
CheckInFlight(c) ==
  /\ pc[c] = "handler"
  /\ IsRecoveryOperation(c)
  /\ interactiveAuthCount <= 0
  /\ Goto(c, "credential")
  /\ UNCHANGED <<mu, flagVars, preAuthenticated, authenticated, flowVars,
                 serveVars, observed, nextVars, answer, sawFlow>>

RecoveryGetToken(c) ==
  /\ pc[c] = "credential"
  /\ ~Locked(AccountOf[c])
  /\ \E r \in {"ok", "auth", "other"} : HandlerReturns(c, r)
  /\ UNCHANGED slot

(***************************************************************************)
(* handleAuthError, under mu                                               *)
(***************************************************************************)
\* Mutant of LockMu: the flag is not looked at again under the mutex.
LockMuUnchecked(c) ==
  /\ pc[c] = "lock"
  /\ mu = NoCall
  /\ mu' = c
  /\ Goto(c, "reauth")
  /\ UNCHANGED <<flagVars, preAuthenticated, authenticated, flowVars,
                 serveVars, observed, nextVars, answer, sawFlow>>

LockMu(c) ==
  /\ pc[c] = "lock"
  /\ mu = NoCall
  /\ \/ /\ pendingAuth
        /\ Goto(c, "answered")
        /\ answer' = [answer EXCEPT ![c] = "wait"]
        /\ UNCHANGED mu
     \/ /\ ~pendingAuth
        /\ mu' = c
        /\ Goto(c, "reauth")
        /\ UNCHANGED answer
  /\ UNCHANGED <<flagVars, preAuthenticated, authenticated, flowVars,
                 serveVars, observed, nextVars, sawFlow>>

\* Mutant of InteractiveStep: no flow for the method that is not named.
NoDefaultFlow(m) == CASE m = "auth_code" -> "authURL"
                      [] m = "browser"   -> "elicitURL"
                      [] OTHER           -> "none"

InteractiveStep(m) == CASE m = "auth_code"   -> "authURL"
                        [] m = "browser"     -> "elicitURL"
                        [] m = "device_code" -> "begin"

ReauthSilentToken(c) ==
  /\ pc[c] = "reauth"
  /\ ~Locked(Target(c))
  /\ \/ /\ authenticated' = TRUE
        /\ CallNext(c, "retry", "silent")
     \/ /\ Goto(c, InteractiveStep(MethodOf[Target(c)]))
        /\ UNCHANGED <<authenticated, serveVars>>
  /\ UNCHANGED <<mu, flagVars, preAuthenticated, flowVars, observed, nextVars,
                 answer, sawFlow>>

(***************************************************************************)
(* The interactive flows.  An elicitation blocks until the client answers. *)
(***************************************************************************)
\* handleAuthCodeAuth: no code flow, or no authorization URL; else elicit.
AuthCodeURL(c) ==
  /\ pc[c] = "authURL"
  /\ \/ Return(c, "failed")
     \/ Goto(c, "elicitCode") /\ UNCHANGED <<mu, answer>>
  /\ UNCHANGED <<flagVars, preAuthenticated, authenticated, flowVars,
                 serveVars, observed, nextVars, sawFlow>>

\* The pasted redirect URL is exchanged, or the flow ends without a token.
CodeElicited(c) ==
  /\ pc[c] = "elicitCode"
  /\ \/ /\ authenticated' = TRUE
        /\ CallNext(c, "retry", "code")
        /\ UNCHANGED <<mu, answer>>
     \/ /\ \E a \in {"instructions", "failed", "declined"} : Return(c, a)
        /\ UNCHANGED <<authenticated, serveVars>>
  /\ UNCHANGED <<flagVars, preAuthenticated, flowVars, observed, nextVars,
                 sawFlow>>

\* handleBrowserAuth ignores what the client answers.
URLElicited(c) ==
  /\ pc[c] = "elicitURL"
  /\ Goto(c, "begin")
  /\ UNCHANGED <<mu, flagVars, preAuthenticated, authenticated, flowVars,
                 serveVars, observed, nextVars, answer, sawFlow>>

\* presentDeviceCode: only an accepted link is waited on.
LinkElicited(c) ==
  /\ pc[c] = "elicitLink"
  /\ \/ Return(c, "instructions")
     \/ Goto(c, "awaitAck") /\ UNCHANGED <<mu, answer>>
  /\ UNCHANGED <<flagVars, preAuthenticated, authenticated, flowVars,
                 serveVars, observed, nextVars, sawFlow>>

\* begin(), first the pointer and then the flag.
PublishAttempt(c) ==
  /\ pc[c] = "begin"
  /\ pending' = c
  /\ flow' = [flow EXCEPT ![c] = "created"]
  /\ flowAccount' = [flowAccount EXCEPT ![c] = Target(c)]
  /\ sawFlow' = [d \in Calls |-> sawFlow[d] \/ pc[d] \notin {"idle", "answered"}]
  /\ Goto(c, "raise")
  /\ UNCHANGED <<mu, pendingAuth, staleSettle, preAuthenticated,
                 authenticated, interactiveAuthCount, prompted, flowOk,
                 serveVars, observed, nextVars, answer>>

RaisePendingAuth(c) ==
  /\ pc[c] = "raise"
  /\ pendingAuth' = TRUE
  /\ Goto(c, "launch")
  /\ UNCHANGED <<mu, pending, staleSettle, preAuthenticated, authenticated,
                 flowVars, serveVars, observed, nextVars, answer, sawFlow>>

\* BeginInteractiveAuth, the go statement, and on to the select.
LaunchFlow(c) ==
  /\ pc[c] = "launch"
  /\ interactiveAuthCount' = interactiveAuthCount + 1
  /\ flow' = [flow EXCEPT ![c] = "queued"]
  /\ Goto(c, IF MethodOf[flowAccount[c]] = "device_code"
             THEN "awaitCode" ELSE "awaitFlow")
  /\ UNCHANGED <<mu, flagVars, preAuthenticated, authenticated, flowAccount,
                 prompted, flowOk, serveVars, observed, nextVars, answer,
                 sawFlow>>

\* case prompt := <-deviceCodeCh
CodeReceived(c) ==
  /\ pc[c] = "awaitCode"
  /\ prompted[c]
  /\ Goto(c, "elicitLink")
  /\ UNCHANGED <<mu, flagVars, preAuthenticated, authenticated, flowVars,
                 serveVars, observed, nextVars, answer, sawFlow>>

\* Mutant of FlowDone: the outcome of the flow is not looked at.
FlowDoneRetriesAnyway(c) ==
  /\ pc[c] \in {"awaitCode", "awaitFlow", "awaitAck"}
  /\ flow[c] = "done"
  /\ pendingAuth' = FALSE
  /\ CallNext(c, "retry", "flow")
  /\ UNCHANGED <<mu, answer, pending, staleSettle, preAuthenticated,
                 authenticated, flowVars, observed, nextVars, sawFlow>>

\* case <-attempt.done
FlowDone(c) ==
  /\ pc[c] \in {"awaitCode", "awaitFlow", "awaitAck"}
  /\ flow[c] = "done"
  /\ pendingAuth' = FALSE
  /\ \/ /\ flowOk[c]
        /\ CallNext(c, "retry", "flow")
        /\ UNCHANGED <<mu, answer>>
     \/ /\ ~flowOk[c]
        /\ Return(c, "failed")
        /\ UNCHANGED serveVars
  /\ UNCHANGED <<pending, staleSettle, preAuthenticated, authenticated,
                 flowVars, observed, nextVars, sawFlow>>

\* Mutant of WaitTimesOut: giving up clears the flag of the flow that goes on.
WaitTimesOutSettles(c) ==
  /\ \/ /\ pc[c] \in {"awaitCode", "awaitFlow"}
        /\ Return(c, "failed")
     \/ /\ pc[c] = "awaitAck"
        /\ Return(c, "instructions")
  /\ pendingAuth' = FALSE
  /\ UNCHANGED <<pending, staleSettle, preAuthenticated, authenticated,
                 flowVars, serveVars, observed, nextVars, sawFlow>>

\* case <-time.After: 15 s for the code, browserTimeout for the sign-in.  The
\* flow goes on, and the flag stays up.
WaitTimesOut(c) ==
  /\ \/ /\ pc[c] \in {"awaitCode", "awaitFlow"}
        /\ Return(c, "failed")
     \/ /\ pc[c] = "awaitAck"
        /\ Return(c, "instructions")
  /\ UNCHANGED <<flagVars, preAuthenticated, authenticated, flowVars,
                 serveVars, observed, nextVars, sawFlow>>

(***************************************************************************)
(* The background goroutine of the attempt call c started                  *)
(***************************************************************************)
goVars == <<mu, flagVars, preAuthenticated, flowAccount, pc, serveVars, observed,
            nextVars, answer, sawFlow>>

\* Authenticate takes the credential's mutex, whatever its context says.
TakeCredential(c) ==
  /\ flow[c] = "queued"
  /\ ~Locked(flowAccount[c])
  /\ flow' = [flow EXCEPT ![c] = "signing"]
  /\ UNCHANGED <<authenticated, interactiveAuthCount, prompted, flowOk, goVars>>

\* Entra issues the code and deviceCodeUserPrompt forwards it, once.
SendDeviceCode(c) ==
  /\ flow[c] = "signing"
  /\ MethodOf[flowAccount[c]] = "device_code"
  /\ ~prompted[c]
  /\ prompted' = [prompted EXCEPT ![c] = TRUE]
  /\ UNCHANGED <<authenticated, interactiveAuthCount, flow, flowOk, goVars>>

\* Mutant of AuthenticateReturns: the prompt callback blocks on the elicitation.
AuthenticateWaitsForClient(c) ==
  /\ flow[c] = "signing"
  /\ pc[c] # "elicitLink"
  /\ flow' = [flow EXCEPT ![c] = "returned"]
  /\ \E good \in BOOLEAN : flowOk' = [flowOk EXCEPT ![c] = good]
  /\ UNCHANGED <<authenticated, interactiveAuthCount, prompted, goVars>>

\* The user signs in, Entra refuses, or the 300 s deadline passes.
AuthenticateReturns(c) ==
  /\ flow[c] = "signing"
  /\ flow' = [flow EXCEPT ![c] = "returned"]
  /\ \E good \in BOOLEAN : flowOk' = [flowOk EXCEPT ![c] = good]
  /\ UNCHANGED <<authenticated, interactiveAuthCount, prompted, goVars>>

MarkAuthenticated(c) ==
  /\ flow[c] = "returned"
  /\ authenticated' = (authenticated \/ flowOk[c])
  /\ flow' = [flow EXCEPT ![c] = "marked"]
  /\ UNCHANGED <<interactiveAuthCount, prompted, flowOk, goVars>>

\* Mutant of EndInteractiveAuth: only a successful flow is counted down.
EndOnSuccessOnly(c) ==
  /\ flow[c] = "marked"
  /\ interactiveAuthCount' =
       interactiveAuthCount - (IF flowOk[c] THEN 1 ELSE 0)
  /\ flow' = [flow EXCEPT ![c] = "ended"]
  /\ UNCHANGED <<authenticated, prompted, flowOk, goVars>>

EndInteractiveAuth(c) ==
  /\ flow[c] = "marked"
  /\ interactiveAuthCount' = interactiveAuthCount - 1
  /\ flow' = [flow EXCEPT ![c] = "ended"]
  /\ UNCHANGED <<authenticated, prompted, flowOk, goVars>>

\* attempt.finish: the error is in place before the channel is closed.
Finish(c) ==
  /\ flow[c] = "ended"
  /\ flow' = [flow EXCEPT ![c] = "done"]
  /\ UNCHANGED <<authenticated, interactiveAuthCount, prompted, flowOk, goVars>>

(***************************************************************************)
(* The specification                                                       *)
(***************************************************************************)
\* The client answers the elicitation call c is blocked on.
ClientAnswers(c) == CodeElicited(c) \/ URLElicited(c) \/ LinkElicited(c)

\* A step of the server on behalf of a call it has received.
CallStep(c) ==
  \/ LoadPendingAuth(c) \/ OutcomeRunning(c) \/ OutcomeFinished(c)
  \/ Settle(c) \/ CheckFresh(c) \/ EntrySilentToken(c)
  \/ RunVerb(c) \/ RunRecoveryVerb(c) \/ CheckInFlight(c)
  \/ RecoveryGetToken(c) \/ LockMu(c) \/ ReauthSilentToken(c)
  \/ AuthCodeURL(c) \/ PublishAttempt(c) \/ RaisePendingAuth(c)
  \/ LaunchFlow(c) \/ CodeReceived(c) \/ FlowDone(c) \/ WaitTimesOut(c)

FlowStep(c) ==
  \/ TakeCredential(c) \/ SendDeviceCode(c) \/ AuthenticateReturns(c)
  \/ MarkAuthenticated(c) \/ EndInteractiveAuth(c) \/ Finish(c)

\* Every call the client had to send is answered and no goroutine is left.
Quiescent ==
  /\ \A c \in Calls : pc[c] = "answered" /\ ~Running(c)
  /\ UNCHANGED vars

Next ==
  \/ \E c \in Calls : Arrive(c) \/ CallStep(c) \/ ClientAnswers(c) \/ FlowStep(c)
  \/ Quiescent

Spec == Init /\ [][Next]_vars

\* The Go scheduler runs every goroutine that can run, every timer fires, and
\* the bounded Authenticate returns.  Nothing is assumed of the client.
ServerFairness == \A c \in Calls : WF_vars(CallStep(c)) /\ WF_vars(FlowStep(c))
SilentClientSpec == Spec /\ ServerFairness

\* ... or the client answers every elicitation it is sent.
FairSpec == SilentClientSpec /\ \A c \in Calls : WF_vars(ClientAnswers(c))

(***************************************************************************)
(* Properties                                                              *)
(***************************************************************************)
\* Every variable holds a value of its type.
TypeOK ==
  /\ mu \in Calls \cup {NoCall}
  /\ pendingAuth \in BOOLEAN
  /\ pending \in Calls \cup {NoCall}
  /\ preAuthenticated \in BOOLEAN
  /\ authenticated \in BOOLEAN
  /\ interactiveAuthCount \in Int
  /\ flow \in [Calls -> Phases]
  /\ flowAccount \in [Calls -> Accounts]
  /\ prompted \in [Calls -> BOOLEAN]
  /\ flowOk \in [Calls -> BOOLEAN]
  /\ pc \in [Calls -> Locations]
  /\ mode \in [Calls -> Modes]
  /\ slot \in [Calls -> Accounts \cup {NoAccount}]
  /\ observed \in [Calls -> Calls \cup {NoCall}]
  /\ runs \in [Calls -> Nat]
  /\ result \in [Calls -> Results]
  /\ grant \in [Calls -> Grants]
  /\ answer \in [Calls -> Answers]
  /\ staleSettle \in BOOLEAN
  /\ sawFlow \in [Calls -> BOOLEAN]

\* Two background sign-ins never run at the same time.
SingleFlight == \A c, d \in Calls : Running(c) /\ Running(d) => c = d

\* pendingAuth keeps sign-ins from overlapping as long as no caller clears it
\* on behalf of an attempt that is no longer the published one: the stale
\* settle is the only way to two concurrent flows.
SingleFlightUnlessStale == ~staleSettle => SingleFlight

\* The counter recovery verbs consult is the number of sign-in goroutines
\* between BeginInteractiveAuth and EndInteractiveAuth, however flows overlap,
\* fail, or outlive the call that started them.
CountMatchesFlows ==
  interactiveAuthCount =
    Cardinality({c \in Calls : flow[c] \in {"queued", "signing", "returned", "marked"}})

\* The middleware believes it is authenticated only after some sign-in, code
\* exchange or silent acquisition succeeded: no order of loads and stores at
\* entry mistakes an unpublished attempt for one that succeeded.
AuthenticatedIsEarned ==
  authenticated => \E c \in Calls : flowOk[c] \/ grant[c] \in {"silent", "code"}

\* Nobody is told that a sign-in is in progress unless one really was while
\* the call was open: a flow that is over freezes no later call.
WaitIsTruthful == \A c \in Calls : answer[c] = "wait" => sawFlow[c]

\* A token was obtained for the call: silently, by a code exchange, or by its flow.
HasToken(c) == grant[c] \in {"silent", "code"} \/ (grant[c] = "flow" /\ flowOk[c])

\* A call runs its handler a second time only once a token was obtained for it,
\* never merely because its flow is over, and never a third time.
RetriesOnceWithToken ==
  \A c \in Calls : runs[c] <= 2 /\ (runs[c] = 2 => HasToken(c))

\* A sign-in started because a mail or calendar verb failed is for the account
\* that verb used, whichever account's flows ran before it.
FlowTargetsResolvedAccount ==
  [][\A c \in Calls \ RecoveryCalls :
       flow[c] = "none" /\ flow'[c] # "none" /\ runs[c] > 0
         => flowAccount'[c] = AccountOf[c]]_vars

\* A call and its sign-in as the client of ToolCallContract sees them.
ContractPhase ==
  [c \in Calls |-> CASE pc[c] = "idle"     -> "new"
                     [] pc[c] = "answered" -> "answered"
                     [] OTHER              -> "open"]
ContractFlow ==
  [c \in Calls |-> CASE flow[c] = "none" -> "none"
                     [] Running(c)       -> "running"
                     [] flow[c] = "done" -> IF flowOk[c] THEN "ok" ELSE "failed"]

\* The middleware gives its clients what ToolCallContract promises: every call
\* is answered, once, after at most two runs of its verb, the second because the
\* first could not authenticate, and every sign-in it starts is decided once.
Contract == INSTANCE ToolCallContract WITH phase <- ContractPhase, flow <- ContractFlow
ContractKept == Contract!Spec

\* A sign-in nobody completes is over in the end even if its caller is stuck:
\* the goroutine never keeps the flow, the credential or the counter forever.
EveryFlowEnds == \A c \in Calls : flow[c] = "created" ~> flow[c] = "done"

\* A recovery verb gets to its handler whatever the state of authentication.
RecoveryReachesHandler ==
  \A c \in RecoveryCalls : pc[c] = "answered" => runs[c] > 0

\* No recovery verb waits for a credential an interactive flow holds.
RecoveryNeverBlocksOnCredential ==
  \A c \in RecoveryCalls : pc[c] = "credential" => ~Locked(AccountOf[c])

\* A recovery verb returns even while the client leaves an elicitation of
\* another call unanswered.
RecoveryAnswered == \A c \in RecoveryCalls : pc[c] = "entry" ~> pc[c] = "answered"

(***************************************************************************)
(* Why SingleFlightUnlessStale holds: the inductive invariant              *)
(***************************************************************************)
InHandler(c) == pc[c] \in {"handler", "credential"}

\* c has the mutex and has seen that no sign-in is in progress.
Deciding(c) == pc[c] \in {"reauth", "authURL", "elicitCode", "elicitURL", "begin"}

\* c has published an attempt and still waits for it.
Attending(c) == pc[c] \in {"raise", "launch", "awaitCode", "elicitLink",
                           "awaitFlow", "awaitAck"}

\* handleAuthError holds mu up to its return, the retried handler included.
Critical(c) == \/ Deciding(c) \/ Attending(c)
               \/ InHandler(c) /\ mode[c] = "retry"

NotBegun(c) == \/ pc[c] \in {"idle", "entry", "outcome", "settle", "fresh",
                             "silent", "lock"}
               \/ Deciding(c)
               \/ InHandler(c) /\ mode[c] # "retry"

MutexInv == \A c \in Calls : Critical(c) => mu = c

AttemptInv ==
  \A c \in Calls : /\ NotBegun(c) => flow[c] = "none"
                   /\ pc[c] \in {"raise", "launch"} => flow[c] = "created"
                   /\ Attending(c) => pending = c

ObservedInv ==
  /\ pending # NoCall => flow[pending] # "none"
  /\ \A c \in Calls : pc[c] = "settle" /\ observed[c] # NoCall
                        => flow[observed[c]] = "done"

\* Until a stale settle, a running attempt is the published one and, once its
\* caller has raised it, the flag stays up.
FlagInv ==
  ~staleSettle =>
    /\ \A d \in Calls : Running(d) => pending = d /\ (pendingAuth \/ pc[d] = "raise")
    /\ \A c \in Calls : Deciding(c) => \A d \in Calls : ~Running(d)

\* The invariant as a whole: the mutex, the published attempt, the attempts
\* observed at entry and the flag agree on who may be signing in.
FlightInv == MutexInv /\ AttemptInv /\ ObservedInv /\ FlagInv

(***************************************************************************)
(* Why the promises to a call hold: the rest of the inductive invariant    *)
(***************************************************************************)
\* c has not been let through to its handler yet.
AtEntry(c) == pc[c] \in {"idle", "entry", "outcome", "settle", "fresh", "silent"}

\* How often c's handler may have run where c is, and what it left behind.
Serviced(c) ==
  /\ AtEntry(c) => runs[c] = 0 /\ grant[c] = "none"
  /\ pc[c] # "answered" => runs[c] = 0 \/ (runs[c] = 1 /\ result[c] = "auth")
  /\ InHandler(c) => \/ mode[c] \in {"direct", "inspected"} /\ runs[c] = 0
                     \/ mode[c] = "retry" /\ HasToken(c)
  /\ pc[c] = "answered" => runs[c] <= 1 \/ (runs[c] = 2 /\ HasToken(c))

\* A verb that could not authenticate has left its account in the slot.
SlotFilled(c) ==
  /\ pc[c] = "credential" => c \in RecoveryCalls
  /\ c \notin RecoveryCalls /\ pc[c] # "answered" /\ runs[c] > 0
       => slot[c] = AccountOf[c]

ServiceInv == \A c \in Calls : Serviced(c) /\ SlotFilled(c)

\* A flow is known to have succeeded only once Authenticate has returned.
OutcomeInv ==
  \A c \in Calls : flowOk[c] => flow[c] \in {"returned", "marked", "ended", "done"}

\* The flag is never raised before an attempt is published, so whoever saw it
\* up finds an attempt to observe.
PublishedInv ==
  /\ pendingAuth => pending # NoCall
  /\ \A c \in Calls : /\ pc[c] = "outcome" => pending # NoCall
                      /\ pc[c] = "settle" => observed[c] # NoCall

\* A call that has passed the entry check with the flag down, and finds it up
\* later, was open when that attempt was published.
SawInv ==
  \A c \in Calls :
    /\ pc[c] \notin {"idle", "answered"} /\ (\E d \in Calls : Running(d)) => sawFlow[c]
    /\ pc[c] \notin {"idle", "entry", "outcome", "settle", "answered"} /\ pendingAuth
         => sawFlow[c]
    /\ answer[c] = "wait" => pc[c] = "answered"

\* The invariant as a whole: a call's progress, its token, its account and the
\* attempts it met agree.
ServedInv == ServiceInv /\ OutcomeInv /\ PublishedInv /\ SawInv

\* The two invariants together: the mutex, the flag and the attempts of pending.go
\* agree with one another, and with where each call is in the middleware, what it
\* holds and what it has seen.
AuthInv == FlightInv /\ ServedInv
===============================================================================
