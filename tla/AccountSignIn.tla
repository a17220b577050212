----------------------------- MODULE AccountSignIn -----------------------------
(***************************************************************************)
(* The sign-ins of account.add, account.login and complete_auth: the three *)
(* flows, the pending sign-ins, the PKCE verifier of an auth_code           *)
(* credential (src/internal/tools/add_account.go, login_account.go,         *)
(* complete_auth.go, src/internal/auth/authcode.go, auth.go).  AccountStore *)
(* takes a sign-in as one step; here it is opened up, and the file, the     *)
(* addresses and the crashes are left to AccountStore.                      *)
(*                                                                         *)
(* A credential is named by the call that made it, or by the label for the  *)
(* one restored at startup.                                                 *)
(***************************************************************************)
EXTENDS Integers, FiniteSets

CONSTANTS
  Calls,        \* the calls the client sends
  DeviceLabels, BrowserLabels, CodeLabels,  \* the labels by authentication method
  StartLabels,  \* the labels restored at startup, disconnected
  NoCred,
  MaxUrls       \* authorization URLs made for one credential

Labels == DeviceLabels \cup BrowserLabels \cup CodeLabels
Creds  == Calls \cup Labels

ASSUME MethodAssumption == /\ Labels # {}
                           /\ DeviceLabels \cap BrowserLabels = {}
                           /\ DeviceLabels \cap CodeLabels = {}
                           /\ BrowserLabels \cap CodeLabels = {}
                           /\ StartLabels \subseteq Labels
ASSUME CredAssumption == /\ NoCred \notin Creds
                         /\ Calls \cap Labels = {}
                         /\ MaxUrls \in Nat \ {0}

VARIABLES
  entry,    \* AccountRegistry: the state and the credential of each label
  pending,  \* addAccountState.pending of account.add
  orphan,   \* the same map of account.login
  cached,   \* the label's token cache and record hold a user's tokens
  call,     \* what each call is doing
  flow,     \* the goroutine of a device-code sign-in
  token,    \* the credentials that obtained a token
  url,      \* how many URLs were made for a credential
  verifier, \* the URL the verifier it keeps belongs to, 0 for none
  codes,    \* the codes the user got, by credential and URL
  \* History variables: no action reads them.
  claims,   \* how often a sign-in was registered
  refused,  \* the codes refused for the verifier, with the credential asked
  replaced  \* the pending sign-ins another one took the place of

signins == <<flow, token, url, verifier, codes>>
history == <<claims, refused, replaced>>
vars == <<entry, pending, orphan, cached, call, signins, history>>

(***************************************************************************)
(* Types and helpers                                                       *)
(***************************************************************************)
Absent == [state |-> "absent", cred |-> NoCred]
Entry  == [state : {"absent", "disconnected", "connected"}, cred : Creds \cup {NoCred}]
Kinds  == {"none", "add", "login", "verb", "complete"}
Steps  == {"idle", "client", "silent", "elicitBrowser", "browser", "elicitCode",
           "exchange", "select", "elicitDevice", "wait", "register", "answered"}
Answers == {"none", "error", "added", "progress", "device", "authcode", "completed"}
Code == [cred : Creds, n : 1 .. MaxUrls]

\* uses: the credential the call registers or completes.  code: the code pasted.
Call == [kind : Kinds, label : Labels, pc : Steps, answer : Answers,
         uses : Creds \cup {NoCred}, code : Code \cup {NoCred}]

pc(c) == call[c].pc
lab(c) == call[c].label
Registered(l) == entry[l].state # "absent"
Over(c) == flow[c] \in {"ok", "failed"}

Goto(c, s)    == call' = [call EXCEPT ![c].pc = s]
Answer(c, a)  == call' = [call EXCEPT ![c].pc = "answered", ![c].answer = a]
Start(c, k, l, s, cred) ==
  call' = [call EXCEPT ![c] = [kind |-> k, label |-> l, pc |-> s, answer |-> "none",
                               uses |-> cred, code |-> NoCred]]
Reject(c, k, l, a) ==
  call' = [call EXCEPT ![c] = [kind |-> k, label |-> l, pc |-> "answered",
                               answer |-> a, uses |-> NoCred, code |-> NoCred]]

\* authenticateInline: the first step of the flow of the label's method.
FirstStep(l) == CASE l \in BrowserLabels -> "elicitBrowser"
                  [] l \in CodeLabels    -> "elicitCode"
                  [] l \in DeviceLabels  -> "select"

\* Mutant of AuthCodeURL: the verifier of the first URL is kept.
FirstVerifier(k) ==
  /\ url' = [url EXCEPT ![k] = @ + 1]
  /\ verifier' = [verifier EXCEPT ![k] = IF @ = 0 THEN url'[k] ELSE @]

\* AuthCodeURL: another URL for the credential; its verifier replaces the last.
AuthCodeURL(k) ==
  /\ url' = [url EXCEPT ![k] = @ + 1]
  /\ verifier' = [verifier EXCEPT ![k] = url'[k]]

\* authenticateInline makes the URL, or starts the goroutine, before it waits.
BeginFlow(c, l) ==
  /\ IF l \in CodeLabels THEN AuthCodeURL(c) ELSE UNCHANGED <<url, verifier>>
  /\ flow' = [flow EXCEPT ![c] = IF l \in DeviceLabels THEN "running" ELSE @]

Init ==
  /\ entry = [l \in Labels |-> IF l \in StartLabels
                THEN [state |-> "disconnected", cred |-> l] ELSE Absent]
  /\ pending = [l \in Labels |-> NoCred]
  /\ orphan = [l \in Labels |-> NoCred]
  /\ cached = {}
  /\ call = [c \in Calls |-> [kind |-> "none", label |-> CHOOSE l \in Labels : TRUE,
               pc |-> "idle", answer |-> "none", uses |-> NoCred, code |-> NoCred]]
  /\ flow = [c \in Calls |-> "none"]
  /\ token = {}
  /\ url = [k \in Creds |-> 0]
  /\ verifier = [k \in Creds |-> 0]
  /\ codes = {}
  /\ claims = [c \in Calls |-> 0]
  /\ refused = {}
  /\ replaced = {}

(***************************************************************************)
(* The first step of each verb                                             *)
(***************************************************************************)
\* Mutant of TakePending: the finished sign-in stays in the map.
KeepPending(l) == UNCHANGED pending

TakePending(l) == pending' = [pending EXCEPT ![l] = NoCred]

\* Mutant of CheckPending: a sign-in that is over is taken for a success.
ClaimAnyPending(c, l) ==
  /\ pending[l] # NoCred /\ UNCHANGED signins
  /\ IF Over(pending[l]) THEN TakePending(l) ELSE UNCHANGED pending
  /\ IF Over(pending[l]) THEN Start(c, "add", l, "client", pending[l])
                         ELSE Reject(c, "add", l, "progress")

\* Mutant of CheckPending: it does not look whether the sign-in is over.
ClaimOpenPending(c, l) ==
  /\ pending[l] # NoCred /\ TakePending(l) /\ UNCHANGED signins
  /\ IF flow[pending[l]] = "failed" THEN Reject(c, "add", l, "error")
                                    ELSE Start(c, "add", l, "client", pending[l])

\* checkPending, under pendingMu: a sign-in that is over leaves the map.
CheckPending(c, l) ==
  /\ pending[l] # NoCred /\ UNCHANGED signins
  /\ CASE flow[pending[l]] = "ok" ->
            TakePending(l) /\ Start(c, "add", l, "client", pending[l])
       [] flow[pending[l]] = "failed" -> TakePending(l) /\ Reject(c, "add", l, "error")
       [] OTHER -> Reject(c, "add", l, "progress") /\ UNCHANGED pending

\* HandleAddAccount: a pending sign-in first, then a new one for a new label.
BeginAdd(c, l) ==
  /\ pc(c) = "idle"
  /\ \/ CheckPending(c, l)
     \/ /\ pending[l] = NoCred /\ Registered(l)
        /\ Reject(c, "add", l, "error")
        /\ UNCHANGED <<pending, signins>>
     \/ /\ pending[l] = NoCred /\ ~Registered(l)
        /\ Start(c, "add", l, FirstStep(l), c)
        /\ BeginFlow(c, l)
        /\ UNCHANGED <<pending, token, codes>>
  /\ UNCHANGED <<entry, orphan, cached, history>>

\* handleLoginAccount: only a disconnected account, and a fresh credential.
BeginLogin(c, l) ==
  /\ pc(c) = "idle"
  /\ IF entry[l].state = "disconnected" THEN Start(c, "login", l, "silent", c)
                                        ELSE Reject(c, "login", l, "error")
  /\ UNCHANGED <<entry, pending, orphan, cached, signins, history>>

\* A silent token from the label's cache, or the interactive flow.
Silent(c) ==
  /\ pc(c) = "silent"
  /\ \/ /\ lab(c) \in cached
        /\ token' = token \cup {c}
        /\ Goto(c, "client")
        /\ UNCHANGED <<flow, url, verifier>>
     \/ /\ Goto(c, FirstStep(lab(c)))
        /\ BeginFlow(c, lab(c))
        /\ UNCHANGED token
  /\ UNCHANGED <<entry, pending, orphan, cached, codes, history>>

\* Another verb on a connected account whose token is stale: the middleware makes
\* a URL for its credential and answers with it (AuthMiddleware).
BeginVerb(c, l) ==
  /\ pc(c) = "idle" /\ l \in CodeLabels /\ entry[l].state = "connected"
  /\ url[entry[l].cred] < MaxUrls
  /\ AuthCodeURL(entry[l].cred)
  /\ Reject(c, "verb", l, "authcode")
  /\ UNCHANGED <<entry, pending, orphan, cached, flow, token, codes, history>>

\* HandleCompleteAuth: the credential of the entry, whoever made the URL; it has
\* to be one of the auth_code method.
BeginComplete(c, l) ==
  /\ pc(c) = "idle" /\ UNCHANGED <<entry, pending, orphan, cached, signins, history>>
  /\ IF l \in CodeLabels /\ entry[l].cred # NoCred
     THEN \E k \in codes :
            call' = [call EXCEPT ![c] = [kind |-> "complete", label |-> l,
                       pc |-> "exchange", answer |-> "none",
                       uses |-> entry[l].cred, code |-> k]]
     ELSE Reject(c, "complete", l, "error")

(***************************************************************************)
(* authenticateBrowser and authenticateAuthCode                            *)
(***************************************************************************)
\* The elicitation may fail: the browser opens all the same, for 120 seconds.
ElicitBrowser(c) ==
  /\ pc(c) = "elicitBrowser"
  /\ Goto(c, "browser")
  /\ UNCHANGED <<entry, pending, orphan, cached, signins, history>>

Browser(c) ==
  /\ pc(c) = "browser"
  /\ \/ /\ token' = token \cup {c}
        /\ cached' = cached \cup {lab(c)}
        /\ Goto(c, "client")
     \/ /\ Answer(c, "error")
        /\ UNCHANGED <<token, cached>>
  /\ UNCHANGED <<entry, pending, orphan, flow, url, verifier, codes, history>>

\* Accepted with a code the user has; declined, cancelled or useless; or the
\* client has no elicitation, and the answer points at complete_auth.
ElicitCode(c) ==
  /\ pc(c) = "elicitCode"
  /\ \/ \E k \in codes : call' = [call EXCEPT ![c].pc = "exchange", ![c].code = k]
     \/ Answer(c, "error")
     \/ Answer(c, "authcode")
  /\ UNCHANGED <<entry, pending, orphan, cached, signins, history>>

\* ExchangeCode: the code and the verifier have to be of one URL.  A code is
\* good for one exchange.  The account is kept in the credential and persisted.
ExchangeCode(c) ==
  /\ pc(c) = "exchange"
  /\ LET k == call[c].code
         u == call[c].uses
     IN
     /\ codes' = codes \ {k}
     /\ \/ /\ k.cred = u /\ k.n = verifier[u]
           /\ token' = token \cup {u}
           /\ cached' = cached \cup {lab(c)}
           /\ IF call[c].kind = "complete" THEN Answer(c, "completed")
                                            ELSE Goto(c, "client")
           /\ UNCHANGED refused
        \/ /\ Answer(c, "error")
           /\ refused' = IF k.cred = u /\ k.n = verifier[u] THEN refused
                         ELSE refused \cup {[code |-> k, uses |-> u]}
           /\ UNCHANGED <<token, cached>>
  /\ UNCHANGED <<entry, pending, orphan, flow, url, verifier, claims, replaced>>

(***************************************************************************)
(* authenticateDeviceCode and its goroutine                                *)
(***************************************************************************)
\* The prompt is in the channel, or the goroutine is done; with both in, either.
Select(c) ==
  /\ pc(c) = "select"
  /\ \/ flow[c] # "running" /\ Goto(c, "elicitDevice") /\ UNCHANGED flow
     \/ flow[c] = "ok" /\ Goto(c, "client") /\ UNCHANGED flow
     \/ flow[c] = "failed" /\ Answer(c, "error") /\ UNCHANGED flow
     \/ /\ ~Over(c)  \* 15 seconds are over: the context is cancelled
        /\ Answer(c, "error")
        /\ flow' = [flow EXCEPT ![c] = "cancelled"]
  /\ UNCHANGED <<entry, pending, orphan, cached, token, url, verifier, codes, history>>

\* Mutant of StorePending: every handler stores in the map of account.login.
StoreAside(c) ==
  /\ orphan' = [orphan EXCEPT ![lab(c)] = c]
  /\ UNCHANGED <<pending, replaced>>

\* Mutant of StorePending: the map is given the account, not its sign-in.
StoreLabel(c) ==
  /\ pending' = [pending EXCEPT ![lab(c)] = lab(c)]
  /\ UNCHANGED <<orphan, replaced>>

\* storePending, in the map of the handler that runs: account.login has its own.
StorePending(c) ==
  IF call[c].kind = "add"
  THEN /\ pending' = [pending EXCEPT ![lab(c)] = c]
       /\ replaced' = replaced \cup ({pending[lab(c)]} \ {NoCred})
       /\ UNCHANGED orphan
  ELSE /\ orphan' = [orphan EXCEPT ![lab(c)] = c]
       /\ UNCHANGED <<pending, replaced>>

\* presentDeviceCodeElicitation: without elicitation the sign-in is left pending
\* and the answer carries the code.
ElicitDevice(c) ==
  /\ pc(c) = "elicitDevice"
  /\ \/ Goto(c, "wait") /\ UNCHANGED <<pending, orphan, replaced>>
     \/ Answer(c, "device") /\ StorePending(c)
  /\ UNCHANGED <<entry, cached, signins, claims, refused>>

Wait(c) ==
  /\ pc(c) = "wait" /\ Over(c)
  /\ IF flow[c] = "ok" THEN Goto(c, "client") ELSE Answer(c, "error")
  /\ UNCHANGED <<entry, pending, orphan, cached, signins, history>>

\* The goroutine has a code for the user.
Prompt(c) ==
  /\ flow[c] = "running"
  /\ flow' = [flow EXCEPT ![c] = "prompted"]
  /\ UNCHANGED <<entry, pending, orphan, cached, call, token, url, verifier, codes, history>>

\* The user enters it before the 300 seconds are over.
FlowSucceeds(c) ==
  /\ flow[c] = "prompted"
  /\ flow' = [flow EXCEPT ![c] = "ok"]
  /\ token' = token \cup {c}
  /\ cached' = cached \cup {lab(c)}
  /\ UNCHANGED <<entry, pending, orphan, call, url, verifier, codes, history>>

\* Mutant of FlowFails: a prompt that was shown is waited for without a deadline.
FailsUnprompted(c) ==
  /\ flow[c] \in {"running", "cancelled"}
  /\ flow' = [flow EXCEPT ![c] = "failed"]
  /\ UNCHANGED <<entry, pending, orphan, cached, call, token, url, verifier, codes, history>>

\* No code, the sign-in refused, cancelled, or the 300 seconds over.
FlowFails(c) ==
  /\ flow[c] \in {"running", "prompted", "cancelled"}
  /\ flow' = [flow EXCEPT ![c] = "failed"]
  /\ UNCHANGED <<entry, pending, orphan, cached, call, token, url, verifier, codes, history>>

(***************************************************************************)
(* The registry                                                            *)
(***************************************************************************)
\* graphClientFactory: a failure ends the call, and its sign-in is lost.
Client(c) ==
  /\ pc(c) = "client"
  /\ Goto(c, "register") \/ Answer(c, "error")
  /\ UNCHANGED <<entry, pending, orphan, cached, signins, history>>

\* registry.Add refuses a label that is there; registry.Update one that is not.
Register(c) ==
  /\ pc(c) = "register"
  /\ IF Registered(lab(c)) = (call[c].kind = "login")
     THEN /\ entry' = [entry EXCEPT ![lab(c)] =
                         [state |-> "connected", cred |-> call[c].uses]]
          /\ claims' = [claims EXCEPT ![call[c].uses] = @ + 1]
          /\ Answer(c, "added")
     ELSE Answer(c, "error") /\ UNCHANGED <<entry, claims>>
  /\ UNCHANGED <<pending, orphan, cached, signins, refused, replaced>>

(***************************************************************************)
(* The user and the other account verbs                                    *)
(***************************************************************************)
\* The user signs in at any URL that was made and has its code.
UserSignsIn(k) ==
  /\ \E n \in 1 .. url[k] : codes' = codes \cup {[cred |-> k, n |-> n]}
  /\ UNCHANGED <<entry, pending, orphan, cached, call, flow, token, url, verifier, history>>

\* account.logout and account.remove: the entry loses its credential.
Logout(l) ==
  /\ entry[l].state = "connected"
  /\ \E s \in {"disconnected", "absent"} :
       entry' = [entry EXCEPT ![l] = [state |-> s, cred |-> NoCred]]
  /\ cached' = cached \ {l}
  /\ UNCHANGED <<pending, orphan, call, signins, history>>

(***************************************************************************)
(* The specification                                                       *)
(***************************************************************************)
Begin(c) == \E l \in Labels : BeginAdd(c, l) \/ BeginLogin(c, l) \/ BeginVerb(c, l)
                                \/ BeginComplete(c, l)

\* The steps a call takes by itself, and those that wait for the client.
Runs(c) == \/ Silent(c) \/ Browser(c) \/ ExchangeCode(c) \/ Select(c) \/ Wait(c)
           \/ Client(c) \/ Register(c)
Elicits(c) == ElicitBrowser(c) \/ ElicitCode(c) \/ ElicitDevice(c)

Quiescent == (\A c \in Calls : pc(c) = "answered") /\ UNCHANGED vars

Next == \/ \E c \in Calls : Begin(c) \/ Runs(c) \/ Elicits(c)
        \/ \E c \in Calls : Prompt(c) \/ FlowSucceeds(c) \/ FlowFails(c)
        \/ \E k \in Creds : UserSignsIn(k)
        \/ \E l \in Labels : Logout(l)
        \/ Quiescent

Spec == Init /\ [][Next]_vars

\* Goroutines run, deadlines pass, and the client answers its elicitations.
Fair == \A c \in Calls :
  /\ WF_vars(Runs(c)) /\ WF_vars(Elicits(c)) /\ WF_vars(FlowFails(c))
FairSpec == Spec /\ Fair

(***************************************************************************)
(* Properties                                                              *)
(***************************************************************************)
\* Every variable holds a value of its type.
TypeOK ==
  /\ entry \in [Labels -> Entry]
  /\ pending \in [Labels -> Calls \cup {NoCred}]
  /\ orphan \in [Labels -> Calls \cup {NoCred}]
  /\ cached \subseteq Labels
  /\ call \in [Calls -> Call]
  /\ flow \in [Calls -> {"none", "running", "prompted", "cancelled", "ok", "failed"}]
  /\ token \subseteq Creds
  /\ url \in [Creds -> 0 .. MaxUrls] /\ verifier \in [Creds -> 0 .. MaxUrls]
  /\ codes \subseteq Code
  /\ claims \in [Calls -> Nat]
  /\ refused \subseteq [code : Code, uses : Creds]
  /\ replaced \subseteq Calls

\* An account is connected only by a credential that obtained a token, whether
\* its sign-in was waited for or picked up by a later account.add.
ConnectedHasToken ==
  \A l \in Labels : entry[l].state = "connected" => entry[l].cred \in token

\* A sign-in connects at most one account, once: two calls that find it finished
\* do not both register its credential, not even with a removal in between.
ClaimedOnce == \A c \in Calls : claims[c] <= 1

\* A sign-in account.add left to the user, and that the user completed, is there
\* for the next account.add of the label to pick up, unless a second one of the
\* same label took its place while both were open.
PendingIsKept ==
  \A c \in Calls :
    /\ call[c].kind = "add" /\ call[c].answer = "device" /\ flow[c] = "ok"
    /\ c \notin replaced
    => pending[lab(c)] = c \/ \E d \in Calls \ {c} : call[d].uses = c

\* No registered account has a credential whose sign-in is under way: the verbs
\* that consult the counter of interactive sign-ins, which account.add and
\* account.login do not raise, cannot block on one.
SignInsArePrivate ==
  \A c \in Calls : flow[c] \in {"running", "prompted", "cancelled"}
                      => \A l \in Labels : entry[l].cred # c

\* A code is refused for its verifier only if it was not of the last URL made
\* for the credential it was pasted for.
LatestCodeFits ==
  [][\A r \in refused' \ refused : r.code.cred = r.uses => r.code.n < url[r.uses]]_vars

\* Every call whose elicitations are answered is answered, and the goroutine it has
\* started ends, however long the user takes to sign in.
SignInsEnd == \A c \in Calls :
  pc(c) # "idle" ~> pc(c) = "answered" /\ (flow[c] = "none" \/ Over(c))

\* A sign-in whose answer told the user how to finish it can be finished that way:
\* by another account.add, or by complete_auth with the label.
FallbackCanBeFinished ==
  \A c \in Calls : call[c].kind \in {"add", "login"} =>
    /\ call[c].answer = "device" /\ flow[c] = "ok" /\ c \notin replaced =>
         pending[lab(c)] = c \/ \E d \in Calls \ {c} : call[d].uses = c
    /\ call[c].answer = "authcode" /\ [cred |-> c, n |-> 1] \in codes =>
         entry[lab(c)].cred = c

(***************************************************************************)
(* Why they hold: the inductive invariant                                  *)
(***************************************************************************)
Alone == {"none", "ok"}  \* a credential whose goroutine, if any, is done with it

\* c is on its way to an account, with its own credential or one it picked up.
SigningIn(c) == call[c].kind \in {"add", "login"} /\ pc(c) \notin {"idle", "answered"}

\* What a call may do with which credential.
Uses(c) ==
  /\ pc(c) = "idle" => call[c].uses = NoCred
  /\ pc(c) \in {"silent", "elicitBrowser", "browser", "elicitCode", "select",
                "elicitDevice", "wait"} => SigningIn(c) /\ call[c].uses = c
  /\ pc(c) = "exchange" =>
       IF SigningIn(c) THEN call[c].uses = c
                       ELSE call[c].kind = "complete" /\ call[c].uses \in Creds
  /\ pc(c) \in {"client", "register"} => SigningIn(c) /\ call[c].uses \in token \cap Calls
  /\ call[c].answer # "none" => pc(c) = "answered"

\* When a call's goroutine and URLs can have begun, and what a finished one left.
Made(c) ==
  /\ pc(c) \in {"idle", "silent"} => url[c] = 0
  /\ pc(c) \in {"idle", "silent", "elicitBrowser", "browser", "elicitCode", "exchange"}
       => flow[c] = "none"
  /\ pc(c) \in {"client", "register"} => flow[call[c].uses] \in Alone
  /\ flow[c] = "ok" => c \in token

CredInv == \A c \in Calls : Uses(c) /\ Made(c)

\* A registered credential was claimed, and nothing of its sign-in is left.
EntryInv ==
  \A l \in Labels :
    /\ entry[l].state = "connected" => entry[l].cred \in token
    /\ entry[l].cred \in Calls =>
         claims[entry[l].cred] = 1 /\ flow[entry[l].cred] \in Alone

\* The right to register a credential: the call that made it has it first, the
\* map of account.add after that call, then the one that took it from the map.
ClaimInv ==
  /\ \A c, d \in Calls : call[d].uses = c /\ d # c => pc(c) = "answered"
  /\ \A c, d \in Calls : /\ SigningIn(c) /\ SigningIn(d)
                         /\ call[c].uses = call[d].uses
                         => c = d
  /\ \A l \in Labels, c \in Calls : pending[l] = c =>
       /\ pc(c) = "answered" /\ lab(c) = l
       /\ \A d \in Calls \ {c} : call[d].uses # c
  /\ \A c \in Calls :
       /\ claims[c] <= 1
       /\ claims[c] = 1 => /\ pc(c) = "answered"
                           /\ \A l \in Labels : pending[l] # c
                           /\ \A d \in Calls : SigningIn(d) => call[d].uses # c

\* A sign-in left to the user leaves the map only replaced, failed or picked up.
KeptInv ==
  \A c \in Calls :
    /\ call[c].kind = "add" /\ call[c].answer = "device"
    /\ c \notin replaced /\ flow[c] # "failed"
    => pending[lab(c)] = c \/ \E d \in Calls \ {c} : call[d].uses = c

\* The verifier a credential keeps is that of its last URL; codes are of URLs made.
CodeInv ==
  /\ \A k \in Creds : verifier[k] = url[k]
  /\ \A k \in codes : k.n <= url[k.cred]
  /\ \A c \in Calls : pc(c) = "exchange" =>
       call[c].code \in Code /\ call[c].code.n <= url[call[c].code.cred]

\* The invariant as a whole: every sign-in is in one pair of hands (its call's, the
\* pending map's, the call's that took it from the map), the token and the
\* account it obtained are those that get registered, and the verifier of a
\* credential is that of its last URL.
SignInInv == CredInv /\ EntryInv /\ ClaimInv /\ KeptInv /\ CodeInv
===============================================================================
