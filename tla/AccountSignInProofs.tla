-------------------------- MODULE AccountSignInProofs --------------------------
(***************************************************************************)
(* Theorems about AccountSignIn, for any number of calls and labels.       *)
(***************************************************************************)
EXTENDS AccountSignIn, TLAPS

USE MethodAssumption, CredAssumption

-------------------------------------------------------------------------------
\* Types.  A call's record only ever changes in the fields its step names.
LEMMA InitType == Init => TypeOK
<1> SUFFICES ASSUME Init PROVE TypeOK
  OBVIOUS
<1>1. (CHOOSE l \in Labels : TRUE) \in Labels
  OBVIOUS
<1>2. call \in [Calls -> Call]
  BY <1>1 DEF Init, Call, Kinds, Steps, Answers
<1>3. entry \in [Labels -> Entry]
  BY DEF Init, Entry, Absent, Creds
<1>4. QED
  BY <1>2, <1>3 DEF Init, TypeOK, Code

LEMMA CallType ==
  ASSUME TypeOK, NEW c \in Calls, NEW s \in Steps, NEW a \in Answers,
         \/ Goto(c, s)
         \/ Answer(c, a)
         \/ \E k \in Kinds, l \in Labels, cred \in Creds \cup {NoCred} :
              Start(c, k, l, s, cred) \/ Reject(c, k, l, a)
         \/ \E k \in codes : call' = [call EXCEPT ![c].pc = s, ![c].code = k]
  PROVE  call' \in [Calls -> Call]
<1>1. call[c] \in Call /\ codes \subseteq Code
  BY DEF TypeOK
<1>2. "answered" \in Steps /\ "none" \in Answers
  BY DEF Steps, Answers
<1>3. PICK r \in Call : call' = [call EXCEPT ![c] = r]
  <2>1. CASE Goto(c, s)
    <3>1. call' = [call EXCEPT ![c] = [@ EXCEPT !.pc = s]]
      BY <2>1 DEF Goto
    <3>2. [call[c] EXCEPT !.pc = s] \in Call
      BY <1>1 DEF Call
    <3>3. QED
      BY <3>1, <3>2
  <2>2. CASE Answer(c, a)
    <3>1. call' = [call EXCEPT ![c] = [@ EXCEPT !.pc = "answered", !.answer = a]]
      BY <2>2 DEF Answer
    <3>2. [call[c] EXCEPT !.pc = "answered", !.answer = a] \in Call
      BY <1>1, <1>2 DEF Call
    <3>3. QED
      BY <3>1, <3>2
  <2>3. CASE \E k \in Kinds, l \in Labels, cred \in Creds \cup {NoCred} :
               Start(c, k, l, s, cred) \/ Reject(c, k, l, a)
    BY <1>2, <2>3 DEF Start, Reject, Call
  <2>4. CASE \E k \in codes : call' = [call EXCEPT ![c].pc = s, ![c].code = k]
    <3>1. PICK k \in codes : call' = [call EXCEPT ![c] = [@ EXCEPT !.pc = s, !.code = k]]
      BY <2>4
    <3>2. [call[c] EXCEPT !.pc = s, !.code = k] \in Call
      BY <1>1 DEF Call
    <3>3. QED
      BY <3>1, <3>2
  <2>5. QED
    BY <2>1, <2>2, <2>3, <2>4
<1>4. QED
  BY <1>3 DEF TypeOK

\* A URL can still be made for a credential that has made none, so the bound
\* on URLs is not what keeps them apart.
LEMMA FlowBeginsType ==
  ASSUME TypeOK, CredInv, NEW c \in Calls, NEW l \in Labels,
         pc(c) \in {"idle", "silent"}, BeginFlow(c, l)
  PROVE  /\ url' \in [Creds -> 0 .. MaxUrls] /\ verifier' \in [Creds -> 0 .. MaxUrls]
         /\ flow' \in [Calls -> {"none", "running", "prompted", "cancelled", "ok", "failed"}]
<1>1. url[c] = 0 /\ c \in Creds
  BY DEF CredInv, Made, Creds
<1>2. url[c] + 1 \in 0 .. MaxUrls
  BY <1>1
<1>3. url' \in [Creds -> 0 .. MaxUrls] /\ verifier' \in [Creds -> 0 .. MaxUrls]
  BY <1>1, <1>2 DEF BeginFlow, AuthCodeURL, TypeOK
<1>4. QED
  BY <1>3 DEF BeginFlow, TypeOK

LEMMA FirstStepType ==
  ASSUME NEW l \in Labels
  PROVE  FirstStep(l) \in {"elicitBrowser", "elicitCode", "select"}
  BY DEF FirstStep, Labels

LEMMA BeginType ==
  ASSUME TypeOK, CredInv, NEW c \in Calls, NEW l \in Labels,
         BeginAdd(c, l) \/ BeginLogin(c, l) \/ BeginVerb(c, l) \/ BeginComplete(c, l)
  PROVE  TypeOK'
<1>1. CASE BeginAdd(c, l)
  <2>1. call' \in [Calls -> Call]
    <3>1. /\ FirstStep(l) \in Steps /\ c \in Creds \cup {NoCred}
          /\ pending[l] \in Creds \cup {NoCred}
      BY FirstStepType DEF Steps, TypeOK, Creds
    <3>2. \/ \E s \in {"client", FirstStep(l)}, cred \in {c, pending[l]} : Start(c, "add", l, s, cred)
          \/ \E a \in {"error", "progress"} : Reject(c, "add", l, a)
      BY <1>1 DEF BeginAdd, CheckPending
    <3>3. /\ "add" \in Kinds /\ "client" \in Steps /\ NoCred \in Creds \cup {NoCred}
          /\ "error" \in Answers /\ "progress" \in Answers
      BY DEF Kinds, Steps, Answers
    <3>4. QED
      BY <3>1, <3>2, <3>3, CallType
  <2>2. pending' \in [Labels -> Calls \cup {NoCred}]
    BY <1>1 DEF BeginAdd, CheckPending, TakePending, TypeOK
  <2>3. /\ url' \in [Creds -> 0 .. MaxUrls] /\ verifier' \in [Creds -> 0 .. MaxUrls]
        /\ flow' \in [Calls -> {"none", "running", "prompted", "cancelled", "ok", "failed"}]
        /\ UNCHANGED <<token, codes>>
    BY <1>1, FlowBeginsType DEF BeginAdd, CheckPending, signins, TypeOK
  <2>4. QED
    BY <1>1, <2>1, <2>2, <2>3 DEF BeginAdd, TypeOK, history
<1>2. CASE BeginLogin(c, l)
  <2>1. /\ "login" \in Kinds /\ "silent" \in Steps /\ c \in Creds \cup {NoCred}
        /\ "error" \in Answers
    BY DEF Kinds, Steps, Answers, Creds
  <2>2. call' \in [Calls -> Call]
    BY <1>2, <2>1, CallType DEF BeginLogin
  <2>3. QED
    BY <1>2, <2>2 DEF BeginLogin, TypeOK, signins, history
<1>3. CASE BeginVerb(c, l)
  <2>1. "verb" \in Kinds /\ "answered" \in Steps /\ "authcode" \in Answers
    BY DEF Kinds, Steps, Answers
  <2>2. call' \in [Calls -> Call]
    BY <1>3, <2>1, CallType DEF BeginVerb
  <2>3. entry[l].cred \in Creds \cup {NoCred}
    BY DEF TypeOK, Entry
  <2>4. url' \in [Creds -> 0 .. MaxUrls] /\ verifier' \in [Creds -> 0 .. MaxUrls]
    <3>1. CASE entry[l].cred \in Creds
      BY <1>3, <3>1 DEF BeginVerb, AuthCodeURL, TypeOK
    <3>2. CASE entry[l].cred \notin Creds
      BY <1>3, <3>2 DEF BeginVerb, AuthCodeURL, TypeOK
    <3>3. QED
      BY <3>1, <3>2
  <2>5. QED
    BY <1>3, <2>2, <2>4 DEF BeginVerb, TypeOK, history
<1>4. CASE BeginComplete(c, l)
  <2>1. call' \in [Calls -> Call]
    <3>1. CASE Reject(c, "complete", l, "error")
      <4>1. "complete" \in Kinds /\ "error" \in Answers /\ "answered" \in Steps
        BY DEF Kinds, Steps, Answers
      <4>2. QED
        BY <3>1, <4>1, CallType
    <3>2. CASE ~Reject(c, "complete", l, "error")
      <4>1. /\ entry[l].cred \in Creds \cup {NoCred} /\ codes \subseteq Code
            /\ "complete" \in Kinds /\ "exchange" \in Steps /\ "none" \in Answers
        BY DEF TypeOK, Entry, Kinds, Steps, Answers
      <4>2. QED
        BY <1>4, <3>2, <4>1 DEF BeginComplete, TypeOK, Call
    <3>3. QED
      BY <3>1, <3>2
  <2>2. QED
    BY <1>4, <2>1 DEF BeginComplete, TypeOK, signins, history
<1>5. QED
  BY <1>1, <1>2, <1>3, <1>4

LEMMA StepType ==
  ASSUME TypeOK, CredInv, CodeInv, NEW c \in Calls, Runs(c) \/ Elicits(c)
  PROVE  TypeOK'
<1>1. call' \in [Calls -> Call]
  <2>1. /\ {"client", "browser", "exchange", "elicitDevice", "wait", "register"} \subseteq Steps
        /\ {"error", "added", "device", "authcode", "completed"} \subseteq Answers
        /\ FirstStep(lab(c)) \in Steps
        /\ "answered" \in Steps /\ "none" \in Answers
    BY FirstStepType DEF Steps, Answers, TypeOK, Call, lab
  <2>2. \/ \E s \in Steps : \/ Goto(c, s)
                            \/ \E k \in codes : call' = [call EXCEPT ![c].pc = s, ![c].code = k]
        \/ \E a \in Answers : Answer(c, a)
    BY <2>1
       DEF Runs, Elicits, Silent, Browser, ExchangeCode, Select, Wait, Client, Register,
           ElicitBrowser, ElicitCode, ElicitDevice
  <2>3. QED
    BY <2>1, <2>2, CallType
<1>2. /\ url' \in [Creds -> 0 .. MaxUrls] /\ verifier' \in [Creds -> 0 .. MaxUrls]
      /\ flow' \in [Calls -> {"none", "running", "prompted", "cancelled", "ok", "failed"}]
  <2>1. CASE Silent(c) /\ BeginFlow(c, lab(c))
    BY <2>1, FlowBeginsType DEF Silent, TypeOK, Call, lab
  <2>2. CASE Select(c)
    BY <2>2 DEF Select, TypeOK
  <2>3. CASE UNCHANGED <<url, verifier, flow>>
    BY <2>3 DEF TypeOK
  <2>4. QED
    BY <2>1, <2>2, <2>3
       DEF Runs, Elicits, Silent, Browser, ExchangeCode, Wait, Client, Register,
           ElicitBrowser, ElicitCode, ElicitDevice, signins
<1>3. /\ call[c] \in Call /\ lab(c) \in Labels /\ c \in Creds
      /\ pc(c) = "exchange" => call[c].uses \in Creds /\ call[c].code \in Code
  BY DEF TypeOK, Call, lab, Creds, CredInv, Uses, SigningIn, CodeInv
<1>4. token' \subseteq Creds /\ cached' \subseteq Labels /\ codes' \subseteq Code
  BY <1>3
     DEF TypeOK, Runs, Elicits, Silent, Browser, ExchangeCode, Select, Wait, Client, Register,
         ElicitBrowser, ElicitCode, ElicitDevice, signins
<1>5. pending' \in [Labels -> Calls \cup {NoCred}] /\ orphan' \in [Labels -> Calls \cup {NoCred}]
  BY <1>3
     DEF TypeOK, Runs, Elicits, Silent, Browser, ExchangeCode, Select, Wait, Client, Register,
         ElicitBrowser, ElicitCode, ElicitDevice, StorePending
<1>6. entry' \in [Labels -> Entry] /\ claims' \in [Calls -> Nat]
  <2>1. CASE Register(c)
    <3>1. call[c].uses \in Calls
      BY <2>1 DEF Register, CredInv, Uses
    <3>2. [state |-> "connected", cred |-> call[c].uses] \in Entry
      BY <3>1 DEF Entry, Creds
    <3>3. QED
      BY <1>3, <2>1, <3>1, <3>2 DEF Register, TypeOK
  <2>2. CASE UNCHANGED <<entry, claims>>
    BY <2>2 DEF TypeOK
  <2>3. QED
    BY <2>1, <2>2
       DEF Runs, Elicits, Silent, Browser, ExchangeCode, Select, Wait, Client,
           ElicitBrowser, ElicitCode, ElicitDevice, history
<1>7. refused' \subseteq [code : Code, uses : Creds] /\ replaced' \subseteq Calls
  <2>1. pending[lab(c)] \in Calls \cup {NoCred}
    BY <1>3 DEF TypeOK
  <2>2. replaced' \subseteq Calls
    BY <2>1
       DEF TypeOK, Runs, Elicits, Silent, Browser, ExchangeCode, Select, Wait, Client,
           Register, ElicitBrowser, ElicitCode, ElicitDevice, StorePending, history
  <2>3. refused' \subseteq [code : Code, uses : Creds]
    BY <1>3
       DEF TypeOK, Runs, Elicits, Silent, Browser, ExchangeCode, Select, Wait, Client,
           Register, ElicitBrowser, ElicitCode, ElicitDevice, history
  <2>4. QED
    BY <2>2, <2>3
<1>8. QED
  BY <1>1, <1>2, <1>4, <1>5, <1>6, <1>7 DEF TypeOK

LEMMA WorldType ==
  ASSUME TypeOK,
         \/ \E c \in Calls : Prompt(c) \/ FlowSucceeds(c) \/ FlowFails(c)
         \/ \E k \in Creds : UserSignsIn(k)
         \/ \E l \in Labels : Logout(l)
  PROVE  TypeOK'
<1>1. ASSUME NEW c \in Calls, Prompt(c) \/ FlowFails(c) PROVE TypeOK'
  BY <1>1 DEF TypeOK, Prompt, FlowFails, history
<1>2. ASSUME NEW c \in Calls, FlowSucceeds(c) PROVE TypeOK'
  BY <1>2 DEF TypeOK, FlowSucceeds, Call, lab, Creds, history
<1>3. ASSUME NEW k \in Creds, UserSignsIn(k) PROVE TypeOK'
  <2>1. PICK n \in 1 .. url[k] : codes' = codes \cup {[cred |-> k, n |-> n]}
    BY <1>3 DEF UserSignsIn
  <2>2. [cred |-> k, n |-> n] \in Code
    BY DEF Code, TypeOK
  <2>3. QED
    BY <1>3, <2>1, <2>2 DEF TypeOK, UserSignsIn, history
<1>4. ASSUME NEW l \in Labels, Logout(l) PROVE TypeOK'
  <2>1. PICK s \in {"disconnected", "absent"} :
          entry' = [entry EXCEPT ![l] = [state |-> s, cred |-> NoCred]]
    BY <1>4 DEF Logout
  <2>2. [state |-> s, cred |-> NoCred] \in Entry
    BY DEF Entry
  <2>3. QED
    BY <1>4, <2>1, <2>2 DEF TypeOK, Logout, signins, history
<1>5. QED
  BY <1>1, <1>2, <1>3, <1>4

LEMMA NextType == TypeOK /\ SignInInv /\ [Next]_vars => TypeOK'
<1> SUFFICES ASSUME TypeOK, SignInInv, [Next]_vars PROVE TypeOK'
  OBVIOUS
<1>1. ASSUME NEW c \in Calls, Begin(c) PROVE TypeOK'
  BY <1>1, BeginType DEF Begin, SignInInv
<1>2. ASSUME NEW c \in Calls, Runs(c) \/ Elicits(c) PROVE TypeOK'
  BY <1>2, StepType DEF SignInInv
<1>3. CASE UNCHANGED vars
  BY <1>3 DEF vars, signins, history, TypeOK
<1>4. QED
  BY <1>1, <1>2, <1>3, WorldType DEF Next, Quiescent

-------------------------------------------------------------------------------
\* What a step of c does to the calls: only c's record and goroutine change.
LEMMA StepFrame ==
  ASSUME TypeOK, NEW c \in Calls, Begin(c) \/ Runs(c) \/ Elicits(c),
         NEW d \in Calls, d # c
  PROVE  call'[d] = call[d] /\ flow'[d] = flow[d]
<1>1. CASE Begin(c)
  BY SMTT(30), <1>1 DEF Begin, BeginAdd, BeginLogin, BeginVerb, BeginComplete, CheckPending, Start,
              Reject, BeginFlow, signins, TypeOK
<1>2. CASE Runs(c) \/ Elicits(c)
  BY <1>2 DEF Runs, Elicits, Silent, Browser, ExchangeCode, Select, Wait, Client, Register,
              ElicitBrowser, ElicitCode, ElicitDevice, Goto, Answer, BeginFlow,
              signins, TypeOK
<1>3. QED
  BY <1>1, <1>2

LEMMA BeginUses ==
  ASSUME TypeOK, SignInInv, NEW c \in Calls, Begin(c)
  PROVE  Uses(c)'
<1> PICK l \in Labels :
      BeginAdd(c, l) \/ BeginLogin(c, l) \/ BeginVerb(c, l) \/ BeginComplete(c, l)
  BY DEF Begin
<1> USE DEF TypeOK, Start, Reject, Uses, SigningIn, pc
<1>1. CASE BeginAdd(c, l)
  <2>1. FirstStep(l) \in {"elicitBrowser", "elicitCode", "select"}
    BY FirstStepType
  <2>2. pending[l] # NoCred /\ flow[pending[l]] = "ok" => pending[l] \in token \cap Calls
    BY DEF SignInInv, CredInv, Made
  <2>3. UNCHANGED token
    BY <1>1 DEF BeginAdd, CheckPending, signins
  <2>4. \/ Reject(c, "add", l, "error")
        \/ Reject(c, "add", l, "progress")
        \/ pending[l] \in token \cap Calls /\ Start(c, "add", l, "client", pending[l])
        \/ Start(c, "add", l, FirstStep(l), c)
    BY <1>1, <2>2 DEF BeginAdd, CheckPending
  <2>5. QED
    BY <2>1, <2>3, <2>4
<1>2. CASE BeginLogin(c, l)
  BY <1>2 DEF BeginLogin
<1>3. CASE BeginVerb(c, l)
  BY <1>3 DEF BeginVerb
<1>4. CASE BeginComplete(c, l)
  BY <1>4 DEF BeginComplete, Entry
<1>5. QED
  BY <1>1, <1>2, <1>3, <1>4

LEMMA StepUses ==
  ASSUME TypeOK, SignInInv, NEW c \in Calls, Runs(c) \/ Elicits(c)
  PROVE  Uses(c)'
<1> USE DEF TypeOK, Call, Goto, Answer, Uses, SigningIn, pc, lab
<1>1. Uses(c) /\ Made(c) /\ call[c] \in Call
  BY DEF SignInInv, CredInv
<1>2. CASE Silent(c)
  <2>1. FirstStep(lab(c)) \in {"elicitBrowser", "elicitCode", "select"}
    BY FirstStepType
  <2>2. QED
    BY <1>1, <1>2, <2>1 DEF Silent
<1>3. CASE Browser(c) \/ ExchangeCode(c)
  BY <1>1, <1>3 DEF Browser, ExchangeCode
<1>4. CASE Select(c) \/ Wait(c)
  BY <1>1, <1>4 DEF Select, Wait, Made, Over, signins
<1>5. CASE Client(c) \/ Register(c)
  BY <1>1, <1>5 DEF Client, Register, signins
<1>6. CASE Elicits(c)
  BY <1>1, <1>6 DEF Elicits, ElicitBrowser, ElicitCode, ElicitDevice, signins
<1>7. QED
  BY <1>2, <1>3, <1>4, <1>5, <1>6 DEF Runs

\* URLs are made for a credential only by the call it is named after, before
\* anything else, or once it is registered.
LEMMA UrlsMade ==
  ASSUME TypeOK, NEW c \in Calls, Begin(c) \/ Runs(c) \/ Elicits(c),
         NEW k \in Creds, url'[k] # url[k]
  PROVE  /\ pc(c) \in {"idle", "silent"}
         /\ k = c \/ \E l \in Labels : entry[l].cred = k
         /\ pc(c)' \notin {"idle", "silent"}
<1>1. CASE Begin(c)
  <2>1. PICK l \in Labels :
          BeginAdd(c, l) \/ BeginLogin(c, l) \/ BeginVerb(c, l) \/ BeginComplete(c, l)
    BY <1>1 DEF Begin
  <2>2. CASE BeginVerb(c, l)
    BY <2>2 DEF BeginVerb, AuthCodeURL, Reject, pc, TypeOK
  <2>3. CASE Start(c, "add", l, FirstStep(l), c) /\ BeginFlow(c, l) /\ pc(c) = "idle"
    BY <2>3, FirstStepType DEF BeginFlow, AuthCodeURL, Start, pc, TypeOK
  <2>4. QED
    BY <2>1, <2>2, <2>3
       DEF BeginAdd, BeginLogin, BeginComplete, CheckPending, signins
<1>2. CASE Runs(c) \/ Elicits(c)
  <2>1. Silent(c) /\ BeginFlow(c, lab(c)) /\ Goto(c, FirstStep(lab(c)))
    BY <1>2 DEF Runs, Elicits, Silent, Browser, ExchangeCode, Select, Wait, Client,
                Register, ElicitBrowser, ElicitCode, ElicitDevice, signins
  <2>2. lab(c) \in Labels /\ call[c] \in Call
    BY DEF TypeOK, Call, lab
  <2>3. pc(c)' = FirstStep(lab(c))
    BY <2>1, <2>2 DEF Goto, pc, TypeOK, Call
  <2>4. QED
    BY <2>1, <2>2, <2>3, FirstStepType DEF Silent, BeginFlow, AuthCodeURL, TypeOK
<1>3. QED
  BY <1>1, <1>2

\* ... and a goroutine by the step that takes its call to the select.
LEMMA FlowsMade ==
  ASSUME TypeOK, NEW c \in Calls, Begin(c) \/ Runs(c) \/ Elicits(c),
         flow'[c] # flow[c]
  PROVE  /\ pc(c)' \in {"select", "answered"}
         /\ flow'[c] \in {"running", "cancelled"}
         /\ pc(c) \in {"idle", "silent", "select"}
<1>1. CASE Begin(c)
  <2>1. PICK l \in Labels : /\ pc(c) = "idle" /\ Start(c, "add", l, FirstStep(l), c)
                            /\ BeginFlow(c, l)
    BY <1>1 DEF Begin, BeginAdd, BeginLogin, BeginVerb, BeginComplete, CheckPending, signins
  <2>2. l \in DeviceLabels /\ flow'[c] = "running"
    BY <2>1 DEF BeginFlow, TypeOK
  <2>3. FirstStep(l) = "select"
    BY <2>2 DEF FirstStep
  <2>4. QED
    BY <2>1, <2>2, <2>3 DEF Start, pc, TypeOK
<1>2. CASE Silent(c)
  <2>1. BeginFlow(c, lab(c)) /\ Goto(c, FirstStep(lab(c))) /\ pc(c) = "silent"
    BY <1>2 DEF Silent
  <2>2. lab(c) \in DeviceLabels /\ flow'[c] = "running"
    BY <2>1 DEF BeginFlow, TypeOK
  <2>3. FirstStep(lab(c)) = "select"
    BY <2>2 DEF FirstStep
  <2>4. QED
    BY <2>1, <2>2, <2>3 DEF Goto, pc, TypeOK, Call
<1>3. CASE Select(c)
  BY <1>3 DEF Select, Answer, pc, TypeOK, Call
<1>4. QED
  BY <1>1, <1>2, <1>3
     DEF Runs, Elicits, Browser, ExchangeCode, Wait, Client, Register, ElicitBrowser,
         ElicitCode, ElicitDevice, signins

\* What a call that steps is not: answered; and tokens are never taken back.
LEMMA StepOpen ==
  ASSUME TypeOK, NEW c \in Calls, Begin(c) \/ Runs(c) \/ Elicits(c)
  PROVE  pc(c) # "answered" /\ token \subseteq token'
  BY DEF Begin, BeginAdd, BeginLogin, BeginVerb, BeginComplete, CheckPending, Runs,
         Elicits, Silent, Browser, ExchangeCode, Select, Wait, Client, Register,
         ElicitBrowser, ElicitCode, ElicitDevice, signins

\* Where a call comes from when it is, after a step of it, still at its beginning.
LEMMA StepEarly ==
  ASSUME TypeOK, NEW c \in Calls, Begin(c) \/ Runs(c) \/ Elicits(c)
  PROVE  /\ pc(c)' \in {"idle", "silent"} => pc(c) = "idle"
         /\ pc(c)' \in {"elicitBrowser", "browser", "elicitCode", "exchange"} =>
              pc(c) \in {"idle", "silent", "elicitBrowser", "elicitCode"}
<1> USE DEF pc, TypeOK, Call, Start, Reject, Goto, Answer
<1>1. CASE Begin(c)
  BY <1>1 DEF Begin, BeginAdd, BeginLogin, BeginVerb, BeginComplete, CheckPending
<1>2. CASE Silent(c)
  <2>1. FirstStep(lab(c)) \in {"elicitBrowser", "elicitCode", "select"}
    BY SMTT(30), FirstStepType DEF lab
  <2>2. QED
    BY <1>2, <2>1 DEF Silent
<1>3. CASE (Runs(c) \/ Elicits(c)) /\ ~Silent(c)
  BY <1>3 DEF Runs, Elicits, Browser, ExchangeCode, Select, Wait, Client, Register,
              ElicitBrowser, ElicitCode, ElicitDevice
<1>4. QED
  BY <1>1, <1>2, <1>3

LEMMA StepClient ==
  ASSUME TypeOK, SignInInv, NEW c \in Calls, Begin(c) \/ Runs(c) \/ Elicits(c),
         pc(c)' \in {"client", "register"}
  PROVE  flow'[call'[c].uses] \in Alone
<1> USE DEF pc, TypeOK, Call, Start, Reject, Goto, Answer, Alone
<1>1. Uses(c) /\ Made(c)
  BY DEF SignInInv, CredInv
<1>2. CASE Begin(c)
  <2>1. PICK l \in Labels : BeginAdd(c, l) \/ BeginLogin(c, l) \/ BeginVerb(c, l)
                              \/ BeginComplete(c, l)
    BY <1>2 DEF Begin
  <2>2. CASE BeginAdd(c, l)
    BY <2>2, FirstStepType DEF BeginAdd, CheckPending, signins
  <2>3. QED
    BY <2>1, <2>2 DEF BeginLogin, BeginVerb, BeginComplete
<1>3. CASE Silent(c)
  <2>1. FirstStep(lab(c)) \in {"elicitBrowser", "elicitCode", "select"}
    BY FirstStepType DEF lab
  <2>2. QED
    BY <1>1, <1>3, <2>1 DEF Silent, Uses, Made
<1>4. CASE Browser(c) \/ ExchangeCode(c)
  BY <1>1, <1>4 DEF Browser, ExchangeCode, Uses, Made, SigningIn
<1>5. CASE Select(c) \/ Wait(c)
  BY <1>1, <1>5 DEF Select, Wait, Uses, signins
<1>6. CASE Client(c) \/ Register(c)
  BY <1>1, <1>6 DEF Client, Register, Made, signins
<1>7. CASE Elicits(c)
  BY <1>7 DEF Elicits, ElicitBrowser, ElicitCode, ElicitDevice
<1>8. QED
  BY <1>2, <1>3, <1>4, <1>5, <1>6, <1>7 DEF Runs

LEMMA StepMade ==
  ASSUME TypeOK, SignInInv, NEW c \in Calls, Begin(c) \/ Runs(c) \/ Elicits(c),
         NEW d \in Calls
  PROVE  Made(d)'
<1>1. Made(d) /\ Made(c) /\ pc(c) # "answered" /\ token \subseteq token' /\ d \in Creds
  BY StepOpen DEF SignInInv, CredInv, Creds
<1>2. CASE d = c
  <2>1. pc(c)' \in {"idle", "silent"} => url'[c] = 0
    BY <1>1, <1>2, StepEarly, UrlsMade DEF Made
  <2>2. pc(c)' \in {"idle", "silent", "elicitBrowser", "browser", "elicitCode", "exchange"}
          => flow'[c] = "none"
    BY <1>1, StepEarly, FlowsMade DEF Made
  <2>3. flow'[c] = "ok" => c \in token'
    BY <1>1, FlowsMade DEF Made
  <2>4. QED
    BY <1>2, <2>1, <2>2, <2>3, StepClient DEF Made, pc
<1>3. CASE d # c
  <2>1. call'[d] = call[d] /\ flow'[d] = flow[d]
    BY <1>3, StepFrame
  <2>2. pc(d) \in {"idle", "silent"} => url'[d] = 0
    <3>1. \A l \in Labels : entry[l].cred = d => pc(d) = "answered"
      BY DEF SignInInv, EntryInv, ClaimInv
    <3>2. QED
      BY <1>1, <1>3, <3>1, UrlsMade DEF Made
  <2>3. pc(d) \in {"client", "register"} => flow'[call[d].uses] \in Alone
    <3>1. call[d].uses # c
      BY <1>1, <1>3 DEF SignInInv, ClaimInv
    <3>2. pc(d) \in {"client", "register"} => call[d].uses \in Calls
      BY DEF SignInInv, CredInv, Uses
    <3>3. QED
      BY <1>1, <3>1, <3>2, StepFrame DEF Made
  <2>4. QED
    BY <1>1, <2>1, <2>2, <2>3 DEF Made, pc
<1>4. QED
  BY <1>2, <1>3

\* The goroutines and the user change no call, and no credential that is registered
\* or on its way there.
LEMMA WorldCred ==
  ASSUME TypeOK, SignInInv,
         \/ \E c \in Calls : Prompt(c) \/ FlowSucceeds(c) \/ FlowFails(c)
         \/ \E k \in Creds : UserSignsIn(k)
         \/ \E l \in Labels : Logout(l)
         \/ UNCHANGED vars
  PROVE  /\ UNCHANGED <<call, url, verifier, pending, claims, replaced>>
         /\ token \subseteq token'
         /\ \A k \in Calls : flow[k] \in Alone \cup {"failed"} => flow'[k] = flow[k]
         /\ \A k \in Calls : flow'[k] = "ok" => flow[k] = "ok" \/ k \in token'
         /\ \A k \in Calls : flow'[k] = "none" <=> flow[k] = "none"
  BY DEF Prompt, FlowSucceeds, FlowFails, UserSignsIn, Logout, vars, signins, history,
         TypeOK, Alone

LEMMA NextCred == TypeOK /\ SignInInv /\ [Next]_vars => CredInv'
<1> SUFFICES ASSUME TypeOK, SignInInv, [Next]_vars, NEW d \in Calls
             PROVE  Uses(d)' /\ Made(d)'
  BY DEF CredInv
<1>1. Uses(d) /\ Made(d)
  BY DEF SignInInv, CredInv
<1>2. ASSUME NEW c \in Calls, Begin(c) \/ Runs(c) \/ Elicits(c) PROVE Uses(d)' /\ Made(d)'
  <2>1. CASE d = c
    BY <1>2, <2>1, BeginUses, StepUses, StepMade
  <2>2. CASE d # c
    BY <1>1, <1>2, <2>2, StepFrame, StepOpen, StepMade DEF Uses, SigningIn, pc
  <2>3. QED
    BY <2>1, <2>2
<1>3. CASE \/ \E c \in Calls : Prompt(c) \/ FlowSucceeds(c) \/ FlowFails(c)
           \/ \E k \in Creds : UserSignsIn(k)
           \/ \E l \in Labels : Logout(l)
           \/ UNCHANGED vars
  BY <1>1, <1>3, WorldCred DEF Uses, Made, SigningIn, Alone, pc
<1>4. QED
  BY <1>2, <1>3 DEF Next, Quiescent

-------------------------------------------------------------------------------
\* Where the credential of a call that stepped comes from: it is the one it had,
\* its own, none, that of a pending sign-in it took, or that of an account.
LEMMA StepSource ==
  ASSUME TypeOK, SignInInv, NEW c \in Calls, Begin(c) \/ Runs(c) \/ Elicits(c)
  PROVE  \/ /\ call'[c].uses = call[c].uses /\ (SigningIn(c)' => SigningIn(c))
            /\ pc(c) # "idle"
         \/ call'[c].uses = c
         \/ call'[c].uses = NoCred /\ ~SigningIn(c)'
         \/ \E l \in Labels : /\ pending[l] \in Calls /\ call'[c].uses = pending[l]
                              /\ pending' = [pending EXCEPT ![l] = NoCred]
                              /\ flow[pending[l]] = "ok"
         \/ \E l \in Labels : call'[c].uses = entry[l].cred /\ ~SigningIn(c)'
<1> USE DEF TypeOK, pc, SigningIn
<1>1. CASE Begin(c)
  <2>1. PICK l \in Labels : BeginAdd(c, l) \/ BeginLogin(c, l) \/ BeginVerb(c, l)
                              \/ BeginComplete(c, l)
    BY <1>1 DEF Begin
  <2>2. CASE BeginAdd(c, l)
    <3>1. \/ \E a \in Answers : Reject(c, "add", l, a)
          \/ /\ pending[l] \in Calls /\ flow[pending[l]] = "ok" /\ TakePending(l)
             /\ Start(c, "add", l, "client", pending[l])
          \/ Start(c, "add", l, FirstStep(l), c)
      BY <2>2 DEF BeginAdd, CheckPending, Answers
    <3>2. QED
      BY <3>1 DEF Start, Reject, TakePending
  <2>3. CASE BeginLogin(c, l)
    BY <2>3 DEF BeginLogin, Start, Reject
  <2>4. CASE BeginVerb(c, l)
    BY <2>4 DEF BeginVerb, Reject
  <2>5. CASE BeginComplete(c, l)
    BY <2>5 DEF BeginComplete, Reject
  <2>6. QED
    BY <2>1, <2>2, <2>3, <2>4, <2>5
<1>2. CASE Runs(c) \/ Elicits(c)
  <2>1. SigningIn(c) \/ (pc(c) = "exchange" /\ call[c].kind = "complete")
    BY SMTT(30), <1>2 DEF SignInInv, CredInv, Uses, Runs, Elicits, Silent, Browser, ExchangeCode,
                Select, Wait, Client, Register, ElicitBrowser, ElicitCode, ElicitDevice
  <2>2. call'[c].uses = call[c].uses /\ call'[c].kind = call[c].kind /\ pc(c) # "idle"
    BY <1>2 DEF Runs, Elicits, Silent, Browser, ExchangeCode, Select, Wait, Client,
                Register, ElicitBrowser, ElicitCode, ElicitDevice, Goto, Answer, Call
  <2>3. QED
    BY <2>1, <2>2
<1>3. QED
  BY <1>1, <1>2

\* What a step does to the map of account.add.
LEMMA StepPending ==
  ASSUME TypeOK, SignInInv, NEW c \in Calls, Begin(c) \/ Runs(c) \/ Elicits(c)
  PROVE  \/ pending' = pending /\ replaced' = replaced
         \/ \E l \in Labels :
              /\ pending' = [pending EXCEPT ![l] = NoCred] /\ replaced' = replaced
              /\ pending[l] \in Calls
              /\ \/ flow[pending[l]] = "ok" /\ call'[c].uses = pending[l]
                 \/ flow[pending[l]] = "failed"
         \/ /\ pc(c) = "elicitDevice" /\ pc(c)' = "answered" /\ lab(c)' = lab(c)
            /\ lab(c) \in Labels
            /\ pending' = [pending EXCEPT ![lab(c)] = c]
            /\ pending[lab(c)] \in Calls => pending[lab(c)] \in replaced'
            /\ replaced \subseteq replaced'
<1> USE DEF TypeOK, pc, lab
<1>1. CASE Begin(c)
  BY <1>1 DEF Begin, BeginAdd, BeginLogin, BeginVerb, BeginComplete, CheckPending,
              TakePending, Start, history
<1>2. CASE ElicitDevice(c)
  <2>1. call[c] \in Call
    OBVIOUS
  <2>2. CASE Answer(c, "device") /\ StorePending(c) /\ call[c].kind = "add"
    <3>1. call'[c].pc = "answered" /\ call'[c].label = call[c].label
      BY <2>1, <2>2 DEF Answer, Call
    <3>2. pending[lab(c)] \in Calls => pending[lab(c)] \in replaced'
      BY <2>1, <2>2 DEF StorePending, Call, Creds
    <3>3. QED
      BY <1>2, <2>1, <2>2, <3>1, <3>2 DEF ElicitDevice, StorePending, Call
  <2>3. CASE ~(Answer(c, "device") /\ StorePending(c) /\ call[c].kind = "add")
    BY <1>2, <2>3 DEF ElicitDevice, StorePending
  <2>4. QED
    BY <2>2, <2>3
<1>3. CASE (Runs(c) \/ Elicits(c)) /\ ~ElicitDevice(c)
  BY <1>3 DEF Runs, Elicits, Silent, Browser, ExchangeCode, Select, Wait, Client,
              Register, ElicitBrowser, ElicitCode, history
<1>4. QED
  BY <1>1, <1>2, <1>3

\* What a step does to the accounts: only Register changes them.
LEMMA StepEntry ==
  ASSUME TypeOK, SignInInv, NEW c \in Calls, Begin(c) \/ Runs(c) \/ Elicits(c)
  PROVE  \/ UNCHANGED <<entry, claims>>
         \/ /\ SigningIn(c) /\ pc(c)' = "answered"
            /\ call[c].uses \in token \cap Calls /\ call'[c].uses = call[c].uses
            /\ flow[call[c].uses] \in Alone /\ UNCHANGED <<flow, pending>>
            /\ lab(c) \in Labels
            /\ entry' = [entry EXCEPT ![lab(c)] =
                           [state |-> "connected", cred |-> call[c].uses]]
            /\ claims' = [claims EXCEPT ![call[c].uses] = @ + 1]
<1>1. CASE Register(c) /\ ~UNCHANGED <<entry, claims>>
  <2>1. call[c] \in Call /\ Uses(c) /\ Made(c)
    BY DEF TypeOK, SignInInv, CredInv
  <2>2. QED
    BY <1>1, <2>1 DEF Register, Uses, Made, Answer, TypeOK, Call, pc, lab, signins
<1>2. CASE ~Register(c)
  BY <1>2 DEF Begin, BeginAdd, BeginLogin, BeginVerb, BeginComplete, Runs, Elicits,
              Silent, Browser, ExchangeCode, Select, Wait, Client, ElicitBrowser,
              ElicitCode, ElicitDevice, history
<1>3. QED
  BY <1>1, <1>2

\* A credential that is not the stepping call's keeps its goroutine, and one that
\* is claimed or held by another call is not the stepping call's.
LEMMA NotMine ==
  ASSUME TypeOK, SignInInv, NEW c \in Calls, Begin(c) \/ Runs(c) \/ Elicits(c)
  PROVE  /\ claims[c] # 1
         /\ \A d \in Calls \ {c} : call[d].uses # c
         /\ \A l \in Labels : pending[l] # c /\ entry[l].cred # c
  BY StepOpen DEF SignInInv, EntryInv, ClaimInv

LEMMA StepEntryInv ==
  ASSUME TypeOK, SignInInv, NEW c \in Calls, Begin(c) \/ Runs(c) \/ Elicits(c)
  PROVE  EntryInv'
<1> SUFFICES ASSUME NEW l \in Labels
             PROVE  /\ entry'[l].state = "connected" => entry'[l].cred \in token'
                    /\ entry'[l].cred \in Calls =>
                         claims'[entry'[l].cred] = 1 /\ flow'[entry'[l].cred] \in Alone
  BY DEF EntryInv
<1>1. /\ entry[l].state = "connected" => entry[l].cred \in token'
      /\ entry[l].cred \in Calls =>
           claims[entry[l].cred] = 1 /\ flow'[entry[l].cred] \in Alone
  BY StepOpen, StepFrame, NotMine DEF SignInInv, EntryInv
<1>2. CASE UNCHANGED <<entry, claims>>
  BY <1>1, <1>2
<1>3. CASE ~UNCHANGED <<entry, claims>>
  <2>1. /\ SigningIn(c) /\ call[c].uses \in token \cap Calls
        /\ flow'[call[c].uses] \in Alone /\ lab(c) \in Labels
        /\ entry' = [entry EXCEPT ![lab(c)] =
                       [state |-> "connected", cred |-> call[c].uses]]
        /\ claims' = [claims EXCEPT ![call[c].uses] = @ + 1]
    BY <1>3, StepEntry
  <2>2. claims[call[c].uses] = 0
    <3>1. claims[call[c].uses] \in Nat
      BY <2>1 DEF TypeOK
    <3>2. claims[call[c].uses] <= 1 /\ claims[call[c].uses] # 1
      BY <2>1 DEF SignInInv, ClaimInv
    <3>3. QED
      BY <3>1, <3>2
  <2>3. claims'[call[c].uses] = 1
    BY <2>1, <2>2 DEF TypeOK
  <2>4. CASE l = lab(c)
    BY <2>1, <2>3, <2>4, StepOpen DEF TypeOK
  <2>5. CASE l # lab(c)
    BY <1>1, <2>1, <2>2, <2>5 DEF TypeOK
  <2>6. QED
    BY <2>4, <2>5
<1>4. QED
  BY <1>2, <1>3

\* The call whose sign-in it is has to be answered before another gets hold of it.
LEMMA StepHolders ==
  ASSUME TypeOK, SignInInv, NEW e \in Calls, Begin(e) \/ Runs(e) \/ Elicits(e),
         NEW c \in Calls, NEW d \in Calls
  PROVE  /\ call'[d].uses = c /\ d # c => pc(c)' = "answered"
         /\ SigningIn(c)' /\ SigningIn(d)' /\ call'[c].uses = call'[d].uses => c = d
<1>1. ASSUME NEW x \in Calls, NEW y \in Calls, call'[y].uses = x, y # x
      PROVE  pc(x)' = "answered"
  <2>1. CASE y # e
    BY <1>1, <2>1, StepFrame, NotMine DEF SignInInv, ClaimInv, pc
  <2>2. CASE y = e
    <3>1. pc(x) = "answered"
      BY <1>1, <2>2, StepSource DEF SignInInv, ClaimInv, EntryInv, Creds
    <3>2. QED
      BY <1>1, <2>2, <3>1, StepFrame DEF pc
  <2>3. QED
    BY <2>1, <2>2
<1>2. ASSUME NEW y \in Calls, y # e, SigningIn(e)', SigningIn(y)', call'[e].uses = call'[y].uses
      PROVE  FALSE
  <2>1. call'[y] = call[y] /\ SigningIn(y) /\ call[y].uses # e
    BY <1>2, StepFrame, NotMine DEF SigningIn, pc
  <2>2. call[y].uses # NoCred
    <3>1. call[y] \in Call /\ Uses(y)
      BY DEF TypeOK, SignInInv, CredInv
    <3>2. call[y].uses \in Calls
      BY <2>1, <3>1 DEF Uses, SigningIn, Call, Steps, pc
    <3>3. QED
      BY <3>2 DEF Creds
  <2>3. ASSUME NEW l \in Labels, pending[l] \in Calls, call[y].uses = pending[l] PROVE FALSE
    BY <2>1, <2>3 DEF SignInInv, ClaimInv, SigningIn
  <2>4. SigningIn(e) => call[e].uses # call[y].uses
    BY <1>2, <2>1 DEF SignInInv, ClaimInv
  <2>5. QED
    BY <1>2, <2>1, <2>2, <2>3, <2>4, StepSource
<1>3. SigningIn(c)' /\ SigningIn(d)' /\ call'[c].uses = call'[d].uses => c = d
  <2>1. CASE c # e /\ d # e
    BY <2>1, StepFrame DEF SignInInv, ClaimInv, SigningIn, pc
  <2>2. CASE c = e \/ d = e
    BY <1>2, <2>2
  <2>3. QED
    BY <2>1, <2>2
<1>4. QED
  BY <1>1, <1>3

LEMMA StepClaimPending ==
  ASSUME TypeOK, SignInInv, NEW e \in Calls, Begin(e) \/ Runs(e) \/ Elicits(e),
         NEW l \in Labels, NEW c \in Calls, pending'[l] = c
  PROVE  /\ pc(c)' = "answered" /\ lab(c)' = l
         /\ \A d \in Calls \ {c} : call'[d].uses # c
<1>1. CASE pending[l] = c
  <2>1. c # e /\ pc(c) = "answered" /\ lab(c) = l /\ \A d \in Calls \ {c} : call[d].uses # c
    BY <1>1, NotMine DEF SignInInv, ClaimInv
  <2>2. \A k \in Labels : pending[k] = c => k = l
    BY <2>1 DEF SignInInv, ClaimInv
  <2>3. \A k \in Labels : pending' = [pending EXCEPT ![k] = NoCred] => pending[k] # c
    BY <2>2 DEF TypeOK, Creds
  <2>4. \A k \in Labels : entry[k].cred # c
    BY <1>1 DEF SignInInv, EntryInv, ClaimInv
  <2>5. call'[e].uses # c
    BY <2>1, <2>3, <2>4, StepSource DEF Creds
  <2>6. QED
    BY <2>1, <2>5, StepFrame DEF pc, lab
<1>2. CASE pending[l] # c
  <2>1. c = e /\ pc(c)' = "answered" /\ lab(c)' = l
    BY <1>2, StepPending DEF TypeOK, Creds
  <2>2. QED
    BY <2>1, NotMine, StepFrame
<1>3. QED
  BY <1>1, <1>2

LEMMA StepClaims ==
  ASSUME TypeOK, SignInInv, NEW e \in Calls, Begin(e) \/ Runs(e) \/ Elicits(e),
         NEW c \in Calls
  PROVE  /\ claims'[c] <= 1
         /\ claims'[c] = 1 => /\ pc(c)' = "answered"
                              /\ \A l \in Labels : pending'[l] # c
                              /\ \A d \in Calls : SigningIn(d)' => call'[d].uses # c
<1>1. CASE claims'[c] = claims[c]
  <2>1. claims[c] <= 1
    BY DEF SignInInv, ClaimInv
  <2>2. ASSUME claims[c] = 1
        PROVE  /\ pc(c)' = "answered"
               /\ \A l \in Labels : pending'[l] # c
               /\ \A d \in Calls : SigningIn(d)' => call'[d].uses # c
    <3>1. c # e /\ pc(c) = "answered" /\ (\A l \in Labels : pending[l] # c)
          /\ \A d \in Calls : SigningIn(d) => call[d].uses # c
      BY <2>2, NotMine DEF SignInInv, ClaimInv
    <3>2. \A l \in Labels : pending'[l] # c
      BY <3>1, StepPending DEF TypeOK, Creds
    <3>3. SigningIn(e)' => call'[e].uses # c
      BY <3>1, StepSource
    <3>4. QED
      BY <3>1, <3>2, <3>3, StepFrame DEF pc, SigningIn
  <2>3. QED
    BY <1>1, <2>1, <2>2
<1>2. CASE claims'[c] # claims[c]
  <2>1. /\ SigningIn(e) /\ pc(e)' = "answered" /\ call[e].uses = c
        /\ call'[e].uses = c /\ claims' = [claims EXCEPT ![c] = @ + 1] /\ pending' = pending
    BY <1>2, StepEntry DEF TypeOK
  <2>2. claims[c] = 0
    <3>1. claims[c] \in Nat
      BY DEF TypeOK
    <3>2. claims[c] <= 1 /\ claims[c] # 1
      BY <2>1 DEF SignInInv, ClaimInv
    <3>3. QED
      BY <3>1, <3>2
  <2>3. claims'[c] = 1
    BY <2>1, <2>2 DEF TypeOK
  <2>4. pc(c)' = "answered"
    BY <2>1, StepHolders
  <2>5. \A l \in Labels : pending[l] # c
    BY <2>1, NotMine DEF SignInInv, ClaimInv
  <2>6. ASSUME NEW d \in Calls, SigningIn(d)' PROVE call'[d].uses # c
    <3>1. d # e
      BY <2>1, <2>6 DEF SigningIn, pc
    <3>2. SigningIn(d) /\ call'[d] = call[d]
      BY <2>6, <3>1, StepFrame DEF SigningIn, pc
    <3>3. QED
      BY <2>1, <3>1, <3>2 DEF SignInInv, ClaimInv
  <2>7. QED
    BY <2>1, <2>3, <2>4, <2>5, <2>6
<1>3. QED
  BY <1>1, <1>2

LEMMA StepClaimInv ==
  ASSUME TypeOK, SignInInv, NEW e \in Calls, Begin(e) \/ Runs(e) \/ Elicits(e)
  PROVE  ClaimInv'
<1>1. \A c, d \in Calls :
        /\ call'[d].uses = c /\ d # c => pc(c)' = "answered"
        /\ SigningIn(c)' /\ SigningIn(d)' /\ call'[c].uses = call'[d].uses => c = d
  BY StepHolders
<1>2. \A l \in Labels, c \in Calls : pending'[l] = c =>
        /\ pc(c)' = "answered" /\ lab(c)' = l
        /\ \A d \in Calls \ {c} : call'[d].uses # c
  BY StepClaimPending
<1>3. \A c \in Calls :
        /\ claims'[c] <= 1
        /\ claims'[c] = 1 => /\ pc(c)' = "answered"
                             /\ \A l \in Labels : pending'[l] # c
                             /\ \A d \in Calls : SigningIn(d)' => call'[d].uses # c
  BY StepClaims
<1>4. QED
  BY <1>1, <1>2, <1>3 DEF ClaimInv

\* A pending sign-in that leaves the map has failed, is in the hands of the call
\* that took it, or is recorded as replaced.
LEMMA StepKeptInv ==
  ASSUME TypeOK, SignInInv, NEW e \in Calls, Begin(e) \/ Runs(e) \/ Elicits(e)
  PROVE  KeptInv'
<1> SUFFICES ASSUME NEW c \in Calls,
                    call'[c].kind = "add", call'[c].answer = "device",
                    c \notin replaced', flow'[c] # "failed"
             PROVE  \/ pending'[lab(c)'] = c
                    \/ \E d \in Calls \ {c} : call'[d].uses = c
  BY DEF KeptInv, lab
<1>1. CASE c = e
  <2>1. call[e] \in Call /\ call[e].answer # "device"
    BY StepOpen DEF TypeOK, SignInInv, CredInv, Uses
  <2>2. ElicitDevice(e) /\ StorePending(e) /\ call[e].kind = "add" /\ lab(e)' = lab(e)
    <3>1. CASE Begin(e)
      BY SMTT(30), <1>1, <3>1 DEF Begin, BeginAdd, BeginLogin, BeginVerb, BeginComplete, CheckPending,
                        Start, Reject, TypeOK
    <3>2. CASE Runs(e)
      BY <1>1, <2>1, <3>2 DEF Runs, Silent, Browser, ExchangeCode, Select, Wait, Client,
                        Register, Goto, Answer, TypeOK, Call
    <3>3. CASE Elicits(e)
      BY <1>1, <2>1, <3>3 DEF Elicits, ElicitBrowser, ElicitCode, ElicitDevice, Goto,
                        Answer, TypeOK, Call, lab
    <3>4. QED
      BY <3>1, <3>2, <3>3
  <2>3. lab(e) \in Labels
    BY <2>1 DEF Call, lab
  <2>4. QED
    BY <1>1, <2>2, <2>3 DEF StorePending, TypeOK
<1>2. CASE c # e
  <2>1. call'[c] = call[c] /\ flow'[c] = flow[c] /\ lab(c)' = lab(c) /\ lab(c) \in Labels
    BY <1>2, StepFrame DEF lab, TypeOK, Call
  <2>2. c \notin replaced
    BY StepPending
  <2>3. CASE pending[lab(c)] = c
    BY <1>2, <2>1, <2>3, StepPending DEF TypeOK
  <2>4. CASE \E d \in Calls \ {c} : call[d].uses = c
    <3>1. PICK d \in Calls \ {c} : call[d].uses = c
      BY <2>4
    <3>2. call'[d].uses = c
      <4>1. CASE d # e
        BY <3>1, <4>1, StepFrame
      <4>2. CASE d = e
        <5>1. pc(e) # "idle"
          BY <3>1, <4>2 DEF SignInInv, CredInv, Uses, Creds
        <5>2. call[e] \in Call /\ (Runs(e) \/ Elicits(e))
          BY SMTT(30), <5>1 DEF Begin, BeginAdd, BeginLogin, BeginVerb, BeginComplete, TypeOK
        <5>3. call'[e].uses = call[e].uses
          BY <5>2 DEF Runs, Elicits, Silent, Browser, ExchangeCode, Select, Wait, Client,
                      Register, ElicitBrowser, ElicitCode, ElicitDevice, Goto, Answer,
                      Call, TypeOK
        <5>4. QED
          BY <3>1, <4>2, <5>3
      <4>3. QED
        BY <4>1, <4>2
    <3>3. QED
      BY <3>1, <3>2
  <2>5. QED
    BY <2>1, <2>2, <2>3, <2>4 DEF SignInInv, KeptInv
<1>3. QED
  BY <1>1, <1>2

\* A new URL takes the verifier along, and no URL is taken back.
LEMMA StepUrls ==
  ASSUME TypeOK, SignInInv, NEW e \in Calls, Begin(e) \/ Runs(e) \/ Elicits(e)
  PROVE  /\ \A k \in Creds : verifier'[k] = url'[k] /\ url[k] <= url'[k]
         /\ codes' \subseteq codes
         /\ pc(e)' = "exchange" => call'[e].code \in codes \/
              (pc(e) = "exchange" /\ call'[e].code = call[e].code)
<1>1. \A k \in Creds : verifier[k] = url[k] /\ url[k] \in Nat
  BY DEF SignInInv, CodeInv, TypeOK
<1>2. \/ UNCHANGED <<url, verifier>>
      \/ AuthCodeURL(e)
      \/ \E l \in Labels : AuthCodeURL(entry[l].cred)
  BY DEF Begin, BeginAdd, BeginLogin, BeginVerb, BeginComplete, CheckPending, BeginFlow, Runs,
         Elicits, Silent, Browser, ExchangeCode, Select, Wait, Client, Register,
         ElicitBrowser, ElicitCode, ElicitDevice, signins
<1>3. \A k \in Creds : verifier'[k] = url'[k] /\ url[k] <= url'[k]
  BY <1>1, <1>2 DEF AuthCodeURL, TypeOK
<1>4. codes' \subseteq codes
  BY DEF Begin, BeginAdd, BeginLogin, BeginVerb, BeginComplete, CheckPending, Runs,
         Elicits, Silent, Browser, ExchangeCode, Select, Wait, Client, Register,
         ElicitBrowser, ElicitCode, ElicitDevice, signins
<1>5. pc(e)' = "exchange" => call'[e].code \in codes \/
              (pc(e) = "exchange" /\ call'[e].code = call[e].code)
  <2> USE DEF TypeOK, Call, Start, Reject, Goto, Answer, pc
  <2>1. CASE Begin(e)
    BY SMTT(30), <2>1, FirstStepType DEF Begin, BeginAdd, BeginLogin, BeginVerb, BeginComplete,
                               CheckPending
  <2>2. CASE Silent(e)
    <3>1. FirstStep(lab(e)) \in {"elicitBrowser", "elicitCode", "select"}
      BY FirstStepType DEF lab
    <3>2. QED
      BY <2>2, <3>1 DEF Silent
  <2>3. CASE (Runs(e) \/ Elicits(e)) /\ ~Silent(e)
    BY <2>3 DEF Runs, Elicits, Browser, ExchangeCode, Select, Wait, Client, Register,
                ElicitBrowser, ElicitCode, ElicitDevice
  <2>4. QED
    BY <2>1, <2>2, <2>3
<1>6. QED
  BY <1>3, <1>4, <1>5

LEMMA StepCodeInv ==
  ASSUME TypeOK, SignInInv, NEW e \in Calls, Begin(e) \/ Runs(e) \/ Elicits(e)
  PROVE  CodeInv'
<1>1. ASSUME NEW k \in Code, k.n <= url[k.cred] PROVE k.n <= url'[k.cred]
  <2>1. /\ k.cred \in Creds /\ k.n \in Int
        /\ url[k.cred] \in Int /\ url'[k.cred] \in Int
    BY NextType DEF Code, TypeOK, Next
  <2>2. QED
    BY <1>1, <2>1, StepUrls
<1>2. \A k \in Creds : verifier'[k] = url'[k]
  BY StepUrls
<1>3. \A k \in codes : k \in Code /\ k.n <= url[k.cred]
  BY DEF SignInInv, CodeInv, TypeOK
<1>4. \A k \in codes' : k.n <= url'[k.cred]
  BY <1>1, <1>3, StepUrls
<1>5. ASSUME NEW c \in Calls, pc(c)' = "exchange"
      PROVE  call'[c].code \in Code /\ call'[c].code.n <= url'[call'[c].code.cred]
  <2>1. call'[c].code \in codes \/ (pc(c) = "exchange" /\ call'[c].code = call[c].code)
    BY <1>5, StepUrls, StepFrame DEF pc
  <2>2. call'[c].code \in Code /\ call'[c].code.n <= url[call'[c].code.cred]
    BY <1>3, <2>1 DEF SignInInv, CodeInv
  <2>3. QED
    BY <1>1, <2>2
<1>6. QED
  BY <1>2, <1>4, <1>5 DEF CodeInv, pc

LEMMA WorldInv ==
  ASSUME TypeOK, SignInInv,
         \/ \E c \in Calls : Prompt(c) \/ FlowSucceeds(c) \/ FlowFails(c)
         \/ \E k \in Creds : UserSignsIn(k)
         \/ \E l \in Labels : Logout(l)
         \/ UNCHANGED vars
  PROVE  EntryInv' /\ ClaimInv' /\ KeptInv' /\ CodeInv'
<1>1. EntryInv'
  <2>1. \A l \in Labels : \/ entry'[l] = entry[l]
                          \/ entry'[l].cred = NoCred /\ entry'[l].state # "connected"
    BY DEF Prompt, FlowSucceeds, FlowFails, UserSignsIn, Logout, vars, TypeOK
  <2>2. \A k \in Calls : flow[k] \in Alone => flow'[k] \in Alone
    BY WorldCred
  <2>3. QED
    BY <2>1, <2>2, WorldCred DEF SignInInv, EntryInv, Creds
<1>2. ClaimInv'
  BY WorldCred DEF SignInInv, ClaimInv, SigningIn, pc, lab
<1>3. KeptInv'
  BY WorldCred DEF SignInInv, KeptInv, lab
<1>4. CodeInv'
  <2>1. \A k \in codes' : k \in codes \/ k.n <= url[k.cred]
    BY DEF Prompt, FlowSucceeds, FlowFails, UserSignsIn, Logout, vars, signins, TypeOK
  <2>2. QED
    BY <2>1, WorldCred DEF SignInInv, CodeInv, pc
<1>5. QED
  BY <1>1, <1>2, <1>3, <1>4

LEMMA NextSignIn == TypeOK /\ SignInInv /\ [Next]_vars => SignInInv'
<1> SUFFICES ASSUME TypeOK, SignInInv, [Next]_vars PROVE SignInInv'
  OBVIOUS
<1>1. CredInv'
  BY NextCred
<1>2. ASSUME NEW c \in Calls, Begin(c) \/ Runs(c) \/ Elicits(c)
      PROVE  EntryInv' /\ ClaimInv' /\ KeptInv' /\ CodeInv'
  BY <1>2, StepEntryInv, StepClaimInv, StepKeptInv, StepCodeInv
<1>3. QED
  BY <1>1, <1>2, WorldInv DEF Next, Quiescent, SignInInv

LEMMA InitSignIn == Init => SignInInv
<1> SUFFICES ASSUME Init PROVE SignInInv
  OBVIOUS
<1> USE DEF Init, Creds
<1>1. \A c \in Calls : pc(c) = "idle" /\ call[c].uses = NoCred /\ call[c].answer = "none"
  BY DEF pc
<1>2. CredInv
  BY <1>1 DEF CredInv, Uses, Made
<1>3. EntryInv
  BY DEF EntryInv, Absent, Labels
<1>4. ClaimInv
  BY <1>1 DEF ClaimInv, SigningIn
<1>5. KeptInv /\ CodeInv
  BY <1>1 DEF KeptInv, CodeInv
<1>6. QED
  BY <1>2, <1>3, <1>4, <1>5 DEF SignInInv

-------------------------------------------------------------------------------
\* Theorem: every variable of the sign-ins keeps to its type (add_account.go,
\* login_account.go, complete_auth.go).
THEOREM SignInTypes == Spec => []TypeOK
<1>1. TypeOK /\ SignInInv /\ [Next]_vars => TypeOK' /\ SignInInv'
  BY NextType, NextSignIn
<1>2. QED
  BY <1>1, InitType, InitSignIn, PTL DEF Spec

\* Theorem: every sign-in is in one pair of hands, from the call that starts it to
\* the account that gets its credential: its own call, then the map of account.add
\* (storePending), then the call that takes it from the map (checkPending).
THEOREM SignInsAgree == Spec => []SignInInv
<1>1. TypeOK /\ SignInInv /\ [Next]_vars => TypeOK' /\ SignInInv'
  BY NextType, NextSignIn
<1>2. QED
  BY <1>1, InitType, InitSignIn, PTL DEF Spec

\* Theorem: registry.Add and registry.Update connect an account only with a
\* credential that obtained a token.
THEOREM AccountsHaveTokens == Spec => []ConnectedHasToken
<1>1. SignInInv => ConnectedHasToken
  BY DEF SignInInv, EntryInv, ConnectedHasToken
<1>2. QED
  BY <1>1, SignInsAgree, PTL

\* Theorem: however the calls of account.add for a label race for its pending
\* sign-in, one of them at most registers it, and once.
THEOREM SignInsConnectOnce == Spec => []ClaimedOnce
<1>1. SignInInv => ClaimedOnce
  BY DEF SignInInv, ClaimInv, ClaimedOnce
<1>2. QED
  BY <1>1, SignInsAgree, PTL

\* Theorem: a sign-in left to the user and completed is not lost before another
\* account.add picks it up, unless a second one of the label takes its place.
THEOREM PendingSignInsKept == Spec => []PendingIsKept
<1>1. SignInInv => PendingIsKept
  BY DEF SignInInv, KeptInv, PendingIsKept
<1>2. QED
  BY <1>1, SignInsAgree, PTL

\* Theorem: the goroutine of a registered credential is over, so the middleware's
\* counter of sign-ins misses none that another verb could run into.
THEOREM SignInsStayPrivate == Spec => []SignInsArePrivate
<1>1. SignInInv => SignInsArePrivate
  BY DEF SignInInv, EntryInv, Alone, SignInsArePrivate
<1>2. QED
  BY <1>1, SignInsAgree, PTL

\* Theorem: ExchangeCode refuses no code of the last URL AuthCodeURL made for the
\* credential, whichever call made that URL and whichever pastes the code.
THEOREM LatestUrlCounts == Spec => LatestCodeFits
<1>1. ASSUME TypeOK, SignInInv, [Next]_vars, NEW r \in refused' \ refused,
             r.code.cred = r.uses
      PROVE  r.code.n < url[r.uses]
  <2>1. PICK c \in Calls : ExchangeCode(c) /\ r \in refused' \ refused
    BY ZenonT(60), <1>1 DEF Next, Begin, BeginAdd, BeginLogin, BeginVerb, BeginComplete, Runs, Elicits,
                Silent, Browser, Select, Wait, Client, Register, ElicitBrowser, ElicitCode,
                ElicitDevice, Prompt, FlowSucceeds, FlowFails, UserSignsIn, Logout,
                Quiescent, vars, history
  <2>2. /\ r.code = call[c].code /\ r.uses = call[c].uses
        /\ r.code.n # verifier[r.uses] /\ pc(c) = "exchange"
    BY <1>1, <2>1 DEF ExchangeCode
  <2>3. r.code \in Code /\ r.code.n <= url[r.uses]
    BY <1>1, <2>2 DEF SignInInv, CodeInv
  <2>4. r.uses \in Creds /\ r.code.n \in Int /\ url[r.uses] \in Int
    BY <1>1, <2>3 DEF Code, TypeOK
  <2>5. r.code.n # url[r.uses]
    BY <1>1, <2>2, <2>4 DEF SignInInv, CodeInv
  <2>6. QED
    BY <2>3, <2>4, <2>5
<1>2. TypeOK /\ SignInInv /\ [Next]_vars =>
        [\A r \in refused' \ refused : r.code.cred = r.uses => r.code.n < url[r.uses]]_vars
  BY <1>1
<1>3. QED
  BY <1>2, SignInTypes, SignInsAgree, PTL DEF Spec, LatestCodeFits
===============================================================================
