------------------------------ MODULE ToolServer ------------------------------
(***************************************************************************)
(* One call of a mail or calendar verb, from its arrival to its answer:    *)
(* dispatch, account, read-only guard, audit, the handler and its requests *)
(* to Graph with their retries, and the second run of the handler after an *)
(* authentication error.  Meanwhile Graph may be busy, slow or unwilling,  *)
(* the client may leave, an account may be logged out, and other programs  *)
(* change the mailbox.                                                     *)
(*                                                                         *)
(* What the authentication middleware does between the two runs is the     *)
(* subject of AuthMiddleware; here it succeeds or fails.                   *)
(***************************************************************************)
EXTENDS MailHandlers, CalendarHandlers, MailboxService, VerbTable, AccountResolver

CONSTANTS
  Calls,        \* calls a client makes: [op, args]
  Boxes,        \* mailboxes to begin with
  Registries,   \* account registries to begin with
  MaxRetries,   \* retryCfg.MaxRetries
  MaxTrouble    \* bound on the faults, edits and logouts of a behaviour

\* The calls are of mail and calendar verbs, with parameters that their schemas
\* have and of the types they ask for, or of no verb at all.
ASSUME CallsAssumption ==
  \A c \in Calls : IsOperation(c.op) =>
    /\ VerbOf(c.op) \in MailVerbs \cup CalendarVerbs
    /\ DOMAIN c.args \subseteq VerbOf(c.op).params \cup {"bad"}
    /\ WellTyped(c.args) /\ (VerbOf(c.op) \in CalendarVerbs => Timed(c.args))
ASSUME RetriesAssumption == MaxRetries \in Nat
ASSUME BoxesAssumption ==
  \A b \in Boxes : Consistent(b) /\ \A i \in Ids(b) : Described(b.items[i])
ASSUME RegistriesAssumption ==
  \A r \in Registries : \A l \in DOMAIN r : DOMAIN r[l] = {"email", "connected"}

VARIABLES
  readOnly,   \* cfg.ReadOnly
  registry,   \* the accounts
  box,        \* the mailbox of the account in use
  call,       \* the call being served
  phase,      \* "idle", "resolve", "enter", "run", "reauth" or "answered"
  label,      \* the account it was resolved to
  got,        \* replies the running handler has had
  attempt,    \* attempts of the current request that went wrong
  rerun,      \* is this the run after a re-authentication?
  gone,       \* has the client cancelled the call?
  applied,    \* requests of the call that changed the mailbox, in order
  lost,       \* how many of them were not acknowledged
  trouble,    \* faults, edits and logouts so far, by kind
  audit,      \* audit entries of the call
  answer,     \* its result
  round,      \* 2 when the same call is made a second time
  before      \* the mailbox when the call arrived

server == <<readOnly, round, before, call>>
vars == <<server, registry, box, phase, label, got, attempt, rerun, gone, applied, lost,
          trouble, audit, answer>>

-------------------------------------------------------------------------------
(* The verbs. *)

Handle(op, a, replies) ==
  CASE op = "mail.list_folders"           -> ListFolders(a, replies)
    [] op = "mail.list_messages"          -> ListMessages(a, replies)
    [] op = "mail.get_message"            -> GetMessage(a, replies)
    [] op = "mail.search_messages"        -> SearchMessages(a, replies)
    [] op = "mail.get_conversation"       -> GetConversation(a, replies)
    [] op = "mail.list_attachments"       -> ListAttachments(a, replies)
    [] op = "mail.get_attachment"         -> GetAttachment(a, replies)
    [] op = "mail.create_draft"           -> CreateDraft(a, replies)
    [] op = "mail.create_reply_draft"     -> CreateReplyDraft(a, replies)
    [] op = "mail.create_forward_draft"   -> CreateForwardDraft(a, replies)
    [] op = "mail.update_draft"           -> UpdateDraft(a, replies)
    [] op = "mail.delete_draft"           -> DeleteDraft(a, replies)
    [] op = "mail.create_folder"          -> CreateFolder(a, replies)
    [] op = "mail.delete_folder"          -> DeleteFolder(a, replies)
    [] op = "mail.move_message"           -> MoveMessage(a, replies)
    [] op = "mail.move_messages"          -> MoveMessages(a, replies)
    [] op = "calendar.list_calendars"     -> ListCalendars(a, replies)
    [] op = "calendar.list_events"        -> ListEvents(a, replies)
    [] op = "calendar.get_event"          -> GetEvent(a, replies)
    [] op = "calendar.search_events"      -> SearchEvents(a, replies)
    [] op = "calendar.get_free_busy"      -> GetFreeBusy(a, replies)
    [] op \in {"calendar.create_event", "calendar.create_meeting"} -> HandleCreateEvent(a, replies)
    [] op \in {"calendar.update_event", "calendar.update_meeting"} -> HandleUpdateEvent(a, replies)
    [] op = "calendar.delete_event"       -> HandleDeleteEvent(a, replies)
    [] op = "calendar.cancel_meeting"     -> HandleCancelEvent(a, replies)
    [] op = "calendar.respond_event"      -> HandleRespondEvent(a, replies)
    [] op \in {"calendar.reschedule_event", "calendar.reschedule_meeting"} ->
         HandleRescheduleEvent(a, replies)

Step   == Handle(call.op, call.args, got)
Asking == phase = "run" /\ Step.next = "ask"

-------------------------------------------------------------------------------
(* The way of a call through the wrappers. *)

Init ==
  /\ readOnly \in BOOLEAN
  /\ registry \in Registries
  /\ box \in Boxes
  /\ before = box
  /\ phase = "idle" /\ call = [op |-> "", args |-> <<>>] /\ label = ""
  /\ got = <<>> /\ attempt = 0 /\ rerun = FALSE /\ gone = FALSE
  /\ applied = <<>> /\ lost = 0 /\ audit = <<>> /\ round = 1
  /\ trouble = [fault |-> 0, edit |-> 0, logout |-> 0]
  /\ answer = Refused("")

Answer(a) == phase' = "answered" /\ answer' = a

\* buildDispatchHandler
Receive ==
  /\ phase = "idle"
  /\ \E c \in Calls :
       /\ call' = c
       /\ IF IsOperation(c.op) THEN phase' = "resolve" /\ UNCHANGED answer
          ELSE Answer(Refused("unknown operation"))
  /\ UNCHANGED <<readOnly, round, before, registry, box, label, got, attempt, rerun, gone,
                 applied, lost, trouble, audit>>

AccountArg == Arg(call.args, "account", "")

\* The resolver decides on an entry, and reads its client afterwards.
Resolve ==
  /\ phase = "resolve"
  /\ \E r \in ResolveAccount(registry, AccountArg) :
       IF r.ok THEN phase' = "enter" /\ label' = r.value /\ UNCHANGED answer
       ELSE Answer(r) /\ UNCHANGED label
  /\ UNCHANGED <<server, registry, box, got, attempt, rerun, gone, applied, lost, trouble, audit>>

\* mutant: only the first run is recorded
AuditFirstRun(ok) == audit' = IF audit = <<>> THEN <<[op |-> call.op, ok |-> ok]>> ELSE audit
AuditWrap(ok) == audit' = Append(audit, [op |-> call.op, ok |-> ok])
BlockedIfDestructive == readOnly /\ VerbOf(call.op).hints.destructive   \* mutant
Blocked == readOnly /\ VerbOf(call.op).guarded

Enter ==
  /\ phase = "enter"
  /\ CASE Blocked -> Answer(Refused("blocked")) /\ UNCHANGED audit
       [] ~Blocked /\ ~registry[label].connected ->
            Answer(Refused("no account selected")) /\ AuditWrap(FALSE)
       [] OTHER -> phase' = "run" /\ UNCHANGED <<answer, audit>>
  /\ UNCHANGED <<server, registry, box, label, got, attempt, rerun, gone, applied, lost, trouble>>

\* The handler has come to an end.  A first run that failed for want of a
\* valid token leads to re-authentication.
NeedsSignIn == Step.next = "fail" /\ Step.value = "auth"
Conclude ==
  /\ phase = "run" /\ ~Asking
  /\ AuditWrap(Step.next = "done")
  /\ IF NeedsSignIn /\ ~rerun THEN phase' = "reauth" /\ UNCHANGED answer
     ELSE Answer([ok |-> Step.next = "done", value |-> Step.value])
  /\ UNCHANGED <<server, registry, box, label, got, attempt, rerun, gone, applied, lost, trouble>>

\* A token after all: the verb starts again, at the resolver.
SignedIn ==
  /\ phase = "reauth"
  /\ phase' = "resolve" /\ rerun' = TRUE /\ got' = <<>>
  /\ UNCHANGED <<server, registry, box, label, attempt, gone, applied, lost, trouble, audit, answer>>

NotSignedIn ==
  /\ phase = "reauth"
  /\ Answer(Refused("sign in"))
  /\ UNCHANGED <<server, registry, box, label, got, attempt, rerun, gone, applied, lost, trouble,
                 audit>>

-------------------------------------------------------------------------------
(* Requests: RetryGraphCall. *)

\* Graph carries out the request, or it never gets there.
Apply(req, arrived, unacknowledged) ==
  IF arrived /\ Accepts(box, req) /\ req.op \notin {"get", "list"}
  THEN /\ box' = Effect(box, req)
       /\ applied' = Append(applied, req)
       /\ lost' = lost + (IF unacknowledged THEN 1 ELSE 0)
  ELSE UNCHANGED <<box, applied, lost>>

Return(reply) == got' = Append(got, reply) /\ attempt' = 0

Serve ==
  /\ Asking /\ ~gone
  /\ Return(Reply(box, Step.req))
  /\ Apply(Step.req, TRUE, FALSE)
  /\ UNCHANGED <<server, registry, phase, label, rerun, gone, trouble, audit, answer>>

Quiet == trouble.fault + trouble.edit + trouble.logout = 0
Happens(kind) ==
  /\ trouble.fault + trouble.edit + trouble.logout < MaxTrouble
  /\ round = 1
  /\ trouble' = [trouble EXCEPT ![kind] = @ + 1]

\* Status 429, 503 or 504, perhaps after the request took effect: it is sent
\* again until the attempts are used up.  Later pages are asked for once.
GivesUpLate(req) == attempt > MaxRetries \/ "once" \in DOMAIN req   \* mutant
GivesUp(req) == attempt >= MaxRetries \/ "once" \in DOMAIN req
Throttle ==
  /\ Asking /\ ~gone /\ Happens("fault")
  /\ IF GivesUp(Step.req) THEN Return(Refused("unavailable"))
     ELSE attempt' = attempt + 1 /\ UNCHANGED got
  /\ \E arrived \in BOOLEAN : Apply(Step.req, arrived, TRUE)
  /\ UNCHANGED <<server, registry, phase, label, rerun, gone, audit, answer>>

\* The deadline of the request, which no retry can extend.
TimeOut ==
  /\ Asking /\ ~gone /\ Happens("fault")
  /\ Return(Refused("timeout"))
  /\ \E arrived \in BOOLEAN : Apply(Step.req, arrived, TRUE)
  /\ UNCHANGED <<server, registry, phase, label, rerun, gone, audit, answer>>

Unauthorized ==
  /\ Asking /\ ~gone /\ Happens("fault")
  /\ Return(Refused("auth"))
  /\ UNCHANGED <<server, registry, box, phase, label, rerun, gone, applied, lost, audit, answer>>

\* The client cancels; a request under way may still arrive.
Leave ==
  /\ Asking /\ ~gone /\ Happens("fault")
  /\ gone' = TRUE
  /\ Return(Refused("cancelled"))
  /\ \E arrived \in BOOLEAN : Apply(Step.req, arrived, TRUE)
  /\ UNCHANGED <<server, registry, phase, label, rerun, audit, answer>>

Abandon ==
  /\ Asking /\ gone
  /\ Return(Refused("cancelled"))
  /\ UNCHANGED <<server, registry, box, phase, label, rerun, gone, applied, lost, trouble, audit,
                 answer>>

-------------------------------------------------------------------------------
(* The others: another client of the mailbox sends a draft, takes an item
   away, renames a folder or lengthens an event; account.logout. *)

Edits(b) ==
  LET set(i, f) == [b EXCEPT !.items[i] = With(@, f)]
      of(kind)  == {i \in Ids(b) : b.items[i].kind = kind}
  IN {set(i, [is_draft |-> FALSE]) : i \in {m \in of("message") : b.items[m].is_draft}}
     \cup {set(i, [finish |-> b.items[i].finish + 1]) : i \in of("event")}
     \cup {Drop(b, Subtree(b, i)) : i \in of("message") \cup of("event")}

Edit ==
  /\ Asking /\ attempt = 0 /\ Happens("edit")
  /\ box' \in Edits(box)
  /\ UNCHANGED <<server, registry, phase, label, got, attempt, rerun, gone, applied, lost, audit,
                 answer>>

Logout ==
  /\ phase \in {"enter", "reauth"} /\ Happens("logout")
  /\ \E l \in Connected(registry) : registry' = [registry EXCEPT ![l].connected = FALSE]
  /\ UNCHANGED <<server, box, phase, label, got, attempt, rerun, gone, applied, lost, audit, answer>>

\* The same call once more, after an undisturbed first one, when the account is
\* not left to a choice: another choice would be another call.
Decided == \A r, s \in ResolveAccount(registry, AccountArg) : r = s
Repeat ==
  /\ phase = "answered" /\ round = 1 /\ Quiet /\ Decided
  /\ IsOperation(call.op) /\ VerbOf(call.op).hints.idempotent
  /\ round' = 2 /\ before' = box
  /\ phase' = "resolve" /\ rerun' = FALSE
  /\ got' = <<>> /\ applied' = <<>> /\ audit' = <<>>
  /\ UNCHANGED <<readOnly, call, registry, box, label, attempt, gone, lost, trouble, answer>>

\* The behaviour ends with the answer.
Rest ==
  /\ phase = "answered"
  /\ UNCHANGED vars

Next ==
  \/ Receive \/ Resolve \/ Enter \/ Conclude \/ SignedIn \/ NotSignedIn
  \/ Serve \/ Throttle \/ TimeOut \/ Unauthorized \/ Leave \/ Abandon
  \/ Edit \/ Logout \/ Repeat \/ Rest

Spec == Init /\ [][Next]_vars
===============================================================================
