--------------------------- MODULE ToolPromisesProofs --------------------------
(***************************************************************************)
(* Theorems about ToolPromises, for any calls, mailboxes and registries,   *)
(* any number of retries and any amount of trouble.                        *)
(***************************************************************************)
EXTENDS ToolPromises, HandlerProofs, FiniteSetTheorems

-------------------------------------------------------------------------------
\* Lists.
LEMMA ListFacts ==
  ASSUME NEW s, IsList(s)
  PROVE  /\ s \in Seq({s[k] : k \in 1 .. Len(s)})
         /\ DOMAIN s = 1 .. Len(s)
<1>1. /\ Len(s) \in Nat /\ s = [k \in 1 .. Len(s) |-> s[k]]
  BY DEF IsList
<1> DEFINE n == Len(s)
<1>2. \A k \in 1 .. n : s[k] \in {s[j] : j \in 1 .. n}
  OBVIOUS
<1> HIDE DEF n
<1>3. [k \in 1 .. n |-> s[k]] \in Seq({s[k] : k \in 1 .. n})
  BY <1>1, <1>2 DEF n
<1>4. QED
  BY <1>1, <1>3 DEF n

LEMMA SeqIsList ==
  ASSUME NEW S, NEW s \in Seq(S)
  PROVE  IsList(s)
BY DEF IsList

LEMMA AppendFacts ==
  ASSUME NEW s, IsList(s), NEW x
  PROVE  /\ IsList(Append(s, x)) /\ Append(s, x) # <<>>
         /\ Len(Append(s, x)) = Len(s) + 1 /\ Append(s, x)[Len(s) + 1] = x
         /\ DOMAIN Append(s, x) = 1 .. Len(s) + 1
         /\ \A k \in 1 .. Len(s) : Append(s, x)[k] = s[k]
<1> DEFINE S == {s[k] : k \in 1 .. Len(s)} \cup {x}
           t == Append(s, x)
<1>1. s \in Seq(S)
  <2>1. s \in Seq({s[k] : k \in 1 .. Len(s)})
    BY ListFacts
  <2>2. QED
    BY <2>1
<1>2. x \in S
  OBVIOUS
<1> HIDE DEF S
<1>3. /\ t \in Seq(S) /\ Len(t) = Len(s) + 1 /\ t[Len(s) + 1] = x /\ DOMAIN t = 1 .. Len(s) + 1
      /\ \A k \in 1 .. Len(s) : t[k] = s[k]
  BY <1>1, <1>2
<1> HIDE DEF t
<1>4. t # <<>>
  <2>1. Len(s) \in Nat
    BY DEF IsList
  <2>2. QED
    BY <1>3, <2>1
<1>5. IsList(t)
  BY <1>3, SeqIsList
<1>6. QED
  BY <1>3, <1>4, <1>5 DEF t

LEMMA EmptyList == IsList(<<>>) /\ Len(<<>>) = 0 /\ DOMAIN <<>> = {}
BY DEF IsList

-------------------------------------------------------------------------------
\* Verbs.
ReadNames ==
  {"mail.list_folders", "mail.list_messages", "mail.get_message", "mail.search_messages",
   "mail.get_conversation", "mail.list_attachments", "mail.get_attachment",
   "calendar.list_calendars", "calendar.list_events", "calendar.get_event",
   "calendar.search_events", "calendar.get_free_busy"}
RemoveNames ==
  {"mail.delete_draft", "mail.delete_folder", "calendar.delete_event", "calendar.cancel_meeting"}
WriteNames ==
  {"mail.create_draft", "mail.create_reply_draft", "mail.create_forward_draft",
   "mail.update_draft", "mail.create_folder", "mail.move_message", "mail.move_messages",
   "calendar.create_event", "calendar.create_meeting", "calendar.update_event",
   "calendar.update_meeting", "calendar.respond_event", "calendar.reschedule_event",
   "calendar.reschedule_meeting"}

\* What the table says of a verb agrees with its name.
LEMMA MailTable ==
  ASSUME NEW v \in MailVerbs
  PROVE  /\ v.name \in ReadNames \cup RemoveNames \cup WriteNames
         /\ ~v.guarded \/ v.hints.readOnly => v.name \in ReadNames
         /\ ~v.hints.destructive => v.name \notin RemoveNames
BY DEF MailVerbs, ReadNames, RemoveNames, WriteNames, Plain, Guarded, Reads, Adds, Changes, Removes,
       ListFoldersVerb, ListMessagesVerb, GetMessageVerb, SearchMessagesVerb, GetConversationVerb,
       ListAttachmentsVerb, GetAttachmentVerb, CreateDraftVerb, CreateReplyDraftVerb,
       CreateForwardDraftVerb, UpdateDraftVerb, DeleteDraftVerb, CreateFolderVerb,
       DeleteFolderVerb, MoveMessageVerb, MoveMessagesVerb

LEMMA CalendarTable ==
  ASSUME NEW v \in CalendarVerbs
  PROVE  /\ v.name \in ReadNames \cup RemoveNames \cup WriteNames
         /\ ~v.guarded \/ v.hints.readOnly => v.name \in ReadNames
         /\ ~v.hints.destructive => v.name \notin RemoveNames
BY DEF CalendarVerbs, ReadNames, RemoveNames, WriteNames, Plain, Guarded, Reads, Adds, Changes,
       Removes, ListCalendarsVerb, ListEventsVerb, GetEventVerb, SearchEventsVerb, CreateEventVerb,
       UpdateEventVerb, DeleteEventVerb, RespondEventVerb, RescheduleEventVerb, CreateMeetingVerb,
       UpdateMeetingVerb, CancelMeetingVerb, RescheduleMeetingVerb, GetFreeBusyVerb

LEMMA CallVerb ==
  ASSUME NEW c \in Calls, IsOperation(c.op)
  PROVE  /\ c.op \in ReadNames \cup RemoveNames \cup WriteNames
         /\ ~VerbOf(c.op).guarded \/ VerbOf(c.op).hints.readOnly => c.op \in ReadNames
         /\ ~VerbOf(c.op).hints.destructive => c.op \notin RemoveNames
         /\ WellTyped(c.args)
<1>1. VerbOf(c.op).name = c.op
  BY DEF VerbOf, IsOperation
<1>2. VerbOf(c.op) \in MailVerbs \cup CalendarVerbs /\ WellTyped(c.args)
  BY CallsAssumption
<1>3. QED
  BY <1>1, <1>2, MailTable, CalendarTable

-------------------------------------------------------------------------------
\* Handlers: what each verb asks Graph for.
Adding == Reading \cup {"create", "patch", "derive", "move", "act"}
Taking == Reading \cup {"delete", "cancel"}
Every  == Adding \cup Taking

LEMMA ReadsKeep ==
  ASSUME NEW op \in ReadNames, NEW a, WellTyped(a), NEW S, NEW rs \in Seq(S), Heard(S)
  PROVE  Keeps(Handle(op, a, rs), Reading, S)
<1>1. CASE op = "mail.list_folders"
  <2>1. Handle(op, a, rs) = ListFolders(a, rs)
    BY <1>1 DEF Handle
  <2>2. QED
    BY <2>1, ListFoldersKeeps
<1>2. CASE op = "mail.list_messages"
  <2>1. Handle(op, a, rs) = ListMessages(a, rs)
    BY <1>2 DEF Handle
  <2>2. QED
    BY <2>1, ListMessagesKeeps
<1>3. CASE op = "mail.get_message"
  <2>1. Handle(op, a, rs) = GetMessage(a, rs)
    BY <1>3 DEF Handle
  <2>2. QED
    BY <2>1, GetMessageKeeps
<1>4. CASE op = "mail.search_messages"
  <2>1. Handle(op, a, rs) = SearchMessages(a, rs)
    BY <1>4 DEF Handle
  <2>2. QED
    BY <2>1, SearchMessagesKeeps
<1>5. CASE op = "mail.get_conversation"
  <2>1. Handle(op, a, rs) = GetConversation(a, rs)
    BY <1>5 DEF Handle
  <2>2. QED
    BY <2>1, GetConversationKeeps
<1>6. CASE op = "mail.list_attachments"
  <2>1. Handle(op, a, rs) = ListAttachments(a, rs)
    BY <1>6 DEF Handle
  <2>2. QED
    BY <2>1, ListAttachmentsKeeps
<1>7. CASE op = "mail.get_attachment"
  <2>1. Handle(op, a, rs) = GetAttachment(a, rs)
    BY <1>7 DEF Handle
  <2>2. QED
    BY <2>1, GetAttachmentKeeps
<1>8. CASE op = "calendar.list_calendars"
  <2>1. Handle(op, a, rs) = ListCalendars(a, rs)
    BY <1>8 DEF Handle
  <2>2. QED
    BY <2>1, ListCalendarsKeeps
<1>9. CASE op = "calendar.list_events"
  <2>1. Handle(op, a, rs) = ListEvents(a, rs)
    BY <1>9 DEF Handle
  <2>2. QED
    BY <2>1, ListEventsKeeps
<1>10. CASE op = "calendar.get_event"
  <2>1. Handle(op, a, rs) = GetEvent(a, rs)
    BY <1>10 DEF Handle
  <2>2. QED
    BY <2>1, GetEventKeeps
<1>11. CASE op = "calendar.search_events"
  <2>1. Handle(op, a, rs) = SearchEvents(a, rs)
    BY <1>11 DEF Handle
  <2>2. QED
    BY <2>1, SearchEventsKeeps
<1>12. CASE op = "calendar.get_free_busy"
  <2>1. Handle(op, a, rs) = GetFreeBusy(a, rs)
    BY <1>12 DEF Handle
  <2>2. QED
    BY <2>1, GetFreeBusyKeeps
<1>13. QED
  BY <1>1, <1>2, <1>3, <1>4, <1>5, <1>6, <1>7, <1>8, <1>9, <1>10, <1>11, <1>12 DEF ReadNames

LEMMA WritesKeep ==
  ASSUME NEW op \in WriteNames, NEW a, WellTyped(a), NEW S, NEW rs \in Seq(S), Heard(S)
  PROVE  Keeps(Handle(op, a, rs), Adding, S)
<1>0. /\ {"create"} \subseteq Adding /\ {"derive", "patch"} \subseteq Adding
      /\ {"patch"} \subseteq Adding /\ {"act"} \subseteq Adding
      /\ Reading \cup {"create"} \subseteq Adding /\ Reading \cup {"patch"} \subseteq Adding
      /\ Reading \cup {"move"} \subseteq Adding
  BY DEF Adding
<1> HIDE DEF Adding
<1>1. CASE op = "mail.create_draft"
  <2>1. Handle(op, a, rs) = CreateDraft(a, rs)
    BY <1>1 DEF Handle
  <2>2. Keeps(CreateDraft(a, rs), {"create"}, S)
    BY CreateDraftKeeps
  <2>3. QED
    BY <1>0, <2>1, <2>2, MoreKinds
<1>2. CASE op = "mail.create_reply_draft"
  <2>1. Handle(op, a, rs) = DeriveDraft(a, rs)
    BY <1>2 DEF Handle, CreateReplyDraft
  <2>2. Keeps(DeriveDraft(a, rs), {"derive", "patch"}, S)
    BY DeriveDraftKeeps
  <2>3. QED
    BY <1>0, <2>1, <2>2, MoreKinds
<1>3. CASE op = "mail.create_forward_draft"
  <2>1. Handle(op, a, rs) = DeriveDraft(a, rs)
    BY <1>3 DEF Handle, CreateForwardDraft
  <2>2. Keeps(DeriveDraft(a, rs), {"derive", "patch"}, S)
    BY DeriveDraftKeeps
  <2>3. QED
    BY <1>0, <2>1, <2>2, MoreKinds
<1>4. CASE op = "mail.update_draft"
  <2>1. Handle(op, a, rs) = UpdateDraft(a, rs)
    BY <1>4 DEF Handle
  <2>2. Keeps(UpdateDraft(a, rs), Reading \cup {"patch"}, S)
    BY UpdateDraftKeeps
  <2>3. QED
    BY <1>0, <2>1, <2>2, MoreKinds
<1>5. CASE op = "mail.create_folder"
  <2>1. Handle(op, a, rs) = CreateFolder(a, rs)
    BY <1>5 DEF Handle
  <2>2. Keeps(CreateFolder(a, rs), Reading \cup {"create"}, S)
    BY CreateFolderKeeps
  <2>3. QED
    BY <1>0, <2>1, <2>2, MoreKinds
<1>6. CASE op = "mail.move_message"
  <2>1. Handle(op, a, rs) = MoveMessage(a, rs)
    BY <1>6 DEF Handle
  <2>2. Keeps(MoveMessage(a, rs), Reading \cup {"move"}, S)
    BY MoveMessageKeeps
  <2>3. QED
    BY <1>0, <2>1, <2>2, MoreKinds
<1>7. CASE op = "mail.move_messages"
  <2>1. Handle(op, a, rs) = MoveMessages(a, rs)
    BY <1>7 DEF Handle
  <2>2. Keeps(MoveMessages(a, rs), Reading \cup {"move"}, S)
    BY MoveMessagesKeeps
  <2>3. QED
    BY <1>0, <2>1, <2>2, MoreKinds
<1>8. CASE op \in {"calendar.create_event", "calendar.create_meeting"}
  <2>1. Handle(op, a, rs) = HandleCreateEvent(a, rs)
    BY <1>8 DEF Handle
  <2>2. Keeps(HandleCreateEvent(a, rs), {"create"}, S)
    BY HandleCreateEventKeeps
  <2>3. QED
    BY <1>0, <2>1, <2>2, MoreKinds
<1>9. CASE op \in {"calendar.update_event", "calendar.update_meeting"}
  <2>1. Handle(op, a, rs) = HandleUpdateEvent(a, rs)
    BY <1>9 DEF Handle
  <2>2. Keeps(HandleUpdateEvent(a, rs), {"patch"}, S)
    BY HandleUpdateEventKeeps
  <2>3. QED
    BY <1>0, <2>1, <2>2, MoreKinds
<1>10. CASE op = "calendar.respond_event"
  <2>1. Handle(op, a, rs) = HandleRespondEvent(a, rs)
    BY <1>10 DEF Handle
  <2>2. Keeps(HandleRespondEvent(a, rs), {"act"}, S)
    BY HandleRespondEventKeeps
  <2>3. QED
    BY <1>0, <2>1, <2>2, MoreKinds
<1>11. CASE op \in {"calendar.reschedule_event", "calendar.reschedule_meeting"}
  <2>1. Handle(op, a, rs) = HandleRescheduleEvent(a, rs)
    BY <1>11 DEF Handle
  <2>2. Keeps(HandleRescheduleEvent(a, rs), Reading \cup {"patch"}, S)
    BY HandleRescheduleEventKeeps
  <2>3. QED
    BY <1>0, <2>1, <2>2, MoreKinds
<1>12. QED
  BY <1>1, <1>2, <1>3, <1>4, <1>5, <1>6, <1>7, <1>8, <1>9, <1>10, <1>11 DEF WriteNames

LEMMA RemovesKeep ==
  ASSUME NEW op \in RemoveNames, NEW a, WellTyped(a), NEW S, NEW rs \in Seq(S), Heard(S)
  PROVE  Keeps(Handle(op, a, rs), Taking, S)
<1>0. /\ {"delete"} \subseteq Taking /\ {"cancel"} \subseteq Taking
      /\ Reading \cup {"delete"} \subseteq Taking
  BY DEF Taking
<1> HIDE DEF Taking
<1>1. CASE op = "mail.delete_draft"
  <2>1. Handle(op, a, rs) = DeleteDraft(a, rs)
    BY <1>1 DEF Handle
  <2>2. Keeps(DeleteDraft(a, rs), Reading \cup {"delete"}, S)
    BY DeleteDraftKeeps
  <2>3. QED
    BY <1>0, <2>1, <2>2, MoreKinds
<1>2. CASE op = "mail.delete_folder"
  <2>1. Handle(op, a, rs) = DeleteFolder(a, rs)
    BY <1>2 DEF Handle
  <2>2. Keeps(DeleteFolder(a, rs), Reading \cup {"delete"}, S)
    BY DeleteFolderKeeps
  <2>3. QED
    BY <1>0, <2>1, <2>2, MoreKinds
<1>3. CASE op = "calendar.delete_event"
  <2>1. Handle(op, a, rs) = HandleDeleteEvent(a, rs)
    BY <1>3 DEF Handle
  <2>2. Keeps(HandleDeleteEvent(a, rs), {"delete"}, S)
    BY HandleDeleteEventKeeps
  <2>3. QED
    BY <1>0, <2>1, <2>2, MoreKinds
<1>4. CASE op = "calendar.cancel_meeting"
  <2>1. Handle(op, a, rs) = HandleCancelEvent(a, rs)
    BY <1>4 DEF Handle
  <2>2. Keeps(HandleCancelEvent(a, rs), {"cancel"}, S)
    BY HandleCancelEventKeeps
  <2>3. QED
    BY <1>0, <2>1, <2>2, MoreKinds
<1>5. QED
  BY <1>1, <1>2, <1>3, <1>4 DEF RemoveNames

\* A call in its handler asks for what the hints of its verb allow.
LEMMA CallKeeps ==
  ASSUME NEW c \in Calls, IsOperation(c.op), NEW S, NEW rs \in Seq(S), Heard(S)
  PROVE  /\ Keeps(Handle(c.op, c.args, rs), Every, S)
         /\ ~VerbOf(c.op).guarded \/ VerbOf(c.op).hints.readOnly =>
              Keeps(Handle(c.op, c.args, rs), Reading, S)
         /\ ~VerbOf(c.op).hints.destructive => Keeps(Handle(c.op, c.args, rs), Adding, S)
<1>1. Reading \subseteq Every /\ Adding \subseteq Every /\ Taking \subseteq Every /\ Reading \subseteq Adding
  BY DEF Every, Adding, Taking
<1> DEFINE h == Handle(c.op, c.args, rs)
<1> HIDE DEF Every, Adding, Taking, Reading, ReadNames, WriteNames, RemoveNames
<1>2. c.op \in ReadNames => Keeps(h, Reading, S)
  BY CallVerb, ReadsKeep
<1>3. c.op \in WriteNames => Keeps(h, Adding, S)
  BY CallVerb, WritesKeep
<1>4. c.op \in RemoveNames => Keeps(h, Taking, S)
  BY CallVerb, RemovesKeep
<1> HIDE DEF h
<1>5. c.op \in ReadNames => Keeps(h, Adding, S) /\ Keeps(h, Every, S)
  BY <1>1, <1>2, MoreKinds
<1>6. c.op \in WriteNames => Keeps(h, Every, S)
  BY <1>1, <1>3, MoreKinds
<1>7. c.op \in RemoveNames => Keeps(h, Every, S)
  BY <1>1, <1>4, MoreKinds
<1>8. QED
  BY <1>2, <1>3, <1>5, <1>6, <1>7, CallVerb DEF h

-------------------------------------------------------------------------------
\* The mailbox.
LEMMA PutFacts ==
  ASSUME NEW b, Consistent(b), NEW id, NEW item
  PROVE  /\ Ids(Put(b, id, item)) = Ids(b) \cup {id}
         /\ Put(b, id, item).items[id] = item
         /\ \A i \in Ids(b) \ {id} : Put(b, id, item).items[i] = b.items[i]
         /\ DOMAIN Put(b, id, item) = DOMAIN b
         /\ \A f \in DOMAIN b \ {"items"} : Put(b, id, item)[f] = b[f]
BY DEF Put, Ids, Consistent

LEMMA AddFacts ==
  ASSUME NEW b, Consistent(b), NEW item
  PROVE  /\ Ids(Add(b, item)) = Ids(b) \cup {b.next}
         /\ Add(b, item).items[b.next] = item
         /\ \A i \in Ids(b) : Add(b, item).items[i] = b.items[i]
         /\ DOMAIN Add(b, item) = DOMAIN b
         /\ Add(b, item).next = b.next + 1
         /\ \A f \in DOMAIN b \ {"items", "next"} : Add(b, item)[f] = b[f]
<1> DEFINE p == Put(b, b.next, item)
<1>1. Add(b, item) = [p EXCEPT !.next = @ + 1]
  BY DEF Add
<1>2. /\ Ids(p) = Ids(b) \cup {b.next} /\ p.items[b.next] = item
      /\ \A i \in Ids(b) \ {b.next} : p.items[i] = b.items[i]
      /\ DOMAIN p = DOMAIN b /\ \A f \in DOMAIN b \ {"items"} : p[f] = b[f]
  BY PutFacts
<1> HIDE DEF p
<1>3. DOMAIN b = {"items", "next", "alias", "calendar", "mails"} /\ b.next \notin Ids(b)
  BY DEF Consistent
<1>4. QED
  BY <1>1, <1>2, <1>3 DEF Ids

LEMMA NotifyFacts ==
  ASSUME NEW b, Consistent(b), NEW yes
  PROVE  Consistent(Notify(b, yes)) /\ Notify(b, yes).items = b.items
BY DEF Notify, Consistent, Ids

LEMMA DropFacts ==
  ASSUME NEW b, Consistent(b), NEW ids
  PROVE  /\ Consistent(Drop(b, ids)) /\ Ids(Drop(b, ids)) = Ids(b) \ ids
         /\ \A i \in Ids(b) \ ids : Drop(b, ids).items[i] = b.items[i]
<1> DEFINE d == Drop(b, ids)
<1>1. /\ DOMAIN d = DOMAIN b /\ Ids(d) = Ids(b) \ ids
      /\ \A i \in Ids(b) \ ids : d.items[i] = b.items[i]
      /\ d.next = b.next /\ d.calendar = b.calendar /\ d.mails = b.mails /\ d.alias = b.alias
  BY DEF Drop, Ids, Consistent
<1> HIDE DEF d
<1>2. IsFiniteSet(Ids(d))
  BY <1>1, FS_Subset DEF Consistent
<1>3. Consistent(d)
  BY <1>1, <1>2 DEF Consistent
<1>4. QED
  BY <1>1, <1>3 DEF d

LEMMA PutKeeps ==
  ASSUME NEW b, Consistent(b), NEW id \in Ids(b), NEW item, "in" \in DOMAIN item, item.in \in Nat
  PROVE  Consistent(Put(b, id, item)) /\ Ids(Put(b, id, item)) = Ids(b)
<1> DEFINE p == Put(b, id, item)
<1>0. /\ Ids(p) = Ids(b) \cup {id} /\ DOMAIN p = DOMAIN b /\ p.items[id] = item
      /\ \A i \in Ids(b) \ {id} : p.items[i] = b.items[i]
      /\ \A f \in DOMAIN b \ {"items"} : p[f] = b[f]
  BY PutFacts
<1> HIDE DEF p
<1>1. /\ Ids(p) = Ids(b) /\ DOMAIN p = DOMAIN b /\ p.items[id] = item
      /\ \A i \in Ids(b) \ {id} : p.items[i] = b.items[i]
      /\ \A f \in DOMAIN b \ {"items"} : p[f] = b[f]
  BY <1>0
<1>2. /\ p.next = b.next /\ p.calendar = b.calendar /\ p.mails = b.mails /\ p.alias = b.alias
  BY <1>1 DEF Consistent
<1>3. \A i \in Ids(p) : "in" \in DOMAIN p.items[i] /\ p.items[i].in \in Nat
  BY <1>1 DEF Consistent
<1>4. Consistent(p)
  BY <1>1, <1>2, <1>3 DEF Consistent
<1>5. QED
  BY <1>1, <1>4 DEF p

LEMMA AddKeeps ==
  ASSUME NEW b, Consistent(b), NEW item, "in" \in DOMAIN item, item.in \in Nat
  PROVE  /\ Consistent(Add(b, item))
         /\ Cardinality(Ids(Add(b, item))) = Cardinality(Ids(b)) + 1
<1> DEFINE p == Add(b, item)
<1>1. /\ Ids(p) = Ids(b) \cup {b.next} /\ DOMAIN p = DOMAIN b /\ p.items[b.next] = item
      /\ p.next = b.next + 1
      /\ \A i \in Ids(b) : p.items[i] = b.items[i]
      /\ \A f \in DOMAIN b \ {"items", "next"} : p[f] = b[f]
  BY AddFacts
<1> HIDE DEF p
<1>2. /\ p.calendar = b.calendar /\ p.mails = b.mails /\ p.alias = b.alias
  BY <1>1 DEF Consistent
<1>3. \A i \in Ids(p) : "in" \in DOMAIN p.items[i] /\ p.items[i].in \in Nat
  BY <1>1 DEF Consistent
<1>4. /\ b.next \in Nat /\ b.next \notin Ids(b) /\ IsFiniteSet(Ids(b))
      /\ \A i \in Ids(b) : i \in Nat /\ i < b.next
  BY DEF Consistent
<1>5. IsFiniteSet(Ids(p)) /\ Cardinality(Ids(p)) = Cardinality(Ids(b)) + 1
  <2>1. /\ IsFiniteSet(Ids(b) \cup {b.next})
        /\ Cardinality(Ids(b) \cup {b.next}) = Cardinality(Ids(b)) + 1
    BY <1>4, FS_AddElement
  <2>2. QED
    BY <1>1, <2>1
<1>6. \A i \in Ids(p) : i \in Nat /\ i < p.next
  BY <1>1, <1>4
<1>7. Consistent(p)
  BY <1>1, <1>2, <1>3, <1>4, <1>5, <1>6 DEF Consistent
<1>8. QED
  BY <1>5, <1>7 DEF p

\* What Graph makes of an item is in some place again.
LEMMA AnItem ==
  ASSUME NEW b, Consistent(b), NEW req, Accepts(b, req), Proper(req),
         req.op \in {"derive", "move", "patch", "act", "cancel"}
  PROVE  /\ req.at.id \in Ids(b) /\ Target(b, req.at) = req.at.id
         /\ "in" \in DOMAIN b.items[req.at.id] /\ b.items[req.at.id].in \in Nat
<1>1. req.at.key = ""
  BY DEF Proper
<1>2. IsA(b, Target(b, req.at), req.kind)
  BY DEF Accepts
<1>3. QED
  BY <1>1, <1>2 DEF Target, IsA, Consistent

LEMMA CreateEffect ==
  ASSUME NEW b, Consistent(b), NEW req, Accepts(b, req), req.op = "create"
  PROVE  /\ Consistent(Effect(b, req))
         /\ Cardinality(Ids(Effect(b, req))) = Cardinality(Ids(b)) + 1
<1> DEFINE home == HomeOf(b, req)
           put  == With(req.item, [in |-> home])
           item == With(put, [stamp |-> b.next])
           b2   == Add(b, item)
<1>1. home \in Nat
  <2>1. Target(b, req.in) \in Ids(b) \cup {0}
    BY DEF Accepts
  <2>2. QED
    BY <2>1 DEF HomeOf, Consistent
<1> HIDE DEF home
<1>2. "in" \in DOMAIN put /\ put.in \in Nat
  BY <1>1 DEF With
<1> HIDE DEF put
<1>3. "in" \in DOMAIN item /\ item.in \in Nat
  BY <1>2 DEF With
<1>4. Effect(b, req) = Notify(b2, HasGuests(req.item))
  BY DEF Effect, New, item, put, home
<1> HIDE DEF item
<1>5. Consistent(b2) /\ Cardinality(Ids(b2)) = Cardinality(Ids(b)) + 1
  BY <1>3, AddKeeps
<1> HIDE DEF b2
<1>6. QED
  BY <1>4, <1>5, NotifyFacts DEF Ids

LEMMA DeriveEffect ==
  ASSUME NEW b, Consistent(b), NEW req, Accepts(b, req), Proper(req), req.op = "derive"
  PROVE  /\ Consistent(Effect(b, req))
         /\ Cardinality(Ids(Effect(b, req))) = Cardinality(Ids(b)) + 1
<1> DEFINE item == [b.items[req.at.id] EXCEPT !.is_draft = TRUE, !.tag = FALSE, !.stamp = b.next,
                                              !.in = b.alias["drafts"]]
<1>1. Effect(b, req) = Add(b, item)
  BY DEF Effect
<1>2. "in" \in DOMAIN item /\ item.in \in Nat
  <2>1. "in" \in DOMAIN b.items[req.at.id]
    BY AnItem
  <2>2. b.alias["drafts"] \in Nat
    BY DEF Consistent
  <2>3. QED
    BY <2>1, <2>2
<1> HIDE DEF item
<1>3. QED
  BY <1>1, <1>2, AddKeeps

LEMMA MoveEffect ==
  ASSUME NEW b, Consistent(b), NEW req, Accepts(b, req), Proper(req), req.op = "move"
  PROVE  /\ Consistent(Effect(b, req))
         /\ Cardinality(Ids(Effect(b, req))) = Cardinality(Ids(b))
<1> DEFINE id == req.at.id
           item == [b.items[id] EXCEPT !.in = Target(b, req.to)]
           moved == Add(b, item)
           place(i) == IF moved.items[i].in = id THEN [moved.items[i] EXCEPT !.in = b.next]
                       ELSE moved.items[i]
           all == [moved EXCEPT !.items = [i \in Ids(moved) |-> place(i)]]
<1>1. Effect(b, req) = Drop(all, {id})
  BY DEF Effect
<1>2. "in" \in DOMAIN item /\ item.in \in Nat
  <2>1. "in" \in DOMAIN b.items[id]
    BY AnItem
  <2>2. IsA(b, Target(b, req.to), "folder")
    BY DEF Accepts
  <2>3. Target(b, req.to) \in Nat
    BY <2>2 DEF IsA, Consistent
  <2>4. QED
    BY <2>1, <2>3
<1>3. id \in Ids(b) /\ b.next \in Nat
  BY AnItem DEF Consistent
<1> HIDE DEF item, id
<1>4. Consistent(moved) /\ Cardinality(Ids(moved)) = Cardinality(Ids(b)) + 1
  BY <1>2, AddKeeps
<1>5. Ids(moved) = Ids(b) \cup {b.next}
  BY AddFacts
<1> HIDE DEF moved
<1>6. \A i \in Ids(moved) : "in" \in DOMAIN place(i) /\ place(i).in \in Nat
  BY <1>3, <1>4 DEF Consistent
<1> HIDE DEF place
<1>7. /\ Ids(all) = Ids(moved) /\ DOMAIN all = DOMAIN moved
      /\ \A i \in Ids(moved) : all.items[i] = place(i)
      /\ all.next = moved.next /\ all.calendar = moved.calendar /\ all.mails = moved.mails
      /\ all.alias = moved.alias
  BY <1>4 DEF Ids, Consistent
<1> HIDE DEF all
<1>8. Consistent(all)
  BY <1>4, <1>6, <1>7 DEF Consistent
<1>9. Consistent(Drop(all, {id})) /\ Ids(Drop(all, {id})) = Ids(all) \ {id}
  BY <1>8, DropFacts
<1>10. Cardinality(Ids(moved) \ {id}) = Cardinality(Ids(moved)) - 1
  <2>1. IsFiniteSet(Ids(moved)) /\ id \in Ids(moved)
    BY <1>3, <1>4, <1>5 DEF Consistent
  <2>2. QED
    BY <2>1, FS_RemoveElement
<1>11. Cardinality(Ids(b)) \in Nat
  BY FS_CardinalityType DEF Consistent
<1>12. Ids(Drop(all, {id})) = Ids(moved) \ {id}
  BY <1>7, <1>9
<1>13. Cardinality(Ids(Drop(all, {id}))) = Cardinality(Ids(b))
  <2>1. Cardinality(Ids(Drop(all, {id}))) = Cardinality(Ids(moved)) - 1
    BY <1>10, <1>12
  <2>2. QED
    BY <1>4, <1>11, <2>1
<1>14. QED
  BY <1>1, <1>9, <1>13

LEMMA SetEffect ==
  ASSUME NEW b, Consistent(b), NEW req, Accepts(b, req), Proper(req), req.op \in {"patch", "act"}
  PROVE  Consistent(Effect(b, req)) /\ Ids(Effect(b, req)) = Ids(b)
<1> DEFINE id == req.at.id
           item == With(b.items[id], req.fields)
           b2 == Put(b, id, item)
<1>1. "in" \in DOMAIN item /\ item.in \in Nat
  <2>1. "in" \notin DOMAIN req.fields
    BY DEF Proper
  <2>2. "in" \in DOMAIN b.items[id] /\ b.items[id].in \in Nat
    BY SMTT(30), AnItem
  <2>3. QED
    BY <2>1, <2>2 DEF With
<1>2. \E yes : Effect(b, req) = Notify(b2, yes)
  BY DEF Effect
<1>3. id \in Ids(b)
  BY AnItem
<1> HIDE DEF item, id
<1>4. Consistent(b2) /\ Ids(b2) = Ids(b)
  BY <1>1, <1>3, PutKeeps
<1> HIDE DEF b2
<1>5. QED
  BY <1>2, <1>4, NotifyFacts DEF Ids

LEMMA TakeEffect ==
  ASSUME NEW b, Consistent(b), NEW req, req.op \in {"delete", "cancel"}
  PROVE  Consistent(Effect(b, req))
<1> DEFINE b2 == Drop(b, Subtree(b, Target(b, req.at)))
<1>1. \E yes : Effect(b, req) = Notify(b2, yes)
  BY DEF Effect
<1>2. Consistent(b2)
  BY DropFacts
<1> HIDE DEF b2
<1>3. QED
  BY <1>1, <1>2, NotifyFacts

\* A write keeps the mailbox consistent, and only a removal takes items away.
LEMMA WriteEffect ==
  ASSUME NEW b, Consistent(b), NEW req, Accepts(b, req), Proper(req), req.op \in Every \ Reading
  PROVE  /\ Consistent(Effect(b, req))
         /\ req.op \in Adding => Cardinality(Ids(Effect(b, req))) >= Cardinality(Ids(b))
<1>1. Cardinality(Ids(b)) \in Nat
  BY FS_CardinalityType DEF Consistent
<1>2. CASE req.op = "create"
  BY <1>1, <1>2, CreateEffect
<1>3. CASE req.op = "derive"
  BY <1>1, <1>3, DeriveEffect
<1>4. CASE req.op = "move"
  BY <1>1, <1>4, MoveEffect
<1>5. CASE req.op \in {"patch", "act"}
  <2>1. Consistent(Effect(b, req)) /\ Ids(Effect(b, req)) = Ids(b)
    BY <1>5, SetEffect
  <2>2. QED
    BY <1>1, <2>1
<1>6. CASE req.op \in {"delete", "cancel"}
  BY <1>6, TakeEffect DEF Adding, Reading
<1>7. QED
  BY <1>2, <1>3, <1>4, <1>5, <1>6 DEF Every, Adding, Taking, Reading

LEMMA EditEffect ==
  ASSUME NEW b, Consistent(b), NEW b2 \in Edits(b)
  PROVE  Consistent(b2)
<1> DEFINE set(i, f) == [b EXCEPT !.items[i] = With(@, f)]
<1>1. ASSUME NEW i \in Ids(b), NEW f, "in" \notin DOMAIN f
      PROVE  Consistent(set(i, f))
  <2> DEFINE item == With(b.items[i], f)
             c == set(i, f)
  <2>1. "in" \in DOMAIN item /\ item.in \in Nat
    BY <1>1 DEF With, Consistent
  <2>2. /\ DOMAIN c = DOMAIN b /\ Ids(c) = Ids(b) /\ c.items[i] = item
        /\ \A j \in Ids(b) \ {i} : c.items[j] = b.items[j]
        /\ c.next = b.next /\ c.calendar = b.calendar /\ c.mails = b.mails /\ c.alias = b.alias
    BY DEF Ids, Consistent
  <2> HIDE DEF item, c
  <2>3. Consistent(c)
    BY <2>1, <2>2 DEF Consistent
  <2>4. QED
    BY <2>3 DEF c
<1>2. /\ "in" \notin DOMAIN [is_draft |-> FALSE]
      /\ \A t : "in" \notin DOMAIN [finish |-> t]
  OBVIOUS
<1>3. \/ \E i \in Ids(b) : b2 = set(i, [is_draft |-> FALSE])
      \/ \E i \in Ids(b) : b2 = set(i, [finish |-> b.items[i].finish + 1])
      \/ \E ids : b2 = Drop(b, ids)
  BY DEF Edits
<1> HIDE DEF set
<1>4. CASE \E i \in Ids(b) : b2 = set(i, [is_draft |-> FALSE])
  BY <1>1, <1>2, <1>4
<1>5. CASE \E i \in Ids(b) : b2 = set(i, [finish |-> b.items[i].finish + 1])
  <2>1. PICK i \in Ids(b) : b2 = set(i, [finish |-> b.items[i].finish + 1])
    BY <1>5
  <2>2. "in" \notin DOMAIN [finish |-> b.items[i].finish + 1]
    BY <1>2
  <2>3. QED
    BY <1>1, <2>1, <2>2
<1>6. CASE \E ids : b2 = Drop(b, ids)
  BY <1>6, DropFacts
<1>7. QED
  BY <1>3, <1>4, <1>5, <1>6

-------------------------------------------------------------------------------
\* The handler that runs is one that keeps to its verb's hints.
ToolInv == TypeOK /\ HintsHold /\ RightAccount /\ AuditMatches

LEMMA StepKeeps ==
  ASSUME TypeOK, RightAccount, phase = "run"
  PROVE  /\ Step.next \in {"ask", "fail", "done"}
         /\ Step.next = "fail" => Step.value # "no account selected"
         /\ Asking => Step.req.op \in Every /\ Proper(Step.req)
         /\ Asking /\ (~VerbOf(call.op).guarded \/ Hints.readOnly) => Step.req.op \in Reading
         /\ Asking /\ ~Hints.destructive => Step.req.op \in Adding
<1> DEFINE S == {got[k] : k \in 1 .. Len(got)}
<1>1. call \in Calls /\ IsOperation(call.op)
  BY DEF TypeOK
<1>2. got \in Seq(S) /\ DOMAIN got = 1 .. Len(got)
  BY ListFacts DEF TypeOK
<1>3. Heard(S)
  BY <1>2 DEF Heard, RightAccount
<1> HIDE DEF S
<1>4. /\ Keeps(Step, Every, S)
      /\ ~VerbOf(call.op).guarded \/ VerbOf(call.op).hints.readOnly => Keeps(Step, Reading, S)
      /\ ~VerbOf(call.op).hints.destructive => Keeps(Step, Adding, S)
  BY <1>1, <1>2, <1>3, CallKeeps DEF Step
<1>5. QED
  BY <1>4 DEF Keeps, Asks, Asking, Hints

\* A request, served or not.
Wrote ==
  /\ Accepts(box, Step.req) /\ Step.req.op \notin Reading
  /\ box' = Effect(box, Step.req)
  /\ applied' = Append(applied, Step.req)

Sends == Serve \/ Throttle \/ TimeOut \/ Unauthorized \/ Leave \/ Abandon

LEMMA ApplyFacts ==
  ASSUME NEW arrived, NEW late \in BOOLEAN, Apply(Step.req, arrived, late)
  PROVE  \/ UNCHANGED <<box, applied, lost>>
         \/ Wrote /\ lost' = lost + (IF late THEN 1 ELSE 0)
BY DEF Apply, Wrote, Reading

LEMMA ReplyFacts ==
  /\ \A b, req : Reply(b, req).ok \in BOOLEAN /\ (Reply(b, req).ok => Accepts(b, req))
       /\ (~Reply(b, req).ok => Reply(b, req).value # "no account selected")
  /\ \A why : Refused(why).ok = FALSE /\ Refused(why).value = why
BY DEF Reply, Refused

LEMMA SendsFrame ==
  ASSUME Sends
  PROVE  /\ Asking /\ UNCHANGED <<server, registry, phase, label, rerun, audit, answer>>
         /\ UNCHANGED <<box, applied>> \/ Wrote
         /\ \/ got' = got
            \/ \E r : got' = Append(got, r) /\ r.ok \in BOOLEAN
                      /\ (~r.ok => r.value # "no account selected")
                      /\ (r.ok => r = Reply(box, Step.req) /\ Accepts(box, Step.req) /\ Serve)
<1>1. CASE Serve
  <2>1. UNCHANGED <<box, applied>> \/ Wrote
    BY <1>1, ApplyFacts DEF Serve
  <2>2. got' = Append(got, Reply(box, Step.req))
    BY <1>1 DEF Serve, Return
  <2>3. QED
    BY <1>1, <2>1, <2>2, ReplyFacts DEF Serve
<1>2. CASE Throttle
  <2>1. UNCHANGED <<box, applied>> \/ Wrote
    BY <1>2, ApplyFacts DEF Throttle
  <2>2. got' = got \/ got' = Append(got, Refused("unavailable"))
    BY <1>2 DEF Throttle, Return
  <2>3. QED
    BY <1>2, <2>1, <2>2, ReplyFacts DEF Throttle
<1>3. CASE TimeOut
  <2>1. UNCHANGED <<box, applied>> \/ Wrote
    BY <1>3, ApplyFacts DEF TimeOut
  <2>2. got' = Append(got, Refused("timeout"))
    BY <1>3 DEF TimeOut, Return
  <2>3. QED
    BY <1>3, <2>1, <2>2, ReplyFacts DEF TimeOut
<1>4. CASE Unauthorized
  <2>1. got' = Append(got, Refused("auth"))
    BY <1>4 DEF Unauthorized, Return
  <2>2. QED
    BY <1>4, <2>1, ReplyFacts DEF Unauthorized
<1>5. CASE Leave
  <2>1. UNCHANGED <<box, applied>> \/ Wrote
    BY <1>5, ApplyFacts DEF Leave
  <2>2. got' = Append(got, Refused("cancelled"))
    BY <1>5 DEF Leave, Return
  <2>3. QED
    BY <1>5, <2>1, <2>2, ReplyFacts DEF Leave
<1>6. CASE Abandon
  <2>1. got' = Append(got, Refused("cancelled"))
    BY <1>6 DEF Abandon, Return
  <2>2. QED
    BY <1>6, <2>1, ReplyFacts DEF Abandon
<1>7. QED
  BY <1>1, <1>2, <1>3, <1>4, <1>5, <1>6 DEF Sends

\* The resolver: an account that is connected and fits the argument, or a
\* refusal of its own.
LEMMA CheckFacts ==
  ASSUME NEW reg, NEW l
  PROVE  /\ CheckConnected(reg, l).ok \in BOOLEAN
         /\ CheckConnected(reg, l).ok => CheckConnected(reg, l).value = l /\ reg[l].connected
         /\ ~CheckConnected(reg, l).ok => CheckConnected(reg, l).value = "disconnected"
BY DEF CheckConnected, Served, Refused

LEMMA ResolverFacts ==
  ASSUME NEW reg, NEW name, NEW r \in ResolveAccount(reg, name)
  PROVE  /\ r.ok \in BOOLEAN
         /\ r.ok => /\ r.value \in DOMAIN reg /\ reg[r.value].connected
                    /\ r.value = name \/ (name # "" /\ reg[r.value].email = name) \/ name = ""
         /\ ~r.ok => r.value # "no account selected"
<1>1. CASE name # "" /\ Named(reg, name) = {}
  <2>1. r = Refused("not found")
    BY <1>1 DEF ResolveAccount
  <2>2. QED
    BY <2>1 DEF Refused
<1>2. CASE name # "" /\ Named(reg, name) # {}
  <2>1. PICK l \in Named(reg, name) : r = CheckConnected(reg, l)
    BY <1>2 DEF ResolveAccount
  <2>2. l \in DOMAIN reg /\ (l = name \/ reg[l].email = name)
    BY DEF Named
  <2>3. QED
    BY <1>2, <2>1, <2>2, CheckFacts
<1>3. CASE name = ""
  <2>1. \/ r = Refused("none connected")
        \/ \E l \in Connected(reg) : r = Served(l)
        \/ \E reply \in Replies(reg) : r = ElicitAccountSelection(reg, reply)
    BY <1>3 DEF ResolveAccount
  <2>2. CASE r = Refused("none connected")
    BY <2>2 DEF Refused
  <2>3. CASE \E l \in Connected(reg) : r = Served(l)
    <3>1. PICK l \in Connected(reg) : r = Served(l)
      BY <2>3
    <3>2. l \in DOMAIN reg /\ reg[l].connected
      BY DEF Connected
    <3>3. r.ok = TRUE /\ r.value = l
      BY <3>1 DEF Served
    <3>4. QED
      BY <1>3, <3>2, <3>3
  <2>4. ASSUME NEW reply, r = ElicitAccountSelection(reg, reply)
        PROVE  \/ \E l \in DOMAIN reg : r = CheckConnected(reg, l)
               \/ \E why \in {"several accounts", "declined", "cancelled", "not found"} :
                    r = Refused(why)
    BY <2>4 DEF ElicitAccountSelection
  <2>5. CASE \E l \in DOMAIN reg : r = CheckConnected(reg, l)
    BY <1>3, <2>5, CheckFacts
  <2>6. CASE \E why \in {"several accounts", "declined", "cancelled", "not found"} :
               r = Refused(why)
    <3>1. PICK why \in {"several accounts", "declined", "cancelled", "not found"} : r = Refused(why)
      BY <2>6
    <3>2. r.ok = FALSE /\ r.value = why
      BY <3>1 DEF Refused
    <3>3. QED
      BY <3>2
  <2>7. QED
    BY <2>1, <2>2, <2>3, <2>4, <2>5, <2>6
<1>4. QED
  BY <1>1, <1>2, <1>3

-------------------------------------------------------------------------------
\* Types.
LEMMA InitAgrees == Init => ToolInv
<1> SUFFICES ASSUME Init PROVE ToolInv
  OBVIOUS
<1>1. Consistent(box) /\ Consistent(before) /\ \A l \in DOMAIN registry : DOMAIN registry[l] = {"email", "connected"}
  BY BoxesAssumption, RegistriesAssumption DEF Init
<1>2. IsList(got) /\ IsList(applied) /\ IsList(audit) /\ Len(applied) = 0 /\ DOMAIN got = {}
      /\ DOMAIN audit = {}
  BY EmptyList DEF Init
<1>3. trouble \in [{"fault", "edit", "logout"} -> Nat] /\ trouble.fault = 0 /\ attempt \in 0..MaxRetries
  <2>1. attempt = 0 /\ trouble = [fault |-> 0, edit |-> 0, logout |-> 0]
    BY DEF Init
  <2>2. [fault |-> 0, edit |-> 0, logout |-> 0] \in [{"fault", "edit", "logout"} -> Nat]
    OBVIOUS
  <2>3. QED
    BY <2>1, <2>2, RetriesAssumption
<1>4. answer.ok = FALSE
  BY DEF Init, Refused
<1>5. TypeOK
  <2>1. lost \in 0 .. Len(applied) /\ lost <= trouble.fault
    <3>1. lost = 0
      BY DEF Init
    <3>2. QED
      BY <1>2, <1>3, <3>1
  <2>2. QED
    BY <1>1, <1>2, <1>3, <1>4, <2>1 DEF Init, TypeOK
<1>6. HintsHold
  BY DEF Init, HintsHold
<1>7. RightAccount
  BY <1>2 DEF Init, RightAccount, Entered, Answered
<1>8. AuditMatches
  BY <1>2 DEF Init, AuditMatches, Answered
<1>9. QED
  BY <1>5, <1>6, <1>7, <1>8 DEF ToolInv

Typed(t) == t \in [{"fault", "edit", "logout"} -> Nat]

LEMMA HappensFacts ==
  ASSUME TypeOK, NEW kind \in {"fault", "edit", "logout"}, Happens(kind)
  PROVE  /\ Typed(trouble') /\ round = 1
         /\ trouble'[kind] = trouble[kind] + 1
         /\ \A k \in {"fault", "edit", "logout"} \ {kind} : trouble'[k] = trouble[k]
<1>1. Typed(trouble)
  BY DEF TypeOK, Typed
<1>2. trouble' = [trouble EXCEPT ![kind] = trouble[kind] + 1] /\ round = 1
  BY DEF Happens
<1>3. QED
  BY <1>1, <1>2 DEF Typed

LEMMA LostFacts ==
  ASSUME TypeOK, NEW arrived, NEW late \in BOOLEAN, Apply(Step.req, arrived, late)
  PROVE  /\ lost' \in 0 .. Len(applied')
         /\ lost' <= lost + (IF late THEN 1 ELSE 0)
<1>1. IsList(applied) /\ Len(applied) \in Nat /\ lost \in 0 .. Len(applied)
  BY DEF TypeOK, IsList
<1>2. CASE UNCHANGED <<box, applied, lost>>
  BY <1>1, <1>2
<1>3. CASE Wrote /\ lost' = lost + (IF late THEN 1 ELSE 0)
  <2>1. Len(applied') = Len(applied) + 1
    BY <1>1, <1>3, AppendFacts DEF Wrote
  <2>2. QED
    BY <1>1, <1>3, <2>1
<1>4. QED
  BY <1>2, <1>3, ApplyFacts

LEMMA SendsCounts ==
  ASSUME TypeOK, Sends
  PROVE  /\ attempt' \in 0 .. MaxRetries /\ gone' \in BOOLEAN
         /\ Typed(trouble') /\ trouble'.edit = trouble.edit /\ trouble'.logout = trouble.logout
         /\ lost' \in 0 .. Len(applied') /\ lost' <= trouble'.fault
<1>1. /\ lost \in 0 .. Len(applied) /\ lost <= trouble.fault /\ gone \in BOOLEAN
      /\ attempt \in 0 .. MaxRetries /\ Typed(trouble) /\ trouble.fault \in Nat
  BY DEF TypeOK, Typed
<1>2. MaxRetries \in Nat
  BY RetriesAssumption
<1>3. ASSUME Happens("fault")
      PROVE  /\ Typed(trouble') /\ trouble'.edit = trouble.edit /\ trouble'.logout = trouble.logout
             /\ trouble'.fault = trouble.fault + 1
  BY <1>3, HappensFacts
<1>4. CASE Serve
  <2>1. Apply(Step.req, TRUE, FALSE) /\ attempt' = 0 /\ UNCHANGED <<gone, trouble>>
    BY <1>4 DEF Serve, Return
  <2>2. lost' \in 0 .. Len(applied') /\ lost' <= lost
    <3>1. lost' \in 0 .. Len(applied') /\ lost' <= lost + (IF FALSE THEN 1 ELSE 0)
      BY <2>1, LostFacts
    <3>2. QED
      BY <1>1, <3>1
  <2>3. gone' \in BOOLEAN
    BY <1>1, <2>1
  <2>4. QED
    BY <1>1, <1>2, <2>1, <2>2, <2>3
<1>5. ASSUME Happens("fault"), NEW arrived \in BOOLEAN, Apply(Step.req, arrived, TRUE)
      PROVE  lost' \in 0 .. Len(applied') /\ lost' <= trouble'.fault
  <2>1. lost' \in 0 .. Len(applied') /\ lost' <= lost + 1
    BY <1>5, LostFacts
  <2>2. QED
    BY <1>1, <1>3, <1>5, <2>1
<1>6. CASE Throttle
  <2>1. /\ Happens("fault") /\ gone' = gone /\ \E arrived \in BOOLEAN : Apply(Step.req, arrived, TRUE)
        /\ attempt' = 0 \/ (~GivesUp(Step.req) /\ attempt' = attempt + 1)
    BY <1>6 DEF Throttle, Return
  <2>2. attempt' \in 0 .. MaxRetries
    BY <1>1, <1>2, <2>1 DEF GivesUp
  <2>3. QED
    BY <1>1, <1>3, <1>5, <2>1, <2>2
<1>7. CASE TimeOut
  <2>1. /\ Happens("fault") /\ gone' = gone /\ \E arrived \in BOOLEAN : Apply(Step.req, arrived, TRUE)
        /\ attempt' = 0
    BY <1>7 DEF TimeOut, Return
  <2>2. gone' \in BOOLEAN
    BY <1>1, <2>1
  <2>3. lost' \in 0 .. Len(applied') /\ lost' <= trouble'.fault
    BY <1>5, <2>1
  <2>4. QED
    BY <1>2, <1>3, <2>1, <2>2, <2>3
<1>8. CASE Unauthorized
  <2>1. Happens("fault") /\ attempt' = 0 /\ UNCHANGED <<gone, lost, applied>>
    BY <1>8 DEF Unauthorized, Return
  <2>2. QED
    BY <1>1, <1>2, <1>3, <2>1
<1>9. CASE Leave
  <2>1. /\ Happens("fault") /\ gone' = TRUE /\ \E arrived \in BOOLEAN : Apply(Step.req, arrived, TRUE)
        /\ attempt' = 0
    BY <1>9 DEF Leave, Return
  <2>2. gone' \in BOOLEAN
    BY <1>1, <2>1
  <2>3. lost' \in 0 .. Len(applied') /\ lost' <= trouble'.fault
    BY <1>5, <2>1
  <2>4. QED
    BY <1>2, <1>3, <2>1, <2>2, <2>3
<1>10. CASE Abandon
  <2>1. attempt' = 0 /\ UNCHANGED <<gone, lost, applied, trouble>>
    BY <1>10 DEF Abandon, Return
  <2>2. QED
    BY <1>1, <1>2, <2>1
<1>11. QED
  BY <1>4, <1>6, <1>7, <1>8, <1>9, <1>10 DEF Sends

LEMMA LogoutFacts ==
  ASSUME TypeOK, Logout
  PROVE  /\ DOMAIN registry' = DOMAIN registry
         /\ \A l \in DOMAIN registry : /\ DOMAIN registry'[l] = {"email", "connected"}
                                       /\ registry'[l].email = registry[l].email
         /\ Happens("logout") /\ phase \in {"enter", "reauth"}
         /\ UNCHANGED <<server, box, phase, label, got, attempt, rerun, gone, applied, lost, audit,
                        answer>>
<1>1. PICK l \in Connected(registry) : registry' = [registry EXCEPT ![l].connected = FALSE]
  BY DEF Logout
<1>2. \A k \in DOMAIN registry : DOMAIN registry[k] = {"email", "connected"}
  BY DEF TypeOK
<1>3. QED
  BY <1>1, <1>2 DEF Logout

\* The moves of the wrappers, which touch neither Graph nor the accounts.
Waits == phase' \in {"resolve", "enter", "run", "reauth"} /\ IsOperation(call'.op)

LEMMA WrapperTypes ==
  ASSUME TypeOK, UNCHANGED <<registry, box, before, attempt, trouble, lost, gone, applied>>,
         phase' = "answered" \/ Waits, call' \in Calls,
         label' \in DOMAIN registry \cup {""}, IsList(got'), \A k \in DOMAIN got' : got'[k].ok \in BOOLEAN,
         IsList(audit'), answer'.ok \in BOOLEAN, rerun' \in BOOLEAN
  PROVE  TypeOK'
<1>1. /\ phase' \in {"idle", "resolve", "enter", "run", "reauth", "answered"}
      /\ phase' # "idle"
      /\ phase' \in {"resolve", "enter", "run", "reauth"} => IsOperation(call'.op)
  BY DEF Waits
<1>2. gone' \in BOOLEAN
  BY DEF TypeOK
<1>3. QED
  BY <1>1, <1>2 DEF TypeOK

LEMMA WrapperMoves ==
  ASSUME TypeOK, RightAccount, Receive \/ Resolve \/ Enter \/ Conclude \/ SignedIn \/ NotSignedIn
  PROVE  TypeOK'
<1>1. /\ IsList(got) /\ \A k \in DOMAIN got : got[k].ok \in BOOLEAN
      /\ IsList(audit) /\ answer.ok \in BOOLEAN /\ rerun \in BOOLEAN
      /\ label \in DOMAIN registry \cup {""}
      /\ phase # "idle" => call \in Calls
      /\ phase \in {"resolve", "enter", "run", "reauth"} => IsOperation(call.op)
  BY DEF TypeOK
<1>2. ASSUME NEW ok \in BOOLEAN, AuditWrap(ok)
      PROVE  IsList(audit')
  BY <1>1, <1>2, AppendFacts DEF AuditWrap
<1>3. ASSUME NEW why, answer' = Refused(why)
      PROVE  answer'.ok \in BOOLEAN
  BY <1>3 DEF Refused
<1>4. CASE Receive
  <2>1. PICK c \in Calls : /\ call' = c
                           /\ IF IsOperation(c.op) THEN phase' = "resolve" /\ UNCHANGED answer
                              ELSE Answer(Refused("unknown operation"))
    BY <1>4 DEF Receive
  <2>2. phase' = "answered" \/ Waits
    BY <2>1 DEF Answer, Waits
  <2>3. answer'.ok \in BOOLEAN
    BY <1>1, <1>3, <2>1 DEF Answer
  <2>4. UNCHANGED <<registry, box, before, attempt, trouble, lost, gone, applied, label, got, audit,
                    rerun>>
    BY <1>4 DEF Receive
  <2>5. rerun' \in BOOLEAN
    BY <1>1, <2>4
  <2>6. QED
    BY <1>1, <2>1, <2>2, <2>3, <2>4, <2>5, WrapperTypes
<1>5. CASE Resolve
  <2>1. PICK r \in ResolveAccount(registry, AccountArg) :
               IF r.ok THEN phase' = "enter" /\ label' = r.value /\ UNCHANGED answer
               ELSE Answer(r) /\ UNCHANGED label
    BY <1>5 DEF Resolve
  <2>2. r.ok \in BOOLEAN /\ (r.ok => r.value \in DOMAIN registry)
    BY ResolverFacts
  <2>3. /\ UNCHANGED <<call, registry, box, before, attempt, trouble, lost, gone, applied,
                        got, audit, rerun>>
        /\ phase = "resolve"
    BY <1>5 DEF Resolve, server
  <2>4. phase' = "answered" \/ Waits
    BY <1>1, <2>1, <2>3 DEF Answer, Waits
  <2>5. answer'.ok \in BOOLEAN
    BY <1>1, <2>1, <2>2 DEF Answer
  <2>6. label' \in DOMAIN registry \cup {""}
    BY <1>1, <2>1, <2>2
  <2>7. rerun' \in BOOLEAN
    BY <1>1, <2>3
  <2>8. QED
    BY <1>1, <2>3, <2>4, <2>5, <2>6, <2>7, WrapperTypes
<1>6. CASE Enter
  <2>1. /\ UNCHANGED <<call, registry, box, before, attempt, trouble, lost, gone, applied,
                        label, got, rerun>>
        /\ phase = "enter"
    BY <1>6 DEF Enter, server
  <2>2. \/ Answer(Refused("blocked")) /\ UNCHANGED audit
        \/ Answer(Refused("no account selected")) /\ AuditWrap(FALSE)
        \/ phase' = "run" /\ UNCHANGED <<answer, audit>>
    BY <1>6 DEF Enter
  <2>3. phase' = "answered" \/ Waits
    BY <1>1, <2>1, <2>2 DEF Answer, Waits
  <2>4. answer'.ok \in BOOLEAN
    BY <1>1, <1>3, <2>2 DEF Answer
  <2>5. IsList(audit')
    BY <1>1, <1>2, <2>2
  <2>6. rerun' \in BOOLEAN
    BY <1>1, <2>1
  <2>7. QED
    BY <1>1, <2>1, <2>3, <2>4, <2>5, <2>6, WrapperTypes
<1>7. CASE Conclude
  <2>1. /\ UNCHANGED <<call, registry, box, before, attempt, trouble, lost, gone, applied,
                        label, got, rerun>>
        /\ phase = "run"
    BY <1>7 DEF Conclude, server
  <2>2. /\ AuditWrap(Step.next = "done")
        /\ \/ phase' = "reauth" /\ UNCHANGED answer
           \/ phase' = "answered" /\ answer' = [ok |-> Step.next = "done", value |-> Step.value]
    BY <1>7 DEF Conclude, Answer
  <2>3. phase' = "answered" \/ Waits
    BY <1>1, <2>1, <2>2 DEF Waits
  <2>4. answer'.ok \in BOOLEAN
    <3>1. [ok |-> Step.next = "done", value |-> Step.value].ok \in BOOLEAN
      OBVIOUS
    <3>2. QED
      BY <1>1, <2>2, <3>1
  <2>5. IsList(audit')
    <3>1. (Step.next = "done") \in BOOLEAN
      OBVIOUS
    <3>2. QED
      BY <1>2, <2>2, <3>1
  <2>6. rerun' \in BOOLEAN
    BY <1>1, <2>1
  <2>7. QED
    BY <1>1, <2>1, <2>3, <2>4, <2>5, <2>6, WrapperTypes
<1>8. CASE SignedIn
  <2>1. /\ UNCHANGED <<call, registry, box, before, attempt, trouble, lost, gone, applied,
                        label, audit, answer>>
        /\ phase = "reauth" /\ phase' = "resolve" /\ rerun' = TRUE /\ got' = <<>>
    BY <1>8 DEF SignedIn, server
  <2>2. IsList(got') /\ DOMAIN got' = {}
    BY <2>1, EmptyList
  <2>3. Waits
    BY <1>1, <2>1 DEF Waits
  <2>4. answer'.ok \in BOOLEAN /\ rerun' \in BOOLEAN
    BY <1>1, <2>1
  <2>5. QED
    BY <1>1, <2>1, <2>2, <2>3, <2>4, WrapperTypes
<1>9. CASE NotSignedIn
  <2>1. /\ UNCHANGED <<call, registry, box, before, attempt, trouble, lost, gone, applied,
                        label, got, audit, rerun>>
        /\ phase = "reauth" /\ phase' = "answered" /\ answer' = Refused("sign in")
    BY <1>9 DEF NotSignedIn, Answer, server
  <2>2. answer'.ok \in BOOLEAN /\ rerun' \in BOOLEAN
    BY <1>1, <1>3, <2>1
  <2>3. QED
    BY <1>1, <2>1, <2>2, WrapperTypes
<1>10. QED
  BY <1>4, <1>5, <1>6, <1>7, <1>8, <1>9

LEMMA WroteKeeps ==
  ASSUME TypeOK, RightAccount, Asking, Wrote
  PROVE  /\ Consistent(box') /\ IsList(applied') /\ applied' # <<>>
         /\ VerbOf(call.op).guarded /\ ~Hints.readOnly
         /\ ~Hints.destructive => Cardinality(Ids(box')) >= Cardinality(Ids(box))
<1>1. phase = "run"
  BY DEF Asking
<1>2. /\ Step.req.op \in Every \ Reading /\ Proper(Step.req) /\ Accepts(box, Step.req)
      /\ box' = Effect(box, Step.req) /\ applied' = Append(applied, Step.req)
      /\ VerbOf(call.op).guarded /\ ~Hints.readOnly
      /\ ~Hints.destructive => Step.req.op \in Adding
  BY <1>1, StepKeeps DEF Wrote
<1>3. Consistent(box) /\ IsList(applied)
  BY DEF TypeOK
<1>4. /\ Consistent(Effect(box, Step.req))
      /\ Step.req.op \in Adding => Cardinality(Ids(Effect(box, Step.req))) >= Cardinality(Ids(box))
  BY <1>2, <1>3, WriteEffect
<1>5. IsList(applied') /\ applied' # <<>>
  BY <1>2, <1>3, AppendFacts
<1>6. QED
  BY <1>2, <1>4, <1>5

LEMMA SendsTypes ==
  ASSUME TypeOK, RightAccount, Sends
  PROVE  TypeOK'
<1>1. /\ Asking /\ phase = "run" /\ UNCHANGED <<server, registry, phase, label, rerun, audit, answer>>
      /\ UNCHANGED <<box, applied>> \/ Wrote
  BY SendsFrame DEF Asking
<1>2. Consistent(box') /\ IsList(applied')
  BY <1>1, WroteKeeps DEF TypeOK
<1>3. IsList(got') /\ \A k \in DOMAIN got' : got'[k].ok \in BOOLEAN
  <2>1. IsList(got) /\ \A k \in DOMAIN got : got[k].ok \in BOOLEAN
    BY DEF TypeOK
  <2>2. CASE got' = got
    BY <2>1, <2>2
  <2>3. ASSUME NEW r, got' = Append(got, r), r.ok \in BOOLEAN
        PROVE  IsList(got') /\ \A k \in DOMAIN got' : got'[k].ok \in BOOLEAN
    <3>1. /\ IsList(got') /\ DOMAIN got' = 1 .. Len(got) + 1 /\ got'[Len(got) + 1] = r
          /\ \A k \in 1 .. Len(got) : got'[k] = got[k]
      BY <2>1, <2>3, AppendFacts
    <3>2. DOMAIN got = 1 .. Len(got) /\ Len(got) \in Nat
      BY <2>1, ListFacts DEF IsList
    <3>3. \A k \in 1 .. Len(got) + 1 : k \in 1 .. Len(got) \/ k = Len(got) + 1
      BY <3>2
    <3>4. ASSUME NEW k \in DOMAIN got'
          PROVE  got'[k] = r \/ (k \in DOMAIN got /\ got'[k] = got[k])
      BY <3>1, <3>2, <3>3
    <3>5. QED
      BY <2>1, <2>3, <3>1, <3>4
  <2>4. QED
    BY <2>2, <2>3, SendsFrame
<1>4. rerun' \in BOOLEAN /\ answer'.ok \in BOOLEAN
  BY <1>1 DEF TypeOK
<1>5. /\ phase' = "run" /\ call' = call /\ before' = before /\ registry' = registry /\ label' = label /\ audit' = audit
      /\ call \in Calls /\ IsOperation(call.op) /\ IsList(audit)
      /\ label \in DOMAIN registry \cup {""}
      /\ \A l \in DOMAIN registry : DOMAIN registry[l] = {"email", "connected"}
  BY <1>1 DEF TypeOK, server
<1>6. QED
  BY <1>2, <1>3, <1>4, <1>5, SendsCounts DEF TypeOK, Typed

LEMMA NextTypes ==
  ASSUME TypeOK, RightAccount, [Next]_vars
  PROVE  TypeOK'
<1>1. CASE Receive \/ Resolve \/ Enter \/ Conclude \/ SignedIn \/ NotSignedIn
  BY <1>1, WrapperMoves
<1>2. CASE Sends
  BY <1>2, SendsTypes
<1>0. /\ lost <= trouble.fault /\ lost \in 0 .. Len(applied) /\ trouble.fault \in Nat
      /\ IsList(got) /\ IsList(applied) /\ IsList(audit)
      /\ phase # "idle" => call \in Calls
      /\ gone \in BOOLEAN /\ rerun \in BOOLEAN /\ answer.ok \in BOOLEAN
  BY DEF TypeOK
<1>3. CASE Edit
  <2>1. /\ phase = "run" /\ box' \in Edits(box) /\ Happens("edit")
        /\ UNCHANGED <<server, registry, phase, label, got, attempt, rerun, gone, applied, lost, audit,
                       answer>>
    BY <1>3 DEF Edit, Asking
  <2>2. Consistent(box')
    BY <2>1, EditEffect DEF TypeOK
  <2>3. Typed(trouble') /\ trouble'.fault = trouble.fault
    BY <2>1, HappensFacts
  <2>4. gone' \in BOOLEAN /\ rerun' \in BOOLEAN /\ answer'.ok \in BOOLEAN
    BY <1>0, <2>1
  <2>5. QED
    BY <2>1, <2>2, <2>3, <2>4 DEF TypeOK, Typed, server
<1>4. CASE Logout
  <2>1. Typed(trouble') /\ trouble'.fault = trouble.fault
    BY <1>4, LogoutFacts, HappensFacts
  <2>2. gone' \in BOOLEAN /\ rerun' \in BOOLEAN /\ answer'.ok \in BOOLEAN
    BY <1>0, <1>4, LogoutFacts
  <2>3. QED
    BY <1>4, <2>1, <2>2, LogoutFacts DEF TypeOK, Typed, server
<1>5. CASE Repeat
  <2>1. /\ phase = "answered" /\ IsOperation(call.op) /\ phase' = "resolve" /\ rerun' = FALSE
        /\ got' = <<>> /\ applied' = <<>> /\ audit' = <<>>
        /\ UNCHANGED <<call, registry, box, label, attempt, gone, lost, trouble, answer>>
        /\ trouble.fault + trouble.edit + trouble.logout = 0
    BY <1>5 DEF Repeat, Quiet
  <2>2. IsList(<<>>) /\ Len(<<>>) = 0 /\ DOMAIN <<>> = {}
    BY EmptyList
  <2>3. lost = 0
    <3>1. trouble.fault \in Nat /\ trouble.edit \in Nat /\ trouble.logout \in Nat
      BY DEF TypeOK
    <3>2. QED
      BY <1>0, <2>1, <3>1
  <2>4. lost' \in 0 .. Len(applied') /\ lost' <= trouble'.fault
    BY <1>0, <2>1, <2>2, <2>3
  <2>5. gone' \in BOOLEAN /\ rerun' \in BOOLEAN /\ answer'.ok \in BOOLEAN
    BY <1>0, <2>1
  <2>6. IsList(got') /\ IsList(applied') /\ IsList(audit') /\ DOMAIN got' = {}
    BY <2>1, <2>2
  <2>7. Consistent(before')
    BY <1>5 DEF Repeat, TypeOK
  <2>8. QED
    BY <2>1, <2>4, <2>5, <2>6, <2>7 DEF TypeOK
<1>6. CASE UNCHANGED vars
  <2>1. gone' \in BOOLEAN /\ rerun' \in BOOLEAN /\ answer'.ok \in BOOLEAN
    BY <1>0, <1>6 DEF vars
  <2>2. QED
    BY <1>6, <2>1 DEF TypeOK, vars, server
<1>7. QED
  BY <1>1, <1>2, <1>3, <1>4, <1>5, <1>6 DEF Next, Sends, Rest

-------------------------------------------------------------------------------
\* The hints.
LEMMA NextHints ==
  ASSUME TypeOK, RightAccount, HintsHold, [Next]_vars
  PROVE  HintsHold'
<1>1. CASE Sends
  <2>1. /\ Asking /\ phase = "run" /\ UNCHANGED <<readOnly, round, before, call, phase>>
        /\ UNCHANGED <<box, applied>> \/ Wrote
    BY <1>1, SendsFrame DEF Asking, server
  <2>2. Alone' = Alone
    BY <1>1, SendsCounts DEF Alone
  <2>3. CASE UNCHANGED <<box, applied>>
    BY <2>1, <2>2, <2>3 DEF HintsHold, Blocked, Hints
  <2>4. CASE Wrote
    <3>1. /\ applied' # <<>> /\ VerbOf(call.op).guarded /\ ~Hints.readOnly
          /\ ~Hints.destructive => Cardinality(Ids(box')) >= Cardinality(Ids(box))
          /\ IsFiniteSet(Ids(box')) /\ IsFiniteSet(Ids(box))
      BY <2>1, <2>4, WroteKeeps DEF TypeOK, Consistent
    <3>2. ~Blocked /\ ~readOnly
      BY <2>1, <3>1 DEF HintsHold, Blocked
    <3>3. /\ Alone /\ applied = <<>> => box = before
          /\ Alone /\ applied # <<>> /\ ~Hints.destructive =>
               Cardinality(Ids(box)) >= Cardinality(Ids(before))
      BY DEF HintsHold
    <3>5. Cardinality(Ids(box)) \in Nat /\ Cardinality(Ids(box')) \in Nat
      BY <3>1, FS_CardinalityType
    <3>6. Alone /\ ~Hints.destructive => Cardinality(Ids(box')) >= Cardinality(Ids(before))
      <4> SUFFICES ASSUME Alone, ~Hints.destructive
                   PROVE  Cardinality(Ids(box')) >= Cardinality(Ids(before))
        OBVIOUS
      <4>1. Cardinality(Ids(box')) >= Cardinality(Ids(box))
        BY <3>1
      <4>2. CASE applied = <<>>
        BY <3>3, <4>1, <4>2
      <4>3. CASE applied # <<>>
        <5>1. Cardinality(Ids(box)) >= Cardinality(Ids(before))
          BY <3>3, <4>3
        <5>2. Cardinality(Ids(before)) \in Nat
          BY FS_CardinalityType DEF TypeOK, Consistent
        <5>3. QED
          BY <3>5, <4>1, <5>1, <5>2
      <4>4. QED
        BY <4>2, <4>3
    <3>7. Blocked' = Blocked /\ Hints' = Hints /\ before' = before /\ readOnly' = readOnly
      BY <2>1 DEF Blocked, Hints
    <3>8. QED
      BY <2>2, <3>1, <3>2, <3>6, <3>7 DEF HintsHold
  <2>5. QED
    BY <2>1, <2>3, <2>4
<1>2. CASE Edit
  <2>1. /\ UNCHANGED <<readOnly, before, call, phase, applied>> /\ Happens("edit")
    BY <1>2 DEF Edit, server
  <2>2. ~Alone'
    <3>1. trouble.edit \in Nat
      BY DEF TypeOK
    <3>2. trouble'.edit = trouble.edit + 1
      BY <2>1, HappensFacts
    <3>3. QED
      BY <3>1, <3>2 DEF Alone
  <2>3. QED
    BY <2>1, <2>2 DEF HintsHold, Blocked, Hints
<1>3. CASE Logout
  <2>1. UNCHANGED <<readOnly, before, call, phase, applied, box>> /\ Happens("logout")
    BY <1>3 DEF Logout, server
  <2>2. Alone' = Alone
    BY <2>1, HappensFacts DEF Alone
  <2>3. QED
    BY <2>1, <2>2 DEF HintsHold, Blocked, Hints
<1>4. CASE Repeat
  BY <1>4 DEF Repeat, HintsHold, Blocked, Hints, Alone
<1>5. CASE Receive
  <2>1. applied = <<>> /\ UNCHANGED <<readOnly, before, applied, box, trouble>> /\ phase' # "run"
    BY <1>5 DEF Receive, TypeOK, Answer
  <2>2. QED
    BY <2>1 DEF HintsHold, Alone
<1>6. CASE Resolve \/ Conclude \/ SignedIn \/ NotSignedIn
  <2>1. UNCHANGED <<readOnly, before, call, applied, box, trouble>> /\ phase' # "run"
    BY <1>6 DEF Resolve, Conclude, SignedIn, NotSignedIn, Answer, server
  <2>2. QED
    BY <2>1 DEF HintsHold, Alone, Hints
<1>7. CASE Enter
  <2>1. UNCHANGED <<readOnly, before, call, applied, box, trouble>> /\ (phase' = "run" => ~Blocked)
    BY <1>7 DEF Enter, Answer, server
  <2>2. QED
    BY <2>1 DEF HintsHold, Alone, Hints, Blocked
<1>8. CASE UNCHANGED vars
  BY <1>8 DEF vars, server, HintsHold, Alone, Hints, Blocked
<1>9. QED
  BY <1>1, <1>2, <1>3, <1>4, <1>5, <1>6, <1>7, <1>8 DEF Next, Sends, Rest

-------------------------------------------------------------------------------
\* The account.
LEMMA NextAccount ==
  ASSUME TypeOK, RightAccount, [Next]_vars
  PROVE  RightAccount'
<1>0. \A k \in DOMAIN got : ~got[k].ok => got[k].value # "no account selected"
  BY DEF RightAccount
<1>00. IsList(got) /\ trouble.logout \in Nat
  BY DEF TypeOK
<1>1. ASSUME NEW why, why # "no account selected", answer' = Refused(why)
      PROVE  answer' # Refused("no account selected")
  BY <1>1 DEF Refused
<1>2. CASE Sends
  <2>1. phase' = "run" /\ phase = "run" /\ UNCHANGED <<call, registry, label>> /\ trouble'.logout = trouble.logout
    BY <1>2, SendsFrame, SendsCounts DEF Asking, server
  <2>2. \A k \in DOMAIN got' : ~got'[k].ok => got'[k].value # "no account selected"
    <3>1. CASE got' = got
      BY <1>0, <3>1
    <3>2. ASSUME NEW r, got' = Append(got, r), ~r.ok => r.value # "no account selected"
          PROVE  \A k \in DOMAIN got' : ~got'[k].ok => got'[k].value # "no account selected"
      <4>1. /\ DOMAIN got' = 1 .. Len(got) + 1 /\ got'[Len(got) + 1] = r
            /\ \A k \in 1 .. Len(got) : got'[k] = got[k]
        <5>1. got' = Append(got, r)
          BY <3>2
        <5>2. QED
          BY <1>00, <5>1, AppendFacts
      <4>2. DOMAIN got = 1 .. Len(got) /\ Len(got) \in Nat
        BY <1>00, ListFacts DEF IsList
      <4>3. \A k \in 1 .. Len(got) + 1 : k \in 1 .. Len(got) \/ k = Len(got) + 1
        BY <4>2
      <4>4. ASSUME NEW k \in DOMAIN got'
            PROVE  got'[k] = r \/ (k \in DOMAIN got /\ got'[k] = got[k])
        BY <4>1, <4>2, <4>3
      <4>5. QED
        BY <1>0, <3>2, <4>4
    <3>3. QED
      BY <1>2, <3>1, <3>2, SendsFrame
  <2>3. QED
    BY <2>1, <2>2 DEF RightAccount, Entered, Answered, AccountArg
<1>3. CASE Edit
  <2>1. phase' = "run" /\ phase = "run" /\ UNCHANGED <<call, registry, label, got>> /\ Happens("edit")
    BY <1>3 DEF Edit, Asking, server
  <2>2. trouble'.logout = trouble.logout
    BY <2>1, HappensFacts
  <2>3. QED
    BY <2>1, <2>2 DEF RightAccount, Entered, Answered, AccountArg
<1>4. CASE Logout
  <2>1. trouble'.logout = trouble.logout + 1
    BY <1>4, LogoutFacts, HappensFacts
  <2>2. trouble'.logout # 0 /\ trouble'.logout > 0
    BY <1>00, <2>1
  <2>3. /\ UNCHANGED <<call, label, got, phase>> /\ DOMAIN registry' = DOMAIN registry
        /\ \A l \in DOMAIN registry : registry'[l].email = registry[l].email
    BY <1>4, LogoutFacts DEF server
  <2>4. QED
    BY <2>2, <2>3 DEF RightAccount, Entered, Answered, AccountArg
<1>5. CASE Receive
  <2>1. PICK c \in Calls : IF IsOperation(c.op) THEN phase' = "resolve" /\ UNCHANGED answer
                           ELSE Answer(Refused("unknown operation"))
    BY <1>5 DEF Receive
  <2>2. phase' = "resolve" \/ (phase' = "answered" /\ answer' # Refused("no account selected"))
    BY <1>1, <2>1 DEF Answer
  <2>3. got' = got
    BY <1>5 DEF Receive
  <2>4. QED
    BY <1>0, <2>2, <2>3 DEF RightAccount, Entered, Answered
<1>6. CASE Resolve
  <2>1. PICK r \in ResolveAccount(registry, AccountArg) :
               IF r.ok THEN phase' = "enter" /\ label' = r.value /\ UNCHANGED answer
               ELSE Answer(r) /\ UNCHANGED label
    BY <1>6 DEF Resolve
  <2>2. /\ r.ok => /\ r.value \in DOMAIN registry /\ registry[r.value].connected
                   /\ \/ r.value = AccountArg
                      \/ AccountArg # "" /\ registry[r.value].email = AccountArg
                      \/ AccountArg = ""
        /\ ~r.ok => r.value # "no account selected"
    BY ResolverFacts
  <2>3. UNCHANGED <<call, registry, got, trouble>> /\ AccountArg' = AccountArg
    BY <1>6 DEF Resolve, server, AccountArg
  <2>4. CASE r.ok
    BY <1>0, <2>1, <2>2, <2>3, <2>4 DEF RightAccount, Entered, Answered
  <2>5. CASE ~r.ok
    <3>1. phase' = "answered" /\ answer' # Refused("no account selected")
      <4>1. phase' = "answered" /\ answer' = r /\ r.value # "no account selected"
        BY <2>1, <2>2, <2>5 DEF Answer
      <4>2. QED
        BY <4>1, ReplyFacts
    <3>2. QED
      BY <1>0, <2>3, <3>1 DEF RightAccount, Entered, Answered
  <2>6. QED
    BY <2>4, <2>5
<1>7. CASE Enter
  <2>1. UNCHANGED <<call, registry, label, got, trouble>> /\ phase = "enter"
    BY <1>7 DEF Enter, server
  <2>2. \/ phase' = "answered" /\ answer' = Refused("blocked")
        \/ phase' = "answered" /\ ~registry[label].connected
        \/ phase' = "run"
    BY <1>7 DEF Enter, Answer
  <2>3. ~registry[label].connected => trouble.logout > 0
    <3>1. ~registry[label].connected => trouble.logout # 0
      BY <2>1 DEF RightAccount, Entered
    <3>2. QED
      BY <1>00, <3>1
  <2>4. \/ phase' = "answered" /\ answer' # Refused("no account selected")
        \/ phase' = "answered" /\ trouble'.logout > 0
        \/ phase' = "run"
    BY <1>1, <2>1, <2>2, <2>3
  <2>5. QED
    BY <2>1, <2>4 DEF RightAccount, Entered, Answered, AccountArg
<1>8. CASE Conclude
  <2>1. /\ UNCHANGED <<registry, got, trouble>> /\ phase = "run"
        /\ \/ phase' = "reauth"
           \/ phase' = "answered" /\ answer' = [ok |-> Step.next = "done", value |-> Step.value]
    BY <1>8 DEF Conclude, Answer
  <2>2. phase' = "answered" => answer' # Refused("no account selected")
    <3>1. Step.next = "fail" => Step.value # "no account selected"
      BY <2>1, StepKeeps
    <3>2. Step.next \in {"fail", "done"}
      BY <1>8, <2>1, StepKeeps DEF Conclude, Asking
    <3> DEFINE a == [ok |-> Step.next = "done", value |-> Step.value]
    <3>0. a.ok = (Step.next = "done") /\ a.value = Step.value
      OBVIOUS
    <3>a. phase' = "answered" => answer' = a
      BY <2>1
    <3> HIDE DEF a
    <3>3. CASE Step.next = "done"
      <4>1. a.ok = TRUE
        BY <3>0, <3>3
      <4>2. QED
        BY <3>a, <4>1, ReplyFacts
    <3>4. CASE Step.next = "fail"
      <4>1. a.value # "no account selected"
        BY <3>0, <3>1, <3>4
      <4>2. QED
        BY <3>a, <4>1, ReplyFacts
    <3>5. QED
      BY <3>2, <3>3, <3>4
  <2>3. QED
    BY <1>0, <2>1, <2>2 DEF RightAccount, Entered, Answered
<1>9. CASE SignedIn \/ Repeat
  <2>1. phase' = "resolve" /\ got' = <<>>
    BY <1>9 DEF SignedIn, Repeat
  <2>2. DOMAIN got' = {}
    BY <2>1, EmptyList
  <2>3. QED
    BY <2>1, <2>2 DEF RightAccount, Entered, Answered
<1>10. CASE NotSignedIn
  <2>1. phase' = "answered" /\ answer' = Refused("sign in") /\ got' = got
    BY <1>10 DEF NotSignedIn, Answer
  <2>2. answer' # Refused("no account selected")
    BY <1>1, <2>1
  <2>3. QED
    BY <1>0, <2>1, <2>2 DEF RightAccount, Entered, Answered
<1>11. CASE UNCHANGED vars
  BY <1>11 DEF vars, server, RightAccount, Entered, Answered, AccountArg
<1>12. QED
  BY <1>2, <1>3, <1>4, <1>5, <1>6, <1>7, <1>8, <1>9, <1>10, <1>11 DEF Next, Sends, Rest

-------------------------------------------------------------------------------
\* The audit log.
Recorded(s, n, a) ==
  /\ a.ok => s # <<>> /\ s[Len(s)].ok
  /\ Len(s) <= 2 /\ \A k \in 1..(Len(s) - 1) : ~s[k].ok
  /\ ~a.ok /\ s # <<>> => ~s[Len(s)].ok
  /\ n # <<>> => s # <<>>

\* While the handler works or waits, the log has no entry or that of the first run.
LEMMA LogSoFar ==
  ASSUME TypeOK, AuditMatches, phase \in {"resolve", "enter", "run", "reauth"}
  PROVE  /\ IsList(audit) /\ DOMAIN audit = 1 .. Len(audit)
         /\ Len(audit) = 0 <=> audit = <<>>
         /\ Len(audit) \in {0, 1} /\ \A k \in DOMAIN audit : ~audit[k].ok
<1>1. IsList(audit)
  BY DEF TypeOK
<1>2. DOMAIN audit = 1 .. Len(audit) /\ audit \in Seq({audit[k] : k \in 1 .. Len(audit)})
  BY <1>1, ListFacts
<1>3. Len(audit) = 0 <=> audit = <<>>
  BY <1>2
<1>4. Len(audit) \in {0, 1} /\ \A k \in DOMAIN audit : ~audit[k].ok
  BY DEF AuditMatches, Answered
<1>5. QED
  BY <1>1, <1>2, <1>3, <1>4

LEMMA NewEntry ==
  ASSUME TypeOK, AuditMatches, phase \in {"enter", "run"}, NEW ok \in BOOLEAN, AuditWrap(ok)
  PROVE  /\ audit' # <<>> /\ Len(audit') = Len(audit) + 1 /\ Len(audit') \in {1, 2}
         /\ audit'[Len(audit')].ok = ok
         /\ \A k \in 1..(Len(audit') - 1) : ~audit'[k].ok
         /\ DOMAIN audit' = 1 .. Len(audit')
<1> DEFINE e == [op |-> call.op, ok |-> ok]
<1>1. audit' = Append(audit, e) /\ e.ok = ok
  BY DEF AuditWrap
<1> HIDE DEF e
<1>2. /\ IsList(audit) /\ DOMAIN audit = 1 .. Len(audit) /\ Len(audit) \in {0, 1}
      /\ \A k \in DOMAIN audit : ~audit[k].ok
  BY LogSoFar
<1>3. /\ audit' # <<>> /\ Len(audit') = Len(audit) + 1 /\ audit'[Len(audit) + 1] = e
      /\ DOMAIN audit' = 1 .. Len(audit) + 1
      /\ \A k \in 1 .. Len(audit) : audit'[k] = audit[k]
  BY <1>1, <1>2, AppendFacts
<1>4. Len(audit') \in {1, 2} /\ Len(audit') - 1 = Len(audit)
  BY <1>2, <1>3
<1>5. \A k \in 1..(Len(audit') - 1) : ~audit'[k].ok
  BY <1>2, <1>3, <1>4
<1>6. audit'[Len(audit')].ok = ok
  BY <1>1, <1>3
<1>7. QED
  BY <1>3, <1>4, <1>5, <1>6

LEMMA AuditStays ==
  ASSUME AuditMatches, UNCHANGED <<phase, rerun, audit, answer>>, applied' = applied \/ phase = "run"
  PROVE  AuditMatches'
BY DEF AuditMatches, Answered

LEMMA Refusal ==
  ASSUME TypeOK, AuditMatches, phase \in {"resolve", "enter", "reauth"},
         phase' = "answered", ~answer'.ok, UNCHANGED <<audit, applied>>, rerun' = rerun
  PROVE  AuditMatches'
<1>1. /\ Len(audit) \in {0, 1} /\ DOMAIN audit = 1 .. Len(audit)
      /\ \A k \in DOMAIN audit : ~audit[k].ok
      /\ Len(audit) = 0 <=> audit = <<>>
  BY LogSoFar
<1>2. applied # <<>> => audit # <<>>
  BY DEF AuditMatches
<1>3. audit # <<>> => ~audit[Len(audit)].ok
  BY <1>1
<1>4. \A k \in 1..(Len(audit) - 1) : ~audit[k].ok
  BY <1>1
<1>5. Len(audit) <= 2
  BY <1>1
<1>6. Recorded(audit', applied', answer')
  BY <1>2, <1>3, <1>4, <1>5 DEF Recorded
<1>7. phase' \notin {"resolve", "enter", "run", "reauth"} /\ Answered'
  BY DEF Answered
<1>8. QED
  BY <1>2, <1>6, <1>7 DEF AuditMatches, Recorded, Last

LEMMA NextAudit ==
  ASSUME TypeOK, RightAccount, AuditMatches, [Next]_vars
  PROVE  AuditMatches'
<1>1. CASE Sends
  <2>1. UNCHANGED <<phase, rerun, audit, answer>> /\ phase = "run"
    BY <1>1, SendsFrame DEF Asking
  <2>2. QED
    BY <2>1, AuditStays
<1>2. CASE Edit \/ Logout \/ UNCHANGED vars
  <2>1. UNCHANGED <<phase, rerun, audit, answer, applied>>
    BY <1>2 DEF Edit, Logout, vars
  <2>2. QED
    BY <2>1, AuditStays
<1>3. ASSUME NEW why, answer' = Refused(why)
      PROVE  ~answer'.ok
  BY <1>3, ReplyFacts
<1>4. CASE Receive
  <2>1. /\ applied = <<>> /\ audit = <<>> /\ ~rerun /\ UNCHANGED <<applied, audit, rerun>>
        /\ phase' = "resolve" \/ (phase' = "answered" /\ answer' = Refused("unknown operation"))
    BY <1>4 DEF Receive, TypeOK, Answer
  <2>2. Len(<<>>) = 0 /\ DOMAIN <<>> = {}
    BY EmptyList
  <2>3. CASE phase' = "resolve"
    BY <2>1, <2>2, <2>3 DEF AuditMatches, Answered
  <2>4. CASE phase' = "answered" /\ answer' = Refused("unknown operation")
    <3>1. ~answer'.ok /\ ~rerun' /\ applied' = <<>> /\ audit' = <<>>
      BY <1>3, <2>1, <2>4
    <3>2. \A k \in 1 .. Len(audit') - 1 : ~audit'[k].ok
      BY <2>2, <3>1
    <3>3. Len(audit') <= 2
      BY <2>2, <3>1
    <3>4. QED
      BY <2>4, <3>1, <3>2, <3>3 DEF AuditMatches, Answered
  <2>5. QED
    BY <2>1, <2>3, <2>4
<1>5. CASE Resolve
  <2>1. PICK r \in ResolveAccount(registry, AccountArg) :
               IF r.ok THEN phase' = "enter" /\ label' = r.value /\ UNCHANGED answer
               ELSE Answer(r) /\ UNCHANGED label
    BY <1>5 DEF Resolve
  <2>2. phase = "resolve" /\ UNCHANGED <<audit, applied, rerun>>
    BY <1>5 DEF Resolve
  <2>3. CASE r.ok
    BY <2>1, <2>2, <2>3 DEF AuditMatches, Answered
  <2>4. CASE ~r.ok
    BY <2>1, <2>2, <2>4, Refusal DEF Answer
  <2>5. QED
    BY <2>3, <2>4
<1>6. CASE Enter
  <2>1. phase = "enter" /\ UNCHANGED <<applied, rerun>>
    BY <1>6 DEF Enter
  <2>2. \/ Answer(Refused("blocked")) /\ UNCHANGED audit
        \/ Answer(Refused("no account selected")) /\ AuditWrap(FALSE)
        \/ phase' = "run" /\ UNCHANGED <<answer, audit>>
    BY <1>6 DEF Enter
  <2>3. CASE Answer(Refused("blocked")) /\ UNCHANGED audit
    BY <1>3, <2>1, <2>3, Refusal DEF Answer
  <2>4. CASE Answer(Refused("no account selected")) /\ AuditWrap(FALSE)
    <3>1. /\ audit' # <<>> /\ Len(audit') \in {1, 2} /\ audit'[Len(audit')].ok = FALSE
          /\ \A k \in 1..(Len(audit') - 1) : ~audit'[k].ok
      BY <2>1, <2>4, NewEntry
    <3>2. phase' = "answered" /\ ~answer'.ok
      BY <1>3, <2>4 DEF Answer
    <3>3. Len(audit') <= 2
      BY <3>1
    <3>4. rerun' => phase' # "reauth"
      BY <3>2
    <3>5. QED
      BY <3>1, <3>2, <3>3, <3>4 DEF AuditMatches, Answered, Last
  <2>5. CASE phase' = "run" /\ UNCHANGED <<answer, audit>>
    BY <2>1, <2>5 DEF AuditMatches, Answered
  <2>6. QED
    BY <2>2, <2>3, <2>4, <2>5
<1>7. CASE Conclude
  <2> DEFINE ok == Step.next = "done"
             a  == [ok |-> ok, value |-> Step.value]
  <2>1. /\ phase = "run" /\ UNCHANGED <<applied, rerun>> /\ AuditWrap(ok) /\ ok \in BOOLEAN
        /\ \/ NeedsSignIn /\ ~rerun /\ phase' = "reauth" /\ UNCHANGED answer
           \/ phase' = "answered" /\ answer' = a
    BY <1>7 DEF Conclude, Answer
  <2>2. a.ok = ok
    OBVIOUS
  <2>3. NeedsSignIn => ~ok
    BY DEF NeedsSignIn
  <2> HIDE DEF ok, a
  <2>4. /\ audit' # <<>> /\ Len(audit') \in {1, 2} /\ audit'[Len(audit')].ok = ok
        /\ Len(audit') = Len(audit) + 1 /\ DOMAIN audit' = 1 .. Len(audit')
        /\ \A k \in 1..(Len(audit') - 1) : ~audit'[k].ok
    BY <2>1, NewEntry
  <2>5. CASE NeedsSignIn /\ ~rerun /\ phase' = "reauth" /\ UNCHANGED answer
    <3>1. Len(audit) = 0
      BY <2>1, <2>5 DEF AuditMatches
    <3>2. Len(audit') = 1
      BY <2>4, <3>1
    <3>3. ~audit'[1].ok
      BY <2>3, <2>4, <2>5, <3>2
    <3>4. \A k \in DOMAIN audit' : ~audit'[k].ok
      BY <2>4, <3>2, <3>3
    <3>5. ~rerun'
      BY <2>1, <2>5
    <3>6. QED
      BY <2>4, <2>5, <3>2, <3>4, <3>5 DEF AuditMatches, Answered
  <2>6. CASE phase' = "answered" /\ answer' = a
    <3>1. answer'.ok = ok
      BY <2>2, <2>6
    <3>2. Len(audit') <= 2
      BY <2>4
    <3>3. phase' # "reauth"
      BY <2>6
    <3>4. QED
      BY <2>4, <2>6, <3>1, <3>2, <3>3 DEF AuditMatches, Answered, Last
  <2>7. QED
    BY <2>1, <2>5, <2>6
<1>8. CASE SignedIn
  <2>1. /\ phase = "reauth" /\ phase' = "resolve" /\ rerun' = TRUE /\ UNCHANGED <<audit, applied>>
    BY <1>8 DEF SignedIn
  <2>2. QED
    BY <2>1 DEF AuditMatches, Answered
<1>9. CASE NotSignedIn
  <2>1. /\ phase = "reauth" /\ phase' = "answered" /\ answer' = Refused("sign in")
        /\ UNCHANGED <<audit, applied, rerun>>
    BY <1>9 DEF NotSignedIn, Answer
  <2>2. QED
    BY <1>3, <2>1, Refusal
<1>10. CASE Repeat
  <2>1. phase' = "resolve" /\ rerun' = FALSE /\ applied' = <<>> /\ audit' = <<>>
    BY <1>10 DEF Repeat
  <2>2. Len(audit') = 0 /\ DOMAIN audit' = {}
    BY <2>1, EmptyList
  <2>3. QED
    BY <2>1, <2>2 DEF AuditMatches, Answered
<1>11. QED
  BY <1>1, <1>2, <1>4, <1>5, <1>6, <1>7, <1>8, <1>9, <1>10 DEF Next, Sends, Rest

-------------------------------------------------------------------------------
\* The invariant behind the theorems below holds in every reachable state: the
\* types, the hints, the account and the audit log need one another, since a
\* handler keeps to its hints only if the mailbox and the replies are in order,
\* and a missing client is reported only after a logout.
THEOREM ToolAgrees == Spec => []ToolInv
<1>1. ToolInv /\ [Next]_vars => ToolInv'
  BY NextTypes, NextHints, NextAccount, NextAudit DEF ToolInv
<1>2. QED
  BY <1>1, InitAgrees, PTL DEF Spec

\* Types: above all, Graph keeps the mailbox consistent under every request of
\* every handler and every edit from outside, and no more replies are lost than
\* requests went wrong.
THEOREM ToolTypes == Spec => []TypeOK
BY ToolAgrees, PTL DEF ToolInv

\* The annotations of the verbs are true of their handlers, for any parameters,
\* mailbox and trouble, and the read-only mode changes nothing.
THEOREM HintsAreKept == Spec => []HintsHold
BY ToolAgrees, PTL DEF ToolInv

\* A call runs with the account it names, or one that may be chosen for it.
THEOREM AccountIsRight == Spec => []RightAccount
BY ToolAgrees, PTL DEF ToolInv

\* Every run of a handler leaves its audit entry, and no change goes without one.
THEOREM AuditIsComplete == Spec => []AuditMatches
BY ToolAgrees, PTL DEF ToolInv
================================================================================
