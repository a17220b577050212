----------------------------- MODULE ToolPromises -----------------------------
(***************************************************************************)
(* What a client may rely on when it calls a verb: that the call does what *)
(* it says to what it names and to nothing else, that its answer is true,  *)
(* and that trouble on the way costs no more than it has to.               *)
(***************************************************************************)
EXTENDS ToolServer

Args     == call.args
Answered == phase = "answered"
Success  == Answered /\ answer.ok
Op(ops)  == call.op \in ops
Alone    == trouble.edit = 0
Hints    == VerbOf(call.op).hints
Writes(r) == Cardinality({k \in DOMAIN applied : applied[k] = r})

IsList(s) == Len(s) \in Nat /\ s = [k \in 1..Len(s) |-> s[k]]

TypeOK ==
  /\ phase \in {"idle", "resolve", "enter", "run", "reauth", "answered"}
  /\ phase # "idle" => call \in Calls
  /\ phase \in {"resolve", "enter", "run", "reauth"} => IsOperation(call.op)
  /\ phase = "idle" => applied = <<>> /\ audit = <<>> /\ ~rerun
  /\ Consistent(box) /\ Consistent(before)
  /\ \A l \in DOMAIN registry : DOMAIN registry[l] = {"email", "connected"}
  /\ attempt \in 0..MaxRetries
  /\ label \in DOMAIN registry \cup {""}
  /\ IsList(got) /\ IsList(applied) /\ IsList(audit)
  /\ trouble \in [{"fault", "edit", "logout"} -> Nat]
  /\ lost \in 0..Len(applied) /\ lost <= trouble.fault
  /\ \A k \in DOMAIN got : got[k].ok \in BOOLEAN
  /\ answer.ok \in BOOLEAN /\ rerun \in BOOLEAN /\ gone \in BOOLEAN

\* The annotations of a verb are kept by its handler: one that is announced
\* as read-only, and any call of a server in read-only mode, changes nothing;
\* one announced as not destructive takes nothing away.  The guard of the mode
\* is passed by every handler that runs, the second run after a sign-in too.
HintsHold ==
  /\ phase = "run" => ~Blocked
  /\ applied = <<>> /\ Alone => box = before
  /\ applied # <<>> => ~readOnly /\ ~Hints.readOnly
  /\ applied # <<>> /\ Alone /\ ~Hints.destructive =>
       Cardinality(Ids(box)) >= Cardinality(Ids(before))

\* The idempotent hint: the same call made again leaves everything in the
\* mailbox as the first one left it.
RepeatsAreHarmless == round = 2 => box.items = before.items

\* Neither the retries of a request nor the second run of the handler after
\* a sign-in applies a write twice, except after a reply that was lost.
EachWriteOnce == \A k \in DOMAIN applied : Writes(applied[k]) <= 1 + lost

\* An error answer means that nothing was changed, unless the reply to a
\* change was lost on the way.
FailureMeansUntouched == Answered /\ ~answer.ok /\ lost = 0 => applied = <<>>

-------------------------------------------------------------------------------
(* The right account, folder, message and event. *)

\* A call is served from the account it names, or from the only connected one,
\* or from one of several with the user's word or as the default, from the
\* resolver to the end of the handler; and it finds no client only if that
\* account was logged out since: no handler and no reply says so by itself.
Entered == phase \in {"enter", "run"}
RightAccount ==
  /\ Entered =>
       /\ label \in DOMAIN registry
       /\ \/ label = AccountArg
          \/ AccountArg # "" /\ registry[label].email = AccountArg
          \/ AccountArg = ""
       /\ trouble.logout = 0 => registry[label].connected
  /\ \A k \in DOMAIN got : ~got[k].ok => got[k].value # "no account selected"
  /\ Answered /\ ~answer.ok /\ answer = Refused("no account selected") => trouble.logout > 0

\* A visible folder below another one that has the name a part of a path spells.
Leads(b, in, part, i) ==
  /\ i \in SubFolders(b, in) /\ ~b.items[i].hidden
  /\ Len(b.items[i].name) = 1 /\ Fold[b.items[i].name[1]] = Fold[part]

\* Where the parts of a path after the first n lead from there, folder by folder.
Spelt(b, top, n, parts) ==
  LET folders == {i \in Ids(b) : b.items[i].kind = "folder"}
      ways    == {w \in [n..Len(parts) -> folders \cup {top}] :
                    w[n] = top /\ \A k \in (n + 1)..Len(parts) : Leads(b, w[k - 1], parts[k], w[k])}
  IN {w[Len(parts)] : w \in ways}

\* What a reference may mean: its ID, a well-known folder, or a folder whose
\* path, from the root of the mailbox or from a well-known folder, it spells.
Denoted(b, ref) ==
  LET first == ref.parts[1]
  IN (IF ref.id = 0 THEN {} ELSE {ref.id})
     \cup (IF ref = NoRef THEN {0} ELSE {})
     \cup (IF ref.parts = <<>> THEN {}
           ELSE IF IsWellKnown(first) THEN Spelt(b, b.alias[Fold[first]], 1, ref.parts)
           ELSE Spelt(b, 0, 0, ref.parts))
Folder(p) == Denoted(before, Arg(Args, p, NoRef))

\* The messages of a batch.
Batched == LET ids == ParseMessageIDs(Arg(Args, "message_ids", <<>>)) IN {ids[n] : n \in 1..Len(ids)}

\* A folder by a path that leads there, a message or event by its ID, or one
\* that is new.
OnTarget(r) ==
  CASE r.op = "create" /\ r.item.kind = "folder" -> Target(before, r.in) \in Folder("parent")
    [] r.op = "create" /\ r.item.kind # "folder" -> r.in = ById(Arg(Args, "calendar_id", 0))
    [] r.op = "delete" /\ r.kind = "folder" -> Target(before, r.at) \in Folder("folder")
    [] r.op = "move" ->
         /\ Target(before, r.to) \in Folder("destination")
         /\ r.at.id \in {Arg(Args, "message_id", 0)} \cup Batched
    [] OTHER -> r.at.id \in {Arg(Args, "message_id", 0), Arg(Args, "event_id", 0)}
                  \cup {i \in Ids(box) : i >= before.next}

\* A call changes the item it names, or one it has made, in the place it names.
RightTarget == Alone => \A k \in DOMAIN applied : OnTarget(applied[k])

\* update_draft and delete_draft read a message before they write to it; a
\* message that was no draft then is never touched.
DraftsOnly ==
  Alone /\ Op({"mail.update_draft", "mail.delete_draft"}) =>
    \A k \in DOMAIN applied : before.items[applied[k].at.id].is_draft

\* A rescheduled event starts at the given time and lasts as long as before.
RescheduleKeepsDuration ==
  Success /\ Alone /\ Op({"calendar.reschedule_event", "calendar.reschedule_meeting"}) =>
    LET old == before.items[Args.event_id]
        new == box.items[Args.event_id]
    IN /\ new.start = EventTime(Args.new_start_datetime, Zone(Args, "new_start_timezone"))
       /\ new.finish - new.start = old.finish - old.start

\* An event made without an end lasts half an hour, or a day if it is an all-day
\* event, as the schema of end_datetime says; provided the start is in the zone
\* in which the server places the end.
EventLength ==
  Success /\ "end_datetime" \notin DOMAIN Args
          /\ Op({"calendar.create_event", "calendar.create_meeting"})
          /\ Zone(Args, "start_timezone") = Zone(Args, "end_timezone") =>
    LET event == box.items[answer.value.id]
    IN event.finish - event.start =
         IF Arg(Args, "is_all_day", FALSE) THEN DefaultAllDayDuration ELSE DefaultMeetingDuration

-------------------------------------------------------------------------------
(* True answers. *)

\* move_messages accounts for every message of the batch in its place: those
\* reported as moved were moved, and, as far as every reply came back, no
\* others were.
MovesAccounted ==
  Success /\ Op({"mail.move_messages"}) =>
    LET ids == ParseMessageIDs(Arg(Args, "message_ids", <<>>))
        ok  == {n \in 1..Len(ids) : answer.value[n].how = "ok"}
    IN /\ DOMAIN answer.value = 1..Len(ids)
       /\ \A n \in 1..Len(ids) : answer.value[n].id = ids[n]
       /\ \A n \in ok : \E k \in DOMAIN applied : applied[k].at.id = ids[n]
       /\ lost = 0 => Len(applied) = Cardinality(ok)

Messages(f) ==
  LET at == Denoted(before, Arg(Args, "folder", NoRef))
  IN {i \in Ids(before) : LET m == before.items[i]
        IN m.kind = "message" /\ (at = {0} \/ m.in \in at) /\ \A x \in DOMAIN f : m[x] = f[x]}
Events(in, w) ==
  {i \in Ids(before) : LET e == before.items[i]
     IN e.kind = "event" /\ e.in = in /\ e.start < Instant(w.to) /\ e.finish > Instant(w.from)}
Busy(i)  == before.items[i].show_as # "free"
Hits(i)  == \A f \in SearchParams \cap DOMAIN Args : before.items[i][f] = Args[f]
Thread   == IF "conversation_id" \in DOMAIN Args THEN Args.conversation_id
            ELSE before.items[Args.message_id].conversation_id
Calendar == IF "calendar_id" \in DOMAIN Args THEN Args.calendar_id ELSE before.calendar

\* What a listing should show, how many at most, and in which order; a
\* listing that has to choose shows the first ones unless it has no order.
Expected ==
  LET list(all, most, order, limited) ==
        [all |-> all, most |-> Clamp(Arg(Args, "max_results", 0), MaxList, most),
         order |-> order, firsts |-> limited]
  IN CASE call.op = "mail.list_messages" ->
            LET asked == Given(Args, FilterParams)
                sorted == {"flag_status", "conversation_id", "has_attachments"} \cap DOMAIN asked = {}
            IN list(Messages(asked), DefaultList, IF sorted THEN "newest" ELSE "any", sorted)
       [] call.op = "mail.search_messages" -> list(Messages(Args.query), DefaultList, "any", FALSE)
       [] call.op = "mail.get_conversation" ->
            list(Messages([conversation_id |-> Thread]), DefaultThread, "oldest", FALSE)
       [] call.op = "calendar.list_events" ->
            list(Events(Calendar, Window(Args)), DefaultList, "start", TRUE)
       [] call.op = "calendar.search_events" ->
            list({i \in Events(before.calendar, SearchWindow(Args)) : Hits(i) /\
                    ("query" \in DOMAIN Args => before.items[i].subject = Args.query)},
                 DefaultList, "start", TRUE)
       [] call.op = "calendar.get_free_busy" ->
            [all |-> {i \in Events(before.calendar, Window(Args)) : Busy(i)},
             most |-> Cardinality(Ids(before)), order |-> "start", firsts |-> TRUE]
Precedes(order, i, j) ==
  CASE order = "newest" -> before.items[i].stamp >= before.items[j].stamp
    [] order = "oldest" -> before.items[i].stamp <= before.items[j].stamp
    [] order = "start"  -> before.items[i].start <= before.items[j].start
    [] OTHER            -> TRUE

Listings == {"mail.list_messages", "mail.search_messages", "mail.get_conversation",
             "calendar.list_events", "calendar.search_events", "calendar.get_free_busy"}

\* A listing shows the items that were asked for and no others, each once and
\* in order, as many as there are or as were asked for, whatever the size of
\* Graph's pages.
ListingIsRight ==
  Success /\ Alone /\ Op(Listings) =>
    LET shown == [k \in DOMAIN answer.value |-> answer.value[k].id]
        want  == Expected
        rest  == want.all \ Range(shown)
    IN /\ Range(shown) \subseteq want.all /\ IsInjective(shown)
       /\ Len(shown) = Min({want.most, Cardinality(want.all)})
       /\ \A i, j \in DOMAIN shown : i < j => Precedes(want.order, shown[i], shown[j])
       /\ want.firsts => \A k \in DOMAIN shown : \A i \in rest : Precedes(want.order, shown[k], i)

\* A handler's work, done at once by an undisturbed Graph.
Outcome(Work(_)) ==
  LET replies[n \in 0..6] ==
        IF n = 0 THEN <<>>
        ELSE LET had == replies[n - 1]
                 s   == Work(had)
             IN IF s.next = "ask" THEN Append(had, Reply(before, s.req)) ELSE had
  IN Work(replies[6])

\* A path of list_folders, given back as a reference, leads to the folder it
\* was printed for: provided the listing did not begin at an ID, whose path the
\* handler does not know, no name on the path contains a slash, and the first
\* name, if it is the key of a well-known folder, is that of this folder.
Traceable(id) ==
  \A i \in Above(before, id) :
    LET folder == before.items[i]
        key    == Fold[folder.name[1]]
    IN /\ Len(folder.name) = 1
       /\ folder.in = 0 /\ key \in DOMAIN WellKnown => before.alias[key] = i
PathsRoundTrip ==
  Success /\ Alone /\ Op({"mail.list_folders"}) /\ Arg(Args, "folder", NoRef).id = 0 =>
    \A k \in DOMAIN answer.value.nodes :
      LET node == answer.value.nodes[k]
          back == Outcome(LAMBDA r : ResolveFolderRef([parts |-> node.path, id |-> 0], FALSE, r))
      IN Traceable(node.id) => back.next = "done" /\ Target(before, back.value.at) = node.id

\* A listing of folders tells of every visible folder below its root: each is
\* listed, or the folder above it says that it has more.
FoldersAccounted ==
  Success /\ Alone /\ Op({"mail.list_folders"}) =>
    LET nodes == Range(answer.value.nodes)
        shown(id) == {n \in nodes : before.items[n.id].in = id}
        visible(id) == {i \in SubFolders(before, id) : ~before.items[i].hidden}
    IN /\ Cardinality(nodes) = Len(answer.value.nodes)
       /\ answer.value.truncated \/ Cardinality(shown(Target(before, answer.value.root)))
                                     = Cardinality(visible(Target(before, answer.value.root)))
       /\ \A n \in nodes :
            n.err \/ n.truncated \/
              Cardinality(visible(n.id))
                <= Cardinality(shown(n.id)) + UnreturnedChildren(n) + UnexploredChildren(n)

-------------------------------------------------------------------------------
(* The audit log, and the work a call makes. *)

\* The audit log has an entry for every run of a handler, with its outcome: one
\* of a failure while a sign-in is under way and during the run that follows
\* it, none before.  At the end the last entry tells how the call ended, the one
\* before it, if there is one, was that first run, and no change goes unrecorded.
AuditMatches ==
  /\ phase \in {"resolve", "enter", "run", "reauth"} =>
       Len(audit) = IF rerun \/ phase = "reauth" THEN 1 ELSE 0
  /\ ~Answered => \A k \in DOMAIN audit : ~audit[k].ok
  /\ rerun => phase # "reauth"
  /\ applied # <<>> /\ audit = <<>> => phase = "run"
  /\ Answered =>
       /\ answer.ok => audit # <<>> /\ Last(audit).ok
       /\ applied # <<>> => audit # <<>>
       /\ Len(audit) <= 2 /\ \A k \in 1..(Len(audit) - 1) : ~audit[k].ok
       /\ ~answer.ok /\ audit # <<>> => ~Last(audit).ok

\* A handler asks for no more than its work needs: one lookup for each part of
\* a path, no page after the one that completes a listing, one page for each
\* folder it expands, and one move for each message.
LookupsOf(ref) ==
  Cardinality({k \in DOMAIN ref.parts : k > 1 \/ ~IsWellKnown(ref.parts[k])})
  + (IF ref.id = 0 THEN 0 ELSE 1)
Lookups == LookupsOf(Arg(Args, "folder", NoRef)) + LookupsOf(Arg(Args, "destination", NoRef))
Pages(n, size) == Max({1, (n + size - 1) \div size})
RequestsAreFew ==
  Success /\ Alone =>
    CASE Op({"mail.list_messages", "calendar.list_events"}) ->
           LET kind == IF Op({"mail.list_messages"}) THEN "message" ELSE "event"
           IN Len(got) <= Lookups + Pages(Len(answer.value), PageSize[kind])
      [] Op({"mail.list_folders"}) ->
           Len(got) <= Lookups + 1 + Cardinality({n \in Range(answer.value.nodes) : n.expanded \/ n.err})
      [] Op({"mail.move_messages"}) -> Len(got) <= Lookups + Len(Args.message_ids)
      [] OTHER -> TRUE
===============================================================================
