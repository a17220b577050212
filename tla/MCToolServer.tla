----------------------------- MODULE MCToolServer -----------------------------
(* Model-checking instance of ToolPromises: two mailboxes, three registries  *)
(* and at least one call of every mail and calendar verb.                    *)
EXTENDS ToolPromises

McFold ==
  [Inbox |-> "inbox", inbox |-> "inbox", Drafts |-> "drafts", Archive |-> "archive",
   archive |-> "archive", Arkiv |-> "arkiv", Work |-> "work", work |-> "work", Sub |-> "sub",
   a |-> "a", b |-> "b", Old |-> "old", New |-> "new"]
McWellKnown == [inbox |-> "Inbox", drafts |-> "Drafts", archive |-> "Archive"]
McOffset    == [UTC |-> 0, CET |-> 2, EST |-> -10, EET |-> 4]
McPageSize  == [folder |-> 10, message |-> 2, event |-> 2, attachment |-> 2, calendar |-> 2]

Dir(in, name) == [kind |-> "folder", in |-> in, name |-> name, hidden |-> FALSE]
Msg(in, stamp, conv, flag) ==
  [kind |-> "message", in |-> in, stamp |-> stamp, conversation_id |-> conv, flag_status |-> flag,
   is_draft |-> in = 2, tag |-> FALSE, subject |-> "s", importance |-> "normal",
   has_attachments |-> stamp = 10]
File(in, size) == [kind |-> "attachment", in |-> in, size |-> size]
Cal == [kind |-> "calendar", in |-> 0]
Evt(in, start, finish, subject, show) ==
  [kind |-> "event", in |-> in, stamp |-> start, start |-> start, finish |-> finish,
   subject |-> subject, show_as |-> show, attendees |-> start > 110, importance |-> "normal",
   response |-> "none", tag |-> FALSE]

Folders ==
  1 :> Dir(0, <<"Inbox">>) @@ 2 :> Dir(0, <<"Drafts">>) @@ 3 :> Dir(0, <<"Work">>) @@
  4 :> Dir(3, <<"Sub">>) @@ 5 :> Dir(1, <<"Sub">>) @@ 6 :> Dir(3, <<"a", "b">>) @@
  7 :> [Dir(3, <<"Old">>) EXCEPT !.hidden = TRUE] @@ 8 :> Dir(0, <<"Arkiv">>) @@
  9 :> Dir(0, <<"Archive">>)
Mails ==
  10 :> Msg(1, 10, 1, "flagged") @@ 11 :> Msg(2, 11, 0, "notFlagged") @@
  12 :> Msg(1, 12, 1, "notFlagged") @@ 13 :> Msg(3, 13, 2, "flagged") @@
  14 :> Msg(1, 14, 1, "flagged") @@ 15 :> File(10, 1) @@ 16 :> File(10, 9)
Dates ==
  17 :> Cal @@ 18 :> Cal @@ 19 :> Evt(17, 120, 124, "A", "busy") @@
  20 :> Evt(17, 100, 101, "B", "free") @@ 21 :> Evt(17, 98, 100, "A", "busy") @@
  22 :> Evt(18, 99, 101, "A", "busy") @@ 23 :> Evt(17, 130, 131, "A", "oof")

Alias(archive) == [inbox |-> 1, drafts |-> 2, archive |-> archive]
FullBox  == [items |-> Folders @@ Mails @@ Dates, next |-> 24, alias |-> Alias(8),
             calendar |-> 17, mails |-> 0]
EmptyBox == [items |-> 1 :> Dir(0, <<"Inbox">>) @@ 2 :> Dir(0, <<"Drafts">>) @@
                       3 :> Dir(0, <<"Archive">>) @@ 17 :> Cal,
             next |-> 24, alias |-> Alias(3), calendar |-> 17, mails |-> 0]
McBoxes == {FullBox, EmptyBox}

Acct(email, connected) == [email |-> email, connected |-> connected]
McRegistries ==
  {[work |-> Acct("w@x", TRUE), home |-> Acct("", FALSE)],
   [work |-> Acct("w@x", TRUE), home |-> Acct("h@x", TRUE), default |-> Acct("", FALSE)]}

-------------------------------------------------------------------------------
Ref(parts)  == [parts |-> parts, id |-> 0]
RefId(id)   == [parts |-> <<>>, id |-> id]
On(op, args) == [op |-> op, args |-> args @@ [account |-> "work"]]
At(t, zone) == Text(t, zone)

AccountCalls ==
  {[op |-> "mail.get_message", args |-> [message_id |-> 12]],
   [op |-> "mail.create_draft", args |-> [subject |-> "n"]],
   [op |-> "calendar.delete_event", args |-> [event_id |-> 19, account |-> "h@x"]],
   [op |-> "calendar.explode", args |-> <<>>]}

FolderCalls ==
  {On("mail.list_folders", <<>>),
   On("mail.list_folders", [recursive |-> TRUE]),
   On("mail.list_folders", [recursive |-> TRUE, max_depth |-> 2, max_results |-> 2]),
   On("mail.list_folders", [folder |-> Ref(<<"work">>), recursive |-> TRUE]),
   On("mail.list_folders", [folder |-> Ref(<<"Archive">>)]),
   On("mail.list_folders", [folder |-> RefId(3)]),
   On("mail.create_folder", [display_name |-> <<"New">>, parent |-> Ref(<<"inbox", "Sub">>)]),
   On("mail.create_folder", [display_name |-> <<"Sub">>, parent |-> Ref(<<"Work">>)]),
   On("mail.create_folder", [display_name |-> <<"New">>]),
   On("mail.delete_folder", [folder |-> Ref(<<"Work", "Sub">>)]),
   On("mail.delete_folder", [folder |-> Ref(<<"Work", "b">>)]),
   On("mail.delete_folder", [folder |-> RefId(3)]),
   On("mail.delete_folder", [folder |-> Ref(<<"Inbox">>)])}

MailCalls ==
  {On("mail.list_messages", <<>>),
   On("mail.list_messages", [folder |-> Ref(<<"Inbox">>), max_results |-> 2]),
   On("mail.list_messages", [folder |-> Ref(<<"Work">>), flag_status |-> "flagged"]),
   On("mail.search_messages", [query |-> [subject |-> "s"], max_results |-> 3]),
   On("mail.get_conversation", [message_id |-> 12]),
   On("mail.get_conversation", [conversation_id |-> 1, max_results |-> 2]),
   On("mail.get_message", [message_id |-> 3]),
   On("mail.get_message", [bad |-> "shape"]),
   On("mail.list_attachments", [message_id |-> 10]),
   On("mail.get_attachment", [message_id |-> 10, attachment_id |-> 15]),
   On("mail.get_attachment", [message_id |-> 10, attachment_id |-> 16]),
   On("mail.create_draft", [subject |-> "n"]),
   On("mail.create_reply_draft", [message_id |-> 10]),
   On("mail.create_forward_draft", [message_id |-> 11]),
   On("mail.update_draft", [message_id |-> 11, subject |-> "n"]),
   On("mail.update_draft", [message_id |-> 12, subject |-> "n"]),
   On("mail.update_draft", [message_id |-> 11, bad |-> "value"]),
   On("mail.delete_draft", [message_id |-> 11]),
   On("mail.delete_draft", [message_id |-> 12]),
   On("mail.move_message", [message_id |-> 12, destination |-> Ref(<<"Archive">>)]),
   On("mail.move_message", [message_id |-> 12, destination |-> RefId(3)]),
   On("mail.move_messages", [message_ids |-> <<10, 0, 12, 10>>, destination |-> Ref(<<"Work">>)]),
   On("mail.move_messages", [message_ids |-> <<3, 4>>, destination |-> Ref(<<"Inbox">>)])}

EventCalls ==
  {On("calendar.list_calendars", <<>>),
   On("calendar.list_events", [date |-> "today", max_results |-> 3]),
   On("calendar.list_events", [date |-> "this_week", calendar_id |-> 18]),
   On("calendar.list_events", [start_datetime |-> At(100, "UTC"), end_datetime |-> At(120, "EST")]),
   On("calendar.get_free_busy", [date |-> "this_week"]),
   On("calendar.get_free_busy", [date |-> "next_week"]),
   On("calendar.search_events", [query |-> "A", max_results |-> 2]),
   On("calendar.search_events", [date |-> "today", show_as |-> "busy"]),
   On("calendar.search_events", [date |-> "tomorrow"]),
   On("calendar.get_event", [event_id |-> 19]),
   On("calendar.create_event", [subject |-> "n", start_datetime |-> At(140, "")]),
   On("calendar.create_event", [subject |-> "n", start_datetime |-> At(140, "UTC")]),
   On("calendar.create_event", [subject |-> "n", start_datetime |-> At(140, ""),
                                start_timezone |-> "EST"]),
   On("calendar.create_event", [subject |-> "n", start_datetime |-> At(140, ""),
                                start_timezone |-> "EET"]),
   On("calendar.create_meeting", [subject |-> "n", attendees |-> TRUE, is_all_day |-> TRUE,
                                  start_datetime |-> At(144, ""), calendar_id |-> 18]),
   On("calendar.update_event", [event_id |-> 20, end_datetime |-> At(110, "")]),
   On("calendar.update_event", [event_id |-> 20, end_datetime |-> At(90, "")]),
   On("calendar.update_meeting", [event_id |-> 19, attendees |-> TRUE]),
   On("calendar.reschedule_event", [event_id |-> 19, new_start_datetime |-> At(150, ""),
                                    new_start_timezone |-> "EST"]),
   On("calendar.reschedule_meeting", [event_id |-> 19, new_start_datetime |-> At(150, "UTC")]),
   On("calendar.delete_event", [event_id |-> 20]),
   On("calendar.cancel_meeting", [event_id |-> 19]),
   On("calendar.respond_event", [event_id |-> 19, response |-> "accept"]),
   On("calendar.respond_event", [event_id |-> 19, response |-> "maybe"])}

McCalls == AccountCalls \cup FolderCalls \cup MailCalls \cup EventCalls
===============================================================================
