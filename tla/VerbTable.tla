------------------------------- MODULE VerbTable -------------------------------
(***************************************************************************)
(* The four tools of the server, calendar, mail, account and system, and   *)
(* the verbs each of them dispatches to: what a verb promises its client   *)
(* (the hints), how it is wrapped, what it is audited as, and the names of *)
(* its parameters.                                                         *)
(***************************************************************************)
EXTENDS FiniteSets

CONSTANTS
  MailEnabled,         \* cfg.MailEnabled
  MailManageEnabled    \* cfg.MailManageEnabled

Reads   == [readOnly |-> TRUE,  destructive |-> FALSE, idempotent |-> TRUE]
AddsRepeatably == [readOnly |-> FALSE, destructive |-> FALSE, idempotent |-> TRUE]   \* mutant
Adds    == [readOnly |-> FALSE, destructive |-> FALSE, idempotent |-> FALSE]
Changes == [readOnly |-> FALSE, destructive |-> FALSE, idempotent |-> TRUE]
Removes == [readOnly |-> FALSE, destructive |-> TRUE,  idempotent |-> TRUE]

\* wrap, and wrapWrite with the read-only guard in it.
Plain(name, audit, hints, params) ==
  [name |-> name, audit |-> audit, hints |-> hints, params |-> params, guarded |-> FALSE]
Guarded(name, audit, hints, params) ==
  [Plain(name, audit, hints, params) EXCEPT !.guarded = TRUE]

Account == {"account"}
Output  == {"output"}

-------------------------------------------------------------------------------
(* Mail. *)

ListFoldersVerb ==
  Plain("mail.list_folders", "read", Reads,
    {"folder", "recursive", "max_depth", "max_results"} \cup Account \cup Output)

ListMessagesVerb ==
  Plain("mail.list_messages", "read", Reads,
    {"folder", "folder_id", "start_datetime", "end_datetime", "from", "conversation_id",
     "is_read", "is_draft", "has_attachments", "importance", "flag_status", "provenance",
     "max_results", "timezone"} \cup Account \cup Output)

GetMessageVerb ==
  Plain("mail.get_message", "read", Reads,
    {"message_id", "body_mode"} \cup Account \cup Output)

SearchMessagesVerb ==
  Plain("mail.search_messages", "read", Reads,
    {"query", "folder", "folder_id", "max_results"} \cup Account \cup Output)

GetConversationVerb ==
  Plain("mail.get_conversation", "read", Reads,
    {"message_id", "conversation_id", "max_results", "body_mode"} \cup Account \cup
     Output)

ListAttachmentsVerb ==
  Plain("mail.list_attachments", "read", Reads, {"message_id"} \cup Account \cup Output)

GetAttachmentVerb ==
  Plain("mail.get_attachment", "read", Reads,
    {"message_id", "attachment_id"} \cup Account \cup Output)

CreateDraftVerb ==
  Guarded("mail.create_draft", "write", Adds,
    {"to_recipients", "cc_recipients", "bcc_recipients", "subject", "body",
     "content_type", "importance"} \cup Account)

CreateReplyDraftVerb ==
  Guarded("mail.create_reply_draft", "write", Adds,
    {"message_id", "comment", "reply_all"} \cup Account)

CreateForwardDraftVerb ==
  Guarded("mail.create_forward_draft", "write", Adds,
    {"message_id", "to_recipients", "comment"} \cup Account)

UpdateDraftVerb ==
  Guarded("mail.update_draft", "write", Changes,
    {"message_id", "to_recipients", "cc_recipients", "bcc_recipients", "subject", "body",
     "content_type", "importance"} \cup Account)

DeleteDraftVerb ==
  Guarded("mail.delete_draft", "delete", Removes, {"message_id"} \cup Account)

CreateFolderVerb ==
  Guarded("mail.create_folder", "write", Adds,
    {"display_name", "parent", "parent_folder_id"} \cup Account)

DeleteFolderVerb ==
  Guarded("mail.delete_folder", "delete", Removes, {"folder"} \cup Account)

MoveMessageVerb ==
  Guarded("mail.move_message", "write", Adds, {"message_id", "destination"} \cup Account)

MoveMessagesVerb ==
  Guarded("mail.move_messages", "write", Adds, {"message_ids", "destination"} \cup Account)

-------------------------------------------------------------------------------
(* Calendar. *)

EventParams ==
  {"subject", "start_datetime", "start_timezone", "end_datetime", "end_timezone", "body",
   "content_type", "location", "is_online_meeting", "is_all_day", "importance",
   "sensitivity", "show_as", "categories", "recurrence", "reminder_minutes"}

ListCalendarsVerb ==
  Plain("calendar.list_calendars", "read", Reads, Account \cup Output)

ListEventsVerb ==
  Plain("calendar.list_events", "read", Reads,
    {"date", "start_datetime", "end_datetime", "calendar_id", "max_results", "timezone"}
     \cup Account \cup Output)

GetEventVerb ==
  Plain("calendar.get_event", "read", Reads,
    {"event_id", "timezone"} \cup Account \cup Output)

SearchEventsVerb ==
  Plain("calendar.search_events", "read", Reads,
    {"query", "date", "start_datetime", "end_datetime", "importance", "sensitivity",
     "is_all_day", "show_as", "is_cancelled", "categories", "max_results", "timezone"}
     \cup Account \cup Output)

CreateEventVerb ==
  Guarded("calendar.create_event", "write", Adds,
    {"calendar_id"} \cup EventParams \cup Account)

UpdateEventVerb ==
  Guarded("calendar.update_event", "write", Changes,
    {"event_id", "is_reminder_on"} \cup EventParams \cup Account)

DeleteEventVerb ==
  Guarded("calendar.delete_event", "delete", Removes, {"event_id"} \cup Account)

RespondEventVerb ==
  Guarded("calendar.respond_event", "write", Changes,
    {"event_id", "response", "comment", "send_response"} \cup Account)

RescheduleEventVerb ==
  Guarded("calendar.reschedule_event", "write", Changes,
    {"event_id", "new_start_datetime", "new_start_timezone"} \cup Account)

CreateMeetingVerb ==
  Guarded("calendar.create_meeting", "write", Adds,
    {"attendees", "calendar_id"} \cup EventParams \cup Account)

UpdateMeetingVerb ==
  Guarded("calendar.update_meeting", "write", Changes,
    {"event_id", "attendees", "is_reminder_on"} \cup EventParams \cup Account)

CancelMeetingVerb ==
  Guarded("calendar.cancel_meeting", "delete", Removes,
    {"event_id", "comment"} \cup Account)

RescheduleMeetingVerb ==
  Guarded("calendar.reschedule_meeting", "write", Changes,
    {"event_id", "new_start_datetime", "new_start_timezone"} \cup Account)

GetFreeBusyVerb ==
  Plain("calendar.get_free_busy", "read", Reads,
    {"date", "start_datetime", "end_datetime", "timezone"} \cup Account \cup Output)

-------------------------------------------------------------------------------
(* Account. *)

AddVerb ==
  Plain("account.add", "write", Adds, {"label", "client_id", "tenant_id", "auth_method"})

RemoveVerb ==
  Plain("account.remove", "write", Removes, {"label"})

ListVerb ==
  Plain("account.list", "read", Reads, Output)

LoginVerb ==
  Plain("account.login", "write", Adds, {"label"})

LogoutVerb ==
  Plain("account.logout", "write", Changes, {"label"})

RefreshVerb ==
  Plain("account.refresh", "write", Changes, {"label"})

-------------------------------------------------------------------------------
(* System. *)

StatusVerb ==
  Plain("system.status", "read", Reads, Output)

ListDocsVerb ==
  Plain("system.list_docs", "read", Reads, Output)

SearchDocsVerb ==
  Plain("system.search_docs", "read", Reads, {"query"} \cup Output)

GetDocsVerb ==
  Plain("system.get_docs", "read", Reads, {"slug", "section"} \cup Output)

CompleteAuthVerb ==
  Plain("system.complete_auth", "write", Adds, {"redirect_url"} \cup Account)

MailVerbs ==
    {ListFoldersVerb, ListMessagesVerb, GetMessageVerb, SearchMessagesVerb}
  \cup (IF ~MailEnabled THEN {} ELSE
    {GetConversationVerb, ListAttachmentsVerb, GetAttachmentVerb})
  \cup (IF ~MailManageEnabled THEN {} ELSE
    {CreateDraftVerb, CreateReplyDraftVerb, CreateForwardDraftVerb, UpdateDraftVerb,
     DeleteDraftVerb, CreateFolderVerb, DeleteFolderVerb, MoveMessageVerb,
     MoveMessagesVerb})

CalendarVerbs ==
    {ListCalendarsVerb, ListEventsVerb, GetEventVerb, SearchEventsVerb,
     CreateEventVerb, UpdateEventVerb, DeleteEventVerb, RespondEventVerb,
     RescheduleEventVerb, CreateMeetingVerb, UpdateMeetingVerb, CancelMeetingVerb,
     RescheduleMeetingVerb, GetFreeBusyVerb}

AccountVerbs ==
    {AddVerb, RemoveVerb, ListVerb, LoginVerb, LogoutVerb, RefreshVerb}

SystemVerbs ==
    {StatusVerb, ListDocsVerb, SearchDocsVerb, GetDocsVerb, CompleteAuthVerb}

-------------------------------------------------------------------------------
(* Registration and dispatch.  The handler of help is left out: it renders the
   table. *)

RegisterTools == CalendarVerbs \cup AccountVerbs \cup SystemVerbs \cup MailVerbs

IsOperation(op) == \E v \in RegisterTools : v.name = op
VerbOf(op)      == CHOOSE v \in RegisterTools : v.name = op

===============================================================================
