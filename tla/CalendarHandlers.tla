--------------------------- MODULE CalendarHandlers ---------------------------
(***************************************************************************)
(* The calendar verbs: listing and searching a window of time, creating,   *)
(* changing, moving, cancelling and answering events.                      *)
(*                                                                         *)
(* Time is counted in half hours.  A text of a time is its wall clock and  *)
(* the offset it names: a zone, "" for none, and NoTime for no text.       *)
(***************************************************************************)
EXTENDS GraphCalls

CONSTANTS
  Offset,            \* zone -> its distance from UTC; "UTC" is one of the zones
  DefaultZone,       \* cfg.DefaultTimezone
  Now,               \* the time of the call, UTC
  SearchPageSize     \* searchPageSize

ASSUME ZoneAssumption ==
  /\ "UTC" \in DOMAIN Offset /\ DefaultZone \in DOMAIN Offset
  /\ Offset \in [DOMAIN Offset -> Int]

Text(at, zone) == [at |-> at, zone |-> zone]
NoTime == Text(0, "absent")

\* The types of the times and zones of an argument.
Timed(a) ==
  /\ \A p \in DOMAIN a \cap {"start_datetime", "end_datetime", "new_start_datetime"} :
       a[p] \in [at : Int, zone : DOMAIN Offset \cup {""}]
  /\ \A p \in DOMAIN a \cap {"start_timezone", "end_timezone", "new_start_timezone"} :
       a[p] \in DOMAIN Offset

DefaultMeetingDuration == 1
DayLength == 48
DefaultAllDayDuration == DayLength
DefaultSearchSpan == 30 * DayLength

\* What Graph makes of a text: with a time zone beside it, as in an event, and
\* without one, as in the window of a calendar view.
EventTime(text, zone) == text.at - Offset[IF text.zone = "" THEN zone ELSE text.zone]
Instant(text)         == EventTime(text, "UTC")

-------------------------------------------------------------------------------
(* Windows of time. *)

\* Midnight to midnight in the default zone; day 0 was a Monday.
Today == (Now + Offset[DefaultZone]) \div DayLength
FormatDayRange(day) ==
  [from |-> Text(day * DayLength, ""), to |-> Text((day + 1) * DayLength, "")]
FormatWeekRange(weekOffset) ==
  LET monday == Today - (Today % 7) + weekOffset * 7
  IN [from |-> Text(monday * DayLength, ""), to |-> Text((monday + 7) * DayLength, "")]

ExpandDateParam(date) ==
  CASE date = "today"     -> FormatDayRange(Today)
    [] date = "tomorrow"  -> FormatDayRange(Today + 1)
    [] date = "this_week" -> FormatWeekRange(0)
    [] date = "next_week" -> FormatWeekRange(1)

\* Each end that is given explicitly takes precedence over the date.
Window(a) ==
  LET day == IF "date" \in DOMAIN a THEN ExpandDateParam(a.date)
             ELSE [from |-> NoTime, to |-> NoTime]
  IN [from |-> Arg(a, "start_datetime", day.from), to |-> Arg(a, "end_datetime", day.to)]

CalendarView(in, w, filter, top) ==
  With(Listing("event", in, filter, "start", top), [from |-> Instant(w.from), to |-> Instant(w.to)])

\* list_events and get_free_busy need both ends.
InWindow(a, got, K(_)) ==
  IF Bad(a, "shape") \/ NoTime \in {Window(a).from, Window(a).to}
  THEN Fail("argument", got) ELSE K(Window(a))

ListEvents(a, got) ==
  LET limit == Clamp(Arg(a, "max_results", 0), MaxList, DefaultList)
  IN InWindow(a, got, LAMBDA w :
       IteratePages(CalendarView(ById(Arg(a, "calendar_id", 0)), w, <<>>, limit), limit, Everything, got))

\* Every page, however many; each holds at most PageSize events.
GetFreeBusy(a, got) ==
  InWindow(a, got, LAMBDA w :
    Then(IteratePages(CalendarView(Mailbox, w, <<>>, MaxList), PageSize["event"] * (Len(got) + 1),
                      Everything, got), LAMBDA events, rest :
      Done(SelectSeq(events, LAMBDA event : event.show_as # "free"), rest)))

DefaultSearchEnd(from) ==
  IF from.zone = "" THEN Text(Now + DefaultSearchSpan, "UTC")
  ELSE Text(from.at + DefaultSearchSpan, from.zone)

BuildClientFilter(subject) == IF subject = "" THEN Everything ELSE [subject |-> subject]

ExecuteSearchCalendarView(w, filter, limit, subject, got) ==
  LET top == IF subject # "" /\ limit < SearchPageSize THEN SearchPageSize ELSE limit
  IN IteratePages(CalendarView(Mailbox, w, filter, top), limit,
                  BuildClientFilter(subject), got)

SearchWindow(a) ==
  LET w    == Window(a)
      from == IF w.from = NoTime THEN Text(Now, "UTC") ELSE w.from
  IN [from |-> from, to |-> IF w.to = NoTime THEN DefaultSearchEnd(from) ELSE w.to]

SearchParams == {"importance", "sensitivity", "is_all_day", "show_as", "is_cancelled"}
SearchFilter(a) ==
  With(IF Arg(a, "created_by_mcp", FALSE) /\ ProvenanceTag THEN [tag |-> TRUE] ELSE <<>>,
       Given(a, SearchParams))

SearchEvents(a, got) ==
  IF Bad(a, "shape") THEN Fail("argument", got)
  ELSE ExecuteSearchCalendarView(SearchWindow(a), SearchFilter(a),
                                 Clamp(Arg(a, "max_results", 0), MaxList, DefaultList), Arg(a, "query", ""), got)

EventID(a) == Arg(a, "event_id", 0)

GetEvent(a, got) ==
  IF Bad(a, "shape") \/ EventID(a) = 0 THEN Fail("argument", got) ELSE Request(Get("event", EventID(a)), got)

\* One page of the size Graph chooses; a link to the next is not followed.
ListCalendars(a, got) ==
  IF Bad(a, "shape") THEN Fail("argument", got)
  ELSE Then(Request(Listing("calendar", Mailbox, <<>>, "any", PageSize["calendar"]), got),
            LAMBDA page, rest : Done(page.items, rest))

-------------------------------------------------------------------------------
(* Creating and changing events. *)

Zone(a, name) == Arg(a, name, DefaultZone)

\* mutant: an all-day event is no longer than any other
ComputeShortEndTime(start, allDay) ==
  IF start.zone # "" THEN NoTime ELSE Text(start.at + DefaultMeetingDuration, "")

\* Only a start without an offset can be added to.
ComputeDefaultEndTime(start, allDay) ==
  IF start.zone # "" THEN NoTime
  ELSE Text(start.at + (IF allDay THEN DefaultAllDayDuration ELSE DefaultMeetingDuration), "")

EventFields == {"subject", "body", "location", "attendees", "is_online_meeting", "is_all_day",
                "importance", "sensitivity", "show_as", "categories", "recurrence",
                "reminder_minutes", "is_reminder_on"}
BlankEvent == [kind |-> "event", subject |-> "", attendees |-> FALSE, show_as |-> "busy",
               importance |-> "normal", response |-> "none", tag |-> ProvenanceTag]

HandleCreateEvent(a, got) ==
  LET start == Arg(a, "start_datetime", NoTime)
      end   == Arg(a, "end_datetime", ComputeDefaultEndTime(start, Arg(a, "is_all_day", FALSE)))
      times == [start  |-> EventTime(start, Zone(a, "start_timezone")),
                finish |-> EventTime(end, Zone(a, "end_timezone"))]
  IN IF Bad(a, "shape") \/ "subject" \notin DOMAIN a \/ NoTime \in {start, end}
     THEN Fail("argument", got)
     ELSE Request(Create(ById(Arg(a, "calendar_id", 0)),
                         With(With(BlankEvent, Given(a, EventFields)), times)), got)

\* Only what is given is changed, nothing at all included.
EventPatch(a) ==
  LET starts == IF "start_datetime" \notin DOMAIN a THEN <<>>
                ELSE [start |-> EventTime(a.start_datetime, Zone(a, "start_timezone"))]
      ends   == IF "end_datetime" \notin DOMAIN a THEN <<>>
                ELSE [finish |-> EventTime(a.end_datetime, Zone(a, "end_timezone"))]
  IN With(With(Given(a, EventFields), ends), starts)

HandleUpdateEvent(a, got) ==
  IF Bad(a, "shape") \/ EventID(a) = 0 THEN Fail("argument", got)
  ELSE Request(Patch("event", EventID(a), EventPatch(a)), got)

ComputeEventDuration(event) == event.finish - event.start
AddDefaultDuration(text, d) == Text(text.at + DefaultMeetingDuration, "")   \* mutant
AddDuration(text, d) == IF text.zone # "" THEN NoTime ELSE Text(text.at + d, "")

\* The old duration is read first, the new times are written afterwards.
HandleRescheduleEvent(a, got) ==
  LET start == Arg(a, "new_start_datetime", NoTime)
      zone  == Zone(a, "new_start_timezone")
  IN IF Bad(a, "shape") \/ EventID(a) = 0 \/ start = NoTime THEN Fail("argument", got)
     ELSE Then(Request(Get("event", EventID(a)), got), LAMBDA event, rest :
       LET end == AddDuration(start, ComputeEventDuration(event))
       IN IF end = NoTime THEN Fail("argument", rest)
          ELSE Request(Patch("event", EventID(a), [start  |-> EventTime(start, zone),
                                             finish |-> EventTime(end, zone)]), rest))

HandleDeleteEvent(a, got) ==
  IF Bad(a, "shape") \/ EventID(a) = 0 THEN Fail("argument", got)
  ELSE Request(Delete("event", ById(EventID(a))), got)

\* Graph takes the event away and writes to everyone who was invited.
HandleCancelEvent(a, got) ==
  IF Bad(a, "shape") \/ EventID(a) = 0 THEN Fail("argument", got)
  ELSE Request(Cancel(EventID(a)), got)

HandleRespondEvent(a, got) ==
  IF Bad(a, "shape") \/ EventID(a) = 0 \/ Arg(a, "response", "") \notin {"accept", "tentative", "decline"}
  THEN Fail("argument", got)
  ELSE Request(Act(EventID(a), [response |-> a.response], Arg(a, "send_response", TRUE)), got)
===============================================================================
