---------------------------- MODULE ToolWritesProofs ---------------------------
(***************************************************************************)
(* Theorems about the writes of a call: what has been read before one, how *)
(* often one is made, and what an answer says of it.  They hold for any    *)
(* calls, mailboxes and registries and any amount of trouble.              *)
(***************************************************************************)
EXTENDS ToolPromisesProofs

DraftOps      == {"mail.update_draft", "mail.delete_draft"}
RescheduleOps == {"calendar.reschedule_event", "calendar.reschedule_meeting"}
CreateOps     == {"calendar.create_event", "calendar.create_meeting"}

-------------------------------------------------------------------------------
\* Replies.
LEMMA FirstReply ==
  ASSUME NEW S, NEW rs \in Seq(S), rs # <<>>
  PROVE  /\ Len(rs) \in Nat /\ Len(rs) >= 1 /\ Head(rs) = rs[1] /\ Tail(rs) \in Seq(S)
         /\ Len(Tail(rs)) = Len(rs) - 1
         /\ \A k \in 1 .. Len(rs) - 1 : Tail(rs)[k] = rs[k + 1]
         /\ Len(rs) = 1 => Tail(rs) = <<>>
         /\ Tail(rs) # <<>> => Len(rs) >= 2 /\ Head(Tail(rs)) = rs[2]
<1>1. /\ Len(rs) \in Nat /\ Len(rs) >= 1 /\ Head(rs) = rs[1] /\ Tail(rs) \in Seq(S)
      /\ Len(Tail(rs)) = Len(rs) - 1
      /\ \A k \in 1 .. Len(rs) - 1 : Tail(rs)[k] = rs[k + 1]
  OBVIOUS
<1> DEFINE t == Tail(rs)
<1>2. t \in Seq(S) /\ Len(t) = Len(rs) - 1 /\ (Len(rs) >= 2 => t[1] = rs[2])
  BY <1>1
<1> HIDE DEF t
<1>3. t # <<>> => Len(t) >= 1 /\ Head(t) = t[1]
  BY <1>2
<1>4. Len(t) = 0 => t = <<>>
  BY <1>2
<1>5. QED
  BY <1>1, <1>2, <1>3, <1>4 DEF t

LEMMA Failing == \A why, rest : Fail(why, rest).next = "fail"
BY DEF Fail

LEMMA RequestSteps ==
  ASSUME NEW req, NEW rs
  PROVE  /\ rs = <<>> => Request(req, rs) = Ask(req)
         /\ rs # <<>> => Request(req, rs) = IF Head(rs).ok THEN Done(Head(rs).value, Tail(rs))
                                            ELSE Fail(Head(rs).value, Tail(rs))
BY StepFacts DEF Request, Then, Try

\* Drafts are read before they are written.
LEMMA VerifySteps ==
  ASSUME NEW id, NEW S, NEW rs \in Seq(S)
  PROVE  /\ rs = <<>> => VerifyIsDraft(id, rs) = Ask(Get("message", id))
         /\ rs # <<>> /\ rs[1].ok /\ rs[1].value.is_draft =>
              VerifyIsDraft(id, rs) = Done(rs[1].value, Tail(rs))
         /\ rs # <<>> /\ ~(rs[1].ok /\ rs[1].value.is_draft) => VerifyIsDraft(id, rs).next = "fail"
<1> DEFINE first == Request(Get("message", id), rs)
<1>1. VerifyIsDraft(id, rs) =
        IF first.next # "done" THEN first
        ELSE IF first.value.is_draft THEN Done(first.value, first.rest) ELSE Fail("not a draft", first.rest)
  BY DEF VerifyIsDraft, Then
<1>2. /\ rs = <<>> => first = Ask(Get("message", id))
      /\ rs # <<>> /\ rs[1].ok => first = Done(rs[1].value, Tail(rs))
      /\ rs # <<>> /\ ~rs[1].ok => first = Fail(rs[1].value, Tail(rs))
  BY RequestSteps, FirstReply
<1> HIDE DEF first
<1>3. CASE rs = <<>>
  BY <1>1, <1>2, <1>3, StepFacts
<1>4. CASE rs # <<>> /\ ~rs[1].ok
  <2>1. first = Fail(rs[1].value, Tail(rs))
    BY <1>2, <1>4
  <2>2. first.next = "fail"
    BY <2>1, StepFacts
  <2>3. VerifyIsDraft(id, rs) = first
    BY <1>1, <2>2
  <2>4. QED
    BY <1>4, <2>2, <2>3
<1>5. CASE rs # <<>> /\ rs[1].ok
  <2>0. first = Done(rs[1].value, Tail(rs))
    BY <1>2, <1>5
  <2>1. first.next = "done" /\ first.value = rs[1].value /\ first.rest = Tail(rs)
    BY ZenonT(60), <2>0, StepFacts
  <2>2. CASE rs[1].value.is_draft
    BY <1>1, <1>5, <2>1, <2>2
  <2>3. CASE ~rs[1].value.is_draft
    <3>1. VerifyIsDraft(id, rs) = Fail("not a draft", first.rest)
      BY <1>1, <2>1, <2>3
    <3>2. VerifyIsDraft(id, rs).next = "fail"
      BY <3>1, Failing
    <3>3. QED
      BY <1>5, <2>3, <3>2
  <2>4. QED
    BY <2>2, <2>3
<1>6. QED
  BY <1>3, <1>4, <1>5

\* The only write of these verbs, and what was read before.
DraftWrite(a, id, req) ==
  req = Patch("message", id, Given(a, DraftFields)) \/ req = Delete("message", ById(id))

LEMMA DraftAsks ==
  ASSUME NEW op \in DraftOps, NEW a, NEW S, NEW rs \in Seq(S), Handle(op, a, rs).next = "ask"
  PROVE  \/ rs = <<>> /\ Handle(op, a, rs).req = Get("message", MessageID(a))
         \/ rs # <<>> /\ rs[1].ok /\ rs[1].value.is_draft
              /\ DraftWrite(a, MessageID(a), Handle(op, a, rs).req)
<1> DEFINE id    == MessageID(a)
           seen  == VerifyIsDraft(id, rs)
           patch == Request(Patch("message", id, Given(a, DraftFields)), seen.rest)
           drop  == Request(Delete("message", ById(id)), seen.rest)
           h     == Handle(op, a, rs)
<1>1. \/ h.next = "fail" \/ (seen.next # "done" /\ h = seen)
      \/ seen.next = "done" /\ h \in {patch, drop}
  <2>1. CASE op = "mail.update_draft"
    <3>1. h = UpdateDraft(a, rs)
      BY <2>1 DEF Handle
    <3>2. \/ h = Fail("argument", rs) \/ (seen.next # "done" /\ h = seen)
          \/ h = Fail("argument", seen.rest) \/ (seen.next = "done" /\ h = patch)
      BY <3>1 DEF UpdateDraft, Then
    <3> HIDE DEF h, seen, patch, drop
    <3>3. QED
      BY <3>2, StepFacts
  <2>2. CASE op = "mail.delete_draft"
    <3>1. h = DeleteDraft(a, rs)
      BY <2>2 DEF Handle
    <3>2. \/ h = Fail("argument", rs) \/ (seen.next # "done" /\ h = seen)
          \/ seen.next = "done" /\ h = drop
      BY <3>1 DEF DeleteDraft, Then
    <3> HIDE DEF h, seen, patch, drop
    <3>3. QED
      BY <3>2, StepFacts
  <2>3. QED
    BY <2>1, <2>2 DEF DraftOps
<1>2. h.next = "ask"
  OBVIOUS
<1>3. /\ rs = <<>> => seen = Ask(Get("message", id))
      /\ rs # <<>> /\ rs[1].ok /\ rs[1].value.is_draft => seen = Done(rs[1].value, Tail(rs))
      /\ rs # <<>> /\ ~(rs[1].ok /\ rs[1].value.is_draft) => seen.next = "fail"
  BY VerifySteps
<1>4. /\ patch.next = "ask" => patch.req = Patch("message", id, Given(a, DraftFields))
      /\ drop.next = "ask"  => drop.req = Delete("message", ById(id))
  BY RequestSteps, StepFacts
<1> HIDE DEF h, seen, patch, drop, id
<1>5. CASE rs = <<>>
  BY <1>1, <1>2, <1>3, <1>5, StepFacts DEF h, id
<1>6. CASE rs # <<>>
  <2>1. seen.next # "ask"
    BY <1>3, <1>6, StepFacts
  <2>2. seen.next = "done" /\ h \in {patch, drop}
    BY <1>1, <1>2, <2>1
  <2>3. rs[1].ok /\ rs[1].value.is_draft
    BY <1>3, <1>6, <2>2
  <2>4. DraftWrite(a, id, h.req)
    BY <1>2, <1>4, <2>2 DEF DraftWrite
  <2>5. QED
    BY <1>6, <2>3, <2>4 DEF h, id
<1>7. QED
  BY <1>5, <1>6

\* So is the event that is rescheduled.
Duration(event) == event.finish - event.start
NewTimes(a, d) ==
  LET text == Arg(a, "new_start_datetime", NoTime)
      zone == Zone(a, "new_start_timezone")
  IN [start |-> EventTime(text, zone), finish |-> EventTime(Text(text.at + d, ""), zone)]

LEMMA RescheduleAsks ==
  ASSUME NEW op \in RescheduleOps, NEW a, NEW S, NEW rs \in Seq(S)
  PROVE  /\ Handle(op, a, rs).next = "ask" =>
              \/ rs = <<>> /\ Handle(op, a, rs).req = Get("event", EventID(a))
              \/ /\ rs # <<>> /\ rs[1].ok /\ EventID(a) # 0
                 /\ Arg(a, "new_start_datetime", NoTime) # NoTime
                 /\ Arg(a, "new_start_datetime", NoTime).zone = ""
                 /\ Handle(op, a, rs).req = Patch("event", EventID(a), NewTimes(a, Duration(rs[1].value)))
         /\ Handle(op, a, rs).next = "done" => Len(rs) >= 2 /\ rs[2].ok
<1> DEFINE start == Arg(a, "new_start_datetime", NoTime)
           zone  == Zone(a, "new_start_timezone")
           id    == EventID(a)
           seen  == Request(Get("event", id), rs)
           end   == AddDuration(start, ComputeEventDuration(seen.value))
           times == [start |-> EventTime(start, zone), finish |-> EventTime(end, zone)]
           set   == Request(Patch("event", id, times), seen.rest)
           h     == Handle(op, a, rs)
<1>1. h = HandleRescheduleEvent(a, rs)
  BY DEF Handle, RescheduleOps
<1>2. h = IF Bad(a, "shape") \/ id = 0 \/ start = NoTime THEN Fail("argument", rs)
          ELSE IF seen.next # "done" THEN seen
          ELSE IF end = NoTime THEN Fail("argument", seen.rest) ELSE set
  BY <1>1 DEF HandleRescheduleEvent, Then
<1>3. /\ rs = <<>> => seen = Ask(Get("event", id))
      /\ rs # <<>> /\ rs[1].ok => seen = Done(rs[1].value, Tail(rs))
      /\ rs # <<>> /\ ~rs[1].ok => seen = Fail(rs[1].value, Tail(rs))
  BY RequestSteps, FirstReply
<1>4. end # NoTime => start.zone = "" /\ end = Text(start.at + Duration(seen.value), "")
  BY DEF AddDuration, ComputeEventDuration, Duration
<1>5. times = [start |-> EventTime(start, zone), finish |-> EventTime(end, zone)]
  OBVIOUS
<1>6. /\ set.next = "ask" => set.req = Patch("event", id, times)
      /\ seen.rest = <<>> => set.next = "ask"
      /\ seen.rest # <<>> /\ ~Head(seen.rest).ok => set.next = "fail"
  BY RequestSteps, StepFacts
<1> HIDE DEF h, seen, start, end, zone, id, times, set
<1>7. CASE rs = <<>>
  BY <1>2, <1>3, <1>7, StepFacts DEF h, id
<1>8. CASE rs # <<>> /\ ~rs[1].ok
  <2>1. h.next = "fail"
    BY <1>2, <1>3, <1>8, StepFacts
  <2>2. QED
    BY <2>1 DEF h
<1>9. CASE rs # <<>> /\ rs[1].ok
  <2>0. seen = Done(rs[1].value, Tail(rs))
    BY <1>3, <1>9
  <2>1. seen.next = "done" /\ seen.value = rs[1].value /\ seen.rest = Tail(rs)
    BY ZenonT(60), <2>0, StepFacts
  <2>2. h.next # "fail" => id # 0 /\ start # NoTime /\ end # NoTime /\ h = set
    BY <1>2, <2>1, StepFacts
  <2>3. ASSUME h.next = "ask"
        PROVE  /\ id # 0 /\ start # NoTime /\ start.zone = ""
               /\ h.req = Patch("event", id, NewTimes(a, Duration(rs[1].value)))
    <3>1. h.req = Patch("event", id, times) /\ end # NoTime
      BY <1>6, <2>2, <2>3
    <3>2. times = NewTimes(a, Duration(rs[1].value))
      BY <1>4, <1>5, <2>1, <3>1 DEF NewTimes, start, zone
    <3>3. QED
      BY <1>4, <2>2, <2>3, <3>1, <3>2
  <2>4. ASSUME h.next = "done"
        PROVE  Len(rs) >= 2 /\ rs[2].ok
    <3>1. Tail(rs) # <<>> /\ Head(Tail(rs)).ok
      BY <1>6, <2>1, <2>2, <2>4
    <3>2. Head(Tail(rs)) = rs[2] /\ Len(rs) >= 2
      BY <1>9, <3>1, FirstReply
    <3>3. QED
      BY <3>1, <3>2
  <2>5. QED
    BY <1>9, <2>3, <2>4 DEF h, id, start
<1>10. QED
  BY <1>7, <1>8, <1>9
-------------------------------------------------------------------------------
\* What a patch and a deletion do to the items.
LEMMA PatchItems ==
  ASSUME NEW b, Consistent(b), NEW kind, NEW id, NEW fs, "in" \notin DOMAIN fs,
         Accepts(b, Patch(kind, id, fs))
  PROVE  /\ id \in Ids(b) /\ b.items[id].kind = kind
         /\ Ids(Effect(b, Patch(kind, id, fs))) = Ids(b)
         /\ Effect(b, Patch(kind, id, fs)).items[id] = With(b.items[id], fs)
         /\ \A i \in Ids(b) \ {id} : Effect(b, Patch(kind, id, fs)).items[i] = b.items[i]
<1> DEFINE req == Patch(kind, id, fs)
           b2  == Put(b, id, With(b.items[id], fs))
<1>1. req.op = "patch" /\ req.at = ById(id) /\ req.kind = kind /\ req.fields = fs
  BY DEF Patch
<1>2. ById(id).key = "" /\ ById(id).id = id
  BY DEF ById
<1> HIDE DEF req
<1>3. IsA(b, Target(b, req.at), kind)
  BY <1>1 DEF Accepts, req
<1>4. id \in Ids(b) /\ b.items[id].kind = kind
  BY <1>1, <1>2, <1>3 DEF IsA, Target
<1>5. \E yes : Effect(b, req) = Notify(b2, yes)
  BY <1>1, <1>2 DEF Effect
<1>6. /\ Ids(b2) = Ids(b) \cup {id} /\ b2.items[id] = With(b.items[id], fs)
      /\ \A i \in Ids(b) \ {id} : b2.items[i] = b.items[i]
  BY PutFacts
<1>7. Consistent(b2)
  <2>1. "in" \in DOMAIN With(b.items[id], fs) /\ With(b.items[id], fs).in \in Nat
    <3>1. "in" \in DOMAIN b.items[id] \ DOMAIN fs /\ b.items[id].in \in Nat
      BY <1>4 DEF Consistent
    <3>2. QED
      BY <3>1 DEF With
  <2>2. QED
    BY <1>4, <2>1, PutKeeps
<1> HIDE DEF b2
<1>8. Effect(b, req).items = b2.items
  BY <1>5, <1>7, NotifyFacts
<1>9. QED
  BY <1>4, <1>6, <1>8 DEF req, Ids

LEMMA DeleteItems ==
  ASSUME NEW b, Consistent(b), NEW kind, NEW at
  PROVE  /\ Ids(Effect(b, Delete(kind, at))) \subseteq Ids(b)
         /\ \A i \in Ids(Effect(b, Delete(kind, at))) : Effect(b, Delete(kind, at)).items[i] = b.items[i]
<1> DEFINE req == Delete(kind, at)
           b2  == Drop(b, Subtree(b, Target(b, req.at)))
<1>1. req.op = "delete"
  BY DEF Delete
<1> HIDE DEF req
<1>2. \E yes : Effect(b, req) = Notify(b2, yes)
  BY <1>1 DEF Effect
<1>3. /\ Consistent(b2) /\ Ids(b2) \subseteq Ids(b)
      /\ \A i \in Ids(b2) : b2.items[i] = b.items[i]
  BY DropFacts
<1> HIDE DEF b2
<1>4. Effect(b, req).items = b2.items
  BY <1>2, <1>3, NotifyFacts
<1>5. QED
  BY <1>3, <1>4 DEF req, Ids

\* What reading an item shows.
LEMMA GetShows ==
  ASSUME NEW b, NEW kind, NEW id, Accepts(b, Get(kind, id)), kind # "folder",
         \A i \in Ids(b) : Described(b.items[i])
  PROVE  /\ id \in Ids(b) /\ b.items[id].kind = kind
         /\ \A f \in DOMAIN b.items[id] \ {"id"} :
              Reply(b, Get(kind, id)).value[f] = b.items[id][f]
         /\ Get(kind, id).op = "get"
<1>1. Get(kind, id).op = "get" /\ Get(kind, id).at = ById(id) /\ Get(kind, id).kind = kind
  BY DEF Get
<1>2. ById(id).key = "" /\ ById(id).id = id
  BY DEF ById
<1> DEFINE req == Get(kind, id)
<1> HIDE DEF req
<1>3. IsA(b, id, kind)
  BY <1>1, <1>2 DEF Accepts, Target, req
<1>4. Reply(b, req).value = View(b, id)
  BY <1>1, <1>2 DEF Reply, Target, req
<1> DEFINE item == With(b.items[id], [id |-> id])
<1>5. View(b, id) = item
  <2>1. "kind" \in DOMAIN b.items[id] /\ b.items[id].kind # "folder"
    BY <1>3 DEF IsA, Described
  <2>2. item.kind # "folder"
    BY <2>1 DEF With
  <2>3. QED
    BY <2>2 DEF View
<1>6. \A f \in DOMAIN b.items[id] \ {"id"} : View(b, id)[f] = b.items[id][f]
  <2>1. \A f \in DOMAIN b.items[id] \ {"id"} : item[f] = b.items[id][f]
    BY DEF With
  <2>2. QED
    BY <1>5, <2>1
<1>7. QED
  BY <1>1, <1>3, <1>4, <1>6 DEF IsA, req
-------------------------------------------------------------------------------
\* Verbs that read first change of an item neither what it is, nor whether it is
\* a draft, nor how long it lasts; they may take a message away.
SameItem(old, new) ==
  /\ Described(new) /\ new.kind = old.kind
  /\ new.kind = "message" => new.is_draft = old.is_draft
  /\ new.kind = "event"   => Duration(new) = Duration(old)
Kept(b0, b) == \A i \in Ids(b) : i \in Ids(b0) /\ SameItem(b0.items[i], b.items[i])

LEMMA KeptItself ==
  ASSUME NEW b, \A i \in Ids(b) : Described(b.items[i])
  PROVE  Kept(b, b)
BY DEF Kept, SameItem

LEMMA DraftWriteKept ==
  ASSUME NEW b0, NEW b, Consistent(b), Kept(b0, b), NEW a, NEW id, NEW req, DraftWrite(a, id, req),
         Accepts(b, req)
  PROVE  /\ Kept(b0, Effect(b, req)) /\ req.at.id = id /\ req.op \notin Reading
<1>1. CASE req = Delete("message", ById(id))
  <2>1. /\ Ids(Effect(b, req)) \subseteq Ids(b)
        /\ \A i \in Ids(Effect(b, req)) : Effect(b, req).items[i] = b.items[i]
    BY <1>1, DeleteItems
  <2>2. Kept(b0, Effect(b, req))
    BY <2>1 DEF Kept
  <2>3. req.at.id = id /\ req.op \notin Reading
    BY <1>1 DEF Delete, ById, Reading
  <2>4. QED
    BY <2>2, <2>3
<1>2. CASE req = Patch("message", id, Given(a, DraftFields))
  <2> DEFINE fs   == Given(a, DraftFields)
             item == With(b.items[id], fs)
  <2>1. DOMAIN fs \subseteq DraftFields
    BY DEF Given
  <2>2. {"in", "kind", "name", "is_draft", "start", "finish"} \cap DOMAIN fs = {}
    BY <2>1 DEF DraftFields
  <2>3. /\ id \in Ids(b) /\ Ids(Effect(b, req)) = Ids(b)
        /\ Effect(b, req).items[id] = item
        /\ \A i \in Ids(b) \ {id} : Effect(b, req).items[i] = b.items[i]
    BY <1>2, <2>2, PatchItems
  <2>4. \A f \in {"kind", "name", "is_draft", "start", "finish"} \cap DOMAIN b.items[id] :
          f \in DOMAIN item /\ item[f] = b.items[id][f]
    BY <2>2 DEF With
  <2> HIDE DEF item, fs
  <2>5. SameItem(b0.items[id], b.items[id])
    BY <2>3 DEF Kept
  <2>6. Described(b.items[id]) /\ "kind" \in DOMAIN b.items[id]
    BY <2>5 DEF SameItem, Described
  <2>7. item.kind = b.items[id].kind /\ "kind" \in DOMAIN item
    BY <2>4, <2>6
  <2>8. item.kind = "message" => "is_draft" \in DOMAIN item /\ item.is_draft = b.items[id].is_draft
    BY <2>4, <2>6, <2>7 DEF Described
  <2>9. item.kind = "event" => {"start", "finish"} \subseteq DOMAIN item
          /\ item.start = b.items[id].start /\ item.finish = b.items[id].finish
    BY <2>4, <2>6, <2>7 DEF Described
  <2>10. Described(item)
    <3>1. item.kind = "folder" => "name" \in DOMAIN item
      BY <2>4, <2>6, <2>7 DEF Described
    <3>2. QED
      BY <2>6, <2>7, <2>8, <2>9, <3>1 DEF Described
  <2>11. SameItem(b0.items[id], item)
    BY <2>5, <2>7, <2>8, <2>9, <2>10 DEF SameItem, Duration
  <2>12. Kept(b0, Effect(b, req))
    BY <2>3, <2>11 DEF Kept
  <2>13. req.at.id = id /\ req.op \notin Reading
    BY <1>2 DEF Patch, ById, Reading
  <2>14. QED
    BY <2>12, <2>13
<1>3. QED
  BY <1>1, <1>2 DEF DraftWrite

LEMMA Lasting ==
  ASSUME NEW p \in Int, NEW d \in Int, NEW o \in Int
  PROVE  p - o \in Int /\ (p + d) - o \in Int /\ ((p + d) - o) - (p - o) = d
OBVIOUS

LEMMA NewTimesFacts ==
  ASSUME NEW a, Timed(a), NEW d \in Int, Arg(a, "new_start_datetime", NoTime) # NoTime,
         Arg(a, "new_start_datetime", NoTime).zone = ""
  PROVE  LET fs == NewTimes(a, d)
         IN /\ DOMAIN fs = {"start", "finish"}
            /\ fs.start \in Int /\ fs.finish \in Int /\ Duration(fs) = d
            /\ "new_start_datetime" \in DOMAIN a
            /\ fs.start = EventTime(a.new_start_datetime, Zone(a, "new_start_timezone"))
<1> DEFINE text  == Arg(a, "new_start_datetime", NoTime)
           zone  == Zone(a, "new_start_timezone")
           fs    == NewTimes(a, d)
           p     == text.at
           o     == Offset[zone]
<1>1. "new_start_datetime" \in DOMAIN a /\ text = a.new_start_datetime /\ p \in Int
  BY DEF Arg, Timed
<1>2. zone \in DOMAIN Offset /\ o \in Int
  BY ZoneAssumption DEF Zone, Arg, Timed
<1>3. EventTime(text, zone) = p - o
  BY DEF EventTime
<1>4. EventTime(Text(p + d, ""), zone) = (p + d) - o
  BY DEF EventTime, Text
<1>5. /\ DOMAIN fs = {"start", "finish"} /\ fs.start = EventTime(text, zone)
      /\ fs.finish = EventTime(Text(p + d, ""), zone)
  BY DEF NewTimes
<1> HIDE DEF fs, p, o
<1>6. p - o \in Int /\ (p + d) - o \in Int /\ ((p + d) - o) - (p - o) = d
  BY <1>1, <1>2, Lasting
<1>7. fs.start \in Int /\ fs.finish \in Int /\ Duration(fs) = d
  BY <1>3, <1>4, <1>5, <1>6 DEF Duration
<1>8. QED
  BY <1>1, <1>5, <1>7 DEF fs

LEMMA RescheduleKept ==
  ASSUME NEW b0, NEW b, Consistent(b), Kept(b0, b), NEW id, NEW fs, DOMAIN fs = {"start", "finish"},
         fs.start \in Int, fs.finish \in Int, Duration(fs) = Duration(b0.items[id]),
         Accepts(b, Patch("event", id, fs))
  PROVE  LET after == Effect(b, Patch("event", id, fs))
         IN /\ Kept(b0, after) /\ id \in Ids(after) /\ after.items[id].kind = "event"
            /\ after.items[id].start = fs.start
<1> DEFINE item  == With(b.items[id], fs)
           after == Effect(b, Patch("event", id, fs))
<1>7. "in" \notin DOMAIN fs /\ "kind" \notin DOMAIN fs
  OBVIOUS
<1>8. /\ id \in Ids(b) /\ b.items[id].kind = "event" /\ Ids(after) = Ids(b)
      /\ after.items[id] = item
      /\ \A i \in Ids(b) \ {id} : after.items[i] = b.items[i]
  BY <1>7, PatchItems
<1>9. SameItem(b0.items[id], b.items[id])
  BY <1>8 DEF Kept
<1>10. "kind" \in DOMAIN b.items[id]
  BY <1>9 DEF SameItem, Described
<1>11. /\ {"kind", "start", "finish"} \subseteq DOMAIN item
       /\ item.kind = "event" /\ item.start = fs.start /\ item.finish = fs.finish
  BY <1>7, <1>8, <1>10 DEF With
<1> HIDE DEF item, after
<1>12. Described(item)
  BY <1>11 DEF Described
<1>13. SameItem(b0.items[id], item)
  <2>1. Duration(item) = Duration(b0.items[id])
    BY <1>11 DEF Duration
  <2>2. QED
    BY <1>8, <1>9, <1>11, <1>12, <2>1 DEF SameItem
<1>14. Kept(b0, after)
  BY <1>8, <1>13 DEF Kept
<1>15. after.items[id].kind = "event" /\ after.items[id].start = fs.start
  BY <1>8, <1>11
<1>16. QED
  BY <1>8, <1>14, <1>15 DEF after
-------------------------------------------------------------------------------
\* Calls of these verbs have times of the right types.
LEMMA MailNames ==
  ASSUME NEW v \in MailVerbs
  PROVE  v.name \notin RescheduleOps \cup CreateOps
BY DEF MailVerbs, RescheduleOps, CreateOps, Plain, Guarded, Reads, Adds, Changes, Removes,
       ListFoldersVerb, ListMessagesVerb, GetMessageVerb, SearchMessagesVerb, GetConversationVerb,
       ListAttachmentsVerb, GetAttachmentVerb, CreateDraftVerb, CreateReplyDraftVerb,
       CreateForwardDraftVerb, UpdateDraftVerb, DeleteDraftVerb, CreateFolderVerb,
       DeleteFolderVerb, MoveMessageVerb, MoveMessagesVerb

LEMMA CalendarCall ==
  ASSUME NEW c \in Calls, IsOperation(c.op), c.op \in RescheduleOps \cup CreateOps
  PROVE  Timed(c.args)
<1>1. VerbOf(c.op).name = c.op
  BY DEF VerbOf, IsOperation
<1>2. VerbOf(c.op) \in MailVerbs \cup CalendarVerbs
  BY CallsAssumption
<1>3. VerbOf(c.op) \in CalendarVerbs
  BY <1>1, <1>2, MailNames
<1>4. QED
  BY <1>3, CallsAssumption

-------------------------------------------------------------------------------
\* What a handler that reads first knows of the mailbox as the call found it.
Careful == Op(DraftOps \cup RescheduleOps)
Knows ==
  got # <<>> /\ got[1].ok =>
    /\ Op(DraftOps) => got[1].value.is_draft = before.items[MessageID(Args)].is_draft
    /\ Op(RescheduleOps) =>
         /\ Duration(got[1].value) = Duration(before.items[EventID(Args)])
         /\ Duration(got[1].value) \in Int

Rescheduled ==
  LET id == EventID(Args)
  IN /\ id # 0 /\ id \in Ids(box) /\ box.items[id].kind = "event"
     /\ "new_start_datetime" \in DOMAIN Args
     /\ box.items[id].start = EventTime(Args.new_start_datetime, Zone(Args, "new_start_timezone"))

ReadInv ==
  /\ phase \in {"idle", "resolve", "enter"} => got = <<>>
  /\ Alone /\ (phase = "idle" \/ Careful) => Kept(before, box)
  /\ Alone /\ phase = "run" => Knows
  /\ Op(RescheduleOps) /\ phase = "run" /\ Len(got) >= 2 /\ got[2].ok => applied # <<>>
  /\ Alone /\ Op(RescheduleOps) /\ applied # <<>> => Rescheduled
  /\ Success /\ Op(RescheduleOps) => applied # <<>>
  /\ DraftsOnly

\* What such a handler asks for while it runs.
LEMMA CarefulAsks ==
  ASSUME TypeOK, Asking
  PROVE  /\ Op(DraftOps) =>
              \/ got = <<>> /\ Step.req = Get("message", MessageID(Args))
              \/ got # <<>> /\ got[1].ok /\ got[1].value.is_draft
                   /\ DraftWrite(Args, MessageID(Args), Step.req)
         /\ Op(RescheduleOps) =>
              \/ got = <<>> /\ Step.req = Get("event", EventID(Args))
              \/ /\ got # <<>> /\ got[1].ok /\ EventID(Args) # 0
                 /\ Arg(Args, "new_start_datetime", NoTime) # NoTime
                 /\ Arg(Args, "new_start_datetime", NoTime).zone = ""
                 /\ Step.req = Patch("event", EventID(Args), NewTimes(Args, Duration(got[1].value)))
<1> DEFINE S == {got[k] : k \in 1 .. Len(got)}
<1>1. got \in Seq(S)
  <2>1. IsList(got)
    BY DEF TypeOK
  <2>2. QED
    BY <2>1, ListFacts
<1>2. Step = Handle(call.op, call.args, got) /\ Step.next = "ask"
  BY DEF Step, Asking
<1> HIDE DEF S
<1>3. Op(DraftOps) =>
              \/ got = <<>> /\ Step.req = Get("message", MessageID(Args))
              \/ got # <<>> /\ got[1].ok /\ got[1].value.is_draft
                   /\ DraftWrite(Args, MessageID(Args), Step.req)
  BY <1>1, <1>2, DraftAsks DEF Op, Args
<1>4. Op(RescheduleOps) =>
              \/ got = <<>> /\ Step.req = Get("event", EventID(Args))
              \/ /\ got # <<>> /\ got[1].ok /\ EventID(Args) # 0
                 /\ Arg(Args, "new_start_datetime", NoTime) # NoTime
                 /\ Arg(Args, "new_start_datetime", NoTime).zone = ""
                 /\ Step.req = Patch("event", EventID(Args), NewTimes(Args, Duration(got[1].value)))
  <2> SUFFICES ASSUME call.op \in RescheduleOps
               PROVE  \/ got = <<>> /\ Step.req = Get("event", EventID(Args))
                      \/ /\ got # <<>> /\ got[1].ok /\ EventID(Args) # 0
                         /\ Arg(Args, "new_start_datetime", NoTime) # NoTime
                         /\ Arg(Args, "new_start_datetime", NoTime).zone = ""
                         /\ Step.req = Patch("event", EventID(Args), NewTimes(Args, Duration(got[1].value)))
    BY DEF Op
  <2>1. Handle(call.op, Args, got).next = "ask"
    BY <1>2 DEF Args
  <2>2. \/ got = <<>> /\ Handle(call.op, Args, got).req = Get("event", EventID(Args))
        \/ /\ got # <<>> /\ got[1].ok /\ EventID(Args) # 0
           /\ Arg(Args, "new_start_datetime", NoTime) # NoTime
           /\ Arg(Args, "new_start_datetime", NoTime).zone = ""
           /\ Handle(call.op, Args, got).req
                = Patch("event", EventID(Args), NewTimes(Args, Duration(got[1].value)))
    BY <1>1, <2>1, RescheduleAsks
  <2>3. Handle(call.op, Args, got) = Step
    BY <1>2 DEF Args
  <2>4. QED
    BY <2>2, <2>3
<1>5. QED
  BY <1>3, <1>4

LEMMA ReadOrWrite ==
  /\ \A kind, id : Get(kind, id).op \in Reading
  /\ \A kind, id, fs : Patch(kind, id, fs).op \notin Reading
  /\ \A a, id, req : DraftWrite(a, id, req) => req.op \notin Reading /\ req.at.id = id
<1>1. \A kind, id : Get(kind, id).op \in Reading
  BY DEF Get, Reading
<1>2. \A kind, id, fs : Patch(kind, id, fs).op \notin Reading /\ Patch(kind, id, fs).at.id = id
  BY DEF Patch, Reading, ById
<1>3. \A kind, id : Delete(kind, ById(id)).op \notin Reading /\ Delete(kind, ById(id)).at.id = id
  BY DEF Delete, Reading, ById
<1>4. QED
  BY <1>1, <1>2, <1>3 DEF DraftWrite

\* One more reply.
LEMMA MoreReplies ==
  ASSUME TypeOK, NEW r, got' = Append(got, r)
  PROVE  /\ Len(got) \in Nat /\ Len(got') = Len(got) + 1 /\ got' # <<>>
         /\ got = <<>> => got'[1] = r /\ Len(got') = 1
         /\ got # <<>> => got'[1] = got[1] /\ Len(got) >= 1
         /\ Len(got) = 1 => got'[2] = r
         /\ Len(got) >= 2 => got'[2] = got[2]
<1>1. IsList(got)
  BY DEF TypeOK
<1>2. /\ got' # <<>> /\ Len(got') = Len(got) + 1 /\ got'[Len(got) + 1] = r
      /\ \A k \in 1 .. Len(got) : got'[k] = got[k]
  BY <1>1, AppendFacts
<1>3. Len(got) \in Nat /\ (got = <<>> <=> Len(got) = 0)
  <2>1. got \in Seq({got[k] : k \in 1 .. Len(got)})
    BY <1>1, ListFacts
  <2>2. QED
    BY <2>1
<1>4. QED
  BY SMTT(30), <1>2, <1>3
LEMMA KeptDescribed ==
  ASSUME NEW b0, NEW b, Kept(b0, b)
  PROVE  \A i \in Ids(b) : Described(b.items[i])
BY DEF Kept, SameItem

\* A served read tells what the item was when the call came.
LEMMA LearnsDraft ==
  ASSUME NEW id, Kept(before, box), Accepts(box, Get("message", id))
  PROVE  Reply(box, Get("message", id)).value.is_draft = before.items[id].is_draft
<1> DEFINE v == Reply(box, Get("message", id)).value
<1>1. /\ id \in Ids(box) /\ box.items[id].kind = "message"
      /\ \A f \in DOMAIN box.items[id] \ {"id"} : v[f] = box.items[id][f]
  BY KeptDescribed, GetShows
<1> HIDE DEF v
<1>2. SameItem(before.items[id], box.items[id])
  BY <1>1 DEF Kept
<1>3. "is_draft" \in DOMAIN box.items[id] /\ box.items[id].is_draft = before.items[id].is_draft
  BY <1>1, <1>2 DEF SameItem, Described
<1>4. QED
  BY <1>1, <1>3 DEF v

LEMMA LearnsDuration ==
  ASSUME NEW b0, NEW b, NEW id, Kept(b0, b), Accepts(b, Get("event", id))
  PROVE  LET d == Duration(Reply(b, Get("event", id)).value)
         IN d = Duration(b0.items[id]) /\ d \in Int
<1> DEFINE v == Reply(b, Get("event", id)).value
<1>1. /\ id \in Ids(b) /\ b.items[id].kind = "event"
      /\ \A f \in DOMAIN b.items[id] \ {"id"} : v[f] = b.items[id][f]
  BY KeptDescribed, GetShows
<1> HIDE DEF v
<1>2. SameItem(b0.items[id], b.items[id])
  BY <1>1 DEF Kept
<1>3. /\ {"start", "finish"} \subseteq DOMAIN b.items[id]
      /\ b.items[id].start \in Int /\ b.items[id].finish \in Int
      /\ Duration(b.items[id]) = Duration(b0.items[id])
  BY <1>1, <1>2 DEF SameItem, Described
<1>4. v.start = b.items[id].start /\ v.finish = b.items[id].finish
  BY <1>1, <1>3
<1>5. Duration(v) = Duration(b.items[id]) /\ Duration(v) \in Int
  BY <1>3, <1>4 DEF Duration
<1>6. QED
  BY <1>3, <1>5 DEF v

LEMMA SendsKnows ==
  ASSUME TypeOK, ReadInv, Sends, Alone, Careful
  PROVE  Knows'
<1>1. /\ Asking /\ UNCHANGED <<call, before>> /\ Kept(before, box) /\ Knows
  BY SendsFrame DEF server, ReadInv, Asking
<1>2. CASE got' = got
  BY <1>1, <1>2 DEF Knows, Op, Args
<1>3. ASSUME NEW r, got' = Append(got, r),
             r.ok => r = Reply(box, Step.req) /\ Accepts(box, Step.req)
      PROVE  Knows'
  <2>1. CASE got # <<>>
    <3>1. got'[1] = got[1]
      BY <1>3, <2>1, MoreReplies
    <3>2. QED
      BY <1>1, <2>1, <3>1 DEF Knows, Op, Args
  <2>2. CASE got = <<>>
    <3>1. got'[1] = r
      BY <1>3, <2>2, MoreReplies
    <3>2. ASSUME r.ok, Op(DraftOps)
          PROVE  r.value.is_draft = before.items[MessageID(Args)].is_draft
      <4>1. Step.req = Get("message", MessageID(Args))
        BY <1>1, <2>2, <3>2, CarefulAsks
      <4>2. QED
        BY <1>1, <1>3, <3>2, <4>1, LearnsDraft
    <3>3. ASSUME r.ok, Op(RescheduleOps)
          PROVE  /\ Duration(r.value) = Duration(before.items[EventID(Args)])
                 /\ Duration(r.value) \in Int
      <4>1. Step.req = Get("event", EventID(Args))
        BY <1>1, <2>2, <3>3, CarefulAsks
      <4>2. QED
        BY <1>1, <1>3, <3>3, <4>1, LearnsDuration
    <3>4. QED
      BY <1>1, <3>1, <3>2, <3>3 DEF Knows, Op, Args
  <2>3. QED
    BY <2>1, <2>2
<1>4. \/ got' = got
      \/ \E r : got' = Append(got, r) /\ (r.ok => r = Reply(box, Step.req) /\ Accepts(box, Step.req))
  BY SendsFrame
<1>5. QED
  BY <1>2, <1>3, <1>4

\* The write of such a handler.
LEMMA CarefulWrite ==
  ASSUME TypeOK, ReadInv, Asking, Wrote, Alone, Careful
  PROVE  /\ Kept(before, box')
         /\ Op(DraftOps) => before.items[Step.req.at.id].is_draft
         /\ Op(RescheduleOps) /\ call' = call => Rescheduled'
<1>1. /\ Kept(before, box) /\ Knows /\ Consistent(box)
      /\ Accepts(box, Step.req) /\ Step.req.op \notin Reading /\ box' = Effect(box, Step.req)
  BY DEF ReadInv, TypeOK, Wrote, Asking
<1>2. CASE Op(DraftOps)
  <2>1. got # <<>> /\ got[1].ok /\ got[1].value.is_draft /\ DraftWrite(Args, MessageID(Args), Step.req)
    BY <1>1, <1>2, CarefulAsks, ReadOrWrite
  <2>2. Kept(before, box') /\ Step.req.at.id = MessageID(Args)
    BY <1>1, <2>1, DraftWriteKept
  <2>3. before.items[Step.req.at.id].is_draft
    BY <1>1, <1>2, <2>1, <2>2 DEF Knows
  <2>4. ~Op(RescheduleOps)
    BY <1>2 DEF Op, DraftOps, RescheduleOps
  <2>5. QED
    BY <2>2, <2>3, <2>4
<1>3. CASE Op(RescheduleOps)
  <2> DEFINE id == EventID(Args)
             fs == NewTimes(Args, Duration(got[1].value))
  <2>1. /\ got # <<>> /\ got[1].ok /\ id # 0
        /\ Arg(Args, "new_start_datetime", NoTime) # NoTime
        /\ Arg(Args, "new_start_datetime", NoTime).zone = ""
        /\ Step.req = Patch("event", id, fs)
    BY <1>1, <1>3, CarefulAsks, ReadOrWrite
  <2>2. Duration(got[1].value) = Duration(before.items[id]) /\ Duration(got[1].value) \in Int
    BY <1>1, <1>3, <2>1 DEF Knows
  <2>3. Timed(Args)
    <3>1. call \in Calls /\ IsOperation(call.op)
      BY DEF TypeOK, Asking
    <3>2. QED
      BY <1>3, <3>1, CalendarCall DEF Op, Args
  <2>4. /\ DOMAIN fs = {"start", "finish"} /\ fs.start \in Int /\ fs.finish \in Int
        /\ Duration(fs) = Duration(got[1].value) /\ "new_start_datetime" \in DOMAIN Args
        /\ fs.start = EventTime(Args.new_start_datetime, Zone(Args, "new_start_timezone"))
    BY <2>1, <2>2, <2>3, NewTimesFacts
  <2> HIDE DEF fs, id
  <2>5. /\ Kept(before, box') /\ id \in Ids(box') /\ box'.items[id].kind = "event"
        /\ box'.items[id].start = fs.start
    <3> DEFINE after == Effect(box, Patch("event", id, fs))
    <3>1. Accepts(box, Patch("event", id, fs)) /\ box' = after
      BY <1>1, <2>1
    <3>2. Duration(fs) = Duration(before.items[id])
      BY <2>2, <2>4
    <3>3. /\ Kept(before, after) /\ id \in Ids(after) /\ after.items[id].kind = "event"
          /\ after.items[id].start = fs.start
      BY <1>1, <2>4, <3>1, <3>2, RescheduleKept
    <3>4. QED
      BY <3>1, <3>3
  <2>6. call' = call => Rescheduled'
    BY <2>1, <2>4, <2>5 DEF Rescheduled, Args, id
  <2>7. ~Op(DraftOps)
    BY <1>3 DEF Op, DraftOps, RescheduleOps
  <2>8. QED
    BY <2>5, <2>6, <2>7
<1>4. QED
  BY <1>2, <1>3 DEF Careful, Op
\* The last entry of a list that grows is new, the others are as before.
LEMMA OneMore ==
  ASSUME NEW s, IsList(s), NEW x
  PROVE  \A k \in DOMAIN Append(s, x) : Append(s, x)[k] = x \/ (k \in DOMAIN s /\ Append(s, x)[k] = s[k])
<1> DEFINE t == Append(s, x)
<1>1. /\ DOMAIN t = 1 .. Len(s) + 1 /\ t[Len(s) + 1] = x /\ DOMAIN s = 1 .. Len(s)
      /\ \A k \in 1 .. Len(s) : t[k] = s[k]
  BY AppendFacts, ListFacts
<1>2. Len(s) \in Nat
  BY DEF IsList
<1>3. \A k \in 1 .. Len(s) + 1 : k \in 1 .. Len(s) \/ k = Len(s) + 1
  BY <1>2
<1> HIDE DEF t
<1>4. QED
  BY <1>1, <1>3 DEF t

LEMMA SendsReads ==
  ASSUME TypeOK, RightAccount, ReadInv, Sends
  PROVE  ReadInv'
<1>1. /\ Asking /\ phase = "run" /\ UNCHANGED <<call, before, phase, answer>>
      /\ UNCHANGED <<box, applied>> \/ Wrote
  BY SendsFrame DEF Asking, server
<1>2. Alone' = Alone
  BY SendsCounts DEF Alone
<1>3. Careful' = Careful /\ \A ops : Op(ops)' = Op(ops)
  BY <1>1 DEF Careful, Op
<1>4. IsList(applied)
  BY DEF TypeOK
<1>5. Alone /\ Careful => Kept(before, box')
  BY <1>1, CarefulWrite DEF ReadInv
<1>6. Alone /\ Careful => Knows'
  BY SendsKnows
<1>7. Alone => Knows'
  <2>1. ~Careful => ~Op(DraftOps)' /\ ~Op(RescheduleOps)'
    BY <1>3 DEF Careful, Op
  <2>2. CASE ~Careful
    BY <2>1, <2>2 DEF Knows
  <2>3. QED
    BY <1>6, <2>2
<1>8. applied # <<>> => applied' # <<>>
  BY <1>1, <1>4, AppendFacts DEF Wrote
<1>9. Op(RescheduleOps) /\ Len(got') >= 2 /\ got'[2].ok => applied' # <<>>
  <2> SUFFICES ASSUME Op(RescheduleOps), Len(got') >= 2, got'[2].ok
               PROVE  applied' # <<>>
    OBVIOUS
  <2>1. CASE got' = got
    BY <1>1, <1>8, <2>1 DEF ReadInv
  <2>2. ASSUME NEW r, got' = Append(got, r), r.ok => Serve /\ Accepts(box, Step.req)
        PROVE  applied' # <<>>
    <3>1. /\ Len(got) \in Nat /\ Len(got') = Len(got) + 1
          /\ Len(got) = 1 => got'[2] = r
          /\ Len(got) >= 2 => got'[2] = got[2]
      BY <2>2, MoreReplies
    <3>2. CASE Len(got) >= 2
      BY <1>1, <1>8, <3>1, <3>2 DEF ReadInv
    <3>3. CASE Len(got) = 1
      <4>1. Serve /\ Accepts(box, Step.req)
        BY <2>2, <3>1, <3>3
      <4>2. got # <<>>
        BY <3>3, EmptyList
      <4>3. \E id, fs : Step.req = Patch("event", id, fs)
        BY <1>1, <4>2, CarefulAsks
      <4>4. Step.req.op \notin {"get", "list"}
        BY <4>3, ReadOrWrite DEF Reading
      <4>5. applied' = Append(applied, Step.req)
        BY <4>1, <4>4 DEF Serve, Apply
      <4>6. QED
        BY <1>4, <4>5, AppendFacts
    <3>4. QED
      BY <3>1, <3>2, <3>3
  <2>3. \/ got' = got
        \/ \E r : got' = Append(got, r) /\ (r.ok => Serve /\ Accepts(box, Step.req))
    BY SendsFrame
  <2>4. QED
    BY <2>1, <2>2, <2>3
<1>10. Alone /\ Op(RescheduleOps) /\ applied' # <<>> => Rescheduled'
  <2> SUFFICES ASSUME Alone, Op(RescheduleOps), applied' # <<>>
               PROVE  Rescheduled'
    OBVIOUS
  <2>1. CASE UNCHANGED <<box, applied>>
    BY <1>1, <2>1 DEF ReadInv, Rescheduled, Args
  <2>2. CASE Wrote
    <3>1. Careful
      BY DEF Careful, Op
    <3>2. QED
      BY <1>1, <2>2, <3>1, CarefulWrite
  <2>3. QED
    BY <1>1, <2>1, <2>2
<1>11. DraftsOnly'
  <2> SUFFICES ASSUME Alone, Op(DraftOps), NEW k \in DOMAIN applied'
               PROVE  before.items[applied'[k].at.id].is_draft
    BY <1>1, <1>2, <1>3 DEF DraftsOnly, DraftOps
  <2>1. \A j \in DOMAIN applied : before.items[applied[j].at.id].is_draft
    BY DEF ReadInv, DraftsOnly, DraftOps
  <2>2. CASE UNCHANGED <<box, applied>>
    BY <2>1, <2>2
  <2>3. CASE Wrote
    <3>1. Careful
      BY DEF Careful, Op
    <3>2. before.items[Step.req.at.id].is_draft
      BY <1>1, <2>3, <3>1, CarefulWrite
    <3>3. applied'[k] = Step.req \/ (k \in DOMAIN applied /\ applied'[k] = applied[k])
      BY <1>4, <2>3, OneMore DEF Wrote
    <3>4. QED
      BY <2>1, <3>2, <3>3
  <2>4. QED
    BY <1>1, <2>2, <2>3
<1>12. phase' = "run" /\ ~Success'
  BY <1>1 DEF Success, Answered
<1>13. before' = before
  BY <1>1
<1>14. QED
  BY <1>2, <1>3, <1>5, <1>7, <1>9, <1>10, <1>11, <1>12, <1>13 DEF ReadInv
LEMMA OthersRead ==
  ASSUME TypeOK, RightAccount, ReadInv,
         Resolve \/ Enter \/ Conclude \/ SignedIn \/ NotSignedIn \/ Logout \/ UNCHANGED vars
  PROVE  ReadInv'
<1>1. UNCHANGED <<call, before, box, applied>>
  BY DEF Resolve, Enter, Conclude, SignedIn, NotSignedIn, Logout, vars, server
<1>2. trouble'.edit = trouble.edit
  <2>1. CASE Logout
    BY <2>1, LogoutFacts, HappensFacts
  <2>2. CASE ~Logout
    BY <2>2 DEF Resolve, Enter, Conclude, SignedIn, NotSignedIn, vars
  <2>3. QED
    BY <2>1, <2>2
<1>3. Alone' = Alone /\ Careful' = Careful /\ (\A ops : Op(ops)' = Op(ops)) /\ Args' = Args
  BY <1>1, <1>2 DEF Alone, Careful, Op, Args
<1>4. \A why : Refused(why).ok = FALSE
  BY DEF Refused
<1>5. Success' => Success \/ (phase = "run" /\ Step.next = "done")
  <2>1. CASE Resolve
    <3>1. PICK r \in ResolveAccount(registry, AccountArg) :
                 IF r.ok THEN phase' = "enter" /\ label' = r.value /\ UNCHANGED answer
                 ELSE Answer(r) /\ UNCHANGED label
      BY <2>1 DEF Resolve
    <3>2. QED
      BY <3>1 DEF Success, Answered, Answer
  <2>2. CASE Enter
    <3>1. (phase' = "answered" /\ ~answer'.ok) \/ phase' = "run"
      BY <1>4, <2>2 DEF Enter, Answer
    <3>2. QED
      BY <3>1 DEF Success, Answered
  <2>3. CASE Conclude
    <3>1. /\ phase = "run"
          /\ \/ phase' = "reauth"
             \/ phase' = "answered" /\ answer' = [ok |-> Step.next = "done", value |-> Step.value]
      BY <2>3 DEF Conclude, Answer
    <3>2. [ok |-> Step.next = "done", value |-> Step.value].ok => Step.next = "done"
      OBVIOUS
    <3>3. QED
      BY <3>1, <3>2 DEF Success, Answered
  <2>4. CASE SignedIn
    BY <2>4 DEF SignedIn, Success, Answered
  <2>5. CASE NotSignedIn
    <3>1. ~answer'.ok
      BY <1>4, <2>5 DEF NotSignedIn, Answer
    <3>2. QED
      BY <3>1 DEF Success
  <2>6. CASE Logout \/ UNCHANGED vars
    BY <2>6 DEF Logout, vars, Success, Answered
  <2>7. QED
    BY <2>1, <2>2, <2>3, <2>4, <2>5, <2>6
<1>6. Success' /\ Op(RescheduleOps) => applied # <<>>
  <2> SUFFICES ASSUME phase = "run", Step.next = "done", Op(RescheduleOps) PROVE applied # <<>>
    BY <1>5 DEF ReadInv
  <2>1. got \in Seq({got[k] : k \in 1 .. Len(got)})
    <3>1. IsList(got)
      BY DEF TypeOK
    <3>2. QED
      BY <3>1, ListFacts
  <2>2. Handle(call.op, call.args, got).next = "done" /\ call.op \in RescheduleOps
    BY DEF Step, Op
  <2>3. Len(got) >= 2 /\ got[2].ok
    BY <2>1, <2>2, RescheduleAsks
  <2>4. QED
    BY <2>3 DEF ReadInv
<1>7. /\ phase' \in {"idle", "resolve", "enter"} => got' = <<>>
      /\ phase' = "idle" => phase = "idle"
      /\ phase' = "run" => (got' = got /\ phase = "run") \/ got' = <<>>
  <2>1. phase \in {"idle", "resolve", "enter"} => got = <<>>
    BY DEF ReadInv
  <2>2. QED
    BY <2>1 DEF Resolve, Enter, Conclude, SignedIn, NotSignedIn, Logout, vars, Answer
<1>8. Alone /\ phase' = "run" => Knows'
  <2>1. CASE got' = <<>>
    BY <2>1 DEF Knows
  <2>2. CASE got' = got /\ phase = "run"
    BY <1>1, <1>3, <2>2 DEF ReadInv, Knows
  <2>3. QED
    BY <1>7, <2>1, <2>2
<1>9. Op(RescheduleOps) /\ phase' = "run" /\ Len(got') >= 2 /\ got'[2].ok => applied # <<>>
  <2>1. CASE got' = <<>>
    BY <2>1, EmptyList
  <2>2. CASE got' = got /\ phase = "run"
    BY <2>2 DEF ReadInv
  <2>3. QED
    BY <1>7, <2>1, <2>2
<1>10. Alone /\ Op(RescheduleOps) /\ applied # <<>> => Rescheduled'
  BY <1>1, <1>3 DEF ReadInv, Rescheduled
<1>11. DraftsOnly'
  BY <1>1, <1>3 DEF ReadInv, DraftsOnly, DraftOps
<1>12. Alone /\ (phase' = "idle" \/ Careful) => Kept(before, box)
  BY <1>7 DEF ReadInv
<1>13. QED
  BY <1>1, <1>3, <1>6, <1>7, <1>8, <1>9, <1>10, <1>11, <1>12 DEF ReadInv

LEMMA NextReads ==
  ASSUME TypeOK, RightAccount, ReadInv, [Next]_vars
  PROVE  ReadInv'
<1>1. CASE Sends
  BY <1>1, SendsReads
<1>2. CASE Resolve \/ Enter \/ Conclude \/ SignedIn \/ NotSignedIn \/ Logout \/ UNCHANGED vars
  BY <1>2, OthersRead
<1>3. CASE Receive
  <2>1. PICK c \in Calls : /\ call' = c
                           /\ IF IsOperation(c.op) THEN phase' = "resolve" /\ UNCHANGED answer
                              ELSE Answer(Refused("unknown operation"))
    BY <1>3 DEF Receive
  <2>2. /\ phase = "idle" /\ UNCHANGED <<before, box, got, applied, trouble>> /\ applied = <<>>
        /\ got = <<>>
    BY <1>3 DEF Receive, TypeOK, ReadInv
  <2>3. /\ phase' \in {"resolve", "answered"} /\ ~Success'
    <3>1. ~Refused("unknown operation").ok
      BY DEF Refused
    <3>2. phase' = "resolve" \/ (phase' = "answered" /\ ~answer'.ok)
      BY <2>1, <3>1 DEF Answer
    <3>3. QED
      BY <3>2 DEF Success, Answered
  <2>4. Alone' => Kept(before, box)
    BY <2>2 DEF ReadInv, Alone
  <2>5. DraftsOnly'
    BY <2>2, EmptyList DEF DraftsOnly
  <2>6. QED
    BY <2>2, <2>3, <2>4, <2>5 DEF ReadInv
<1>4. CASE Edit
  <2>1. /\ phase = "run" /\ Happens("edit") /\ UNCHANGED <<server, phase, got, applied, answer>>
    BY <1>4 DEF Edit, Asking
  <2>2. ~Alone'
    <3>1. trouble.edit \in Nat
      BY DEF TypeOK
    <3>2. trouble'.edit = trouble.edit + 1
      BY <2>1, HappensFacts
    <3>3. QED
      BY <3>1, <3>2 DEF Alone
  <2>3. DraftsOnly'
    BY <2>2 DEF DraftsOnly
  <2>4. (\A ops : Op(ops)' = Op(ops)) /\ Success' = Success
    BY <2>1 DEF Op, server, Success, Answered
  <2>5. QED
    BY <2>1, <2>2, <2>3, <2>4 DEF ReadInv
<1>5. CASE Repeat
  <2>1. /\ phase' = "resolve" /\ got' = <<>> /\ applied' = <<>> /\ before' = box
        /\ UNCHANGED <<call, box, trouble>>
    BY <1>5 DEF Repeat
  <2>2. Alone' /\ Careful' => Kept(box, box)
    <3>1. Alone /\ Careful => Kept(before, box)
      BY DEF ReadInv
    <3>2. Alone /\ Careful => Kept(box, box)
      BY <3>1, KeptDescribed, KeptItself
    <3>3. QED
      BY <2>1, <3>2 DEF Alone, Careful, Op
  <2>3. DraftsOnly'
    BY <2>1, EmptyList DEF DraftsOnly
  <2>4. ~Success' /\ phase' # "run"
    BY <2>1 DEF Success, Answered
  <2>5. QED
    BY <2>1, <2>2, <2>3, <2>4 DEF ReadInv
<1>6. QED
  BY <1>1, <1>2, <1>3, <1>4, <1>5 DEF Next, Sends, Rest

LEMMA InitReads == Init => ReadInv
<1> SUFFICES ASSUME Init PROVE ReadInv
  OBVIOUS
<1>1. /\ phase = "idle" /\ got = <<>> /\ applied = <<>> /\ before = box /\ call.op = ""
  BY DEF Init
<1>2. Kept(before, box)
  BY <1>1, BoxesAssumption, KeptItself DEF Init
<1>3. DraftsOnly
  BY <1>1, EmptyList DEF DraftsOnly
<1>4. ~Success
  BY <1>1 DEF Success, Answered
<1>5. QED
  BY <1>1, <1>2, <1>3, <1>4 DEF ReadInv

LEMMA ReadsAgree == Spec => [](ToolInv /\ ReadInv)
<1>1. ReadInv /\ ToolInv /\ [Next]_vars => ReadInv'
  BY NextReads DEF ToolInv
<1>2. QED
  BY <1>1, InitReads, ToolAgrees, PTL DEF Spec

\* A message that was no draft when update_draft or delete_draft read it is
\* never written to: the write is only made after a read that said so.
THEOREM DraftsAreDrafts == Spec => []DraftsOnly
BY ReadsAgree, PTL DEF ReadInv

\* reschedule_event and reschedule_meeting move an event without changing how
\* long it lasts, whatever the zone, the number of retries and of runs.
THEOREM DurationIsKept == Spec => []RescheduleKeepsDuration
<1>1. ReadInv => RescheduleKeepsDuration
  <2> SUFFICES ASSUME ReadInv, Success, Alone, Op(RescheduleOps)
               PROVE  LET old == before.items[Args.event_id]
                          new == box.items[Args.event_id]
                      IN /\ new.start = EventTime(Args.new_start_datetime, Zone(Args, "new_start_timezone"))
                         /\ new.finish - new.start = old.finish - old.start
    BY DEF RescheduleKeepsDuration, RescheduleOps
  <2>1. Rescheduled /\ Kept(before, box)
    BY DEF ReadInv, Careful, Op
  <2>2. EventID(Args) = Args.event_id
    BY <2>1 DEF Rescheduled, EventID, Arg
  <2>3. QED
    BY <2>1, <2>2 DEF Rescheduled, Kept, SameItem, Duration
<1>2. QED
  BY <1>1, ReadsAgree, PTL
-------------------------------------------------------------------------------
\* How long a new event lasts.
NewLength(a) ==
  IF Arg(a, "is_all_day", FALSE) THEN DefaultAllDayDuration ELSE DefaultMeetingDuration
DefaultEnd(a) ==
  "end_datetime" \notin DOMAIN a /\ Zone(a, "start_timezone") = Zone(a, "end_timezone")

LEMMA CreateAsks ==
  ASSUME NEW op \in CreateOps, NEW a, Timed(a), DefaultEnd(a), NEW S, NEW rs \in Seq(S)
  PROVE  /\ Handle(op, a, rs).next = "ask" =>
              /\ rs = <<>>
              /\ \E in, item : /\ Handle(op, a, rs).req = Create(in, item)
                               /\ {"start", "finish"} \subseteq DOMAIN item
                               /\ Duration(item) = NewLength(a)
         /\ Handle(op, a, rs).next = "done" =>
              rs # <<>> /\ rs[1].ok /\ Handle(op, a, rs).value = rs[1].value
<1> DEFINE start == Arg(a, "start_datetime", NoTime)
           end   == ComputeDefaultEndTime(start, Arg(a, "is_all_day", FALSE))
           zone  == Zone(a, "start_timezone")
           times == [start |-> EventTime(start, zone), finish |-> EventTime(end, zone)]
           item  == With(With(BlankEvent, Given(a, EventFields)), times)
           in    == ById(Arg(a, "calendar_id", 0))
           make  == Request(Create(in, item), rs)
           h     == Handle(op, a, rs)
           D     == NewLength(a)
           p     == start.at
           o     == Offset[zone]
<1>1. h = HandleCreateEvent(a, rs)
  BY DEF Handle, CreateOps
<1>2. h = Fail("argument", rs) \/ (start # NoTime /\ end # NoTime /\ h = make)
  <2>1. Arg(a, "end_datetime", end) = end /\ Zone(a, "end_timezone") = zone
    BY DEF DefaultEnd, Arg
  <2> HIDE DEF end
  <2>2. QED
    BY <1>1, <2>1 DEF HandleCreateEvent, end
<1>3. /\ rs = <<>> => make = Ask(Create(in, item))
      /\ rs # <<>> /\ rs[1].ok => make = Done(rs[1].value, Tail(rs))
      /\ rs # <<>> /\ ~rs[1].ok => make = Fail(rs[1].value, Tail(rs))
  BY RequestSteps, FirstReply
<1>4. {"start", "finish"} \subseteq DOMAIN item /\ item.start = times.start /\ item.finish = times.finish
  BY DEF With
<1>5. times.start = EventTime(start, zone) /\ times.finish = EventTime(end, zone)
  OBVIOUS
<1>6. end # NoTime => start.zone = "" /\ end = Text(p + D, "")
  BY DEF ComputeDefaultEndTime, NewLength
<1>7. start # NoTime => p \in Int
  BY DEF Arg, Timed
<1>8. o \in Int /\ D \in Int
  <2>1. zone \in DOMAIN Offset
    BY ZoneAssumption DEF Zone, Arg, Timed
  <2>2. QED
    BY <2>1, ZoneAssumption DEF NewLength, DefaultAllDayDuration, DefaultMeetingDuration, DayLength
<1>9. start.zone = "" => EventTime(start, zone) = p - o
  BY DEF EventTime
<1>10. EventTime(Text(p + D, ""), zone) = (p + D) - o
  BY DEF EventTime, Text
<1> HIDE DEF item, times, in, make, h, D, p, o, end, start
<1>11. ASSUME start # NoTime, end # NoTime
       PROVE  Duration(item) = D
  <2>1. item.start = p - o /\ item.finish = (p + D) - o
    BY <1>4, <1>5, <1>6, <1>9, <1>10, <1>11
  <2>2. ((p + D) - o) - (p - o) = D
    BY <1>7, <1>8, <1>11, Lasting
  <2>3. QED
    BY <2>1, <2>2 DEF Duration
<1>12. CASE rs = <<>>
  <2>1. h.next # "done"
    BY <1>2, <1>3, <1>12, StepFacts
  <2>2. h.next = "ask" => start # NoTime /\ end # NoTime /\ h.req = Create(in, item)
    BY <1>2, <1>3, <1>12, StepFacts
  <2>3. QED
    BY <1>4, <1>11, <1>12, <2>1, <2>2 DEF h, D
<1>13. CASE rs # <<>>
  <2>1. CASE rs[1].ok
    <3>1. make = Done(rs[1].value, Tail(rs))
      BY <1>3, <1>13, <2>1
    <3>2. make.next = "done" /\ make.value = rs[1].value
      BY <3>1, StepFacts
    <3>3. h.next = "fail" \/ h = make
      BY <1>2, StepFacts
    <3>4. h.next # "ask" /\ (h.next = "done" => h.value = rs[1].value)
      BY <3>2, <3>3
    <3>5. QED
      BY <1>13, <2>1, <3>4 DEF h
  <2>2. CASE ~rs[1].ok
    <3>1. make = Fail(rs[1].value, Tail(rs))
      BY <1>3, <1>13, <2>2
    <3>2. h.next = "fail"
      BY <1>2, <3>1, StepFacts
    <3>3. QED
      BY <3>2 DEF h
  <2>3. QED
    BY <2>1, <2>2
<1>14. QED
  BY <1>12, <1>13

\* The event is in the mailbox under the ID of the reply, as it was asked for.
LEMMA CreatedItem ==
  ASSUME NEW b, Consistent(b), NEW in, NEW item, {"start", "finish"} \subseteq DOMAIN item,
         Accepts(b, Create(in, item))
  PROVE  /\ Create(in, item).op \notin {"get", "list"}
         /\ LET id == Reply(b, Create(in, item)).value.id
            IN Duration(Effect(b, Create(in, item)).items[id]) = Duration(item)
<1> DEFINE req  == Create(in, item)
           put  == With(item, [in |-> HomeOf(b, req)])
           new  == With(put, [stamp |-> b.next])
           b2   == Add(b, new)
<1>1. req.op = "create" /\ req.item = item
  BY DEF Create
<1> HIDE DEF req
<1>2. Accepts(b, req)
  BY DEF req
<1>3. Reply(b, req).value.id = b.next
  BY <1>1, <1>2 DEF Reply
<1>4. \E yes : Effect(b, req) = Notify(b2, yes)
  BY <1>1 DEF Effect, New
<1>5. {"start", "finish"} \subseteq DOMAIN put /\ put.start = item.start /\ put.finish = item.finish
  BY DEF With
<1> HIDE DEF put
<1>6. new.start = item.start /\ new.finish = item.finish
  BY <1>5 DEF With
<1> HIDE DEF new
<1>7. b2.items[b.next] = new
  BY AddFacts
<1>8. \A yes : Notify(b2, yes).items = b2.items
  <2>1. DOMAIN b2 = DOMAIN b /\ DOMAIN b = {"items", "next", "alias", "calendar", "mails"}
    BY AddFacts DEF Consistent
  <2> HIDE DEF b2
  <2>2. QED
    BY <2>1 DEF Notify
<1> HIDE DEF b2
<1>9. Effect(b, req).items[b.next] = new
  BY <1>4, <1>7, <1>8
<1>10. QED
  BY <1>1, <1>3, <1>6, <1>9 DEF Duration, req

\* An event that was asked for without an end, and the reply to it.
Made(v) == Duration(box.items[v.id]) = NewLength(Args)
Unended == Op(CreateOps) /\ DefaultEnd(Args)
LengthInv ==
  Unended => /\ phase = "run" /\ got # <<>> /\ got[1].ok => Made(got[1].value)
             /\ Success => Made(answer.value)

LEMMA WhileRunning ==
  ASSUME TypeOK, phase = "run"
  PROVE  /\ IsList(got) /\ IsList(applied) /\ Consistent(box)
         /\ call \in Calls /\ IsOperation(call.op)
<1>1. IsList(got) /\ IsList(applied) /\ Consistent(box)
  BY DEF TypeOK
<1>2. call \in Calls
  BY DEF TypeOK
<1>3. IsOperation(call.op)
  BY DEF TypeOK
<1>4. QED
  BY <1>1, <1>2, <1>3

LEMMA NewReply ==
  ASSUME Sends
  PROVE  /\ Asking /\ UNCHANGED <<call, phase, answer>>
         /\ \/ got' = got
            \/ \E r : /\ got' = Append(got, r)
                      /\ r.ok => r = Reply(box, Step.req) /\ Accepts(box, Step.req) /\ Serve
<1>1. Asking
  BY SendsFrame
<1>2. UNCHANGED <<call, phase, answer>>
  BY SendsFrame DEF server
<1>3. QED
  BY <1>1, <1>2, SendsFrame

\* The creation is the only request of its handler.
LEMMA UnendedAsks ==
  ASSUME TypeOK, Unended, phase = "run"
  PROVE  /\ Step.next = "ask" =>
              /\ got = <<>>
              /\ \E in, item : /\ Step.req = Create(in, item)
                               /\ {"start", "finish"} \subseteq DOMAIN item
                               /\ Duration(item) = NewLength(Args)
         /\ Step.next = "done" => got # <<>> /\ got[1].ok /\ Step.value = got[1].value
<1>1. IsList(got) /\ call \in Calls /\ IsOperation(call.op)
  BY WhileRunning
<1>2. got \in Seq({got[k] : k \in 1 .. Len(got)})
  BY <1>1, ListFacts
<1>3. Timed(Args) /\ call.op \in CreateOps /\ DefaultEnd(Args)
  BY <1>1, CalendarCall DEF Unended, Op, Args
<1>4. Step = Handle(call.op, Args, got)
  BY DEF Step, Args
<1> DEFINE h == Handle(call.op, Args, got)
<1>5. /\ h.next = "ask" =>
           /\ got = <<>>
           /\ \E in, item : /\ h.req = Create(in, item)
                            /\ {"start", "finish"} \subseteq DOMAIN item
                            /\ Duration(item) = NewLength(Args)
      /\ h.next = "done" => got # <<>> /\ got[1].ok /\ h.value = got[1].value
  BY <1>2, <1>3, CreateAsks
<1> HIDE DEF h
<1>6. h = Step
  BY <1>4 DEF h
<1>7. QED
  BY <1>5, <1>6

LEMMA SendsLength ==
  ASSUME TypeOK, RightAccount, LengthInv, Sends
  PROVE  LengthInv'
<1>1. /\ Asking /\ phase = "run" /\ UNCHANGED <<call, phase, answer>>
  BY NewReply DEF Asking
<1>2. /\ ~Success' /\ Args' = Args /\ Op(CreateOps)' = Op(CreateOps)
      /\ DefaultEnd(Args)' = DefaultEnd(Args) /\ NewLength(Args)' = NewLength(Args)
  BY <1>1 DEF Success, Answered, Op, Args
<1>3. ASSUME Unended, got' # <<>>, got'[1].ok
      PROVE  Duration(box'.items[got'[1].value.id]) = NewLength(Args)
  <2>1. /\ Step.next = "ask" /\ got = <<>>
        /\ \E in, item : /\ Step.req = Create(in, item)
                         /\ {"start", "finish"} \subseteq DOMAIN item
                         /\ Duration(item) = NewLength(Args)
    BY <1>1, <1>3, UnendedAsks DEF Asking
  <2>2. PICK in, item : /\ Step.req = Create(in, item)
                        /\ {"start", "finish"} \subseteq DOMAIN item
                        /\ Duration(item) = NewLength(Args)
    BY <2>1
  <2>3. PICK r : /\ got' = Append(got, r)
                 /\ r.ok => r = Reply(box, Step.req) /\ Accepts(box, Step.req) /\ Serve
    <3>1. got' # got
      BY <1>3, <2>1
    <3>2. QED
      BY <3>1, NewReply
  <2>4. got'[1] = r
    BY <2>1, <2>3, MoreReplies
  <2>5. Serve /\ r = Reply(box, Step.req) /\ Accepts(box, Step.req)
    BY <1>3, <2>3, <2>4
  <2> Consistent(box)
    BY <1>1, WhileRunning
  <2>6. Step.req.op \notin {"get", "list"}
    BY <2>2, <2>5, CreatedItem
  <2>7. box' = Effect(box, Step.req)
    BY <2>5, <2>6 DEF Serve, Apply
  <2>8. Duration(Effect(box, Create(in, item)).items[Reply(box, Create(in, item)).value.id])
          = Duration(item)
    BY <2>2, <2>5, CreatedItem
  <2>9. Duration(box'.items[got'[1].value.id]) = NewLength(Args)
    BY <2>2, <2>4, <2>5, <2>7, <2>8
  <2>10. QED
    BY <2>9
<1>4. QED
  BY <1>2, <1>3 DEF LengthInv, Made, Unended

LEMMA OthersLength ==
  ASSUME TypeOK, ReadInv, LengthInv,
         \/ Receive \/ Resolve \/ Enter \/ Conclude \/ SignedIn \/ NotSignedIn
         \/ Edit \/ Logout \/ Repeat \/ UNCHANGED vars
  PROVE  LengthInv'
<1>1. \A why : Refused(why).ok = FALSE
  BY DEF Refused
<1>2. CASE Receive
  <2>1. PICK c \in Calls : IF IsOperation(c.op) THEN phase' = "resolve" /\ UNCHANGED answer
                           ELSE Answer(Refused("unknown operation"))
    BY <1>2 DEF Receive
  <2>2. phase' # "run" /\ ~Success'
    BY <1>1, <2>1 DEF Answer, Success, Answered
  <2>3. QED
    BY <2>2 DEF LengthInv
<1>3. CASE Resolve
  <2>1. PICK r \in ResolveAccount(registry, AccountArg) :
               IF r.ok THEN phase' = "enter" /\ label' = r.value /\ UNCHANGED answer
               ELSE Answer(r) /\ UNCHANGED label
    BY <1>3 DEF Resolve
  <2>2. phase' # "run" /\ ~Success'
    BY <2>1 DEF Answer, Success, Answered
  <2>3. QED
    BY <2>2 DEF LengthInv
<1>4. CASE Enter
  <2>1. got' = <<>>
    BY <1>4 DEF Enter, ReadInv
  <2>2. (phase' = "answered" /\ ~answer'.ok) \/ phase' = "run"
    BY <1>1, <1>4 DEF Enter, Answer
  <2>3. QED
    BY <2>1, <2>2 DEF LengthInv, Success, Answered
<1>5. CASE Conclude
  <2>1. /\ phase = "run" /\ UNCHANGED <<call, box, got>>
        /\ \/ phase' = "reauth"
           \/ phase' = "answered" /\ answer' = [ok |-> Step.next = "done", value |-> Step.value]
    BY <1>5 DEF Conclude, Answer, server
  <2>2. /\ phase' # "run"
        /\ Success' => Step.next = "done" /\ answer'.value = Step.value
    <3> DEFINE end == [ok |-> Step.next = "done", value |-> Step.value]
    <3>1. (end.ok => Step.next = "done") /\ end.value = Step.value
      OBVIOUS
    <3> HIDE DEF end
    <3>2. phase' = "reauth" \/ (phase' = "answered" /\ answer' = end)
      BY <2>1 DEF end
    <3>3. QED
      BY <3>1, <3>2 DEF Success, Answered
  <2>3. /\ Args' = Args /\ Op(CreateOps)' = Op(CreateOps) /\ box' = box
        /\ DefaultEnd(Args)' = DefaultEnd(Args) /\ NewLength(Args)' = NewLength(Args)
    BY <2>1 DEF Op, Args
  <2>4. Unended /\ Success' => Duration(box.items[answer'.value.id]) = NewLength(Args)
    <3>1. Unended /\ Step.next = "done" => got # <<>> /\ got[1].ok /\ Step.value = got[1].value
      BY <2>1, UnendedAsks
    <3>2. Unended /\ got # <<>> /\ got[1].ok => Duration(box.items[got[1].value.id]) = NewLength(Args)
      BY <2>1 DEF LengthInv, Made
    <3>3. QED
      BY <2>2, <3>1, <3>2
  <2>5. QED
    BY <2>2, <2>3, <2>4 DEF LengthInv, Made, Unended
<1>6. CASE SignedIn \/ NotSignedIn
  <2>1. phase' # "run" /\ ~Success'
    BY <1>1, <1>6 DEF SignedIn, NotSignedIn, Answer, Success, Answered
  <2>2. QED
    BY <2>1 DEF LengthInv
<1>7. CASE Edit
  <2>1. /\ Asking /\ phase = "run" /\ UNCHANGED <<call, phase, got, answer>>
    BY <1>7 DEF Edit, Asking, server
  <2>2. /\ ~Success' /\ Args' = Args /\ Op(CreateOps)' = Op(CreateOps)
        /\ DefaultEnd(Args)' = DefaultEnd(Args)
    BY <2>1 DEF Success, Answered, Op, Args
  <2>3. Unended => got = <<>>
    BY <2>1, UnendedAsks DEF Asking
  <2>4. QED
    BY <2>1, <2>2, <2>3 DEF LengthInv, Unended
<1>8. CASE Logout \/ UNCHANGED vars
  <2>1. UNCHANGED <<call, phase, got, answer, box>>
    BY <1>8 DEF Logout, vars, server
  <2>2. /\ Success' = Success /\ Args' = Args /\ Op(CreateOps)' = Op(CreateOps)
        /\ DefaultEnd(Args)' = DefaultEnd(Args) /\ NewLength(Args)' = NewLength(Args)
    BY <2>1 DEF Success, Answered, Op, Args
  <2>3. QED
    BY <2>1, <2>2 DEF LengthInv, Unended, Made
<1>9. CASE Repeat
  <2>1. phase' # "run" /\ ~Success'
    BY <1>9 DEF Repeat, Success, Answered
  <2>2. QED
    BY <2>1 DEF LengthInv
<1>10. QED
  BY <1>2, <1>3, <1>4, <1>5, <1>6, <1>7, <1>8, <1>9

LEMMA NextLength ==
  ASSUME TypeOK, RightAccount, ReadInv, LengthInv, [Next]_vars
  PROVE  LengthInv'
<1>1. CASE Sends
  BY <1>1, SendsLength
<1>2. CASE ~Sends
  BY <1>2, OthersLength DEF Next, Sends, Rest
<1>3. QED
  BY <1>1, <1>2

LEMMA InitLength == Init => LengthInv
BY DEF Init, LengthInv, Success, Answered

\* An event that create_event or create_meeting makes without an end lasts half
\* an hour, or a day, from the moment the reply to the creation has come, even
\* after a first run of the handler that ended for want of a token.
THEOREM NewEventsLast == Spec => []EventLength
<1>1. ToolInv /\ ReadInv /\ LengthInv /\ [Next]_vars => LengthInv'
  BY NextLength DEF ToolInv
<1>2. LengthInv => EventLength
  BY DEF LengthInv, EventLength, Unended, DefaultEnd, Made, Duration, NewLength, CreateOps
<1>3. QED
  BY <1>1, <1>2, InitLength, ReadsAgree, PTL DEF Spec
================================================================================
