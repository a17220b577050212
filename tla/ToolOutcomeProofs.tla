--------------------------- MODULE ToolOutcomeProofs ---------------------------
(***************************************************************************)
(* Theorems about what a client may conclude from an answer: a call that   *)
(* failed changed nothing, and no write was made twice, unless replies     *)
(* were lost.  They rest on one fact about every handler: what it did with *)
(* the replies so far it still does when one more arrives.  Then: what is  *)
(* reported as moved was moved, a repeated call changes nothing, and a     *)
(* change goes to what the call names, a folder by the path it is given.   *)
(***************************************************************************)
EXTENDS ToolWritesProofs

-------------------------------------------------------------------------------
\* One more reply.  A part of a handler that is over stays over, with the same
\* result, and leaves the new reply to what comes after it; one that still waits
\* takes the reply for itself and leaves nothing.
Grows(p, q, r, S) ==
  /\ p.next # "ask" => /\ p.rest \in Seq(S) /\ q.rest = Append(p.rest, r)
                       /\ q.next = p.next /\ q.value = p.value
  /\ p.next = "ask" /\ q.next # "ask" => q.rest = <<>>

LEMMA OneReply ==
  ASSUME NEW S, NEW rs \in Seq(S), NEW r \in S
  PROVE  /\ Append(rs, r) \in Seq(S) /\ Append(rs, r) # <<>>
         /\ rs = <<>> => Head(Append(rs, r)) = r /\ Tail(Append(rs, r)) = <<>>
         /\ rs # <<>> => /\ Head(Append(rs, r)) = Head(rs)
                         /\ Tail(Append(rs, r)) = Append(Tail(rs), r)
                         /\ Tail(rs) \in Seq(S)
<1> DEFINE t == Append(rs, r)
<1>1. /\ t \in Seq(S) /\ t # <<>> /\ Len(rs) \in Nat /\ Len(t) = Len(rs) + 1 /\ t[Len(rs) + 1] = r
      /\ \A k \in 1 .. Len(rs) : t[k] = rs[k]
  OBVIOUS
<1>2. CASE rs = <<>>
  <2>1. t = <<r>>
    BY <1>2
  <2>2. Head(<<r>>) = r /\ Tail(<<r>>) = <<>>
    OBVIOUS
  <2>3. QED
    BY <1>1, <1>2, <2>1, <2>2
<1>3. CASE rs # <<>>
  <2>1. Tail(rs) \in Seq(S) /\ Len(rs) >= 1 /\ Head(rs) = rs[1]
    BY <1>3, FirstReply
  <2>2. Head(t) = t[1] /\ t[1] = rs[1]
    BY <1>1, <2>1
  <2>3. Tail(t) = Append(Tail(rs), r)
    BY <1>3
  <2>4. QED
    BY <1>1, <1>3, <2>1, <2>2, <2>3
<1>4. QED
  BY <1>2, <1>3

LEMMA Unanswered ==
  \A req : Request(req, <<>>) = Ask(req) /\ Try(req, <<>>) = Ask(req)
BY RequestSteps DEF Try

LEMMA DoneGrows ==
  ASSUME NEW v, NEW S, NEW rs \in Seq(S), NEW r \in S
  PROVE  Grows(Done(v, rs), Done(v, Append(rs, r)), r, S)
<1> DEFINE p == Done(v, rs)
           q == Done(v, Append(rs, r))
<1>1. p.next = "done" /\ p.value = v /\ p.rest = rs
  BY StepFacts
<1>2. q.next = "done" /\ q.value = v /\ q.rest = Append(rs, r)
  BY DEF Done
<1> HIDE DEF p, q
<1>3. Grows(p, q, r, S)
  BY <1>1, <1>2 DEF Grows
<1>4. QED
  BY <1>3 DEF p, q

LEMMA FailGrows ==
  ASSUME NEW v, NEW S, NEW rs \in Seq(S), NEW r \in S
  PROVE  Grows(Fail(v, rs), Fail(v, Append(rs, r)), r, S)
<1> DEFINE p == Fail(v, rs)
           q == Fail(v, Append(rs, r))
<1>1. p.next = "fail" /\ p.value = v /\ p.rest = rs
  BY DEF Fail
<1>2. q.next = "fail" /\ q.value = v /\ q.rest = Append(rs, r)
  BY DEF Fail
<1> HIDE DEF p, q
<1>3. Grows(p, q, r, S)
  BY <1>1, <1>2 DEF Grows
<1>4. QED
  BY <1>3 DEF p, q

\* A request is answered by the first reply.
LEMMA RequestGrows ==
  ASSUME NEW req, NEW S, NEW rs \in Seq(S), NEW r \in S
  PROVE  /\ Grows(Request(req, rs), Request(req, Append(rs, r)), r, S)
         /\ Grows(Try(req, rs), Try(req, Append(rs, r)), r, S)
<1> DEFINE t == Append(rs, r)
<1>1. CASE rs = <<>>
  <2>1. Request(req, rs) = Ask(req) /\ Try(req, rs) = Ask(req)
    BY <1>1, Unanswered
  <2>2. /\ t # <<>> /\ Head(t) = r /\ Tail(t) = <<>>
    BY <1>1, OneReply
  <2>3. /\ Try(req, t) = Done(r, <<>>)
        /\ Request(req, t) \in {Done(r.value, <<>>), Fail(r.value, <<>>)}
    BY <2>2, RequestSteps DEF Try
  <2> HIDE DEF t
  <2>4. Try(req, t).rest = <<>> /\ Request(req, t).rest = <<>>
    BY <2>3, StepFacts
  <2>5. QED
    BY <2>1, <2>4, StepFacts DEF Grows, t
<1>2. CASE rs # <<>>
  <2>1. /\ t # <<>> /\ Head(t) = Head(rs) /\ Tail(t) = Append(Tail(rs), r) /\ Tail(rs) \in Seq(S)
    BY <1>2, OneReply
  <2>2. /\ Try(req, rs) = Done(Head(rs), Tail(rs)) /\ Try(req, t) = Done(Head(t), Tail(t))
        /\ Head(rs).ok => Request(req, rs) = Done(Head(rs).value, Tail(rs))
                          /\ Request(req, t) = Done(Head(t).value, Tail(t))
        /\ ~Head(rs).ok => Request(req, rs) = Fail(Head(rs).value, Tail(rs))
                           /\ Request(req, t) = Fail(Head(t).value, Tail(t))
    BY <1>2, <2>1, RequestSteps DEF Try
  <2> HIDE DEF t
  <2>3. Grows(Try(req, rs), Try(req, t), r, S)
    BY <2>1, <2>2, DoneGrows
  <2>4. CASE Head(rs).ok
    BY <2>1, <2>2, <2>3, <2>4, DoneGrows DEF t
  <2>5. CASE ~Head(rs).ok
    BY <2>1, <2>2, <2>3, <2>5, FailGrows DEF t
  <2>6. QED
    BY <2>4, <2>5
<1>3. QED
  BY <1>1, <1>2

\* The request that ends a handler: once it is served the handler is done.
LEMMA RequestEnds ==
  ASSUME NEW req, NEW S, NEW rs \in Seq(S), NEW r \in S, Request(req, rs).next = "ask"
  PROVE  /\ rs = <<>>
         /\ r.ok => Request(req, Append(rs, r)) = Done(r.value, <<>>)
<1>1. rs = <<>>
  <2> SUFFICES ASSUME rs # <<>> PROVE FALSE
    OBVIOUS
  <2>1. CASE Head(rs).ok
    BY <2>1, RequestSteps, StepFacts
  <2>2. CASE ~Head(rs).ok
    BY <2>2, RequestSteps, StepFacts
  <2>3. QED
    BY <2>1, <2>2
<1>2. Append(rs, r) # <<>> /\ Head(Append(rs, r)) = r /\ Tail(Append(rs, r)) = <<>>
  BY <1>1, OneReply
<1>3. QED
  BY <1>1, <1>2, RequestSteps

-------------------------------------------------------------------------------
\* Folder references: what they were resolved to, they are resolved to again.
LEMMA FindUnderGrows ==
  ASSUME NEW place, NEW part, NEW S, NEW rs \in Seq(S), NEW r \in S
  PROVE  Grows(FindUnder(place, part, rs), FindUnder(place, part, Append(rs, r)), r, S)
<1> DEFINE req == FetchFolders(place.at, LookupPage)
           here(v) == MatchFolderByName(v.items, part)
           match(v) == v.items[here(v)]
           found(v) == Place(ById(match(v).id), place.path \o match(v).name)
           p == Request(req, rs)
           q == Request(req, Append(rs, r))
           next(s) == IF s.next # "done" THEN s
                      ELSE IF here(s.value) = 0 THEN Fail("no folder", s.rest)
                      ELSE Done(found(s.value), s.rest)
<1>1. FindUnder(place, part, rs) = next(p) /\ FindUnder(place, part, Append(rs, r)) = next(q)
  BY DEF FindUnder, Then
<1>2. Grows(p, q, r, S)
  BY RequestGrows
<1> HIDE DEF p, q, here, found
<1>3. Grows(next(p), next(q), r, S)
  <2>1. CASE p.next # "done"
    <3>1. next(p) = p /\ (q.next # "done" => next(q) = q)
      BY <2>1
    <3>2. q.next = "done" => \E v : next(q) = Done(v, q.rest) \/ next(q) = Fail(v, q.rest)
      OBVIOUS
    <3> HIDE DEF next
    <3>3. q.next = "done" => next(q).rest = q.rest
      BY <3>2, StepFacts
    <3>4. QED
      BY <1>2, <2>1, <3>1, <3>3 DEF Grows
  <2>2. CASE p.next = "done"
    <3>1. p.rest \in Seq(S) /\ q.rest = Append(p.rest, r) /\ q.next = "done" /\ q.value = p.value
      BY <1>2, <2>2 DEF Grows
    <3>2. CASE here(p.value) = 0
      BY <2>2, <3>1, <3>2, FailGrows
    <3>3. CASE here(p.value) # 0
      BY <2>2, <3>1, <3>3, DoneGrows
    <3>4. QED
      BY <3>2, <3>3
  <2>3. QED
    BY <2>1, <2>2
<1>4. QED
  BY <1>1, <1>3

LEMMA FindUnderAsks == \A place, part : FindUnder(place, part, <<>>).next = "ask"
<1> SUFFICES ASSUME NEW place, NEW part PROVE FindUnder(place, part, <<>>).next = "ask"
  OBVIOUS
<1>1. Request(FetchFolders(place.at, LookupPage), <<>>).next = "ask"
  BY Unanswered, StepFacts
<1>2. QED
  BY <1>1 DEF FindUnder, Then

LEMMA FirstPartGrows ==
  ASSUME NEW part, NEW S, NEW rs \in Seq(S), NEW r \in S
  PROVE  Grows(FirstPart(part, rs), FirstPart(part, Append(rs, r)), r, S)
<1>1. CASE IsWellKnown(part)
  BY <1>1, DoneGrows DEF FirstPart
<1>2. CASE ~IsWellKnown(part)
  BY <1>2, FindUnderGrows DEF FirstPart
<1>3. QED
  BY <1>1, <1>2

LEMMA NextPartGrows ==
  ASSUME NEW part, NEW p, NEW q, NEW S, NEW r \in S, Grows(p, q, r, S)
  PROVE  Grows(NextPart(part, p), NextPart(part, q), r, S)
<1>1. \A s : NextPart(part, s) = IF s.next = "done" THEN FindUnder(s.value, part, s.rest) ELSE s
  BY DEF NextPart, Then
<1>2. CASE p.next = "done"
  <2>1. p.rest \in Seq(S) /\ q.rest = Append(p.rest, r) /\ q.next = "done" /\ q.value = p.value
    BY <1>2 DEF Grows
  <2>2. /\ NextPart(part, p) = FindUnder(p.value, part, p.rest)
        /\ NextPart(part, q) = FindUnder(p.value, part, Append(p.rest, r))
    BY <1>1, <1>2, <2>1
  <2>3. QED
    BY <2>1, <2>2, FindUnderGrows
<1>3. CASE p.next # "done"
  <2>1. NextPart(part, p) = p /\ (q.next # "done" => NextPart(part, q) = q)
    BY <1>1, <1>3
  <2>2. q.next = "done" /\ q.rest = <<>> => NextPart(part, q).next = "ask"
    BY <1>1, FindUnderAsks
  <2>3. QED
    BY <1>3, <2>1, <2>2 DEF Grows
<1>4. QED
  BY <1>2, <1>3

LEMMA WalkGrows ==
  ASSUME NEW parts, Len(parts) \in Nat \ {0}, NEW S, NEW rs \in Seq(S), NEW r \in S
  PROVE  Grows(WalkFolderPath(parts, rs), WalkFolderPath(parts, Append(rs, r)), r, S)
<1> DEFINE N == Len(parts)
           t == Append(rs, r)
           g == CHOOSE g : Walk(parts, rs, N, g)
           h == CHOOSE h : Walk(parts, t, N, h)
           P == {n \in 1 .. N : Grows(g[n], h[n], r, S)}
<1>1. Walk(parts, rs, N, g) /\ Walk(parts, t, N, h)
  BY WalkRuns
<1>2. WalkFolderPath(parts, rs) = g[N] /\ WalkFolderPath(parts, t) = h[N]
  BY DEF WalkFolderPath, Walk
<1> HIDE DEF g, h
<1>3. 1 \in P
  <2>1. g[1] = FirstPart(parts[1], rs) /\ h[1] = FirstPart(parts[1], t)
    BY <1>1 DEF Walk
  <2>2. QED
    BY <2>1, FirstPartGrows
<1>4. ASSUME NEW n \in 1 .. N, n + 1 \in 1 .. N, n \in P
      PROVE  n + 1 \in P
  <2>1. g[n + 1] = NextPart(parts[n + 1], g[n]) /\ h[n + 1] = NextPart(parts[n + 1], h[n])
    BY <1>1, <1>4 DEF Walk
  <2>2. QED
    BY <1>4, <2>1, NextPartGrows
<1>5. N \in P
  <2> HIDE DEF P
  <2>1. \A n \in 1 .. N : n \in P
    BY <1>3, <1>4, UpTo
  <2>2. QED
    BY <2>1
<1>6. QED
  BY <1>2, <1>5

LEMMA PassThroughGrows ==
  ASSUME NEW id, NEW wantPath, NEW S, NEW rs \in Seq(S), NEW r \in S
  PROVE  Grows(PassThroughId(id, wantPath, rs), PassThroughId(id, wantPath, Append(rs, r)), r, S)
<1> DEFINE req == Get("folder", id)
           p == Request(req, rs)
           q == Request(req, Append(rs, r))
           next(s) == IF s.next # "done" THEN s ELSE Done(Place(ById(id), s.value.name), s.rest)
<1>1. CASE ~wantPath
  BY <1>1, DoneGrows DEF PassThroughId
<1>2. CASE wantPath
  <2>1. /\ PassThroughId(id, wantPath, rs) = next(p)
        /\ PassThroughId(id, wantPath, Append(rs, r)) = next(q)
    BY <1>2 DEF PassThroughId, Then
  <2>2. Grows(p, q, r, S)
    BY RequestGrows
  <2> HIDE DEF p, q
  <2>3. CASE p.next # "done"
    <3>1. next(p) = p /\ (q.next # "done" => next(q) = q)
      BY <2>3
    <3>2. q.next = "done" => next(q).rest = q.rest
      BY StepFacts
    <3>3. QED
      BY <2>1, <2>2, <2>3, <3>1, <3>2 DEF Grows
  <2>4. CASE p.next = "done"
    <3>1. p.rest \in Seq(S) /\ q.rest = Append(p.rest, r) /\ q.next = "done" /\ q.value = p.value
      BY <2>2, <2>4 DEF Grows
    <3>2. QED
      BY <2>1, <2>4, <3>1, DoneGrows
  <2>5. QED
    BY <2>3, <2>4
<1>3. QED
  BY <1>1, <1>2

LEMMA PassThroughTakes ==
  \A id, wantPath : LET q == PassThroughId(id, wantPath, <<>>) IN q.next # "ask" => q.rest = <<>>
<1> SUFFICES ASSUME NEW id, NEW wantPath
             PROVE  LET q == PassThroughId(id, wantPath, <<>>) IN q.next # "ask" => q.rest = <<>>
  OBVIOUS
<1>1. CASE wantPath
  <2>1. Request(Get("folder", id), <<>>).next = "ask"
    BY Unanswered, StepFacts
  <2>2. QED
    BY <1>1, <2>1 DEF PassThroughId, Then
<1>2. CASE ~wantPath
  BY <1>2, StepFacts DEF PassThroughId
<1>3. QED
  BY <1>1, <1>2

LEMMA RefGrows ==
  ASSUME NEW ref \in References, ref # NoRef, NEW wantPath,
         NEW S, NEW rs \in Seq(S), NEW r \in S
  PROVE  Grows(ResolveFolderRef(ref, wantPath, rs),
               ResolveFolderRef(ref, wantPath, Append(rs, r)), r, S)
<1> DEFINE t == Append(rs, r)
           key(x) == Done(WellKnownFolder(ref.parts[1]), x)
           pass(x) == PassThroughId(ref.id, wantPath, x)
           walk(x) == WalkFolderPath(ref.parts, x)
<1>1. \A x : ResolveFolderRef(ref, wantPath, x) =
        IF Len(ref.parts) = 1 /\ IsWellKnown(ref.parts[1]) THEN key(x)
        ELSE IF Len(ref.parts) <= 1 /\ ref.id # 0 THEN pass(x)
        ELSE IF walk(x).next # "fail" \/ ref.id = 0 THEN walk(x) ELSE pass(walk(x).rest)
  BY DEF ResolveFolderRef
<1>2. Len(ref.parts) \in Nat /\ (ref.id = 0 => Len(ref.parts) # 0)
  <2>1. ref.parts \in Seq(DOMAIN Fold) /\ ref = [parts |-> ref.parts, id |-> ref.id]
    BY DEF References
  <2>2. Len(ref.parts) = 0 => ref.parts = <<>>
    BY <2>1
  <2>3. QED
    BY <2>1, <2>2 DEF NoRef
<1>3. Grows(key(rs), key(t), r, S) /\ Grows(pass(rs), pass(t), r, S)
  BY DoneGrows, PassThroughGrows
<1>4. ~(Len(ref.parts) <= 1 /\ ref.id # 0) => Grows(walk(rs), walk(t), r, S)
  BY <1>2, WalkGrows
<1>5. /\ \A x \in Seq(S) : Grows(pass(x), pass(Append(x, r)), r, S)
      /\ pass(<<>>).next # "ask" => pass(<<>>).rest = <<>>
  BY PassThroughGrows, PassThroughTakes
<1> HIDE DEF key, pass, walk, t
<1>6. CASE Len(ref.parts) = 1 /\ IsWellKnown(ref.parts[1])
  BY <1>1, <1>3, <1>6 DEF t
<1>7. CASE ~(Len(ref.parts) = 1 /\ IsWellKnown(ref.parts[1])) /\ Len(ref.parts) <= 1 /\ ref.id # 0
  BY <1>1, <1>3, <1>7 DEF t
<1>8. CASE ~(Len(ref.parts) = 1 /\ IsWellKnown(ref.parts[1])) /\ ~(Len(ref.parts) <= 1 /\ ref.id # 0)
  <2> DEFINE p == ResolveFolderRef(ref, wantPath, rs)
             q == ResolveFolderRef(ref, wantPath, t)
  <2>1. /\ p = IF walk(rs).next # "fail" \/ ref.id = 0 THEN walk(rs) ELSE pass(walk(rs).rest)
        /\ q = IF walk(t).next # "fail" \/ ref.id = 0 THEN walk(t) ELSE pass(walk(t).rest)
    BY <1>1, <1>8
  <2>2. Grows(walk(rs), walk(t), r, S)
    BY <1>4, <1>8
  <2> HIDE DEF p, q
  <2>3. CASE walk(rs).next = "ask"
    <3>1. p = walk(rs) /\ (walk(t).next # "ask" => walk(t).rest = <<>>)
      BY <2>1, <2>2, <2>3 DEF Grows
    <3>2. q.next # "ask" => q.rest = <<>>
      BY <1>5, <2>1, <3>1
    <3>3. QED
      BY <2>3, <3>1, <3>2 DEF Grows, t, p, q
  <2>4. CASE walk(rs).next # "ask"
    <3>1. walk(t).next = walk(rs).next /\ walk(rs).rest \in Seq(S) /\ walk(t).rest = Append(walk(rs).rest, r)
      BY <2>2, <2>4 DEF Grows
    <3>2. CASE walk(rs).next # "fail" \/ ref.id = 0
      BY <2>1, <2>2, <3>1, <3>2 DEF t, p, q
    <3>3. CASE ~(walk(rs).next # "fail" \/ ref.id = 0)
      BY <1>5, <2>1, <3>1, <3>3 DEF t, p, q
    <3>4. QED
      BY <3>2, <3>3
  <2>5. QED
    BY <2>3, <2>4
<1>9. QED
  BY <1>6, <1>7, <1>8

LEMMA ParamGrows ==
  ASSUME NEW ref \in References, NEW S, NEW rs \in Seq(S), NEW r \in S
  PROVE  Grows(ResolveFolderParam(ref, rs), ResolveFolderParam(ref, Append(rs, r)), r, S)
<1>1. CASE ref = NoRef
  BY <1>1, DoneGrows DEF ResolveFolderParam
<1>2. CASE ref # NoRef
  BY <1>2, RefGrows DEF ResolveFolderParam
<1>3. QED
  BY <1>1, <1>2

-------------------------------------------------------------------------------
\* Handlers that make one write, as the last thing they do: p and q are what
\* comes before it, with the replies so far and with one more.
Closing(hp, hq, p, q, req) ==
  /\ hp.next = "ask" => \/ p.next # "done" /\ hp = p
                        \/ p.next = "done" /\ hp = Request(req, p.rest)
  /\ hp.next = "ask" /\ p.next = "done" /\ q.next = "done" /\ q.value = p.value =>
       hq = Request(req, q.rest)

LEMMA WriteCloses ==
  ASSUME NEW p, NEW q, NEW S, NEW r \in S, Grows(p, q, r, S), Keeps(p, Reading, S),
         NEW req, NEW hp, NEW hq, Closing(hp, hq, p, q, req),
         hp.next = "ask", hp.req.op \notin Reading, r.ok
  PROVE  hq.next = "done"
<1>1. p.next = "ask" => p.req.op \in Reading
  BY DEF Keeps, Asks
<1>2. p.next # "done" => hp # p
  BY <1>1
<1>3. p.next = "done" /\ hp = Request(req, p.rest)
  BY <1>2 DEF Closing
<1>4. p.rest \in Seq(S) /\ q.rest = Append(p.rest, r) /\ q.next = "done" /\ q.value = p.value
  BY <1>3 DEF Grows
<1>5. hq = Request(req, q.rest)
  BY <1>3, <1>4 DEF Closing
<1>6. Request(req, Append(p.rest, r)) = Done(r.value, <<>>)
  BY <1>3, <1>4, RequestEnds
<1>7. QED
  BY <1>4, <1>5, <1>6, StepFacts

\* Nothing comes before it.
DirectOps ==
  {"mail.create_draft", "calendar.update_event", "calendar.update_meeting",
   "calendar.delete_event", "calendar.cancel_meeting", "calendar.respond_event"} \cup CreateOps

LEMMA DirectForm ==
  ASSUME NEW op \in DirectOps, NEW a
  PROVE  \E wrong, req : \A x :
           Handle(op, a, x) = IF wrong THEN Fail("argument", x) ELSE Request(req, x)
<1>1. CASE op = "mail.create_draft"
  BY <1>1 DEF Handle, CreateDraft
<1>2. CASE op \in CreateOps
  <2>1. \A x : Handle(op, a, x) = HandleCreateEvent(a, x)
    BY <1>2 DEF Handle, CreateOps
  <2>2. QED
    BY <2>1 DEF HandleCreateEvent
<1>3. CASE op \in {"calendar.update_event", "calendar.update_meeting"}
  <2>1. \A x : Handle(op, a, x) = HandleUpdateEvent(a, x)
    BY <1>3 DEF Handle
  <2>2. QED
    BY <2>1 DEF HandleUpdateEvent
<1>4. CASE op = "calendar.delete_event"
  BY <1>4 DEF Handle, HandleDeleteEvent
<1>5. CASE op = "calendar.cancel_meeting"
  BY <1>5 DEF Handle, HandleCancelEvent
<1>6. CASE op = "calendar.respond_event"
  BY <1>6 DEF Handle, HandleRespondEvent
<1>7. QED
  BY <1>1, <1>2, <1>3, <1>4, <1>5, <1>6 DEF DirectOps

LEMMA DirectEnds ==
  ASSUME NEW op \in DirectOps, NEW a, NEW S, NEW rs \in Seq(S), NEW r \in S, r.ok,
         Handle(op, a, rs).next = "ask"
  PROVE  Handle(op, a, Append(rs, r)).next = "done"
<1>1. PICK wrong, req : \A x :
        Handle(op, a, x) = IF wrong THEN Fail("argument", x) ELSE Request(req, x)
  BY DirectForm
<1>2. ~wrong
  <2>1. wrong => Handle(op, a, rs) = Fail("argument", rs)
    BY <1>1
  <2>2. QED
    BY <2>1, Failing
<1>3. Request(req, rs).next = "ask"
  BY <1>1, <1>2
<1>4. Request(req, Append(rs, r)) = Done(r.value, <<>>)
  BY <1>3, RequestEnds
<1>5. Handle(op, a, Append(rs, r)) = Request(req, Append(rs, r))
  BY <1>1, <1>2
<1>6. QED
  BY <1>4, <1>5, StepFacts

\* A folder is found first.
LEMMA CreateFolderEnds ==
  ASSUME NEW a, WellTyped(a), NEW S, NEW rs \in Seq(S), NEW r \in S, Heard(S), r.ok,
         CreateFolder(a, rs).next = "ask", CreateFolder(a, rs).req.op \notin Reading
  PROVE  CreateFolder(a, Append(rs, r)).next = "done"
<1> DEFINE t == Append(rs, r)
           name == Arg(a, "display_name", <<>>)
           place(x) == ResolveFolderParam(Arg(a, "parent", NoRef), x)
           p == place(rs)
           q == place(t)
           req(v) == Create(v.at, [kind |-> "folder", name |-> name, hidden |-> FALSE])
           hp == CreateFolder(a, rs)
           hq == CreateFolder(a, t)
           wrong == name = <<>> \/ Bad(a, "shape")
<1>1. /\ hp = IF wrong THEN Fail("argument", rs)
              ELSE IF p.next # "done" THEN p ELSE Request(req(p.value), p.rest)
      /\ hq = IF wrong THEN Fail("argument", t)
              ELSE IF q.next # "done" THEN q ELSE Request(req(q.value), q.rest)
  BY DEF CreateFolder, Then
<1>2. Grows(p, q, r, S) /\ Keeps(p, Reading, S)
  BY Folders, ParamGrows, ParamKeeps
<1> HIDE DEF p, q, req, hp, hq, wrong
<1>3. hp.next = "ask" => ~wrong
  BY <1>1, Failing
<1>4. Closing(hp, hq, p, q, req(p.value))
  BY <1>1, <1>3 DEF Closing
<1>5. hp.next = "ask" /\ hp.req.op \notin Reading
  BY DEF hp
<1>6. hq.next = "done"
  BY <1>2, <1>4, <1>5, WriteCloses
<1>7. QED
  BY <1>6 DEF hq, t

LEMMA DeleteFolderEnds ==
  ASSUME NEW a, WellTyped(a), NEW S, NEW rs \in Seq(S), NEW r \in S, Heard(S), r.ok,
         DeleteFolder(a, rs).next = "ask", DeleteFolder(a, rs).req.op \notin Reading
  PROVE  DeleteFolder(a, Append(rs, r)).next = "done"
<1> DEFINE t == Append(rs, r)
           ref == Arg(a, "folder", NoRef)
           place(x) == ResolveFolderRef(ref, FALSE, x)
           p == place(rs)
           q == place(t)
           req(v) == Delete("folder", v.at)
           hp == DeleteFolder(a, rs)
           hq == DeleteFolder(a, t)
           wrong == ref = NoRef \/ Bad(a, "shape")
<1>1. /\ hp = IF wrong THEN Fail("argument", rs)
              ELSE IF p.next # "done" THEN p ELSE Request(req(p.value), p.rest)
      /\ hq = IF wrong THEN Fail("argument", t)
              ELSE IF q.next # "done" THEN q ELSE Request(req(q.value), q.rest)
  BY DEF DeleteFolder, Then
<1>2. ref # NoRef => Grows(p, q, r, S) /\ Keeps(p, Reading, S)
  BY Folders, RefGrows, RefKeeps
<1>3. ~wrong => ref # NoRef
  OBVIOUS
<1> HIDE DEF p, q, req, hp, hq, wrong, ref
<1>4. hp.next = "ask" => ~wrong
  BY <1>1, Failing
<1>5. Closing(hp, hq, p, q, req(p.value))
  BY <1>1, <1>4 DEF Closing
<1>6. hp.next = "ask" /\ hp.req.op \notin Reading
  BY DEF hp
<1>7. hq.next = "done"
  BY <1>2, <1>3, <1>4, <1>5, <1>6, WriteCloses
<1>8. QED
  BY <1>7 DEF hq, t

LEMMA MoveMessageEnds ==
  ASSUME NEW a, WellTyped(a), NEW S, NEW rs \in Seq(S), NEW r \in S, Heard(S), r.ok,
         MoveMessage(a, rs).next = "ask", MoveMessage(a, rs).req.op \notin Reading
  PROVE  MoveMessage(a, Append(rs, r)).next = "done"
<1> DEFINE t == Append(rs, r)
           place(x) == ResolveFolderRef(a.destination, FALSE, x)
           p == place(rs)
           q == place(t)
           req(v) == Move(MessageID(a), v.at)
           hp == MoveMessage(a, rs)
           hq == MoveMessage(a, t)
           wrong == Bad(a, "shape") \/ MessageID(a) = 0 \/ Arg(a, "destination", NoRef) = NoRef
<1>1. /\ hp = IF wrong THEN Fail("argument", rs)
              ELSE IF p.next # "done" THEN p ELSE Request(req(p.value), p.rest)
      /\ hq = IF wrong THEN Fail("argument", t)
              ELSE IF q.next # "done" THEN q ELSE Request(req(q.value), q.rest)
  BY DEF MoveMessage, Then
<1>2. ~wrong => Grows(p, q, r, S) /\ Keeps(p, Reading, S)
  BY Destination, RefGrows, RefKeeps
<1> HIDE DEF p, q, req, hp, hq, wrong
<1>3. hp.next = "ask" => ~wrong
  BY <1>1, Failing
<1>4. Closing(hp, hq, p, q, req(p.value))
  BY <1>1, <1>3 DEF Closing
<1>5. hp.next = "ask" /\ hp.req.op \notin Reading
  BY DEF hp
<1>6. hq.next = "done"
  BY <1>2, <1>3, <1>4, <1>5, WriteCloses
<1>7. QED
  BY <1>6 DEF hq, t

\* An item is read first.
LEMMA VerifyGrows ==
  ASSUME NEW id, NEW S, NEW rs \in Seq(S), NEW r \in S
  PROVE  Grows(VerifyIsDraft(id, rs), VerifyIsDraft(id, Append(rs, r)), r, S)
<1> DEFINE req == Get("message", id)
           p == Request(req, rs)
           q == Request(req, Append(rs, r))
           next(s) == IF s.next # "done" THEN s
                      ELSE IF s.value.is_draft THEN Done(s.value, s.rest)
                      ELSE Fail("not a draft", s.rest)
<1>1. VerifyIsDraft(id, rs) = next(p) /\ VerifyIsDraft(id, Append(rs, r)) = next(q)
  BY DEF VerifyIsDraft, Then
<1>2. Grows(p, q, r, S)
  BY RequestGrows
<1> HIDE DEF p, q
<1>3. CASE p.next # "done"
  <2>1. next(p) = p /\ (q.next # "done" => next(q) = q)
    BY <1>3
  <2>2. q.next = "done" => \E v : next(q) = Done(v, q.rest) \/ next(q) = Fail(v, q.rest)
    OBVIOUS
  <2> HIDE DEF next
  <2>3. q.next = "done" => next(q).rest = q.rest
    BY <2>2, StepFacts
  <2>4. QED
    BY <1>1, <1>2, <1>3, <2>1, <2>3 DEF Grows
<1>4. CASE p.next = "done"
  <2>1. p.rest \in Seq(S) /\ q.rest = Append(p.rest, r) /\ q.next = "done" /\ q.value = p.value
    BY <1>2, <1>4 DEF Grows
  <2>2. CASE p.value.is_draft
    BY <1>1, <1>4, <2>1, <2>2, DoneGrows
  <2>3. CASE ~p.value.is_draft
    BY <1>1, <1>4, <2>1, <2>3, FailGrows
  <2>4. QED
    BY <2>2, <2>3
<1>5. QED
  BY <1>3, <1>4

LEMMA UpdateDraftEnds ==
  ASSUME NEW a, NEW S, NEW rs \in Seq(S), NEW r \in S, Heard(S), r.ok,
         UpdateDraft(a, rs).next = "ask", UpdateDraft(a, rs).req.op \notin Reading
  PROVE  UpdateDraft(a, Append(rs, r)).next = "done"
<1> DEFINE t == Append(rs, r)
           p == VerifyIsDraft(MessageID(a), rs)
           q == VerifyIsDraft(MessageID(a), t)
           req == Patch("message", MessageID(a), Given(a, DraftFields))
           hp == UpdateDraft(a, rs)
           hq == UpdateDraft(a, t)
           wrong == Bad(a, "shape") \/ MessageID(a) = 0
           empty == Bad(a, "value") \/ DOMAIN a \cap DraftFields = {}
<1>1. /\ hp = IF wrong THEN Fail("argument", rs)
              ELSE IF p.next # "done" THEN p
              ELSE IF empty THEN Fail("argument", p.rest) ELSE Request(req, p.rest)
      /\ hq = IF wrong THEN Fail("argument", t)
              ELSE IF q.next # "done" THEN q
              ELSE IF empty THEN Fail("argument", q.rest) ELSE Request(req, q.rest)
  BY DEF UpdateDraft, Then
<1>2. Grows(p, q, r, S) /\ Keeps(p, Reading, S)
  BY VerifyGrows, VerifyKeeps
<1> HIDE DEF p, q, req, hp, hq, wrong, empty
<1>3. hp.next = "ask" => ~wrong /\ (p.next = "done" => ~empty)
  BY <1>1, Failing
<1>4. Closing(hp, hq, p, q, req)
  BY <1>1, <1>3 DEF Closing
<1>5. hp.next = "ask" /\ hp.req.op \notin Reading
  BY DEF hp
<1>6. hq.next = "done"
  BY <1>2, <1>4, <1>5, WriteCloses
<1>7. QED
  BY <1>6 DEF hq, t

LEMMA DeleteDraftEnds ==
  ASSUME NEW a, NEW S, NEW rs \in Seq(S), NEW r \in S, Heard(S), r.ok,
         DeleteDraft(a, rs).next = "ask", DeleteDraft(a, rs).req.op \notin Reading
  PROVE  DeleteDraft(a, Append(rs, r)).next = "done"
<1> DEFINE t == Append(rs, r)
           p == VerifyIsDraft(MessageID(a), rs)
           q == VerifyIsDraft(MessageID(a), t)
           req == Delete("message", ById(MessageID(a)))
           hp == DeleteDraft(a, rs)
           hq == DeleteDraft(a, t)
           wrong == Bad(a, "shape") \/ MessageID(a) = 0
<1>1. /\ hp = IF wrong THEN Fail("argument", rs)
              ELSE IF p.next # "done" THEN p ELSE Request(req, p.rest)
      /\ hq = IF wrong THEN Fail("argument", t)
              ELSE IF q.next # "done" THEN q ELSE Request(req, q.rest)
  BY DEF DeleteDraft, Then
<1>2. Grows(p, q, r, S) /\ Keeps(p, Reading, S)
  BY VerifyGrows, VerifyKeeps
<1> HIDE DEF p, q, req, hp, hq, wrong
<1>3. hp.next = "ask" => ~wrong
  BY <1>1, Failing
<1>4. Closing(hp, hq, p, q, req)
  BY <1>1, <1>3 DEF Closing
<1>5. hp.next = "ask" /\ hp.req.op \notin Reading
  BY DEF hp
<1>6. hq.next = "done"
  BY <1>2, <1>4, <1>5, WriteCloses
<1>7. QED
  BY <1>6 DEF hq, t

LEMMA RescheduleEnds ==
  ASSUME NEW a, NEW S, NEW rs \in Seq(S), NEW r \in S, Heard(S), r.ok,
         HandleRescheduleEvent(a, rs).next = "ask",
         HandleRescheduleEvent(a, rs).req.op \notin Reading
  PROVE  HandleRescheduleEvent(a, Append(rs, r)).next = "done"
<1> DEFINE t == Append(rs, r)
           start == Arg(a, "new_start_datetime", NoTime)
           zone  == Zone(a, "new_start_timezone")
           p == Request(Get("event", EventID(a)), rs)
           q == Request(Get("event", EventID(a)), t)
           end(v) == AddDuration(start, ComputeEventDuration(v))
           req(v) == Patch("event", EventID(a), [start  |-> EventTime(start, zone),
                                                 finish |-> EventTime(end(v), zone)])
           hp == HandleRescheduleEvent(a, rs)
           hq == HandleRescheduleEvent(a, t)
           wrong == Bad(a, "shape") \/ EventID(a) = 0 \/ start = NoTime
<1>1. /\ hp = IF wrong THEN Fail("argument", rs)
              ELSE IF p.next # "done" THEN p
              ELSE IF end(p.value) = NoTime THEN Fail("argument", p.rest)
              ELSE Request(req(p.value), p.rest)
      /\ hq = IF wrong THEN Fail("argument", t)
              ELSE IF q.next # "done" THEN q
              ELSE IF end(q.value) = NoTime THEN Fail("argument", q.rest)
              ELSE Request(req(q.value), q.rest)
  BY DEF HandleRescheduleEvent, Then
<1>2. Grows(p, q, r, S) /\ Keeps(p, Reading, S)
  BY RequestGrows, WellAsked, RequestKeeps DEF Reading
<1> HIDE DEF p, q, req, hp, hq, wrong, end, start, zone
<1>3. hp.next = "ask" => ~wrong /\ (p.next = "done" => end(p.value) # NoTime)
  BY <1>1, Failing
<1>4. Closing(hp, hq, p, q, req(p.value))
  BY <1>1, <1>3 DEF Closing
<1>5. hp.next = "ask" /\ hp.req.op \notin Reading
  BY DEF hp
<1>6. hq.next = "done"
  BY <1>2, <1>4, <1>5, WriteCloses
<1>7. QED
  BY <1>6 DEF hq, t

OnceOps == DirectOps \cup DraftOps \cup RescheduleOps
           \cup {"mail.create_folder", "mail.delete_folder", "mail.move_message"}
DeriveOps == {"mail.create_reply_draft", "mail.create_forward_draft"}

LEMMA WriteVerbs ==
  RemoveNames \cup WriteNames = OnceOps \cup DeriveOps \cup {"mail.move_messages"}
BY DEF RemoveNames, WriteNames, OnceOps, DeriveOps, DirectOps, DraftOps, RescheduleOps, CreateOps

LEMMA OnceEnds ==
  ASSUME NEW op \in OnceOps, NEW a, WellTyped(a), NEW S, NEW rs \in Seq(S), NEW r \in S, Heard(S),
         r.ok, Handle(op, a, rs).next = "ask", Handle(op, a, rs).req.op \notin Reading
  PROVE  Handle(op, a, Append(rs, r)).next = "done"
<1>1. CASE op \in DirectOps
  BY <1>1, DirectEnds
<1>2. CASE op = "mail.create_folder"
  <2>1. \A x : Handle(op, a, x) = CreateFolder(a, x)
    BY <1>2 DEF Handle
  <2>2. QED
    BY <2>1, CreateFolderEnds
<1>3. CASE op = "mail.delete_folder"
  <2>1. \A x : Handle(op, a, x) = DeleteFolder(a, x)
    BY <1>3 DEF Handle
  <2>2. QED
    BY <2>1, DeleteFolderEnds
<1>4. CASE op = "mail.move_message"
  <2>1. \A x : Handle(op, a, x) = MoveMessage(a, x)
    BY <1>4 DEF Handle
  <2>2. QED
    BY <2>1, MoveMessageEnds
<1>5. CASE op = "mail.update_draft"
  <2>1. \A x : Handle(op, a, x) = UpdateDraft(a, x)
    BY <1>5 DEF Handle
  <2>2. QED
    BY <2>1, UpdateDraftEnds
<1>6. CASE op = "mail.delete_draft"
  <2>1. \A x : Handle(op, a, x) = DeleteDraft(a, x)
    BY <1>6 DEF Handle
  <2>2. QED
    BY <2>1, DeleteDraftEnds
<1>7. CASE op \in RescheduleOps
  <2>1. \A x : Handle(op, a, x) = HandleRescheduleEvent(a, x)
    BY <1>7 DEF Handle, RescheduleOps
  <2>2. QED
    BY <2>1, RescheduleEnds
<1>8. QED
  BY <1>1, <1>2, <1>3, <1>4, <1>5, <1>6, <1>7 DEF OnceOps, DraftOps

\* A reply or a forward: once the draft is made the handler does not fail, and
\* the tag is tried once.
LEMMA DeriveSteps ==
  ASSUME NEW op \in DeriveOps, NEW a, NEW S, NEW rs \in Seq(S)
  PROVE  \/ \A x : Handle(op, a, x).next = "fail"
         \/ rs = <<>> /\ Handle(op, a, rs).next = "ask" /\ Handle(op, a, rs).req.op = "derive"
         \/ rs # <<>> /\ ~rs[1].ok /\ Handle(op, a, rs).next = "fail"
         \/ rs # <<>> /\ rs[1].ok /\ Handle(op, a, rs).next = "done"
         \/ /\ rs # <<>> /\ rs[1].ok /\ Tail(rs) = <<>> /\ Handle(op, a, rs).next = "ask"
            /\ Handle(op, a, rs).req.op = "patch"
<1> DEFINE wrong == Bad(a, "shape") \/ MessageID(a) = 0
           p == Request(Derive(MessageID(a)), rs)
           req == Patch("message", p.value.id, [tag |-> TRUE])
           t == Try(req, p.rest)
           h == Handle(op, a, rs)
<1>1. \A x : Handle(op, a, x) = DeriveDraft(a, x)
  BY DEF Handle, DeriveOps, CreateReplyDraft, CreateForwardDraft
<1>2. wrong => \A x : Handle(op, a, x).next = "fail"
  <2> HAVE wrong
  <2>1. \A x : DeriveDraft(a, x) = Fail("argument", x)
    BY DEF DeriveDraft
  <2>2. QED
    BY <1>1, <2>1, Failing
<1>3. ~wrong => h = IF p.next # "done" THEN p
                    ELSE IF ~ProvenanceTag THEN Done(p.value, p.rest)
                    ELSE IF t.next # "done" THEN t ELSE Done(p.value, t.rest)
  BY <1>1 DEF DeriveDraft, Then
<1>4. /\ rs = <<>> => p = Ask(Derive(MessageID(a)))
      /\ rs # <<>> /\ rs[1].ok => p = Done(rs[1].value, Tail(rs))
      /\ rs # <<>> /\ ~rs[1].ok => p = Fail(rs[1].value, Tail(rs))
  BY RequestSteps, FirstReply
<1>5. Derive(MessageID(a)).op = "derive" /\ req.op = "patch"
  BY Requests
<1>6. /\ p.rest = <<>> => t = Ask(req)
      /\ p.rest # <<>> => t = Done(Head(p.rest), Tail(p.rest))
  BY DEF Try
<1> HIDE DEF wrong, p, req, t, h
<1>7. CASE wrong
  BY <1>2, <1>7
<1>8. CASE ~wrong /\ rs = <<>>
  <2>1. p.next = "ask" /\ p.req.op = "derive"
    BY <1>4, <1>5, <1>8, StepFacts
  <2>2. h.next = "ask" /\ h.req.op = "derive"
    BY <1>3, <1>8, <2>1
  <2>3. QED
    BY <1>8, <2>2 DEF h
<1>9. CASE ~wrong /\ rs # <<>> /\ ~rs[1].ok
  <2>1. p.next = "fail"
    BY <1>4, <1>9, Failing
  <2>2. h.next = "fail"
    BY <1>3, <1>9, <2>1
  <2>3. QED
    BY <1>9, <2>2 DEF h
<1>10. CASE ~wrong /\ rs # <<>> /\ rs[1].ok
  <2>0. p = Done(rs[1].value, Tail(rs))
    BY <1>4, <1>10
  <2>1. p.next = "done" /\ p.rest = Tail(rs)
    BY ZenonT(60), <2>0, StepFacts
  <2>2. CASE ~ProvenanceTag
    <3>1. h.next = "done"
      BY <1>3, <1>10, <2>1, <2>2, StepFacts
    <3>2. QED
      BY <1>10, <3>1 DEF h
  <2>3. CASE ProvenanceTag /\ Tail(rs) # <<>>
    <3>1. t.next = "done"
      BY <1>6, <2>1, <2>3, StepFacts
    <3>2. h.next = "done"
      BY <1>3, <1>10, <2>1, <2>3, <3>1, StepFacts
    <3>3. QED
      BY <1>10, <2>3, <3>2 DEF h
  <2>4. CASE ProvenanceTag /\ Tail(rs) = <<>>
    <3>1. t.next = "ask" /\ t.req.op = "patch"
      BY <1>5, <1>6, <2>1, <2>4, StepFacts
    <3>2. h.next = "ask" /\ h.req.op = "patch"
      BY <1>3, <1>10, <2>1, <2>4, <3>1
    <3>3. QED
      BY <1>10, <2>4, <3>2 DEF h
  <2>5. QED
    BY <2>2, <2>3, <2>4
<1>11. QED
  BY <1>7, <1>8, <1>9, <1>10

\* The kinds of writes that the handler has made and will not make again.
Spent(op, a, rs) ==
  LET next == Handle(op, a, rs).next
  IN IF next = "done" THEN Every
     ELSE IF op \in DeriveOps /\ next = "ask" /\ rs # <<>> THEN {"derive"} ELSE {}

LEMMA OnceSpends ==
  ASSUME NEW op \in OnceOps, NEW a, WellTyped(a), NEW S, NEW rs \in Seq(S), NEW r \in S, Heard(S),
         Handle(op, a, rs).next = "ask", Handle(op, a, rs).req.op \in Every
  PROVE  /\ Spent(op, a, rs) = {}
         /\ r.ok /\ Handle(op, a, rs).req.op \notin Reading =>
              Handle(op, a, rs).req.op \in Spent(op, a, Append(rs, r))
<1>1. op \notin DeriveOps
  BY DEF OnceOps, DeriveOps, DirectOps, DraftOps, RescheduleOps, CreateOps
<1>2. r.ok /\ Handle(op, a, rs).req.op \notin Reading => Handle(op, a, Append(rs, r)).next = "done"
  BY OnceEnds
<1>3. QED
  BY <1>1, <1>2 DEF Spent

LEMMA DeriveSpends ==
  ASSUME NEW op \in DeriveOps, NEW a, NEW S, NEW rs \in Seq(S), NEW r \in S,
         Handle(op, a, rs).next = "ask"
  PROVE  /\ Handle(op, a, rs).req.op \notin Spent(op, a, rs)
         /\ Spent(op, a, rs) \subseteq Spent(op, a, Append(rs, r))
         /\ r.ok => Handle(op, a, rs).req.op \in Spent(op, a, Append(rs, r))
<1> DEFINE t == Append(rs, r)
           h == Handle(op, a, rs)
           g == Handle(op, a, t)
<1>1. t \in Seq(S) /\ t # <<>> /\ Head(t) = t[1]
  <2>1. t \in Seq(S) /\ t # <<>>
    BY OneReply
  <2>2. QED
    BY <2>1, FirstReply
<1>2. {"derive", "patch"} \subseteq Every
  BY DEF Every, Adding
<1>3. \/ rs = <<>> /\ h.req.op = "derive"
      \/ rs # <<>> /\ rs[1].ok /\ Tail(rs) = <<>> /\ h.req.op = "patch"
  BY DeriveSteps
<1>4. \/ ~t[1].ok /\ g.next = "fail"
      \/ t[1].ok /\ g.next = "done"
      \/ t[1].ok /\ Tail(t) = <<>> /\ g.next = "ask"
  <2> HIDE DEF t
  <2>1. ~\A x : Handle(op, a, x).next = "fail"
    OBVIOUS
  <2>2. QED
    BY <1>1, <2>1, DeriveSteps
<1>5. CASE rs = <<>>
  <2>1. t[1] = r /\ h.req.op = "derive" /\ Spent(op, a, rs) = {}
    BY <1>1, <1>3, <1>5, OneReply DEF Spent
  <2>2. r.ok => g.next \in {"done", "ask"}
    BY <1>4, <2>1
  <2>3. r.ok => "derive" \in Spent(op, a, t)
    BY <1>1, <1>2, <2>2 DEF Spent
  <2>4. QED
    BY <2>1, <2>3
<1>6. CASE rs # <<>>
  <2>1. /\ t[1] = rs[1] /\ rs[1].ok /\ h.req.op = "patch" /\ Tail(t) # <<>>
        /\ Spent(op, a, rs) = {"derive"}
    <3>1. Head(rs) = rs[1] /\ Tail(rs) \in Seq(S)
      BY <1>6, FirstReply
    <3>2. t[1] = rs[1] /\ Tail(t) = Append(Tail(rs), r)
      BY <1>1, <1>6, <3>1, OneReply
    <3>3. Tail(t) # <<>>
      BY <3>1, <3>2, OneReply
    <3>4. QED
      BY <1>3, <1>6, <3>2, <3>3 DEF Spent
  <2>2. g.next = "done"
    BY <1>4, <2>1
  <2>3. Spent(op, a, t) = Every
    BY <2>2 DEF Spent
  <2>4. QED
    BY <1>2, <2>1, <2>3
<1>7. QED
  BY <1>5, <1>6

-------------------------------------------------------------------------------
\* The batch of move_messages.
HasMoved(outcomes) == \E k \in DOMAIN outcomes : outcomes[k].how = "ok"
Left(outcomes) == outcomes # <<>> /\ Last(outcomes).how \in {"cancelled", "skipped"}

\* A list that goes on from another: what was moved before still is.
Extends(v, w) == IsList(v) => IsList(w) /\ (HasMoved(v) => HasMoved(w))

LEMMA StillMoved ==
  ASSUME NEW v, IsList(v), HasMoved(v), NEW o
  PROVE  HasMoved(Append(v, o))
<1>1. PICK k \in DOMAIN v : v[k].how = "ok"
  BY DEF HasMoved
<1>2. DOMAIN v = 1 .. Len(v) /\ Len(v) \in Nat
  BY ListFacts DEF IsList
<1>3. Append(v, o)[k] = v[k] /\ k \in DOMAIN Append(v, o)
  BY <1>2, AppendFacts
<1>4. QED
  BY <1>1, <1>3 DEF HasMoved

LEMMA JustMoved ==
  ASSUME NEW v, IsList(v), NEW id
  PROVE  HasMoved(Append(v, [id |-> id, how |-> "ok"]))
<1> DEFINE o == [id |-> id, how |-> "ok"]
<1>1. o.how = "ok"
  OBVIOUS
<1>2. Len(v) \in Nat
  BY DEF IsList
<1> HIDE DEF o
<1>3. Append(v, o)[Len(v) + 1] = o /\ Len(v) + 1 \in DOMAIN Append(v, o)
  BY <1>2, AppendFacts
<1>4. HasMoved(Append(v, o))
  BY <1>1, <1>3 DEF HasMoved
<1>5. QED
  BY <1>4 DEF o

LEMMA MoveNextSteps ==
  ASSUME NEW id, NEW to, NEW p, NEW S, p.next = "done", p.rest \in Seq(S)
  PROVE  LET q == MoveNext(id, to, p)
         IN /\ q.next = "ask" => p.rest = <<>> /\ ~Left(p.value)
            /\ q.next # "ask" => q.next = "done" /\ q.rest \in Seq(S) /\ Extends(p.value, q.value)
            /\ p.rest # <<>> /\ ~Left(p.value) /\ Head(p.rest).ok =>
                 q.next = "done" /\ q.value = Append(p.value, [id |-> id, how |-> "ok"])
<1> DEFINE outcome(how) == [id |-> id, how |-> how]
           try == Try(Move(id, to), p.rest)
           skipped == Append(p.value, outcome("skipped"))
           tried == Append(p.value, outcome(IF try.value.ok THEN "ok" ELSE try.value.value))
           q == MoveNext(id, to, p)
<1>1. q = IF Left(p.value) THEN Done(skipped, p.rest)
          ELSE IF try.next # "done" THEN try ELSE Done(tried, try.rest)
  BY DEF MoveNext, Then, Left
<1>2. /\ p.rest = <<>> => try = Ask(Move(id, to))
      /\ p.rest # <<>> => try = Done(Head(p.rest), Tail(p.rest))
  BY DEF Try
<1>3. try.value.ok => tried = Append(p.value, [id |-> id, how |-> "ok"])
  OBVIOUS
<1>4. Extends(p.value, skipped) /\ Extends(p.value, tried)
  <2>1. \A o : Extends(p.value, Append(p.value, o))
    BY AppendFacts, StillMoved DEF Extends
  <2>2. QED
    BY <2>1
<1> HIDE DEF try, skipped, tried, q, outcome
<1>5. CASE Left(p.value)
  <2>1. q.next = "done" /\ q.rest = p.rest /\ q.value = skipped
    BY <1>1, <1>5, StepFacts
  <2>2. QED
    BY <1>4, <1>5, <2>1 DEF q
<1>6. CASE ~Left(p.value) /\ p.rest = <<>>
  <2>1. q.next = "ask"
    BY <1>1, <1>2, <1>6, StepFacts
  <2>2. QED
    BY <1>6, <2>1 DEF q
<1>7. CASE ~Left(p.value) /\ p.rest # <<>>
  <2>0. try = Done(Head(p.rest), Tail(p.rest))
    BY <1>2, <1>7
  <2>1. try.next = "done" /\ try.value = Head(p.rest) /\ try.rest = Tail(p.rest)
    BY <2>0, StepFacts
  <2>2. q = Done(tried, try.rest)
    BY <1>1, <1>7, <2>1
  <2>3. q.next = "done" /\ q.value = tried /\ q.rest = Tail(p.rest) /\ Tail(p.rest) \in Seq(S)
    BY <1>7, <2>1, <2>2, StepFacts, FirstReply
  <2>4. QED
    BY <1>3, <1>4, <1>7, <2>1, <2>3 DEF q
<1>8. QED
  BY <1>5, <1>6, <1>7

LEMMA MoveNextGrows ==
  ASSUME NEW id, NEW to, NEW p, NEW q, NEW S, NEW r \in S, Grows(p, q, r, S),
         p.next \in {"ask", "done"}
  PROVE  Grows(MoveNext(id, to, p), MoveNext(id, to, q), r, S)
<1> DEFINE outcome(how) == [id |-> id, how |-> how]
           try(x) == Try(Move(id, to), x)
           tried(v, o) == Append(v, outcome(IF o.ok THEN "ok" ELSE o.value))
           next(s) == IF s.next # "done" THEN s
                      ELSE IF Left(s.value) THEN Done(Append(s.value, outcome("skipped")), s.rest)
                      ELSE IF try(s.rest).next # "done" THEN try(s.rest)
                      ELSE Done(tried(s.value, try(s.rest).value), try(s.rest).rest)
<1>1. MoveNext(id, to, p) = next(p) /\ MoveNext(id, to, q) = next(q)
  BY DEF MoveNext, Then, Left
<1> HIDE DEF outcome, tried
<1>2. CASE p.next # "done"
  <2>1. next(p) = p /\ (q.next # "done" => next(q) = q)
    BY <1>2
  <2>2. q.next = "done" /\ q.rest = <<>> /\ next(q).next # "ask" => next(q).rest = <<>>
    <3>1. q.rest = <<>> => try(q.rest).next = "ask"
      BY Unanswered, StepFacts
    <3> HIDE DEF try
    <3>2. QED
      BY <3>1, StepFacts
  <2>3. QED
    BY <1>1, <1>2, <2>1, <2>2 DEF Grows
<1>3. CASE p.next = "done"
  <2>1. p.rest \in Seq(S) /\ q.rest = Append(p.rest, r) /\ q.next = "done" /\ q.value = p.value
    BY <1>3 DEF Grows
  <2>2. CASE Left(p.value)
    BY <1>1, <1>3, <2>1, <2>2, DoneGrows
  <2>3. CASE ~Left(p.value)
    <3>1. Grows(try(p.rest), try(q.rest), r, S)
      BY <2>1, RequestGrows
    <3> HIDE DEF try
    <3>2. CASE try(p.rest).next # "done"
      <4>1. next(p) = try(p.rest)
        BY <1>3, <2>3, <3>2
      <4>2. /\ try(q.rest).next # "done" => next(q) = try(q.rest)
            /\ try(q.rest).next = "done" => next(q).rest = try(q.rest).rest
        BY <2>1, <2>3, StepFacts
      <4>3. QED
        BY <1>1, <3>1, <3>2, <4>1, <4>2 DEF Grows
    <3>3. CASE try(p.rest).next = "done"
      <4>1. /\ try(p.rest).rest \in Seq(S) /\ try(q.rest).rest = Append(try(p.rest).rest, r)
            /\ try(q.rest).next = "done" /\ try(q.rest).value = try(p.rest).value
        BY <3>1, <3>3 DEF Grows
      <4>2. /\ next(p) = Done(tried(p.value, try(p.rest).value), try(p.rest).rest)
            /\ next(q) = Done(tried(p.value, try(p.rest).value), Append(try(p.rest).rest, r))
        BY <1>3, <2>1, <2>3, <3>3, <4>1
      <4>3. QED
        BY <1>1, <4>1, <4>2, DoneGrows
    <3>4. QED
      BY <3>2, <3>3
  <2>4. QED
    BY <2>2, <2>3
<1>4. QED
  BY <1>2, <1>3

Batch(ids, to, rs) == CHOOSE g : Moves(ids, to, rs, Len(ids), g)
SomeMoved(ids, to, rs) ==
  \E n \in 0 .. Len(ids) :
    Batch(ids, to, rs)[n].next = "done" /\ HasMoved(Batch(ids, to, rs)[n].value)

LEMMA BatchSteps ==
  ASSUME NEW ids, Len(ids) \in Nat, NEW to, NEW rs
  PROVE  LET g == Batch(ids, to, rs)
         IN /\ g[0] = Done(<<>>, rs)
            /\ \A n \in 0 .. Len(ids) :
                 n + 1 \in 0 .. Len(ids) => g[n + 1] = MoveNext(ids[n + 1], to, g[n])
            /\ MoveEach(ids, to, rs) = g[Len(ids)]
<1> DEFINE g == CHOOSE g : Moves(ids, to, rs, Len(ids), g)
<1>1. Moves(ids, to, rs, Len(ids), g)
  BY MovesRun
<1>2. MoveEach(ids, to, rs) = g[Len(ids)]
  BY DEF MoveEach, Moves
<1> HIDE DEF g
<1>3. g[0] = Done(<<>>, rs)
  BY <1>1 DEF Moves
<1>4. ASSUME NEW n \in 0 .. Len(ids), n + 1 \in 0 .. Len(ids)
      PROVE  g[n + 1] = MoveNext(ids[n + 1], to, g[n])
  BY <1>1, <1>4 DEF Moves
<1>5. QED
  BY <1>2, <1>3, <1>4 DEF Batch, g

\* A batch does not fail; what it has done is a list that only grows.
LEMMA BatchLists ==
  ASSUME NEW ids, Len(ids) \in Nat, NEW to, NEW S, NEW rs \in Seq(S)
  PROVE  \A n \in 0 .. Len(ids) :
           /\ Batch(ids, to, rs)[n].next \in {"ask", "done"}
           /\ Batch(ids, to, rs)[n].next = "done" =>
                Batch(ids, to, rs)[n].rest \in Seq(S) /\ IsList(Batch(ids, to, rs)[n].value)
<1> DEFINE g == Batch(ids, to, rs)
           Fine(p) == /\ p.next \in {"ask", "done"}
                      /\ p.next = "done" => p.rest \in Seq(S) /\ IsList(p.value)
           P == {n \in 0 .. Len(ids) : Fine(g[n])}
<1>1. /\ g[0] = Done(<<>>, rs)
      /\ \A n \in 0 .. Len(ids) :
           n + 1 \in 0 .. Len(ids) => g[n + 1] = MoveNext(ids[n + 1], to, g[n])
  BY BatchSteps
<1> HIDE DEF g
<1>2. 0 \in P
  BY <1>1, StepFacts, EmptyList
<1>3. ASSUME NEW n \in 0 .. Len(ids), n + 1 \in 0 .. Len(ids), n \in P
      PROVE  n + 1 \in P
  <2> DEFINE q == MoveNext(ids[n + 1], to, g[n])
  <2>1. Fine(g[n]) /\ g[n + 1] = q
    BY <1>1, <1>3
  <2>2. CASE g[n].next # "done"
    <3>1. q = g[n]
      BY <2>2 DEF MoveNext, Then
    <3>2. QED
      BY <1>3, <2>1, <3>1
  <2>3. CASE g[n].next = "done"
    <3>1. g[n].rest \in Seq(S) /\ IsList(g[n].value)
      BY <2>1, <2>3
    <3>2. q.next # "ask" =>
            q.next = "done" /\ q.rest \in Seq(S) /\ Extends(g[n].value, q.value)
      BY <2>3, <3>1, MoveNextSteps
    <3> HIDE DEF q
    <3>3. q.next # "ask" => IsList(q.value)
      BY <3>1, <3>2 DEF Extends
    <3>4. QED
      BY <1>3, <2>1, <3>2, <3>3
  <2>4. QED
    BY <2>2, <2>3
<1>4. \A n \in 0 .. Len(ids) : n \in P
  <2> HIDE DEF P
  <2>1. QED
    BY <1>2, <1>3, UpTo
<1>5. QED
  BY <1>4 DEF g

\* A message that was moved is in the account of the whole batch.
LEMMA MovedIsReported ==
  ASSUME NEW ids, Len(ids) \in Nat, NEW to, NEW S, NEW rs \in Seq(S), SomeMoved(ids, to, rs),
         MoveEach(ids, to, rs).next = "done"
  PROVE  HasMoved(MoveEach(ids, to, rs).value)
<1> DEFINE g == Batch(ids, to, rs)
           N == Len(ids)
           Fine(p) == p.next = "done" => HasMoved(p.value)
<1>1. /\ g[0] = Done(<<>>, rs)
      /\ \A n \in 0 .. N : n + 1 \in 0 .. N => g[n + 1] = MoveNext(ids[n + 1], to, g[n])
      /\ MoveEach(ids, to, rs) = g[N]
  BY BatchSteps
<1>2. \A n \in 0 .. N : /\ g[n].next \in {"ask", "done"}
                        /\ g[n].next = "done" => g[n].rest \in Seq(S) /\ IsList(g[n].value)
  BY BatchLists
<1>3. PICK m \in 0 .. N : g[m].next = "done" /\ HasMoved(g[m].value)
  BY DEF SomeMoved
<1> HIDE DEF g
<1> DEFINE P == {n \in m .. N : Fine(g[n])}
<1>4. m \in P
  BY <1>3
<1>5. ASSUME NEW n \in m .. N, n + 1 \in m .. N, n \in P
      PROVE  n + 1 \in P
  <2> DEFINE q == MoveNext(ids[n + 1], to, g[n])
  <2>1. Fine(g[n]) /\ n \in 0 .. N /\ n + 1 \in 0 .. N
    BY <1>5
  <2>2. g[n + 1] = q
    BY <1>1, <2>1
  <2>3. CASE g[n].next # "done"
    <3>1. q = g[n]
      BY <2>3 DEF MoveNext, Then
    <3>2. QED
      BY <1>5, <2>2, <2>3, <3>1
  <2>4. CASE g[n].next = "done"
    <3>1. g[n].rest \in Seq(S) /\ IsList(g[n].value) /\ HasMoved(g[n].value)
      BY <1>2, <2>1, <2>4
    <3>2. q.next # "ask" => Extends(g[n].value, q.value)
      BY <2>4, <3>1, MoveNextSteps
    <3> HIDE DEF q
    <3>3. q.next # "ask" => HasMoved(q.value)
      BY <3>1, <3>2 DEF Extends
    <3>4. QED
      BY <1>5, <2>2, <3>3
  <2>5. QED
    BY <2>3, <2>4
<1>6. \A n \in m .. N : n \in P
  <2> HIDE DEF P
  <2>1. m \in Nat /\ N \in Nat
    OBVIOUS
  <2>2. QED
    BY <1>4, <1>5, <2>1, UpTo
<1>7. QED
  BY <1>1, <1>6

LEMMA BatchGrows ==
  ASSUME NEW ids, Len(ids) \in Nat, NEW to, NEW S, NEW rs \in Seq(S), NEW r \in S
  PROVE  \A n \in 0 .. Len(ids) :
           Grows(Batch(ids, to, rs)[n], Batch(ids, to, Append(rs, r))[n], r, S)
<1> DEFINE g == Batch(ids, to, rs)
           h == Batch(ids, to, Append(rs, r))
           N == Len(ids)
           P == {n \in 0 .. N : Grows(g[n], h[n], r, S)}
<1>1. /\ g[0] = Done(<<>>, rs) /\ h[0] = Done(<<>>, Append(rs, r))
      /\ \A n \in 0 .. N : n + 1 \in 0 .. N => /\ g[n + 1] = MoveNext(ids[n + 1], to, g[n])
                                               /\ h[n + 1] = MoveNext(ids[n + 1], to, h[n])
  BY BatchSteps
<1>2. \A n \in 0 .. N : g[n].next \in {"ask", "done"}
  BY BatchLists
<1> HIDE DEF g, h
<1>3. 0 \in P
  BY <1>1, DoneGrows
<1>4. ASSUME NEW n \in 0 .. N, n + 1 \in 0 .. N, n \in P
      PROVE  n + 1 \in P
  BY <1>1, <1>2, <1>4, MoveNextGrows
<1>5. \A n \in 0 .. N : n \in P
  <2> HIDE DEF P
  <2>1. QED
    BY <1>3, <1>4, UpTo
<1>6. QED
  BY <1>5 DEF g, h

\* A move that is asked for and served is in it, now and later.
LEMMA BatchMoves ==
  ASSUME NEW ids, Len(ids) \in Nat, NEW to, NEW S, NEW rs \in Seq(S), NEW r \in S,
         SomeMoved(ids, to, rs) \/ (r.ok /\ MoveEach(ids, to, rs).next = "ask")
  PROVE  SomeMoved(ids, to, Append(rs, r))
<1> DEFINE g == Batch(ids, to, rs)
           h == Batch(ids, to, Append(rs, r))
           N == Len(ids)
<1>1. /\ g[0] = Done(<<>>, rs) /\ MoveEach(ids, to, rs) = g[N]
      /\ \A n \in 0 .. N : n + 1 \in 0 .. N => /\ g[n + 1] = MoveNext(ids[n + 1], to, g[n])
                                               /\ h[n + 1] = MoveNext(ids[n + 1], to, h[n])
  BY BatchSteps
<1>2. \A n \in 0 .. N : /\ g[n].next \in {"ask", "done"}
                        /\ g[n].next = "done" => g[n].rest \in Seq(S) /\ IsList(g[n].value)
  BY BatchLists
<1>3. \A n \in 0 .. N : Grows(g[n], h[n], r, S)
  BY BatchGrows
<1>4. CASE SomeMoved(ids, to, rs)
  <2>1. PICK n \in 0 .. N : g[n].next = "done" /\ HasMoved(g[n].value)
    BY <1>4 DEF SomeMoved
  <2>2. h[n].next = "done" /\ h[n].value = g[n].value
    BY <1>3, <2>1 DEF Grows
  <2>3. QED
    BY <2>1, <2>2 DEF SomeMoved
<1>5. CASE r.ok /\ MoveEach(ids, to, rs).next = "ask"
  <2> DEFINE Q == {n \in 0 .. N : g[n].next = "ask"}
  <2> HIDE DEF g, h
  <2>1. PICK m \in Q : \A k \in Q : m <= k
    <3>1. Q \in SUBSET Nat /\ N \in Q
      BY <1>1, <1>5
    <3>2. QED
      BY <3>1, LeastNumber
  <2>2. m # 0
    <3>1. g[0].next = "done"
      BY <1>1, StepFacts
    <3>2. QED
      BY <2>1, <3>1
  <2> DEFINE n == m - 1
  <2>3. n \in 0 .. N /\ n + 1 = m /\ n \notin Q
    BY <2>1, <2>2
  <2>4. g[n].next = "done" /\ g[n].rest \in Seq(S) /\ IsList(g[n].value)
    BY <1>2, <2>3
  <2>5. g[m].next = "ask" /\ m \in 0 .. N
    BY <2>1
  <2>6. g[m] = MoveNext(ids[m], to, g[n]) /\ h[m] = MoveNext(ids[m], to, h[n])
    BY <1>1, <2>3, <2>5
  <2> HIDE DEF n, Q
  <2>7. g[n].rest = <<>> /\ ~Left(g[n].value)
    <3> DEFINE p == g[n]
    <3>1. p.next = "done" /\ p.rest \in Seq(S) /\ MoveNext(ids[m], to, p).next = "ask"
      BY <2>4, <2>5, <2>6
    <3> HIDE DEF p
    <3>2. p.rest = <<>> /\ ~Left(p.value)
      BY <3>1, MoveNextSteps
    <3>3. QED
      BY <3>2 DEF p
  <2>8. /\ h[n].next = "done" /\ h[n].value = g[n].value /\ h[n].rest = Append(<<>>, r)
    BY <1>3, <2>3, <2>4, <2>7 DEF Grows
  <2>9. h[n].rest \in Seq(S) /\ h[n].rest # <<>> /\ Head(h[n].rest) = r
    BY <2>4, <2>7, <2>8, OneReply
  <2>10. h[m].next = "done" /\ h[m].value = Append(g[n].value, [id |-> ids[m], how |-> "ok"])
    <3> DEFINE p == h[n]
    <3>1. p.next = "done" /\ p.rest \in Seq(S) /\ p.rest # <<>> /\ Head(p.rest).ok /\ ~Left(p.value)
      BY <1>5, <2>7, <2>8, <2>9
    <3> HIDE DEF p
    <3>2. /\ MoveNext(ids[m], to, p).next = "done"
          /\ MoveNext(ids[m], to, p).value = Append(p.value, [id |-> ids[m], how |-> "ok"])
      BY <3>1, MoveNextSteps
    <3>3. QED
      BY <2>6, <2>8, <3>2 DEF p
  <2>11. HasMoved(h[m].value)
    BY <2>4, <2>10, JustMoved
  <2>12. QED
    BY <2>5, <2>10, <2>11 DEF SomeMoved, h
<1>6. QED
  BY <1>4, <1>5

AnyMoved(a, rs) ==
  LET ids   == ParseMessageIDs(Arg(a, "message_ids", <<>>))
      place == ResolveFolderRef(a.destination, FALSE, rs)
  IN /\ Len(ids) \in 1..MaxBatch /\ Arg(a, "destination", NoRef) # NoRef
     /\ place.next = "done" /\ SomeMoved(ids, place.value.at, place.rest)

\* Once a message of the batch has moved the call does not fail.
LEMMA MovesEnd ==
  ASSUME NEW a, WellTyped(a), NEW S, NEW rs \in Seq(S), Heard(S), AnyMoved(a, rs),
         MoveMessages(a, rs).next = "fail"
  PROVE  Bad(a, "shape")
<1> DEFINE ids   == ParseMessageIDs(Arg(a, "message_ids", <<>>))
           place == ResolveFolderRef(a.destination, FALSE, rs)
           batch == MoveEach(ids, place.value.at, place.rest)
           why   == IF \E k \in DOMAIN batch.value : batch.value[k].how = "auth" THEN "auth"
                    ELSE "none moved"
           h     == MoveMessages(a, rs)
<1> SUFFICES ASSUME ~Bad(a, "shape") PROVE FALSE
  OBVIOUS
<1>1. /\ Len(ids) \in 1..MaxBatch /\ Arg(a, "destination", NoRef) # NoRef
      /\ place.next = "done" /\ SomeMoved(ids, place.value.at, place.rest)
  BY DEF AnyMoved
<1>2. h = IF batch.next # "done" THEN batch
          ELSE IF HasMoved(batch.value) THEN Done(batch.value, batch.rest) ELSE Fail(why, batch.rest)
  BY <1>1 DEF MoveMessages, Then, HasMoved
<1>3. place.rest \in Seq(S)
  BY <1>1, Destination, RefKeeps DEF Keeps
<1>4. Len(ids) \in Nat
  BY <1>1
<1>5. batch.next \in {"ask", "done"}
  <2> DEFINE g == Batch(ids, place.value.at, place.rest)
             N == Len(ids)
  <2>1. batch = g[N]
    <3> HIDE DEF ids, place
    <3>1. QED
      BY <1>4, BatchSteps
  <2>2. \A n \in 0 .. N : g[n].next \in {"ask", "done"}
    <3> HIDE DEF ids, place
    <3>1. QED
      BY <1>3, <1>4, BatchLists
  <2>3. N \in 0 .. N
    BY <1>4
  <2> HIDE DEF g, N, batch
  <2>4. QED
    BY <2>1, <2>2, <2>3
<1>6. batch.next = "done" => HasMoved(batch.value)
  <2> HIDE DEF ids, place
  <2>1. QED
    BY <1>1, <1>3, <1>4, MovedIsReported
<1> HIDE DEF batch, why
<1>7. h.next # "fail"
  BY <1>2, <1>5, <1>6, StepFacts
<1>8. QED
  BY <1>7

LEMMA MovesStay ==
  ASSUME NEW a, WellTyped(a), NEW S, NEW rs \in Seq(S), NEW r \in S, Heard(S),
         MoveMessages(a, rs).next = "ask",
         AnyMoved(a, rs) \/ (r.ok /\ MoveMessages(a, rs).req.op \notin Reading)
  PROVE  AnyMoved(a, Append(rs, r))
<1> DEFINE ids   == ParseMessageIDs(Arg(a, "message_ids", <<>>))
           p     == ResolveFolderRef(a.destination, FALSE, rs)
           q     == ResolveFolderRef(a.destination, FALSE, Append(rs, r))
           batch == MoveEach(ids, p.value.at, p.rest)
           wrong == Bad(a, "shape") \/ Len(ids) \notin 1..MaxBatch \/ Arg(a, "destination", NoRef) = NoRef
           why   == IF \E k \in DOMAIN batch.value : batch.value[k].how = "auth" THEN "auth"
                    ELSE "none moved"
           h     == MoveMessages(a, rs)
<1>1. h = IF wrong THEN Fail("argument", rs)
          ELSE IF p.next # "done" THEN p
          ELSE IF batch.next # "done" THEN batch
          ELSE IF HasMoved(batch.value) THEN Done(batch.value, batch.rest) ELSE Fail(why, batch.rest)
  BY DEF MoveMessages, Then, HasMoved
<1>2. h.next = "ask" /\ (AnyMoved(a, rs) \/ (r.ok /\ h.req.op \notin Reading))
  OBVIOUS
<1>3. ~wrong => Grows(p, q, r, S) /\ Keeps(p, Reading, S)
  BY Destination, RefGrows, RefKeeps
<1>4. ~wrong => Len(ids) \in Nat /\ Len(ids) \in 1..MaxBatch /\ Arg(a, "destination", NoRef) # NoRef
  OBVIOUS
<1>5. AnyMoved(a, rs) => p.next = "done" /\ SomeMoved(ids, p.value.at, p.rest)
  BY DEF AnyMoved
<1>6. /\ Len(ids) \in 1..MaxBatch /\ Arg(a, "destination", NoRef) # NoRef
      /\ q.next = "done" /\ SomeMoved(ids, q.value.at, q.rest)
      => AnyMoved(a, Append(rs, r))
  BY DEF AnyMoved
<1> HIDE DEF ids, p, q, wrong, why, h
<1>7. ~wrong
  BY <1>1, <1>2, Failing
<1>8. p.next = "done"
  <2>1. p.next = "ask" => p.req.op \in Reading
    BY <1>3, <1>7 DEF Keeps, Asks
  <2>2. p.next # "done" => h = p
    BY <1>1, <1>7
  <2>3. QED
    BY <1>2, <1>5, <2>1, <2>2
<1>9. p.rest \in Seq(S) /\ q.rest = Append(p.rest, r) /\ q.next = "done" /\ q.value = p.value
  BY <1>3, <1>7, <1>8 DEF Grows
<1>10. SomeMoved(ids, p.value.at, p.rest) \/ (r.ok /\ batch.next = "ask")
  <2> HIDE DEF batch
  <2>1. batch.next = "ask"
    BY <1>1, <1>2, <1>7, <1>8, StepFacts
  <2>2. QED
    BY <1>2, <1>5, <2>1
<1>11. SomeMoved(ids, p.value.at, Append(p.rest, r))
  BY <1>4, <1>7, <1>9, <1>10, BatchMoves
<1>12. QED
  BY SMTT(30), <1>4, <1>6, <1>7, <1>9, <1>11

-------------------------------------------------------------------------------
\* The call cannot fail any more: what it was made for has been done.
Sure(op, a, rs) ==
  IF op = "mail.move_messages" THEN AnyMoved(a, rs) /\ ~Bad(a, "shape") ELSE Spent(op, a, rs) # {}

LEMMA SureSteps ==
  ASSUME NEW c \in Calls, IsOperation(c.op), NEW S, NEW rs \in Seq(S), Heard(S)
  PROVE  /\ Sure(c.op, c.args, rs) => Handle(c.op, c.args, rs).next # "fail"
         /\ \A r \in S :
              Handle(c.op, c.args, rs).next = "ask"
              /\ (Sure(c.op, c.args, rs) \/ (r.ok /\ Handle(c.op, c.args, rs).req.op \notin Reading))
              => Sure(c.op, c.args, Append(rs, r))
<1> DEFINE op == c.op
           a == c.args
<1>1. WellTyped(a) /\ op \in ReadNames \cup OnceOps \cup DeriveOps \cup {"mail.move_messages"}
  BY CallVerb, WriteVerbs
<1>2. Handle(op, a, rs).next = "ask" => Handle(op, a, rs).req.op \in Every
  BY CallKeeps DEF Keeps, Asks
<1> HIDE DEF op, a
<1>3. CASE op = "mail.move_messages"
  <2>1. \A x : Handle(op, a, x) = MoveMessages(a, x)
    BY <1>3 DEF Handle
  <2>2. AnyMoved(a, rs) /\ ~Bad(a, "shape") => MoveMessages(a, rs).next # "fail"
    BY <1>1, MovesEnd
  <2>3. MoveMessages(a, rs).next = "ask" => ~Bad(a, "shape")
    <3>1. Bad(a, "shape") => MoveMessages(a, rs) = Fail("argument", rs)
      BY DEF MoveMessages
    <3>2. QED
      BY <3>1, Failing
  <2>4. ASSUME NEW r \in S, MoveMessages(a, rs).next = "ask",
               AnyMoved(a, rs) \/ (r.ok /\ MoveMessages(a, rs).req.op \notin Reading)
        PROVE  AnyMoved(a, Append(rs, r))
    BY <1>1, <2>4, MovesStay
  <2>5. QED
    BY <1>3, <2>1, <2>2, <2>3, <2>4 DEF Sure, op, a
<1>4. CASE op \in ReadNames
  <2>1. op # "mail.move_messages" /\ op \notin DeriveOps
    BY <1>4 DEF ReadNames, DeriveOps
  <2>2. Handle(op, a, rs).next = "ask" => Handle(op, a, rs).req.op \in Reading
    BY <1>1, <1>4, ReadsKeep DEF Keeps, Asks
  <2>3. Sure(op, a, rs) => Handle(op, a, rs).next = "done"
    BY <2>1 DEF Sure, Spent
  <2>4. QED
    BY <2>2, <2>3 DEF op, a
<1>5. CASE op \in OnceOps
  <2>1. op # "mail.move_messages"
    BY <1>5 DEF OnceOps, DirectOps, DraftOps, RescheduleOps, CreateOps
  <2>2. Sure(op, a, rs) => Handle(op, a, rs).next \in {"done", "ask"}
    BY <2>1 DEF Sure, Spent
  <2>3. ASSUME NEW r \in S, Handle(op, a, rs).next = "ask"
        PROVE  /\ Spent(op, a, rs) = {}
               /\ r.ok /\ Handle(op, a, rs).req.op \notin Reading =>
                    Handle(op, a, rs).req.op \in Spent(op, a, Append(rs, r))
    BY <1>1, <1>2, <1>5, <2>3, OnceSpends
  <2>4. QED
    BY <2>1, <2>2, <2>3 DEF Sure, op, a
<1>6. CASE op \in DeriveOps
  <2>1. op # "mail.move_messages"
    BY <1>6 DEF DeriveOps
  <2>2. Sure(op, a, rs) => Handle(op, a, rs).next \in {"done", "ask"}
    BY <2>1 DEF Sure, Spent
  <2>3. ASSUME NEW r \in S, Handle(op, a, rs).next = "ask"
        PROVE  /\ Spent(op, a, rs) \subseteq Spent(op, a, Append(rs, r))
               /\ r.ok => Handle(op, a, rs).req.op \in Spent(op, a, Append(rs, r))
    BY <1>6, <2>3, DeriveSpends
  <2>4. QED
    BY <2>1, <2>2, <2>3 DEF Sure, op, a
<1>7. QED
  BY <1>1, <1>3, <1>4, <1>5, <1>6

-------------------------------------------------------------------------------
LEMMA LostIsCount ==
  ASSUME TypeOK
  PROVE  IsList(applied) /\ lost \in Nat
<1>1. IsList(applied)
  BY DEF TypeOK
<1>2. lost \in 0 .. Len(applied)
  BY DEF TypeOK
<1>3. QED
  BY <1>1, <1>2 DEF IsList

\* What a request leaves behind: no change, a change that nobody reported, or a
\* change and the reply to it.
LEMMA SendsCases ==
  ASSUME TypeOK, Sends
  PROVE  /\ \/ UNCHANGED <<applied, lost>>
            \/ Wrote /\ lost' = lost + 1
            \/ Wrote /\ lost' = lost /\ got' = Append(got, Reply(box, Step.req))
         /\ Wrote => Reply(box, Step.req).ok
<1>0. Wrote => Reply(box, Step.req).ok
  BY DEF Wrote, Reply
<1>1. CASE Serve
  <2>1. Apply(Step.req, TRUE, FALSE) /\ got' = Append(got, Reply(box, Step.req))
    BY <1>1 DEF Serve, Return
  <2>2. UNCHANGED <<applied, lost>> \/ (Wrote /\ lost' = lost + 0)
    BY <2>1 DEF Apply, Wrote, Reading
  <2>3. lost + 0 = lost
    BY LostIsCount
  <2>4. QED
    BY <1>0, <2>1, <2>2, <2>3
<1>2. CASE Throttle \/ TimeOut \/ Leave
  <2>1. \E arrived \in BOOLEAN : Apply(Step.req, arrived, TRUE)
    BY <1>2 DEF Throttle, TimeOut, Leave
  <2>2. UNCHANGED <<applied, lost>> \/ (Wrote /\ lost' = lost + 1)
    BY <2>1 DEF Apply, Wrote, Reading
  <2>3. QED
    BY <1>0, <2>2
<1>3. CASE Unauthorized \/ Abandon
  BY <1>0, <1>3 DEF Unauthorized, Abandon
<1>4. QED
  BY <1>1, <1>2, <1>3 DEF Sends

\* The replies so far, and one more.
LEMMA ListOf ==
  ASSUME NEW s, IsList(s), NEW S, \A k \in 1 .. Len(s) : s[k] \in S
  PROVE  s \in Seq(S)
<1>1. Len(s) \in Nat /\ s = [k \in 1 .. Len(s) |-> s[k]]
  BY DEF IsList
<1> DEFINE n == Len(s)
<1>2. \A k \in 1 .. n : s[k] \in S
  OBVIOUS
<1> HIDE DEF n
<1>3. [k \in 1 .. n |-> s[k]] \in Seq(S)
  BY <1>1, <1>2 DEF n
<1>4. QED
  BY <1>1, <1>3 DEF n

LEMMA Hearing ==
  ASSUME TypeOK, RightAccount, phase = "run", NEW r, ~r.ok => r.value # "no account selected"
  PROVE  LET S == {got[k] : k \in 1 .. Len(got)} \cup {r} IN got \in Seq(S) /\ r \in S /\ Heard(S)
<1> DEFINE S == {got[k] : k \in 1 .. Len(got)} \cup {r}
<1>1. IsList(got)
  BY WhileRunning
<1>2. got \in Seq({got[k] : k \in 1 .. Len(got)}) /\ DOMAIN got = 1 .. Len(got)
  BY <1>1, ListFacts
<1>3. got \in Seq(S)
  <2>1. \A k \in 1 .. Len(got) : got[k] \in S
    OBVIOUS
  <2> HIDE DEF S
  <2>2. QED
    BY <1>1, <2>1, ListOf
<1>4. Heard(S)
  <2>1. \A k \in DOMAIN got : ~got[k].ok => got[k].value # "no account selected"
    BY DEF RightAccount
  <2>2. \A x \in S : x = r \/ \E k \in DOMAIN got : x = got[k]
    BY <1>2
  <2> HIDE DEF S
  <2>3. QED
    BY <2>1, <2>2 DEF Heard
<1>5. QED
  BY <1>3, <1>4

SureNow == Sure(call.op, Args, got)

LEMMA SureAhead ==
  ASSUME TypeOK, RightAccount, phase = "run"
  PROVE  /\ SureNow => Step.next # "fail"
         /\ \A r : /\ Asking /\ (~r.ok => r.value # "no account selected")
                   /\ SureNow \/ (r.ok /\ Step.req.op \notin Reading)
                   => Sure(call.op, Args, Append(got, r))
<1> DEFINE h == Handle(call.op, Args, got)
<1>1. call \in Calls /\ IsOperation(call.op)
  BY WhileRunning
<1>2. Step = h /\ (Asking => h.next = "ask")
  BY DEF Step, Args, Asking
<1>3. ASSUME NEW r, ~r.ok => r.value # "no account selected"
      PROVE  /\ SureNow => h.next # "fail"
             /\ h.next = "ask" /\ (SureNow \/ (r.ok /\ h.req.op \notin Reading))
                => Sure(call.op, Args, Append(got, r))
  <2> DEFINE S == {got[k] : k \in 1 .. Len(got)} \cup {r}
  <2>1. got \in Seq(S) /\ r \in S /\ Heard(S)
    BY <1>3, Hearing
  <2> HIDE DEF S
  <2>2. QED
    BY <1>1, <2>1, SureSteps DEF SureNow, Args
<1> HIDE DEF h
<1>4. SureNow => h.next # "fail"
  <2>1. Refused("sign in").value # "no account selected"
    BY DEF Refused
  <2>2. QED
    BY <1>3, <2>1
<1>5. QED
  BY <1>2, <1>3, <1>4

\* As long as every reply has come back, a run of the handler that has changed
\* something will not fail, and between the runs nothing has been changed.
CleanInv ==
  /\ lost = 0 /\ phase = "run" /\ applied # <<>> => SureNow
  /\ lost = 0 /\ phase \in {"resolve", "enter", "reauth"} => applied = <<>>
  /\ FailureMeansUntouched

LEMMA SendsClean ==
  ASSUME TypeOK, RightAccount, CleanInv, Sends
  PROVE  CleanInv'
<1>1. Asking /\ phase = "run" /\ UNCHANGED <<call, phase>>
  BY NewReply DEF Asking
<1>2. lost \in Nat
  BY LostIsCount
<1>3. ~Answered' /\ phase' = "run"
  BY <1>1 DEF Answered
<1>4. ASSUME lost' = 0, applied' # <<>>
      PROVE  Sure(call.op, Args, got')
  <2>1. CASE UNCHANGED <<applied, lost>>
    <3>1. SureNow
      BY <1>1, <1>4, <2>1 DEF CleanInv
    <3>2. CASE got' = got
      BY <3>1, <3>2 DEF SureNow
    <3>3. CASE \E r : got' = Append(got, r) /\ (~r.ok => r.value # "no account selected")
      BY <1>1, <3>1, <3>3, SureAhead
    <3>4. QED
      BY <3>2, <3>3, SendsFrame
  <2>2. CASE Wrote /\ lost' = lost + 1
    BY <1>2, <1>4, <2>2
  <2>3. CASE Wrote /\ lost' = lost /\ got' = Append(got, Reply(box, Step.req))
    <3> DEFINE r == Reply(box, Step.req)
    <3>1. r.ok /\ Step.req.op \notin Reading /\ got' = Append(got, r)
      BY <2>3, SendsCases DEF Wrote
    <3> HIDE DEF r
    <3>2. QED
      BY <1>1, <3>1, SureAhead
  <2>4. QED
    BY <2>1, <2>2, <2>3, SendsCases
<1>5. lost' = 0 /\ applied' # <<>> => SureNow'
  <2>1. SureNow' = Sure(call.op, Args, got')
    BY <1>1 DEF SureNow, Args
  <2>2. QED
    BY <1>4, <2>1
<1>6. FailureMeansUntouched'
  BY <1>3 DEF FailureMeansUntouched
<1>7. QED
  BY <1>3, <1>5, <1>6 DEF CleanInv

LEMMA OthersClean ==
  ASSUME TypeOK, RightAccount, ReadInv, CleanInv,
         \/ Receive \/ Resolve \/ Enter \/ Conclude \/ SignedIn \/ NotSignedIn
         \/ Edit \/ Logout \/ Repeat \/ UNCHANGED vars
  PROVE  CleanInv'
<1>1. CASE Receive
  <2>1. applied' = <<>> /\ phase' # "run"
    <3>1. phase' = "resolve" \/ phase' = "answered"
      BY <1>1 DEF Receive, Answer
    <3>2. applied' = <<>>
      BY <1>1 DEF Receive, TypeOK
    <3>3. QED
      BY <3>1, <3>2
  <2>2. QED
    BY <2>1 DEF CleanInv, FailureMeansUntouched
<1>2. CASE Resolve \/ Enter \/ SignedIn \/ NotSignedIn
  <2>1. lost = 0 => applied = <<>>
    BY <1>2 DEF Resolve, Enter, SignedIn, NotSignedIn, CleanInv
  <2>2. UNCHANGED <<lost, applied>>
    BY <1>2 DEF Resolve, Enter, SignedIn, NotSignedIn
  <2>3. QED
    BY <2>1, <2>2 DEF CleanInv, FailureMeansUntouched
<1>3. CASE Conclude
  <2> DEFINE end == [ok |-> Step.next = "done", value |-> Step.value]
  <2>1. end.ok = (Step.next = "done")
    OBVIOUS
  <2>2. /\ phase = "run" /\ ~Asking /\ UNCHANGED <<lost, applied>>
        /\ \/ Step.next = "fail" /\ phase' = "reauth"
           \/ phase' = "answered" /\ answer' = end
    BY <1>3 DEF Conclude, Answer, NeedsSignIn
  <2> HIDE DEF end
  <2>3. Step.next \in {"fail", "done"}
    BY <2>2, StepKeeps DEF Asking
  <2>4. lost = 0 /\ applied # <<>> => Step.next = "done"
    BY <2>2, <2>3, SureAhead DEF CleanInv
  <2>5. lost' = 0 /\ phase' = "reauth" => applied' = <<>>
    BY <2>2, <2>4
  <2>6. FailureMeansUntouched'
    BY <2>1, <2>2, <2>4 DEF FailureMeansUntouched, Answered
  <2>7. QED
    BY <2>2, <2>5, <2>6 DEF CleanInv
<1>4. CASE Edit \/ Logout \/ UNCHANGED vars
  <2>1. UNCHANGED <<call, phase, lost, applied, got, answer>>
    BY <1>4 DEF Edit, Logout, vars, server
  <2>2. SureNow' = SureNow
    BY <2>1 DEF SureNow, Args
  <2>3. FailureMeansUntouched'
    BY <2>1 DEF CleanInv, FailureMeansUntouched, Answered
  <2>4. QED
    BY <2>1, <2>2, <2>3 DEF CleanInv
<1>5. CASE Repeat
  <2>1. applied' = <<>>
    BY <1>5 DEF Repeat
  <2>2. QED
    BY <2>1 DEF CleanInv, FailureMeansUntouched
<1>6. QED
  BY <1>1, <1>2, <1>3, <1>4, <1>5

LEMMA NextClean ==
  ASSUME TypeOK, RightAccount, ReadInv, CleanInv, [Next]_vars
  PROVE  CleanInv'
<1>1. CASE Sends
  BY <1>1, SendsClean
<1>2. CASE ~Sends
  BY <1>2, OthersClean DEF Next, Sends, Rest
<1>3. QED
  BY <1>1, <1>2

LEMMA InitClean == Init => CleanInv
BY DEF Init, CleanInv, FailureMeansUntouched

\* A call that ends with an error has changed nothing, unless the reply to a
\* change was lost: neither a later request of the handler, nor a sign-in and
\* a second run, turns a change that was made into an error.
THEOREM FailuresAreClean == Spec => []FailureMeansUntouched
<1>1. ToolInv /\ ReadInv /\ CleanInv /\ [Next]_vars => CleanInv'
  BY NextClean DEF ToolInv
<1>2. CleanInv => FailureMeansUntouched
  BY DEF CleanInv
<1>3. QED
  BY <1>1, <1>2, InitClean, ReadsAgree, PTL DEF Spec

-------------------------------------------------------------------------------
\* How often a request is in a list of requests.
Count(s, x) == Cardinality({k \in DOMAIN s : s[k] = x})

LEMMA CountAppend ==
  ASSUME NEW s, IsList(s), NEW w
  PROVE  \A x : /\ Count(s, x) \in Nat
                /\ Count(Append(s, w), x) = Count(s, x) + (IF x = w THEN 1 ELSE 0)
<1> DEFINE t == Append(s, w)
           n == Len(s)
           A(x) == {k \in 1 .. n : s[k] = x}
           B(x) == {k \in 1 .. n + 1 : t[k] = x}
<1>1. n \in Nat /\ DOMAIN s = 1 .. n
  BY ListFacts DEF IsList
<1>2. DOMAIN t = 1 .. n + 1 /\ t[n + 1] = w /\ \A k \in 1 .. n : t[k] = s[k]
  BY AppendFacts
<1>3. \A x : Count(s, x) = Cardinality(A(x)) /\ Count(t, x) = Cardinality(B(x))
  BY <1>1, <1>2 DEF Count
<1> HIDE DEF t, n
<1>4. ASSUME NEW x
      PROVE  /\ Cardinality(A(x)) \in Nat
             /\ Cardinality(B(x)) = Cardinality(A(x)) + (IF x = w THEN 1 ELSE 0)
  <2>1. IsFiniteSet(A(x)) /\ Cardinality(A(x)) \in Nat
    <3>1. IsFiniteSet(1 .. n)
      BY <1>1, FS_Interval
    <3>2. A(x) \subseteq 1 .. n
      OBVIOUS
    <3>3. QED
      BY <3>1, <3>2, FS_Subset, FS_CardinalityType
  <2>2. n + 1 \notin A(x) /\ \A k \in 1 .. n + 1 : k \in 1 .. n \/ k = n + 1
    BY <1>1
  <2>3. CASE x = w
    <3>1. B(x) = A(x) \cup {n + 1}
      BY <1>1, <1>2, <2>2, <2>3
    <3>2. Cardinality(B(x)) = Cardinality(A(x)) + 1
      BY <2>1, <2>2, <3>1, FS_AddElement
    <3>3. QED
      BY <2>1, <2>3, <3>2
  <2>4. CASE x # w
    <3>1. B(x) = A(x)
      BY <1>1, <1>2, <2>2, <2>4
    <3>2. QED
      BY <2>1, <2>4, <3>1
  <2>5. QED
    BY <2>3, <2>4
<1> HIDE DEF A, B
<1>5. QED
  BY <1>3, <1>4 DEF t

LEMMA CountNone == \A x : Count(<<>>, x) = 0
<1>1. \A x : {k \in DOMAIN <<>> : <<>>[k] = x} = {}
  BY EmptyList
<1>2. QED
  BY <1>1, FS_EmptySet DEF Count

\* A handler asks for no write that it is done with.
LEMMA SpendSteps ==
  ASSUME NEW c \in Calls, IsOperation(c.op), c.op # "mail.move_messages",
         NEW S, NEW rs \in Seq(S), Heard(S), Handle(c.op, c.args, rs).next = "ask"
  PROVE  \A r \in S :
           /\ Spent(c.op, c.args, rs) \subseteq Spent(c.op, c.args, Append(rs, r))
           /\ Handle(c.op, c.args, rs).req.op \notin Reading =>
                /\ Handle(c.op, c.args, rs).req.op \notin Spent(c.op, c.args, rs)
                /\ r.ok => Handle(c.op, c.args, rs).req.op \in Spent(c.op, c.args, Append(rs, r))
<1> DEFINE op == c.op
           a == c.args
<1>1. /\ WellTyped(a) /\ op \in ReadNames \cup OnceOps \cup DeriveOps
      /\ Handle(op, a, rs).next = "ask"
  BY CallVerb, WriteVerbs
<1>2. Handle(op, a, rs).req.op \in Every
  BY <1>1, CallKeeps DEF Keeps, Asks
<1> HIDE DEF op, a
<1>3. CASE op \in ReadNames
  <2>1. op \notin DeriveOps
    BY <1>3 DEF ReadNames, DeriveOps
  <2>2. Handle(op, a, rs).req.op \in Reading
    BY <1>1, <1>3, ReadsKeep DEF Keeps, Asks
  <2>3. Spent(op, a, rs) = {}
    BY <1>1, <2>1 DEF Spent
  <2>4. QED
    BY <2>2, <2>3 DEF op, a
<1>4. CASE op \in OnceOps
  <2>1. ASSUME NEW r \in S
        PROVE  /\ Spent(op, a, rs) = {}
               /\ r.ok /\ Handle(op, a, rs).req.op \notin Reading =>
                    Handle(op, a, rs).req.op \in Spent(op, a, Append(rs, r))
    BY <1>1, <1>2, <1>4, <2>1, OnceSpends
  <2>2. QED
    BY <2>1 DEF op, a
<1>5. CASE op \in DeriveOps
  <2>1. ASSUME NEW r \in S
        PROVE  /\ Handle(op, a, rs).req.op \notin Spent(op, a, rs)
               /\ Spent(op, a, rs) \subseteq Spent(op, a, Append(rs, r))
               /\ r.ok => Handle(op, a, rs).req.op \in Spent(op, a, Append(rs, r))
    BY <1>1, <1>5, <2>1, DeriveSpends
  <2>2. QED
    BY <2>1 DEF op, a
<1>6. QED
  BY <1>1, <1>3, <1>4, <1>5

SpentNow == Spent(call.op, Args, got)

LEMMA SpendAhead ==
  ASSUME TypeOK, RightAccount, Asking, call.op # "mail.move_messages",
         NEW r, ~r.ok => r.value # "no account selected"
  PROVE  /\ SpentNow \subseteq Spent(call.op, Args, Append(got, r))
         /\ Step.req.op \notin Reading =>
              /\ Step.req.op \notin SpentNow
              /\ r.ok => Step.req.op \in Spent(call.op, Args, Append(got, r))
<1> DEFINE h == Handle(call.op, Args, got)
           S == {got[k] : k \in 1 .. Len(got)} \cup {r}
<1>1. phase = "run" /\ Step = h /\ h.next = "ask"
  BY DEF Step, Args, Asking
<1>2. call \in Calls /\ IsOperation(call.op)
  BY <1>1, WhileRunning
<1>3. got \in Seq(S) /\ r \in S /\ Heard(S)
  BY <1>1, Hearing
<1> HIDE DEF S
<1>4. /\ SpentNow \subseteq Spent(call.op, Args, Append(got, r))
      /\ h.req.op \notin Reading =>
           /\ h.req.op \notin SpentNow
           /\ r.ok => h.req.op \in Spent(call.op, Args, Append(got, r))
  BY <1>1, <1>2, <1>3, SpendSteps DEF SpentNow, Args
<1> HIDE DEF h
<1>5. QED
  BY <1>1, <1>4

-------------------------------------------------------------------------------
\* Every write once, and once more for each reply that was lost.  A run of the
\* handler begins with no more of them than replies were lost: it has room for
\* one of each kind, and makes none that it has had an answer to.
Room(o) == IF Answered \/ (phase = "run" /\ o \in SpentNow) THEN 1 ELSE 0
OnceInv == call.op # "mail.move_messages" => \A x : Count(applied, x) <= lost + Room(x.op)

LEMMA RoomFacts ==
  ASSUME TypeOK
  PROVE  /\ \A o : Room(o) \in {0, 1} /\ Room(o)' \in {0, 1}
         /\ \A x : Count(applied, x) \in Nat
<1>1. \A x : Count(applied, x) \in Nat
  BY LostIsCount, CountAppend
<1>2. QED
  BY <1>1 DEF Room

LEMMA SendsOnce ==
  ASSUME TypeOK, RightAccount, OnceInv, Sends
  PROVE  OnceInv'
<1>1. Asking /\ phase = "run" /\ UNCHANGED <<call, phase>>
  BY NewReply DEF Asking
<1> SUFFICES ASSUME call.op # "mail.move_messages", NEW x
             PROVE  Count(applied', x) <= lost' + Room(x.op)'
  BY <1>1 DEF OnceInv
<1> DEFINE w  == Step.req
           n  == Count(applied, x)
           n2 == Count(applied', x)
           m  == Room(x.op)
           m2 == Room(x.op)'
           r  == Reply(box, w)
<1>2. lost \in Nat /\ n \in Nat /\ m \in {0, 1} /\ m2 \in {0, 1} /\ n <= lost + m
  BY LostIsCount, RoomFacts DEF OnceInv
<1>3. /\ m = 1 <=> x.op \in SpentNow
      /\ m2 = 1 <=> x.op \in Spent(call.op, Args, got')
  <2>1. SpentNow' = Spent(call.op, Args, got') /\ ~Answered /\ ~Answered'
    BY <1>1 DEF SpentNow, Args, Answered
  <2>2. Room(x.op)' = IF x.op \in SpentNow' THEN 1 ELSE 0
    BY <1>1, <2>1 DEF Room
  <2>3. Room(x.op) = IF x.op \in SpentNow THEN 1 ELSE 0
    BY <1>1, <2>1 DEF Room
  <2>4. QED
    BY <2>1, <2>2, <2>3
<1>4. SpentNow \subseteq Spent(call.op, Args, got')
  <2>1. CASE got' = got
    BY <2>1 DEF SpentNow
  <2>2. CASE \E y : got' = Append(got, y) /\ (~y.ok => y.value # "no account selected")
    BY <1>1, <2>2, SpendAhead
  <2>3. QED
    BY <2>1, <2>2, SendsFrame
<1>5. Wrote => n2 = n + (IF x = w THEN 1 ELSE 0)
  BY LostIsCount, CountAppend DEF Wrote
<1>6. CASE UNCHANGED <<applied, lost>>
  <2>1. n2 = n /\ lost' = lost
    BY <1>6
  <2> HIDE DEF n, n2, m, m2
  <2>2. n2 <= lost' + m2
    BY <1>2, <1>3, <1>4, <2>1
  <2>3. QED
    BY <2>2 DEF n2, m2
<1>7. CASE Wrote /\ lost' = lost + 1
  <2> HIDE DEF n, n2, m, m2, w
  <2>1. n2 \in {n, n + 1}
    BY <1>2, <1>5, <1>7
  <2>2. n2 <= lost' + m2
    BY <1>2, <1>3, <1>4, <1>7, <2>1
  <2>3. QED
    BY <2>2 DEF n2, m2
<1>8. CASE Wrote /\ lost' = lost /\ got' = Append(got, r)
  <2>1. r.ok /\ w.op \notin Reading
    BY <1>8, SendsCases DEF Wrote
  <2> HIDE DEF r, w
  <2>2. Step.req.op \notin SpentNow /\ Step.req.op \in Spent(call.op, Args, Append(got, r))
    BY <1>1, <2>1, SpendAhead DEF w
  <2>3. x = w => m = 0 /\ m2 = 1
    BY <1>2, <1>3, <1>8, <2>2 DEF w
  <2> HIDE DEF n, n2, m, m2
  <2>4. n2 = n + (IF x = w THEN 1 ELSE 0) /\ lost' = lost
    BY <1>5, <1>8
  <2>5. n2 <= lost' + m2
    BY <1>2, <1>3, <1>4, <2>3, <2>4
  <2>6. QED
    BY <2>5 DEF n2, m2
<1>9. QED
  BY <1>6, <1>7, <1>8, SendsCases

LEMMA OthersOnce ==
  ASSUME TypeOK, RightAccount, OnceInv,
         \/ Receive \/ Resolve \/ Enter \/ Conclude \/ SignedIn \/ NotSignedIn
         \/ Edit \/ Logout \/ Repeat \/ UNCHANGED vars
  PROVE  OnceInv'
<1>1. lost \in Nat /\ \A o : Room(o) \in {0, 1} /\ Room(o)' \in {0, 1}
  BY LostIsCount, RoomFacts
<1>2. \A x : Count(applied, x) \in Nat
  BY RoomFacts
<1>3. CASE applied' = <<>> /\ lost' = lost
  <2>1. \A x : Count(applied', x) = 0
    BY <1>3, CountNone
  <2>2. \A x : Count(applied', x) <= lost' + Room(x.op)'
    BY <1>1, <1>3, <2>1
  <2>3. QED
    BY <2>2 DEF OnceInv
<1>4. ASSUME UNCHANGED <<call, applied, lost>>, \A o : Room(o) <= Room(o)'
      PROVE  OnceInv'
  <2>1. ASSUME NEW x, call.op # "mail.move_messages"
        PROVE  Count(applied, x) <= lost + Room(x.op)'
    <3>1. Count(applied, x) <= lost + Room(x.op) /\ Room(x.op) <= Room(x.op)'
      BY <1>4, <2>1 DEF OnceInv
    <3>2. QED
      BY <1>1, <1>2, <3>1
  <2>2. QED
    BY <1>4, <2>1 DEF OnceInv
<1>5. CASE Receive \/ Repeat
  <2>1. applied' = <<>> /\ lost' = lost
    BY <1>5 DEF Receive, Repeat, TypeOK
  <2>2. QED
    BY <1>3, <2>1
<1>6. CASE Resolve \/ Enter \/ SignedIn \/ NotSignedIn
  <2>1. /\ phase \in {"resolve", "enter", "reauth"} /\ UNCHANGED <<call, applied, lost>>
    BY <1>6 DEF Resolve, Enter, SignedIn, NotSignedIn, server
  <2>2. \A o : Room(o) = 0
    BY <2>1 DEF Room, Answered
  <2>3. \A o : Room(o) <= Room(o)'
    BY <1>1, <2>2
  <2>4. QED
    BY <1>4, <2>1, <2>3
<1>7. CASE Conclude
  <2>1. /\ phase = "run" /\ ~Asking /\ UNCHANGED <<call, applied, lost>>
        /\ \/ Step.next = "fail" /\ phase' = "reauth"
           \/ phase' = "answered"
    BY <1>7 DEF Conclude, Answer, NeedsSignIn, server
  <2>2. CASE phase' = "answered"
    <3>1. \A o : Room(o)' = 1
      BY <2>2 DEF Room, Answered
    <3>2. \A o : Room(o) <= Room(o)'
      BY <1>1, <3>1
    <3>3. QED
      BY <1>4, <2>1, <3>2
  <2>3. CASE Step.next = "fail"
    <3>1. Handle(call.op, Args, got).next = "fail"
      BY <2>3 DEF Step, Args
    <3>2. SpentNow = {}
      BY <3>1 DEF SpentNow, Spent
    <3>3. \A o : Room(o) = 0
      BY <2>1, <3>2 DEF Room, Answered
    <3>4. \A o : Room(o) <= Room(o)'
      BY <1>1, <3>3
    <3>5. QED
      BY <1>4, <2>1, <3>4
  <2>4. QED
    BY <2>1, <2>2, <2>3
<1>8. CASE Edit \/ Logout \/ UNCHANGED vars
  <2>1. UNCHANGED <<call, phase, lost, applied, got>>
    BY <1>8 DEF Edit, Logout, vars, server
  <2>2. SpentNow' = SpentNow /\ Answered' = Answered
    BY <2>1 DEF SpentNow, Args, Answered
  <2>3. \A o : Room(o)' = Room(o)
    BY <2>1, <2>2 DEF Room
  <2>4. \A o : Room(o) <= Room(o)'
    BY <1>1, <2>3
  <2>5. QED
    BY <1>4, <2>1, <2>4
<1>9. QED
  BY <1>5, <1>6, <1>7, <1>8

\* move_messages may move several, each under a new ID: the old one never comes
\* back, so that no request for it is accepted again.
GoneInv ==
  call.op = "mail.move_messages" =>
    /\ \A k \in DOMAIN applied :
         applied[k].at.id \in Nat /\ applied[k].at.id < box.next /\ applied[k].at.id \notin Ids(box)
    /\ \A x : Count(applied, x) <= 1

LEMMA MovedAway ==
  ASSUME NEW b, Consistent(b), NEW req, Accepts(b, req), Proper(req), req.op = "move"
  PROVE  /\ req.at.id \in Ids(b) /\ Effect(b, req).next = b.next + 1
         /\ Ids(Effect(b, req)) = (Ids(b) \cup {b.next}) \ {req.at.id}
<1> DEFINE id == req.at.id
           item == [b.items[id] EXCEPT !.in = Target(b, req.to)]
           moved == Add(b, item)
           place(i) == IF moved.items[i].in = id THEN [moved.items[i] EXCEPT !.in = b.next]
                       ELSE moved.items[i]
           all == [moved EXCEPT !.items = [i \in Ids(moved) |-> place(i)]]
<1>1. Effect(b, req) = Drop(all, {id})
  BY DEF Effect
<1>2. id \in Ids(b)
  BY AnItem
<1> HIDE DEF item, id
<1>3. Ids(moved) = Ids(b) \cup {b.next} /\ moved.next = b.next + 1 /\ DOMAIN moved = DOMAIN b
  BY AddFacts
<1>4. {"items", "next"} \subseteq DOMAIN b
  BY DEF Consistent
<1> HIDE DEF moved, place
<1>5. Ids(all) = Ids(moved) /\ all.next = moved.next /\ DOMAIN all = DOMAIN moved
  BY <1>3, <1>4 DEF Ids
<1> HIDE DEF all
<1>6. Ids(Drop(all, {id})) = Ids(all) \ {id} /\ Drop(all, {id}).next = all.next
  BY <1>3, <1>4, <1>5 DEF Drop, Ids
<1>7. QED
  BY <1>1, <1>2, <1>3, <1>5, <1>6 DEF id

\* What move_messages writes is a move.
LEMMA BatchWrites ==
  ASSUME TypeOK, RightAccount, Asking, call.op = "mail.move_messages"
  PROVE  Step.req.op \in Reading \cup {"move"} /\ Proper(Step.req)
<1> DEFINE S == {got[k] : k \in 1 .. Len(got)}
           h == MoveMessages(Args, got)
<1>1. phase = "run"
  BY DEF Asking
<1>2. call \in Calls /\ IsOperation(call.op) /\ IsList(got)
  BY <1>1, WhileRunning
<1>3. WellTyped(Args)
  BY <1>2, CallVerb DEF Args
<1>4. got \in Seq(S) /\ DOMAIN got = 1 .. Len(got)
  BY <1>2, ListFacts
<1>5. Heard(S)
  BY <1>4 DEF Heard, RightAccount
<1> HIDE DEF S
<1>6. Keeps(h, Reading \cup {"move"}, S)
  BY <1>3, <1>4, <1>5, MoveMessagesKeeps
<1>7. Step = h
  BY DEF Step, Handle, Args
<1> HIDE DEF h
<1>8. QED
  BY <1>6, <1>7 DEF Keeps, Asks, Asking

LEMMA BoxFacts ==
  ASSUME NEW b, Consistent(b)
  PROVE  b.next \in Nat /\ \A i \in Ids(b) : i \in Nat /\ i < b.next
BY DEF Consistent

LEMMA SendsGone ==
  ASSUME TypeOK, RightAccount, GoneInv, Sends
  PROVE  GoneInv'
<1>1. Asking /\ phase = "run" /\ call' = call
  BY NewReply DEF Asking
<1> SUFFICES ASSUME call.op = "mail.move_messages"
             PROVE  /\ \A k \in DOMAIN applied' : /\ applied'[k].at.id \in Nat
                                                  /\ applied'[k].at.id < box'.next
                                                  /\ applied'[k].at.id \notin Ids(box')
                    /\ \A x : Count(applied', x) <= 1
  BY <1>1 DEF GoneInv
<1>2. IsList(applied) /\ Consistent(box)
  BY <1>1, WhileRunning
<1>3. /\ \A k \in DOMAIN applied :
           applied[k].at.id \in Nat /\ applied[k].at.id < box.next /\ applied[k].at.id \notin Ids(box)
      /\ \A x : Count(applied, x) <= 1
  BY DEF GoneInv
<1>4. CASE UNCHANGED <<box, applied>>
  BY <1>3, <1>4
<1>5. CASE Wrote
  <2> DEFINE w == Step.req
             i == w.at.id
             b == Effect(box, w)
  <2>1. Accepts(box, w) /\ w.op = "move" /\ Proper(w) /\ box' = b /\ applied' = Append(applied, w)
    BY <1>1, <1>5, BatchWrites DEF Wrote
  <2> HIDE DEF w
  <2>2. i \in Ids(box) /\ b.next = box.next + 1 /\ Ids(b) = (Ids(box) \cup {box.next}) \ {i}
    BY <1>2, <2>1, MovedAway
  <2>3. box.next \in Nat /\ \A j \in Ids(box) : j \in Nat /\ j < box.next
    BY <1>2, BoxFacts
  <2>4. \A k \in DOMAIN applied' : applied'[k] = w \/ (k \in DOMAIN applied /\ applied'[k] = applied[k])
    BY <1>2, <2>1, OneMore
  <2> HIDE DEF b
  <2>5. i \in Nat /\ i < b.next /\ i \notin Ids(b)
    BY <2>2, <2>3
  <2>6. ASSUME NEW j \in Nat, j < box.next, j \notin Ids(box)
        PROVE  j < b.next /\ j \notin Ids(b)
    BY <2>2, <2>3, <2>6
  <2>7. ASSUME NEW k \in DOMAIN applied'
        PROVE  applied'[k].at.id \in Nat /\ applied'[k].at.id < b.next /\ applied'[k].at.id \notin Ids(b)
    <3>1. CASE applied'[k] = w
      BY <2>5, <3>1
    <3>2. CASE k \in DOMAIN applied /\ applied'[k] = applied[k]
      BY <1>3, <2>6, <3>2
    <3>3. QED
      BY <2>4, <3>1, <3>2
  <2>8. Count(applied, w) = 0
    <3>1. \A k \in DOMAIN applied : applied[k] # w
      BY <1>3, <2>2
    <3>2. {k \in DOMAIN applied : applied[k] = w} = {}
      BY <3>1
    <3>3. QED
      BY <3>2, FS_EmptySet DEF Count
  <2>9. \A x : Count(applied', x) <= 1
    <3>1. \A x : /\ Count(applied, x) \in Nat
                 /\ Count(applied', x) = Count(applied, x) + (IF x = w THEN 1 ELSE 0)
      BY <1>2, <2>1, CountAppend
    <3>2. QED
      BY <1>3, <2>8, <3>1
  <2>10. QED
    BY <2>1, <2>7, <2>9
<1>6. QED
  BY <1>4, <1>5, SendsFrame

\* Others only change items or take them away.
LEMMA EditTakes ==
  ASSUME NEW b, Consistent(b), NEW b2 \in Edits(b)
  PROVE  b2.next = b.next /\ Ids(b2) \subseteq Ids(b)
<1> DEFINE set(i, f) == [b EXCEPT !.items[i] = With(@, f)]
<1>1. {"items", "next"} \subseteq DOMAIN b
  BY DEF Consistent
<1>2. \A i, f : set(i, f).next = b.next /\ Ids(set(i, f)) = Ids(b)
  BY <1>1 DEF Ids
<1>3. \A ids : Drop(b, ids).next = b.next /\ Ids(Drop(b, ids)) \subseteq Ids(b)
  BY <1>1 DEF Drop, Ids
<1>4. \/ \E i \in Ids(b) : b2 = set(i, [is_draft |-> FALSE])
      \/ \E i \in Ids(b) : b2 = set(i, [finish |-> b.items[i].finish + 1])
      \/ \E ids : b2 = Drop(b, ids)
  BY DEF Edits
<1> HIDE DEF set
<1>5. QED
  BY <1>2, <1>3, <1>4

LEMMA OthersGone ==
  ASSUME TypeOK, GoneInv,
         \/ Receive \/ Resolve \/ Enter \/ Conclude \/ SignedIn \/ NotSignedIn
         \/ Edit \/ Logout \/ Repeat \/ UNCHANGED vars
  PROVE  GoneInv'
<1>1. CASE Receive \/ Repeat
  <2>1. applied' = <<>>
    BY <1>1 DEF Receive, Repeat, TypeOK
  <2>2. DOMAIN applied' = {} /\ \A x : Count(applied', x) = 0
    BY <2>1, EmptyList, CountNone
  <2>3. QED
    BY <2>2 DEF GoneInv
<1>2. CASE Edit
  <2>1. phase = "run" /\ UNCHANGED <<call, applied>> /\ box' \in Edits(box)
    BY <1>2 DEF Edit, Asking, server
  <2>2. Consistent(box)
    BY <2>1, WhileRunning
  <2>3. box'.next = box.next /\ Ids(box') \subseteq Ids(box)
    BY <2>1, <2>2, EditTakes
  <2>4. QED
    BY <2>1, <2>3 DEF GoneInv
<1>3. CASE \/ Resolve \/ Enter \/ Conclude \/ SignedIn \/ NotSignedIn
           \/ Logout \/ UNCHANGED vars
  <2>1. UNCHANGED <<call, box, applied>>
    BY <1>3 DEF Resolve, Enter, Conclude, SignedIn, NotSignedIn, Logout, vars, server
  <2>2. QED
    BY <2>1 DEF GoneInv
<1>4. QED
  BY <1>1, <1>2, <1>3

LEMMA NextOnce ==
  ASSUME TypeOK, RightAccount, OnceInv, GoneInv, [Next]_vars
  PROVE  OnceInv' /\ GoneInv'
<1>1. CASE Sends
  BY <1>1, SendsOnce, SendsGone
<1>2. CASE ~Sends
  BY <1>2, OthersOnce, OthersGone DEF Next, Sends, Rest
<1>3. QED
  BY <1>1, <1>2

LEMMA InitOnce == Init => OnceInv /\ GoneInv
<1> SUFFICES ASSUME Init PROVE OnceInv /\ GoneInv
  OBVIOUS
<1>1. applied = <<>> /\ lost = 0 /\ phase = "idle"
  BY DEF Init
<1>2. \A o : Room(o) = 0
  BY <1>1 DEF Room, Answered
<1>3. \A x : Count(applied, x) = 0
  BY <1>1, CountNone
<1>4. DOMAIN applied = {}
  BY <1>1, EmptyList
<1>5. OnceInv
  BY <1>1, <1>2, <1>3 DEF OnceInv
<1>6. GoneInv
  BY <1>3, <1>4 DEF GoneInv
<1>7. QED
  BY <1>5, <1>6

\* No change is made twice, whatever is retried and however often the handler
\* runs, except when the reply to the first one was lost.
THEOREM WritesAreSingle == Spec => []EachWriteOnce
<1>1. ToolInv /\ OnceInv /\ GoneInv /\ [Next]_vars => OnceInv' /\ GoneInv'
  BY NextOnce DEF ToolInv
<1>2. ToolInv /\ OnceInv /\ GoneInv => EachWriteOnce
  <2> SUFFICES ASSUME TypeOK, OnceInv, GoneInv PROVE EachWriteOnce
    BY DEF ToolInv
  <2>1. \A x : Count(applied, x) <= 1 + lost
    <3>1. lost \in Nat /\ \A x : Count(applied, x) \in Nat /\ Room(x.op) \in {0, 1}
      BY LostIsCount, RoomFacts
    <3>2. CASE call.op = "mail.move_messages"
      BY <3>1, <3>2 DEF GoneInv
    <3>3. CASE call.op # "mail.move_messages"
      BY <3>1, <3>3 DEF OnceInv
    <3>4. QED
      BY <3>2, <3>3
  <2>2. \A x : Writes(x) = Count(applied, x)
    BY DEF Writes, Count
  <2>3. QED
    BY <2>1, <2>2 DEF EachWriteOnce
<1>3. QED
  BY <1>1, <1>2, InitOnce, ToolAgrees, PTL DEF Spec

-------------------------------------------------------------------------------
\* The account that move_messages gives of its batch: an entry for each message.
Entry(id, how) == [id |-> id, how |-> how]

LEMMA EntryFacts == \A id, how : Entry(id, how).id = id /\ Entry(id, how).how = how
BY DEF Entry

LEMMA MoveNextEntry ==
  ASSUME NEW id, NEW to, NEW p, p.next = "done"
  PROVE  LET q == MoveNext(id, to, p)
             how == IF Head(p.rest).ok THEN "ok" ELSE Head(p.rest).value
         IN /\ Left(p.value) => q = Done(Append(p.value, Entry(id, "skipped")), p.rest)
            /\ ~Left(p.value) /\ p.rest = <<>> => q = Ask(Move(id, to))
            /\ ~Left(p.value) /\ p.rest # <<>> =>
                 q = Done(Append(p.value, Entry(id, how)), Tail(p.rest))
<1> DEFINE try == Try(Move(id, to), p.rest)
           q == MoveNext(id, to, p)
<1>1. q = IF Left(p.value) THEN Done(Append(p.value, Entry(id, "skipped")), p.rest)
          ELSE IF try.next # "done" THEN try
          ELSE Done(Append(p.value, Entry(id, IF try.value.ok THEN "ok" ELSE try.value.value)), try.rest)
  BY DEF MoveNext, Then, Left, Entry
<1>2. /\ p.rest = <<>> => try = Ask(Move(id, to))
      /\ p.rest # <<>> => try = Done(Head(p.rest), Tail(p.rest))
  BY DEF Try
<1> HIDE DEF try
<1>3. /\ p.rest = <<>> => try.next # "done"
      /\ p.rest # <<>> => try.next = "done" /\ try.value = Head(p.rest) /\ try.rest = Tail(p.rest)
  BY <1>2, StepFacts
<1>4. QED
  BY <1>1, <1>2, <1>3

\* What is done with n messages tells of each of them, as it was when it came up.
Tells(ids, g, n) ==
  /\ Len(g[n].value) = n
  /\ \A k \in 1 .. n : /\ g[n].value[k].id = ids[k]
                       /\ g[k].next = "done" /\ g[k].value[k] = g[n].value[k]

LEMMA BatchEntries ==
  ASSUME NEW ids, Len(ids) \in Nat, NEW to, NEW S, NEW rs \in Seq(S)
  PROVE  \A n \in 0 .. Len(ids) :
           Batch(ids, to, rs)[n].next = "done" => Tells(ids, Batch(ids, to, rs), n)
<1> DEFINE g == Batch(ids, to, rs)
           N == Len(ids)
           P == {n \in 0 .. N : g[n].next = "done" => Tells(ids, g, n)}
<1>1. /\ g[0] = Done(<<>>, rs)
      /\ \A n \in 0 .. N : n + 1 \in 0 .. N => g[n + 1] = MoveNext(ids[n + 1], to, g[n])
  BY BatchSteps
<1>2. \A n \in 0 .. N : g[n].next = "done" => IsList(g[n].value)
  BY BatchLists
<1> HIDE DEF g
<1>3. 0 \in P
  <2>1. Len(g[0].value) = 0
    BY <1>1, StepFacts, EmptyList
  <2>2. QED
    BY <2>1 DEF Tells
<1>4. ASSUME NEW n \in 0 .. N, n + 1 \in 0 .. N, n \in P
      PROVE  n + 1 \in P
  <2> DEFINE m == n + 1
             v == g[n].value
             w == g[m].value
  <2> SUFFICES ASSUME g[m].next = "done" PROVE Tells(ids, g, m)
    BY <1>4
  <2>1. g[m] = MoveNext(ids[m], to, g[n])
    BY <1>1, <1>4
  <2>2. g[n].next = "done"
    <3>1. g[n].next # "done" => MoveNext(ids[m], to, g[n]) = g[n]
      BY DEF MoveNext, Then
    <3>2. QED
      BY <2>1, <3>1
  <2>3. IsList(v) /\ Tells(ids, g, n)
    BY <1>2, <1>4, <2>2
  <2>4. PICK how : w = Append(v, Entry(ids[m], how))
    <3> DEFINE p == g[n]
    <3>1. p.next = "done" /\ g[m] = MoveNext(ids[m], to, p)
      BY <2>1, <2>2
    <3> DEFINE q == g[m]
    <3>0. q.next = "done"
      OBVIOUS
    <3> HIDE DEF p, q
    <3>2. \/ \E how, rest : q = Done(Append(p.value, Entry(ids[m], how)), rest)
          \/ q = Ask(Move(ids[m], to))
      BY <3>1, MoveNextEntry DEF q
    <3> DEFINE E(how) == Append(p.value, Entry(ids[m], how))
    <3> HIDE DEF m
    <3>a. q # Ask(Move(ids[m], to))
      BY <3>0, StepFacts
    <3>b. PICK how, rest : q = Done(E(how), rest)
      BY <3>2, <3>a
    <3>c. q.value = E(how)
      <4> HIDE DEF E
      <4>1. QED
        BY <3>b, StepFacts
    <3>3. \E some : q.value = E(some)
      <4> HIDE DEF E
      <4>1. QED
        BY <3>c
    <3>4. QED
      BY <3>3 DEF m, p, q
  <2>5. /\ Len(v) = n
        /\ \A k \in 1 .. n : v[k].id = ids[k] /\ g[k].next = "done" /\ g[k].value[k] = v[k]
    BY <2>3 DEF Tells
  <2> HIDE DEF v
  <2>6. Len(w) = m /\ w[m] = Entry(ids[m], how) /\ \A k \in 1 .. n : w[k] = v[k]
    BY <2>3, <2>4, <2>5, AppendFacts
  <2>7. ASSUME NEW k \in 1 .. m
        PROVE  w[k].id = ids[k] /\ g[k].next = "done" /\ g[k].value[k] = w[k]
    <3>1. CASE k = m
      BY <2>6, <3>1, EntryFacts
    <3>2. CASE k # m
      <4>1. k \in 1 .. n
        BY <3>2
      <4>2. QED
        BY <2>5, <2>6, <4>1
    <3>3. QED
      BY <3>1, <3>2
  <2>8. QED
    BY <2>6, <2>7 DEF Tells
<1>5. \A n \in 0 .. N : n \in P
  <2> HIDE DEF P
  <2>1. QED
    BY <1>3, <1>4, UpTo
<1>6. QED
  BY <1>5 DEF g

\* The messages that have been moved, as far as the handler knows.
Moved(ids, to, rs) ==
  {n \in 1 .. Len(ids) : /\ Batch(ids, to, rs)[n].next = "done"
                         /\ Batch(ids, to, rs)[n].value[n].how = "ok"}

\* It asks for one of them, the earlier ones are done with and nothing is left
\* for the later ones.
AsksAt(ids, to, rs, m) ==
  /\ m \in 1 .. Len(ids)
  /\ Batch(ids, to, rs)[m - 1].next = "done"
  /\ Batch(ids, to, rs)[m - 1].rest = <<>> /\ ~Left(Batch(ids, to, rs)[m - 1].value)
  /\ \A n \in m .. Len(ids) : Batch(ids, to, rs)[n] = Ask(Move(ids[m], to))

LEMMA BatchAsks ==
  ASSUME NEW ids, Len(ids) \in Nat, NEW to, NEW S, NEW rs \in Seq(S),
         MoveEach(ids, to, rs).next = "ask"
  PROVE  \E m \in 1 .. Len(ids) : AsksAt(ids, to, rs, m)
<1> DEFINE g == Batch(ids, to, rs)
           N == Len(ids)
           Q == {n \in 0 .. N : g[n].next = "ask"}
<1>1. /\ g[0] = Done(<<>>, rs) /\ MoveEach(ids, to, rs) = g[N]
      /\ \A n \in 0 .. N : n + 1 \in 0 .. N => g[n + 1] = MoveNext(ids[n + 1], to, g[n])
  BY BatchSteps
<1>2. \A n \in 0 .. N : /\ g[n].next \in {"ask", "done"}
                        /\ g[n].next = "done" => g[n].rest \in Seq(S) /\ IsList(g[n].value)
  BY BatchLists
<1> HIDE DEF g
<1>3. PICK m \in Q : \A k \in Q : m <= k
  <2>1. Q \in SUBSET Nat /\ N \in Q
    BY <1>1
  <2>2. QED
    BY <2>1, LeastNumber
<1>4. m # 0
  <2>1. g[0].next = "done"
    BY <1>1, StepFacts
  <2>2. QED
    BY <1>3, <2>1
<1> DEFINE n == m - 1
           req == Move(ids[m], to)
<1>5. n \in 0 .. N /\ n + 1 = m /\ n \notin Q /\ m \in 1 .. N /\ g[m].next = "ask"
  BY <1>3, <1>4
<1>6. g[n].next = "done" /\ g[n].rest \in Seq(S)
  BY <1>2, <1>5
<1>7. g[m] = MoveNext(ids[m], to, g[n])
  BY <1>1, <1>5
<1> HIDE DEF n, Q
<1>8. g[n].rest = <<>> /\ ~Left(g[n].value) /\ g[m] = Ask(req)
  <2> DEFINE p == g[n]
  <2>1. /\ p.next = "done" /\ p.rest \in Seq(S)
        /\ MoveNext(ids[m], to, p).next = "ask" /\ g[m] = MoveNext(ids[m], to, p)
    BY <1>5, <1>6, <1>7
  <2> HIDE DEF p, req
  <2>2. p.rest = <<>> /\ ~Left(p.value)
    BY <2>1, MoveNextSteps
  <2>3. g[m] = Ask(req)
    BY <2>1, <2>2, MoveNextEntry DEF req
  <2>4. QED
    BY <2>2, <2>3 DEF p
<1> DEFINE P == {k \in m .. N : g[k] = Ask(req)}
<1>9. m \in P
  BY <1>5, <1>8
<1>10. ASSUME NEW k \in m .. N, k + 1 \in m .. N, k \in P
       PROVE  k + 1 \in P
  <2>1. g[k] = Ask(req) /\ k \in 0 .. N /\ k + 1 \in 0 .. N
    BY <1>5, <1>10
  <2>2. g[k].next = "ask"
    BY <2>1, StepFacts
  <2>3. MoveNext(ids[k + 1], to, g[k]) = g[k]
    BY <2>2 DEF MoveNext, Then
  <2>4. QED
    BY <1>1, <1>10, <2>1, <2>3
<1>11. \A k \in m .. N : k \in P
  <2> HIDE DEF P
  <2>1. m \in Nat /\ N \in Nat
    BY <1>5
  <2>2. QED
    BY <1>9, <1>10, <2>1, UpTo
<1>12. QED
  BY <1>5, <1>6, <1>8, <1>11 DEF AsksAt, g, n

\* A reply settles that one, and brings no other up.
LEMMA BatchTakes ==
  ASSUME NEW ids, Len(ids) \in Nat, NEW to, NEW S, NEW rs \in Seq(S), NEW r \in S,
         ~r.ok => r.value # "ok", NEW m, AsksAt(ids, to, rs, m)
  PROVE  /\ m \notin Moved(ids, to, rs)
         /\ Moved(ids, to, Append(rs, r)) = Moved(ids, to, rs) \cup (IF r.ok THEN {m} ELSE {})
<1> DEFINE g == Batch(ids, to, rs)
           h == Batch(ids, to, Append(rs, r))
           N == Len(ids)
           how == IF r.ok THEN "ok" ELSE r.value
           A(n) == g[n].next = "done" /\ g[n].value[n].how = "ok"
           B(n) == h[n].next = "done" /\ h[n].value[n].how = "ok"
<1>1. \A n \in 0 .. N : n + 1 \in 0 .. N => h[n + 1] = MoveNext(ids[n + 1], to, h[n])
  BY BatchSteps, OneReply
<1>2. \A n \in 0 .. N : Grows(g[n], h[n], r, S)
  BY BatchGrows
<1>3. \A n \in 0 .. N : h[n].next = "done" => Tells(ids, h, n) /\ IsList(h[n].value)
  <2>1. Append(rs, r) \in Seq(S)
    BY OneReply
  <2>2. QED
    BY <2>1, BatchEntries, BatchLists
<1>4. /\ m \in 1 .. N
      /\ g[m - 1].next = "done" /\ g[m - 1].rest = <<>> /\ ~Left(g[m - 1].value)
      /\ \A n \in m .. N : g[n].next = "ask"
  BY StepFacts DEF AsksAt
<1>5. \A n \in 0 .. m - 1 : g[n].next = "done"
  <2>1. m - 1 \in 0 .. N
    BY <1>4
  <2>2. Tells(ids, g, m - 1)
    BY <1>4, <2>1, BatchEntries
  <2>3. g[0].next = "done"
    <3>1. g[0] = Done(<<>>, rs)
      BY BatchSteps
    <3>2. QED
      BY <3>1, StepFacts
  <2>4. \A n \in 1 .. m - 1 : g[n].next = "done"
    BY <2>2 DEF Tells
  <2>5. QED
    BY <1>4, <2>3, <2>4
<1> HIDE DEF g, h
<1>6. ASSUME NEW n \in 1 .. N, n < m
      PROVE  A(n) <=> B(n)
  <2>1. n \in 0 .. N /\ n \in 0 .. m - 1
    BY <1>4, <1>6
  <2>2. g[n].next = "done" /\ Grows(g[n], h[n], r, S)
    BY <1>2, <1>5, <2>1
  <2>3. h[n].next = "done" /\ h[n].value = g[n].value
    BY <2>2 DEF Grows
  <2>4. QED
    BY <2>2, <2>3
<1>7. B(m) <=> r.ok
  <2> DEFINE p == h[m - 1]
  <2>1. m - 1 \in 0 .. N /\ (m - 1) + 1 = m /\ m \in 0 .. N
    BY <1>4
  <2>2. h[m] = MoveNext(ids[m], to, p)
    BY <1>1, <2>1
  <2>3. p.next = "done" /\ p.rest = Append(<<>>, r) /\ p.value = g[m - 1].value
    BY <1>2, <1>4, <2>1 DEF Grows
  <2>4. IsList(p.value) /\ Len(p.value) = m - 1
    BY <1>3, <2>1, <2>3 DEF Tells
  <2>5. p.rest # <<>> /\ Head(p.rest) = r /\ Tail(p.rest) = <<>>
    BY <2>3, OneReply
  <2>a. ~Left(p.value)
    BY <1>4, <2>3
  <2> DEFINE q == h[m]
             e == Entry(ids[m], how)
  <2> HIDE DEF p, q, A, B
  <2>6. q = Done(Append(p.value, e), <<>>)
    <3>1. p.next = "done" /\ q = MoveNext(ids[m], to, p)
      BY <2>2, <2>3 DEF q
    <3>2. q = Done(Append(p.value, Entry(ids[m], IF Head(p.rest).ok THEN "ok" ELSE Head(p.rest).value)),
                   Tail(p.rest))
      BY <3>1, <2>5, <2>a, MoveNextEntry
    <3>3. QED
      BY <3>2, <2>5
  <2> HIDE DEF how, e
  <2>b. q.next = "done" /\ q.value = Append(p.value, e)
    BY <2>6, StepFacts
  <2>7. h[m].next = "done" /\ h[m].value = Append(p.value, Entry(ids[m], how))
    BY <2>b DEF q, e
  <2>8. h[m].value[m] = Entry(ids[m], how)
    BY <2>1, <2>4, <2>7, AppendFacts
  <2>9. h[m].value[m].how = how
    BY <2>8, EntryFacts
  <2>10. how = "ok" <=> r.ok
    BY DEF how
  <2>11. QED
    BY <2>7, <2>9, <2>10 DEF B
<1>8. ASSUME NEW n \in 1 .. N, m < n
      PROVE  ~A(n) /\ ~B(n)
  <2>1. n \in m .. N /\ n - 1 \in m .. N /\ n - 1 \in 0 .. N /\ (n - 1) + 1 = n /\ n \in 0 .. N
    BY <1>4, <1>8
  <2>2. g[n].next = "ask" /\ g[n - 1].next = "ask"
    BY <1>4, <2>1
  <2> SUFFICES ASSUME h[n].next = "done" PROVE h[n].value[n].how # "ok"
    BY <2>2
  <2> DEFINE p == h[n - 1]
  <2>3. h[n] = MoveNext(ids[n], to, p)
    BY <1>1, <2>1
  <2>4. p.next = "done"
    <3>1. p.next # "done" => MoveNext(ids[n], to, p) = p
      BY DEF MoveNext, Then
    <3>2. QED
      BY <2>3, <3>1
  <2>5. p.rest = <<>>
    BY <1>2, <2>1, <2>2, <2>4 DEF Grows
  <2>6. IsList(p.value) /\ Len(p.value) = n - 1
    BY <1>3, <2>1, <2>4 DEF Tells
  <2> HIDE DEF p
  <2>7. Left(p.value)
    <3>1. ~Left(p.value) => h[n] = Ask(Move(ids[n], to))
      BY <2>3, <2>4, <2>5, MoveNextEntry
    <3>2. QED
      BY <3>1, StepFacts
  <2> DEFINE e == Entry(ids[n], "skipped")
             q == h[n]
  <2>8. q = Done(Append(p.value, e), <<>>)
    BY <2>3, <2>4, <2>5, <2>7, MoveNextEntry
  <2> HIDE DEF e, q, A, B
  <2>a. q.value = Append(p.value, e)
    BY <2>8, StepFacts
  <2>9. h[n].value = Append(p.value, Entry(ids[n], "skipped"))
    BY <2>a DEF e, q
  <2>10. h[n].value[n] = Entry(ids[n], "skipped")
    BY <2>1, <2>6, <2>9, AppendFacts
  <2>11. QED
    BY <2>10, EntryFacts
<1>9. ~A(m)
  BY <1>4
<1>10. /\ Moved(ids, to, rs) = {n \in 1 .. N : A(n)}
       /\ Moved(ids, to, Append(rs, r)) = {n \in 1 .. N : B(n)}
  BY DEF Moved, g, h
<1> HIDE DEF A, B, N
<1>11. \A n \in 1 .. N : n # m => (A(n) <=> B(n))
  <2>1. \A n \in 1 .. N : n # m => n < m \/ m < n
    BY <1>4
  <2>2. QED
    BY <1>6, <1>8, <2>1
<1>12. QED
  BY <1>4, <1>7, <1>9, <1>10, <1>11

\* Before any reply none has been moved.
LEMMA BatchStarts ==
  ASSUME NEW ids, Len(ids) \in Nat, NEW to
  PROVE  Moved(ids, to, <<>>) = {}
<1> DEFINE g == Batch(ids, to, <<>>)
           N == Len(ids)
           P == {n \in 0 .. N : n = 0 \/ g[n].next = "ask"}
<1>1. /\ g[0] = Done(<<>>, <<>>)
      /\ \A n \in 0 .. N : n + 1 \in 0 .. N => g[n + 1] = MoveNext(ids[n + 1], to, g[n])
  BY BatchSteps
<1> HIDE DEF g
<1>2. 0 \in P
  OBVIOUS
<1>3. ASSUME NEW n \in 0 .. N, n + 1 \in 0 .. N, n \in P
      PROVE  n + 1 \in P
  <2>1. g[n + 1] = MoveNext(ids[n + 1], to, g[n])
    BY <1>1, <1>3
  <2>2. CASE n = 0
    <3> DEFINE p == g[0]
    <3>1. p.next = "done" /\ p.rest = <<>> /\ p.value = <<>>
      BY <1>1, StepFacts
    <3>2. ~Left(p.value) /\ g[1] = MoveNext(ids[1], to, p)
      BY <2>1, <2>2, <3>1 DEF Left
    <3> HIDE DEF p
    <3>3. g[1] = Ask(Move(ids[1], to))
      BY <3>1, <3>2, MoveNextEntry
    <3>4. QED
      BY <1>3, <2>2, <3>3, StepFacts
  <2>3. CASE n # 0
    <3>1. g[n].next = "ask"
      BY <1>3, <2>3
    <3>2. MoveNext(ids[n + 1], to, g[n]) = g[n]
      BY <3>1 DEF MoveNext, Then
    <3>3. QED
      BY <1>3, <2>1, <3>1, <3>2
  <2>4. QED
    BY <2>2, <2>3
<1>4. \A n \in 0 .. N : n \in P
  <2> HIDE DEF P
  <2>1. QED
    BY <1>2, <1>3, UpTo
<1>5. \A n \in 1 .. N : g[n].next # "done"
  BY <1>4
<1>6. QED
  BY <1>5 DEF Moved, g

\* The same of the handler, once it knows the place the messages go to.
BatchIds(a) == ParseMessageIDs(Arg(a, "message_ids", <<>>))
Ready(a)    == Len(BatchIds(a)) \in 1 .. MaxBatch /\ Arg(a, "destination", NoRef) # NoRef
PlaceOf(a, rs) == ResolveFolderRef(a.destination, FALSE, rs)
AllMoved(a, rs) ==
  {n \in 1 .. Len(BatchIds(a)) :
     /\ Ready(a) /\ PlaceOf(a, rs).next = "done"
     /\ n \in Moved(BatchIds(a), PlaceOf(a, rs).value.at, PlaceOf(a, rs).rest)}

\* Three parts of a call: the arguments, the place and the batch.
LEMMA MovesParts ==
  ASSUME NEW a, NEW rs
  PROVE  LET h     == MoveMessages(a, rs)
             p     == PlaceOf(a, rs)
             batch == MoveEach(BatchIds(a), p.value.at, p.rest)
         IN /\ ~Ready(a) \/ Bad(a, "shape") => h.next = "fail"
            /\ Ready(a) /\ ~Bad(a, "shape") =>
                 /\ p.next # "done" => h = p
                 /\ p.next = "done" /\ batch.next # "done" => h = batch
                 /\ p.next = "done" /\ batch.next = "done" =>
                      \/ h.next = "done" /\ h.value = batch.value
                      \/ h.next = "fail"
<1> DEFINE h     == MoveMessages(a, rs)
           p     == PlaceOf(a, rs)
           batch == MoveEach(BatchIds(a), p.value.at, p.rest)
           wrong == ~Ready(a) \/ Bad(a, "shape")
           why   == IF \E k \in DOMAIN batch.value : batch.value[k].how = "auth" THEN "auth"
                    ELSE "none moved"
<1>1. h = IF wrong THEN Fail("argument", rs)
          ELSE IF p.next # "done" THEN p
          ELSE IF batch.next # "done" THEN batch
          ELSE IF HasMoved(batch.value) THEN Done(batch.value, batch.rest) ELSE Fail(why, batch.rest)
  BY DEF MoveMessages, Then, HasMoved, BatchIds, Ready, PlaceOf
<1> HIDE DEF h, p, batch, why
<1>2. wrong => h.next = "fail"
  BY <1>1, Failing
<1>3. ~wrong /\ p.next = "done" /\ batch.next = "done" =>
        (h.next = "done" /\ h.value = batch.value) \/ h.next = "fail"
  BY <1>1, StepFacts
<1>4. QED
  BY <1>1, <1>2, <1>3, SMTT(30) DEF h, p, batch

LEMMA MovesBegin ==
  ASSUME NEW a, WellTyped(a)
  PROVE  AllMoved(a, <<>>) = {}
<1> SUFFICES ASSUME NEW n \in AllMoved(a, <<>>) PROVE FALSE
  OBVIOUS
<1> DEFINE p == PlaceOf(a, <<>>)
           to == p.value.at
<1>1. /\ Len(BatchIds(a)) \in Nat /\ Arg(a, "destination", NoRef) # NoRef
      /\ p.next = "done" /\ n \in Moved(BatchIds(a), to, p.rest)
  BY DEF AllMoved, Ready
<1>2. p.rest \in Seq({})
  <2>1. <<>> \in Seq({}) /\ Heard({})
    BY DEF Heard
  <2>2. Keeps(p, Reading, {})
    BY <1>1, <2>1, Destination, RefKeeps DEF PlaceOf
  <2>3. QED
    BY <1>1, <2>2 DEF Keeps
<1>3. p.rest = <<>>
  BY <1>2
<1> HIDE DEF p, to
<1>4. Moved(BatchIds(a), to, <<>>) = {}
  BY <1>1, BatchStarts
<1>5. QED
  BY <1>1, <1>3, <1>4

\* A reply to a reading request brings no message to its place, one to a move
\* the message that was asked for, if it says so.
LEMMA MovesTake ==
  ASSUME NEW a, WellTyped(a), NEW S, NEW rs \in Seq(S), NEW r \in S, Heard(S),
         ~r.ok => r.value # "ok", MoveMessages(a, rs).next = "ask"
  PROVE  LET req == MoveMessages(a, rs).req
         IN \/ req.op \in Reading /\ AllMoved(a, Append(rs, r)) = AllMoved(a, rs)
            \/ \E m \in 1 .. Len(BatchIds(a)) :
                 /\ req.op \notin Reading /\ req.at.id = BatchIds(a)[m] /\ m \notin AllMoved(a, rs)
                 /\ AllMoved(a, Append(rs, r)) = AllMoved(a, rs) \cup (IF r.ok THEN {m} ELSE {})
<1> DEFINE ids == BatchIds(a)
           h   == MoveMessages(a, rs)
           p   == PlaceOf(a, rs)
           q   == PlaceOf(a, Append(rs, r))
           batch == MoveEach(ids, p.value.at, p.rest)
           old == AllMoved(a, rs)
           new == AllMoved(a, Append(rs, r))
<1>1. Ready(a) /\ ~Bad(a, "shape")
  BY MovesParts
<1>2. /\ h.next = "ask"
      /\ p.next # "done" => h = p
      /\ p.next = "done" /\ batch.next # "done" => h = batch
      /\ p.next = "done" /\ batch.next = "done" => h.next # "ask"
  BY <1>1, MovesParts
<1>3. Len(ids) \in Nat
  BY <1>1 DEF Ready
<1>4. Grows(p, q, r, S) /\ Keeps(p, Reading, S)
  BY <1>1, Destination, RefGrows, RefKeeps DEF Ready, PlaceOf
<1>5. /\ old = {n \in 1 .. Len(ids) : p.next = "done" /\ n \in Moved(ids, p.value.at, p.rest)}
      /\ new = {n \in 1 .. Len(ids) : q.next = "done" /\ n \in Moved(ids, q.value.at, q.rest)}
  BY <1>1 DEF AllMoved
<1> SUFFICES \/ h.req.op \in Reading /\ new = old
             \/ \E m \in 1 .. Len(ids) :
                  /\ h.req.op \notin Reading /\ h.req.at.id = ids[m] /\ m \notin old
                  /\ new = old \cup (IF r.ok THEN {m} ELSE {})
  OBVIOUS
<1> HIDE DEF ids, h, p, q, old, new
<1>6. CASE p.next # "done"
  <2>1. p.next = "ask" /\ h.req.op \in Reading
    BY <1>2, <1>4, <1>6 DEF Keeps, Asks
  <2>2. old = {}
    BY <1>5, <1>6
  <2>3. q.next = "done" => Moved(ids, q.value.at, q.rest) = {}
    <3>1. q.next = "done" => q.rest = <<>>
      BY <1>4, <2>1 DEF Grows
    <3>2. Moved(ids, q.value.at, <<>>) = {}
      BY <1>3, BatchStarts
    <3>3. QED
      BY <3>1, <3>2
  <2>4. new = {}
    BY <1>5, <2>3
  <2>5. QED
    BY <2>1, <2>2, <2>4
<1>7. CASE p.next = "done"
  <2> DEFINE to == p.value.at
             s  == p.rest
  <2>1. s \in Seq(S) /\ q.rest = Append(s, r) /\ q.next = "done" /\ q.value.at = to
    BY <1>4, <1>7 DEF Grows
  <2>2. h = batch /\ batch.next = "ask"
    BY <1>2, <1>7
  <2>3. old = Moved(ids, to, s) /\ new = Moved(ids, to, Append(s, r))
    BY <1>5, <1>7, <2>1 DEF Moved
  <2>4. MoveEach(ids, to, s).next = "ask"
    BY <2>2
  <2> HIDE DEF to, s, batch
  <2>5. PICK m \in 1 .. Len(ids) : AsksAt(ids, to, s, m)
    BY <1>3, <2>1, <2>4, BatchAsks
  <2>6. /\ m \notin Moved(ids, to, s)
        /\ Moved(ids, to, Append(s, r)) = Moved(ids, to, s) \cup (IF r.ok THEN {m} ELSE {})
    <3>1. s \in Seq(S)
      BY <2>1
    <3>2. \A n : AsksAt(ids, to, s, n) =>
            /\ n \notin Moved(ids, to, s)
            /\ Moved(ids, to, Append(s, r)) = Moved(ids, to, s) \cup (IF r.ok THEN {n} ELSE {})
      <4>1. TAKE n
      <4>2. HAVE AsksAt(ids, to, s, n)
      <4>3. QED
        BY ONLY ZenonT(60), <1>3, <3>1, <4>2, BatchTakes, r \in S, ~r.ok => r.value # "ok"
    <3>3. QED
      BY <2>5, <3>2
  <2>7. h = Ask(Move(ids[m], to))
    <3>1. h = Batch(ids, to, s)[Len(ids)]
      BY <1>3, <2>2, BatchSteps DEF to, s, batch
    <3>2. Len(ids) \in m .. Len(ids)
      <4>1. m \in 1 .. Len(ids)
        OBVIOUS
      <4>2. QED
        BY <1>3, <4>1
    <3>3. QED
      BY <2>5, <3>1, <3>2 DEF AsksAt
  <2>8. h.req = Move(ids[m], to)
    BY <2>7, StepFacts
  <2>9. Move(ids[m], to).op = "move" /\ Move(ids[m], to).at.id = ids[m]
    BY DEF Move, ById
  <2>10. QED
    BY <2>3, <2>6, <2>8, <2>9 DEF Reading
<1>8. QED
  BY <1>6, <1>7

\* The answer is an account of just that.
LEMMA MovesTell ==
  ASSUME NEW a, WellTyped(a), NEW S, NEW rs \in Seq(S), Heard(S),
         MoveMessages(a, rs).next = "done"
  PROVE  LET v == MoveMessages(a, rs).value
         IN /\ DOMAIN v = 1 .. Len(BatchIds(a))
            /\ \A n \in 1 .. Len(BatchIds(a)) : v[n].id = BatchIds(a)[n]
            /\ AllMoved(a, rs) = {n \in 1 .. Len(BatchIds(a)) : v[n].how = "ok"}
<1> DEFINE ids == BatchIds(a)
           h   == MoveMessages(a, rs)
           v   == h.value
           p   == PlaceOf(a, rs)
           to  == p.value.at
           batch == MoveEach(ids, to, p.rest)
           g   == Batch(ids, to, p.rest)
           N   == Len(ids)
<1>1. Ready(a) /\ ~Bad(a, "shape")
  BY MovesParts
<1>2. N \in Nat /\ N \in 0 .. N
  BY <1>1 DEF Ready
<1>3. Keeps(p, Reading, S)
  BY <1>1, Destination, RefKeeps DEF Ready, PlaceOf
<1>4. /\ h.next = "done"
      /\ p.next # "done" => h = p
      /\ p.next = "done" /\ batch.next # "done" => h = batch
      /\ p.next = "done" /\ batch.next = "done" =>
           (h.next = "done" /\ v = batch.value) \/ h.next = "fail"
  BY <1>1, MovesParts
<1> SUFFICES /\ DOMAIN v = 1 .. N
             /\ \A n \in 1 .. N : v[n].id = ids[n]
             /\ AllMoved(a, rs) = {n \in 1 .. N : v[n].how = "ok"}
  OBVIOUS
<1>5. AllMoved(a, rs) = {n \in 1 .. N : p.next = "done" /\ n \in Moved(ids, to, p.rest)}
  BY <1>1 DEF AllMoved
<1>6. v = h.value
  OBVIOUS
<1> HIDE DEF h, v, p, ids
<1>7. p.next = "done" /\ p.rest \in Seq(S)
  BY <1>3, <1>4 DEF Keeps
<1>8. batch.next = "done" /\ v = batch.value
  <2> HIDE DEF batch
  <2>1. QED
    BY <1>4, <1>6, <1>7
<1> HIDE DEF to, N
<1>9. batch = g[N]
  BY <1>2, BatchSteps DEF N
<1>10. Tells(ids, g, N) /\ IsList(g[N].value)
  <2>1. g[N].next = "done"
    BY <1>8, <1>9
  <2>2. QED
    BY <1>2, <1>7, <2>1, BatchEntries, BatchLists DEF N
<1> HIDE DEF g, batch
<1>11. /\ Len(v) = N /\ IsList(v)
       /\ \A k \in 1 .. N : v[k].id = ids[k] /\ g[k].next = "done" /\ g[k].value[k] = v[k]
  BY <1>8, <1>9, <1>10 DEF Tells
<1>12. DOMAIN v = 1 .. N
  BY <1>11, ListFacts
<1>13. AllMoved(a, rs) = {n \in 1 .. N : g[n].next = "done" /\ g[n].value[n].how = "ok"}
  BY <1>5, <1>7 DEF Moved, N, g
<1>14. QED
  BY <1>11, <1>12, <1>13

\* What a request comes to: nothing is known yet, it is refused, or Graph says
\* that it has been carried out.
Unheard == UNCHANGED <<applied, lost>> \/ (Wrote /\ lost' = lost + 1)

LEMMA SendsTold ==
  ASSUME TypeOK, Sends
  PROVE  \/ Unheard /\ got' = got
         \/ Unheard /\ \E r : got' = Append(got, r) /\ ~r.ok /\ r.value \notin {"ok", "no account selected"}
         \/ /\ Reply(box, Step.req).ok /\ got' = Append(got, Reply(box, Step.req))
            /\ IF Step.req.op \in Reading THEN UNCHANGED <<applied, lost>>
               ELSE Wrote /\ lost' = lost
<1>1. CASE Serve
  <2> DEFINE r == Reply(box, Step.req)
  <2>1. Apply(Step.req, TRUE, FALSE) /\ got' = Append(got, r)
    BY <1>1 DEF Serve, Return
  <2>2. /\ r.ok => Accepts(box, Step.req)
        /\ Accepts(box, Step.req) => r.ok
        /\ ~r.ok => r.value = "refused"
    BY DEF Reply, Refused
  <2> HIDE DEF r
  <2>3. lost + 0 = lost
    BY LostIsCount
  <2>4. IF Accepts(box, Step.req) /\ Step.req.op \notin Reading THEN Wrote /\ lost' = lost + 0
        ELSE UNCHANGED <<applied, lost>>
    BY <2>1 DEF Apply, Wrote, Reading
  <2>5. CASE r.ok
    <3>1. IF Step.req.op \in Reading THEN UNCHANGED <<applied, lost>> ELSE Wrote /\ lost' = lost
      BY <2>2, <2>3, <2>4, <2>5
    <3>2. QED
      BY <2>1, <2>5, <3>1 DEF r
  <2>6. CASE ~r.ok
    <3>1. UNCHANGED <<applied, lost>> /\ r.value \notin {"ok", "no account selected"}
      BY <2>2, <2>4, <2>6
    <3>2. QED
      BY <2>1, <2>6, <3>1 DEF Unheard
  <2>7. QED
    BY <2>5, <2>6
<1>2. ASSUME NEW why, why \notin {"ok", "no account selected"}
      PROVE  ~Refused(why).ok /\ Refused(why).value \notin {"ok", "no account selected"}
  BY <1>2 DEF Refused
<1>3. CASE Throttle \/ TimeOut \/ Leave
  <2>1. \E arrived \in BOOLEAN : Apply(Step.req, arrived, TRUE)
    BY <1>3 DEF Throttle, TimeOut, Leave
  <2>2. Unheard
    BY <2>1 DEF Apply, Wrote, Reading, Unheard
  <2>3. got' = got \/ \E why \in {"unavailable", "timeout", "cancelled"} : got' = Append(got, Refused(why))
    BY <1>3 DEF Throttle, TimeOut, Leave, Return
  <2>4. QED
    BY <1>2, <2>2, <2>3
<1>4. CASE Unauthorized \/ Abandon
  <2>1. Unheard
    BY <1>4 DEF Unauthorized, Abandon, Unheard
  <2>2. \E why \in {"auth", "cancelled"} : got' = Append(got, Refused(why))
    BY <1>4 DEF Unauthorized, Abandon, Return
  <2>3. QED
    BY <1>2, <2>1, <2>2
<1>5. QED
  BY <1>1, <1>3, <1>4 DEF Sends

\* Every message that the handler has been told was moved is one that a request
\* moved; if no reply was lost there was one request for each.
Batching == phase = "run" /\ call.op = "mail.move_messages"
Booked(a, moved, done, unheard) ==
  /\ \A n \in moved : \E k \in DOMAIN done : done[k].at.id = BatchIds(a)[n]
  /\ unheard = 0 => Len(done) = Cardinality(moved)

AccountInv ==
  /\ Batching => Booked(Args, AllMoved(Args, got), applied, lost)
  /\ MovesAccounted

LEMMA BatchRuns ==
  ASSUME TypeOK, RightAccount, Batching
  PROVE  /\ WellTyped(Args) /\ IsList(got) /\ IsList(applied) /\ Step = MoveMessages(Args, got)
         /\ \A r : (~r.ok => r.value # "no account selected") =>
              \E S : got \in Seq(S) /\ r \in S /\ Heard(S)
         /\ IsFiniteSet(AllMoved(Args, got))
<1>1. phase = "run" /\ call.op = "mail.move_messages"
  BY DEF Batching
<1>2. call \in Calls /\ IsOperation(call.op) /\ IsList(got) /\ IsList(applied)
  BY <1>1, WhileRunning
<1>3. WellTyped(Args)
  BY <1>2, CallVerb DEF Args
<1>4. Step = MoveMessages(Args, got)
  BY <1>1 DEF Step, Handle, Args
<1>5. IsFiniteSet(AllMoved(Args, got))
  <2> DEFINE N == Len(BatchIds(Args))
  <2>1. CASE Ready(Args)
    <3>1. N \in Nat
      BY <2>1 DEF Ready
    <3>2. IsFiniteSet(1 .. N) /\ AllMoved(Args, got) \subseteq 1 .. N
      BY <3>1, FS_Interval DEF AllMoved
    <3>3. QED
      BY <3>2, FS_Subset
  <2>2. CASE ~Ready(Args)
    <3>1. AllMoved(Args, got) = {}
      BY <2>2 DEF AllMoved
    <3>2. QED
      BY <3>1, FS_EmptySet
  <2>3. QED
    BY <2>1, <2>2
<1>6. ASSUME NEW r, ~r.ok => r.value # "no account selected"
      PROVE  \E S : got \in Seq(S) /\ r \in S /\ Heard(S)
  <2> DEFINE S == {got[k] : k \in 1 .. Len(got)} \cup {r}
  <2>1. got \in Seq(S) /\ r \in S /\ Heard(S)
    BY <1>1, <1>6, Hearing
  <2> HIDE DEF S
  <2>2. QED
    BY <2>1
<1>7. QED
  BY <1>2, <1>3, <1>4, <1>5, <1>6

LEMMA MoveAccepted ==
  ASSUME NEW moved, IsFiniteSet(moved), NEW m, m \notin moved,
         NEW a, NEW u, NEW done, IsList(done), NEW w, w.at.id = BatchIds(a)[m],
         Booked(a, moved, done, u)
  PROVE  Booked(a, moved \cup {m}, Append(done, w), u)
<1> DEFINE t == Append(done, w)
           at(s, n) == \E k \in DOMAIN s : s[k].at.id = BatchIds(a)[n]
<1>1. /\ Len(done) \in Nat /\ DOMAIN done = 1 .. Len(done)
      /\ Len(t) = Len(done) + 1 /\ DOMAIN t = 1 .. Len(done) + 1
      /\ t[Len(done) + 1] = w /\ \A k \in 1 .. Len(done) : t[k] = done[k]
  BY ListFacts, AppendFacts DEF IsList
<1>2. Cardinality(moved \cup {m}) = Cardinality(moved) + 1
  BY FS_AddElement
<1> HIDE DEF t
<1>3. \A n \in moved : at(t, n)
  <2> SUFFICES ASSUME NEW n \in moved PROVE at(t, n)
    OBVIOUS
  <2>1. PICK k \in DOMAIN done : done[k].at.id = BatchIds(a)[n]
    BY DEF Booked
  <2>2. k \in DOMAIN t /\ t[k] = done[k]
    BY <1>1
  <2>3. QED
    BY <2>1, <2>2
<1>4. at(t, m)
  <2>1. Len(done) + 1 \in DOMAIN t
    BY <1>1
  <2>2. QED
    BY <1>1, <2>1
<1>5. u = 0 => Len(t) = Cardinality(moved \cup {m})
  BY <1>1, <1>2 DEF Booked
<1> HIDE DEF at
<1>6. \A n \in moved \cup {m} : at(t, n)
  BY <1>3, <1>4
<1>7. QED
  BY <1>5, <1>6 DEF Booked, t, at

\* A change that is not acknowledged leaves what is known in place.
LEMMA MoveUnheard ==
  ASSUME TypeOK, Unheard, NEW a, NEW moved, Booked(a, moved, applied, lost)
  PROVE  Booked(a, moved, applied', lost')
<1>1. CASE UNCHANGED <<applied, lost>>
  BY <1>1
<1>2. CASE Wrote /\ lost' = lost + 1
  <2>1. lost' # 0 /\ IsList(applied) /\ applied' = Append(applied, Step.req)
    BY <1>2, LostIsCount DEF Wrote
  <2>2. \A k \in DOMAIN applied : k \in DOMAIN applied' /\ applied'[k] = applied[k]
    <3>1. DOMAIN applied = 1 .. Len(applied) /\ Len(applied) \in Nat
      BY <2>1, ListFacts DEF IsList
    <3>2. QED
      BY <2>1, <3>1, AppendFacts
  <2>3. QED
    BY <2>1, <2>2 DEF Booked
<1>3. QED
  BY <1>1, <1>2 DEF Unheard

LEMMA SendsBooked ==
  ASSUME TypeOK, RightAccount, AccountInv, Sends
  PROVE  AccountInv'
<1>1. Asking /\ phase = "run" /\ UNCHANGED <<call, phase>>
  BY NewReply DEF Asking
<1>2. Args' = Args /\ Batching' = Batching
  BY <1>1 DEF Args, Batching
<1>3. MovesAccounted'
  BY <1>1 DEF MovesAccounted, Success, Answered
<1> SUFFICES ASSUME Batching PROVE Booked(Args, AllMoved(Args, got'), applied', lost')
  BY <1>2, <1>3 DEF AccountInv
<1> DEFINE old == AllMoved(Args, got)
           h   == MoveMessages(Args, got)
<1>4. Booked(Args, old, applied, lost)
  BY DEF AccountInv
<1>5. /\ WellTyped(Args) /\ IsList(applied) /\ Step = h /\ IsFiniteSet(old)
      /\ \A r : (~r.ok => r.value # "no account selected") =>
           \E S : got \in Seq(S) /\ r \in S /\ Heard(S)
  BY BatchRuns
<1>6. h.next = "ask"
  BY <1>1, <1>5 DEF Asking
\* What one more reply brings.
<1>7. ASSUME NEW r, ~r.ok => r.value \notin {"ok", "no account selected"}
      PROVE  \/ h.req.op \in Reading /\ AllMoved(Args, Append(got, r)) = old
             \/ \E m : /\ h.req.op \notin Reading /\ h.req.at.id = BatchIds(Args)[m] /\ m \notin old
                      /\ AllMoved(Args, Append(got, r)) = old \cup (IF r.ok THEN {m} ELSE {})
  <2>1. ~r.ok => r.value # "ok" /\ r.value # "no account selected"
    BY <1>7
  <2>2. PICK S : got \in Seq(S) /\ r \in S /\ Heard(S)
    BY <1>5, <2>1
  <2> HIDE DEF old
  <2>3. WellTyped(Args) /\ h.next = "ask" /\ (~r.ok => r.value # "ok")
    BY <1>5, <1>6, <2>1
  <2>4. \/ h.req.op \in Reading /\ AllMoved(Args, Append(got, r)) = AllMoved(Args, got)
        \/ \E m \in 1 .. Len(BatchIds(Args)) :
             /\ h.req.op \notin Reading /\ h.req.at.id = BatchIds(Args)[m] /\ m \notin AllMoved(Args, got)
             /\ AllMoved(Args, Append(got, r)) = AllMoved(Args, got) \cup (IF r.ok THEN {m} ELSE {})
    BY <2>2, <2>3, MovesTake
  <2>5. QED
    BY <2>4 DEF old
<1> HIDE DEF old, h
<1>8. CASE Unheard /\ got' = got
  BY <1>4, <1>8, MoveUnheard DEF old
<1>9. CASE Unheard /\ \E r : /\ got' = Append(got, r) /\ ~r.ok
                           /\ r.value \notin {"ok", "no account selected"}
  <2>1. PICK r : got' = Append(got, r) /\ ~r.ok /\ r.value \notin {"ok", "no account selected"}
    BY <1>9
  <2>2. AllMoved(Args, got') = old
    BY <1>7, <2>1
  <2>3. QED
    BY <1>4, <1>9, <2>2, MoveUnheard
<1>10. CASE /\ Reply(box, Step.req).ok /\ got' = Append(got, Reply(box, Step.req))
            /\ IF Step.req.op \in Reading THEN UNCHANGED <<applied, lost>>
               ELSE Wrote /\ lost' = lost
  <2> DEFINE r == Reply(box, Step.req)
  <2>1. r.ok /\ got' = Append(got, r)
    BY <1>10
  <2> HIDE DEF r
  <2>2. CASE h.req.op \in Reading
    <3>1. AllMoved(Args, got') = old
      BY <1>7, <2>1, <2>2
    <3>2. applied' = applied /\ lost' = lost
      BY <1>5, <1>10, <2>2
    <3>3. QED
      BY <1>4, <3>1, <3>2
  <2>3. CASE h.req.op \notin Reading
    <3>1. PICK m : /\ h.req.at.id = BatchIds(Args)[m] /\ m \notin old
                   /\ AllMoved(Args, got') = old \cup {m}
      BY <1>7, <2>1, <2>3
    <3>2. applied' = Append(applied, h.req) /\ lost' = lost
      BY <1>5, <1>10, <2>3 DEF Wrote
    <3>3. Booked(Args, old \cup {m}, Append(applied, h.req), lost)
      BY <1>4, <1>5, <3>1, MoveAccepted
    <3>4. QED
      BY <3>1, <3>2, <3>3
  <2>4. QED
    BY <2>2, <2>3
<1>11. QED
  BY <1>8, <1>9, <1>10, SendsTold

LEMMA OthersBooked ==
  ASSUME TypeOK, RightAccount, ReadInv, CleanInv, AccountInv,
         \/ Receive \/ Resolve \/ Enter \/ Conclude \/ SignedIn \/ NotSignedIn
         \/ Edit \/ Logout \/ Repeat \/ UNCHANGED vars
  PROVE  AccountInv'
<1>1. CASE Receive \/ Resolve \/ SignedIn \/ NotSignedIn \/ Repeat
  <2>1. phase' # "run" /\ (phase' # "answered" \/ ~answer'.ok)
    <3>1. CASE Receive
      <4>1. phase' = "resolve" \/ \E why : answer' = Refused(why) /\ phase' = "answered"
        BY <3>1 DEF Receive, Answer
      <4>2. QED
        BY <4>1, ReplyFacts
    <3>2. CASE Resolve
      BY <3>2 DEF Resolve, Answer
    <3>3. CASE SignedIn \/ NotSignedIn \/ Repeat
      <4>1. phase' = "resolve" \/ \E why : answer' = Refused(why) /\ phase' = "answered"
        BY <3>3 DEF SignedIn, NotSignedIn, Repeat, Answer
      <4>2. QED
        BY <4>1, ReplyFacts
    <3>4. QED
      BY <1>1, <3>1, <3>2, <3>3
  <2>2. QED
    BY <2>1 DEF AccountInv, Batching, MovesAccounted, Success, Answered
<1>2. CASE Enter
  <2>1. /\ phase = "enter" /\ UNCHANGED <<call, got, applied, lost>>
    BY <1>2 DEF Enter, server
  <2>2. got' = <<>> /\ (lost = 0 => applied = <<>>)
    BY <2>1 DEF ReadInv, CleanInv
  <2>3. phase' \in {"run", "answered"} /\ (phase' = "answered" => ~answer'.ok)
    <3>1. phase' = "run" \/ \E why : answer' = Refused(why) /\ phase' = "answered"
      BY <1>2 DEF Enter, Answer
    <3>2. QED
      BY <3>1, ReplyFacts
  <2>4. MovesAccounted'
    BY <2>3 DEF MovesAccounted, Success, Answered
  <2>5. call \in Calls /\ IsOperation(call.op) /\ Args' = Args
    BY <2>1 DEF TypeOK, Args
  <2>6. AllMoved(Args, <<>>) = {}
    BY <2>5, CallVerb, MovesBegin DEF Args
  <2>7. Booked(Args, {}, applied, lost)
    BY <2>2, FS_EmptySet, EmptyList DEF Booked
  <2>8. QED
    BY <2>1, <2>2, <2>4, <2>5, <2>6, <2>7 DEF AccountInv
<1>3. CASE Conclude
  <2>1. /\ phase = "run" /\ ~Asking /\ UNCHANGED <<call, got, applied, lost>> /\ phase' # "run"
        /\ \/ phase' = "reauth"
           \/ phase' = "answered" /\ answer'.ok = (Step.next = "done") /\ answer'.value = Step.value
    BY <1>3 DEF Conclude, Answer, server
  <2> DEFINE ids == BatchIds(Args)
             v == Step.value
  <2>2. ASSUME phase' = "answered", answer'.ok, call.op = "mail.move_messages"
        PROVE  /\ DOMAIN v = 1 .. Len(ids) /\ \A n \in 1 .. Len(ids) : v[n].id = ids[n]
               /\ Booked(Args, {n \in 1 .. Len(ids) : v[n].how = "ok"}, applied, lost)
    <3>1. Batching
      BY <2>1, <2>2 DEF Batching
    <3>2. /\ WellTyped(Args) /\ Step = MoveMessages(Args, got)
          /\ \E S : got \in Seq(S) /\ Heard(S)
      <4>1. \E r : ~r.ok => r.value # "no account selected"
        BY ReplyFacts
      <4>2. QED
        BY <3>1, <4>1, BatchRuns
    <3>3. MoveMessages(Args, got).next = "done"
      BY <2>1, <2>2, <3>2
    <3>4. /\ DOMAIN v = 1 .. Len(ids) /\ \A n \in 1 .. Len(ids) : v[n].id = ids[n]
          /\ AllMoved(Args, got) = {n \in 1 .. Len(ids) : v[n].how = "ok"}
      BY <3>2, <3>3, MovesTell
    <3>5. Booked(Args, AllMoved(Args, got), applied, lost)
      BY <3>1 DEF AccountInv
    <3>6. QED
      BY <3>4, <3>5
  <2> HIDE DEF v
  <2>3. MovesAccounted'
    <3> SUFFICES ASSUME phase' = "answered", answer'.ok, call'.op = "mail.move_messages"
                 PROVE  LET is == ParseMessageIDs(Arg(Args', "message_ids", <<>>))
                            ok == {n \in 1 .. Len(is) : answer'.value[n].how = "ok"}
                        IN /\ DOMAIN answer'.value = 1 .. Len(is)
                           /\ \A n \in 1 .. Len(is) : answer'.value[n].id = is[n]
                           /\ \A n \in ok : \E k \in DOMAIN applied' : applied'[k].at.id = is[n]
                           /\ lost' = 0 => Len(applied') = Cardinality(ok)
      BY DEF MovesAccounted, Success, Answered, Op
    <3>1. /\ call.op = "mail.move_messages" /\ answer'.value = v /\ applied' = applied /\ lost' = lost
          /\ ParseMessageIDs(Arg(Args', "message_ids", <<>>)) = ids
      BY <2>1 DEF v, Args, BatchIds
    <3> HIDE DEF ids
    <3>2. QED
      BY <2>2, <3>1 DEF Booked, ids
  <2>4. QED
    BY <2>1, <2>3 DEF AccountInv, Batching
<1>4. CASE Edit \/ Logout \/ UNCHANGED vars
  <2>1. UNCHANGED <<call, phase, got, applied, lost, answer>>
    BY <1>4 DEF Edit, Logout, vars, server
  <2>2. Args' = Args /\ Batching' = Batching
    BY <2>1 DEF Args, Batching
  <2>3. MovesAccounted'
    BY <2>1, <2>2 DEF AccountInv, MovesAccounted, Success, Answered, Op
  <2>4. QED
    BY <2>1, <2>2, <2>3 DEF AccountInv
<1>5. QED
  BY <1>1, <1>2, <1>3, <1>4

LEMMA NextBooked ==
  ASSUME TypeOK, RightAccount, ReadInv, CleanInv, AccountInv, [Next]_vars
  PROVE  AccountInv'
<1>1. CASE Sends
  BY <1>1, SendsBooked
<1>2. CASE ~Sends
  BY <1>2, OthersBooked DEF Next, Sends, Rest
<1>3. QED
  BY <1>1, <1>2

LEMMA InitBooked == Init => AccountInv
BY DEF Init, AccountInv, Batching, MovesAccounted, Success, Answered

\* The account that mail.move_messages gives of a batch is true: it names every
\* message of the batch in order, every message it calls moved was moved by a
\* request of the call, and unless a reply was lost there is one request for
\* each of them and no other.
THEOREM MovesAreAccounted == Spec => []MovesAccounted
<1>1. ToolInv /\ ReadInv /\ CleanInv /\ AccountInv /\ [Next]_vars => CleanInv' /\ AccountInv'
  BY NextClean, NextBooked DEF ToolInv
<1>2. AccountInv => MovesAccounted
  BY DEF AccountInv
<1>3. QED
  BY <1>1, <1>2, InitClean, InitBooked, ReadsAgree, PTL DEF Spec

-------------------------------------------------------------------------------
\* The same change again: fields that are set once more, an item that is taken
\* away once more.
Settling(w) ==
  \/ w.op \in {"patch", "act"} /\ Proper(w)
  \/ w.op \in {"delete", "cancel"} /\ w.at = ById(w.at.id) /\ w.at.id # 0
Harmless(b, w) == Accepts(b, w) => Effect(b, w).items = b.items

LEMMA WithTwice ==
  ASSUME NEW item, NEW fs
  PROVE  With(With(item, fs), fs) = With(item, fs)
<1> DEFINE one == With(item, fs)
           two == With(one, fs)
<1>1. /\ DOMAIN one = DOMAIN item \cup DOMAIN fs
      /\ \A f \in DOMAIN fs : one[f] = fs[f]
  BY ZenonT(60), WithFacts
<1>2. one = [f \in DOMAIN one |-> one[f]]
  BY DEF With
<1> HIDE DEF one
<1>3. /\ DOMAIN two = DOMAIN one \cup DOMAIN fs
      /\ \A f \in DOMAIN fs : two[f] = fs[f]
      /\ \A f \in DOMAIN one \ DOMAIN fs : two[f] = one[f]
  BY WithFacts
<1>4. two = [f \in DOMAIN two |-> two[f]]
  BY DEF With
<1> HIDE DEF two
<1>5. DOMAIN two = DOMAIN one /\ \A f \in DOMAIN one : two[f] = one[f]
  BY <1>1, <1>3
<1>6. two = one
  BY <1>2, <1>4, <1>5
<1>7. QED
  BY <1>6 DEF one, two

\* The items once fields of one are set.
SetItems(b, id, fs) == [i \in Ids(b) |-> IF i = id THEN With(b.items[id], fs) ELSE b.items[i]]

LEMMA SetsItems ==
  ASSUME NEW b, Consistent(b), NEW w, w.op \in {"patch", "act"}, Proper(w), w.at.id \in Ids(b)
  PROVE  Effect(b, w).items = SetItems(b, w.at.id, w.fields)
<1> DEFINE id   == w.at.id
           item == With(b.items[id], w.fields)
           b2   == Put(b, id, item)
<1>1. "in" \in DOMAIN item /\ item.in \in Nat
  <2>1. "in" \notin DOMAIN w.fields
    BY DEF Proper
  <2>2. "in" \in DOMAIN b.items[id] /\ b.items[id].in \in Nat
    BY SMTT(30) DEF Consistent
  <2>3. QED
    BY <2>1, <2>2 DEF With
<1>2. \E yes : Effect(b, w) = Notify(b2, yes)
  BY DEF Effect
<1>3. b2.items = [i \in Ids(b) \cup {id} |-> IF i = id THEN item ELSE b.items[i]]
  BY DEF Put, Consistent
<1>4. Ids(b) \cup {id} = Ids(b)
  OBVIOUS
<1>5. Consistent(b2)
  <2> HIDE DEF item
  <2>1. QED
    BY <1>1, PutKeeps
<1> HIDE DEF b2
<1>6. Effect(b, w).items = b2.items
  BY <1>2, <1>5, NotifyFacts
<1>7. QED
  BY <1>3, <1>4, <1>6 DEF SetItems

LEMMA SetTwice ==
  ASSUME NEW b, Consistent(b), NEW w, w.op \in {"patch", "act"}, Proper(w), Accepts(b, w)
  PROVE  Harmless(Effect(b, w), w)
<1> DEFINE id == w.at.id
           fs == w.fields
           b2 == Effect(b, w)
<1>1. id \in Ids(b)
  BY AnItem
<1>2. Consistent(b2) /\ Ids(b2) = Ids(b)
  BY SetEffect
<1>3. b2.items = SetItems(b, id, fs)
  BY <1>1, SetsItems
<1> HIDE DEF b2, id, fs
<1>4. Effect(b2, w).items = SetItems(b2, id, fs)
  BY <1>1, <1>2, SetsItems DEF id, fs
<1>5. b2.items[id] = With(b.items[id], fs)
  BY <1>1, <1>3 DEF SetItems
<1>6. With(b2.items[id], fs) = b2.items[id]
  BY <1>5, WithTwice
<1>7. SetItems(b2, id, fs) = [i \in Ids(b2) |-> b2.items[i]]
  BY <1>6 DEF SetItems
<1>8. b2.items = [i \in Ids(b2) |-> b2.items[i]]
  BY <1>2, <1>3 DEF SetItems
<1>9. QED
  BY <1>4, <1>7, <1>8 DEF Harmless, b2

\* The way up from an item begins at the item.
Upwards(b, id, m, g) ==
  g = [n \in 0 .. m |-> IF n = 0 THEN id
                        ELSE LET in == g[n - 1] IN IF in = 0 THEN 0 ELSE b.items[in].in]

LEMMA UpRuns ==
  ASSUME NEW b, NEW id, NEW N \in Nat
  PROVE  \E g : Upwards(b, id, N, g)
<1> DEFINE P == {m \in 0 .. N : \E g : Upwards(b, id, m, g)}
<1>1. 0 \in P
  <2>1. Upwards(b, id, 0, [i \in 0 .. 0 |-> id])
    BY DEF Upwards
  <2>2. QED
    BY <2>1
<1>2. ASSUME NEW n \in 0 .. N, n + 1 \in 0 .. N, n \in P
      PROVE  n + 1 \in P
  <2>1. PICK g : Upwards(b, id, n, g)
    BY <1>2
  <2> DEFINE up(x) == IF x = 0 THEN 0 ELSE b.items[x].in
             h == [i \in 0 .. n + 1 |-> IF i = n + 1 THEN up(g[n]) ELSE g[i]]
             At(f, i) == IF i = 0 THEN id ELSE up(f[i - 1])
  <2>2. \A i \in 0 .. n : g[i] = At(g, i)
    BY <2>1 DEF Upwards
  <2> HIDE DEF up
  <2>3. \A i \in 0 .. n + 1 : h[i] = At(h, i)
    <3> SUFFICES ASSUME NEW i \in 0 .. n + 1 PROVE h[i] = At(h, i)
      OBVIOUS
    <3>1. i # 0 => h[i - 1] = g[i - 1]
      OBVIOUS
    <3>2. CASE i = n + 1
      BY <3>1, <3>2
    <3>3. CASE i # n + 1
      BY <2>2, <3>1, <3>3
    <3>4. QED
      BY <3>2, <3>3
  <2>4. h = [i \in 0 .. n + 1 |-> At(h, i)]
    BY <2>3
  <2>5. Upwards(b, id, n + 1, h)
    BY <2>4 DEF Upwards, up
  <2>6. QED
    BY <1>2, <2>5
<1>3. N \in P
  <2> HIDE DEF P
  <2>1. \A n \in 0 .. N : n \in P
    BY <1>1, <1>2, UpTo
  <2>2. QED
    BY <2>1
<1>4. QED
  BY <1>3

LEMMA OnItself ==
  ASSUME NEW b, Consistent(b), NEW id \in Ids(b), id # 0
  PROVE  id \in Subtree(b, id)
<1> DEFINE folders == {i \in Ids(b) : b.items[i].kind = "folder"}
           N == Cardinality(folders) + 1
           g == CHOOSE g : Upwards(b, id, N, g)
<1>1. N \in Nat
  <2>1. IsFiniteSet(folders)
    BY FS_Subset DEF Consistent
  <2>2. Cardinality(folders) \in Nat
    BY <2>1, FS_CardinalityType
  <2>3. QED
    BY <2>2
<1>2. Upwards(b, id, N, g)
  BY <1>1, UpRuns
<1>3. Above(b, id) = {g[n] : n \in DOMAIN g} \ {0}
  BY DEF Above, Upwards
<1> HIDE DEF g, N
<1>4. DOMAIN g = 0 .. N /\ g[0] = id
  BY <1>1, <1>2 DEF Upwards
<1>5. id \in Above(b, id)
  BY <1>1, <1>3, <1>4
<1>6. QED
  BY <1>5 DEF Subtree

LEMMA TakeTwice ==
  ASSUME NEW b, Consistent(b), NEW w, w.op \in {"delete", "cancel"}, w.at = ById(w.at.id), w.at.id # 0,
         Accepts(b, w)
  PROVE  ~Accepts(Effect(b, w), w)
<1> DEFINE id == w.at.id
           b2 == Drop(b, Subtree(b, id))
<1>1. \A c : Target(c, w.at) = id
  <2>1. ById(id).key = "" /\ ById(id).id = id
    BY DEF ById
  <2>2. QED
    BY <2>1 DEF Target
<1>2. \A c : Accepts(c, w) => id \in Ids(c)
  BY <1>1 DEF Accepts, IsA
<1>3. id \in Subtree(b, id)
  BY <1>2, OnItself
<1>4. Consistent(b2) /\ Ids(b2) = Ids(b) \ Subtree(b, id)
  BY DropFacts
<1>5. \E yes : Effect(b, w) = Notify(b2, yes)
  BY <1>1 DEF Effect
<1> HIDE DEF b2
<1>6. Ids(Effect(b, w)) = Ids(b2)
  BY <1>4, <1>5, NotifyFacts DEF Ids
<1>7. QED
  BY <1>2, <1>3, <1>4, <1>6

LEMMA WriteTwice ==
  ASSUME NEW b, Consistent(b), NEW w, Settling(w), Accepts(b, w)
  PROVE  Harmless(Effect(b, w), w)
<1>1. CASE w.op \in {"patch", "act"} /\ Proper(w)
  BY <1>1, SetTwice
<1>2. CASE w.op \in {"delete", "cancel"} /\ w.at = ById(w.at.id) /\ w.at.id # 0
  <2>1. ~Accepts(Effect(b, w), w)
    BY <1>2, TakeTwice
  <2>2. QED
    BY <2>1 DEF Harmless
<1>3. QED
  BY <1>1, <1>2 DEF Settling

-------------------------------------------------------------------------------
\* Calls whose hint says that they may be repeated and that change something: a
\* change at once, or after the item has been read; a folder to delete is given
\* by its ID.
ChangeOps ==
  {"calendar.update_event", "calendar.update_meeting", "calendar.delete_event",
   "calendar.cancel_meeting", "calendar.respond_event"}
ByItsId(c) ==
  LET ref == Arg(c.args, "folder", NoRef)
  IN /\ c.op = "mail.delete_folder" /\ ref.id # 0 /\ Len(ref.parts) <= 1
     /\ Len(ref.parts) = 1 => ~IsWellKnown(ref.parts[1])
Direct(c)  == c.op \in ChangeOps \/ ByItsId(c)
Settles(c) == Direct(c) \/ c.op \in DraftOps \cup RescheduleOps

Handled(c, rs) == Handle(c.op, c.args, rs)
Form(c, wrong, req) ==
  /\ wrong \/ Settling(req)
  /\ \A x : Handled(c, x) = IF wrong THEN Fail("argument", x) ELSE Request(req, x)

LEMMA SettlingRequests ==
  /\ \A kind, id, fs : "in" \notin DOMAIN fs => Settling(Patch(kind, id, fs))
  /\ \A kind, id : id # 0 => Settling(Delete(kind, ById(id)))
  /\ \A id : id # 0 => Settling(Cancel(id))
  /\ \A id, fs, mail : "in" \notin DOMAIN fs => Settling(Act(id, fs, mail))
<1>1. \A kind, id, fs : "in" \notin DOMAIN fs => Settling(Patch(kind, id, fs))
  BY Requests DEF Settling
<1>2. \A id : ById(id).id = id
  BY DEF ById
<1>3. \A kind, at : Delete(kind, at).op = "delete" /\ Delete(kind, at).at = at
  BY DEF Delete
<1>4. \A id : Cancel(id).op = "cancel" /\ Cancel(id).at = ById(id)
  BY DEF Cancel
<1>5. \A id, fs, mail : "in" \notin DOMAIN fs => Settling(Act(id, fs, mail))
  BY Requests DEF Settling
<1>6. \A kind, id : id # 0 => Settling(Delete(kind, ById(id)))
  BY <1>2, <1>3 DEF Settling
<1>7. \A id : id # 0 => Settling(Cancel(id))
  BY <1>2, <1>4 DEF Settling
<1>8. QED
  BY <1>1, <1>5, <1>6, <1>7

LEMMA FolderForm ==
  ASSUME NEW c, ByItsId(c)
  PROVE  \E wrong, req : Form(c, wrong, req)
<1> DEFINE a == c.args
           ref == Arg(a, "folder", NoRef)
           place == Place(ById(ref.id), <<>>)
           wrong == ref = NoRef \/ Bad(a, "shape")
           req == Delete("folder", ById(ref.id))
<1>1. \A x : Handled(c, x) = DeleteFolder(a, x)
  BY DEF ByItsId, Handle, Handled
<1>2. \A x : ResolveFolderRef(ref, FALSE, x) = Done(place, x)
  BY DEF ByItsId, ResolveFolderRef, PassThroughId
<1>3. place.at = ById(ref.id)
  BY DEF Place
<1>4. Settling(req)
  BY SettlingRequests DEF ByItsId
<1>5. ASSUME NEW x
      PROVE  Handled(c, x) = IF wrong THEN Fail("argument", x) ELSE Request(req, x)
  <2> DEFINE found == ResolveFolderRef(ref, FALSE, x)
  <2>1. Handled(c, x) = IF wrong THEN Fail("argument", x)
                        ELSE IF found.next = "done" THEN Request(Delete("folder", found.value.at), found.rest)
                        ELSE found
    BY <1>1 DEF DeleteFolder, Then
  <2>2. found.next = "done" /\ found.value = place /\ found.rest = x
    <3>1. found = Done(place, x)
      BY <1>2
    <3> HIDE DEF found, place
    <3>2. QED
      BY <3>1, StepFacts
  <2> HIDE DEF found, place, wrong
  <2>3. QED
    BY <1>3, <2>1, <2>2
<1> HIDE DEF wrong, req
<1>6. Form(c, wrong, req)
  BY <1>4, <1>5 DEF Form
<1>7. QED
  BY <1>6

LEMMA DirectAsks ==
  ASSUME NEW c, Direct(c)
  PROVE  \E wrong, req : Form(c, wrong, req)
<1> DEFINE a  == c.args
           id == EventID(a)
           wrong == Bad(a, "shape") \/ id = 0
<1>1. CASE c.op \in {"calendar.update_event", "calendar.update_meeting"}
  <2> DEFINE req == Patch("event", id, EventPatch(a))
  <2>1. \A x : Handled(c, x) = IF wrong THEN Fail("argument", x) ELSE Request(req, x)
    BY <1>1 DEF Handled, Handle, HandleUpdateEvent
  <2>2. Settling(req)
    BY EventPatchKeepsPlace, SettlingRequests
  <2> HIDE DEF req, wrong
  <2>3. QED
    BY <2>1, <2>2 DEF Form
<1>2. CASE c.op = "calendar.delete_event"
  <2> DEFINE req == Delete("event", ById(id))
  <2>1. \A x : Handled(c, x) = IF wrong THEN Fail("argument", x) ELSE Request(req, x)
    BY <1>2 DEF Handled, Handle, HandleDeleteEvent
  <2>2. wrong \/ Settling(req)
    BY SettlingRequests
  <2> HIDE DEF req, wrong
  <2>3. QED
    BY <2>1, <2>2 DEF Form
<1>3. CASE c.op = "calendar.cancel_meeting"
  <2> DEFINE req == Cancel(id)
  <2>1. \A x : Handled(c, x) = IF wrong THEN Fail("argument", x) ELSE Request(req, x)
    BY <1>3 DEF Handled, Handle, HandleCancelEvent
  <2>2. wrong \/ Settling(req)
    BY SettlingRequests
  <2> HIDE DEF req, wrong
  <2>3. QED
    BY <2>1, <2>2 DEF Form
<1>4. CASE c.op = "calendar.respond_event"
  <2> DEFINE fs  == [response |-> a.response]
             req == Act(id, fs, Arg(a, "send_response", TRUE))
             no  == wrong \/ Arg(a, "response", "") \notin {"accept", "tentative", "decline"}
  <2>1. \A x : Handled(c, x) = IF no THEN Fail("argument", x) ELSE Request(req, x)
    BY <1>4 DEF Handled, Handle, HandleRespondEvent
  <2>2. "in" \notin DOMAIN fs
    OBVIOUS
  <2>3. Settling(req)
    <3> HIDE DEF fs
    <3>1. QED
      BY <2>2, SettlingRequests
  <2> HIDE DEF req, no
  <2>4. QED
    BY <2>1, <2>3 DEF Form
<1>5. CASE ByItsId(c)
  BY <1>5, FolderForm
<1>6. QED
  BY <1>1, <1>2, <1>3, <1>4, <1>5 DEF Direct, ChangeOps

\* A change at once, and no more after the first reply.
LEMMA DirectSteps ==
  ASSUME NEW c, Direct(c), NEW rs, Handled(c, rs).next = "ask"
  PROVE  rs = <<>> /\ Settling(Handled(c, rs).req)
<1>1. PICK wrong, req : Form(c, wrong, req)
  BY DirectAsks
<1>2. Handled(c, rs) = IF wrong THEN Fail("argument", rs) ELSE Request(req, rs)
  BY <1>1 DEF Form
<1>3. ~wrong
  BY <1>2, Failing
<1>4. Handled(c, rs) = Request(req, rs) /\ Settling(req)
  BY <1>1, <1>2, <1>3 DEF Form
<1>5. CASE rs = <<>>
  <2>1. Handled(c, rs) = Ask(req)
    BY <1>4, <1>5, RequestSteps
  <2>2. QED
    BY <1>4, <1>5, <2>1, StepFacts
<1>6. CASE rs # <<>>
  <2>1. Handled(c, rs) \in {Done(Head(rs).value, Tail(rs)), Fail(Head(rs).value, Tail(rs))}
    BY <1>4, <1>6, RequestSteps
  <2>2. Handled(c, rs).next # "ask"
    BY <2>1, StepFacts
  <2>3. QED
    BY <2>2
<1>7. QED
  BY <1>5, <1>6

\* One change after the item has been read, and no more after its reply.
LEMMA CarefulEnds ==
  ASSUME NEW c, c.op \in DraftOps \cup RescheduleOps, NEW S, NEW rs \in Seq(S),
         Handled(c, rs).next = "ask", rs # <<>>
  PROVE  Tail(rs) = <<>>
<1> DEFINE a == c.args
           mid == MessageID(a)
           eid == EventID(a)
           seen == VerifyIsDraft(mid, rs)
           read == Request(Get("event", eid), rs)
           h == Handled(c, rs)
<1>1. \A req : Tail(rs) # <<>> => Request(req, Tail(rs)).next # "ask"
  <2> SUFFICES ASSUME NEW req, Tail(rs) # <<>>
               PROVE  Request(req, Tail(rs)).next # "ask"
    OBVIOUS
  <2> DEFINE t == Tail(rs)
  <2>1. Request(req, t) \in {Done(Head(t).value, Tail(t)), Fail(Head(t).value, Tail(t))}
    BY RequestSteps
  <2> HIDE DEF t
  <2>2. Request(req, t).next # "ask"
    BY <2>1, StepFacts
  <2>3. QED
    BY <2>2 DEF t
<1>2. seen.next \in {"done", "fail"} /\ (seen.next = "done" => seen.rest = Tail(rs))
  <2> DEFINE t == Tail(rs)
  <2>1. \E v : seen = Done(v, t) \/ seen.next = "fail"
    BY VerifySteps
  <2>2. PICK v : seen = Done(v, t) \/ seen.next = "fail"
    BY <2>1
  <2> HIDE DEF seen, t
  <2>3. seen = Done(v, t) => seen.next = "done" /\ seen.rest = t
    BY StepFacts
  <2>4. QED
    BY <2>2, <2>3 DEF t
<1>3. read.next \in {"done", "fail"} /\ read.rest = Tail(rs)
  <2> DEFINE t == Tail(rs)
  <2>1. \E v : read = Done(v, t) \/ read = Fail(v, t)
    BY RequestSteps
  <2>2. PICK v : read = Done(v, t) \/ read = Fail(v, t)
    BY <2>1
  <2> HIDE DEF read, t
  <2>3. /\ read = Done(v, t) => read.next = "done" /\ read.rest = t
        /\ read = Fail(v, t) => read.next = "fail" /\ read.rest = t
    BY StepFacts
  <2>4. QED
    BY <2>2, <2>3 DEF t
<1> HIDE DEF seen, read
<1>4. CASE c.op = "mail.update_draft"
  <2>1. h = UpdateDraft(a, rs)
    BY <1>4 DEF Handled, Handle
  <2>2. \/ \E x : h = Fail("argument", x)
        \/ seen.next # "done" /\ h = seen
        \/ \E req : seen.next = "done" /\ h = Request(req, seen.rest)
    BY <2>1 DEF UpdateDraft, Then, seen
  <2>3. QED
    BY <1>1, <1>2, <2>2, Failing
<1>5. CASE c.op = "mail.delete_draft"
  <2>1. h = DeleteDraft(a, rs)
    BY <1>5 DEF Handled, Handle
  <2>2. \/ \E x : h = Fail("argument", x)
        \/ seen.next # "done" /\ h = seen
        \/ \E req : seen.next = "done" /\ h = Request(req, seen.rest)
    BY <2>1 DEF DeleteDraft, Then, seen
  <2>3. QED
    BY <1>1, <1>2, <2>2, Failing
<1>6. CASE c.op \in RescheduleOps
  <2>1. h = HandleRescheduleEvent(a, rs)
    BY <1>6 DEF Handled, Handle, RescheduleOps
  <2>2. \/ \E x : h = Fail("argument", x)
        \/ read.next # "done" /\ h = read
        \/ \E req : read.next = "done" /\ h = Request(req, read.rest)
    BY <2>1 DEF HandleRescheduleEvent, Then, read
  <2>3. QED
    BY <1>1, <1>3, <2>2, Failing
<1>7. QED
  BY <1>4, <1>5, <1>6 DEF DraftOps

LEMMA OneTold ==
  ASSUME NEW r
  PROVE  /\ <<r>> \in Seq({r}) /\ <<r>> # <<>> /\ <<r>>[1] = r /\ Tail(<<r>>) = <<>>
         /\ Append(<<>>, r) = <<r>>
OBVIOUS

LEMMA NoneTold ==
  ASSUME NEW S
  PROVE  <<>> \in Seq(S)
OBVIOUS

LEMMA CarefulBegins ==
  ASSUME NEW c, c.op \in DraftOps \cup RescheduleOps, Handled(c, <<>>).next = "ask"
  PROVE  /\ c.op \in DraftOps => Handled(c, <<>>).req = Get("message", MessageID(c.args))
         /\ c.op \in RescheduleOps => Handled(c, <<>>).req = Get("event", EventID(c.args))
<1>1. <<>> \in Seq({})
  BY NoneTold
<1>2. Handle(c.op, c.args, <<>>).next = "ask"
  BY DEF Handled
<1>3. c.op \in DraftOps => Handle(c.op, c.args, <<>>).req = Get("message", MessageID(c.args))
  BY <1>1, <1>2, DraftAsks
<1>4. c.op \in RescheduleOps => Handle(c.op, c.args, <<>>).req = Get("event", EventID(c.args))
  BY <1>1, <1>2, RescheduleAsks
<1>5. QED
  BY <1>3, <1>4 DEF Handled

\* The change that a verb of the drafts makes in the end.
DraftChange(c) ==
  IF c.op = "mail.update_draft" THEN Patch("message", MessageID(c.args), Given(c.args, DraftFields))
  ELSE Delete("message", ById(MessageID(c.args)))

LEMMA DraftChanges ==
  ASSUME NEW c, c.op \in DraftOps, NEW r, Handled(c, <<r>>).next = "ask"
  PROVE  Handled(c, <<r>>).req = DraftChange(c) /\ Settling(DraftChange(c))
<1> DEFINE a == c.args
           id == MessageID(a)
           rs == <<r>>
           seen == VerifyIsDraft(id, rs)
           h == Handled(c, rs)
           req == DraftChange(c)
<1>1. \/ h.next = "fail"
      \/ seen.next # "done" /\ h = seen
      \/ seen.next = "done" /\ h = Request(req, seen.rest) /\ id # 0
  <2>1. CASE c.op = "mail.update_draft"
    <3>1. h = UpdateDraft(a, rs)
      BY <2>1 DEF Handled, Handle
    <3>2. \/ \E x : h = Fail("argument", x)
          \/ seen.next # "done" /\ h = seen
          \/ seen.next = "done" /\ h = Request(req, seen.rest) /\ id # 0
      BY <2>1, <3>1 DEF UpdateDraft, Then, DraftChange
    <3> HIDE DEF h, seen, req
    <3>3. QED
      BY <3>2, Failing
  <2>2. CASE c.op = "mail.delete_draft"
    <3>1. h = DeleteDraft(a, rs) /\ req = Delete("message", ById(id))
      BY <2>2 DEF Handled, Handle, DraftChange
    <3>2. \/ \E x : h = Fail("argument", x)
          \/ seen.next # "done" /\ h = seen
          \/ seen.next = "done" /\ h = Request(req, seen.rest) /\ id # 0
      BY <3>1 DEF DeleteDraft, Then
    <3> HIDE DEF h, seen, req
    <3>3. QED
      BY <3>2, Failing
  <2>3. QED
    BY <2>1, <2>2 DEF DraftOps
<1>2. rs \in Seq({r}) /\ rs # <<>> /\ Tail(rs) = <<>>
  BY OneTold
<1> HIDE DEF rs
<1>3. \/ \E v : seen = Done(v, <<>>)
      \/ seen.next = "fail"
  BY <1>2, VerifySteps
<1> HIDE DEF seen, h
<1>4. seen.next = "done" => seen.rest = <<>>
  <2>1. PICK v : seen = Done(v, <<>>) \/ seen.next = "fail"
    BY <1>3
  <2>2. QED
    BY <2>1, StepFacts
<1>5. seen.next # "ask"
  <2>1. PICK v : seen = Done(v, <<>>) \/ seen.next = "fail"
    BY <1>3
  <2>2. QED
    BY <2>1, StepFacts
<1>6. h.next = "ask"
  BY DEF h, rs
<1>7. h = Request(req, <<>>) /\ id # 0
  BY <1>1, <1>4, <1>5, <1>6
<1>8. h.req = req
  <2>1. Request(req, <<>>) = Ask(req)
    BY Unanswered
  <2>2. QED
    BY <1>7, <2>1, StepFacts
<1>9. Settling(req)
  <2>1. "in" \notin DOMAIN Given(a, DraftFields)
    BY GivenFields DEF DraftFields
  <2>2. QED
    BY <1>7, <2>1, SettlingRequests DEF DraftChange
<1>10. QED
  BY <1>8, <1>9 DEF h, rs

\* The change of the verbs that reschedule an event.
Rescheduling(c, r) == Patch("event", EventID(c.args), NewTimes(c.args, Duration(r.value)))

LEMMA RescheduleChanges ==
  ASSUME NEW c, c.op \in RescheduleOps, NEW r, Handled(c, <<r>>).next = "ask"
  PROVE  /\ r.ok /\ Arg(c.args, "new_start_datetime", NoTime) # NoTime
         /\ Arg(c.args, "new_start_datetime", NoTime).zone = ""
         /\ Handled(c, <<r>>).req = Rescheduling(c, r)
         /\ Settling(Rescheduling(c, r))
<1> DEFINE a  == c.args
           rs == <<r>>
<1>1. rs \in Seq({r}) /\ rs # <<>> /\ rs[1] = r
  BY OneTold
<1>2. Handle(c.op, a, rs).next = "ask"
  BY DEF Handled
<1> HIDE DEF rs
<1>3. /\ rs[1].ok /\ EventID(a) # 0
      /\ Arg(a, "new_start_datetime", NoTime) # NoTime
      /\ Arg(a, "new_start_datetime", NoTime).zone = ""
      /\ Handle(c.op, a, rs).req = Patch("event", EventID(a), NewTimes(a, Duration(rs[1].value)))
  <2> DEFINE op == c.op
  <2>1. op \in RescheduleOps
    OBVIOUS
  <2> HIDE DEF op, a
  <2>2. Handle(op, a, rs).next = "ask" =>
          \/ rs = <<>> /\ Handle(op, a, rs).req = Get("event", EventID(a))
          \/ /\ rs # <<>> /\ rs[1].ok /\ EventID(a) # 0
             /\ Arg(a, "new_start_datetime", NoTime) # NoTime
             /\ Arg(a, "new_start_datetime", NoTime).zone = ""
             /\ Handle(op, a, rs).req = Patch("event", EventID(a), NewTimes(a, Duration(rs[1].value)))
    BY <1>1, <2>1, RescheduleAsks
  <2>3. QED
    BY <1>1, <1>2, <2>2 DEF op
<1>4. "in" \notin DOMAIN NewTimes(a, Duration(r.value))
  BY DEF NewTimes
<1>5. Settling(Rescheduling(c, r))
  BY <1>4, SettlingRequests DEF Rescheduling
<1>6. QED
  BY <1>1, <1>3, <1>5 DEF Handled, Rescheduling, rs

-------------------------------------------------------------------------------
\* The mailbox has nothing left for the call to do: neither its first request nor
\* the one that follows the reply to it would change an item.
Known(c, b) == <<Reply(b, Handled(c, <<>>).req)>>
Settled(c, b) ==
  Handled(c, <<>>).next = "ask" =>
    /\ Harmless(b, Handled(c, <<>>).req)
    /\ Handled(c, Known(c, b)).next = "ask" => Harmless(b, Handled(c, Known(c, b)).req)

\* A handler told rs has done nothing yet, or has read what the mailbox holds, or
\* is through and leaves a settled mailbox.
Replayed(c, rs, b) ==
  \/ rs = <<>>
  \/ Handled(c, <<>>).next = "ask" /\ rs = Known(c, b) /\ Harmless(b, Handled(c, <<>>).req)
  \/ Handled(c, rs).next # "ask" /\ Settled(c, b)

\* The mailbox after a request that is served.
Afterwards(b, q) == IF Accepts(b, q) /\ q.op \notin Reading THEN Effect(b, q) ELSE b

Timely(c, b) ==
  c.op \in RescheduleOps => Timed(c.args) /\ \A i \in Ids(b) : Described(b.items[i])

LEMMA ReplayEnds ==
  ASSUME NEW c, NEW rs, NEW b, Replayed(c, rs, b), Handled(c, rs).next # "ask"
  PROVE  Settled(c, b)
BY SMTT(30) DEF Replayed, Settled

LEMMA ReadIsHarmless ==
  ASSUME NEW b, NEW q, q.op \in Reading
  PROVE  Harmless(b, q) /\ Afterwards(b, q) = b
BY DEF Harmless, Effect, Afterwards, Reading

\* The change after the change is the same change.
LEMMA SameChange ==
  ASSUME NEW c, c.op \in DraftOps \cup RescheduleOps, NEW b, Consistent(b), Timely(c, b),
         Handled(c, <<>>).next = "ask", Handled(c, Known(c, b)).next = "ask",
         NEW w, w = Handled(c, Known(c, b)).req, Accepts(b, w),
         Handled(c, Known(c, Effect(b, w))).next = "ask"
  PROVE  Handled(c, Known(c, Effect(b, w))).req = w
<1> DEFINE b2 == Effect(b, w)
           get == Handled(c, <<>>).req
           r1 == Reply(b, get)
           r2 == Reply(b2, get)
<1>1. Known(c, b) = <<r1>> /\ Known(c, b2) = <<r2>>
  BY DEF Known
<1> HIDE DEF b2, r1, r2
<1>2. Handled(c, <<r1>>).next = "ask" /\ Handled(c, <<r2>>).next = "ask" /\ w = Handled(c, <<r1>>).req
  BY <1>1 DEF b2
<1>3. CASE c.op \in DraftOps
  <2>1. Handled(c, <<r1>>).req = DraftChange(c) /\ Handled(c, <<r2>>).req = DraftChange(c)
    BY <1>2, <1>3, DraftChanges
  <2>2. QED
    BY <1>1, <1>2, <2>1 DEF b2
<1>4. CASE c.op \in RescheduleOps
  <2> DEFINE a == c.args
             id == EventID(a)
             d == Duration(b.items[id])
             fs == NewTimes(a, d)
  <2>1. get = Get("event", id)
    BY <1>4, CarefulBegins
  <2>2. /\ r1.ok /\ r2.ok /\ w = Rescheduling(c, r1)
        /\ Handled(c, <<r2>>).req = Rescheduling(c, r2)
        /\ Arg(a, "new_start_datetime", NoTime) # NoTime
        /\ Arg(a, "new_start_datetime", NoTime).zone = ""
    BY <1>2, <1>4, RescheduleChanges
  <2>3. Kept(b, b) /\ Timed(a)
    BY <1>4, KeptItself DEF Timely
  <2>4. Accepts(b, get) /\ Accepts(b2, get)
    BY <2>2, ReplyFacts DEF r1, r2
  <2>5. Duration(r1.value) = d /\ d \in Int
    BY <2>1, <2>3, <2>4, LearnsDuration DEF r1
  <2> HIDE DEF d
  <2>6. /\ DOMAIN fs = {"start", "finish"} /\ fs.start \in Int /\ fs.finish \in Int
        /\ Duration(fs) = d
    BY <2>2, <2>3, <2>5, NewTimesFacts
  <2>7. w = Patch("event", id, fs)
    BY <2>2, <2>5 DEF Rescheduling
  <2> HIDE DEF fs
  <2>8. Kept(b, Effect(b, Patch("event", id, fs)))
    BY <2>3, <2>6, <2>7, RescheduleKept DEF d
  <2>9. Kept(b, b2)
    BY <2>7, <2>8 DEF b2
  <2>10. Duration(r2.value) = d
    BY <2>1, <2>4, <2>9, LearnsDuration DEF r2, d
  <2>11. Rescheduling(c, r2) = w
    BY <2>7, <2>10 DEF Rescheduling, fs
  <2>12. QED
    BY <1>1, <2>2, <2>11 DEF b2
<1>5. QED
  BY <1>3, <1>4

LEMMA DirectReplays ==
  ASSUME NEW c, Direct(c), NEW b, Consistent(b), NEW rs, Handled(c, rs).next = "ask"
  PROVE  LET q == Handled(c, rs).req
         IN /\ Settled(c, Afterwards(b, q))
            /\ Handled(c, Append(rs, Reply(b, q))).next # "ask"
            /\ Settled(c, b) => Afterwards(b, q).items = b.items
<1> DEFINE q == Handled(c, rs).req
           b2 == Afterwards(b, q)
           r == Reply(b, q)
<1>1. rs = <<>> /\ Settling(q)
  BY DirectSteps
<1>2. \A x : Handled(c, <<x>>).next # "ask"
  <2> SUFFICES ASSUME NEW x, Handled(c, <<x>>).next = "ask" PROVE FALSE
    OBVIOUS
  <2>1. <<x>> = <<>>
    BY DirectSteps
  <2>2. QED
    BY <2>1, OneTold
<1>3. q.op \notin Reading
  BY <1>1 DEF Settling, Reading
<1> HIDE DEF r
<1>4. Append(rs, r) = <<r>>
  BY <1>1, OneTold
<1>5. Handled(c, <<>>).req = q
  BY <1>1
<1> HIDE DEF q
<1>6. Harmless(b2, q)
  <2>1. CASE Accepts(b, q)
    <3>1. b2 = Effect(b, q)
      BY <1>3, <2>1 DEF Afterwards
    <3>2. QED
      BY <1>1, <2>1, <3>1, WriteTwice
  <2>2. CASE ~Accepts(b, q)
    <3>1. b2 = b
      BY <2>2 DEF Afterwards
    <3>2. QED
      BY <2>2, <3>1 DEF Harmless
  <2>3. QED
    BY <2>1, <2>2
<1>7. Settled(c, b2)
  BY <1>2, <1>5, <1>6 DEF Settled, Known
<1>8. Settled(c, b) => b2.items = b.items
  <2>1. Settled(c, b) => Harmless(b, q)
    BY <1>1, <1>5 DEF Settled
  <2>2. QED
    BY <2>1 DEF Harmless, Afterwards
<1>9. Handled(c, Append(rs, r)).next # "ask"
  BY <1>2, <1>4
<1>10. QED
  BY <1>7, <1>8, <1>9 DEF q, r

LEMMA CarefulReplays ==
  ASSUME NEW c, c.op \in DraftOps \cup RescheduleOps, NEW b, Consistent(b), Timely(c, b),
         Handled(c, <<>>).next = "ask", Handled(c, Known(c, b)).next = "ask"
  PROVE  LET q == Handled(c, Known(c, b)).req
         IN /\ Settled(c, Afterwards(b, q))
            /\ Handled(c, Append(Known(c, b), Reply(b, q))).next # "ask"
            /\ Settled(c, b) => Afterwards(b, q).items = b.items
<1> DEFINE q == Handled(c, Known(c, b)).req
           b2 == Afterwards(b, q)
           r == Reply(b, q)
           get == Handled(c, <<>>).req
<1>1. get.op \in Reading
  BY CarefulBegins, ReadOrWrite
<1>2. Settling(q)
  <2>1. PICK x : Known(c, b) = <<x>>
    BY DEF Known
  <2>2. CASE c.op \in DraftOps
    BY <2>1, <2>2, DraftChanges
  <2>3. CASE c.op \in RescheduleOps
    BY <2>1, <2>3, RescheduleChanges
  <2>4. QED
    BY <2>2, <2>3
<1>3. q.op \notin Reading
  BY <1>2 DEF Settling, Reading
<1>4. Handled(c, Append(Known(c, b), r)).next # "ask"
  <2> DEFINE x == Reply(b, get)
             t == Append(<<x>>, r)
  <2> HIDE DEF x, r
  <2>1. t \in Seq({x, r}) /\ t # <<>> /\ Tail(t) # <<>>
    OBVIOUS
  <2> HIDE DEF t
  <2>2. Handled(c, t).next # "ask"
    BY <2>1, CarefulEnds
  <2>3. QED
    BY <2>2 DEF t, x, Known
<1>5. Harmless(b2, get)
  BY <1>1, ReadIsHarmless
<1>6. Handled(c, Known(c, b2)).next = "ask" => Harmless(b2, Handled(c, Known(c, b2)).req)
  <2> SUFFICES ASSUME Handled(c, Known(c, b2)).next = "ask"
               PROVE  Harmless(b2, Handled(c, Known(c, b2)).req)
    OBVIOUS
  <2>1. CASE Accepts(b, q)
    <3>1. b2 = Effect(b, q)
      BY <1>3, <2>1 DEF Afterwards
    <3>2. Handled(c, Known(c, Effect(b, q))).next = "ask"
      BY <3>1
    <3>3. Handled(c, Known(c, Effect(b, q))).req = q
      BY <2>1, <3>2, SameChange
    <3>4. Harmless(Effect(b, q), q)
      BY <1>2, <2>1, WriteTwice
    <3>5. QED
      BY <3>1, <3>3, <3>4
  <2>2. CASE ~Accepts(b, q)
    <3>1. b2 = b
      BY <2>2 DEF Afterwards
    <3>2. QED
      BY <2>2, <3>1 DEF Harmless
  <2>3. QED
    BY <2>1, <2>2
<1> HIDE DEF q, b2
<1>7. Settled(c, b2)
  BY <1>5, <1>6 DEF Settled
<1>8. Settled(c, b) => b2.items = b.items
  <2>1. Settled(c, b) => Harmless(b, q)
    BY DEF Settled, q
  <2>2. QED
    BY <2>1 DEF Harmless, Afterwards, b2
<1>9. QED
  BY <1>4, <1>7, <1>8 DEF q, b2

\* One request more: the handler stays on its way, and a settled mailbox settled.
LEMMA ReplaySteps ==
  ASSUME NEW c, Settles(c), NEW b, Consistent(b), Timely(c, b), NEW rs, Replayed(c, rs, b),
         Handled(c, rs).next = "ask", NEW q, q = Handled(c, rs).req
  PROVE  /\ Replayed(c, Append(rs, Reply(b, q)), Afterwards(b, q))
         /\ Settled(c, b) => Afterwards(b, q).items = b.items /\ Settled(c, Afterwards(b, q))
<1>1. CASE Direct(c)
  <2>1. /\ Settled(c, Afterwards(b, q)) /\ Handled(c, Append(rs, Reply(b, q))).next # "ask"
        /\ Settled(c, b) => Afterwards(b, q).items = b.items
    BY <1>1, DirectReplays
  <2>2. QED
    BY <2>1 DEF Replayed
<1>2. CASE c.op \in DraftOps \cup RescheduleOps /\ rs = <<>>
  <2>1. q.op \in Reading
    BY <1>2, CarefulBegins, ReadOrWrite
  <2>2. Afterwards(b, q) = b /\ Harmless(b, q)
    BY <2>1, ReadIsHarmless
  <2>3. Append(rs, Reply(b, q)) = Known(c, b)
    BY <1>2, OneTold DEF Known
  <2>4. Replayed(c, Known(c, b), b)
    BY <1>2, <2>2 DEF Replayed
  <2>5. QED
    BY <2>2, <2>3, <2>4
<1>3. CASE c.op \in DraftOps \cup RescheduleOps /\ rs # <<>>
  <2>1. Handled(c, <<>>).next = "ask" /\ rs = Known(c, b)
    BY <1>3 DEF Replayed
  <2>2. /\ Settled(c, Afterwards(b, q)) /\ Handled(c, Append(rs, Reply(b, q))).next # "ask"
        /\ Settled(c, b) => Afterwards(b, q).items = b.items
    BY <1>3, <2>1, CarefulReplays
  <2>3. QED
    BY <2>2 DEF Replayed
<1>4. QED
  BY <1>1, <1>2, <1>3 DEF Settles

-------------------------------------------------------------------------------
\* The verbs whose hint says that they may be repeated.
LEMMA MailRepeats ==
  ASSUME NEW v \in MailVerbs, v.hints.idempotent
  PROVE  v.hints.readOnly \/ v.name \in DraftOps \cup {"mail.delete_folder"}
BY DEF MailVerbs, DraftOps, Plain, Guarded, Reads, Adds, Changes, Removes,
       ListFoldersVerb, ListMessagesVerb, GetMessageVerb, SearchMessagesVerb, GetConversationVerb,
       ListAttachmentsVerb, GetAttachmentVerb, CreateDraftVerb, CreateReplyDraftVerb,
       CreateForwardDraftVerb, UpdateDraftVerb, DeleteDraftVerb, CreateFolderVerb,
       DeleteFolderVerb, MoveMessageVerb, MoveMessagesVerb

LEMMA CalendarRepeats ==
  ASSUME NEW v \in CalendarVerbs, v.hints.idempotent
  PROVE  v.hints.readOnly \/ v.name \in ChangeOps \cup RescheduleOps
BY DEF CalendarVerbs, ChangeOps, RescheduleOps, Plain, Guarded, Reads, Adds, Changes,
       Removes, ListCalendarsVerb, ListEventsVerb, GetEventVerb, SearchEventsVerb, CreateEventVerb,
       UpdateEventVerb, DeleteEventVerb, RespondEventVerb, RescheduleEventVerb, CreateMeetingVerb,
       UpdateMeetingVerb, CancelMeetingVerb, RescheduleMeetingVerb, GetFreeBusyVerb

\* The folder that delete_folder is given by a path is another one once the first
\* is gone, if another fits the path.
Repeatable(c) == c.op = "mail.delete_folder" => ByItsId(c)

LEMMA RepeatVerbs ==
  ASSUME NEW c \in Calls, IsOperation(c.op), VerbOf(c.op).hints.idempotent, Repeatable(c)
  PROVE  VerbOf(c.op).hints.readOnly \/ Settles(c)
<1>1. VerbOf(c.op).name = c.op
  BY DEF VerbOf, IsOperation
<1>2. VerbOf(c.op) \in MailVerbs \cup CalendarVerbs
  BY CallsAssumption
<1>3. \/ VerbOf(c.op).hints.readOnly
      \/ c.op \in DraftOps \cup {"mail.delete_folder"} \cup ChangeOps \cup RescheduleOps
  BY <1>1, <1>2, MailRepeats, CalendarRepeats
<1>4. QED
  BY <1>3 DEF Repeatable, Settles, Direct

-------------------------------------------------------------------------------
\* An undisturbed call that may be repeated leaves a settled mailbox, unless it was
\* never let in; and then it is not let in the second time either.
Still   == Settled(call, box)
Refuses == \E r \in ResolveAccount(registry, AccountArg) : ~r.ok
Shut    == \A r \in ResolveAccount(registry, AccountArg) : ~r.ok

Course ==
  /\ phase = "run" => Replayed(call, got, box)
  /\ phase = "reauth" \/ (rerun /\ phase \in {"resolve", "enter"}) => Still
  /\ phase = "answered" => Still \/ Blocked \/ Refuses
  /\ round = 2 => /\ box.items = before.items
                  /\ Still \/ Blocked \/ (phase \in {"resolve", "answered"} /\ Shut)

RepeatInv ==
  /\ Quiet => ~gone
  /\ round = 2 => Quiet /\ Hints.idempotent /\ IsOperation(call.op) /\ phase # "idle"
  /\ Settles(call) /\ Quiet /\ IsOperation(call.op) => Course

LEMMA QuietFacts ==
  ASSUME TypeOK
  PROVE  /\ Quiet => trouble.logout = 0 /\ Alone
         /\ \A kind \in {"fault", "edit", "logout"} : Happens(kind) => ~Quiet' /\ round = 1
<1>1. \A k \in {"fault", "edit", "logout"} : trouble[k] \in Nat
  BY DEF TypeOK
<1>2. Quiet => trouble.logout = 0 /\ Alone
  <2> DEFINE f == trouble.fault
             e == trouble.edit
             l == trouble.logout
  <2>1. f \in Nat /\ e \in Nat /\ l \in Nat
    BY <1>1
  <2>2. Quiet => f + e + l = 0
    BY DEF Quiet
  <2> HIDE DEF f, e, l
  <2>3. Quiet => e = 0 /\ l = 0
    BY <2>1, <2>2
  <2>4. QED
    BY <2>3 DEF e, l, Alone
<1>3. ASSUME NEW kind \in {"fault", "edit", "logout"}, Happens(kind)
      PROVE  ~Quiet' /\ round = 1
  <2>1. /\ round = 1 /\ trouble'[kind] = trouble[kind] + 1
        /\ \A k \in {"fault", "edit", "logout"} \ {kind} : trouble'[k] = trouble[k]
    BY <1>3, HappensFacts
  <2>2. trouble'["fault"] + trouble'["edit"] + trouble'["logout"] # 0
    BY <1>1, <2>1
  <2>3. QED
    BY <2>1, <2>2 DEF Quiet
<1>4. QED
  BY <1>2, <1>3

\* Times and descriptions are at hand for the verbs that need them.
LEMMA TimelyCall ==
  ASSUME TypeOK, ReadInv, Alone, call \in Calls, IsOperation(call.op)
  PROVE  Timely(call, box)
<1> SUFFICES ASSUME call.op \in RescheduleOps
             PROVE  Timed(call.args) /\ \A i \in Ids(box) : Described(box.items[i])
  BY DEF Timely
<1>1. Timed(call.args)
  BY CalendarCall
<1>2. Careful
  BY DEF Careful, Op
<1>3. Kept(before, box)
  BY <1>2 DEF ReadInv
<1>4. QED
  BY <1>1, <1>3, KeptDescribed

LEMMA SendsRepeat ==
  ASSUME TypeOK, HintsHold, ReadInv, RepeatInv, Sends
  PROVE  RepeatInv'
<1>1. Asking /\ UNCHANGED <<server, registry, phase, label, rerun, audit, answer>>
  BY SendsFrame
<1>2. /\ phase = "run" /\ Step.next = "ask" /\ UNCHANGED <<call, readOnly, round, before, phase>>
      /\ call \in Calls /\ IsOperation(call.op)
  BY <1>1 DEF Asking, server, TypeOK
<1>3. CASE Throttle \/ TimeOut \/ Unauthorized \/ Leave
  <2>1. Happens("fault")
    BY <1>3 DEF Throttle, TimeOut, Unauthorized, Leave
  <2>2. ~Quiet' /\ round' = 1
    BY <1>2, <2>1, QuietFacts
  <2>3. QED
    BY <2>2 DEF RepeatInv
<1>4. CASE Abandon
  <2>1. gone /\ UNCHANGED <<gone, trouble>>
    BY <1>4 DEF Abandon
  <2>2. ~Quiet /\ ~Quiet'
    BY <2>1 DEF RepeatInv, Quiet
  <2>3. QED
    BY <1>2, <2>2 DEF RepeatInv
<1>5. CASE Serve
  <2> DEFINE q == Step.req
             b2 == Afterwards(box, q)
  <2>1. /\ ~gone /\ UNCHANGED <<gone, trouble>> /\ got' = Append(got, Reply(box, q))
        /\ Apply(q, TRUE, FALSE)
    BY <1>5 DEF Serve, Return
  <2>2. Quiet' = Quiet /\ Hints' = Hints
    BY <1>2, <2>1 DEF Quiet, Hints
  <2>3. box' = b2
    BY <2>1 DEF Apply, Afterwards, Reading
  <2>4. ASSUME Settles(call), Quiet
        PROVE  Course'
    <3>1. Course /\ Replayed(call, got, box) /\ Alone /\ Consistent(box)
      BY <1>2, <2>4, QuietFacts DEF RepeatInv, Course, TypeOK
    <3>2. Timely(call, box)
      BY <1>2, <3>1, TimelyCall
    <3>3. Handled(call, got).next = "ask" /\ q = Handled(call, got).req
      BY <1>2 DEF Handled, Step
    <3> HIDE DEF q, b2
    <3>4. /\ Replayed(call, Append(got, Reply(box, q)), Afterwards(box, q))
          /\ Settled(call, box) =>
               Afterwards(box, q).items = box.items /\ Settled(call, Afterwards(box, q))
      BY <2>4, <3>1, <3>2, <3>3, ReplaySteps
    <3>5. /\ Replayed(call, got', box')
          /\ Settled(call, box) => box'.items = box.items /\ Settled(call, box')
      BY <2>1, <2>3, <3>4 DEF b2
    <3>6. Replayed(call, got, box)' /\ (Still => box'.items = box.items /\ Still')
      BY <1>2, <3>5 DEF Still
    <3>7. ~Blocked
      BY <1>2 DEF HintsHold
    <3>8. round = 2 => box.items = before.items /\ Still
      BY <1>2, <3>1, <3>7 DEF Course
    <3>9. QED
      BY <1>2, <3>6, <3>8 DEF Course
  <2>5. QED
    BY <1>2, <2>1, <2>2, <2>4 DEF RepeatInv
<1>6. QED
  BY <1>3, <1>4, <1>5 DEF Sends

LEMMA OthersRepeat ==
  ASSUME TypeOK, HintsHold, RightAccount, ReadInv, RepeatInv,
         Resolve \/ Enter \/ Conclude \/ SignedIn \/ NotSignedIn \/ UNCHANGED vars
  PROVE  RepeatInv'
<1>1. UNCHANGED <<readOnly, call, round, before, registry, box, gone, trouble>>
  BY DEF Resolve, Enter, Conclude, SignedIn, NotSignedIn, vars, server
<1>2. /\ Quiet' = Quiet /\ Hints' = Hints /\ Still' = Still /\ Blocked' = Blocked
      /\ Refuses' = Refuses /\ Shut' = Shut
  BY <1>1 DEF Quiet, Hints, Still, Blocked, Refuses, Shut, AccountArg
<1>3. phase' = "idle" => phase = "idle"
  BY DEF Resolve, Enter, Conclude, SignedIn, NotSignedIn, vars, Answer
<1>4. ASSUME Settles(call), Quiet, IsOperation(call.op)
      PROVE  Course'
  <2>1. Course
    BY <1>4 DEF RepeatInv
  <2>2. round = 2 => box.items = before.items
    BY <2>1 DEF Course
  <2>3. CASE Resolve
    <3>1. PICK r \in ResolveAccount(registry, AccountArg) :
            IF r.ok THEN phase' = "enter" /\ label' = r.value /\ UNCHANGED answer
            ELSE Answer(r) /\ UNCHANGED label
      BY <2>3 DEF Resolve
    <3>2. phase = "resolve" /\ UNCHANGED rerun
      BY <2>3 DEF Resolve
    <3>3. CASE r.ok
      <4>1. phase' = "enter" /\ ~Shut
        BY <3>1, <3>3 DEF Shut
      <4>2. (round = 2 => Still \/ Blocked) /\ (rerun => Still)
        BY <2>1, <3>2, <4>1 DEF Course
      <4>3. QED
        BY <1>1, <1>2, <2>2, <3>2, <4>1, <4>2 DEF Course
    <3>4. CASE ~r.ok
      <4>1. phase' = "answered" /\ Refuses
        BY <3>1, <3>4 DEF Refuses, Answer
      <4>2. round = 2 => Still \/ Blocked \/ Shut
        BY <2>1 DEF Course
      <4>3. QED
        BY <1>1, <1>2, <2>2, <4>1, <4>2 DEF Course
    <3>5. QED
      BY <3>3, <3>4
  <2>4. CASE Enter
    <3>1. phase = "enter" /\ UNCHANGED rerun /\ got' = got /\ got = <<>>
      BY <2>4 DEF Enter, ReadInv
    <3>2. registry[label].connected
      BY <1>4, <3>1, QuietFacts DEF RightAccount, Entered
    <3>3. (Blocked /\ phase' = "answered") \/ phase' = "run"
      BY <2>4, <3>2 DEF Enter, Answer
    <3>4. Replayed(call, got, box)'
      BY <1>1, <3>1 DEF Replayed
    <3>5. round = 2 => Still \/ Blocked
      BY <2>1, <3>1 DEF Course
    <3>6. QED
      BY <1>1, <1>2, <2>2, <3>3, <3>4, <3>5 DEF Course
  <2>5. CASE Conclude
    <3>1. phase = "run" /\ Step.next # "ask" /\ phase' \in {"reauth", "answered"}
      BY <2>5 DEF Conclude, Asking, Answer
    <3>2. Still
      <4>1. Replayed(call, got, box) /\ Handled(call, got).next # "ask"
        BY <2>1, <3>1 DEF Course, Handled, Step
      <4>2. QED
        BY <4>1, ReplayEnds DEF Still
    <3>3. QED
      BY <1>1, <1>2, <2>2, <3>1, <3>2 DEF Course
  <2>6. CASE SignedIn \/ NotSignedIn
    <3>1. phase = "reauth" /\ phase' \in {"resolve", "answered"}
      BY <2>6 DEF SignedIn, NotSignedIn, Answer
    <3>2. Still
      BY <2>1, <3>1 DEF Course
    <3>3. QED
      BY <1>1, <1>2, <2>2, <3>1, <3>2 DEF Course
  <2>7. CASE UNCHANGED vars
    <3>1. UNCHANGED <<phase, rerun, got>>
      BY <2>7 DEF vars
    <3>2. Replayed(call, got, box)' = Replayed(call, got, box)
      BY <1>1, <3>1
    <3>3. QED
      BY <1>1, <1>2, <2>1, <3>1, <3>2 DEF Course
  <2>8. QED
    BY <2>3, <2>4, <2>5, <2>6, <2>7
<1>5. QED
  BY <1>1, <1>2, <1>3, <1>4 DEF RepeatInv

LEMMA BeginsRepeat ==
  ASSUME TypeOK, RepeatInv, Receive \/ Edit \/ Logout \/ Repeat
  PROVE  RepeatInv'
<1>1. CASE Receive
  <2>1. PICK c \in Calls : /\ call' = c
                           /\ IF IsOperation(c.op) THEN phase' = "resolve" /\ UNCHANGED answer
                              ELSE Answer(Refused("unknown operation"))
    BY <1>1 DEF Receive
  <2>2. phase = "idle" /\ ~rerun /\ UNCHANGED <<round, rerun, gone, trouble>>
    BY <1>1 DEF Receive, TypeOK
  <2>3. round' # 2
    BY <2>2 DEF RepeatInv
  <2>4. Quiet' => ~gone'
    BY <2>2 DEF RepeatInv, Quiet
  <2>5. IsOperation(call'.op) => phase' = "resolve" /\ ~rerun'
    BY <2>1, <2>2
  <2>6. IsOperation(call'.op) => Course'
    BY <2>3, <2>5 DEF Course
  <2>7. QED
    BY <2>3, <2>4, <2>6 DEF RepeatInv
<1>2. CASE Edit \/ Logout
  <2>1. (Happens("edit") \/ Happens("logout")) /\ UNCHANGED round
    BY <1>2 DEF Edit, Logout, server
  <2>2. ~Quiet' /\ round' = 1
    BY <2>1, QuietFacts
  <2>3. QED
    BY <2>2 DEF RepeatInv
<1>3. CASE Repeat
  <2>1. /\ phase = "answered" /\ Quiet /\ Decided /\ IsOperation(call.op)
        /\ VerbOf(call.op).hints.idempotent
        /\ round' = 2 /\ before' = box /\ phase' = "resolve" /\ rerun' = FALSE
        /\ UNCHANGED <<readOnly, call, registry, box, gone, trouble>>
    BY <1>3 DEF Repeat
  <2>2. /\ Quiet' = Quiet /\ Hints' = Hints /\ Still' = Still /\ Blocked' = Blocked
        /\ Shut' = Shut
    BY <2>1 DEF Quiet, Hints, Still, Blocked, Shut, AccountArg
  <2>3. Refuses => Shut
    BY <2>1 DEF Refuses, Shut, Decided
  <2>4. ASSUME Settles(call)
        PROVE  Course'
    <3>1. Still \/ Blocked \/ Refuses
      BY <2>1, <2>4 DEF RepeatInv, Course
    <3>2. QED
      BY <2>1, <2>2, <2>3, <3>1 DEF Course
  <2>5. QED
    BY <2>1, <2>2, <2>4 DEF RepeatInv, Hints
<1>4. QED
  BY <1>1, <1>2, <1>3

LEMMA NextRepeats ==
  ASSUME ToolInv, ReadInv, RepeatInv, [Next]_vars
  PROVE  RepeatInv'
<1>1. TypeOK /\ HintsHold /\ RightAccount
  BY DEF ToolInv
<1>2. QED
  BY <1>1, SendsRepeat, OthersRepeat, BeginsRepeat DEF Next, Sends, Rest

LEMMA InitRepeats == Init => RepeatInv
<1> SUFFICES ASSUME Init PROVE RepeatInv
  OBVIOUS
<1>1. round = 1 /\ gone = FALSE /\ phase = "idle" /\ rerun = FALSE
  BY DEF Init
<1>2. Course
  BY <1>1 DEF Course
<1>3. QED
  BY <1>1, <1>2 DEF RepeatInv

\* A call whose verb says that it may be repeated, made a second time after an
\* undisturbed first one, changes no item of the mailbox, whatever the mailbox, the
\* account and the arguments; a folder to delete being given by its ID.
THEOREM RepeatsChangeNothing == Spec => [](Repeatable(call) => RepeatsAreHarmless)
<1>1. ToolInv /\ ReadInv /\ RepeatInv => (Repeatable(call) => RepeatsAreHarmless)
  <2> SUFFICES ASSUME ToolInv, ReadInv, RepeatInv, Repeatable(call), round = 2
               PROVE  box.items = before.items
    BY DEF RepeatsAreHarmless
  <2>1. /\ TypeOK /\ HintsHold /\ Quiet /\ Hints.idempotent /\ IsOperation(call.op)
        /\ phase # "idle"
    BY DEF ToolInv, RepeatInv
  <2>2. call \in Calls
    BY <2>1 DEF TypeOK
  <2>3. Hints.readOnly \/ Settles(call)
    BY <2>1, <2>2, RepeatVerbs DEF Hints
  <2>4. CASE Hints.readOnly
    <3>1. Alone /\ applied = <<>>
      BY <2>1, <2>4, QuietFacts DEF HintsHold
    <3>2. QED
      BY <2>1, <3>1 DEF HintsHold
  <2>5. CASE Settles(call)
    BY <2>1, <2>5 DEF RepeatInv, Course
  <2>6. QED
    BY <2>3, <2>4, <2>5
<1>2. ToolInv /\ ReadInv /\ RepeatInv /\ [Next]_vars => RepeatInv'
  BY NextRepeats
<1>3. QED
  BY <1>1, <1>2, InitRepeats, ReadsAgree, PTL DEF Spec

-------------------------------------------------------------------------------
\* Where a request is addressed to.
LEMMA Targets ==
  /\ \A b, n : Target(b, ById(n)) = n
  /\ \A b : \A k \in DOMAIN WellKnown : Target(b, ByKey(k)) = b.alias[k]
<1>1. \A b, n : Target(b, ById(n)) = n
  BY DEF Target, ById
<1>2. ASSUME NEW b, NEW k \in DOMAIN WellKnown
      PROVE  Target(b, ByKey(k)) = b.alias[k]
  <2>1. ByKey(k).key = k /\ k # ""
    BY WellKnownAssumption DEF ByKey
  <2>2. QED
    BY <2>1 DEF Target
<1>3. QED
  BY <1>1, <1>2

\* Some item of a page comes after exactly n others.
LEMMA RankedIn ==
  ASSUME NEW b, NEW S \in SUBSET Nat, IsFiniteSet(S), NEW n \in Nat, n < Cardinality(S)
  PROVE  Ranked(b, "any", S, n) \in S
<1> DEFINE below(i) == {j \in S : j < i}
           C == Cardinality(S)
           P == {m \in 0 .. C - 1 : \E i \in S : Cardinality(below(i)) = m}
<1>0. \A j \in S : j \in Nat
  OBVIOUS
<1>1. C \in Nat
  BY FS_CardinalityType
<1>2. 0 \in P
  <2>1. S # {}
    BY <1>1, FS_EmptySet
  <2>2. PICK i \in S : \A j \in S : i <= j
    BY <2>1, LeastNumber
  <2>3. below(i) = {}
    <3>1. \A j \in S : ~(j < i)
      BY <1>0, <2>2
    <3>2. QED
      BY <3>1
  <2>4. Cardinality(below(i)) = 0
    BY <2>3, FS_EmptySet
  <2>5. 0 \in 0 .. C - 1
    <3>1. 0 < C
      <4>1. C # 0
        BY <2>1, FS_EmptySet
      <4>2. QED
        BY <1>1, <4>1
    <3>2. QED
      BY <1>1, <3>1
  <2>6. QED
    BY <2>4, <2>5
<1>3. ASSUME NEW m \in 0 .. C - 1, m + 1 \in 0 .. C - 1, m \in P
      PROVE  m + 1 \in P
  <2>1. PICK i \in S : Cardinality(below(i)) = m
    BY <1>3
  <2> DEFINE T == {j \in S : i < j}
             upTo == below(i) \cup {i}
  <2>2. IsFiniteSet(below(i)) /\ i \notin below(i)
    BY FS_Subset
  <2>3. IsFiniteSet(upTo) /\ Cardinality(upTo) = m + 1
    BY <2>1, <2>2, FS_AddElement
  <2>4. T # {}
    <3>1. T = {} => S = upTo
      <4>1. \A j \in S : j < i \/ j = i \/ i < j
        BY <1>0
      <4>2. QED
        BY <4>1
    <3> HIDE DEF upTo, T
    <3>2. QED
      BY <1>1, <1>3, <2>3, <3>1
  <2>5. PICK k \in T : \A j \in T : k <= j
    BY <2>4, LeastNumber
  <2>6. below(k) = upTo
    <3>1. k \in S /\ i < k /\ \A j \in S : i < j => ~(j < k)
      BY <1>0, <2>5
    <3>2. \A j \in S : j < k <=> j \in upTo
      BY <1>0, <3>1
    <3>3. QED
      BY <3>2
  <2>7. Cardinality(below(k)) = m + 1 /\ k \in S
    BY <2>3, <2>5, <2>6
  <2>8. QED
    BY <1>3, <2>7
<1>4. n \in P
  <2> HIDE DEF P
  <2>1. \A m \in 0 .. C - 1 : m \in P
    BY <1>1, <1>2, <1>3, UpTo
  <2>2. QED
    BY <1>1, <2>1
<1>5. PICK i \in S : Cardinality(below(i)) = n
  BY <1>4
<1>6. \A j : Before(b, "any", j, i) <=> j < i
  BY DEF Before
<1>7. {j \in S : Before(b, "any", j, i)} = below(i)
  BY <1>6
<1>8. \E x \in S : Cardinality({j \in S : Before(b, "any", j, x)}) = n
  BY <1>5, <1>7
<1>9. QED
  BY <1>8 DEF Ranked

\* What a page of folders shows: visible ones that are in that place, under
\* their names.
Shows(b, in, items) ==
  /\ Len(items) \in Nat
  /\ \A k \in 1 .. Len(items) :
       \E j \in SubFolders(b, in) : /\ ~b.items[j].hidden
                                    /\ items[k].id = j /\ items[k].name = b.items[j].name

HaveNames(b) == \A i \in Ids(b) : b.items[i].kind = "folder" => "name" \in DOMAIN b.items[i]

LEMMA ViewFacts ==
  ASSUME NEW b, NEW i
  PROVE  /\ View(b, i).id = i
         /\ "name" \in DOMAIN b.items[i] => View(b, i).name = b.items[i].name
<1> DEFINE item == With(b.items[i], [id |-> i])
           more == With(item, [subfolders |-> Cardinality(SubFolders(b, i))])
<1>1. item.id = i /\ ("name" \in DOMAIN b.items[i] => item.name = b.items[i].name)
      /\ "id" \in DOMAIN item /\ DOMAIN b.items[i] \subseteq DOMAIN item
  BY DEF With
<1> HIDE DEF item
<1>2. \A f \in {"id", "name"} : f \in DOMAIN item => more[f] = item[f]
  BY DEF With
<1>3. View(b, i) \in {item, more}
  BY DEF View, item
<1> HIDE DEF more
<1>4. QED
  BY <1>1, <1>2, <1>3

LEMMA MinOfTwo ==
  ASSUME NEW x \in Nat, NEW y \in Nat
  PROVE  Min({x, y}) \in Nat /\ Min({x, y}) <= x /\ Min({x, y}) <= y
BY DEF Min

\* The reply to a request for folders shows folders of the place it names.
LEMMA PageShows ==
  ASSUME NEW b, Consistent(b), HaveNames(b), NEW at
  PROVE  Shows(b, Target(b, at), Page(b, FetchFolders(at, LookupPage)).items)
<1> DEFINE req   == FetchFolders(at, LookupPage)
           all   == {i \in Ids(b) : InScope(b, req, i)}
           most  == Min({req.top, PageSize[req.kind]})
           upTo  == Min({Cardinality(all), req.skip + most})
           items == [k \in 1 .. (upTo - req.skip) |-> View(b, Ranked(b, req.order, all, req.skip + k - 1))]
<1>1. Page(b, req).items = items
  BY DEF Page
<1>2. /\ req.kind = "folder" /\ req.in = at /\ req.order = "any" /\ req.skip = 0
      /\ req.top = LookupPage
  BY DEF FetchFolders, Listing
<1>3. Target(b, Mailbox) = 0
  BY Targets DEF Mailbox
<1>4. ASSUME NEW i \in all
      PROVE  i \in SubFolders(b, Target(b, at)) /\ ~b.items[i].hidden /\ "name" \in DOMAIN b.items[i]
  <2>1. i \in Ids(b) /\ InScope(b, req, i)
    OBVIOUS
  <2> HIDE DEF req
  <2>2. b.items[i].kind = "folder" /\ ~b.items[i].hidden
    BY <1>2, <2>1 DEF InScope
  <2>3. b.items[i].in = Target(b, at)
    <3>1. CASE at # Mailbox
      BY <1>2, <2>1, <3>1 DEF InScope
    <3>2. CASE at = Mailbox
      <4>1. b.items[i].in = 0
        BY <1>2, <2>1, <3>2 DEF InScope
      <4>2. QED
        BY <1>3, <3>2, <4>1
    <3>3. QED
      BY <3>1, <3>2
  <2>4. QED
    BY <2>1, <2>2, <2>3 DEF SubFolders, Children, HaveNames
<1>5. all \in SUBSET Nat /\ IsFiniteSet(all)
  <2>1. all \subseteq Ids(b)
    OBVIOUS
  <2> HIDE DEF all
  <2>2. QED
    BY <2>1, FS_Subset DEF Consistent
<1> HIDE DEF all
<1>6. Cardinality(all) \in Nat
  BY <1>5, FS_CardinalityType
<1>7. upTo \in Nat /\ upTo <= Cardinality(all)
  <2>1. PageSize["folder"] \in Nat /\ LookupPage \in Nat
    BY PageSizeAssumption, FoldersAssumption
  <2>2. most \in Nat
    BY <1>2, <2>1, MinOfTwo
  <2> HIDE DEF most
  <2>3. req.skip + most \in Nat
    BY <1>2, <2>2
  <2>4. QED
    BY <1>6, <2>3, MinOfTwo
<1> HIDE DEF upTo
<1>8. items = [k \in 1 .. upTo |-> View(b, Ranked(b, "any", all, k - 1))]
  <2> HIDE DEF req
  <2>1. upTo - req.skip = upTo
    BY <1>2, <1>7
  <2>2. \A k \in 1 .. upTo : req.skip + k - 1 = k - 1
    BY <1>2, <1>7
  <2>3. QED
    BY <1>2, <2>1, <2>2
<1> HIDE DEF items
<1>9. Len(items) = upTo
  BY <1>7, <1>8
<1>10. ASSUME NEW k \in 1 .. Len(items)
       PROVE  \E j \in SubFolders(b, Target(b, at)) :
                /\ ~b.items[j].hidden
                /\ items[k].id = j /\ items[k].name = b.items[j].name
  <2> DEFINE j == Ranked(b, "any", all, k - 1)
  <2>1. k - 1 \in Nat /\ k - 1 < Cardinality(all)
    BY <1>6, <1>7, <1>9
  <2>2. j \in all
    BY <1>5, <2>1, RankedIn
  <2>3. items[k] = View(b, j)
    BY <1>8, <1>9
  <2> HIDE DEF j
  <2>4. QED
    BY <1>4, <2>2, <2>3, ViewFacts
<1>11. Len(items) \in Nat
  BY <1>7, <1>9
<1>12. QED
  BY <1>1, <1>10, <1>11 DEF Shows

\* The first folder of the name on a page that shows what is there.
LEMMA MatchLeads ==
  ASSUME NEW b, NEW in, NEW items, Shows(b, in, items), NEW part,
         MatchFolderByName(items, part) # 0
  PROVE  Leads(b, in, part, items[MatchFolderByName(items, part)].id)
<1> DEFINE n == MatchFolderByName(items, part)
           I == {i \in 1 .. Len(items) : Len(items[i].name) = 1 /\ Fold[items[i].name[1]] = Fold[part]}
<1>1. n = IF I = {} THEN 0 ELSE Min(I)
  BY DEF MatchFolderByName, SelectInSeq
<1>2. I # {}
  <2>1. n # 0
    BY Zenon
  <2> HIDE DEF n, I
  <2>2. QED
    BY <1>1, <2>1
<1>3. n \in I
  <2>1. PICK m \in I : \A k \in I : m <= k
    <3>1. I \in SUBSET Nat
      OBVIOUS
    <3> HIDE DEF I
    <3>2. QED
      BY <1>2, <3>1, LeastNumber
  <2>2. \E x \in I : \A k \in I : x <= k
    BY <2>1
  <2>3. Min(I) \in I
    <3> HIDE DEF I
    <3>1. QED
      BY <2>2 DEF Min
  <2>4. QED
    BY <1>1, <1>2, <2>3
<1> HIDE DEF n
<1>4. PICK j \in SubFolders(b, in) : /\ ~b.items[j].hidden
                                     /\ items[n].id = j /\ items[n].name = b.items[j].name
  BY <1>3 DEF Shows
<1>5. Leads(b, in, part, items[n].id)
  BY <1>3, <1>4 DEF Leads
<1>6. QED
  BY <1>5 DEF n

-------------------------------------------------------------------------------
\* The folders of a mailbox are those of an earlier one, less what was taken away,
\* and but for what has been put below something new.
SameTree(b, old) ==
  /\ b.alias = old.alias
  /\ \A i \in Ids(b) : b.items[i].kind = "folder" =>
       /\ i \in Ids(old) /\ old.items[i].kind = "folder" /\ "name" \in DOMAIN b.items[i]
       /\ b.items[i].name = old.items[i].name /\ b.items[i].hidden = old.items[i].hidden
       /\ b.items[i].in = old.items[i].in \/ b.items[i].in >= old.next

\* A place of the mailbox.
Within(b, x) == x \in Nat /\ (x = 0 \/ x < b.next)

\* A page that shows the folders of a mailbox shows those of the earlier one.
LEMMA Transfer ==
  ASSUME NEW b, NEW old, Consistent(old), SameTree(b, old), NEW x, Within(old, x), NEW items,
         Shows(b, x, items)
  PROVE  Shows(old, x, items)
<1>1. old.next \in Nat /\ x \in Nat /\ ~(x >= old.next)
  <2>1. old.next \in Nat /\ old.alias["drafts"] \in Nat /\ old.alias["drafts"] < old.next
    BY DEF Consistent
  <2>2. QED
    BY <2>1 DEF Within
<1>2. ASSUME NEW j \in SubFolders(b, x)
      PROVE  /\ j \in SubFolders(old, x)
             /\ b.items[j].name = old.items[j].name /\ b.items[j].hidden = old.items[j].hidden
  <2>1. j \in Ids(b) /\ b.items[j].in = x /\ b.items[j].kind = "folder"
    BY DEF SubFolders, Children
  <2>2. /\ j \in Ids(old) /\ old.items[j].kind = "folder"
        /\ b.items[j].name = old.items[j].name /\ b.items[j].hidden = old.items[j].hidden
        /\ x = old.items[j].in \/ x >= old.next
    BY <2>1 DEF SameTree
  <2>3. QED
    BY <1>1, <2>2 DEF SubFolders, Children
<1>3. QED
  BY <1>2 DEF Shows

\* Where a path begins, and where its first parts lead.
From(parts)   == IF IsWellKnown(parts[1]) THEN 1 ELSE 0
Top(b, parts) == IF IsWellKnown(parts[1]) THEN b.alias[Fold[parts[1]]] ELSE 0
FoldersOf(b)  == {i \in Ids(b) : b.items[i].kind = "folder"}
Ways(b, parts, m) ==
  {w \in [From(parts) .. m -> FoldersOf(b) \cup {Top(b, parts)}] :
     /\ w[From(parts)] = Top(b, parts)
     /\ \A k \in (From(parts) + 1) .. m : Leads(b, w[k - 1], parts[k], w[k])}
Reaches(b, parts, m, x) == \E w \in Ways(b, parts, m) : w[m] = x

LEMMA ReachStart ==
  ASSUME NEW b, NEW parts
  PROVE  Reaches(b, parts, From(parts), Top(b, parts))
<1> DEFINE n == From(parts)
           w == [k \in n .. n |-> Top(b, parts)]
<1>1. n \in Nat
  BY DEF From
<1> HIDE DEF n
<1>2. w \in [n .. n -> FoldersOf(b) \cup {Top(b, parts)}] /\ w[n] = Top(b, parts) /\ (n + 1) .. n = {}
  BY <1>1
<1> HIDE DEF w
<1>3. w \in Ways(b, parts, n)
  BY <1>2 DEF Ways, n
<1>4. QED
  BY <1>2, <1>3 DEF Reaches, n

LEMMA ReachNext ==
  ASSUME NEW b, NEW parts, NEW m \in Nat, m >= From(parts), NEW x, Reaches(b, parts, m, x),
         NEW y, Leads(b, x, parts[m + 1], y)
  PROVE  Reaches(b, parts, m + 1, y)
<1> DEFINE n == From(parts)
           P == FoldersOf(b) \cup {Top(b, parts)}
<1>1. n \in Nat /\ n <= m
  BY DEF From
<1>2. PICK w \in Ways(b, parts, m) : w[m] = x
  BY DEF Reaches
<1> HIDE DEF n
<1>3. w \in [n .. m -> P] /\ w[n] = Top(b, parts)
      /\ \A k \in (n + 1) .. m : Leads(b, w[k - 1], parts[k], w[k])
  BY <1>2 DEF Ways, n
<1>4. y \in P
  BY DEF Leads, SubFolders, Children, FoldersOf
<1> HIDE DEF P
<1> DEFINE v == [k \in n .. m + 1 |-> IF k = m + 1 THEN y ELSE w[k]]
<1>5. v \in [n .. m + 1 -> P] /\ v[n] = Top(b, parts) /\ v[m + 1] = y
  BY <1>1, <1>3, <1>4
<1>6. ASSUME NEW k \in (n + 1) .. m + 1
      PROVE  Leads(b, v[k - 1], parts[k], v[k])
  <2>1. k - 1 \in n .. m /\ k - 1 \in n .. m + 1 /\ k \in n .. m + 1
    BY <1>1
  <2>2. v[k - 1] = w[k - 1]
    BY <1>1, <2>1
  <2>3. CASE k = m + 1
    BY <1>1, <1>2, <1>5, <2>2, <2>3
  <2>4. CASE k # m + 1
    <3>1. k \in (n + 1) .. m /\ v[k] = w[k]
      BY <1>1, <2>1, <2>4
    <3>2. QED
      BY <1>3, <2>2, <3>1
  <2>5. QED
    BY <2>3, <2>4
<1> HIDE DEF v
<1>7. v \in Ways(b, parts, m + 1)
  BY <1>5, <1>6 DEF Ways, n, P
<1>8. QED
  BY <1>5, <1>7 DEF Reaches

LEMMA ReachWithin ==
  ASSUME NEW b, Consistent(b), NEW parts, NEW m \in Nat, m >= From(parts), NEW x, Reaches(b, parts, m, x)
  PROVE  Within(b, x)
<1>1. x \in FoldersOf(b) \cup {Top(b, parts)}
  <2>1. PICK w \in Ways(b, parts, m) : w[m] = x
    BY DEF Reaches
  <2>2. w \in [From(parts) .. m -> FoldersOf(b) \cup {Top(b, parts)}]
    BY <2>1 DEF Ways
  <2>3. m \in From(parts) .. m
    BY DEF From
  <2>4. QED
    BY <2>1, <2>2, <2>3
<1>2. CASE x \in FoldersOf(b)
  BY <1>2 DEF FoldersOf, Consistent, Within
<1>3. CASE x = Top(b, parts)
  <2>1. IsWellKnown(parts[1]) => Fold[parts[1]] \in DOMAIN b.alias
    BY DEF Consistent, IsWellKnown
  <2>2. QED
    BY <1>3, <2>1 DEF Top, Consistent, Within
<1>4. QED
  BY <1>1, <1>2, <1>3

\* Where all parts of a path lead is what its reference denotes.
LEMMA ReachDenotes ==
  ASSUME NEW b, NEW ref, ref.parts # <<>>, NEW x, Reaches(b, ref.parts, Len(ref.parts), x)
  PROVE  x \in Denoted(b, ref)
<1> DEFINE parts == ref.parts
<1>1. x \in Spelt(b, Top(b, parts), From(parts), parts)
  BY DEF Reaches, Ways, Spelt, FoldersOf
<1>2. CASE IsWellKnown(parts[1])
  BY <1>1, <1>2 DEF Denoted, Top, From
<1>3. CASE ~IsWellKnown(parts[1])
  BY <1>1, <1>3 DEF Denoted, Top, From
<1>4. QED
  BY <1>2, <1>3

\* One part of a path: the page of the folders of a place, and the folder on it.
LEMMA FindAsks ==
  \A place, part : FindUnder(place, part, <<>>) = Ask(FetchFolders(place.at, LookupPage))
<1> SUFFICES ASSUME NEW place, NEW part
             PROVE  FindUnder(place, part, <<>>) = Ask(FetchFolders(place.at, LookupPage))
  OBVIOUS
<1> DEFINE s == Request(FetchFolders(place.at, LookupPage), <<>>)
<1>1. s = Ask(FetchFolders(place.at, LookupPage)) /\ s.next = "ask"
  BY Unanswered, StepFacts
<1> HIDE DEF s
<1>2. FindUnder(place, part, <<>>) = s
  BY <1>1 DEF FindUnder, Then, s
<1>3. QED
  BY <1>1, <1>2

LEMMA FindSteps ==
  ASSUME NEW place, NEW part, NEW rs, rs # <<>>
  PROVE  LET q == FindUnder(place, part, rs)
             n == MatchFolderByName(Head(rs).value.items, part)
         IN /\ q.next # "ask"
            /\ q.next = "done" => /\ Head(rs).ok /\ n # 0
                                  /\ q.value.at = ById(Head(rs).value.items[n].id)
<1> DEFINE s == Request(FetchFolders(place.at, LookupPage), rs)
           here(v) == MatchFolderByName(v.items, part)
           found(v) == Place(ById(v.items[here(v)].id), place.path \o v.items[here(v)].name)
           q == FindUnder(place, part, rs)
<1>1. q = IF s.next # "done" THEN s
          ELSE IF here(s.value) = 0 THEN Fail("no folder", s.rest)
          ELSE Done(found(s.value), s.rest)
  BY DEF FindUnder, Then
<1>2. s = IF Head(rs).ok THEN Done(Head(rs).value, Tail(rs)) ELSE Fail(Head(rs).value, Tail(rs))
  BY RequestSteps
<1>3. \A v : found(v).at = ById(v.items[here(v)].id)
  BY DEF Place
<1> HIDE DEF s, here, found, q
<1>4. CASE ~Head(rs).ok
  <2>1. s.next = "fail"
    BY <1>2, <1>4, StepFacts
  <2>2. q.next = "fail"
    BY <1>1, <2>1
  <2>3. QED
    BY <2>2 DEF q
<1>5. CASE Head(rs).ok
  <2>1. s.next = "done" /\ s.value = Head(rs).value
    BY <1>2, <1>5, StepFacts
  <2>2. CASE here(Head(rs).value) = 0
    <3>1. q = Fail("no folder", s.rest)
      BY <1>1, <2>1, <2>2
    <3>2. q.next = "fail"
      BY <3>1, Failing
    <3>3. QED
      BY <3>2 DEF q
  <2>3. CASE here(Head(rs).value) # 0
    <3>1. q = Done(found(Head(rs).value), s.rest)
      BY <1>1, <2>1, <2>3
    <3>2. q.next = "done" /\ q.value = found(Head(rs).value)
      BY <3>1, StepFacts
    <3>3. QED
      BY <1>3, <1>5, <2>3, <3>2 DEF q, here
  <2>4. QED
    BY <2>2, <2>3
<1>6. QED
  BY <1>4, <1>5

\* What a part of a path comes to is where it leads.
Right(b, parts, m, s) == s.next = "done" => Reaches(b, parts, m, Target(b, s.value.at))

LEMMA FoundLeads ==
  ASSUME NEW b, NEW parts, NEW m \in Nat, m >= From(parts), NEW place,
         Reaches(b, parts, m, Target(b, place.at)), NEW S, NEW rs \in Seq(S), NEW r \in S,
         Right(b, parts, m + 1, FindUnder(place, parts[m + 1], rs)),
         rs = <<>> /\ r.ok => Shows(b, Target(b, place.at), r.value.items)
  PROVE  Right(b, parts, m + 1, FindUnder(place, parts[m + 1], Append(rs, r)))
<1> DEFINE p == FindUnder(place, parts[m + 1], rs)
           q == FindUnder(place, parts[m + 1], Append(rs, r))
<1>1. CASE rs # <<>>
  <2>1. p.next # "ask"
    BY <1>1, FindSteps
  <2>2. q.next = p.next /\ q.value = p.value
    BY <2>1, FindUnderGrows DEF Grows
  <2> HIDE DEF p, q
  <2>3. Right(b, parts, m + 1, q)
    BY <2>2 DEF Right, p
  <2>4. QED
    BY <2>3 DEF q
<1>2. CASE rs = <<>>
  <2>1. Append(rs, r) # <<>> /\ Head(Append(rs, r)) = r
    BY <1>2, OneReply
  <2> DEFINE n == MatchFolderByName(r.value.items, parts[m + 1])
             f == r.value.items[n].id
  <2> HIDE DEF n, p
  <2> SUFFICES ASSUME q.next = "done"
               PROVE  Reaches(b, parts, m + 1, Target(b, q.value.at))
    BY DEF Right
  <2>2. r.ok /\ n # 0 /\ q.value.at = ById(f)
    <3> DEFINE t    == Append(rs, r)
               part == parts[m + 1]
    <3>1. t # <<>> /\ Head(t) = r
      BY <2>1
    <3>2. q = FindUnder(place, part, t)
      OBVIOUS
    <3> HIDE DEF t, part, q
    <3>3. FindUnder(place, part, t).next = "done"
      BY <3>2
    <3>4. /\ Head(t).ok /\ MatchFolderByName(Head(t).value.items, part) # 0
          /\ q.value.at = ById(Head(t).value.items[MatchFolderByName(Head(t).value.items, part)].id)
      BY <3>1, <3>2, <3>3, FindSteps
    <3>5. QED
      BY <3>1, <3>4 DEF n, part
  <2>3. Leads(b, Target(b, place.at), parts[m + 1], f)
    BY <1>2, <2>2, MatchLeads DEF n
  <2>4. Target(b, q.value.at) = f
    BY <2>2, Targets
  <2> HIDE DEF q, f
  <2>5. QED
    BY <2>3, <2>4, ReachNext
<1>3. QED
  BY <1>1, <1>2

\* A reply to a request for folders shows what is there.
Truthful(b, s, r) ==
  \A at : s.next = "ask" /\ s.req = FetchFolders(at, LookupPage) /\ r.ok /\ Within(b, Target(b, at)) =>
            Shows(b, Target(b, at), r.value.items)

-------------------------------------------------------------------------------
\* A walk that waits for a reply goes no further.
LEMMA WalkStays ==
  ASSUME NEW parts, NEW N \in Nat, NEW rs, NEW g, Walk(parts, rs, N, g),
         NEW k \in 1 .. N, g[k].next = "ask"
  PROVE  g[N] = g[k]
<1> DEFINE P == {n \in k .. N : g[n] = g[k]}
<1>1. k \in P
  OBVIOUS
<1>2. ASSUME NEW n \in k .. N, n + 1 \in k .. N, n \in P
      PROVE  n + 1 \in P
  <2>1. g[n + 1] = NextPart(parts[n + 1], g[n])
    BY <1>2 DEF Walk
  <2>2. QED
    BY <1>2, <2>1 DEF NextPart, Then
<1>3. \A n \in k .. N : n \in P
  <2> HIDE DEF P
  <2>1. QED
    BY <1>1, <1>2, UpTo
<1>4. QED
  BY <1>3

LEMMA FirstLeads ==
  ASSUME NEW b, NEW parts, IsWellKnown(parts[1])
  PROVE  /\ \A rs : FirstPart(parts[1], rs) = Done(WellKnownFolder(parts[1]), rs)
         /\ Target(b, WellKnownFolder(parts[1]).at) = Top(b, parts)
         /\ \A rs : Right(b, parts, 1, FirstPart(parts[1], rs))
<1>1. \A rs : FirstPart(parts[1], rs) = Done(WellKnownFolder(parts[1]), rs)
  BY DEF FirstPart
<1>2. WellKnownFolder(parts[1]).at = ByKey(Fold[parts[1]])
  BY DEF WellKnownFolder, Place
<1>3. Target(b, WellKnownFolder(parts[1]).at) = Top(b, parts)
  BY <1>2, Targets DEF IsWellKnown, Top
<1>4. Reaches(b, parts, 1, Top(b, parts))
  BY ReachStart DEF From
<1>5. \A rs : FirstPart(parts[1], rs).value = WellKnownFolder(parts[1])
  BY <1>1, StepFacts
<1>6. QED
  BY <1>1, <1>3, <1>4, <1>5 DEF Right

\* One reply more: every part that the walk has found is where it leads.
LEMMA WalkLeads ==
  ASSUME NEW b, Consistent(b), NEW parts, Len(parts) \in Nat \ {0}, NEW S, NEW rs \in Seq(S), NEW r \in S,
         NEW g, Walk(parts, rs, Len(parts), g), NEW h, Walk(parts, Append(rs, r), Len(parts), h),
         \A k \in 1 .. Len(parts) : Right(b, parts, k, g[k]), Truthful(b, g[Len(parts)], r)
  PROVE  \A k \in 1 .. Len(parts) : Right(b, parts, k, h[k])
<1> DEFINE N == Len(parts)
           t == Append(rs, r)
           P == {n \in 1 .. N : Grows(g[n], h[n], r, S) /\ Right(b, parts, n, h[n])}
<1>0. N \in Nat /\ 1 \in 1 .. N
  OBVIOUS
<1>1. ASSUME NEW k \in 1 .. N, NEW m \in Nat, k = m + 1, m >= From(parts), NEW place, NEW rest \in Seq(S),
             g[k] = FindUnder(place, parts[k], rest), h[k] = FindUnder(place, parts[k], Append(rest, r)),
             Reaches(b, parts, m, Target(b, place.at))
      PROVE  Right(b, parts, k, h[k])
  <2>1. rest = <<>> /\ r.ok => Shows(b, Target(b, place.at), r.value.items)
    <3> SUFFICES ASSUME rest = <<>>, r.ok PROVE Shows(b, Target(b, place.at), r.value.items)
      OBVIOUS
    <3>1. g[k] = Ask(FetchFolders(place.at, LookupPage))
      BY <1>1, FindAsks
    <3>2. g[k].next = "ask" /\ g[k].req = FetchFolders(place.at, LookupPage)
      BY <3>1, StepFacts
    <3>3. g[N] = g[k]
      BY <1>0, <3>2, WalkStays
    <3>4. Within(b, Target(b, place.at))
      BY <1>1, ReachWithin
    <3>5. QED
      BY <3>2, <3>3, <3>4 DEF Truthful
  <2>2. Right(b, parts, m + 1, FindUnder(place, parts[m + 1], rest))
    BY <1>1
  <2>3. Right(b, parts, m + 1, FindUnder(place, parts[m + 1], Append(rest, r)))
    BY <1>1, <2>1, <2>2, FoundLeads
  <2>4. QED
    BY <1>1, <2>3
<1>2. 1 \in P
  <2>1. g[1] = FirstPart(parts[1], rs) /\ h[1] = FirstPart(parts[1], t)
    BY <1>0 DEF Walk
  <2>2. Grows(g[1], h[1], r, S)
    BY <2>1, FirstPartGrows
  <2>3. Right(b, parts, 1, h[1])
    <3>1. CASE IsWellKnown(parts[1])
      BY <2>1, <3>1, FirstLeads
    <3>2. CASE ~IsWellKnown(parts[1])
      <4> DEFINE place == Place(Mailbox, <<>>)
      <4>1. g[1] = FindUnder(place, parts[1], rs) /\ h[1] = FindUnder(place, parts[1], t)
        BY <2>1, <3>2 DEF FirstPart
      <4>2. Target(b, place.at) = 0
        BY Targets DEF Place, Mailbox
      <4>3. From(parts) = 0 /\ Top(b, parts) = 0
        BY <3>2 DEF From, Top
      <4>4. Reaches(b, parts, 0, Target(b, place.at))
        BY <4>2, <4>3, ReachStart
      <4> HIDE DEF place
      <4>5. 1 = 0 + 1 /\ 0 >= From(parts)
        BY <4>3
      <4>6. QED
        BY <1>0, <1>1, <4>1, <4>4, <4>5
    <3>3. QED
      BY <3>1, <3>2
  <2>4. QED
    BY <1>0, <2>2, <2>3
<1>3. ASSUME NEW n \in 1 .. N, n + 1 \in 1 .. N, n \in P
      PROVE  n + 1 \in P
  <2>1. g[n + 1] = NextPart(parts[n + 1], g[n]) /\ h[n + 1] = NextPart(parts[n + 1], h[n])
    BY <1>3 DEF Walk
  <2>2. Grows(g[n], h[n], r, S) /\ Right(b, parts, n, g[n])
    BY <1>3
  <2>3. Grows(g[n + 1], h[n + 1], r, S)
    BY <2>1, <2>2, NextPartGrows
  <2>4. \A s : NextPart(parts[n + 1], s) =
                IF s.next = "done" THEN FindUnder(s.value, parts[n + 1], s.rest) ELSE s
    BY DEF NextPart, Then
  <2> HIDE DEF P
  <2>5. CASE g[n].next = "ask"
    <3>1. h[n].next = "done" => h[n + 1] = FindUnder(h[n].value, parts[n + 1], <<>>)
      BY <2>1, <2>2, <2>4, <2>5 DEF Grows
    <3>2. h[n + 1].next # "done"
      <4>1. \A v : FindUnder(v, parts[n + 1], <<>>).next = "ask"
        BY FindUnderAsks
      <4>2. h[n].next # "done" => h[n + 1] = h[n]
        BY <2>1, <2>4
      <4>3. QED
        BY <3>1, <4>1, <4>2
    <3>3. QED
      BY <1>3, <2>3, <3>2 DEF P, Right
  <2>6. CASE g[n].next = "done"
    <3>1. g[n].rest \in Seq(S) /\ h[n].rest = Append(g[n].rest, r) /\ h[n].next = "done"
          /\ h[n].value = g[n].value
      BY <2>2, <2>6 DEF Grows
    <3>2. /\ g[n + 1] = FindUnder(g[n].value, parts[n + 1], g[n].rest)
          /\ h[n + 1] = FindUnder(g[n].value, parts[n + 1], Append(g[n].rest, r))
      BY <2>1, <2>4, <2>6, <3>1
    <3>3. Reaches(b, parts, n, Target(b, g[n].value.at))
      BY <2>2, <2>6 DEF Right
    <3>4. n \in Nat /\ n >= From(parts)
      BY <1>3 DEF From
    <3>5. Right(b, parts, n + 1, h[n + 1])
      BY <1>1, <1>3, <3>1, <3>2, <3>3, <3>4
    <3>6. QED
      BY <1>3, <2>3, <3>5 DEF P
  <2>7. CASE g[n].next \notin {"ask", "done"}
    <3>1. h[n].next # "done"
      BY <2>2, <2>7 DEF Grows
    <3>2. h[n + 1].next # "done"
      BY <2>1, <2>4, <3>1
    <3>3. QED
      BY <1>3, <2>3, <3>2 DEF P, Right
  <2>8. QED
    BY <2>5, <2>6, <2>7
<1>4. \A n \in 1 .. N : n \in P
  <2> HIDE DEF P
  <2>1. QED
    BY <1>2, <1>3, UpTo
<1>5. QED
  BY <1>4

LEMMA WalkBegins ==
  ASSUME NEW b, NEW parts, Len(parts) \in Nat \ {0}, NEW g, Walk(parts, <<>>, Len(parts), g)
  PROVE  \A k \in 1 .. Len(parts) : Right(b, parts, k, g[k])
<1> DEFINE N == Len(parts)
           P == {n \in 1 .. N : Right(b, parts, n, g[n]) /\ (g[n].next = "done" => g[n].rest = <<>>)}
<1>0. N \in Nat /\ 1 \in 1 .. N
  OBVIOUS
<1>1. 1 \in P
  <2>1. g[1] = FirstPart(parts[1], <<>>)
    BY <1>0 DEF Walk
  <2>2. CASE IsWellKnown(parts[1])
    <3>1. g[1] = Done(WellKnownFolder(parts[1]), <<>>) /\ Right(b, parts, 1, g[1])
      BY <2>1, <2>2, FirstLeads
    <3>2. g[1].rest = <<>>
      BY <3>1, StepFacts
    <3>3. QED
      BY <1>0, <3>1, <3>2
  <2>3. CASE ~IsWellKnown(parts[1])
    <3>1. g[1].next = "ask"
      BY <2>1, <2>3, FindUnderAsks DEF FirstPart
    <3>2. QED
      BY <1>0, <3>1 DEF Right
  <2>4. QED
    BY <2>2, <2>3
<1>2. ASSUME NEW n \in 1 .. N, n + 1 \in 1 .. N, n \in P
      PROVE  n + 1 \in P
  <2>1. g[n + 1] = NextPart(parts[n + 1], g[n])
    BY <1>2 DEF Walk
  <2>2. g[n + 1] = IF g[n].next = "done" THEN FindUnder(g[n].value, parts[n + 1], g[n].rest) ELSE g[n]
    BY <2>1 DEF NextPart, Then
  <2>3. g[n].next = "done" => g[n].rest = <<>>
    BY <1>2
  <2>4. g[n + 1].next # "done"
    <3>1. \A v : FindUnder(v, parts[n + 1], <<>>).next = "ask"
      BY FindUnderAsks
    <3>2. QED
      BY <2>2, <2>3, <3>1
  <2>5. QED
    BY <1>2, <2>4 DEF Right
<1>3. \A n \in 1 .. N : n \in P
  <2> HIDE DEF P
  <2>1. QED
    BY <1>1, <1>2, UpTo
<1>4. QED
  BY <1>3

\* A reference that is a path, and not at once a name or an ID.
Walked(ref) ==
  ~(\/ ref = NoRef
    \/ Len(ref.parts) = 1 /\ IsWellKnown(ref.parts[1])
    \/ Len(ref.parts) <= 1 /\ ref.id # 0)

\* Every part of the path is where it leads.
Led(b, ref, rs) ==
  Walked(ref) =>
    \A g : Walk(ref.parts, rs, Len(ref.parts), g) =>
             \A k \in 1 .. Len(ref.parts) : Right(b, ref.parts, k, g[k])

LEMMA RefParts ==
  ASSUME NEW ref \in References
  PROVE  /\ Len(ref.parts) \in Nat /\ (ref.parts # <<>> <=> Len(ref.parts) # 0)
         /\ ref # NoRef /\ ref.id = 0 => ref.parts # <<>>
         /\ Walked(ref) => Len(ref.parts) \in Nat \ {0}
<1>1. ref.parts \in Seq(DOMAIN Fold) /\ ref.id \in Nat /\ ref = [parts |-> ref.parts, id |-> ref.id]
  BY DEF References
<1>2. Len(ref.parts) \in Nat /\ (ref.parts # <<>> <=> Len(ref.parts) # 0)
  BY <1>1
<1>3. ref.parts = <<>> /\ ref.id = 0 => ref = NoRef
  BY <1>1 DEF NoRef
<1>4. QED
  BY <1>2, <1>3 DEF Walked

\* The way of a reference: where it is not a path nothing is asked for.
LEMMA ParamSteps ==
  ASSUME NEW ref \in References, NEW rs
  PROVE  LET p    == ResolveFolderParam(ref, rs)
             walk == WalkFolderPath(ref.parts, rs)
         IN /\ ref # NoRef => p = ResolveFolderRef(ref, FALSE, rs)
            /\ ~Walked(ref) => /\ p.next = "done"
                               /\ \/ ref = NoRef /\ p.value.at = Mailbox
                                  \/ /\ Len(ref.parts) = 1 /\ IsWellKnown(ref.parts[1])
                                     /\ p.value = WellKnownFolder(ref.parts[1])
                                  \/ ref.id # 0 /\ p.value.at = ById(ref.id)
            /\ Walked(ref) => \/ p = walk
                              \/ ref.id # 0 /\ p.next = "done" /\ p.value.at = ById(ref.id)
<1> DEFINE p == ResolveFolderParam(ref, rs)
           walk == WalkFolderPath(ref.parts, rs)
<1>2. ASSUME NEW id, NEW x
      PROVE  PassThroughId(id, FALSE, x).next = "done" /\ PassThroughId(id, FALSE, x).value.at = ById(id)
  <2> DEFINE s == PassThroughId(id, FALSE, x)
             v == Place(ById(id), <<>>)
  <2>1. s = Done(v, x) /\ v.at = ById(id)
    BY DEF PassThroughId, Place
  <2> HIDE DEF s, v
  <2>2. s.next = "done" /\ s.value = v
    BY <2>1, StepFacts
  <2>3. QED
    BY <2>1, <2>2 DEF s
<1>3. ref # NoRef => p = ResolveFolderRef(ref, FALSE, rs)
  BY DEF ResolveFolderParam
<1>4. CASE ref = NoRef
  <2>1. p = Done(Place(Mailbox, <<>>), rs)
    BY <1>4 DEF ResolveFolderParam
  <2>2. p.next = "done" /\ p.value.at = Mailbox
    BY <2>1, StepFacts DEF Place
  <2> HIDE DEF p
  <2>3. QED
    BY <1>4, <2>2 DEF Walked, p
<1>5. CASE ref # NoRef /\ Len(ref.parts) = 1 /\ IsWellKnown(ref.parts[1])
  <2>1. p = Done(WellKnownFolder(ref.parts[1]), rs)
    BY <1>3, <1>5 DEF ResolveFolderRef
  <2>2. p.next = "done" /\ p.value = WellKnownFolder(ref.parts[1])
    BY <2>1, StepFacts
  <2> HIDE DEF p
  <2>3. QED
    BY <1>3, <1>5, <2>2 DEF Walked, p
<1>6. CASE /\ ref # NoRef /\ ~(Len(ref.parts) = 1 /\ IsWellKnown(ref.parts[1]))
           /\ Len(ref.parts) <= 1 /\ ref.id # 0
  <2>1. p = PassThroughId(ref.id, FALSE, rs)
    BY <1>3, <1>6 DEF ResolveFolderRef
  <2> HIDE DEF p
  <2>2. QED
    BY <1>2, <1>3, <1>6, <2>1 DEF Walked, p
<1>7. CASE Walked(ref)
  <2>1. p = IF walk.next # "fail" \/ ref.id = 0 THEN walk ELSE PassThroughId(ref.id, FALSE, walk.rest)
    BY <1>3, <1>7 DEF Walked, ResolveFolderRef
  <2> HIDE DEF p, walk
  <2>2. p = walk \/ (ref.id # 0 /\ p.next = "done" /\ p.value.at = ById(ref.id))
    BY <1>2, <2>1
  <2>3. Walked(ref) /\ (ref # NoRef => p = ResolveFolderRef(ref, FALSE, rs))
    BY <1>3, <1>7
  <2>4. QED
    BY <2>2, <2>3 DEF p, walk
<1>8. QED
  BY <1>4, <1>5, <1>6, <1>7 DEF Walked

LEMMA LedBegins ==
  ASSUME NEW b, NEW ref \in References
  PROVE  Led(b, ref, <<>>)
BY RefParts, WalkBegins DEF Led

LEMMA LedOn ==
  ASSUME NEW b, Consistent(b), NEW ref \in References, NEW S, NEW rs \in Seq(S), NEW r \in S,
         Led(b, ref, rs), Truthful(b, ResolveFolderParam(ref, rs), r)
  PROVE  Led(b, ref, Append(rs, r))
<1> DEFINE N == Len(ref.parts)
<1> SUFFICES ASSUME Walked(ref), NEW h, Walk(ref.parts, Append(rs, r), N, h)
             PROVE  \A k \in 1 .. N : Right(b, ref.parts, k, h[k])
  BY DEF Led
<1>1. N \in Nat \ {0}
  BY RefParts
<1>2. PICK g : /\ Walk(ref.parts, rs, N, g)
               /\ WalkFolderPath(ref.parts, rs) = g[N]
  <2> DEFINE g == CHOOSE g : Walk(ref.parts, rs, N, g)
  <2>1. Walk(ref.parts, rs, N, g)
    BY <1>1, WalkRuns
  <2>2. WalkFolderPath(ref.parts, rs) = g[N]
    BY DEF WalkFolderPath, Walk
  <2>3. QED
    BY <2>1, <2>2
<1>3. \A k \in 1 .. N : Right(b, ref.parts, k, g[k])
  BY <1>2 DEF Led
<1>4. Truthful(b, g[N], r)
  <2> DEFINE p == ResolveFolderParam(ref, rs)
  <2>1. p = g[N] \/ p.next = "done"
    BY <1>2, ParamSteps
  <2>2. CASE p = g[N]
    BY <2>2
  <2>3. CASE p # g[N]
    <3>1. ref.id # 0 /\ p = IF g[N].next # "fail" \/ ref.id = 0 THEN g[N]
                            ELSE PassThroughId(ref.id, FALSE, g[N].rest)
      <4>1. ref # NoRef /\ ~(Len(ref.parts) = 1 /\ IsWellKnown(ref.parts[1]))
            /\ ~(Len(ref.parts) <= 1 /\ ref.id # 0)
        BY DEF Walked
      <4>2. p = IF g[N].next # "fail" \/ ref.id = 0 THEN g[N] ELSE PassThroughId(ref.id, FALSE, g[N].rest)
        BY <1>2, <4>1 DEF ResolveFolderParam, ResolveFolderRef
      <4>3. QED
        BY <2>3, <4>2
    <3>2. g[N].next = "fail"
      BY <2>3, <3>1
    <3>3. QED
      BY <3>2 DEF Truthful
  <2>4. QED
    BY <2>2, <2>3
<1>5. QED
  BY <1>1, <1>2, <1>3, <1>4, WalkLeads

\* Once it is resolved, a reference stands for what it may mean.
LEMMA LedTo ==
  ASSUME NEW b, NEW ref \in References, NEW rs, Led(b, ref, rs), ResolveFolderParam(ref, rs).next = "done"
  PROVE  Target(b, ResolveFolderParam(ref, rs).value.at) \in Denoted(b, ref)
<1> DEFINE p == ResolveFolderParam(ref, rs)
           N == Len(ref.parts)
<1>1. CASE ref = NoRef
  <2>1. p.value.at = Mailbox
    BY <1>1 DEF ResolveFolderParam, Done, Place
  <2>2. QED
    BY <1>1, <2>1, Targets DEF Denoted, Mailbox
<1>2. CASE ref.id # 0 /\ p.value.at = ById(ref.id)
  BY <1>2, Targets DEF Denoted
<1>3. CASE Len(ref.parts) = 1 /\ IsWellKnown(ref.parts[1]) /\ p.value = WellKnownFolder(ref.parts[1])
  <2>1. Target(b, p.value.at) = Top(b, ref.parts)
    BY <1>3, FirstLeads
  <2>2. Reaches(b, ref.parts, N, Target(b, p.value.at))
    BY <1>3, <2>1, ReachStart DEF From
  <2>3. ref.parts # <<>>
    BY <1>3, RefParts
  <2>4. QED
    BY <2>2, <2>3, ReachDenotes
<1>4. CASE Walked(ref) /\ p = WalkFolderPath(ref.parts, rs)
  <2>1. N \in Nat \ {0} /\ ref.parts # <<>>
    BY <1>4, RefParts
  <2>2. PICK g : Walk(ref.parts, rs, N, g) /\ WalkFolderPath(ref.parts, rs) = g[N]
    <3> DEFINE g == CHOOSE g : Walk(ref.parts, rs, N, g)
    <3>1. Walk(ref.parts, rs, N, g)
      BY <2>1, WalkRuns
    <3>2. WalkFolderPath(ref.parts, rs) = g[N]
      BY DEF WalkFolderPath, Walk
    <3>3. QED
      BY <3>1, <3>2
  <2>3. Right(b, ref.parts, N, p)
    BY <1>4, <2>1, <2>2 DEF Led
  <2>4. Reaches(b, ref.parts, N, Target(b, p.value.at))
    BY <2>3 DEF Right
  <2>5. QED
    BY <2>1, <2>4, ReachDenotes
<1>5. QED
  BY <1>1, <1>2, <1>3, <1>4, ParamSteps

-------------------------------------------------------------------------------
\* The verbs that find a folder first, and what they ask for then.
FolderOps == {"mail.create_folder", "mail.delete_folder", "mail.move_message", "mail.move_messages"}
FolderArg(op) ==
  CASE op = "mail.create_folder" -> "parent"
    [] op = "mail.delete_folder" -> "folder"
    [] op \in {"mail.move_message", "mail.move_messages"} -> "destination"
RefOf(op, a) == Arg(a, FolderArg(op), NoRef)
FolderOf(op, a, rs) == ResolveFolderParam(RefOf(op, a), rs)
MovedIds(a) == {MessageID(a)} \cup {BatchIds(a)[n] : n \in 1 .. Len(BatchIds(a))}
FolderWrite(op, a, at, req) ==
  CASE op = "mail.create_folder" -> \E item : req = Create(at, item) /\ item.kind = "folder"
    [] op = "mail.delete_folder" -> req = Delete("folder", at)
    [] op \in {"mail.move_message", "mail.move_messages"} -> \E id \in MovedIds(a) : req = Move(id, at)

LEMMA RequestAsks ==
  ASSUME NEW req, NEW rs, Request(req, rs).next = "ask"
  PROVE  Request(req, rs).req = req
<1> DEFINE s == Request(req, rs)
<1>1. rs # <<>> => s = Done(Head(rs).value, Tail(rs)) \/ s = Fail(Head(rs).value, Tail(rs))
  BY RequestSteps
<1>2. rs = <<>> => s = Ask(req)
  BY RequestSteps
<1> HIDE DEF s
<1>3. s.next = "ask"
  BY DEF s
<1>4. rs = <<>>
  BY <1>1, <1>3, StepFacts
<1>5. s.req = req
  BY <1>2, <1>4, StepFacts
<1>6. QED
  BY <1>5 DEF s

\* A handler that finds a folder p and then makes one request.
LEMMA FindThenAsk ==
  ASSUME NEW h, NEW p, NEW wrong, NEW x, NEW req,
         h = IF wrong THEN Fail("argument", x) ELSE IF p.next # "done" THEN p ELSE Request(req, p.rest),
         h.next = "ask"
  PROVE  ~wrong /\ (h = p \/ (p.next = "done" /\ h.req = req))
<1>1. ~wrong
  BY Failing
<1>2. p.next = "done" => h.req = req
  BY <1>1, RequestAsks
<1>3. QED
  BY <1>1, <1>2

\* The verbs that find a folder ask for it, or make their change there.
LEMMA FolderAsks ==
  ASSUME NEW op \in FolderOps, NEW a, WellTyped(a), NEW S, NEW rs \in Seq(S), Heard(S),
         Handle(op, a, rs).next = "ask"
  PROVE  LET h == Handle(op, a, rs)
             p == FolderOf(op, a, rs)
         IN /\ RefOf(op, a) \in References
            /\ \/ h = p /\ h.req.op \in Reading
               \/ p.next = "done" /\ FolderWrite(op, a, p.value.at, h.req)
<1> DEFINE h == Handle(op, a, rs)
           p == FolderOf(op, a, rs)
           ref == RefOf(op, a)
<1>1. ref \in References
  BY Folders DEF RefOf, FolderArg, FolderOps
<1>2. Keeps(p, Reading, S)
  BY <1>1, ParamKeeps DEF FolderOf
<1>3. p.next = "ask" => p.req.op \in Reading
  BY <1>2 DEF Keeps, Asks
<1>4. CASE op = "mail.create_folder"
  <2> DEFINE name == Arg(a, "display_name", <<>>)
             wrong == name = <<>> \/ Bad(a, "shape")
             item == [kind |-> "folder", name |-> name, hidden |-> FALSE]
             req == Create(p.value.at, item)
  <2>1. h = CreateFolder(a, rs) /\ ref = Arg(a, "parent", NoRef)
    BY <1>4 DEF Handle, RefOf, FolderArg
  <2>2. h = IF wrong THEN Fail("argument", rs) ELSE IF p.next # "done" THEN p ELSE Request(req, p.rest)
    BY <2>1 DEF CreateFolder, Then, FolderOf
  <2>3. item.kind = "folder"
    OBVIOUS
  <2> HIDE DEF h, p, wrong, item, ref
  <2>4. h.next = "ask"
    BY DEF h
  <2>5. h = p \/ (p.next = "done" /\ h.req = req)
    BY <2>2, <2>4, FindThenAsk
  <2>6. p.next = "done" /\ h.req = req => FolderWrite(op, a, p.value.at, h.req)
    BY <1>4, <2>3 DEF FolderWrite
  <2>7. QED
    BY <1>1, <1>3, <2>4, <2>5, <2>6 DEF h, p, ref
<1>5. CASE op = "mail.delete_folder"
  <2> DEFINE wrong == ref = NoRef \/ Bad(a, "shape")
             req == Delete("folder", p.value.at)
  <2>1. h = DeleteFolder(a, rs) /\ ref = Arg(a, "folder", NoRef)
    BY <1>5 DEF Handle, RefOf, FolderArg
  <2>2. ~wrong => p = ResolveFolderRef(ref, FALSE, rs)
    BY DEF FolderOf, ResolveFolderParam
  <2> HIDE DEF p, ref
  <2>3. h = IF wrong THEN Fail("argument", rs) ELSE IF p.next # "done" THEN p ELSE Request(req, p.rest)
    BY <2>1, <2>2 DEF DeleteFolder, Then
  <2> HIDE DEF h, wrong
  <2>4. h.next = "ask"
    BY DEF h
  <2>5. h = p \/ (p.next = "done" /\ h.req = req)
    BY <2>3, <2>4, FindThenAsk
  <2>6. p.next = "done" /\ h.req = req => FolderWrite(op, a, p.value.at, h.req)
    BY <1>5 DEF FolderWrite
  <2>7. QED
    BY <1>1, <1>3, <2>4, <2>5, <2>6 DEF h, p, ref
<1>6. CASE op = "mail.move_message"
  <2> DEFINE wrong == Bad(a, "shape") \/ MessageID(a) = 0 \/ Arg(a, "destination", NoRef) = NoRef
             req == Move(MessageID(a), p.value.at)
  <2>1. h = MoveMessage(a, rs) /\ ref = Arg(a, "destination", NoRef)
    BY <1>6 DEF Handle, RefOf, FolderArg
  <2>2. ~wrong => p = ResolveFolderRef(a.destination, FALSE, rs)
    <3>1. ~wrong => ref # NoRef /\ ref = a.destination
      BY <2>1 DEF Arg
    <3>2. QED
      BY <3>1 DEF FolderOf, ResolveFolderParam
  <2> HIDE DEF p, ref
  <2>3. h = IF wrong THEN Fail("argument", rs) ELSE IF p.next # "done" THEN p ELSE Request(req, p.rest)
    BY <2>1, <2>2 DEF MoveMessage, Then
  <2> HIDE DEF h, wrong
  <2>4. h.next = "ask"
    BY DEF h
  <2>5. h = p \/ (p.next = "done" /\ h.req = req)
    BY <2>3, <2>4, FindThenAsk
  <2>6. p.next = "done" /\ h.req = req => FolderWrite(op, a, p.value.at, h.req)
    BY <1>6 DEF FolderWrite, MovedIds
  <2>7. QED
    BY <1>1, <1>3, <2>4, <2>5, <2>6 DEF h, p, ref
<1>7. CASE op = "mail.move_messages"
  <2> DEFINE ids   == BatchIds(a)
             to    == p.value.at
             batch == MoveEach(ids, to, p.rest)
  <2>1. h = MoveMessages(a, rs) /\ ref = Arg(a, "destination", NoRef) /\ h.next = "ask"
    BY <1>7 DEF Handle, RefOf, FolderArg
  <2>2. Ready(a) /\ ~Bad(a, "shape")
    <3>1. MoveMessages(a, rs).next # "fail"
      BY <2>1
    <3>2. QED
      BY <3>1, MovesParts
  <2>3. PlaceOf(a, rs) = p
    <3>1. ref # NoRef /\ ref = a.destination
      BY <2>1, <2>2 DEF Ready, Arg
    <3>2. QED
      BY <3>1 DEF PlaceOf, FolderOf, ResolveFolderParam
  <2>4. /\ p.next # "done" => h = p
        /\ p.next = "done" /\ batch.next # "done" => h = batch
        /\ p.next = "done" /\ batch.next = "done" => h.next \in {"done", "fail"}
    <3> HIDE DEF p
    <3>1. QED
      BY <2>1, <2>2, <2>3, MovesParts
  <2> HIDE DEF h, ref
  <2>5. CASE p.next # "done"
    BY <1>1, <1>3, <2>1, <2>4, <2>5 DEF h, ref
  <2>6. CASE p.next = "done"
    <3>1. h = batch /\ batch.next = "ask" /\ p.rest \in Seq(S)
      BY <1>2, <2>1, <2>4, <2>6 DEF Keeps
    <3> HIDE DEF p
    <3>2. Len(ids) \in Nat
      BY <2>2 DEF Ready
    <3>3. PICK m \in 1 .. Len(ids) : AsksAt(ids, to, p.rest, m)
      BY <3>1, <3>2, BatchAsks
    <3>4. batch = Ask(Move(ids[m], to))
      <4>1. MoveEach(ids, to, p.rest) = Batch(ids, to, p.rest)[Len(ids)]
        BY <3>2, BatchSteps
      <4>2. Len(ids) \in m .. Len(ids)
        BY <3>2
      <4>3. QED
        BY <3>3, <4>1, <4>2 DEF AsksAt
    <3>5. h.req = Move(ids[m], to)
      BY <3>1, <3>4, StepFacts
    <3>6. ids[m] \in MovedIds(a)
      BY DEF MovedIds
    <3>7. FolderWrite(op, a, to, h.req)
      BY <1>7, <3>5, <3>6 DEF FolderWrite
    <3>8. QED
      BY <1>1, <2>6, <3>7 DEF h, p, ref
  <2>7. QED
    BY <2>5, <2>6
<1>8. QED
  BY <1>4, <1>5, <1>6, <1>7 DEF FolderOps

\* The verbs that make something new at once, and those that change the item they
\* are given.
MakeOps == {"mail.create_draft"} \cup CreateOps
ItemOps == ChangeOps \cup DraftOps \cup RescheduleOps

\* Every verb that changes the mailbox is of one of four shapes.
LEMMA ChangeVerbs == RemoveNames \cup WriteNames \subseteq FolderOps \cup MakeOps \cup ItemOps \cup DeriveOps
BY DEF RemoveNames, WriteNames, FolderOps, MakeOps, ItemOps, DeriveOps, ChangeOps, DraftOps, RescheduleOps,
       CreateOps

\* The verbs that make an item make it in the calendar they name, no folder.
LEMMA MakeAsks ==
  ASSUME NEW op \in MakeOps, NEW a, NEW rs, Handle(op, a, rs).next = "ask"
  PROVE  \E item : /\ item.kind # "folder"
                   /\ op = "mail.create_draft" => Handle(op, a, rs).req = Create(Mailbox, item)
                   /\ op \in CreateOps => Handle(op, a, rs).req = Create(ById(Arg(a, "calendar_id", 0)), item)
<1> DEFINE h == Handle(op, a, rs)
<1>1. ASSUME NEW wrong, NEW req, h = IF wrong THEN Fail("argument", rs) ELSE Request(req, rs)
      PROVE  h.req = req
  <2>1. h.next = "ask"
    OBVIOUS
  <2> HIDE DEF h
  <2>2. ~wrong
    BY <1>1, <2>1, Failing
  <2>3. QED
    BY <1>1, <2>1, <2>2, RequestAsks
<1>2. CASE op = "mail.create_draft"
  <2> DEFINE item == With(BlankDraft, Given(a, DraftFields))
  <2>1. item.kind = "message"
    <3>1. "kind" \notin DOMAIN Given(a, DraftFields)
      BY DEF Given, DraftFields
    <3>2. "kind" \in DOMAIN BlankDraft /\ BlankDraft.kind = "message"
      BY DEF BlankDraft
    <3>3. QED
      BY <3>1, <3>2, WithFacts
  <2>2. h = IF Bad(a, "shape") THEN Fail("argument", rs) ELSE Request(Create(Mailbox, item), rs)
    BY <1>2 DEF Handle, CreateDraft
  <2> HIDE DEF item, h
  <2>3. h.req = Create(Mailbox, item)
    BY <1>1, <2>2
  <2>4. op \notin CreateOps
    BY <1>2 DEF CreateOps
  <2>5. QED
    BY <2>1, <2>3, <2>4 DEF h
<1>3. CASE op \in CreateOps
  <2> DEFINE start == Arg(a, "start_datetime", NoTime)
             end   == Arg(a, "end_datetime", ComputeDefaultEndTime(start, Arg(a, "is_all_day", FALSE)))
             times == [start  |-> EventTime(start, Zone(a, "start_timezone")),
                       finish |-> EventTime(end, Zone(a, "end_timezone"))]
             event == With(BlankEvent, Given(a, EventFields))
             item  == With(event, times)
             wrong == Bad(a, "shape") \/ "subject" \notin DOMAIN a \/ NoTime \in {start, end}
             req   == Create(ById(Arg(a, "calendar_id", 0)), item)
  <2>1. "kind" \in DOMAIN event /\ event.kind = "event"
    <3>1. "kind" \notin DOMAIN Given(a, EventFields)
      BY DEF Given, EventFields
    <3>2. "kind" \in DOMAIN BlankEvent /\ BlankEvent.kind = "event"
      BY DEF BlankEvent
    <3>3. QED
      BY <3>1, <3>2, WithFacts, ZenonT(60)
  <2>2. "kind" \notin DOMAIN times
    OBVIOUS
  <2>3. h = HandleCreateEvent(a, rs)
    BY <1>3 DEF Handle, CreateOps
  <2>4. h = IF wrong THEN Fail("argument", rs) ELSE Request(req, rs)
    BY <2>3 DEF HandleCreateEvent
  <2> HIDE DEF event, times
  <2>5. item.kind = "event"
    BY <2>1, <2>2, WithFacts
  <2> HIDE DEF item, h, wrong
  <2>6. h.req = req
    BY <1>1, <2>4
  <2>7. op # "mail.create_draft"
    BY <1>3 DEF CreateOps
  <2>8. QED
    BY <2>5, <2>6, <2>7 DEF h
<1>4. QED
  BY <1>2, <1>3 DEF MakeOps

\* The item that a call names.
ItemAim(a, r) ==
  /\ r.op \notin {"create", "move"} /\ (r.op = "delete" => r.kind # "folder")
  /\ r.at.id \in {Arg(a, "message_id", 0), Arg(a, "event_id", 0)}

LEMMA ItemRequests ==
  ASSUME NEW a, NEW id \in {Arg(a, "message_id", 0), Arg(a, "event_id", 0)}
  PROVE  /\ \A kind : ItemAim(a, Get(kind, id))
         /\ \A kind, fs : ItemAim(a, Patch(kind, id, fs))
         /\ \A kind : kind # "folder" => ItemAim(a, Delete(kind, ById(id)))
         /\ ItemAim(a, Cancel(id)) /\ ItemAim(a, Derive(id))
         /\ \A fs, mail : ItemAim(a, Act(id, fs, mail))
BY DEF ItemAim, Get, Patch, Delete, Cancel, Derive, Act, ById

\* The verbs that change an item change the one they name.
LEMMA ItemAsks ==
  ASSUME NEW op \in ItemOps, NEW a, NEW S, NEW rs \in Seq(S), Handle(op, a, rs).next = "ask"
  PROVE  ItemAim(a, Handle(op, a, rs).req)
<1> DEFINE h == Handle(op, a, rs)
<1>0. MessageID(a) = Arg(a, "message_id", 0) /\ EventID(a) = Arg(a, "event_id", 0)
  BY DEF MessageID, EventID
<1>1. ASSUME NEW wrong, NEW req, h = IF wrong THEN Fail("argument", rs) ELSE Request(req, rs), ItemAim(a, req)
      PROVE  ItemAim(a, h.req)
  <2>1. h.next = "ask"
    OBVIOUS
  <2> HIDE DEF h
  <2>2. ~wrong
    BY <1>1, <2>1, Failing
  <2>3. QED
    BY <1>1, <2>1, <2>2, RequestAsks
<1>2. CASE op \in {"calendar.update_event", "calendar.update_meeting"}
  <2>1. h = HandleUpdateEvent(a, rs)
    BY <1>2 DEF Handle
  <2>2. h = IF Bad(a, "shape") \/ EventID(a) = 0 THEN Fail("argument", rs)
            ELSE Request(Patch("event", EventID(a), EventPatch(a)), rs)
    BY <2>1 DEF HandleUpdateEvent
  <2>3. ItemAim(a, Patch("event", EventID(a), EventPatch(a)))
    BY <1>0, ItemRequests
  <2>4. QED
    BY <1>1, <2>2, <2>3
<1>3. CASE op = "calendar.delete_event"
  <2>1. h = IF Bad(a, "shape") \/ EventID(a) = 0 THEN Fail("argument", rs)
            ELSE Request(Delete("event", ById(EventID(a))), rs)
    BY <1>3 DEF Handle, HandleDeleteEvent
  <2>2. ItemAim(a, Delete("event", ById(EventID(a))))
    BY <1>0, ItemRequests
  <2>3. QED
    BY <1>1, <2>1, <2>2
<1>4. CASE op = "calendar.cancel_meeting"
  <2>1. h = IF Bad(a, "shape") \/ EventID(a) = 0 THEN Fail("argument", rs)
            ELSE Request(Cancel(EventID(a)), rs)
    BY <1>4 DEF Handle, HandleCancelEvent
  <2>2. ItemAim(a, Cancel(EventID(a)))
    BY <1>0, ItemRequests
  <2>3. QED
    BY <1>1, <2>1, <2>2
<1>5. CASE op = "calendar.respond_event"
  <2> DEFINE req == Act(EventID(a), [response |-> a.response], Arg(a, "send_response", TRUE))
             wrong == Bad(a, "shape") \/ EventID(a) = 0
                      \/ Arg(a, "response", "") \notin {"accept", "tentative", "decline"}
  <2>1. h = IF wrong THEN Fail("argument", rs) ELSE Request(req, rs)
    BY <1>5 DEF Handle, HandleRespondEvent
  <2>2. ItemAim(a, req)
    BY <1>0, ItemRequests
  <2> HIDE DEF req, wrong, h
  <2>3. QED
    BY <1>1, <2>1, <2>2 DEF h
<1>6. CASE op \in DraftOps
  <2>1. h.req = Get("message", MessageID(a)) \/ DraftWrite(a, MessageID(a), h.req)
    BY <1>6, DraftAsks
  <2> HIDE DEF h
  <2>2. ItemAim(a, h.req)
    BY <1>0, <2>1, ItemRequests DEF DraftWrite
  <2>3. QED
    BY <2>2 DEF h
<1>7. CASE op \in RescheduleOps
  <2>1. \/ h.req = Get("event", EventID(a))
        \/ h.req = Patch("event", EventID(a), NewTimes(a, Duration(rs[1].value)))
    BY <1>7, RescheduleAsks
  <2> HIDE DEF h
  <2>2. ItemAim(a, h.req)
    BY <1>0, <2>1, ItemRequests
  <2>3. QED
    BY <2>2 DEF h
<1>8. QED
  BY <1>2, <1>3, <1>4, <1>5, <1>6, <1>7 DEF ItemOps, ChangeOps

\* A reply or a forward is made from the message it names, and tagged as the one
\* that was made.
LEMMA DeriveAsks ==
  ASSUME NEW op \in DeriveOps, NEW a, NEW S, NEW rs \in Seq(S), Handle(op, a, rs).next = "ask"
  PROVE  \/ rs = <<>> /\ Handle(op, a, rs).req = Derive(MessageID(a))
         \/ rs # <<>> /\ rs[1].ok /\ \E fs : Handle(op, a, rs).req = Patch("message", rs[1].value.id, fs)
<1> DEFINE wrong == Bad(a, "shape") \/ MessageID(a) = 0
           p == Request(Derive(MessageID(a)), rs)
           req == Patch("message", p.value.id, [tag |-> TRUE])
           t == Try(req, p.rest)
           h == Handle(op, a, rs)
<1>1. h = DeriveDraft(a, rs)
  BY DEF Handle, DeriveOps, CreateReplyDraft, CreateForwardDraft
<1>2. h = IF wrong THEN Fail("argument", rs)
          ELSE IF p.next # "done" THEN p
          ELSE IF ~ProvenanceTag THEN Done(p.value, p.rest)
          ELSE IF t.next # "done" THEN t ELSE Done(p.value, t.rest)
  BY <1>1 DEF DeriveDraft, Then
<1>3. h.next = "ask"
  OBVIOUS
<1>4. /\ rs = <<>> => p = Ask(Derive(MessageID(a)))
      /\ rs # <<>> /\ rs[1].ok => p = Done(rs[1].value, Tail(rs))
      /\ rs # <<>> /\ ~rs[1].ok => p = Fail(rs[1].value, Tail(rs))
  BY RequestSteps, FirstReply
<1>5. t = Ask(req) \/ t = Done(Head(p.rest), Tail(p.rest))
  BY DEF Try
<1> HIDE DEF wrong, p, t, h
<1>6. ~wrong
  BY <1>2, <1>3, Failing
<1>7. CASE rs = <<>>
  <2>1. p.next = "ask" /\ p.req = Derive(MessageID(a))
    BY <1>4, <1>7, StepFacts
  <2>2. h = p
    BY <1>2, <1>6, <2>1
  <2>3. QED
    BY <1>7, <2>1, <2>2 DEF h
<1>8. CASE rs # <<>> /\ ~rs[1].ok
  <2>1. p.next = "fail"
    BY <1>4, <1>8, Failing
  <2>2. h.next = "fail"
    BY <1>2, <1>6, <2>1
  <2>3. QED
    BY <1>3, <2>2
<1>9. CASE rs # <<>> /\ rs[1].ok
  <2>1. p = Done(rs[1].value, Tail(rs))
    BY <1>4, <1>9
  <2>2. p.next = "done" /\ p.value = rs[1].value
    BY ZenonT(60), <2>1, StepFacts
  <2> HIDE DEF req
  <2>3. h = t
    <3>1. h \in {Done(p.value, p.rest), t, Done(p.value, t.rest)}
      BY <1>2, <1>6, <2>2
    <3>2. h # Done(p.value, p.rest) /\ h # Done(p.value, t.rest)
      BY <1>3, StepFacts
    <3>3. QED
      BY <3>1, <3>2
  <2>4. h.req = req
    BY <1>3, <1>5, <2>3, StepFacts
  <2>5. QED
    BY <1>9, <2>2, <2>4 DEF h, req
<1>10. QED
  BY <1>7, <1>8, <1>9

-------------------------------------------------------------------------------
\* The folders stay where they are when others are taken away or a message moves.
LEMMA TreeItself ==
  ASSUME NEW b, Consistent(b), HaveNames(b)
  PROVE  SameTree(b, b)
BY DEF HaveNames, SameTree

LEMMA TreeNames ==
  ASSUME NEW b, NEW old, SameTree(b, old)
  PROVE  HaveNames(b)
BY DEF HaveNames, SameTree

LEMMA TreeDelete ==
  ASSUME NEW b, Consistent(b), NEW old, SameTree(b, old), NEW at
  PROVE  SameTree(Effect(b, Delete("folder", at)), old)
<1> DEFINE req == Delete("folder", at)
           b2  == Effect(b, req)
<1>1. Ids(b2) \subseteq Ids(b) /\ \A i \in Ids(b2) : b2.items[i] = b.items[i]
  BY DeleteItems
<1>2. b2.alias = b.alias
  <2>1. req.op = "delete"
    BY DEF Delete
  <2> HIDE DEF req
  <2>2. PICK ids, yes : b2 = Notify(Drop(b, ids), yes)
    BY <2>1 DEF Effect
  <2>3. "alias" \in DOMAIN b
    BY DEF Consistent
  <2>4. QED
    BY <2>2, <2>3 DEF Notify, Drop
<1> HIDE DEF b2
<1>3. SameTree(b2, old)
  BY <1>1, <1>2 DEF SameTree
<1>4. QED
  BY <1>3 DEF b2

\* A message that is moved leaves every folder where it is.
LEMMA TreeMove ==
  ASSUME NEW b, Consistent(b), NEW old, SameTree(b, old), old.next <= b.next, NEW req,
         Accepts(b, req), Proper(req), req.op = "move", req.kind = "message"
  PROVE  SameTree(Effect(b, req), old)
<1> DEFINE n == req.at.id
           item == [b.items[n] EXCEPT !.in = Target(b, req.to)]
           moved == Add(b, item)
           place(i) == IF moved.items[i].in = n THEN [moved.items[i] EXCEPT !.in = b.next]
                       ELSE moved.items[i]
           all == [moved EXCEPT !.items = [i \in Ids(moved) |-> place(i)]]
           b2  == Drop(all, {n})
<1>2. Effect(b, req) = b2
  BY DEF Effect
<1>3. n \in Ids(b) /\ b.items[n].kind = "message" /\ "in" \in DOMAIN b.items[n]
  <2>1. n \in Ids(b) /\ Target(b, req.at) = n
    BY AnItem
  <2>2. IsA(b, Target(b, req.at), req.kind)
    BY DEF Accepts
  <2>3. QED
    BY <2>1, <2>2 DEF IsA, Consistent
<1>4. b.next \in Nat /\ {"items", "next", "alias"} \subseteq DOMAIN b
  BY DEF Consistent
<1>5. item.kind = "message"
  BY <1>3
<1> HIDE DEF item, n
<1>6. /\ Ids(moved) = Ids(b) \cup {b.next} /\ moved.items[b.next] = item
      /\ \A i \in Ids(b) : moved.items[i] = b.items[i]
      /\ DOMAIN moved = DOMAIN b /\ moved.alias = b.alias
  BY <1>4, AddFacts
<1> HIDE DEF moved
<1>7. ASSUME NEW i \in Ids(moved), place(i).kind = "folder"
      PROVE  /\ i \in Ids(b) /\ b.items[i].kind = "folder"
             /\ "name" \in DOMAIN b.items[i] => "name" \in DOMAIN place(i)
             /\ place(i).name = b.items[i].name /\ place(i).hidden = b.items[i].hidden
             /\ place(i).in = b.items[i].in \/ place(i).in = b.next
  <2> DEFINE it == moved.items[i]
             new == [it EXCEPT !.in = b.next]
  <2>1. /\ new.kind = it.kind /\ new.name = it.name /\ new.hidden = it.hidden
        /\ DOMAIN new = DOMAIN it /\ ("in" \in DOMAIN it => new.in = b.next)
    OBVIOUS
  <2>2. place(i) = new \/ place(i) = it
    OBVIOUS
  <2> HIDE DEF place, new
  <2>3. it.kind = "folder"
    BY <1>7, <2>1, <2>2
  <2>4. i \in Ids(b)
    BY <1>5, <1>6, <2>3
  <2>5. it = b.items[i] /\ "in" \in DOMAIN it
    BY <1>6, <2>4 DEF Consistent
  <2> HIDE DEF it
  <2>6. QED
    BY <2>1, <2>2, <2>3, <2>4, <2>5
<1> HIDE DEF place
<1>8. /\ Ids(all) = Ids(moved) /\ DOMAIN all = DOMAIN moved /\ all.alias = moved.alias
      /\ \A i \in Ids(moved) : all.items[i] = place(i)
  BY <1>4, <1>6 DEF Ids
<1> HIDE DEF all
<1>9. /\ Ids(b2) \subseteq Ids(moved) /\ b2.alias = b.alias
      /\ \A i \in Ids(b2) : b2.items[i] = place(i)
  BY <1>4, <1>6, <1>8 DEF Drop, Ids
<1> HIDE DEF b2
<1>10. ASSUME NEW i \in Ids(b2), b2.items[i].kind = "folder"
       PROVE  /\ i \in Ids(old) /\ old.items[i].kind = "folder" /\ "name" \in DOMAIN b2.items[i]
              /\ b2.items[i].name = old.items[i].name /\ b2.items[i].hidden = old.items[i].hidden
              /\ b2.items[i].in = old.items[i].in \/ b2.items[i].in >= old.next
  <2>1. i \in Ids(moved) /\ b2.items[i] = place(i) /\ place(i).kind = "folder"
    BY <1>9, <1>10
  <2>2. /\ i \in Ids(b) /\ b.items[i].kind = "folder"
        /\ "name" \in DOMAIN b.items[i] => "name" \in DOMAIN place(i)
        /\ place(i).name = b.items[i].name /\ place(i).hidden = b.items[i].hidden
        /\ place(i).in = b.items[i].in \/ place(i).in = b.next
    BY <1>7, <2>1
  <2>3. /\ i \in Ids(old) /\ old.items[i].kind = "folder" /\ "name" \in DOMAIN b.items[i]
        /\ b.items[i].name = old.items[i].name /\ b.items[i].hidden = old.items[i].hidden
        /\ b.items[i].in = old.items[i].in \/ b.items[i].in >= old.next
    BY <2>2 DEF SameTree
  <2>4. b.next >= old.next
    OBVIOUS
  <2>5. QED
    BY <2>1, <2>2, <2>3, <2>4
<1>11. b2.alias = old.alias
  BY <1>9 DEF SameTree
<1>12. SameTree(b2, old)
  BY <1>10, <1>11 DEF SameTree
<1>13. QED
  BY <1>2, <1>12

\* IDs only grow.
LEMMA NextGrows ==
  ASSUME NEW b, Consistent(b), NEW req, Accepts(b, req), Proper(req), req.op \in Every \ Reading
  PROVE  b.next \in Nat /\ Effect(b, req).next \in {b.next, b.next + 1}
<1>1. b.next \in Nat /\ {"items", "next", "mails"} \subseteq DOMAIN b
  BY DEF Consistent
<1>2. \A x, yes : Notify(x, yes).next = x.next
  BY DEF Notify
<1>3. CASE req.op = "create"
  <2>1. PICK item, yes : Effect(b, req) = Notify(Add(b, item), yes)
    BY <1>3 DEF Effect, New
  <2>2. Add(b, item).next = b.next + 1
    BY AddFacts
  <2>3. QED
    BY <1>1, <1>2, <2>1, <2>2
<1>4. CASE req.op = "derive"
  <2>1. PICK item : Effect(b, req) = Add(b, item)
    BY <1>4 DEF Effect
  <2>2. QED
    BY <1>1, <2>1, AddFacts
<1>5. CASE req.op = "move"
  BY <1>1, <1>5, MovedAway
<1>6. CASE req.op \in {"patch", "act"}
  <2>1. PICK id, item, yes : Effect(b, req) = Notify(Put(b, id, item), yes)
    BY <1>6 DEF Effect
  <2>2. Put(b, id, item).next = b.next
    BY DEF Put
  <2>3. QED
    BY <1>1, <1>2, <2>1, <2>2, SMTT(30)
<1>7. CASE req.op \in {"delete", "cancel"}
  <2>1. PICK ids, yes : Effect(b, req) = Notify(Drop(b, ids), yes)
    BY <1>7 DEF Effect
  <2>2. Drop(b, ids).next = b.next
    BY DEF Drop
  <2>3. QED
    BY <1>1, <1>2, <2>1, <2>2
<1>8. QED
  BY <1>3, <1>4, <1>5, <1>6, <1>7 DEF Every, Adding, Taking, Reading

-------------------------------------------------------------------------------
\* A draft is made in the mailbox itself: its verb has no calendar.
LEMMA DraftParams ==
  ASSUME NEW v \in MailVerbs \cup CalendarVerbs, v.name = "mail.create_draft"
  PROVE  "calendar_id" \notin v.params
<1>1. \A w \in CalendarVerbs : w.name # "mail.create_draft"
  BY SMTT(30) DEF CalendarVerbs, Plain, Guarded, Reads, Adds, Changes, Removes,
       ListCalendarsVerb, ListEventsVerb, GetEventVerb, SearchEventsVerb, CreateEventVerb,
       UpdateEventVerb, DeleteEventVerb, RespondEventVerb, RescheduleEventVerb, CreateMeetingVerb,
       UpdateMeetingVerb, CancelMeetingVerb, RescheduleMeetingVerb, GetFreeBusyVerb
<1>2. \A w \in MailVerbs : w.name = "mail.create_draft" => w = CreateDraftVerb
  <2> DEFINE others ==
        {ListFoldersVerb, ListMessagesVerb, GetMessageVerb, SearchMessagesVerb, GetConversationVerb,
         ListAttachmentsVerb, GetAttachmentVerb, CreateReplyDraftVerb, CreateForwardDraftVerb,
         UpdateDraftVerb, DeleteDraftVerb, CreateFolderVerb, DeleteFolderVerb, MoveMessageVerb,
         MoveMessagesVerb}
  <2>1. MailVerbs \subseteq others \cup {CreateDraftVerb}
    BY DEF MailVerbs
  <2>2. \A w \in others : w.name # "mail.create_draft"
    BY DEF Plain, Guarded, ListFoldersVerb, ListMessagesVerb, GetMessageVerb, SearchMessagesVerb,
           GetConversationVerb, ListAttachmentsVerb, GetAttachmentVerb, CreateReplyDraftVerb,
           CreateForwardDraftVerb, UpdateDraftVerb, DeleteDraftVerb, CreateFolderVerb,
           DeleteFolderVerb, MoveMessageVerb, MoveMessagesVerb
  <2> HIDE DEF others
  <2>3. QED
    BY <2>1, <2>2
<1>3. "calendar_id" \notin CreateDraftVerb.params
  BY DEF CreateDraftVerb, Guarded, Plain, Adds, Account
<1>4. QED
  BY <1>1, <1>2, <1>3

LEMMA DraftsHome ==
  ASSUME NEW c \in Calls, IsOperation(c.op), c.op = "mail.create_draft"
  PROVE  Mailbox = ById(Arg(c.args, "calendar_id", 0))
<1>1. VerbOf(c.op).name = c.op
  BY DEF VerbOf, IsOperation
<1>2. /\ VerbOf(c.op) \in MailVerbs \cup CalendarVerbs
      /\ DOMAIN c.args \subseteq VerbOf(c.op).params \cup {"bad"}
  BY CallsAssumption
<1>3. "calendar_id" \notin DOMAIN c.args
  BY <1>1, <1>2, DraftParams
<1>4. Arg(c.args, "calendar_id", 0) = 0
  BY <1>3 DEF Arg
<1>5. QED
  BY <1>4 DEF Mailbox

\* What a call may ask to have changed, and what it may change of what it has
\* made itself.
Aims(op, a, old, r) ==
  \/ op \in FolderOps /\ \E at : FolderWrite(op, a, at, r) /\ Target(old, at) \in Denoted(old, RefOf(op, a))
  \/ \E item : r = Create(ById(Arg(a, "calendar_id", 0)), item) /\ item.kind # "folder"
  \/ ItemAim(a, r)
Fresh(b, old, r) == r.op = "patch" /\ r.at.id \in Ids(b) /\ r.at.id >= old.next

\* A change that is aimed so is on target.
LEMMA AimsHit ==
  ASSUME NEW r, Aims(call.op, Args, before, r) \/ Fresh(box, before, r)
  PROVE  OnTarget(r)
<1>1. \A in, item : /\ Create(in, item).op = "create" /\ Create(in, item).in = in
                    /\ Create(in, item).item = item
  BY DEF Create
<1>2. \A kind, at : /\ Delete(kind, at).op = "delete" /\ Delete(kind, at).kind = kind
                    /\ Delete(kind, at).at = at
  BY DEF Delete
<1>3. \A id, to : /\ Move(id, to).op = "move" /\ Move(id, to).to = to /\ Move(id, to).at.id = id
  BY DEF Move, ById
<1>4. ASSUME call.op \in FolderOps, NEW at, FolderWrite(call.op, Args, at, r),
             Target(before, at) \in Denoted(before, RefOf(call.op, Args))
      PROVE  OnTarget(r)
  <2>1. CASE call.op = "mail.create_folder"
    <3>1. PICK item : r = Create(at, item) /\ item.kind = "folder"
      BY <1>4, <2>1 DEF FolderWrite
    <3>2. r.op = "create" /\ r.item.kind = "folder" /\ r.in = at
      BY <1>1, <3>1
    <3>3. Target(before, r.in) \in Folder("parent")
      BY <1>4, <2>1, <3>2 DEF Folder, RefOf, FolderArg
    <3>4. QED
      BY <3>2, <3>3 DEF OnTarget
  <2>2. CASE call.op = "mail.delete_folder"
    <3>1. r = Delete("folder", at)
      BY <1>4, <2>2 DEF FolderWrite
    <3>2. r.op = "delete" /\ r.kind = "folder" /\ r.at = at
      BY <1>2, <3>1
    <3>3. Target(before, r.at) \in Folder("folder")
      BY <1>4, <2>2, <3>2 DEF Folder, RefOf, FolderArg
    <3>4. QED
      BY <3>2, <3>3 DEF OnTarget
  <2>3. CASE call.op \in {"mail.move_message", "mail.move_messages"}
    <3>1. PICK id \in MovedIds(Args) : r = Move(id, at)
      BY <1>4, <2>3 DEF FolderWrite
    <3>2. r.op = "move" /\ r.to = at /\ r.at.id = id
      BY <1>3, <3>1
    <3>3. Target(before, r.to) \in Folder("destination")
      BY <1>4, <2>3, <3>2 DEF Folder, RefOf, FolderArg
    <3>4. id \in {Arg(Args, "message_id", 0)} \cup Batched
      BY DEF MovedIds, BatchIds, Batched, MessageID
    <3>5. QED
      BY <3>2, <3>3, <3>4 DEF OnTarget
  <2>4. QED
    BY <1>4, <2>1, <2>2, <2>3 DEF FolderOps
<1>5. ASSUME NEW item, r = Create(ById(Arg(Args, "calendar_id", 0)), item), item.kind # "folder"
      PROVE  OnTarget(r)
  <2> DEFINE in == ById(Arg(Args, "calendar_id", 0))
  <2>1. r = Create(in, item)
    BY <1>5
  <2> HIDE DEF in
  <2>2. r.op = "create" /\ r.item.kind # "folder" /\ r.in = in
    BY <1>1, <1>5, <2>1
  <2>3. QED
    BY <2>2 DEF OnTarget, in
<1>6. CASE ItemAim(Args, r)
  <2>1. /\ r.op # "create" /\ r.op # "move" /\ ~(r.op = "delete" /\ r.kind = "folder")
        /\ r.at.id \in {Arg(Args, "message_id", 0), Arg(Args, "event_id", 0)}
    BY <1>6 DEF ItemAim
  <2>2. QED
    BY <2>1 DEF OnTarget
<1>7. CASE Fresh(box, before, r)
  <2>1. r.op = "patch" /\ r.at.id \in {i \in Ids(box) : i >= before.next}
    BY <1>7 DEF Fresh
  <2>2. QED
    BY <2>1 DEF OnTarget
<1>8. QED
  BY <1>4, <1>5, <1>6, <1>7 DEF Aims

-------------------------------------------------------------------------------
\* A new folder is the only one that changes where a path leads: as long as no
\* reply is lost, the path was walked before it was made.
ByPath(c) == c.op = "mail.create_folder" /\ Walked(RefOf(c.op, c.args))
Tracked   == Alone /\ (ByPath(call) => lost = 0)
MoveOps   == FolderOps \ {"mail.create_folder"}
RightInv ==
  /\ Alone /\ (phase = "idle" \/ Op(FolderOps)) => HaveNames(before)
  /\ Alone /\ Op(MoveOps) => SameTree(box, before)
  /\ before.next <= box.next
  /\ Tracked /\ phase = "run" /\ Op(FolderOps) => Led(before, RefOf(call.op, Args), got)
  /\ Alone /\ phase = "run" /\ Op(DeriveOps) /\ got # <<>> /\ got[1].ok =>
       got[1].value.id \in Ids(box) /\ got[1].value.id >= before.next
  /\ Tracked => \A k \in DOMAIN applied : \/ Aims(call.op, Args, before, applied[k])
                                          \/ Op(DeriveOps) /\ Fresh(box, before, applied[k])

LEMMA FolderRuns ==
  ASSUME TypeOK, RightAccount, Asking, Op(FolderOps)
  PROVE  LET p == FolderOf(call.op, Args, got)
         IN /\ RefOf(call.op, Args) \in References
            /\ \/ Step = p /\ Step.req.op \in Reading
               \/ p.next = "done" /\ FolderWrite(call.op, Args, p.value.at, Step.req)
<1> DEFINE S == {got[k] : k \in 1 .. Len(got)}
<1>1. phase = "run" /\ Step.next = "ask"
  BY DEF Asking
<1>2. call \in Calls /\ IsOperation(call.op) /\ IsList(got)
  BY <1>1, WhileRunning
<1>3. got \in Seq(S) /\ DOMAIN got = 1 .. Len(got)
  BY <1>2, ListFacts
<1>4. Heard(S)
  BY <1>3 DEF Heard, RightAccount
<1>5. WellTyped(Args) /\ call.op \in FolderOps
  BY <1>2, CallVerb DEF Args, Op
<1>6. Step = Handle(call.op, Args, got)
  BY DEF Step, Args
<1> HIDE DEF S
<1>7. Handle(call.op, Args, got).next = "ask"
  BY <1>1, <1>6
<1>8. QED
  BY <1>3, <1>4, <1>5, <1>6, <1>7, FolderAsks

\* What a call that finds a folder changes is there.
LEMMA FolderWritten ==
  ASSUME TypeOK, RightAccount, Asking, Wrote, Op(FolderOps), Led(before, RefOf(call.op, Args), got)
  PROVE  Aims(call.op, Args, before, Step.req)
<1> DEFINE p == FolderOf(call.op, Args, got)
           ref == RefOf(call.op, Args)
<1>1. ref \in References /\ p.next = "done" /\ FolderWrite(call.op, Args, p.value.at, Step.req)
  BY FolderRuns DEF Wrote
<1>2. Target(before, p.value.at) \in Denoted(before, ref)
  BY <1>1, LedTo DEF FolderOf
<1>3. call.op \in FolderOps
  BY DEF Op
<1> HIDE DEF p
<1>4. QED
  BY <1>1, <1>2, <1>3 DEF Aims

\* A change of a call whose folder was found where it leads is aimed right.
LEMMA WrittenAims ==
  ASSUME TypeOK, RightAccount, RightInv, Asking, Wrote, Tracked
  PROVE  Aims(call.op, Args, before, Step.req) \/ (Op(DeriveOps) /\ Fresh(box, before, Step.req))
<1> DEFINE S == {got[k] : k \in 1 .. Len(got)}
           h == Handle(call.op, Args, got)
<1>1. phase = "run" /\ Step.next = "ask" /\ Step = h /\ Step.req.op \notin Reading
  BY DEF Asking, Step, Args, Wrote
<1>2. call \in Calls /\ IsOperation(call.op) /\ IsList(got)
  BY <1>1, WhileRunning
<1>3. got \in Seq(S) /\ DOMAIN got = 1 .. Len(got)
  BY <1>2, ListFacts
<1>4. Heard(S)
  BY <1>3 DEF Heard, RightAccount
<1>5. WellTyped(Args) /\ call.op \in ReadNames \cup RemoveNames \cup WriteNames
  BY <1>2, CallVerb DEF Args
<1> HIDE DEF S, h
<1>6. call.op \notin ReadNames
  <2>1. call.op \in ReadNames => Keeps(h, Reading, S)
    BY <1>3, <1>4, <1>5, ReadsKeep DEF h
  <2>2. QED
    BY <1>1, <2>1 DEF Keeps, Asks
<1>7. call.op \in FolderOps \cup MakeOps \cup ItemOps \cup DeriveOps
  BY <1>5, <1>6, ChangeVerbs
<1>8. CASE call.op \in FolderOps
  <2>1. Op(FolderOps)
    BY <1>8 DEF Op
  <2>2. Led(before, RefOf(call.op, Args), got)
    BY <1>1, <2>1 DEF RightInv
  <2>3. QED
    BY <2>1, <2>2, FolderWritten
<1>9. CASE call.op \in MakeOps
  <2>1. h.next = "ask"
    BY <1>1
  <2>2. PICK item : /\ item.kind # "folder"
                    /\ call.op = "mail.create_draft" => h.req = Create(Mailbox, item)
                    /\ call.op \in CreateOps => h.req = Create(ById(Arg(Args, "calendar_id", 0)), item)
    BY <1>9, <2>1, MakeAsks DEF h
  <2>3. call.op = "mail.create_draft" => Mailbox = ById(Arg(Args, "calendar_id", 0))
    BY <1>2, DraftsHome DEF Args
  <2>4. h.req = Create(ById(Arg(Args, "calendar_id", 0)), item)
    BY <1>9, <2>2, <2>3 DEF MakeOps
  <2>5. QED
    BY <1>1, <2>2, <2>4 DEF Aims
<1>10. CASE call.op \in ItemOps
  <2>1. ItemAim(Args, h.req)
    BY <1>1, <1>3, <1>10, ItemAsks DEF h
  <2>2. QED
    BY <1>1, <2>1 DEF Aims
<1>11. CASE call.op \in DeriveOps
  <2>1. Op(DeriveOps)
    BY <1>11 DEF Op
  <2>2. \/ h.req = Derive(MessageID(Args))
        \/ got # <<>> /\ got[1].ok /\ \E fs : h.req = Patch("message", got[1].value.id, fs)
    BY <1>1, <1>3, <1>11, DeriveAsks DEF h
  <2>3. CASE h.req = Derive(MessageID(Args))
    <3>1. ItemAim(Args, Derive(MessageID(Args)))
      BY ItemRequests DEF MessageID
    <3>2. QED
      BY <1>1, <2>3, <3>1 DEF Aims
  <2>4. CASE got # <<>> /\ got[1].ok /\ \E fs : h.req = Patch("message", got[1].value.id, fs)
    <3>1. PICK fs : h.req = Patch("message", got[1].value.id, fs)
      BY <2>4
    <3>2. h.req.op = "patch" /\ h.req.at.id = got[1].value.id
      <4>1. \A id, f : Patch("message", id, f).op = "patch" /\ Patch("message", id, f).at.id = id
        BY DEF Patch, ById
      <4>2. QED
        BY <3>1, <4>1
    <3>3. got[1].value.id \in Ids(box) /\ got[1].value.id >= before.next
      BY <1>1, <2>1, <2>4 DEF RightInv, Tracked
    <3>4. QED
      BY <1>1, <2>1, <3>2, <3>3 DEF Fresh
  <2>5. QED
    BY <2>2, <2>3, <2>4
<1>12. QED
  BY <1>7, <1>8, <1>9, <1>10, <1>11

LEMMA TreeWrites ==
  ASSUME TypeOK, RightAccount, RightInv, Asking, Wrote, Alone, Op(MoveOps)
  PROVE  SameTree(box', before)
<1>1. SameTree(box, before) /\ before.next <= box.next
  BY DEF RightInv
<1>2. Consistent(box) /\ Accepts(box, Step.req) /\ Step.req.op \notin Reading /\ box' = Effect(box, Step.req)
  BY DEF TypeOK, Wrote
<1>3. Proper(Step.req)
  BY StepKeeps DEF Asking
<1>4. Op(FolderOps) /\ call.op \in MoveOps
  BY DEF Op, MoveOps
<1>5. PICK at : FolderWrite(call.op, Args, at, Step.req)
  BY <1>2, <1>4, FolderRuns
<1>6. CASE call.op = "mail.delete_folder"
  <2>1. Step.req = Delete("folder", at)
    BY <1>5, <1>6 DEF FolderWrite
  <2>2. SameTree(Effect(box, Delete("folder", at)), before)
    BY <1>1, <1>2, TreeDelete
  <2>3. QED
    BY <1>2, <2>1, <2>2
<1>7. CASE call.op \in {"mail.move_message", "mail.move_messages"}
  <2>1. \E id : Step.req = Move(id, at)
    BY <1>5, <1>7 DEF FolderWrite
  <2>2. Step.req.op = "move" /\ Step.req.kind = "message"
    BY <2>1 DEF Move
  <2>3. QED
    BY <1>1, <1>2, <1>3, <2>2, TreeMove
<1>8. QED
  BY <1>4, <1>6, <1>7 DEF MoveOps, FolderOps

-------------------------------------------------------------------------------
\* A lookup of a folder shows the folders as the call found them.
LEMMA LookupIsTrue ==
  ASSUME TypeOK, HintsHold, RightAccount, CleanInv, RightInv, Asking, Tracked, Op(FolderOps),
         Walked(RefOf(call.op, Args)), NEW r, r.ok => r = Reply(box, Step.req) /\ Accepts(box, Step.req)
  PROVE  Truthful(before, ResolveFolderParam(RefOf(call.op, Args), got), r)
<1> DEFINE p == FolderOf(call.op, Args, got)
<1>1. p = ResolveFolderParam(RefOf(call.op, Args), got)
  BY DEF FolderOf
<1>2. Step = p \/ p.next = "done"
  BY FolderRuns
<1> HIDE DEF p
<1>3. Consistent(box) /\ Consistent(before) /\ Alone
  BY DEF TypeOK, Tracked
<1>4. SameTree(box, before)
  <2>1. CASE Op(MoveOps)
    BY <1>3, <2>1 DEF RightInv
  <2>2. CASE ~Op(MoveOps)
    <3>1. call.op = "mail.create_folder" /\ lost = 0
      BY <2>2 DEF Op, MoveOps, Tracked, ByPath, Args
    <3>2. ~SureNow
      <4>1. phase = "run" /\ Step.next = "ask"
        BY DEF Asking
      <4>2. Handle(call.op, Args, got).next = "ask"
        BY <4>1 DEF Step, Args
      <4>3. call.op \notin DeriveOps /\ call.op # "mail.move_messages"
        BY <3>1 DEF DeriveOps
      <4>4. Spent(call.op, Args, got) = {}
        BY <4>2, <4>3 DEF Spent
      <4>5. QED
        BY <4>3, <4>4 DEF SureNow, Sure
    <3>3. box = before
      BY <1>3, <3>1, <3>2 DEF Asking, CleanInv, HintsHold
    <3>4. HaveNames(before)
      BY <1>3 DEF RightInv
    <3>5. QED
      BY <1>3, <3>3, <3>4, TreeItself
  <2>3. QED
    BY <2>1, <2>2
<1>5. HaveNames(box) /\ box.alias = before.alias
  BY <1>4, TreeNames DEF SameTree
<1> SUFFICES ASSUME NEW at, p.next = "ask", p.req = FetchFolders(at, LookupPage), r.ok,
                    Within(before, Target(before, at))
             PROVE  Shows(before, Target(before, at), r.value.items)
  BY <1>1 DEF Truthful
<1> DEFINE req == FetchFolders(at, LookupPage)
<1>6. Step.req = req /\ r = Reply(box, Step.req) /\ Accepts(box, Step.req)
  BY <1>2
<1>7. req.op = "list"
  BY DEF FetchFolders, Listing
<1> HIDE DEF req
<1>8. r = Reply(box, req) /\ Accepts(box, req)
  BY <1>6
<1>9. r.value = Page(box, req)
  BY <1>7, <1>8 DEF Reply
<1>10. Shows(box, Target(box, at), r.value.items)
  <2>1. Shows(box, Target(box, at), Page(box, FetchFolders(at, LookupPage)).items)
    BY <1>3, <1>5, PageShows
  <2>2. QED
    BY <1>9, <2>1 DEF req
<1>11. Target(box, at) = Target(before, at)
  BY <1>5 DEF Target
<1>12. QED
  BY <1>3, <1>4, <1>10, <1>11, Transfer

\* One reply more: the folder a handler has found is still where it leads.
LEMMA SendsLed ==
  ASSUME TypeOK, HintsHold, RightAccount, CleanInv, RightInv, Sends, Tracked, Op(FolderOps)
  PROVE  Led(before, RefOf(call.op, Args), got')
<1> DEFINE ref == RefOf(call.op, Args)
<1>1. Asking /\ phase = "run"
  BY SendsFrame DEF Asking
<1>2. Led(before, ref, got) /\ Consistent(before)
  BY <1>1 DEF RightInv, TypeOK
<1>3. CASE got' = got
  BY <1>2, <1>3
<1>4. CASE ~Walked(ref)
  BY <1>4 DEF Led
<1>5. ASSUME NEW r, got' = Append(got, r), ~r.ok => r.value # "no account selected",
             r.ok => r = Reply(box, Step.req) /\ Accepts(box, Step.req), Walked(ref)
      PROVE  Led(before, ref, got')
  <2> DEFINE S == {got[k] : k \in 1 .. Len(got)} \cup {r}
  <2>1. got \in Seq(S) /\ r \in S
    BY <1>1, <1>5, Hearing
  <2>2. Truthful(before, ResolveFolderParam(ref, got), r)
    BY <1>1, <1>5, LookupIsTrue
  <2>3. ref \in References
    BY <1>1, FolderRuns
  <2> HIDE DEF S, ref
  <2>4. Led(before, ref, Append(got, r))
    BY <1>2, <2>1, <2>2, <2>3, LedOn
  <2>5. QED
    BY <1>5, <2>4
<1>6. QED
  BY <1>3, <1>4, <1>5, SendsFrame

\* A reply or a forward adds a message to the mailbox; nothing is taken away.
LEMMA DeriveWrites ==
  ASSUME TypeOK, RightAccount, Asking, Op(DeriveOps), Wrote
  PROVE  Ids(box) \subseteq Ids(box')
<1> DEFINE h == Handle(call.op, Args, got)
           S == {got[k] : k \in 1 .. Len(got)}
<1>1. phase = "run" /\ Step.next = "ask" /\ Step = h
  BY DEF Asking, Step, Args
<1>2. IsList(got) /\ Consistent(box) /\ call.op \in DeriveOps
  BY <1>1, WhileRunning DEF Op
<1>3. got \in Seq(S)
  BY <1>2, ListFacts
<1>4. Accepts(box, Step.req) /\ box' = Effect(box, Step.req) /\ Proper(Step.req)
  BY <1>1, StepKeeps DEF Wrote, Asking
<1> HIDE DEF S
<1>5. h.req.op = "derive" \/ h.req.op = "patch"
  <2>1. \/ h.req = Derive(MessageID(Args))
        \/ \E id, fs : h.req = Patch("message", id, fs)
    BY <1>1, <1>2, <1>3, DeriveAsks
  <2>2. \A id, fs : Derive(id).op = "derive" /\ Patch("message", id, fs).op = "patch"
    BY DEF Derive, Patch
  <2> HIDE DEF h
  <2>3. QED
    BY <2>1, <2>2
<1>6. CASE Step.req.op = "derive"
  <2>1. \E item : Effect(box, Step.req) = Add(box, item)
    BY <1>6 DEF Effect
  <2>2. QED
    BY <1>2, <1>4, <2>1, AddFacts
<1>7. CASE Step.req.op = "patch"
  BY <1>2, <1>4, <1>7, SetEffect
<1>8. QED
  BY <1>1, <1>5, <1>6, <1>7

\* The reply to the request for a new message names one that was not there before.
LEMMA DeriveNames ==
  ASSUME TypeOK, RightAccount, RightInv, Sends, Op(DeriveOps), NEW r, got = <<>>,
         r.ok => r = Reply(box, Step.req) /\ Accepts(box, Step.req) /\ Serve, r.ok
  PROVE  r.value.id \in Ids(box') /\ r.value.id >= before.next
<1> DEFINE h == Handle(call.op, Args, got)
           S == {got[k] : k \in 1 .. Len(got)}
<1>0. Asking
  BY SendsFrame
<1>1. phase = "run" /\ Step.next = "ask" /\ Step = h
  BY <1>0 DEF Asking, Step, Args
<1>2. IsList(got) /\ Consistent(box) /\ call.op \in DeriveOps
  BY <1>1, WhileRunning DEF Op
<1>3. got \in Seq(S)
  BY <1>2, ListFacts
<1> HIDE DEF S
<1>4. Step.req.op = "derive"
  <2>1. h.req = Derive(MessageID(Args))
    BY <1>1, <1>2, <1>3, DeriveAsks
  <2> HIDE DEF h
  <2>2. QED
    BY <1>1, <2>1 DEF Derive
<1>5. r = Reply(box, Step.req) /\ Accepts(box, Step.req) /\ Serve
  OBVIOUS
<1>6. r.value = [id |-> box.next]
  BY <1>4, <1>5 DEF Reply
<1>7. box' = Effect(box, Step.req)
  BY <1>4, <1>5 DEF Serve, Apply
<1>8. box.next \in Ids(box')
  <2>1. \E item : Effect(box, Step.req) = Add(box, item)
    BY <1>4 DEF Effect
  <2>2. QED
    BY <1>2, <1>7, <2>1, AddFacts
<1>9. before.next <= box.next /\ box.next \in Nat /\ before.next \in Nat
  BY DEF RightInv, TypeOK, Consistent
<1>10. QED
  BY <1>6, <1>8, <1>9

\* One request of the handler: the change it makes is aimed right.
LEMMA SendsRight ==
  ASSUME TypeOK, HintsHold, RightAccount, CleanInv, RightInv, Sends
  PROVE  RightInv'
<1>1. /\ Asking /\ phase = "run" /\ phase' = "run" /\ UNCHANGED <<call, before>>
      /\ UNCHANGED <<box, applied>> \/ Wrote
  BY SendsFrame DEF Asking, server
<1>2. Alone' = Alone
  BY SendsCounts DEF Alone
<1>3. lost' = 0 => lost = 0
  <2>1. lost' = lost \/ lost' = lost + 1
    BY SendsCases
  <2>2. QED
    BY <2>1, LostIsCount
<1>4. Tracked' => Tracked
  BY <1>1, <1>2, <1>3 DEF Tracked, ByPath
<1>5. /\ \A ops : Op(ops)' = Op(ops)
      /\ Args' = Args /\ RefOf(call.op, Args)' = RefOf(call.op, Args)
  BY <1>1 DEF Op, Args
<1>6. (Alone /\ (phase = "idle" \/ Op(FolderOps)) => HaveNames(before))'
  BY <1>1, <1>2, <1>5 DEF RightInv
<1>7. (Alone /\ Op(MoveOps) => SameTree(box, before))'
  <2> SUFFICES ASSUME Alone, Op(MoveOps) PROVE SameTree(box', before)
    BY <1>1, <1>2, <1>5
  <2>1. CASE UNCHANGED <<box, applied>>
    BY <2>1 DEF RightInv
  <2>2. CASE Wrote
    BY <1>1, <2>2, TreeWrites
  <2>3. QED
    BY <1>1, <2>1, <2>2
<1>8. before.next <= box'.next
  <2>1. before.next <= box.next /\ Consistent(box) /\ Consistent(before)
    BY DEF RightInv, TypeOK
  <2>2. CASE UNCHANGED <<box, applied>>
    BY <2>1, <2>2
  <2>3. CASE Wrote
    <3>1. Step.req.op \in Every \ Reading /\ Proper(Step.req) /\ Accepts(box, Step.req)
          /\ box' = Effect(box, Step.req)
      BY <1>1, <2>3, StepKeeps DEF Wrote
    <3>2. box.next \in Nat /\ before.next \in Nat /\ box'.next \in {box.next, box.next + 1}
      BY <2>1, <3>1, NextGrows DEF Consistent
    <3>3. QED
      BY <2>1, <3>2
  <2>4. QED
    BY <1>1, <2>2, <2>3
<1>9. (Tracked /\ phase = "run" /\ Op(FolderOps) => Led(before, RefOf(call.op, Args), got))'
  <2>1. Tracked /\ Op(FolderOps) => Led(before, RefOf(call.op, Args), got')
    BY SendsLed
  <2>2. QED
    BY <1>1, <1>4, <1>5, <2>1
<1>10. Op(DeriveOps) => Ids(box) \subseteq Ids(box')
  BY <1>1, DeriveWrites
<1>11. (Alone /\ phase = "run" /\ Op(DeriveOps) /\ got # <<>> /\ got[1].ok =>
          got[1].value.id \in Ids(box) /\ got[1].value.id >= before.next)'
  <2> SUFFICES ASSUME Alone, Op(DeriveOps), got' # <<>>, got'[1].ok
               PROVE  got'[1].value.id \in Ids(box') /\ got'[1].value.id >= before.next
    BY <1>1, <1>2, <1>5
  <2>1. ASSUME got # <<>>, got'[1] = got[1]
        PROVE  got'[1].value.id \in Ids(box') /\ got'[1].value.id >= before.next
    BY <1>1, <1>10, <2>1 DEF RightInv
  <2>2. CASE got' = got
    BY <2>1, <2>2
  <2>3. ASSUME NEW r, got' = Append(got, r),
               r.ok => r = Reply(box, Step.req) /\ Accepts(box, Step.req) /\ Serve
        PROVE  got'[1].value.id \in Ids(box') /\ got'[1].value.id >= before.next
    <3>1. CASE got # <<>>
      BY <2>1, <2>3, <3>1, MoreReplies
    <3>2. CASE got = <<>>
      <4>1. got'[1] = r
        BY <2>3, <3>2, MoreReplies
      <4>2. QED
        BY <2>3, <3>2, <4>1, DeriveNames
    <3>3. QED
      BY <3>1, <3>2
  <2>4. QED
    BY <2>2, <2>3, NewReply
<1>12. ASSUME Tracked', NEW k \in DOMAIN applied'
       PROVE  Aims(call.op, Args, before, applied'[k]) \/ (Op(DeriveOps) /\ Fresh(box', before, applied'[k]))
  <2>1. ASSUME NEW j \in DOMAIN applied, applied'[k] = applied[j]
        PROVE  Aims(call.op, Args, before, applied'[k]) \/ (Op(DeriveOps) /\ Fresh(box', before, applied'[k]))
    <3>1. Aims(call.op, Args, before, applied[j]) \/ (Op(DeriveOps) /\ Fresh(box, before, applied[j]))
      BY <1>4, <1>12 DEF RightInv
    <3>2. QED
      BY <1>1, <1>10, <2>1, <3>1 DEF Fresh
  <2>2. CASE UNCHANGED <<box, applied>>
    BY <2>1, <2>2
  <2>3. CASE Wrote
    <3>1. applied' = Append(applied, Step.req) /\ IsList(applied)
      BY <2>3 DEF Wrote, TypeOK
    <3>2. applied'[k] = Step.req \/ (k \in DOMAIN applied /\ applied'[k] = applied[k])
      BY <3>1, OneMore
    <3>3. Aims(call.op, Args, before, Step.req) \/ (Op(DeriveOps) /\ Fresh(box, before, Step.req))
      BY <1>1, <1>4, <1>12, <2>3, WrittenAims
    <3>4. CASE applied'[k] = Step.req
      BY <1>1, <1>10, <3>3, <3>4 DEF Fresh
    <3>5. QED
      BY <2>1, <3>2, <3>4
  <2>4. QED
    BY <1>1, <2>2, <2>3
<1>13. (Tracked => \A k \in DOMAIN applied : \/ Aims(call.op, Args, before, applied[k])
                                             \/ Op(DeriveOps) /\ Fresh(box, before, applied[k]))'
  BY <1>1, <1>5, <1>12
<1>14. QED
  BY <1>1, <1>6, <1>7, <1>8, <1>9, <1>11, <1>13 DEF RightInv

\* The verb that makes a folder is not one to repeat.
LEMMA MakesOnce ==
  ASSUME NEW c \in Calls, IsOperation(c.op), VerbOf(c.op).hints.idempotent
  PROVE  c.op # "mail.create_folder"
<1>1. VerbOf(c.op).name = c.op
  BY DEF VerbOf, IsOperation
<1>2. VerbOf(c.op) \in MailVerbs \cup CalendarVerbs
  BY CallsAssumption
<1>3. VerbOf(c.op).hints.readOnly => c.op \in ReadNames
  BY CallVerb
<1>4. "mail.create_folder" \notin
        ReadNames \cup DraftOps \cup {"mail.delete_folder"} \cup ChangeOps \cup RescheduleOps
  BY DEF ReadNames, DraftOps, ChangeOps, RescheduleOps
<1>5. QED
  BY <1>1, <1>2, <1>3, <1>4, MailRepeats, CalendarRepeats

LEMMA OthersRight ==
  ASSUME TypeOK, HintsHold, ReadInv, RightInv,
         Resolve \/ Enter \/ Conclude \/ SignedIn \/ NotSignedIn \/ Logout \/ UNCHANGED vars
  PROVE  RightInv'
<1>1. UNCHANGED <<call, before, box, applied, lost>>
  BY DEF Resolve, Enter, Conclude, SignedIn, NotSignedIn, Logout, vars, server
<1>2. trouble'.edit = trouble.edit
  <2>1. CASE Logout
    BY <2>1, LogoutFacts, HappensFacts
  <2>2. CASE ~Logout
    BY <2>2 DEF Resolve, Enter, Conclude, SignedIn, NotSignedIn, vars
  <2>3. QED
    BY <2>1, <2>2
<1>3. /\ Alone' = Alone /\ Tracked' = Tracked /\ (\A ops : Op(ops)' = Op(ops))
      /\ Args' = Args /\ RefOf(call.op, Args)' = RefOf(call.op, Args)
  BY <1>1, <1>2 DEF Alone, Tracked, ByPath, Op, Args
<1>4. /\ phase' = "idle" => phase = "idle"
      /\ phase' = "run" => phase \in {"enter", "run"} /\ ((got' = got /\ phase = "run") \/ got' = <<>>)
  <2>1. phase \in {"idle", "resolve", "enter"} => got = <<>>
    BY DEF ReadInv
  <2>2. QED
    BY <2>1 DEF Resolve, Enter, Conclude, SignedIn, NotSignedIn, Logout, vars, Answer
<1>5. Tracked /\ phase' = "run" /\ Op(FolderOps) => Led(before, RefOf(call.op, Args), got')
  <2> SUFFICES ASSUME Tracked, phase' = "run", Op(FolderOps)
               PROVE  Led(before, RefOf(call.op, Args), got')
    OBVIOUS
  <2>1. CASE got' = got /\ phase = "run"
    BY <2>1 DEF RightInv
  <2>2. CASE got' = <<>>
    <3>1. call \in Calls /\ IsOperation(call.op)
      BY <1>4 DEF TypeOK
    <3>2. WellTyped(Args) /\ call.op \in FolderOps
      BY <3>1, CallVerb DEF Args, Op
    <3>3. RefOf(call.op, Args) \in References
      BY <3>2, Folders DEF RefOf, FolderArg, FolderOps
    <3>4. QED
      BY <2>2, <3>3, LedBegins
  <2>3. QED
    BY <1>4, <2>1, <2>2
<1>6. Alone /\ phase' = "run" /\ Op(DeriveOps) /\ got' # <<>> /\ got'[1].ok =>
        got'[1].value.id \in Ids(box) /\ got'[1].value.id >= before.next
  <2>1. CASE got' = got /\ phase = "run"
    BY <2>1 DEF RightInv
  <2>2. CASE got' = <<>>
    BY <2>2
  <2>3. QED
    BY <1>4, <2>1, <2>2
<1>7. Alone /\ (phase' = "idle" \/ Op(FolderOps)) => HaveNames(before)
  BY <1>4 DEF RightInv
<1>8. /\ Alone /\ Op(MoveOps) => SameTree(box, before)
      /\ before.next <= box.next
      /\ Tracked => \A k \in DOMAIN applied : \/ Aims(call.op, Args, before, applied[k])
                                              \/ Op(DeriveOps) /\ Fresh(box, before, applied[k])
  BY DEF RightInv
<1>9. QED
  BY <1>1, <1>3, <1>5, <1>6, <1>7, <1>8 DEF RightInv

LEMMA BeginsRight ==
  ASSUME TypeOK, HintsHold, RightInv, Receive \/ Edit \/ Repeat
  PROVE  RightInv'
<1>0. Consistent(box) /\ Consistent(before)
  BY DEF TypeOK
<1>1. CASE Receive
  <2>1. /\ phase = "idle" /\ phase' \notin {"idle", "run"} /\ applied = <<>>
        /\ UNCHANGED <<before, box, applied, trouble>>
    BY <1>1 DEF Receive, Answer, TypeOK
  <2>2. Alone' = Alone /\ DOMAIN applied' = {}
    BY <2>1, EmptyList DEF Alone
  <2>3. Alone => HaveNames(before) /\ box = before
    BY <2>1 DEF RightInv, HintsHold
  <2>4. Alone => SameTree(box, before)
    BY <1>0, <2>3, TreeItself
  <2>5. before.next <= box.next
    BY DEF RightInv
  <2>6. QED
    BY <2>1, <2>2, <2>3, <2>4, <2>5 DEF RightInv
<1>2. CASE Edit
  <2>1. Asking /\ Happens("edit") /\ box' \in Edits(box) /\ UNCHANGED before
    BY <1>2 DEF Edit, server
  <2>2. ~Alone'
    <3>1. trouble'.edit = trouble.edit + 1 /\ trouble.edit \in Nat
      BY <2>1, HappensFacts DEF TypeOK
    <3>2. QED
      BY <3>1 DEF Alone
  <2>3. box'.next = box.next
    BY <1>0, <2>1, EditTakes
  <2>4. before'.next <= box'.next
    BY <2>1, <2>3 DEF RightInv
  <2>5. QED
    BY <2>2, <2>4 DEF RightInv, Tracked
<1>3. CASE Repeat
  <2>1. /\ phase = "answered" /\ IsOperation(call.op) /\ Hints.idempotent
        /\ before' = box /\ phase' = "resolve" /\ applied' = <<>> /\ UNCHANGED <<call, box, trouble>>
    BY <1>3 DEF Repeat, Hints
  <2>2. DOMAIN applied' = {} /\ Alone' = Alone /\ \A ops : Op(ops)' = Op(ops)
    BY <2>1, EmptyList DEF Alone, Op
  <2>3. call \in Calls
    BY <2>1 DEF TypeOK
  <2>4. call.op # "mail.create_folder"
    BY <2>1, <2>3, MakesOnce DEF Hints
  <2>5. Op(FolderOps) => Op(MoveOps)
    BY <2>4 DEF Op, MoveOps
  <2>6. Alone /\ Op(FolderOps) => HaveNames(box)
    BY <2>5, TreeNames DEF RightInv
  <2>7. Op(MoveOps) => Op(FolderOps)
    BY DEF Op, MoveOps
  <2>8. Alone /\ Op(MoveOps) => SameTree(box, box)
    BY <1>0, <2>6, <2>7, TreeItself
  <2>9. box.next <= box.next
    BY <1>0 DEF Consistent
  <2>10. QED
    BY <2>1, <2>2, <2>6, <2>8, <2>9 DEF RightInv
<1>4. QED
  BY <1>1, <1>2, <1>3

LEMMA NextRight ==
  ASSUME ToolInv, ReadInv, CleanInv, RightInv, [Next]_vars
  PROVE  RightInv'
<1>1. TypeOK /\ HintsHold /\ RightAccount
  BY DEF ToolInv
<1>2. QED
  BY <1>1, SendsRight, OthersRight, BeginsRight DEF Next, Sends, Rest

LEMMA InitRight == Init => RightInv
<1> SUFFICES ASSUME Init PROVE RightInv
  OBVIOUS
<1>1. box \in Boxes /\ before = box /\ phase = "idle" /\ applied = <<>>
  BY DEF Init
<1>2. Consistent(box) /\ \A i \in Ids(box) : Described(box.items[i])
  BY <1>1, BoxesAssumption
<1>3. HaveNames(before)
  BY <1>1, <1>2 DEF HaveNames, Described
<1>4. SameTree(box, before)
  BY <1>1, <1>2, <1>3, TreeItself
<1>5. before.next <= box.next
  BY <1>1, <1>2 DEF Consistent
<1>6. DOMAIN applied = {}
  BY <1>1, EmptyList
<1>7. QED
  BY <1>1, <1>3, <1>4, <1>5, <1>6 DEF RightInv

\* A call changes the folder, message or event it names, in the place it names, or
\* one it has made itself, whichever way a folder is named and whatever goes wrong
\* on the way; provided that, where a new folder is to go below a path, no reply to
\* the request that makes it was lost.
THEOREM TargetsAreRight == Spec => []((ByPath(call) => lost = 0) => RightTarget)
<1>1. RightInv => ((ByPath(call) => lost = 0) => RightTarget)
  <2> SUFFICES ASSUME RightInv, ByPath(call) => lost = 0, Alone, NEW k \in DOMAIN applied
               PROVE  OnTarget(applied[k])
    BY DEF RightTarget
  <2>1. Aims(call.op, Args, before, applied[k]) \/ Fresh(box, before, applied[k])
    BY DEF RightInv, Tracked
  <2>2. QED
    BY <2>1, AimsHit
<1>2. ToolInv /\ ReadInv /\ CleanInv /\ RightInv /\ [Next]_vars => RightInv'
  BY NextRight
<1>3. ToolInv /\ ReadInv /\ CleanInv /\ [Next]_vars => CleanInv'
  BY NextClean DEF ToolInv
<1>4. QED
  BY <1>1, <1>2, <1>3, InitRight, InitClean, ReadsAgree, PTL DEF Spec
================================================================================
