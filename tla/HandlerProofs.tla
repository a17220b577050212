----------------------------- MODULE HandlerProofs -----------------------------
(***************************************************************************)
(* What every handler keeps to, whatever it has been told so far: the      *)
(* requests it makes are of the kinds its verb needs and name what they    *)
(* touch by its ID, and it never speaks in the voice of the middleware.    *)
(***************************************************************************)
EXTENDS MailHandlers, CalendarHandlers, WellFoundedInduction, TLAPS

\* A request that writes to an item addresses it by its ID, and a change of
\* fields moves nothing to another place.
Proper(req) ==
  /\ req.op \notin {"get", "list", "create", "delete"} => req.at.key = ""
  /\ req.op \in {"patch", "act"} => "in" \notin DOMAIN req.fields

Asks(step, ops) == step.req.op \in ops /\ Proper(step.req)

\* Told only replies of S, the handler asks for something of ops, or ends with
\* an answer or a failure of its own, and what it has not used are of S.
Keeps(step, ops, S) ==
  /\ step.next \in {"ask", "fail", "done"}
  /\ step.next = "ask"  => Asks(step, ops)
  /\ step.next = "fail" => step.value # "no account selected"
  /\ step.next # "ask"  => step.rest \in Seq(S)

\* No reply of Graph fails as the middleware does for want of an account.
Heard(S) == \A r \in S : ~r.ok => r.value # "no account selected"

Reading == {"get", "list"}

-------------------------------------------------------------------------------
\* Steps.
LEMMA StepFacts ==
  /\ \A req : Ask(req).next = "ask" /\ Ask(req).req = req
  /\ \A v, r : Done(v, r).next = "done" /\ Done(v, r).value = v /\ Done(v, r).rest = r
  /\ \A v, r : Fail(v, r).next = "fail" /\ Fail(v, r).value = v /\ Fail(v, r).rest = r
BY DEF Ask, Done, Fail

LEMMA AskKeeps ==
  ASSUME NEW req, NEW ops, NEW S, req.op \in ops, Proper(req)
  PROVE  Keeps(Ask(req), ops, S)
BY StepFacts DEF Keeps, Asks

LEMMA DoneKeeps ==
  ASSUME NEW v, NEW ops, NEW S, NEW r \in Seq(S)
  PROVE  Keeps(Done(v, r), ops, S)
BY DEF Done, Keeps

LEMMA FailKeeps ==
  ASSUME NEW v, NEW ops, NEW S, NEW r \in Seq(S), v # "no account selected"
  PROVE  Keeps(Fail(v, r), ops, S)
BY DEF Fail, Keeps

LEMMA MoreKinds ==
  ASSUME NEW step, NEW few, NEW many, NEW S, few \subseteq many, Keeps(step, few, S)
  PROVE  Keeps(step, many, S)
BY DEF Keeps, Asks

LEMMA NextReply ==
  ASSUME NEW S, NEW rs \in Seq(S), rs # <<>>
  PROVE  Head(rs) \in S /\ Tail(rs) \in Seq(S)
OBVIOUS

LEMMA TryKeeps ==
  ASSUME NEW req, NEW ops, NEW S, NEW rs \in Seq(S), req.op \in ops, Proper(req)
  PROVE  Keeps(Try(req, rs), ops, S)
BY NextReply, AskKeeps, DoneKeeps DEF Try

LEMMA RequestKeeps ==
  ASSUME NEW req, NEW ops, NEW S, NEW rs \in Seq(S), req.op \in ops, Proper(req), Heard(S)
  PROVE  Keeps(Request(req, rs), ops, S)
<1>1. CASE rs = <<>>
  <2>1. Request(req, rs) = Ask(req)
    BY <1>1, StepFacts DEF Request, Then, Try
  <2>2. QED
    BY <2>1, AskKeeps
<1>2. CASE rs # <<>>
  <2>1. Request(req, rs) = IF Head(rs).ok THEN Done(Head(rs).value, Tail(rs))
                           ELSE Fail(Head(rs).value, Tail(rs))
    BY <1>2, StepFacts DEF Request, Then, Try
  <2>2. Head(rs) \in S /\ Tail(rs) \in Seq(S)
    BY <1>2, NextReply
  <2>3. QED
    BY <2>1, <2>2, DoneKeeps, FailKeeps DEF Heard
<1>3. QED
  BY <1>1, <1>2

-------------------------------------------------------------------------------
\* Requests.
LEMMA WithFacts ==
  ASSUME NEW item, NEW fields
  PROVE  /\ DOMAIN With(item, fields) = DOMAIN item \cup DOMAIN fields
         /\ \A f \in DOMAIN fields : With(item, fields)[f] = fields[f]
         /\ \A f \in DOMAIN item \ DOMAIN fields : With(item, fields)[f] = item[f]
BY DEF With

LEMMA Requests ==
  /\ \A kind, in, filter, order, top :
       Listing(kind, in, filter, order, top).op = "list"
       /\ Proper(Listing(kind, in, filter, order, top))
  /\ \A kind, id : Get(kind, id).op = "get" /\ Proper(Get(kind, id))
  /\ \A in, item : Create(in, item).op = "create" /\ Proper(Create(in, item))
  /\ \A kind, id, fs : Patch(kind, id, fs).op = "patch"
       /\ ("in" \notin DOMAIN fs => Proper(Patch(kind, id, fs)))
  /\ \A kind, at : Delete(kind, at).op = "delete" /\ Proper(Delete(kind, at))
  /\ \A id, to : Move(id, to).op = "move" /\ Proper(Move(id, to))
  /\ \A id : Derive(id).op = "derive" /\ Proper(Derive(id))
  /\ \A id : Cancel(id).op = "cancel" /\ Proper(Cancel(id))
  /\ \A id, fs, mail : Act(id, fs, mail).op = "act"
       /\ ("in" \notin DOMAIN fs => Proper(Act(id, fs, mail)))
<1>1. \A kind, in, filter, order, top :
        Listing(kind, in, filter, order, top).op = "list"
        /\ Proper(Listing(kind, in, filter, order, top))
  BY DEF Listing, Proper
<1>2. \A kind, id : Get(kind, id).op = "get" /\ Proper(Get(kind, id))
  BY DEF Get, Proper
<1>3. \A in, item : Create(in, item).op = "create" /\ Proper(Create(in, item))
  BY DEF Create, Proper
<1>4. \A kind, id, fs : Patch(kind, id, fs).op = "patch"
        /\ ("in" \notin DOMAIN fs => Proper(Patch(kind, id, fs)))
  BY DEF Patch, ById, Proper
<1>5. \A kind, at : Delete(kind, at).op = "delete" /\ Proper(Delete(kind, at))
  BY DEF Delete, Proper
<1>6. \A id, to : Move(id, to).op = "move" /\ Proper(Move(id, to))
  BY DEF Move, ById, Proper
<1>7. \A id : Derive(id).op = "derive" /\ Proper(Derive(id))
  BY DEF Derive, ById, Proper
<1>8. \A id : Cancel(id).op = "cancel" /\ Proper(Cancel(id))
  BY DEF Cancel, ById, Proper
<1>9. \A id, fs, mail : Act(id, fs, mail).op = "act"
        /\ ("in" \notin DOMAIN fs => Proper(Act(id, fs, mail)))
  BY DEF Act, ById, Proper
<1>10. QED
  BY <1>1, <1>2, <1>3, <1>4, <1>5, <1>6, <1>7, <1>8, <1>9

-------------------------------------------------------------------------------
\* Loops.  There is a function for each of them, by induction over how far it is.
LEMMA LeastNumber ==
  ASSUME NEW S \in SUBSET Nat, S # {}
  PROVE  \E n \in S : \A k \in S : n <= k
<1>1. PICK n \in S : \A k \in S : ~(<<k, n>> \in OpToRel(<, Nat))
  BY NatLessThanWellFounded, WFMin
<1>2. \A k \in S : ~(k < n)
  BY <1>1 DEF OpToRel
<1>3. QED
  BY <1>2

LEMMA UpTo ==
  ASSUME NEW lo \in Nat, NEW hi \in Nat, NEW P, lo \in P,
         \A n \in lo .. hi : n + 1 \in lo .. hi /\ n \in P => n + 1 \in P
  PROVE  \A n \in lo .. hi : n \in P
<1> DEFINE S == {n \in lo .. hi : n \notin P}
<1> SUFFICES ASSUME S # {} PROVE FALSE
  OBVIOUS
<1>1. PICK m \in S : \A k \in S : m <= k
  <2>1. S \in SUBSET Nat
    OBVIOUS
  <2>2. QED
    BY <2>1, LeastNumber
<1>2. m \in lo .. hi /\ m # lo /\ m \notin P
  BY <1>1
<1>3. m - 1 \in lo .. hi /\ ~(m <= m - 1) /\ (m - 1) + 1 = m
  BY <1>2
<1>4. m - 1 \in P
  BY <1>1, <1>3
<1>5. QED
  BY <1>2, <1>3, <1>4

\* walkFolderPath.
Walk(parts, rs, m, g) ==
  g = [i \in 1 .. m |-> IF i = 1 THEN FirstPart(parts[1], rs) ELSE NextPart(parts[i], g[i - 1])]

LEMMA WalkRuns ==
  ASSUME NEW parts, Len(parts) \in Nat \ {0}, NEW rs
  PROVE  \E g : Walk(parts, rs, Len(parts), g)
<1> DEFINE N == Len(parts)
           P == {m \in 1 .. N : \E g : Walk(parts, rs, m, g)}
<1>1. 1 \in P
  <2>1. Walk(parts, rs, 1, [i \in 1 .. 1 |-> FirstPart(parts[1], rs)])
    BY DEF Walk
  <2>2. QED
    BY <2>1
<1>2. ASSUME NEW n \in 1 .. N, n + 1 \in 1 .. N, n \in P
      PROVE  n + 1 \in P
  <2>1. PICK g : Walk(parts, rs, n, g)
    BY <1>2
  <2> DEFINE x == NextPart(parts[n + 1], g[n])
             h == [i \in 1 .. n + 1 |-> IF i = n + 1 THEN x ELSE g[i]]
             At(f, i) == IF i = 1 THEN FirstPart(parts[1], rs) ELSE NextPart(parts[i], f[i - 1])
  <2>2. \A i \in 1 .. n : g[i] = At(g, i)
    BY <2>1 DEF Walk
  <2>3. \A i \in 1 .. n + 1 : h[i] = At(h, i)
    <3> SUFFICES ASSUME NEW i \in 1 .. n + 1 PROVE h[i] = At(h, i)
      OBVIOUS
    <3>1. i # 1 => h[i - 1] = g[i - 1]
      OBVIOUS
    <3>2. CASE i = n + 1
      BY <3>1, <3>2
    <3>3. CASE i # n + 1
      BY <2>2, <3>1, <3>3
    <3>4. QED
      BY <3>2, <3>3
  <2>4. h = [i \in 1 .. n + 1 |-> At(h, i)]
    BY <2>3
  <2>5. Walk(parts, rs, n + 1, h)
    BY <2>4 DEF Walk
  <2>6. QED
    BY <1>2, <2>5
<1>3. N \in P
  <2> HIDE DEF P
  <2>1. \A n \in 1 .. N : n \in P
    BY <1>1, <1>2, UpTo
  <2>2. QED
    BY <2>1
<1>4. QED
  BY <1>3

LEMMA FindUnderKeeps ==
  ASSUME NEW place, NEW part, NEW S, NEW rs \in Seq(S), Heard(S)
  PROVE  Keeps(FindUnder(place, part, rs), {"list"}, S)
<1> DEFINE ask  == Request(FetchFolders(place.at, LookupPage), rs)
           here == MatchFolderByName(ask.value.items, part)
           match == ask.value.items[here]
           found == Place(ById(match.id), place.path \o match.name)
<1>1. Keeps(ask, {"list"}, S)
  <2>1. FetchFolders(place.at, LookupPage).op = "list" /\ Proper(FetchFolders(place.at, LookupPage))
    BY Requests DEF FetchFolders
  <2>2. QED
    BY <2>1, RequestKeeps
<1>2. FindUnder(place, part, rs) =
        IF ask.next # "done" THEN ask
        ELSE IF here = 0 THEN Fail("no folder", ask.rest) ELSE Done(found, ask.rest)
  BY DEF FindUnder, Then
<1> HIDE DEF ask, here, found
<1>3. CASE ask.next # "done"
  BY <1>1, <1>2, <1>3
<1>4. CASE ask.next = "done"
  <2>1. ask.rest \in Seq(S)
    BY <1>1, <1>4 DEF Keeps
  <2>2. Keeps(Fail("no folder", ask.rest), {"list"}, S) /\ Keeps(Done(found, ask.rest), {"list"}, S)
    BY <2>1, FailKeeps, DoneKeeps
  <2>3. QED
    BY <1>2, <1>4, <2>2
<1>5. QED
  BY <1>3, <1>4

LEMMA FirstPartKeeps ==
  ASSUME NEW part, NEW S, NEW rs \in Seq(S), Heard(S)
  PROVE  Keeps(FirstPart(part, rs), {"list"}, S)
BY FindUnderKeeps, DoneKeeps DEF FirstPart

LEMMA NextPartKeeps ==
  ASSUME NEW part, NEW step, NEW S, Heard(S), Keeps(step, {"list"}, S)
  PROVE  Keeps(NextPart(part, step), {"list"}, S)
<1>1. NextPart(part, step) = IF step.next = "done" THEN FindUnder(step.value, part, step.rest) ELSE step
  BY DEF NextPart, Then
<1>2. step.next = "done" => step.rest \in Seq(S)
  BY DEF Keeps
<1>3. step.next = "done" => Keeps(FindUnder(step.value, part, step.rest), {"list"}, S)
  BY <1>2, FindUnderKeeps
<1>4. QED
  BY <1>1, <1>3

LEMMA WalkKeeps ==
  ASSUME NEW parts, Len(parts) \in Nat \ {0}, NEW S, NEW rs \in Seq(S), Heard(S)
  PROVE  Keeps(WalkFolderPath(parts, rs), {"list"}, S)
<1> DEFINE N == Len(parts)
           g == CHOOSE g : Walk(parts, rs, N, g)
           P == {n \in 1 .. N : Keeps(g[n], {"list"}, S)}
<1>1. Walk(parts, rs, N, g)
  BY WalkRuns
<1>2. WalkFolderPath(parts, rs) = g[N]
  BY DEF WalkFolderPath, Walk
<1> HIDE DEF g
<1>3. 1 \in P
  <2>1. g[1] = FirstPart(parts[1], rs)
    BY <1>1 DEF Walk
  <2>2. QED
    BY <2>1, FirstPartKeeps
<1>4. ASSUME NEW n \in 1 .. N, n + 1 \in 1 .. N, n \in P
      PROVE  n + 1 \in P
  <2>1. g[n + 1] = NextPart(parts[n + 1], g[n])
    BY <1>1, <1>4 DEF Walk
  <2>2. QED
    BY <1>4, <2>1, NextPartKeeps
<1>5. N \in P
  <2> HIDE DEF P
  <2>1. \A n \in 1 .. N : n \in P
    BY <1>3, <1>4, UpTo
  <2>2. QED
    BY <2>1
<1>6. QED
  BY <1>2, <1>5

LEMMA PassThroughKeeps ==
  ASSUME NEW id, NEW wantPath, NEW S, NEW rs \in Seq(S), Heard(S)
  PROVE  Keeps(PassThroughId(id, wantPath, rs), Reading, S)
<1> DEFINE ask == Request(Get("folder", id), rs)
<1>1. Keeps(ask, Reading, S)
  <2>1. Get("folder", id).op \in Reading /\ Proper(Get("folder", id))
    BY Requests DEF Reading
  <2>2. QED
    BY <2>1, RequestKeeps
<1>2. PassThroughId(id, wantPath, rs) =
        IF ~wantPath THEN Done(Place(ById(id), <<>>), rs)
        ELSE IF ask.next # "done" THEN ask
        ELSE Done(Place(ById(id), ask.value.name), ask.rest)
  BY DEF PassThroughId, Then
<1> HIDE DEF ask
<1>3. ask.next = "done" => ask.rest \in Seq(S)
  BY <1>1 DEF Keeps
<1>4. QED
  BY <1>1, <1>2, <1>3, DoneKeeps

LEMMA RefKeeps ==
  ASSUME NEW ref \in References, ref # NoRef, NEW wantPath, NEW S, NEW rs \in Seq(S), Heard(S)
  PROVE  Keeps(ResolveFolderRef(ref, wantPath, rs), Reading, S)
<1> DEFINE walk == WalkFolderPath(ref.parts, rs)
           pass == PassThroughId(ref.id, wantPath, rs)
           late == PassThroughId(ref.id, wantPath, walk.rest)
           key == Done(WellKnownFolder(ref.parts[1]), rs)
<1>1. ResolveFolderRef(ref, wantPath, rs) =
        IF Len(ref.parts) = 1 /\ IsWellKnown(ref.parts[1]) THEN key
        ELSE IF Len(ref.parts) <= 1 /\ ref.id # 0 THEN pass
        ELSE IF walk.next # "fail" \/ ref.id = 0 THEN walk ELSE late
  BY DEF ResolveFolderRef
<1>2. Len(ref.parts) \in Nat /\ (ref.id = 0 => Len(ref.parts) # 0)
  <2>1. ref.parts \in Seq(DOMAIN Fold) /\ ref = [parts |-> ref.parts, id |-> ref.id]
    BY DEF References
  <2>2. Len(ref.parts) = 0 => ref.parts = <<>>
    BY <2>1
  <2>3. QED
    BY <2>1, <2>2 DEF NoRef
<1>3. ~(Len(ref.parts) <= 1 /\ ref.id # 0) => Keeps(walk, {"list"}, S)
  BY <1>2, WalkKeeps
<1>4. Keeps(key, Reading, S) /\ Keeps(pass, Reading, S)
  BY DoneKeeps, PassThroughKeeps
<1> HIDE DEF walk, pass, late, key
<1>5. Keeps(walk, {"list"}, S) => Keeps(walk, Reading, S)
  BY MoreKinds DEF Reading
<1>6. Keeps(walk, {"list"}, S) /\ walk.next = "fail" => Keeps(late, Reading, S)
  BY PassThroughKeeps DEF Keeps, late
<1>7. QED
  BY <1>1, <1>3, <1>4, <1>5, <1>6

LEMMA ParamKeeps ==
  ASSUME NEW ref \in References, NEW S, NEW rs \in Seq(S), Heard(S)
  PROVE  Keeps(ResolveFolderParam(ref, rs), Reading, S)
BY RefKeeps, DoneKeeps DEF ResolveFolderParam

\* The page iterator.
LEMMA NextPageKeeps ==
  ASSUME NEW req, "op" \in DOMAIN req, req.op = "list", NEW limit, NEW keep, NEW step,
         NEW S, Heard(S), Keeps(step, {"list"}, S)
  PROVE  Keeps(NextPage(req, limit, keep, step), {"list"}, S)
<1> DEFINE next == Once([req EXCEPT !.skip = step.value.skip])
           ask  == Request(next, step.rest)
           both == [ask.value EXCEPT !.items = step.value.items \o ask.value.items]
           last == LastPage(step.value, Len(Wanted(step.value.items, keep)), limit)
<1>1. NextPage(req, limit, keep, step) =
        IF step.next # "done" THEN step
        ELSE IF last THEN Done(step.value, step.rest)
        ELSE IF ask.next # "done" THEN ask ELSE Done(both, ask.rest)
  BY DEF NextPage, Then
<1>2. step.next = "done" => step.rest \in Seq(S)
  BY DEF Keeps
<1>3. next.op = "list" /\ Proper(next)
  <2>1. "op" \in DOMAIN [req EXCEPT !.skip = step.value.skip]
        /\ [req EXCEPT !.skip = step.value.skip].op = "list"
    OBVIOUS
  <2>2. "op" \notin DOMAIN [once |-> TRUE]
    OBVIOUS
  <2>3. next.op = "list"
    BY <2>1, <2>2, WithFacts DEF Once
  <2>4. QED
    BY <2>3 DEF Proper
<1>4. step.next = "done" => Keeps(ask, {"list"}, S)
  BY <1>2, <1>3, RequestKeeps
<1> HIDE DEF next, ask, both, last
<1>5. step.next = "done" /\ ask.next = "done" => Keeps(Done(both, ask.rest), {"list"}, S)
  <2>1. step.next = "done" /\ ask.next = "done" => ask.rest \in Seq(S)
    BY <1>4 DEF Keeps
  <2>2. QED
    BY <2>1, DoneKeeps
<1>6. step.next = "done" => Keeps(Done(step.value, step.rest), {"list"}, S)
  BY <1>2, DoneKeeps
<1>7. QED
  BY <1>1, <1>4, <1>5, <1>6

Followed(req, limit, keep, rs, m, g) ==
  g = [n \in 0 .. m |-> IF n = 0 THEN Request(req, rs) ELSE NextPage(req, limit, keep, g[n - 1])]

LEMMA PagesRun ==
  ASSUME NEW req, NEW limit, NEW keep, NEW rs, Len(rs) \in Nat
  PROVE  \E g : Followed(req, limit, keep, rs, Len(rs), g)
<1> DEFINE N == Len(rs)
           P == {m \in 0 .. N : \E g : Followed(req, limit, keep, rs, m, g)}
<1>1. 0 \in P
  <2>1. Followed(req, limit, keep, rs, 0, [i \in 0 .. 0 |-> Request(req, rs)])
    BY DEF Followed
  <2>2. QED
    BY <2>1
<1>2. ASSUME NEW n \in 0 .. N, n + 1 \in 0 .. N, n \in P
      PROVE  n + 1 \in P
  <2>1. PICK g : Followed(req, limit, keep, rs, n, g)
    BY <1>2
  <2> DEFINE x == NextPage(req, limit, keep, g[n])
             h == [i \in 0 .. n + 1 |-> IF i = n + 1 THEN x ELSE g[i]]
             At(f, i) == IF i = 0 THEN Request(req, rs) ELSE NextPage(req, limit, keep, f[i - 1])
  <2>2. \A i \in 0 .. n : g[i] = At(g, i)
    BY <2>1 DEF Followed
  <2>3. \A i \in 0 .. n + 1 : h[i] = At(h, i)
    <3> SUFFICES ASSUME NEW i \in 0 .. n + 1 PROVE h[i] = At(h, i)
      OBVIOUS
    <3>1. i # 0 => h[i - 1] = g[i - 1]
      OBVIOUS
    <3>2. CASE i = n + 1
      BY <3>1, <3>2
    <3>3. CASE i # n + 1
      BY <2>2, <3>1, <3>3
    <3>4. QED
      BY <3>2, <3>3
  <2>4. h = [i \in 0 .. n + 1 |-> At(h, i)]
    BY <2>3
  <2>5. Followed(req, limit, keep, rs, n + 1, h)
    BY <2>4 DEF Followed
  <2>6. QED
    BY <1>2, <2>5
<1>3. N \in P
  <2> HIDE DEF P
  <2>1. \A n \in 0 .. N : n \in P
    BY <1>1, <1>2, UpTo
  <2>2. QED
    BY <2>1
<1>4. QED
  BY <1>3

LEMMA PagesKeep ==
  ASSUME NEW req, "op" \in DOMAIN req, req.op = "list", NEW limit, NEW keep,
         NEW S, NEW rs \in Seq(S), Heard(S)
  PROVE  Keeps(IteratePages(req, limit, keep, rs), {"list"}, S)
<1> DEFINE N == Len(rs)
           g == CHOOSE g : Followed(req, limit, keep, rs, N, g)
           P == {n \in 0 .. N : Keeps(g[n], {"list"}, S)}
           found == Wanted(g[N].value.items, keep)
           answer == SubSeq(found, 1, Min({limit, Len(found)}))
<1>0. N \in Nat
  OBVIOUS
<1>1. Followed(req, limit, keep, rs, N, g)
  BY <1>0, PagesRun
<1>2. IteratePages(req, limit, keep, rs) = IF g[N].next # "done" THEN g[N] ELSE Done(answer, g[N].rest)
  BY DEF IteratePages, Followed, Then
<1> HIDE DEF g, answer
<1>3. 0 \in P
  <2>1. g[0] = Request(req, rs)
    BY <1>0, <1>1 DEF Followed
  <2>2. Proper(req)
    BY DEF Proper
  <2>3. Keeps(Request(req, rs), {"list"}, S)
    BY <2>2, RequestKeeps
  <2>4. QED
    BY <1>0, <2>1, <2>3
<1>4. ASSUME NEW n \in 0 .. N, n + 1 \in 0 .. N, n \in P
      PROVE  n + 1 \in P
  <2>1. g[n + 1] = NextPage(req, limit, keep, g[n])
    BY <1>0, <1>1, <1>4 DEF Followed
  <2>2. QED
    BY <1>4, <2>1, NextPageKeeps
<1>5. N \in P
  <2> HIDE DEF P
  <2>1. \A n \in 0 .. N : n \in P
    BY <1>0, <1>3, <1>4, UpTo
  <2>2. QED
    BY <1>0, <2>1
<1>6. g[N].next = "done" => g[N].rest \in Seq(S)
  BY <1>5 DEF Keeps
<1>7. QED
  BY <1>2, <1>5, <1>6, DoneKeeps

\* The batch of move_messages.
LEMMA MoveNextKeeps ==
  ASSUME NEW id, NEW to, NEW step, NEW S, Keeps(step, {"move"}, S)
  PROVE  Keeps(MoveNext(id, to, step), {"move"}, S)
<1> DEFINE outcome(how) == [id |-> id, how |-> how]
           try == Try(Move(id, to), step.rest)
           skipped == Append(step.value, outcome("skipped"))
           tried == Append(step.value, outcome(IF try.value.ok THEN "ok" ELSE try.value.value))
           skip == step.value # <<>> /\ Last(step.value).how \in {"cancelled", "skipped"}
<1>1. MoveNext(id, to, step) =
        IF step.next # "done" THEN step
        ELSE IF skip THEN Done(skipped, step.rest)
        ELSE IF try.next # "done" THEN try ELSE Done(tried, try.rest)
  BY DEF MoveNext, Then
<1>2. step.next = "done" => step.rest \in Seq(S)
  BY DEF Keeps
<1>3. step.next = "done" => Keeps(try, {"move"}, S)
  <2>1. Move(id, to).op = "move" /\ Proper(Move(id, to))
    BY Requests
  <2>2. QED
    BY <1>2, <2>1, TryKeeps
<1> HIDE DEF try, skipped, tried, skip
<1>4. step.next = "done" /\ try.next = "done" => Keeps(Done(tried, try.rest), {"move"}, S)
  <2>1. step.next = "done" /\ try.next = "done" => try.rest \in Seq(S)
    BY <1>3 DEF Keeps
  <2>2. QED
    BY <2>1, DoneKeeps
<1>5. step.next = "done" => Keeps(Done(skipped, step.rest), {"move"}, S)
  BY <1>2, DoneKeeps
<1>6. QED
  BY <1>1, <1>3, <1>4, <1>5

Moves(ids, to, rs, m, g) ==
  g = [n \in 0 .. m |-> IF n = 0 THEN Done(<<>>, rs) ELSE MoveNext(ids[n], to, g[n - 1])]

LEMMA MovesRun ==
  ASSUME NEW ids, Len(ids) \in Nat, NEW to, NEW rs
  PROVE  \E g : Moves(ids, to, rs, Len(ids), g)
<1> DEFINE N == Len(ids)
           P == {m \in 0 .. N : \E g : Moves(ids, to, rs, m, g)}
<1>1. 0 \in P
  <2>1. Moves(ids, to, rs, 0, [i \in 0 .. 0 |-> Done(<<>>, rs)])
    BY DEF Moves
  <2>2. QED
    BY <2>1
<1>2. ASSUME NEW n \in 0 .. N, n + 1 \in 0 .. N, n \in P
      PROVE  n + 1 \in P
  <2>1. PICK g : Moves(ids, to, rs, n, g)
    BY <1>2
  <2> DEFINE x == MoveNext(ids[n + 1], to, g[n])
             h == [i \in 0 .. n + 1 |-> IF i = n + 1 THEN x ELSE g[i]]
             At(f, i) == IF i = 0 THEN Done(<<>>, rs) ELSE MoveNext(ids[i], to, f[i - 1])
  <2>2. \A i \in 0 .. n : g[i] = At(g, i)
    BY <2>1 DEF Moves
  <2>3. \A i \in 0 .. n + 1 : h[i] = At(h, i)
    <3> SUFFICES ASSUME NEW i \in 0 .. n + 1 PROVE h[i] = At(h, i)
      OBVIOUS
    <3>1. i # 0 => h[i - 1] = g[i - 1]
      OBVIOUS
    <3>2. CASE i = n + 1
      BY <3>1, <3>2
    <3>3. CASE i # n + 1
      BY <2>2, <3>1, <3>3
    <3>4. QED
      BY <3>2, <3>3
  <2>4. h = [i \in 0 .. n + 1 |-> At(h, i)]
    BY <2>3
  <2>5. Moves(ids, to, rs, n + 1, h)
    BY <2>4 DEF Moves
  <2>6. QED
    BY <1>2, <2>5
<1>3. N \in P
  <2> HIDE DEF P
  <2>1. \A n \in 0 .. N : n \in P
    BY <1>1, <1>2, UpTo
  <2>2. QED
    BY <2>1
<1>4. QED
  BY <1>3

LEMMA MovesKeep ==
  ASSUME NEW ids, Len(ids) \in Nat, NEW to, NEW S, NEW rs \in Seq(S)
  PROVE  Keeps(MoveEach(ids, to, rs), {"move"}, S)
<1> DEFINE N == Len(ids)
           g == CHOOSE g : Moves(ids, to, rs, N, g)
           P == {n \in 0 .. N : Keeps(g[n], {"move"}, S)}
<1>1. Moves(ids, to, rs, N, g)
  BY MovesRun
<1>2. MoveEach(ids, to, rs) = g[N]
  BY DEF MoveEach, Moves
<1> HIDE DEF g
<1>3. 0 \in P
  <2>1. g[0] = Done(<<>>, rs)
    BY <1>1 DEF Moves
  <2>2. QED
    BY <2>1, DoneKeeps
<1>4. ASSUME NEW n \in 0 .. N, n + 1 \in 0 .. N, n \in P
      PROVE  n + 1 \in P
  <2>1. g[n + 1] = MoveNext(ids[n + 1], to, g[n])
    BY <1>1, <1>4 DEF Moves
  <2>2. QED
    BY <1>4, <2>1, MoveNextKeeps
<1>5. N \in P
  <2> HIDE DEF P
  <2>1. \A n \in 0 .. N : n \in P
    BY <1>3, <1>4, UpTo
  <2>2. QED
    BY <2>1
<1>6. QED
  BY <1>2, <1>5

\* buildFolderTree.
Told(tree, S) == DOMAIN tree = {"todo", "done", "rest", "asks"} /\ tree.rest \in Seq(S)

LEMMA VisitKeeps ==
  ASSUME NEW tree, NEW S, Told(tree, S)
  PROVE  Told(Visit(tree), S)
<1> DEFINE leaf(n) == [tree EXCEPT !.todo = Tail(@), !.done = Append(@, n)]
           told(todo, done) == [tree EXCEPT !.rest = Tail(@), !.todo = todo, !.done = done]
<1>1. Told([tree EXCEPT !.asks = TRUE], S)
  BY DEF Told
<1>2. \A n : Told(leaf(n), S)
  BY DEF Told
<1>3. tree.rest # <<>> => Tail(tree.rest) \in Seq(S)
  BY NextReply DEF Told
<1>4. tree.rest # <<>> => \A n : Told([leaf(n) EXCEPT !.rest = Tail(@)], S)
  BY <1>3 DEF Told
<1>5. tree.rest # <<>> => \A x, y : Told([tree EXCEPT !.rest = Tail(@), !.todo = x, !.done = y], S)
  BY <1>3 DEF Told
<1>6. QED
  BY <1>1, <1>2, <1>4, <1>5 DEF Visit

Visits(nodes, rs, m, g) ==
  g = [n \in 0 .. m |->
         IF n = 0 THEN [todo |-> nodes, done |-> <<>>, rest |-> rs, asks |-> FALSE]
         ELSE Visit(g[n - 1])]

LEMMA VisitsRun ==
  ASSUME NEW nodes, NEW rs, NEW N \in Nat
  PROVE  \E g : Visits(nodes, rs, N, g)
<1> DEFINE first == [todo |-> nodes, done |-> <<>>, rest |-> rs, asks |-> FALSE]
           P == {m \in 0 .. N : \E g : Visits(nodes, rs, m, g)}
<1>1. 0 \in P
  <2>1. Visits(nodes, rs, 0, [i \in 0 .. 0 |-> first])
    BY DEF Visits
  <2>2. QED
    BY <2>1
<1>2. ASSUME NEW n \in 0 .. N, n + 1 \in 0 .. N, n \in P
      PROVE  n + 1 \in P
  <2>1. PICK g : Visits(nodes, rs, n, g)
    BY <1>2
  <2> DEFINE x == Visit(g[n])
             h == [i \in 0 .. n + 1 |-> IF i = n + 1 THEN x ELSE g[i]]
             At(f, i) == IF i = 0 THEN first ELSE Visit(f[i - 1])
  <2> HIDE DEF first
  <2>2. \A i \in 0 .. n : g[i] = At(g, i)
    BY <2>1 DEF Visits, first
  <2>3. \A i \in 0 .. n + 1 : h[i] = At(h, i)
    <3> SUFFICES ASSUME NEW i \in 0 .. n + 1 PROVE h[i] = At(h, i)
      OBVIOUS
    <3>1. i # 0 => h[i - 1] = g[i - 1]
      OBVIOUS
    <3>2. CASE i = n + 1
      BY <3>1, <3>2
    <3>3. CASE i # n + 1
      BY <2>2, <3>1, <3>3
    <3>4. QED
      BY <3>2, <3>3
  <2>4. h = [i \in 0 .. n + 1 |-> At(h, i)]
    BY <2>3
  <2>5. Visits(nodes, rs, n + 1, h)
    BY <2>4 DEF Visits, first
  <2>6. QED
    BY <1>2, <2>5
<1>3. N \in P
  <2> HIDE DEF P
  <2>1. \A n \in 0 .. N : n \in P
    BY <1>1, <1>2, UpTo
  <2>2. QED
    BY <2>1
<1>4. QED
  BY <1>3

LEMMA TreeKeeps ==
  ASSUME NEW nodes, NEW top \in Nat, NEW S, NEW rs \in Seq(S)
  PROVE  Keeps(BuildFolderTree(nodes, top, rs), {"list"}, S)
<1> DEFINE N == top * (Len(rs) + 1)
           g == CHOOSE g : Visits(nodes, rs, N, g)
           P == {n \in 0 .. N : Told(g[n], S)}
           ask == FetchFolders(ById(Head(g[N].todo).id), top)
           first == [todo |-> nodes, done |-> <<>>, rest |-> rs, asks |-> FALSE]
<1>0. N \in Nat
  <2>1. Len(rs) + 1 \in Nat
    OBVIOUS
  <2>2. \A m \in Nat : top * m \in Nat
    OBVIOUS
  <2>3. QED
    BY <2>1, <2>2
<1>1. Visits(nodes, rs, N, g)
  BY <1>0, VisitsRun
<1>2. BuildFolderTree(nodes, top, rs) = IF g[N].asks THEN Ask(ask) ELSE Done(g[N].done, g[N].rest)
  BY DEF BuildFolderTree, Visits
<1> HIDE DEF g, N, first
<1>11. g = [n \in 0 .. N |-> IF n = 0 THEN first ELSE Visit(g[n - 1])]
  BY <1>1 DEF Visits, first
<1>3. 0 \in P
  <2>1. g[0] = first
    BY <1>0, <1>11
  <2>2. Told(g[0], S)
    BY <2>1 DEF Told, first
  <2>3. QED
    BY <1>0, <2>2
<1>4. ASSUME NEW n \in 0 .. N, n + 1 \in 0 .. N, n \in P
      PROVE  n + 1 \in P
  <2>1. g[n + 1] = Visit(g[n])
    BY <1>0, <1>11, <1>4
  <2>2. QED
    BY <1>4, <2>1, VisitKeeps
<1>5. N \in P
  <2> HIDE DEF P
  <2>1. \A n \in 0 .. N : n \in P
    BY <1>0, <1>3, <1>4, UpTo
  <2>2. QED
    BY <1>0, <2>1
<1>6. g[N].rest \in Seq(S)
  BY <1>5 DEF Told
<1>7. ask.op = "list" /\ Proper(ask)
  BY Requests DEF FetchFolders
<1> HIDE DEF ask
<1>8. QED
  BY <1>2, <1>6, <1>7, AskKeeps, DoneKeeps

-------------------------------------------------------------------------------
\* The verbs.
LEMMA Folders ==
  ASSUME NEW a, WellTyped(a)
  PROVE  \A p \in {"folder", "parent", "destination"} : Arg(a, p, NoRef) \in References
<1>1. NoRef \in References
  BY DEF NoRef, References
<1>2. QED
  BY <1>1 DEF Arg, WellTyped

LEMMA WellAsked ==
  /\ \A kind, id : Get(kind, id).op = "get" /\ Proper(Get(kind, id))
  /\ \A kind, in, filter, order, top :
       /\ Listing(kind, in, filter, order, top).op = "list"
       /\ "op" \in DOMAIN Listing(kind, in, filter, order, top)
       /\ Proper(Listing(kind, in, filter, order, top))
BY Requests DEF Listing

LEMMA ListFoldersKeeps ==
  ASSUME NEW a, WellTyped(a), NEW S, NEW rs \in Seq(S), Heard(S)
  PROVE  Keeps(ListFolders(a, rs), Reading, S)
<1> DEFINE top   == Clamp(Arg(a, "max_results", 0), MaxFolders, DefaultFolders)
           depth == IF Arg(a, "recursive", FALSE)
                    THEN Clamp(Arg(a, "max_depth", 0), MaxDepth, DefaultDepth) ELSE 1
           ref   == Arg(a, "folder", NoRef)
           root  == IF ref = NoRef THEN Done(Place(Mailbox, <<>>), rs)
                    ELSE ResolveFolderRef(ref, TRUE, rs)
           ask   == Request(FetchFolders(root.value.at, top), root.rest)
           tree  == BuildFolderTree(Nodes(ask.value.items, root.value.path, depth - 1), top, ask.rest)
           text  == [root |-> root.value.at, nodes |-> tree.value, truncated |-> ask.value.skip # 0]
<1>1. ListFolders(a, rs) =
        IF Bad(a, "shape") THEN Fail("argument", rs)
        ELSE IF root.next # "done" THEN root
        ELSE IF ask.next # "done" THEN ask
        ELSE IF tree.next # "done" THEN tree ELSE Done(text, tree.rest)
  BY ZenonT(60) DEF ListFolders, Then
<1>2. top \in Nat
  <2>1. Arg(a, "max_results", 0) \in Int
    BY DEF Arg, WellTyped
  <2>2. QED
    BY <2>1, FoldersAssumption DEF Clamp
<1>3. Keeps(root, Reading, S)
  BY Folders, RefKeeps, DoneKeeps
<1> HIDE DEF root
<1>4. root.next = "done" => Keeps(ask, {"list"}, S)
  <2>1. FetchFolders(root.value.at, top).op = "list" /\ Proper(FetchFolders(root.value.at, top))
    BY WellAsked DEF FetchFolders
  <2>2. root.next = "done" => root.rest \in Seq(S)
    BY <1>3 DEF Keeps
  <2>3. QED
    BY <2>1, <2>2, RequestKeeps
<1> HIDE DEF ask
<1>5. root.next = "done" /\ ask.next = "done" => Keeps(tree, {"list"}, S)
  <2>1. root.next = "done" /\ ask.next = "done" => ask.rest \in Seq(S)
    BY <1>4 DEF Keeps
  <2>2. QED
    BY <1>2, <2>1, TreeKeeps
<1> HIDE DEF tree, text
<1>6. root.next = "done" /\ ask.next = "done" /\ tree.next = "done" =>
        Keeps(Done(text, tree.rest), Reading, S)
  <2>1. root.next = "done" /\ ask.next = "done" /\ tree.next = "done" => tree.rest \in Seq(S)
    BY <1>5 DEF Keeps
  <2>2. QED
    BY <2>1, DoneKeeps
<1>7. /\ root.next = "done" => Keeps(ask, Reading, S)
      /\ root.next = "done" /\ ask.next = "done" => Keeps(tree, Reading, S)
  BY <1>4, <1>5, MoreKinds DEF Reading
<1>8. QED
  BY ZenonT(60), <1>1, <1>3, <1>6, <1>7, FailKeeps

LEMMA ListMessagesKeeps ==
  ASSUME NEW a, WellTyped(a), NEW S, NEW rs \in Seq(S), Heard(S)
  PROVE  Keeps(ListMessages(a, rs), Reading, S)
<1> DEFINE place  == ResolveFolderParam(Arg(a, "folder", NoRef), rs)
           filter == BuildMessageFilter(a)
           limit  == Clamp(Arg(a, "max_results", 0), MaxList, DefaultList)
           order  == IF FilterRequiresNoOrderby(filter) THEN "any" ELSE "newest"
           req    == Listing("message", place.value.at, filter, order, limit)
           pages  == IteratePages(req, limit, Everything, place.rest)
           wrong  == Bad(a, "value") \/ (Arg(a, "provenance", FALSE) /\ ~ProvenanceTag)
<1>1. ListMessages(a, rs) =
        IF Bad(a, "shape") THEN Fail("argument", rs)
        ELSE IF place.next # "done" THEN place
        ELSE IF wrong THEN Fail("argument", place.rest) ELSE pages
  BY DEF ListMessages, Then
<1>2. Keeps(place, Reading, S)
  BY Folders, ParamKeeps
<1> HIDE DEF place, wrong
<1>3. place.next = "done" => place.rest \in Seq(S)
  BY <1>2 DEF Keeps
<1>4. place.next = "done" => Keeps(pages, {"list"}, S)
  <2>1. req.op = "list" /\ "op" \in DOMAIN req
    BY WellAsked
  <2> HIDE DEF req
  <2>2. QED
    BY <1>3, <2>1, PagesKeep
<1> HIDE DEF pages
<1>5. place.next = "done" => Keeps(pages, Reading, S)
  BY <1>4, MoreKinds DEF Reading
<1>6. QED
  BY <1>1, <1>2, <1>3, <1>5, FailKeeps

LEMMA SearchMessagesKeeps ==
  ASSUME NEW a, WellTyped(a), NEW S, NEW rs \in Seq(S), Heard(S)
  PROVE  Keeps(SearchMessages(a, rs), Reading, S)
<1> DEFINE place  == ResolveFolderParam(Arg(a, "folder", NoRef), rs)
           limit  == Clamp(Arg(a, "max_results", 0), MaxList, DefaultList)
           req    == Listing("message", place.value.at, Arg(a, "query", <<>>), "any", limit)
           pages  == IteratePages(req, limit, Everything, place.rest)
<1>1. SearchMessages(a, rs) =
        IF Bad(a, "shape") \/ Arg(a, "query", <<>>) = <<>> THEN Fail("argument", rs)
        ELSE IF place.next # "done" THEN place
        ELSE IF Bad(a, "value") THEN Fail("argument", place.rest) ELSE pages
  BY DEF SearchMessages, Then
<1>2. Keeps(place, Reading, S)
  BY Folders, ParamKeeps
<1> HIDE DEF place
<1>3. place.next = "done" => place.rest \in Seq(S)
  BY <1>2 DEF Keeps
<1>4. place.next = "done" => Keeps(pages, {"list"}, S)
  <2>1. req.op = "list" /\ "op" \in DOMAIN req
    BY WellAsked
  <2> HIDE DEF req
  <2>2. QED
    BY <1>3, <2>1, PagesKeep
<1> HIDE DEF pages
<1>5. place.next = "done" => Keeps(pages, Reading, S)
  BY <1>4, MoreKinds DEF Reading
<1>6. QED
  BY <1>1, <1>2, <1>3, <1>5, FailKeeps

LEMMA GetConversationKeeps ==
  ASSUME NEW a, NEW S, NEW rs \in Seq(S), Heard(S)
  PROVE  Keeps(GetConversation(a, rs), Reading, S)
<1> DEFINE limit == Clamp(Arg(a, "max_results", 0), MaxList, DefaultThread)
           first == Request(Get("message", a.message_id), rs)
           conv  == ConversationOf(a, rs)
           req   == Listing("message", Mailbox, [conversation_id |-> conv.value], "any", limit)
           pages == IteratePages(req, limit, Everything, conv.rest)
           sorted == SortSeq(pages.value, LAMBDA m, n : m.stamp < n.stamp)
<1>1. GetConversation(a, rs) =
        IF Bad(a, "shape") \/ {"message_id", "conversation_id"} \cap DOMAIN a = {}
        THEN Fail("argument", rs)
        ELSE IF conv.next # "done" THEN conv
        ELSE IF pages.next # "done" THEN pages ELSE Done(sorted, pages.rest)
  BY DEF GetConversation, Then
<1>2. Keeps(conv, Reading, S)
  <2>1. Keeps(first, Reading, S)
    BY WellAsked, RequestKeeps DEF Reading
  <2>2. conv = IF "conversation_id" \in DOMAIN a THEN Done(a.conversation_id, rs)
               ELSE IF first.next # "done" THEN first
               ELSE IF first.value.conversation_id = 0 THEN Fail("no conversation", first.rest)
               ELSE Done(first.value.conversation_id, first.rest)
    BY DEF ConversationOf, Then
  <2> HIDE DEF first, conv
  <2>3. first.next = "done" => first.rest \in Seq(S)
    BY <2>1 DEF Keeps
  <2>4. QED
    BY <2>1, <2>2, <2>3, FailKeeps, DoneKeeps
<1> HIDE DEF conv
<1>3. conv.next = "done" => conv.rest \in Seq(S)
  BY <1>2 DEF Keeps
<1>4. conv.next = "done" => Keeps(pages, {"list"}, S)
  <2>1. req.op = "list" /\ "op" \in DOMAIN req
    BY WellAsked
  <2> HIDE DEF req
  <2>2. QED
    BY <1>3, <2>1, PagesKeep
<1> HIDE DEF pages, sorted
<1>5. conv.next = "done" => Keeps(pages, Reading, S)
  BY <1>4, MoreKinds DEF Reading
<1>6. conv.next = "done" /\ pages.next = "done" => Keeps(Done(sorted, pages.rest), Reading, S)
  <2>1. conv.next = "done" /\ pages.next = "done" => pages.rest \in Seq(S)
    BY <1>4 DEF Keeps
  <2>2. QED
    BY <2>1, DoneKeeps
<1>7. QED
  BY <1>1, <1>2, <1>5, <1>6, FailKeeps

LEMMA GetMessageKeeps ==
  ASSUME NEW a, NEW S, NEW rs \in Seq(S), Heard(S)
  PROVE  Keeps(GetMessage(a, rs), Reading, S)
BY WellAsked, RequestKeeps, FailKeeps DEF GetMessage, Reading

LEMMA ListAttachmentsKeeps ==
  ASSUME NEW a, NEW S, NEW rs \in Seq(S), Heard(S)
  PROVE  Keeps(ListAttachments(a, rs), Reading, S)
<1> DEFINE req == Listing("attachment", ById(MessageID(a)), <<>>, "any", MaxList)
           ask == Request(req, rs)
<1>1. ListAttachments(a, rs) =
        IF Bad(a, "shape") \/ MessageID(a) = 0 THEN Fail("argument", rs)
        ELSE IF ask.next # "done" THEN ask ELSE Done(ask.value.items, ask.rest)
  BY DEF ListAttachments, Then
<1>2. req.op \in Reading /\ Proper(req)
  BY WellAsked DEF Reading
<1> HIDE DEF req
<1>3. Keeps(ask, Reading, S)
  BY <1>2, RequestKeeps
<1> HIDE DEF ask
<1>4. ask.next = "done" => ask.rest \in Seq(S)
  BY <1>3 DEF Keeps
<1>5. QED
  BY <1>1, <1>3, <1>4, FailKeeps, DoneKeeps

LEMMA GetAttachmentKeeps ==
  ASSUME NEW a, NEW S, NEW rs \in Seq(S), Heard(S)
  PROVE  Keeps(GetAttachment(a, rs), Reading, S)
<1> DEFINE ask == Request(Get("attachment", a.attachment_id), rs)
<1>1. GetAttachment(a, rs) =
        IF Bad(a, "shape") \/ MessageID(a) = 0 \/ Arg(a, "attachment_id", 0) = 0
        THEN Fail("argument", rs)
        ELSE IF ask.next # "done" THEN ask
        ELSE IF ask.value.size > MaxAttachment THEN Fail("too large", ask.rest)
        ELSE Done(ask.value, ask.rest)
  BY DEF GetAttachment, Then
<1>2. Keeps(ask, Reading, S)
  BY WellAsked, RequestKeeps DEF Reading
<1> HIDE DEF ask
<1>3. ask.next = "done" => ask.rest \in Seq(S)
  BY <1>2 DEF Keeps
<1>4. QED
  BY <1>1, <1>2, <1>3, FailKeeps, DoneKeeps

\* Drafts.
LEMMA GivenFields ==
  ASSUME NEW a, NEW names, "in" \notin names
  PROVE  "in" \notin DOMAIN Given(a, names)
BY DEF Given

LEMMA CreateDraftKeeps ==
  ASSUME NEW a, NEW S, NEW rs \in Seq(S), Heard(S)
  PROVE  Keeps(CreateDraft(a, rs), {"create"}, S)
<1> DEFINE req == Create(Mailbox, With(BlankDraft, Given(a, DraftFields)))
<1>1. CreateDraft(a, rs) = IF Bad(a, "shape") THEN Fail("argument", rs) ELSE Request(req, rs)
  BY DEF CreateDraft
<1>2. req.op = "create" /\ Proper(req)
  BY Requests
<1> HIDE DEF req
<1>3. QED
  BY <1>1, <1>2, RequestKeeps, FailKeeps

LEMMA DeriveDraftKeeps ==
  ASSUME NEW a, NEW S, NEW rs \in Seq(S), Heard(S)
  PROVE  Keeps(DeriveDraft(a, rs), {"derive", "patch"}, S)
<1> DEFINE ask == Request(Derive(MessageID(a)), rs)
           req == Patch("message", ask.value.id, [tag |-> TRUE])
           tag == Try(req, ask.rest)
<1>1. DeriveDraft(a, rs) =
        IF Bad(a, "shape") \/ MessageID(a) = 0 THEN Fail("argument", rs)
        ELSE IF ask.next # "done" THEN ask
        ELSE IF ~ProvenanceTag THEN Done(ask.value, ask.rest)
        ELSE IF tag.next # "done" THEN tag ELSE Done(ask.value, tag.rest)
  BY DEF DeriveDraft, Then
<1>2. Keeps(ask, {"derive", "patch"}, S)
  BY Requests, RequestKeeps
<1>3. req.op = "patch" /\ Proper(req)
  <2>1. "in" \notin DOMAIN [tag |-> TRUE]
    OBVIOUS
  <2>2. QED
    BY <2>1, Requests
<1> HIDE DEF ask, req
<1>4. ask.next = "done" => ask.rest \in Seq(S)
  BY <1>2 DEF Keeps
<1>5. ask.next = "done" => Keeps(tag, {"derive", "patch"}, S)
  BY <1>3, <1>4, TryKeeps
<1> HIDE DEF tag
<1>6. ask.next = "done" /\ tag.next = "done" => tag.rest \in Seq(S)
  BY <1>5 DEF Keeps
<1>7. QED
  BY <1>1, <1>2, <1>4, <1>5, <1>6, FailKeeps, DoneKeeps

LEMMA VerifyKeeps ==
  ASSUME NEW id, NEW S, NEW rs \in Seq(S), Heard(S)
  PROVE  Keeps(VerifyIsDraft(id, rs), Reading, S)
<1> DEFINE ask == Request(Get("message", id), rs)
<1>1. VerifyIsDraft(id, rs) =
        IF ask.next # "done" THEN ask
        ELSE IF ask.value.is_draft THEN Done(ask.value, ask.rest) ELSE Fail("not a draft", ask.rest)
  BY DEF VerifyIsDraft, Then
<1>2. Keeps(ask, Reading, S)
  BY WellAsked, RequestKeeps DEF Reading
<1> HIDE DEF ask
<1>3. ask.next = "done" => ask.rest \in Seq(S)
  BY <1>2 DEF Keeps
<1>4. QED
  BY <1>1, <1>2, <1>3, FailKeeps, DoneKeeps

LEMMA UpdateDraftKeeps ==
  ASSUME NEW a, NEW S, NEW rs \in Seq(S), Heard(S)
  PROVE  Keeps(UpdateDraft(a, rs), Reading \cup {"patch"}, S)
<1> DEFINE seen == VerifyIsDraft(MessageID(a), rs)
           req  == Patch("message", MessageID(a), Given(a, DraftFields))
           set  == Request(req, seen.rest)
<1>1. UpdateDraft(a, rs) =
        IF Bad(a, "shape") \/ MessageID(a) = 0 THEN Fail("argument", rs)
        ELSE IF seen.next # "done" THEN seen
        ELSE IF Bad(a, "value") \/ DOMAIN a \cap DraftFields = {} THEN Fail("argument", seen.rest)
        ELSE set
  BY DEF UpdateDraft, Then
<1>2. req.op = "patch" /\ Proper(req)
  <2>1. "in" \notin DOMAIN Given(a, DraftFields)
    BY GivenFields DEF DraftFields
  <2>2. QED
    BY <2>1, Requests
<1>3. Keeps(seen, Reading \cup {"patch"}, S)
  BY VerifyKeeps, MoreKinds
<1> HIDE DEF seen, req
<1>4. seen.next = "done" => seen.rest \in Seq(S)
  BY <1>3 DEF Keeps
<1>5. seen.next = "done" => Keeps(set, Reading \cup {"patch"}, S)
  BY <1>2, <1>4, RequestKeeps
<1> HIDE DEF set
<1>6. QED
  BY <1>1, <1>3, <1>4, <1>5, FailKeeps

LEMMA DeleteDraftKeeps ==
  ASSUME NEW a, NEW S, NEW rs \in Seq(S), Heard(S)
  PROVE  Keeps(DeleteDraft(a, rs), Reading \cup {"delete"}, S)
<1> DEFINE seen == VerifyIsDraft(MessageID(a), rs)
           req  == Delete("message", ById(MessageID(a)))
           drop == Request(req, seen.rest)
<1>1. DeleteDraft(a, rs) =
        IF Bad(a, "shape") \/ MessageID(a) = 0 THEN Fail("argument", rs)
        ELSE IF seen.next # "done" THEN seen ELSE drop
  BY DEF DeleteDraft, Then
<1>2. req.op = "delete" /\ Proper(req)
  BY Requests
<1>3. Keeps(seen, Reading \cup {"delete"}, S)
  BY VerifyKeeps, MoreKinds
<1> HIDE DEF seen, req
<1>4. seen.next = "done" => seen.rest \in Seq(S)
  BY <1>3 DEF Keeps
<1>5. seen.next = "done" => Keeps(drop, Reading \cup {"delete"}, S)
  BY <1>2, <1>4, RequestKeeps
<1> HIDE DEF drop
<1>6. QED
  BY <1>1, <1>3, <1>5, FailKeeps

\* Folders.
LEMMA CreateFolderKeeps ==
  ASSUME NEW a, WellTyped(a), NEW S, NEW rs \in Seq(S), Heard(S)
  PROVE  Keeps(CreateFolder(a, rs), Reading \cup {"create"}, S)
<1> DEFINE name  == Arg(a, "display_name", <<>>)
           place == ResolveFolderParam(Arg(a, "parent", NoRef), rs)
           req   == Create(place.value.at, [kind |-> "folder", name |-> name, hidden |-> FALSE])
           make  == Request(req, place.rest)
<1>1. CreateFolder(a, rs) =
        IF name = <<>> \/ Bad(a, "shape") THEN Fail("argument", rs)
        ELSE IF place.next # "done" THEN place ELSE make
  BY DEF CreateFolder, Then
<1>2. req.op = "create" /\ Proper(req)
  BY Requests
<1>3. Keeps(place, Reading \cup {"create"}, S)
  BY Folders, ParamKeeps, MoreKinds
<1> HIDE DEF place, req, name
<1>4. place.next = "done" => place.rest \in Seq(S)
  BY <1>3 DEF Keeps
<1>5. place.next = "done" => Keeps(make, Reading \cup {"create"}, S)
  BY <1>2, <1>4, RequestKeeps
<1> HIDE DEF make
<1>6. QED
  BY <1>1, <1>3, <1>5, FailKeeps

LEMMA DeleteFolderKeeps ==
  ASSUME NEW a, WellTyped(a), NEW S, NEW rs \in Seq(S), Heard(S)
  PROVE  Keeps(DeleteFolder(a, rs), Reading \cup {"delete"}, S)
<1> DEFINE ref   == Arg(a, "folder", NoRef)
           place == ResolveFolderRef(ref, FALSE, rs)
           req   == Delete("folder", place.value.at)
           drop  == Request(req, place.rest)
<1>1. DeleteFolder(a, rs) =
        IF ref = NoRef \/ Bad(a, "shape") THEN Fail("argument", rs)
        ELSE IF place.next # "done" THEN place ELSE drop
  BY DEF DeleteFolder, Then
<1>2. req.op = "delete" /\ Proper(req)
  BY Requests
<1>3. ref # NoRef => Keeps(place, Reading \cup {"delete"}, S)
  BY Folders, RefKeeps, MoreKinds
<1> HIDE DEF ref, place, req
<1>4. ref # NoRef /\ place.next = "done" => place.rest \in Seq(S)
  BY <1>3 DEF Keeps
<1>5. ref # NoRef /\ place.next = "done" => Keeps(drop, Reading \cup {"delete"}, S)
  BY <1>2, <1>4, RequestKeeps
<1> HIDE DEF drop
<1>6. QED
  BY <1>1, <1>3, <1>5, FailKeeps

LEMMA Destination ==
  ASSUME NEW a, WellTyped(a), Arg(a, "destination", NoRef) # NoRef
  PROVE  a.destination \in References /\ a.destination # NoRef
BY DEF Arg, WellTyped

LEMMA MoveMessageKeeps ==
  ASSUME NEW a, WellTyped(a), NEW S, NEW rs \in Seq(S), Heard(S)
  PROVE  Keeps(MoveMessage(a, rs), Reading \cup {"move"}, S)
<1> DEFINE place == ResolveFolderRef(a.destination, FALSE, rs)
           req   == Move(MessageID(a), place.value.at)
           move  == Request(req, place.rest)
           wrong == Bad(a, "shape") \/ MessageID(a) = 0 \/ Arg(a, "destination", NoRef) = NoRef
<1>1. MoveMessage(a, rs) =
        IF wrong THEN Fail("argument", rs) ELSE IF place.next # "done" THEN place ELSE move
  BY DEF MoveMessage, Then
<1>2. req.op = "move" /\ Proper(req)
  BY Requests
<1>3. ~wrong => Keeps(place, Reading \cup {"move"}, S)
  BY Destination, RefKeeps, MoreKinds
<1> HIDE DEF wrong, place, req
<1>4. ~wrong /\ place.next = "done" => place.rest \in Seq(S)
  BY <1>3 DEF Keeps
<1>5. ~wrong /\ place.next = "done" => Keeps(move, Reading \cup {"move"}, S)
  BY <1>2, <1>4, RequestKeeps
<1> HIDE DEF move
<1>6. QED
  BY <1>1, <1>3, <1>5, FailKeeps

LEMMA MoveMessagesKeeps ==
  ASSUME NEW a, WellTyped(a), NEW S, NEW rs \in Seq(S), Heard(S)
  PROVE  Keeps(MoveMessages(a, rs), Reading \cup {"move"}, S)
<1> DEFINE ids   == ParseMessageIDs(Arg(a, "message_ids", <<>>))
           place == ResolveFolderRef(a.destination, FALSE, rs)
           batch == MoveEach(ids, place.value.at, place.rest)
           wrong == Bad(a, "shape") \/ Len(ids) \notin 1..MaxBatch \/ Arg(a, "destination", NoRef) = NoRef
           some  == \E k \in DOMAIN batch.value : batch.value[k].how = "ok"
           why   == IF \E k \in DOMAIN batch.value : batch.value[k].how = "auth" THEN "auth"
                    ELSE "none moved"
<1>1. MoveMessages(a, rs) =
        IF wrong THEN Fail("argument", rs)
        ELSE IF place.next # "done" THEN place
        ELSE IF batch.next # "done" THEN batch
        ELSE IF some THEN Done(batch.value, batch.rest) ELSE Fail(why, batch.rest)
  BY DEF MoveMessages, Then
<1>2. ~wrong => Keeps(place, Reading \cup {"move"}, S)
  BY Destination, RefKeeps, MoreKinds
<1>3. ~wrong => Len(ids) \in Nat
  OBVIOUS
<1>4. why # "no account selected"
  OBVIOUS
<1> HIDE DEF wrong, place, ids, why
<1>5. ~wrong /\ place.next = "done" => place.rest \in Seq(S)
  BY <1>2 DEF Keeps
<1>6. ~wrong /\ place.next = "done" => Keeps(batch, {"move"}, S)
  BY <1>3, <1>5, MovesKeep
<1> HIDE DEF batch, some
<1>7. ~wrong /\ place.next = "done" => Keeps(batch, Reading \cup {"move"}, S)
  BY <1>6, MoreKinds
<1>8. ~wrong /\ place.next = "done" /\ batch.next = "done" => batch.rest \in Seq(S)
  BY <1>6 DEF Keeps
<1>9. QED
  BY ZenonT(60), <1>1, <1>2, <1>4, <1>7, <1>8, FailKeeps, DoneKeeps

\* Events.
LEMMA ViewIsListing ==
  \A in, w, filter, top :
    CalendarView(in, w, filter, top).op = "list" /\ "op" \in DOMAIN CalendarView(in, w, filter, top)
<1> TAKE in, w, filter, top
<1> DEFINE list == Listing("event", in, filter, "start", top)
           span == [from |-> Instant(w.from), to |-> Instant(w.to)]
<1>1. "op" \in DOMAIN list /\ list.op = "list"
  BY WellAsked
<1>2. DOMAIN span = {"from", "to"}
  OBVIOUS
<1>3. CalendarView(in, w, filter, top) = With(list, span)
  BY DEF CalendarView
<1> HIDE DEF list, span
<1>4. "op" \in DOMAIN With(list, span) /\ With(list, span)["op"] = list["op"]
  BY <1>1, <1>2 DEF With
<1>5. QED
  BY <1>1, <1>3, <1>4

LEMMA ListEventsKeeps ==
  ASSUME NEW a, NEW S, NEW rs \in Seq(S), Heard(S)
  PROVE  Keeps(ListEvents(a, rs), Reading, S)
<1> DEFINE limit == Clamp(Arg(a, "max_results", 0), MaxList, DefaultList)
           req   == CalendarView(ById(Arg(a, "calendar_id", 0)), Window(a), <<>>, limit)
           pages == IteratePages(req, limit, Everything, rs)
<1>1. ListEvents(a, rs) =
        IF Bad(a, "shape") \/ NoTime \in {Window(a).from, Window(a).to} THEN Fail("argument", rs)
        ELSE pages
  BY DEF ListEvents, InWindow
<1>2. req.op = "list" /\ "op" \in DOMAIN req
  BY ViewIsListing
<1> HIDE DEF req
<1>3. Keeps(pages, {"list"}, S)
  BY <1>2, PagesKeep
<1> HIDE DEF pages
<1>4. Keeps(pages, Reading, S)
  BY <1>3, MoreKinds DEF Reading
<1>5. QED
  BY <1>1, <1>4, FailKeeps

LEMMA GetFreeBusyKeeps ==
  ASSUME NEW a, NEW S, NEW rs \in Seq(S), Heard(S)
  PROVE  Keeps(GetFreeBusy(a, rs), Reading, S)
<1> DEFINE limit == PageSize["event"] * (Len(rs) + 1)
           req   == CalendarView(Mailbox, Window(a), <<>>, MaxList)
           pages == IteratePages(req, limit, Everything, rs)
           busy  == SelectSeq(pages.value, LAMBDA event : event.show_as # "free")
<1>1. GetFreeBusy(a, rs) =
        IF Bad(a, "shape") \/ NoTime \in {Window(a).from, Window(a).to} THEN Fail("argument", rs)
        ELSE IF pages.next # "done" THEN pages ELSE Done(busy, pages.rest)
  BY DEF GetFreeBusy, InWindow, Then
<1>2. req.op = "list" /\ "op" \in DOMAIN req
  BY ViewIsListing
<1> HIDE DEF req
<1>3. Keeps(pages, {"list"}, S)
  BY <1>2, PagesKeep
<1> HIDE DEF pages, busy
<1>4. Keeps(pages, Reading, S)
  BY <1>3, MoreKinds DEF Reading
<1>5. pages.next = "done" => pages.rest \in Seq(S)
  BY <1>3 DEF Keeps
<1>6. QED
  BY <1>1, <1>4, <1>5, FailKeeps, DoneKeeps

LEMMA SearchEventsKeeps ==
  ASSUME NEW a, NEW S, NEW rs \in Seq(S), Heard(S)
  PROVE  Keeps(SearchEvents(a, rs), Reading, S)
<1> DEFINE query == Arg(a, "query", "")
           limit == Clamp(Arg(a, "max_results", 0), MaxList, DefaultList)
           top   == IF query # "" /\ limit < SearchPageSize THEN SearchPageSize ELSE limit
           req   == CalendarView(Mailbox, SearchWindow(a), SearchFilter(a), top)
           pages == IteratePages(req, limit, BuildClientFilter(query), rs)
<1>1. SearchEvents(a, rs) = IF Bad(a, "shape") THEN Fail("argument", rs) ELSE pages
  BY DEF SearchEvents, ExecuteSearchCalendarView
<1>2. req.op = "list" /\ "op" \in DOMAIN req
  BY ViewIsListing
<1> HIDE DEF req
<1>3. Keeps(pages, {"list"}, S)
  BY <1>2, PagesKeep
<1> HIDE DEF pages
<1>4. Keeps(pages, Reading, S)
  BY <1>3, MoreKinds DEF Reading
<1>5. QED
  BY <1>1, <1>4, FailKeeps

LEMMA GetEventKeeps ==
  ASSUME NEW a, NEW S, NEW rs \in Seq(S), Heard(S)
  PROVE  Keeps(GetEvent(a, rs), Reading, S)
BY WellAsked, RequestKeeps, FailKeeps DEF GetEvent, Reading

LEMMA ListCalendarsKeeps ==
  ASSUME NEW a, NEW S, NEW rs \in Seq(S), Heard(S)
  PROVE  Keeps(ListCalendars(a, rs), Reading, S)
<1> DEFINE req == Listing("calendar", Mailbox, <<>>, "any", PageSize["calendar"])
           ask == Request(req, rs)
<1>1. ListCalendars(a, rs) =
        IF Bad(a, "shape") THEN Fail("argument", rs)
        ELSE IF ask.next # "done" THEN ask ELSE Done(ask.value.items, ask.rest)
  BY DEF ListCalendars, Then
<1>2. req.op \in Reading /\ Proper(req)
  BY WellAsked DEF Reading
<1> HIDE DEF req
<1>3. Keeps(ask, Reading, S)
  BY <1>2, RequestKeeps
<1> HIDE DEF ask
<1>4. ask.next = "done" => ask.rest \in Seq(S)
  BY <1>3 DEF Keeps
<1>5. QED
  BY <1>1, <1>3, <1>4, FailKeeps, DoneKeeps

LEMMA HandleCreateEventKeeps ==
  ASSUME NEW a, NEW S, NEW rs \in Seq(S), Heard(S)
  PROVE  Keeps(HandleCreateEvent(a, rs), {"create"}, S)
<1> DEFINE start == Arg(a, "start_datetime", NoTime)
           end   == Arg(a, "end_datetime", ComputeDefaultEndTime(start, Arg(a, "is_all_day", FALSE)))
           times == [start  |-> EventTime(start, Zone(a, "start_timezone")),
                     finish |-> EventTime(end, Zone(a, "end_timezone"))]
           req   == Create(ById(Arg(a, "calendar_id", 0)),
                           With(With(BlankEvent, Given(a, EventFields)), times))
<1>1. HandleCreateEvent(a, rs) =
        IF Bad(a, "shape") \/ "subject" \notin DOMAIN a \/ NoTime \in {start, end}
        THEN Fail("argument", rs) ELSE Request(req, rs)
  BY DEF HandleCreateEvent
<1>2. req.op = "create" /\ Proper(req)
  BY Requests
<1> HIDE DEF req, start, end
<1>3. QED
  BY <1>1, <1>2, RequestKeeps, FailKeeps

LEMMA EventPatchKeepsPlace ==
  ASSUME NEW a
  PROVE  "in" \notin DOMAIN EventPatch(a)
<1> DEFINE starts == IF "start_datetime" \notin DOMAIN a THEN <<>>
                     ELSE [start |-> EventTime(a.start_datetime, Zone(a, "start_timezone"))]
           ends   == IF "end_datetime" \notin DOMAIN a THEN <<>>
                     ELSE [finish |-> EventTime(a.end_datetime, Zone(a, "end_timezone"))]
           given  == Given(a, EventFields)
<1>1. EventPatch(a) = With(With(given, ends), starts)
  BY DEF EventPatch
<1>2. "in" \notin DOMAIN given
  BY GivenFields DEF EventFields
<1>3. "in" \notin DOMAIN starts /\ "in" \notin DOMAIN ends
  OBVIOUS
<1> HIDE DEF given, starts, ends
<1>4. "in" \notin DOMAIN With(given, ends)
  BY <1>2, <1>3 DEF With
<1>5. QED
  BY <1>1, <1>3, <1>4 DEF With

LEMMA HandleUpdateEventKeeps ==
  ASSUME NEW a, NEW S, NEW rs \in Seq(S), Heard(S)
  PROVE  Keeps(HandleUpdateEvent(a, rs), {"patch"}, S)
<1> DEFINE req == Patch("event", EventID(a), EventPatch(a))
<1>1. HandleUpdateEvent(a, rs) =
        IF Bad(a, "shape") \/ EventID(a) = 0 THEN Fail("argument", rs) ELSE Request(req, rs)
  BY DEF HandleUpdateEvent
<1>2. req.op = "patch" /\ Proper(req)
  BY Requests, EventPatchKeepsPlace
<1> HIDE DEF req
<1>3. QED
  BY <1>1, <1>2, RequestKeeps, FailKeeps

LEMMA HandleRescheduleEventKeeps ==
  ASSUME NEW a, NEW S, NEW rs \in Seq(S), Heard(S)
  PROVE  Keeps(HandleRescheduleEvent(a, rs), Reading \cup {"patch"}, S)
<1> DEFINE start == Arg(a, "new_start_datetime", NoTime)
           zone  == Zone(a, "new_start_timezone")
           seen  == Request(Get("event", EventID(a)), rs)
           end   == AddDuration(start, ComputeEventDuration(seen.value))
           times == [start |-> EventTime(start, zone), finish |-> EventTime(end, zone)]
           req   == Patch("event", EventID(a), times)
           set   == Request(req, seen.rest)
<1>1. HandleRescheduleEvent(a, rs) =
        IF Bad(a, "shape") \/ EventID(a) = 0 \/ start = NoTime THEN Fail("argument", rs)
        ELSE IF seen.next # "done" THEN seen
        ELSE IF end = NoTime THEN Fail("argument", seen.rest) ELSE set
  BY DEF HandleRescheduleEvent, Then
<1>2. req.op = "patch" /\ Proper(req)
  <2>1. "in" \notin DOMAIN times
    OBVIOUS
  <2>2. QED
    BY <2>1, Requests
<1>3. Keeps(seen, Reading \cup {"patch"}, S)
  BY WellAsked, RequestKeeps DEF Reading
<1> HIDE DEF seen, req, start, end
<1>4. seen.next = "done" => seen.rest \in Seq(S)
  BY <1>3 DEF Keeps
<1>5. seen.next = "done" => Keeps(set, Reading \cup {"patch"}, S)
  BY <1>2, <1>4, RequestKeeps
<1> HIDE DEF set
<1>6. QED
  BY <1>1, <1>3, <1>4, <1>5, FailKeeps

LEMMA HandleDeleteEventKeeps ==
  ASSUME NEW a, NEW S, NEW rs \in Seq(S), Heard(S)
  PROVE  Keeps(HandleDeleteEvent(a, rs), {"delete"}, S)
BY Requests, RequestKeeps, FailKeeps DEF HandleDeleteEvent

LEMMA HandleCancelEventKeeps ==
  ASSUME NEW a, NEW S, NEW rs \in Seq(S), Heard(S)
  PROVE  Keeps(HandleCancelEvent(a, rs), {"cancel"}, S)
BY Requests, RequestKeeps, FailKeeps DEF HandleCancelEvent

LEMMA HandleRespondEventKeeps ==
  ASSUME NEW a, NEW S, NEW rs \in Seq(S), Heard(S)
  PROVE  Keeps(HandleRespondEvent(a, rs), {"act"}, S)
<1> DEFINE req == Act(EventID(a), [response |-> a.response], Arg(a, "send_response", TRUE))
           wrong == Bad(a, "shape") \/ EventID(a) = 0
                    \/ Arg(a, "response", "") \notin {"accept", "tentative", "decline"}
<1>1. HandleRespondEvent(a, rs) = IF wrong THEN Fail("argument", rs) ELSE Request(req, rs)
  BY DEF HandleRespondEvent
<1>2. req.op = "act" /\ Proper(req)
  <2>1. "in" \notin DOMAIN [response |-> a.response]
    OBVIOUS
  <2>2. QED
    BY <2>1, Requests
<1> HIDE DEF req, wrong
<1>3. QED
  BY <1>1, <1>2, RequestKeeps, FailKeeps
================================================================================
