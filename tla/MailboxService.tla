---------------------------- MODULE MailboxService ----------------------------
(***************************************************************************)
(* Microsoft Graph as the verbs use it: one mailbox with folders, messages *)
(* and their attachments, calendars and events, and the effect and reply   *)
(* of one request.  None of it is code of the server; it is the part of    *)
(* the Graph documentation that the handlers rely on.                      *)
(***************************************************************************)
EXTENDS GraphCalls

\* A mailbox: items by ID, the next ID, the folders behind the well-known
\* keys, and the number of mails sent to other people.
Ids(box)         == DOMAIN box.items
IsA(box, id, k)  == id \in Ids(box) /\ box.items[id].kind = k
Target(box, at)  == IF at.key = "" THEN at.id ELSE box.alias[at.key]
Children(box, id) == {i \in Ids(box) : box.items[i].in = id}
SubFolders(box, id) == {i \in Children(box, id) : box.items[i].kind = "folder"}

\* An item and the folders it is in, from the inside out.
Above(box, id) ==
  LET folders == {i \in Ids(box) : box.items[i].kind = "folder"}
      up[n \in 0..(Cardinality(folders) + 1)] ==
        IF n = 0 THEN id
        ELSE LET in == up[n - 1] IN IF in = 0 THEN 0 ELSE box.items[in].in
  IN {up[n] : n \in DOMAIN up} \ {0}

Subtree(box, id) == {i \in Ids(box) : id \in Above(box, i)}

\* Graph gives every item a new ID, and every item is in some place.
Consistent(box) ==
  /\ DOMAIN box = {"items", "next", "alias", "calendar", "mails"}
  /\ box.next \in Nat /\ box.calendar \in Nat /\ box.mails \in Nat
  /\ {"drafts"} \cup DOMAIN WellKnown \subseteq DOMAIN box.alias
  /\ \A k \in DOMAIN box.alias : box.alias[k] \in Nat /\ box.alias[k] < box.next
  /\ IsFiniteSet(Ids(box)) /\ \A i \in Ids(box) : i \in Nat /\ i < box.next
  /\ \A i \in Ids(box) : "in" \in DOMAIN box.items[i] /\ box.items[i].in \in Nat

\* What Graph says of an item: of a folder its name, of a message whether it is
\* a draft, of an event when it is.
Described(item) ==
  /\ "kind" \in DOMAIN item
  /\ item.kind = "folder" => "name" \in DOMAIN item
  /\ item.kind = "message" => "is_draft" \in DOMAIN item
  /\ item.kind = "event" =>
       {"start", "finish"} \subseteq DOMAIN item /\ item.start \in Int /\ item.finish \in Int

-------------------------------------------------------------------------------
(* Reading. *)

View(box, i) ==
  LET item == With(box.items[i], [id |-> i])
  IN IF item.kind = "folder"
     THEN With(item, [subfolders |-> Cardinality(SubFolders(box, i))]) ELSE item

\* Folders are listed level by level, messages of the whole mailbox at once,
\* events from the default calendar; hidden folders never.
InScope(box, req, i) ==
  LET item == box.items[i]
  IN /\ item.kind = req.kind
     /\ IF req.in # Mailbox THEN item.in = Target(box, req.in)
        ELSE /\ req.kind = "folder" => item.in = 0
             /\ req.kind = "event"  => item.in = box.calendar
     /\ item.kind = "folder" => ~item.hidden
     /\ Matches(item, req.filter)
     /\ "from" \in DOMAIN req => item.start < req.to /\ item.finish > req.from

Before(box, order, i, j) ==
  CASE order = "newest" -> LET s == box.items[i].stamp t == box.items[j].stamp
                           IN s > t \/ (s = t /\ i < j)
    [] order = "start"  -> LET s == box.items[i].start t == box.items[j].start
                           IN s < t \/ (s = t /\ i < j)
    [] OTHER            -> i < j

\* The item of S that n others come before.
Ranked(box, order, S, n) ==
  CHOOSE i \in S : Cardinality({j \in S : Before(box, order, j, i)}) = n

Page(box, req) ==
  LET all   == {i \in Ids(box) : InScope(box, req, i)}
      upTo  == Min({Cardinality(all), req.skip + Min({req.top, PageSize[req.kind]})})
  IN [items |-> [k \in 1..(upTo - req.skip) |->
                   View(box, Ranked(box, req.order, all, req.skip + k - 1))],
      skip  |-> IF upTo < Cardinality(all) THEN upTo ELSE 0]

-------------------------------------------------------------------------------
(* Writing: the mailbox after the request, if Graph accepts it. *)

HasGuests(item) == item.kind = "event" /\ item.attendees
Notify(box, yes) == [box EXCEPT !.mails = @ + (IF yes THEN 1 ELSE 0)]

Put(box, id, item) == [box EXCEPT !.items = [i \in Ids(box) \cup {id} |-> IF i = id THEN item ELSE box.items[i]]]
Add(box, item)     == [Put(box, box.next, item) EXCEPT !.next = @ + 1]
New(box, item)     == Add(box, With(item, [stamp |-> box.next]))
Drop(box, ids)     == [box EXCEPT !.items = [i \in Ids(box) \ ids |-> box.items[i]]]

Sound(item) == item.kind = "event" => item.start <= item.finish

Accepts(box, req) ==
  CASE req.op = "list" ->
         /\ Target(box, req.in) \in Ids(box) \cup {0}
         /\ "from" \in DOMAIN req => req.from <= req.to
    [] req.op = "create" ->
         /\ Target(box, req.in) \in Ids(box) \cup {0}
         /\ Sound(req.item)
         /\ req.item.kind = "folder" =>
              \A i \in SubFolders(box, Target(box, req.in)) : box.items[i].name # req.item.name
    [] OTHER ->
         /\ IsA(box, Target(box, req.at), req.kind)
         /\ req.op = "delete" /\ req.kind = "folder" =>
              \A k \in DOMAIN box.alias : box.alias[k] # Target(box, req.at)
         /\ req.op = "patch" => Sound(With(box.items[req.at.id], req.fields))
         /\ req.op = "derive" => ~box.items[req.at.id].is_draft
         /\ req.op = "move"   => IsA(box, Target(box, req.to), "folder")

HomeOf(box, req) ==
  IF req.in # Mailbox THEN Target(box, req.in)
  ELSE CASE req.item.kind = "event"   -> box.calendar
         [] req.item.kind = "message" -> box.alias["drafts"]
         [] OTHER                     -> 0

Effect(box, req) ==
  CASE req.op \in {"get", "list"} -> box
    [] req.op = "create" ->
         Notify(New(box, With(req.item, [in |-> HomeOf(box, req)])), HasGuests(req.item))
    [] req.op = "derive" ->
         Add(box, [box.items[req.at.id] EXCEPT !.is_draft = TRUE, !.tag = FALSE, !.stamp = box.next,
                                               !.in = box.alias["drafts"]])
    [] req.op = "move" ->
         LET moved == Add(box, [box.items[req.at.id] EXCEPT !.in = Target(box, req.to)])
         IN Drop([moved EXCEPT !.items = [i \in Ids(moved) |->
                    IF moved.items[i].in = req.at.id THEN [moved.items[i] EXCEPT !.in = box.next]
                    ELSE moved.items[i]]],
                 {req.at.id})
    [] req.op \in {"delete", "cancel"} ->
         Notify(Drop(box, Subtree(box, Target(box, req.at))),
                HasGuests(box.items[Target(box, req.at)]))
    [] req.op = "patch" ->
         LET new == With(box.items[req.at.id], req.fields)
         IN Notify(Put(box, req.at.id, new), HasGuests(new))
    [] OTHER ->
         Notify(Put(box, req.at.id, With(box.items[req.at.id], req.fields)), req.mail)

Reply(box, req) ==
  IF ~Accepts(box, req) THEN [ok |-> FALSE, value |-> "refused"]
  ELSE [ok |-> TRUE,
        value |-> CASE req.op = "list"                       -> Page(box, req)
                    [] req.op = "get"                        -> View(box, Target(box, req.at))
                    [] req.op \in {"create", "derive", "move"} -> [id |-> box.next]
                    [] OTHER                                 -> [id |-> Target(box, req.at)]]
===============================================================================
