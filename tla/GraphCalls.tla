------------------------------ MODULE GraphCalls ------------------------------
(***************************************************************************)
(* What the verbs ask of Microsoft Graph, what Graph does with it, and how *)
(* a handler is written down.                                              *)
(*                                                                         *)
(* A handler is an operator of the call's arguments and of the replies it  *)
(* has had so far.  It yields the request it makes next, a failure, or the *)
(* text of its answer; ToolServer sends the requests, one attempt at a     *)
(* time, and comes back with the replies.                                  *)
(***************************************************************************)
EXTENDS Integers, Sequences, FiniteSets, SequencesExt, FiniteSetsExt, TLC

CONSTANTS
  Fold,        \* part of a folder name -> the same in lower case
  WellKnown,   \* well-known folder key -> its label (wellKnownFolderLabels)
  PageSize,    \* kind -> most items Graph puts on one page, whatever $top asks
  ProvenanceTag, \* is tagging configured (provenancePropertyID # "")?
  DefaultList, \* results of a listing without max_results
  MaxList      \* most results of a listing of messages or events

ASSUME PageSizeAssumption ==
  "folder" \in DOMAIN PageSize /\ \A k \in DOMAIN PageSize : PageSize[k] \in Nat \ {0}
ASSUME WellKnownAssumption == "" \notin DOMAIN WellKnown

-------------------------------------------------------------------------------
(* Steps of a handler: rest is what is left of the replies. *)

Ask(req)        == [next |-> "ask", req |-> req]
Fail(why, rest) == [next |-> "fail", value |-> why, rest |-> rest]
Done(v, rest)   == [next |-> "done", value |-> v, rest |-> rest]

\* RetryGraphCall around one request, with or without an early return on error.
Try(req, got) == IF got = <<>> THEN Ask(req) ELSE Done(Head(got), Tail(got))

Then(step, K(_, _)) == IF step.next = "done" THEN K(step.value, step.rest) ELSE step

Request(req, got) ==
  Then(Try(req, got), LAMBDA reply, rest :
    IF reply.ok THEN Done(reply.value, rest) ELSE Fail(reply.value, rest))

-------------------------------------------------------------------------------
(* Arguments: a function from the names of the parameters the client gave.
   "bad" stands for a text that a validation refuses: one made before the
   first request ("shape"), or one made after some reply ("value"). *)

Arg(a, name, absent) == IF name \in DOMAIN a THEN a[name] ELSE absent
Given(a, names)      == [p \in DOMAIN a \cap names |-> a[p]]

\* An item with some fields set.
With(item, fields) ==
  [f \in DOMAIN item \cup DOMAIN fields |-> IF f \in DOMAIN fields THEN fields[f] ELSE item[f]]
Bad(a, when)         == Arg(a, "bad", "") = when

-------------------------------------------------------------------------------
(* Requests.  A folder is addressed by its ID or by a well-known key; ID 0
   stands for "missing" in arguments and for the mailbox itself as a parent. *)

ById(n)  == [key |-> "", id |-> n]
ByKey(k) == [key |-> k, id |-> 0]
Mailbox  == ById(0)

\* Fields the items of a listing must have; the empty record asks for all.
Matches(item, filter) == \A f \in DOMAIN filter : item[f] = filter[f]

Listing(kind, in, filter, order, top) ==
  [op |-> "list", kind |-> kind, in |-> in, filter |-> filter, order |-> order,
   top |-> top, skip |-> 0]
Get(kind, id)       == [op |-> "get", kind |-> kind, at |-> ById(id)]
Create(in, item)    == [op |-> "create", in |-> in, item |-> item]
Patch(kind, id, fs) == [op |-> "patch", kind |-> kind, at |-> ById(id), fields |-> fs]
Delete(kind, at)    == [op |-> "delete", kind |-> kind, at |-> at]
Move(id, to)        == [op |-> "move", kind |-> "message", at |-> ById(id), to |-> to]
Derive(id)          == [op |-> "derive", kind |-> "message", at |-> ById(id)]
Cancel(id)          == [op |-> "cancel", kind |-> "event", at |-> ById(id)]
Act(id, fs, mail)   == [op |-> "act", kind |-> "event", at |-> ById(id),
                        fields |-> fs, mail |-> mail]

\* Below the range means absent.
Clamp(value, most, fallback) ==
  IF value < 1 THEN fallback ELSE IF value > most THEN most ELSE value

\* The page iterator of the Graph library: it follows the next-page links
\* itself, outside RetryGraphCall, until the callback has what it wants.  keep
\* are the fields of the items that the callback takes.
Everything == <<>>
Once(req)  == With(req, [once |-> TRUE])
Wanted(items, keep) == SelectSeq(items, LAMBDA item : Matches(item, keep))

\* mutants: the callback never asks for another page; or goes one item too far
FirstPageOnly(page, found, limit) == TRUE
OneItemMore(page, found, limit) == page.skip = 0 \/ found > limit

\* Nothing follows the page, or it has brought what was missing.
LastPage(page, found, limit) == page.skip = 0 \/ found >= limit

NextPage(req, limit, keep, step) ==
  LET more(page, rest) ==
        Then(Request(Once([req EXCEPT !.skip = page.skip]), rest),
             LAMBDA p, r : Done([p EXCEPT !.items = page.items \o p.items], r))
  IN Then(step, LAMBDA page, rest :
       IF LastPage(page, Len(Wanted(page.items, keep)), limit)
       THEN Done(page, rest) ELSE more(page, rest))

IteratePages(req, limit, keep, got) ==
  LET upTo[n \in 0..Len(got)] ==
        IF n = 0 THEN Request(req, got) ELSE NextPage(req, limit, keep, upTo[n - 1])
  IN Then(upTo[Len(got)], LAMBDA page, rest :
       LET found == Wanted(page.items, keep)
       IN Done(SubSeq(found, 1, Min({limit, Len(found)})), rest))
===============================================================================
