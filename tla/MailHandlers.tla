----------------------------- MODULE MailHandlers -----------------------------
(***************************************************************************)
(* The mail verbs: reading messages and threads, drafts, and moves.        *)
(*                                                                         *)
(* A message carries the fields that the verbs filter on or change, under  *)
(* the names of the parameters.                                            *)
(***************************************************************************)
EXTENDS FolderHandlers

CONSTANTS
  DefaultThread,   \* results of get_conversation without max_results
  MaxAttachment,   \* most bytes of an attachment
  MaxBatch         \* maxMoveMessageIDs

-------------------------------------------------------------------------------
(* Reading. *)

MessageID(a) == Arg(a, "message_id", 0)

FilterParams == {"start_datetime", "end_datetime", "from", "conversation_id", "is_read",
                 "is_draft", "has_attachments", "importance", "flag_status"}

BuildMessageFilter(a) ==
  With(IF Arg(a, "provenance", FALSE) THEN [tag |-> TRUE] ELSE <<>>, Given(a, FilterParams))

\* Graph refuses to sort by date while it filters on these.
FilterRequiresNoOrderby(filter) ==
  {"flag_status", "conversation_id", "has_attachments"} \cap DOMAIN filter # {}

ListMessages(a, got) ==
  IF Bad(a, "shape") THEN Fail("argument", got)
  ELSE Then(ResolveFolderParam(Arg(a, "folder", NoRef), got), LAMBDA place, rest :
    IF Bad(a, "value") \/ (Arg(a, "provenance", FALSE) /\ ~ProvenanceTag) THEN Fail("argument", rest)
    ELSE LET filter == BuildMessageFilter(a)
             limit  == Clamp(Arg(a, "max_results", 0), MaxList, DefaultList)
             order  == IF FilterRequiresNoOrderby(filter) THEN "any" ELSE "newest"
         IN IteratePages(Listing("message", place.at, filter, order, limit), limit,
                         Everything, rest))

\* query is the filter that the search text amounts to.
SearchMessages(a, got) ==
  IF Bad(a, "shape") \/ Arg(a, "query", <<>>) = <<>> THEN Fail("argument", got)
  ELSE Then(ResolveFolderParam(Arg(a, "folder", NoRef), got), LAMBDA place, rest :
    IF Bad(a, "value") THEN Fail("argument", rest)
    ELSE LET limit == Clamp(Arg(a, "max_results", 0), MaxList, DefaultList)
         IN IteratePages(Listing("message", place.at, Arg(a, "query", <<>>), "any", limit), limit,
                         Everything, rest))

ConversationOf(a, got) ==
  IF "conversation_id" \in DOMAIN a THEN Done(a.conversation_id, got)
  ELSE Then(Request(Get("message", a.message_id), got), LAMBDA message, rest :
         IF message.conversation_id = 0 THEN Fail("no conversation", rest) ELSE Done(message.conversation_id, rest))

\* Graph cannot sort a thread, so the handler sorts what it has fetched.
GetConversation(a, got) ==
  IF Bad(a, "shape") \/ {"message_id", "conversation_id"} \cap DOMAIN a = {} THEN Fail("argument", got)
  ELSE LET limit == Clamp(Arg(a, "max_results", 0), MaxList, DefaultThread)
       IN Then(ConversationOf(a, got), LAMBDA conv, r1 :
          Then(IteratePages(Listing("message", Mailbox, [conversation_id |-> conv], "any", limit), limit,
                            Everything, r1), LAMBDA messages, r2 :
               Done(SortSeq(messages, LAMBDA m, n : m.stamp < n.stamp), r2)))

GetMessage(a, got) ==
  IF Bad(a, "shape") \/ MessageID(a) = 0 THEN Fail("argument", got) ELSE Request(Get("message", MessageID(a)), got)

\* One page; the link to the next one is not followed.
ListAttachments(a, got) ==
  IF Bad(a, "shape") \/ MessageID(a) = 0 THEN Fail("argument", got)
  ELSE Then(Request(Listing("attachment", ById(MessageID(a)), <<>>, "any", MaxList), got),
            LAMBDA page, rest : Done(page.items, rest))

GetAttachment(a, got) ==
  IF Bad(a, "shape") \/ MessageID(a) = 0 \/ Arg(a, "attachment_id", 0) = 0 THEN Fail("argument", got)
  ELSE Then(Request(Get("attachment", a.attachment_id), got), LAMBDA file, rest :
         IF file.size > MaxAttachment THEN Fail("too large", rest) ELSE Done(file, rest))

-------------------------------------------------------------------------------
(* Drafts. *)

DraftFields == {"to_recipients", "cc_recipients", "bcc_recipients", "subject", "body",
                "importance"}
BlankDraft == [kind |-> "message", is_draft |-> TRUE, tag |-> ProvenanceTag,
               conversation_id |-> 0, flag_status |-> "notFlagged", subject |-> "",
               has_attachments |-> FALSE]

CreateDraft(a, got) ==
  IF Bad(a, "shape") THEN Fail("argument", got)
  ELSE Request(Create(Mailbox, With(BlankDraft, Given(a, DraftFields))), got)

\* mutant: a draft that cannot be tagged is reported as a failure
DeriveTaggedDraft(a, got) ==
  IF Bad(a, "shape") \/ MessageID(a) = 0 THEN Fail("argument", got)
  ELSE Then(Request(Derive(MessageID(a)), got), LAMBDA draft, rest :
         Request(Patch("message", draft.id, [tag |-> TRUE]), rest))

\* A reply and a forward: Graph makes the draft, and the tag is set on it
\* afterwards; a failure to set it is logged and the draft reported.
DeriveDraft(a, got) ==
  IF Bad(a, "shape") \/ MessageID(a) = 0 THEN Fail("argument", got)
  ELSE Then(Request(Derive(MessageID(a)), got), LAMBDA draft, rest :
         IF ~ProvenanceTag THEN Done(draft, rest)
         ELSE Then(Try(Patch("message", draft.id, [tag |-> TRUE]), rest),
                   LAMBDA tagged, r : Done(draft, r)))

CreateReplyDraft(a, got) == DeriveDraft(a, got)

\* The recipients of a forward are part of the request that makes the draft.
CreateForwardDraft(a, got) == DeriveDraft(a, got)

ReadMessage(id, got) == Request(Get("message", id), got)   \* mutant
VerifyIsDraft(id, got) ==
  Then(Request(Get("message", id), got), LAMBDA message, rest :
    IF message.is_draft THEN Done(message, rest) ELSE Fail("not a draft", rest))

UpdateDraft(a, got) ==
  IF Bad(a, "shape") \/ MessageID(a) = 0 THEN Fail("argument", got)
  ELSE Then(VerifyIsDraft(MessageID(a), got), LAMBDA message, rest :
         IF Bad(a, "value") \/ DOMAIN a \cap DraftFields = {} THEN Fail("argument", rest)
         ELSE Request(Patch("message", MessageID(a), Given(a, DraftFields)), rest))

DeleteDraft(a, got) ==
  IF Bad(a, "shape") \/ MessageID(a) = 0 THEN Fail("argument", got)
  ELSE Then(VerifyIsDraft(MessageID(a), got), LAMBDA message, rest :
         Request(Delete("message", ById(MessageID(a))), rest))

-------------------------------------------------------------------------------
(* Moves.  The message gets a new ID. *)

MoveMessage(a, got) ==
  IF Bad(a, "shape") \/ MessageID(a) = 0 \/ Arg(a, "destination", NoRef) = NoRef THEN Fail("argument", got)
  ELSE Then(ResolveFolderRef(a.destination, FALSE, got), LAMBDA place, rest :
         Request(Move(MessageID(a), place.at), rest))

ParseMessageIDs(ids) == SelectSeq(ids, LAMBDA id : id # 0)

\* mutant: the first failure ends the batch
MoveUntilFailure(ids, to, got) ==
  LET upTo[n \in 0..Len(ids)] ==
        IF n = 0 THEN Done(<<>>, got)
        ELSE Then(upTo[n - 1], LAMBDA moved, rest :
          IF moved # <<>> /\ Last(moved).how # "ok" THEN Done(moved, rest)
          ELSE Then(Try(Move(ids[n], to), rest), LAMBDA reply, r :
                 Done(Append(moved, [id |-> ids[n], how |-> IF reply.ok THEN "ok" ELSE reply.value]), r)))
  IN upTo[Len(ids)]

\* One message after the other; once the caller is gone the rest are skipped.
MoveNext(id, to, step) ==
  LET outcome(how) == [id |-> id, how |-> how]
  IN Then(step, LAMBDA moved, rest :
       IF moved # <<>> /\ Last(moved).how \in {"cancelled", "skipped"}
       THEN Done(Append(moved, outcome("skipped")), rest)
       ELSE Then(Try(Move(id, to), rest), LAMBDA reply, r :
              Done(Append(moved, outcome(IF reply.ok THEN "ok" ELSE reply.value)), r)))

MoveEach(ids, to, got) ==
  LET upTo[n \in 0..Len(ids)] ==
        IF n = 0 THEN Done(<<>>, got) ELSE MoveNext(ids[n], to, upTo[n - 1])
  IN upTo[Len(ids)]

\* mutant: one failure is a failure of the call
MoveAllMessages(a, got) ==
  LET ids == ParseMessageIDs(Arg(a, "message_ids", <<>>))
  IN Then(ResolveFolderRef(Arg(a, "destination", NoRef), FALSE, got), LAMBDA place, r1 :
     Then(MoveEach(ids, place.at, r1), LAMBDA moved, r2 :
          IF \A k \in DOMAIN moved : moved[k].how = "ok" THEN Done(moved, r2)
          ELSE Fail("not all moved", r2)))

MoveMessages(a, got) ==
  LET ids == ParseMessageIDs(Arg(a, "message_ids", <<>>))
  IN IF Bad(a, "shape") \/ Len(ids) \notin 1..MaxBatch \/ Arg(a, "destination", NoRef) = NoRef
     THEN Fail("argument", got)
     ELSE Then(ResolveFolderRef(a.destination, FALSE, got), LAMBDA place, r1 :
          Then(MoveEach(ids, place.at, r1), LAMBDA moved, r2 :
               IF \E k \in DOMAIN moved : moved[k].how = "ok" THEN Done(moved, r2)
               ELSE Fail(IF \E k \in DOMAIN moved : moved[k].how = "auth" THEN "auth" ELSE "none moved",
                         r2)))
===============================================================================
