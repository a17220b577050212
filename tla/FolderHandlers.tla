---------------------------- MODULE FolderHandlers ----------------------------
(***************************************************************************)
(* Mail folders: how a reference to a folder is resolved, the listing with *)
(* its paths, and the two verbs that change folders.                       *)
(*                                                                         *)
(* A display name is a sequence of parts, the name "A/B" having two, so    *)
(* that a path is the concatenation of names and is split into parts       *)
(* whatever the names were.  A reference is a record of the parts of the   *)
(* text and, if the text looks like a Graph ID, of that ID.                *)
(***************************************************************************)
EXTENDS GraphCalls

CONSTANTS
  LookupPage,       \* folderLookupPageSize
  DefaultFolders,   \* defaultFolderMaxResults
  MaxFolders,       \* maxFolderMaxResults
  DefaultDepth,     \* defaultFolderMaxDepth
  MaxDepth          \* maxFolderMaxDepth

ASSUME FoldersAssumption == DefaultFolders \in Nat /\ MaxFolders \in Nat /\ LookupPage \in Nat

References == [parts : Seq(DOMAIN Fold), id : Nat]
NoRef == [parts |-> <<>>, id |-> 0]

\* The types of the arguments that decide how far a handler goes.
WellTyped(a) ==
  /\ \A p \in DOMAIN a \cap {"folder", "parent", "destination"} : a[p] \in References
  /\ "max_results" \in DOMAIN a => a.max_results \in Int

\* What a reference stands for, and the path it is known by.
Place(at, path) == [at |-> at, path |-> path]

IsWellKnown(part) == Fold[part] \in DOMAIN WellKnown
WellKnownFolder(part) == Place(ByKey(Fold[part]), <<WellKnown[Fold[part]]>>)

\* Pages of folders are not followed: what is beyond the first is "truncated".
FetchFolders(at, top) == Listing("folder", at, <<>>, "any", top)

\* mutant: the end of a name is enough
MatchLastPart(folders, part) ==
  SelectInSeq(folders, LAMBDA f : Fold[Last(f.name)] = Fold[part])

\* The place of the first folder of that name; 0 if there is none.
MatchFolderByName(folders, part) ==
  SelectInSeq(folders, LAMBDA f : Len(f.name) = 1 /\ Fold[f.name[1]] = Fold[part])

FindUnder(place, part, got) ==
  Then(Request(FetchFolders(place.at, LookupPage), got), LAMBDA page, rest :
    LET n     == MatchFolderByName(page.items, part)
        match == page.items[n]
    IN IF n = 0 THEN Fail("no folder", rest)
       ELSE Done(Place(ById(match.id), place.path \o match.name), rest))

FirstPart(part, got) ==
  IF IsWellKnown(part) THEN Done(WellKnownFolder(part), got)
  ELSE FindUnder(Place(Mailbox, <<>>), part, got)
NextPart(part, step) == Then(step, LAMBDA place, rest : FindUnder(place, part, rest))

WalkFolderPath(parts, got) ==
  LET walk[i \in 1..Len(parts)] ==
        IF i = 1 THEN FirstPart(parts[1], got) ELSE NextPart(parts[i], walk[i - 1])
  IN walk[Len(parts)]

PassThroughId(id, wantPath, got) ==
  IF ~wantPath THEN Done(Place(ById(id), <<>>), got)
  ELSE Then(Request(Get("folder", id), got), LAMBDA folder, rest :
         Done(Place(ById(id), folder.name), rest))

\* A text with a slash is walked first, and taken for an ID only if the walk
\* fails; without one an ID is taken as such.
ResolveFolderRef(ref, wantPath, got) ==
  IF Len(ref.parts) = 1 /\ IsWellKnown(ref.parts[1])
  THEN Done(WellKnownFolder(ref.parts[1]), got)
  ELSE IF Len(ref.parts) <= 1 /\ ref.id # 0 THEN PassThroughId(ref.id, wantPath, got)
  ELSE LET walk == WalkFolderPath(ref.parts, got)
       IN IF walk.next # "fail" \/ ref.id = 0 THEN walk
          ELSE PassThroughId(ref.id, wantPath, walk.rest)

ResolveFolderParam(ref, got) ==
  IF ref = NoRef THEN Done(Place(Mailbox, <<>>), got) ELSE ResolveFolderRef(ref, FALSE, got)

-------------------------------------------------------------------------------
(* list_folders. *)

\* mutant: a folder is known by its name alone
NodeByName(folder, parentPath, depth) ==
  [id |-> folder.id, path |-> folder.name, depth |-> depth,
   count |-> folder.subfolders, expanded |-> FALSE, truncated |-> FALSE,
   err |-> FALSE, children |-> 0]

NewFolderNode(folder, parentPath, depth) ==
  [id |-> folder.id, path |-> parentPath \o folder.name, depth |-> depth,
   count |-> folder.subfolders, expanded |-> FALSE, truncated |-> FALSE,
   err |-> FALSE, children |-> 0]

Nodes(folders, parentPath, depth) ==
  [k \in DOMAIN folders |-> NewFolderNode(folders[k], parentPath, depth)]

UnreturnedChildren(n) ==
  IF ~n.expanded \/ n.truncated \/ n.count < n.children THEN 0 ELSE n.count - n.children
NoneUnexplored(n) == 0   \* mutant
UnexploredChildren(n) == IF n.expanded THEN 0 ELSE n.count

\* Depth first: a folder with subfolders is expanded while depth remains,
\* and a failure to expand one is noted on it.  Nodes still to be visited are
\* in todo; each visit takes at most one reply.
Visit(tree) ==
  LET node == Head(tree.todo)
      leaf(n) == [tree EXCEPT !.todo = Tail(@), !.done = Append(@, n)]
      reply == Head(tree.rest)
  IN IF tree.todo = <<>> THEN tree
     ELSE IF node.depth = 0 \/ node.count = 0 THEN leaf(node)
     ELSE IF tree.rest = <<>> THEN [tree EXCEPT !.asks = TRUE]
     ELSE IF ~reply.ok THEN [leaf([node EXCEPT !.err = TRUE]) EXCEPT !.rest = Tail(@)]
     ELSE LET below == Nodes(reply.value.items, node.path, node.depth - 1)
          IN [tree EXCEPT !.rest = Tail(@), !.todo = below \o Tail(@),
                !.done = Append(@, [node EXCEPT !.expanded = TRUE, !.children = Len(below),
                                                !.truncated = reply.value.skip # 0])]

\* A page holds at most top folders, so that this many visits see them all.
BuildFolderTree(nodes, top, got) ==
  LET visits == top * (Len(got) + 1)
      tree[n \in 0..visits] ==
        IF n = 0 THEN [todo |-> nodes, done |-> <<>>, rest |-> got, asks |-> FALSE]
        ELSE Visit(tree[n - 1])
  IN IF tree[visits].asks THEN Ask(FetchFolders(ById(Head(tree[visits].todo).id), top))
     ELSE Done(tree[visits].done, tree[visits].rest)

ListFolders(a, got) ==
  LET top   == Clamp(Arg(a, "max_results", 0), MaxFolders, DefaultFolders)
      depth == IF Arg(a, "recursive", FALSE)
               THEN Clamp(Arg(a, "max_depth", 0), MaxDepth, DefaultDepth) ELSE 1
      ref   == Arg(a, "folder", NoRef)
      root  == IF ref = NoRef THEN Done(Place(Mailbox, <<>>), got)
               ELSE ResolveFolderRef(ref, TRUE, got)
  IN IF Bad(a, "shape") THEN Fail("argument", got)
     ELSE Then(root, LAMBDA place, r1 :
          Then(Request(FetchFolders(place.at, top), r1), LAMBDA page, r2 :
          Then(BuildFolderTree(Nodes(page.items, place.path, depth - 1), top, r2),
               LAMBDA nodes, r3 : Done([root |-> place.at, nodes |-> nodes,
                                        truncated |-> page.skip # 0], r3))))

-------------------------------------------------------------------------------
(* create_folder and delete_folder. *)

CreateFolder(a, got) ==
  LET name == Arg(a, "display_name", <<>>)
  IN IF name = <<>> \/ Bad(a, "shape") THEN Fail("argument", got)
     ELSE Then(ResolveFolderParam(Arg(a, "parent", NoRef), got), LAMBDA place, rest :
       Request(Create(place.at, [kind |-> "folder", name |-> name, hidden |-> FALSE]), rest))

DeleteFolder(a, got) ==
  LET ref == Arg(a, "folder", NoRef)
  IN IF ref = NoRef \/ Bad(a, "shape") THEN Fail("argument", got)
     ELSE Then(ResolveFolderRef(ref, FALSE, got), LAMBDA place, rest :
       Request(Delete("folder", place.at), rest))
===============================================================================
