----------------------------- MODULE AccountStore -----------------------------
(***************************************************************************)
(* The accounts of the server: the in-memory registry, accounts.json, the  *)
(* token caches, the account verbs that change them and the restart that   *)
(* rebuilds the registry (src/internal/auth/registry.go, accounts.go,      *)
(* restore.go, email_resolver.go, src/internal/tools/*_account.go).        *)
(*                                                                         *)
(* One process per account call.  A step is one registry operation (under  *)
(* its lock), one load or one save of the file, one sign-in, one token     *)
(* cache deletion or one /me request.  A sign-in is one step that succeeds *)
(* as some user or fails; AccountSignIn opens it up.                        *)
(***************************************************************************)
EXTENDS Integers, Sequences, FiniteSets

CONSTANTS
  Calls,         \* the account calls the client sends
  Labels,        \* account labels
  DefaultLabel,  \* "default", the label of the implicit account
  Users,         \* the people who sign in, each with one UPN
  NoUser, NoCall,
  MaxCrashes     \* how often the server stops and is started again

ASSUME LabelsAssumption == DefaultLabel \in Labels
ASSUME NamesAssumption  == NoUser \notin Users /\ NoCall \notin Calls
ASSUME CrashAssumption  == MaxCrashes \in Nat

VARIABLES
  entries,  \* AccountRegistry.accounts
  file,     \* accounts.json
  tokens,   \* whose tokens the label's cache holds
  crashes,  \* restarts so far
  \* The calls.
  kind, label, pc,
  owner,    \* who signed in for the call
  view,     \* the accounts the call has loaded
  mail,     \* the UPN it is about to persist
  clears,   \* the entry it saw keeps its tokens under the label's own name
  held,     \* which entry of the label it holds: the call that created it
  \* History variables: no action reads them.
  raced,    \* a save overwrote a change its call had not loaded
  crossed,  \* an add and a remove of one label overlapped
  swapped,  \* a login replaced an entry while its address was being fetched
  failed,   \* a load, a save, a credential or a cache deletion failed
  acked     \* how far the last removal of the label is

callVars == <<kind, label, pc, owner, view, mail, clears, held>>
history  == <<raced, crossed, swapped, failed, acked>>
vars == <<entries, file, tokens, crashes, callVars, history>>

(***************************************************************************)
(* Types and helpers                                                       *)
(***************************************************************************)
Kinds == {"none", "add", "login", "logout", "remove", "list"}
Steps == {"idle", "signin", "register", "load", "save", "mail", "store",
          "upnCheck", "upnLoad", "upnSave", "entry", "clear", "answered", "lost"}
MaybeUser == Users \cup {NoUser}

\* An entry: whether it has a client, whose credential that is, the UPN it
\* shows, whether its tokens are in the label's own cache (those of the implicit
\* default are in the configuration's), and the call that created it (NoCall
\* at startup), which tells two entries of one label apart.
Entry == [state : {"absent", "disconnected", "connected"}, owner : MaybeUser,
          email : MaybeUser, own : BOOLEAN, by : Calls \cup {NoCall}]
Absent == [state |-> "absent", owner |-> NoUser, email |-> NoUser, own |-> FALSE,
           by |-> NoCall]

\* A record of the file.  ours: it has the identity of the configuration.
Config == [label : Labels, upn : MaybeUser, ours : BOOLEAN]

Registered(l) == entries[l].state # "absent"
Connected(l)  == entries[l].state = "connected"
InFile(f, l)  == \E i \in DOMAIN f : f[i].label = l
First(f, l)   == CHOOSE i \in DOMAIN f : f[i].label = l /\ \A j \in 1 .. i - 1 : f[j].label # l

Goto(c, s) == pc' = [pc EXCEPT ![c] = s]
Answer(c)  == Goto(c, "answered")

\* A verb acts on its label until it is answered.
Busy(l) == \E c \in Calls : label[c] = l /\ pc[c] \notin {"idle", "answered", "lost"}

\* shouldAddImplicitDefault: nothing in the file covers the configuration.
ImplicitDefault(f) ==
  \A i \in DOMAIN f : ~f[i].ours /\ f[i].label # DefaultLabel

\* The entries of a fresh process: the implicit default, then the accounts of
\* the file whose credential can be made, those in silent with a token.
Restored(f, made, silent) ==
  [l \in Labels |->
     CASE l = DefaultLabel /\ ImplicitDefault(f) ->
            [Absent EXCEPT !.state = "connected"]
       [] InFile(f, l) /\ l \in made ->
            [state |-> IF l \in silent THEN "connected" ELSE "disconnected",
             owner |-> IF l \in silent THEN tokens[l] ELSE NoUser,
             email |-> f[First(f, l)].upn, own |-> TRUE, by |-> NoCall]
       [] OTHER -> Absent]

Init ==
  /\ file = <<>>
  /\ tokens = [l \in Labels |-> NoUser]
  /\ entries = Restored(file, {}, {})
  /\ crashes = 0
  /\ kind = [c \in Calls |-> "none"]
  /\ label = [c \in Calls |-> DefaultLabel]
  /\ pc = [c \in Calls |-> "idle"]
  /\ owner = [c \in Calls |-> NoUser]
  /\ view = [c \in Calls |-> <<>>]
  /\ mail = [c \in Calls |-> NoUser]
  /\ clears = [c \in Calls |-> FALSE]
  /\ held = [c \in Calls |-> NoCall]
  /\ raced = FALSE /\ crossed = FALSE /\ swapped = FALSE /\ failed = FALSE
  /\ acked = [l \in Labels |-> "none"]

(***************************************************************************)
(* The first step of each verb                                             *)
(***************************************************************************)
Begin(c, k, l, s) ==
  /\ pc[c] = "idle"
  /\ kind' = [kind EXCEPT ![c] = k]
  /\ label' = [label EXCEPT ![c] = l]
  /\ Goto(c, s)

\* HandleAddAccount: registry.Get, then sign in.
BeginAdd(c, l) ==
  /\ Begin(c, "add", l, IF Registered(l) THEN "answered" ELSE "signin")
  /\ acked' = IF Registered(l) THEN acked ELSE [acked EXCEPT ![l] = "none"]
  /\ UNCHANGED <<entries, file, tokens, crashes, owner, view, mail, clears, held,
                 raced, crossed, swapped, failed>>

\* handleLoginAccount: only a disconnected account signs in.
BeginLogin(c, l) ==
  /\ Begin(c, "login", l, IF entries[l].state = "disconnected"
                          THEN "signin" ELSE "answered")
  /\ UNCHANGED <<entries, file, tokens, crashes, owner, view, mail, clears, held, history>>

BeginLogout(c, l) ==
  /\ Begin(c, "logout", l, IF Connected(l) THEN "entry" ELSE "answered")
  /\ clears' = [clears EXCEPT ![c] = entries[l].own]
  /\ UNCHANGED <<entries, file, tokens, crashes, owner, view, mail, held, history>>

\* HandleRemoveAccount: the cache name is captured if there is an entry.
BeginRemove(c, l) ==
  /\ Begin(c, "remove", l, "entry")
  /\ clears' = [clears EXCEPT ![c] = entries[l].own]
  /\ UNCHANGED <<entries, file, tokens, crashes, owner, view, mail, held, history>>

\* account.list resolves the address of an entry with a client.
BeginList(c, l) ==
  /\ Connected(l)
  /\ Begin(c, "list", l, "mail")
  /\ owner' = [owner EXCEPT ![c] = entries[l].owner]
  /\ held' = [held EXCEPT ![c] = entries[l].by]
  /\ UNCHANGED <<entries, file, tokens, crashes, view, mail, clears, history>>

(***************************************************************************)
(* account.add and account.login                                           *)
(***************************************************************************)
\* The sign-in, or for login the silent token, or neither.  The tokens are
\* cached under the label's name first; then no Graph client may be had.
SignIn(c) ==
  /\ pc[c] = "signin"
  /\ \/ /\ \E u \in Users :
             /\ owner' = [owner EXCEPT ![c] = u]
             /\ tokens' = [tokens EXCEPT ![label[c]] = u]
        /\ Goto(c, "register") \/ Answer(c)
     \/ /\ kind[c] = "login" /\ tokens[label[c]] # NoUser
        /\ owner' = [owner EXCEPT ![c] = tokens[label[c]]]
        /\ Goto(c, "register")
        /\ UNCHANGED tokens
     \/ /\ Answer(c)
        /\ UNCHANGED <<owner, tokens>>
  /\ UNCHANGED <<entries, file, crashes, kind, label, view, mail, clears, held, history>>

\* Some account.remove of l has left the registry but not yet the file, or
\* some account.add of l has entered the registry but not yet the file.
HalfDone(k, l) ==
  \E d \in Calls : kind[d] = k /\ label[d] = l /\ pc[d] \in {"load", "save"}

\* Mutant of AddRegister: an entry that is there is replaced.
AddReplaces(c) ==
  /\ pc[c] = "register" /\ kind[c] = "add"
  /\ entries' = [entries EXCEPT ![label[c]] =
       [state |-> "connected", owner |-> owner[c], email |-> NoUser,
        own |-> TRUE, by |-> c]]
  /\ crossed' = (crossed \/ HalfDone("remove", label[c]))
  /\ held' = [held EXCEPT ![c] = c]
  /\ Goto(c, "load")
  /\ UNCHANGED <<file, tokens, crashes, kind, label, owner, view, mail, clears,
                 raced, swapped, failed, acked>>

\* registry.Add: refused when somebody else added the label meanwhile.
AddRegister(c) ==
  /\ pc[c] = "register" /\ kind[c] = "add"
  /\ \/ /\ Registered(label[c])
        /\ Answer(c)
        /\ UNCHANGED <<entries, held, crossed>>
     \/ /\ ~Registered(label[c])
        /\ entries' = [entries EXCEPT ![label[c]] =
             [state |-> "connected", owner |-> owner[c], email |-> NoUser,
              own |-> TRUE, by |-> c]]
        /\ crossed' = (crossed \/ HalfDone("remove", label[c]))
        /\ held' = [held EXCEPT ![c] = c]
        /\ Goto(c, "load")
  /\ UNCHANGED <<file, tokens, crashes, kind, label, owner, view, mail, clears,
                 raced, swapped, failed, acked>>

\* Some call waits for the address of the entry of l.
Fetching(l) ==
  \E d \in Calls : pc[d] = "store" /\ label[d] = l /\ held[d] = entries[l].by

\* Mutant of LoginUpdate: the address of the entry is kept.
LoginKeepsEmail(c) ==
  /\ pc[c] = "register" /\ kind[c] = "login" /\ Registered(label[c])
  /\ entries' = [entries EXCEPT ![label[c]].state = "connected",
                                ![label[c]].owner = owner[c],
                                ![label[c]].own = TRUE]
  /\ held' = [held EXCEPT ![c] = entries[label[c]].by]
  /\ swapped' = (swapped \/ Fetching(label[c]))
  /\ Goto(c, "mail")
  /\ UNCHANGED <<file, tokens, crashes, kind, label, owner, view, mail, clears, raced,
                 crossed, failed, acked>>

\* registry.Update: every field of the entry now there, whoever added it.
LoginUpdate(c) ==
  /\ pc[c] = "register" /\ kind[c] = "login"
  /\ \/ /\ ~Registered(label[c])
        /\ Answer(c)
        /\ UNCHANGED <<entries, held, swapped>>
     \/ /\ Registered(label[c])
        /\ entries' = [entries EXCEPT ![label[c]].state = "connected",
                                      ![label[c]].owner = owner[c],
                                      ![label[c]].own = TRUE,
                                      ![label[c]].email = NoUser]
        /\ held' = [held EXCEPT ![c] = entries[label[c]].by]
        /\ swapped' = (swapped \/ Fetching(label[c]))
        /\ Goto(c, "mail")
  /\ UNCHANGED <<file, tokens, crashes, kind, label, owner, view, mail, clears, raced,
                 crossed, failed, acked>>

(***************************************************************************)
(* accounts.json: every change is a load and a later save                  *)
(***************************************************************************)
\* Mutant of After: nothing follows the record of an add.
AfterNothing(c) == IF kind[c] = "add" THEN "saved" ELSE "clear"

After(c) == IF kind[c] = "add" THEN "mail" ELSE "clear"

\* LoadAccounts of AddAccountConfig and RemoveAccountConfig; an error is logged.
Load(c) ==
  /\ pc[c] = "load"
  /\ \/ /\ view' = [view EXCEPT ![c] = file]
        /\ Goto(c, "save")
        /\ UNCHANGED failed
     \/ /\ failed' = TRUE
        /\ Goto(c, After(c))
        /\ UNCHANGED view
  /\ UNCHANGED <<entries, file, tokens, crashes, kind, label, owner, mail, clears,
                 held, raced, crossed, swapped, acked>>

\* The loop of RemoveAccountConfig: what it has kept of the first n records.
Without(f, l) ==
  LET filtered[n \in 0 .. Len(f)] ==
        IF n = 0 THEN <<>>
        ELSE IF f[n].label = l THEN filtered[n - 1]
        ELSE Append(filtered[n - 1], f[n])
  IN  filtered[Len(f)]

\* Mutant of Edited: UpdateAccountUPN adds the record it does not find.
EditedUpserts(c, ours) ==
  CASE kind[c] = "remove" -> Without(view[c], label[c])
    [] pc[c] = "upnSave" /\ InFile(view[c], label[c]) ->
         [view[c] EXCEPT ![First(view[c], label[c])].upn = mail[c]]
    [] OTHER -> Append(view[c], [label |-> label[c], upn |-> mail[c], ours |-> ours])

\* What the call makes of the accounts it loaded: AddAccountConfig appends,
\* RemoveAccountConfig filters, UpdateAccountUPN sets the first of the label.
Edited(c, ours) ==
  CASE kind[c] = "remove" -> Without(view[c], label[c])
    [] pc[c] = "upnSave"  ->
         IF InFile(view[c], label[c])
         THEN [view[c] EXCEPT ![First(view[c], label[c])].upn = mail[c]]
         ELSE view[c]
    [] OTHER -> Append(view[c], [label |-> label[c], upn |-> NoUser, ours |-> ours])

\* SaveAccounts replaces the file in one rename, or fails and leaves it.  An
\* edit that changes nothing is not saved.
Save(c) ==
  /\ pc[c] \in {"save", "upnSave"}
  /\ \/ /\ \E ours \in IF kind[c] = "add" /\ pc[c] = "save" THEN BOOLEAN ELSE {FALSE} :
             IF Edited(c, ours) = view[c] THEN UNCHANGED <<file, raced>>
             ELSE /\ file' = Edited(c, ours)
                  /\ raced' = (raced \/ file # view[c])
        /\ UNCHANGED failed
     \/ /\ failed' = TRUE
        /\ UNCHANGED <<file, raced>>
  /\ Goto(c, IF pc[c] = "save" THEN After(c) ELSE "answered")
  /\ UNCHANGED <<entries, tokens, crashes, kind, label, owner, view, mail, clears,
                 held, crossed, swapped, acked>>

(***************************************************************************)
(* EnsureEmail and EnsureEmailAndPersistUPN                                *)
(***************************************************************************)
\* The entry now registered is the one the call holds.
Holds(c) == Registered(label[c]) /\ entries[label[c]].by = held[c]

\* account.list looks up the address and leaves the file alone.
Persists(c) == kind[c] # "list" /\ mail'[c] # NoUser

\* The request to /me, under the entry's emailMu and unless it has an address.
\* Without a client, with an interactive sign-in in flight, or after an error the
\* address stays what it is; a detached entry's is nobody's business but the
\* call's.
FetchEmail(c) ==
  /\ pc[c] = "mail"
  /\ ~(Holds(c) /\ Fetching(label[c]))
  /\ LET e == entries[label[c]] IN
     \/ /\ Holds(c) /\ Connected(label[c]) /\ e.email = NoUser
        /\ mail' = [mail EXCEPT ![c] = e.owner]
        /\ Goto(c, "store")
     \/ /\ mail' = [mail EXCEPT ![c] = IF Holds(c) THEN e.email ELSE NoUser]
        /\ Goto(c, IF Persists(c) THEN "upnCheck" ELSE "answered")
     \/ /\ ~Holds(c)
        /\ mail' = [mail EXCEPT ![c] = owner[c]]
        /\ Goto(c, IF Persists(c) THEN "upnCheck" ELSE "answered")
  /\ UNCHANGED <<entries, file, tokens, crashes, kind, label, owner, view, clears,
                 held, history>>

\* entry.Email is written under emailMu, which registry.Update does not take.
StoreEmail(c) ==
  /\ pc[c] = "store"
  /\ UNCHANGED mail
  /\ entries' = [entries EXCEPT ![label[c]].email =
                   IF Holds(c) THEN mail[c] ELSE @]
  /\ Goto(c, IF Persists(c) THEN "upnCheck" ELSE "answered")
  /\ UNCHANGED <<file, tokens, crashes, kind, label, owner, view, clears, held, history>>

\* The first load: a label with a UPN, or without a record, is left alone.
UpnCheck(c) ==
  /\ pc[c] = "upnCheck"
  /\ Goto(c, IF InFile(file, label[c]) /\ file[First(file, label[c])].upn = NoUser
             THEN "upnLoad" ELSE "answered")
  /\ UNCHANGED <<entries, file, tokens, crashes, kind, label, owner, view, mail,
                 clears, held, history>>

\* UpdateAccountUPN loads once more.
UpnLoad(c) ==
  /\ pc[c] = "upnLoad"
  /\ view' = [view EXCEPT ![c] = file]
  /\ Goto(c, "upnSave")
  /\ UNCHANGED <<entries, file, tokens, crashes, kind, label, owner, mail, clears,
                 held, history>>

(***************************************************************************)
(* account.logout and account.remove                                       *)
(***************************************************************************)
LogoutUpdate(c) ==
  /\ pc[c] = "entry" /\ kind[c] = "logout"
  /\ \/ /\ ~Registered(label[c])
        /\ Answer(c)
        /\ UNCHANGED entries
     \/ /\ Registered(label[c])
        /\ entries' = [entries EXCEPT ![label[c]].state = "disconnected",
                                      ![label[c]].owner = NoUser]
        /\ Goto(c, "clear")
  /\ UNCHANGED <<file, tokens, crashes, kind, label, owner, view, mail, clears, held, history>>

\* registry.Remove, whatever the state of the account.  What the client is told
\* of the label stands unless it has also asked, or asks, to add it.
RemoveEntry(c) ==
  /\ pc[c] = "entry" /\ kind[c] = "remove"
  /\ \/ /\ ~Registered(label[c])
        /\ Answer(c)
        /\ UNCHANGED <<entries, crossed, acked>>
     \/ /\ Registered(label[c])
        /\ entries' = [entries EXCEPT ![label[c]] = Absent]
        /\ acked' = [acked EXCEPT ![label[c]] =
             IF \E d \in Calls : kind[d] = "add" /\ label[d] = label[c]
                                   /\ pc[d] \notin {"answered", "lost"}
             THEN "none" ELSE "removing"]
        /\ crossed' = (crossed \/ HalfDone("add", label[c]))
        /\ Goto(c, "load")
  /\ UNCHANGED <<file, tokens, crashes, kind, label, owner, view, mail, clears,
                 held, raced, swapped, failed>>

\* Mutant of Cleared: a removal clears the configuration's cache.
ClearedOnLogout(c) ==
  IF clears[c] /\ kind[c] = "logout" THEN [tokens EXCEPT ![label[c]] = NoUser] ELSE tokens

\* ClearTokenCache of the cache the entry named when the call began: the
\* label's own, or the configuration's.
Cleared(c) == IF clears[c] THEN [tokens EXCEPT ![label[c]] = NoUser] ELSE tokens

\* Its error is only logged.
ClearTokens(c) ==
  /\ pc[c] = "clear"
  /\ \/ /\ tokens' = Cleared(c)
        /\ UNCHANGED failed
     \/ /\ failed' = TRUE
        /\ UNCHANGED tokens
  /\ acked' = IF kind[c] = "remove" /\ acked[label[c]] = "removing"
              THEN [acked EXCEPT ![label[c]] = "removed"] ELSE acked
  /\ Answer(c)
  /\ UNCHANGED <<entries, file, crashes, kind, label, owner, view, mail, clears,
                 held, raced, crossed, swapped>>

(***************************************************************************)
(* The process dies between any two steps and is started again             *)
(***************************************************************************)
\* RestoreAccounts reads the file, or fails to and restores nothing.  An
\* account is skipped if its credential cannot be made, and is connected if
\* its cache yields a token in time.
Crash ==
  /\ crashes < MaxCrashes
  /\ crashes' = crashes + 1
  /\ pc' = [c \in Calls |-> IF pc[c] \in {"idle", "answered"} THEN pc[c] ELSE "lost"]
  /\ \E f \in {file, <<>>}, made \in SUBSET Labels :
       \E silent \in SUBSET {l \in made : tokens[l] # NoUser} :
         /\ entries' = Restored(f, made, silent)
         /\ failed' = (failed \/ f # file \/ \E l \in Labels \ made : InFile(f, l))
  /\ UNCHANGED <<file, tokens, kind, label, owner, view, mail, clears, raced,
                 held, crossed, swapped, acked>>

(***************************************************************************)
(* The specification                                                       *)
(***************************************************************************)
CallStep(c) ==
  \/ \E l \in Labels : BeginAdd(c, l) \/ BeginLogin(c, l) \/ BeginLogout(c, l)
                         \/ BeginRemove(c, l) \/ BeginList(c, l)
  \/ SignIn(c) \/ AddRegister(c) \/ LoginUpdate(c) \/ Load(c) \/ Save(c)
  \/ FetchEmail(c) \/ StoreEmail(c) \/ UpnCheck(c) \/ UpnLoad(c)
  \/ LogoutUpdate(c) \/ RemoveEntry(c) \/ ClearTokens(c)

\* The client has sent its calls and the server has answered or lost them.
Quiescent ==
  /\ \A c \in Calls : pc[c] \in {"answered", "lost"}
  /\ UNCHANGED vars

Next == (\E c \in Calls : CallStep(c)) \/ Crash \/ Quiescent

Spec == Init /\ [][Next]_vars

(***************************************************************************)
(* Properties                                                              *)
(***************************************************************************)
\* Every variable holds a value of its type.
TypeOK ==
  /\ entries \in [Labels -> Entry]
  /\ file \in Seq(Config)
  /\ tokens \in [Labels -> MaybeUser]
  /\ crashes \in 0 .. MaxCrashes
  /\ kind \in [Calls -> Kinds]
  /\ label \in [Calls -> Labels]
  /\ pc \in [Calls -> Steps]
  /\ owner \in [Calls -> MaybeUser]
  /\ view \in [Calls -> Seq(Config)]
  /\ mail \in [Calls -> MaybeUser]
  /\ clears \in [Calls -> BOOLEAN]
  /\ held \in [Calls -> Calls \cup {NoCall}]
  /\ raced \in BOOLEAN /\ crossed \in BOOLEAN /\ swapped \in BOOLEAN /\ failed \in BOOLEAN
  /\ acked \in [Labels -> {"none", "removing", "removed"}]

\* No save lost another's, no add met a remove of its label, nothing failed.
Orderly == ~raced /\ ~crossed /\ ~failed

\* Once no verb is at work on a label, the registry and accounts.json agree on
\* it, across sign-ins, UPN backfills, crashes between any two steps and
\* restarts; only the implicit default is registered without a record.  An
\* overwritten save, an add crossing a remove, and an input or output error are
\* the only ways for the two to part.
FileMirrorsRegistry ==
  Orderly => \A l \in Labels : ~Busy(l) =>
    /\ InFile(file, l) => Registered(l)
    /\ Registered(l) => InFile(file, l) \/ (l = DefaultLabel /\ entries[l].by = NoCall)

\* accounts.json never holds two records of one label, although AddAccountConfig
\* appends without looking: of concurrent adds only the one the registry takes
\* gets to write, and a restart restores before it serves.
OneConfigPerLabel ==
  Orderly => \A i, j \in DOMAIN file : file[i].label = file[j].label => i = j

\* A removal that found the account takes its tokens along, whatever adds, logouts
\* and restarts went before it or on beside it.  A login of the label is the
\* exception: its sign-in may come after the removal and write the cache again.
TokensGoWithAccount ==
  \A l \in Labels :
    /\ ~failed /\ acked[l] = "removed"
    /\ \A c \in Calls : label[c] = l => /\ kind[c] # "login"
                                        /\ kind[c] = "remove" => clears[c]
    => tokens[l] = NoUser

\* An account whose removal was acknowledged, and which nobody has asked to add
\* since, is not in the file a restart reads.
RemovalIsDurable ==
  ~failed => \A l \in Labels \ {DefaultLabel} : acked[l] = "removed" => ~InFile(file, l)

\* Until a restart, the address an account shows is that of the user whose
\* credential it has, however lookups, logouts, logins as somebody else, removals
\* and adds interleave: a login resets it and a removed entry's lookup lands on an
\* entry nobody sees.  A login while the entry's lookup is waiting is the exception.
EmailNamesOwner ==
  ~swapped /\ crashes = 0 =>
    \A l \in Labels : Connected(l) /\ entries[l].owner # NoUser
                        => entries[l].email \in {NoUser, entries[l].owner}

(***************************************************************************)
(* Why they hold: the inductive invariant                                  *)
(***************************************************************************)
\* What a call is, by where it is.
FlowInv ==
  \A c \in Calls :
    /\ pc[c] = "idle" => kind[c] = "none"
    /\ pc[c] \in {"signin", "register"} => kind[c] \in {"add", "login"}
    /\ pc[c] \in {"load", "save"} => kind[c] \in {"add", "remove"}
    /\ pc[c] \in {"mail", "store", "upnCheck", "upnLoad", "upnSave"}
         => kind[c] \in {"add", "login", "list"}

\* An entry bears the name of a call that is past registry.Add, so that no later
\* entry of the label has the same one.
Added(c) == kind[c] = "add" /\ pc[c] \notin {"idle", "signin", "register"}

HeldInv ==
  /\ \A l \in Labels : entries[l].by \in Calls => Added(entries[l].by)
  /\ \A c \in Calls : held[c] \in Calls => Added(held[c])

\* An address that was looked up for an entry is stored in that very entry, under
\* the credential it was looked up with.
FetchedInv ==
  ~swapped /\ crashes = 0 =>
    \A c \in Calls :
      pc[c] = "store" /\ Holds(c) /\ Connected(label[c]) =>
        entries[label[c]].owner \in {NoUser, mail[c]}

\* The client asked to add none of the labels whose removal it waits for.
AskedInv ==
  \A c \in Calls : kind[c] = "add" /\ acked[label[c]] # "none" => pc[c] \in {"answered", "lost"}

\* The call is between the registry and the file.
Writing(c, k, l) == kind[c] = k /\ label[c] = l /\ pc[c] \in {"load", "save"}

\* Between its two halves an add has entered the registry, a removal has left it;
\* a label has one add at work at most, and not yet a record.
HalvesInv ==
  \A c \in Calls, l \in Labels :
    /\ Writing(c, "add", l) =>
         /\ Registered(l) /\ ~InFile(file, l)
         /\ \A d \in Calls : Writing(d, "add", l) => c = d
    /\ Writing(c, "remove", l) =>
         /\ ~Registered(l)
         /\ pc[c] = "save" /\ InFile(file, l) => InFile(view[c], l)

\* The registry and the file, with the halves still to come.
MirrorInv ==
  \A l \in Labels :
    /\ InFile(file, l) => Registered(l) \/ HalfDone("remove", l)
    /\ Registered(l) => \/ InFile(file, l) \/ HalfDone("add", l)
                        \/ l = DefaultLabel /\ entries[l].by = NoCall

\* The invariant as a whole: registry and accounts.json differ by the second halves
\* of adds and removals and by nothing else, and what a call carries from one step
\* to the next (an entry, an address, a label asked for) is still what it was.
StoreInv ==
  /\ FlowInv /\ HeldInv
  /\ FetchedInv /\ EmailNamesOwner
  /\ AskedInv /\ TokensGoWithAccount
  /\ Orderly => HalvesInv /\ MirrorInv
  /\ OneConfigPerLabel
===============================================================================
