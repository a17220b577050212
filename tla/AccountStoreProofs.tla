-------------------------- MODULE AccountStoreProofs ---------------------------
(***************************************************************************)
(* Theorems about AccountStore, for any number of calls, labels, users and *)
(* restarts.                                                               *)
(***************************************************************************)
EXTENDS AccountStore, WellFoundedInduction, TLAPS

USE LabelsAssumption, NamesAssumption, CrashAssumption

-------------------------------------------------------------------------------
\* The file.  Facts about its loops need the least number of a set of naturals.
LEMMA LeastNumber ==
  ASSUME NEW S \in SUBSET Nat, S # {}
  PROVE  \E n \in S : \A k \in S : n <= k
<1>1. PICK n \in S : \A k \in S : ~(<<k, n>> \in OpToRel(<, Nat))
  BY NatLessThanWellFounded, WFMin
<1>2. \A k \in S : ~(k < n)
  BY <1>1 DEF OpToRel
<1>3. QED
  BY <1>2

\* The first record of a label is there if the label is.
LEMMA FirstRecord ==
  ASSUME NEW f \in Seq(Config), NEW l, InFile(f, l)
  PROVE  First(f, l) \in DOMAIN f /\ f[First(f, l)].label = l
<1> DEFINE S == {i \in DOMAIN f : f[i].label = l}
<1>1. S \in SUBSET Nat /\ S # {}
  BY DEF InFile
<1>2. PICK i \in S : \A j \in S : i <= j
  BY <1>1, LeastNumber
<1>3. \A j \in 1 .. i - 1 : j \in DOMAIN f /\ ~(i <= j)
  BY <1>2
<1>4. i \in DOMAIN f /\ f[i].label = l /\ \A j \in 1 .. i - 1 : f[j].label # l
  BY <1>2, <1>3
<1>5. QED
  BY <1>4 DEF First

\* The loop of RemoveAccountConfig as a function of how far it is: there is one.
Loop(f, l, m, g) ==
  g = [n \in 0 .. m |-> IF n = 0 THEN <<>>
                        ELSE IF f[n].label = l THEN g[n - 1]
                        ELSE Append(g[n - 1], f[n])]

LEMMA LoopRuns ==
  ASSUME NEW f \in Seq(Config), NEW l
  PROVE  \E g : Loop(f, l, Len(f), g)
<1> DEFINE S == {m \in 0 .. Len(f) : ~\E g : Loop(f, l, m, g)}
<1>0. Len(f) \in 0 .. Len(f)
  OBVIOUS
<1> SUFFICES ASSUME S # {} PROVE FALSE
  BY <1>0
<1>1. PICK m \in S : \A k \in S : m <= k
  <2>1. S \in SUBSET Nat
    OBVIOUS
  <2>2. QED
    BY <2>1, LeastNumber
<1>2. CASE m = 0
  <2>1. Loop(f, l, 0, [n \in 0 .. 0 |-> <<>>])
    BY DEF Loop
  <2>2. QED
    BY <1>1, <1>2, <2>1
<1>3. CASE m # 0
  <2>1. m - 1 \in 0 .. Len(f) /\ m - 1 \notin S /\ m \in Nat /\ m >= 1
    BY <1>1, <1>3
  <2>2. PICK g : Loop(f, l, m - 1, g)
    BY <2>1
  <2> DEFINE Next1(h, n) == IF n = 0 THEN <<>>
                           ELSE IF f[n].label = l THEN h[n - 1]
                           ELSE Append(h[n - 1], f[n])
             h == [n \in 0 .. m |-> IF n = m THEN Next1(g, m) ELSE g[n]]
  <2>3. \A n \in 0 .. m - 1 : g[n] = Next1(g, n)
    BY <2>1, <2>2 DEF Loop
  <2>4. \A n \in 0 .. m : h[n] = Next1(h, n)
    <3> SUFFICES ASSUME NEW n \in 0 .. m PROVE h[n] = Next1(h, n)
      OBVIOUS
    <3>1. n # 0 => h[n - 1] = g[n - 1]
      BY <2>1
    <3>2. CASE n = m
      BY <2>1, <3>1, <3>2
    <3>3. CASE n # m
      BY <2>1, <2>3, <3>1, <3>3
    <3>4. QED
      BY <3>2, <3>3
  <2>5. h = [n \in 0 .. m |-> Next1(h, n)]
    BY <2>4
  <2>6. Loop(f, l, m, h)
    BY <2>5 DEF Loop
  <2>7. QED
    BY <1>1, <2>6
<1>4. QED
  BY <1>2, <1>3

LEMMA WithoutRuns ==
  ASSUME NEW f \in Seq(Config), NEW l
  PROVE  \E g : Loop(f, l, Len(f), g) /\ Without(f, l) = g[Len(f)]
<1> DEFINE g == CHOOSE g : Loop(f, l, Len(f), g)
<1>1. Loop(f, l, Len(f), g)
  BY LoopRuns
<1>2. Without(f, l) = g[Len(f)]
  BY DEF Without, Loop
<1>3. QED
  BY <1>1, <1>2

\* One record of a label at most.
Single(f) == \A i, j \in DOMAIN f : f[i].label = f[j].label => i = j

\* Appending a record adds its label, and keeps the labels single if it is new.
LEMMA AppendFacts ==
  ASSUME NEW f \in Seq(Config), NEW r \in Config
  PROVE  /\ Append(f, r) \in Seq(Config)
         /\ \A k : InFile(Append(f, r), k) <=> InFile(f, k) \/ r.label = k
         /\ Single(f) /\ ~InFile(f, r.label) => Single(Append(f, r))
<1> DEFINE a == Append(f, r)
<1>1. /\ a \in Seq(Config) /\ DOMAIN f = 1 .. Len(f) /\ Len(f) \in Nat
      /\ DOMAIN a = 1 .. Len(f) + 1 /\ a[Len(f) + 1] = r
      /\ \A i \in 1 .. Len(f) : a[i] = f[i]
  OBVIOUS
<1> HIDE DEF a
<1>2. \A i \in DOMAIN a : i \in DOMAIN f \/ i = Len(f) + 1
  BY <1>1
<1>3. \A k : InFile(a, k) <=> InFile(f, k) \/ r.label = k
  BY <1>1, <1>2 DEF InFile
<1>4. Single(f) /\ ~InFile(f, r.label) => Single(a)
  BY <1>1, <1>2 DEF InFile, Single
<1>5. QED
  BY <1>1, <1>3, <1>4 DEF a

\* Induction over the loop: what is left are the records of the other labels.
LEMMA WithoutFacts ==
  ASSUME NEW f \in Seq(Config), NEW l
  PROVE  /\ Without(f, l) \in Seq(Config)
         /\ \A k : InFile(Without(f, l), k) <=> InFile(f, k) /\ k # l
         /\ Single(f) => Single(Without(f, l))
<1>1. PICK g : Loop(f, l, Len(f), g) /\ Without(f, l) = g[Len(f)]
  BY WithoutRuns
<1> DEFINE G(n) == /\ g[n] \in Seq(Config)
                   /\ \A k : InFile(g[n], k) <=> k # l /\ \E i \in 1 .. n : f[i].label = k
                   /\ Single(f) => Single(g[n])
           S == {n \in 0 .. Len(f) : ~G(n)}
<1>2. Len(f) \in Nat /\ Len(f) \in 0 .. Len(f) /\ DOMAIN f = 1 .. Len(f)
  OBVIOUS
<1>3. S = {}
  <2> SUFFICES ASSUME S # {} PROVE FALSE
    OBVIOUS
  <2>1. PICK m \in S : \A k \in S : m <= k
    <3>1. S \in SUBSET Nat
      BY <1>2
    <3>2. QED
      BY <3>1, LeastNumber
  <2>2. CASE m = 0
    <3>1. g[0] = <<>>
      BY <1>1, <1>2 DEF Loop
    <3>2. G(0)
      BY <3>1 DEF InFile, Single
    <3>3. QED
      BY <2>1, <2>2, <3>2
  <2>3. CASE m # 0
    <3>1. m \in 1 .. Len(f) /\ m - 1 \in 0 .. Len(f) /\ m - 1 \notin S
      <4>1. m \in 0 .. Len(f)
        BY <2>1
      <4>2. m \in 1 .. Len(f) /\ m - 1 \in 0 .. Len(f) /\ ~(m <= m - 1)
        BY <1>2, <2>3, <4>1
      <4>3. QED
        BY <2>1, <4>2
    <3>2. G(m - 1)
      BY <3>1
    <3>3. g[m] = IF f[m].label = l THEN g[m - 1] ELSE Append(g[m - 1], f[m])
      BY <1>1, <1>2, <2>3, <3>1 DEF Loop
    <3>4. f[m] \in Config
      BY <1>2, <3>1
    <3>5. \A k : (\E i \in 1 .. m : f[i].label = k)
                   <=> (\E i \in 1 .. m - 1 : f[i].label = k) \/ f[m].label = k
      BY <3>1
    <3>6. CASE f[m].label = l
      <4>1. G(m)
        BY <3>2, <3>3, <3>5, <3>6
      <4>2. QED
        BY <2>1, <4>1
    <3>7. CASE f[m].label # l
      <4>1. g[m] = Append(g[m - 1], f[m]) /\ g[m - 1] \in Seq(Config)
        BY <3>2, <3>3, <3>7
      <4>2. g[m] \in Seq(Config)
        BY <3>4, <4>1
      <4>3. \A k : InFile(g[m], k) <=> k # l /\ \E i \in 1 .. m : f[i].label = k
        <5>1. \A k : InFile(g[m], k) <=> InFile(g[m - 1], k) \/ f[m].label = k
          BY <3>4, <4>1, AppendFacts
        <5>2. \A k : InFile(g[m - 1], k) <=> k # l /\ \E i \in 1 .. m - 1 : f[i].label = k
          BY <3>2
        <5>3. QED
          BY <3>5, <3>7, <5>1, <5>2
      <4>4. ASSUME Single(f) PROVE Single(g[m])
        <5>1. ~InFile(g[m - 1], f[m].label)
          BY <1>2, <3>1, <3>2, <4>4 DEF Single
        <5>2. QED
          BY <3>2, <3>4, <4>1, <4>4, <5>1, AppendFacts
      <4>5. G(m)
        BY <4>2, <4>3, <4>4
      <4>6. QED
        BY <2>1, <4>5
    <3>8. QED
      BY <3>6, <3>7
  <2>4. QED
    BY <2>2, <2>3
<1>4. G(Len(f))
  BY <1>2, <1>3
<1>5. QED
  BY <1>1, <1>2, <1>4 DEF InFile

\* UpdateAccountUPN moves no record.
LEMMA UpnFacts ==
  ASSUME NEW f \in Seq(Config), NEW l, InFile(f, l), NEW m \in MaybeUser
  PROVE  LET g == [f EXCEPT ![First(f, l)].upn = m]
         IN  /\ g \in Seq(Config)
             /\ \A k : InFile(g, k) <=> InFile(f, k)
             /\ Single(f) => Single(g)
<1> DEFINE g == [f EXCEPT ![First(f, l)].upn = m]
<1>1. First(f, l) \in DOMAIN f
  BY FirstRecord
<1>2. g = [f EXCEPT ![First(f, l)] = [@ EXCEPT !.upn = m]]
  OBVIOUS
<1>3. f[First(f, l)] \in Config /\ [f[First(f, l)] EXCEPT !.upn = m] \in Config
  <2>1. f[First(f, l)] \in Config
    BY <1>1
  <2>2. QED
    BY <2>1 DEF Config
<1>4. g \in Seq(Config) /\ DOMAIN g = DOMAIN f
  BY <1>1, <1>2, <1>3
<1>5. \A i \in DOMAIN f : g[i].label = f[i].label
  BY <1>1, <1>3 DEF Config
<1> HIDE DEF g
<1>6. QED
  BY <1>4, <1>5 DEF InFile, Single, g

\* What the three edits make of the records the call has loaded.
LEMMA EditedFacts ==
  ASSUME TypeOK, NEW c \in Calls, kind[c] = "remove" => pc[c] # "upnSave",
         NEW ours \in BOOLEAN
  PROVE  LET e == Edited(c, ours)
         IN  /\ e \in Seq(Config)
             /\ kind[c] = "remove" => \A k : InFile(e, k) <=> InFile(view[c], k) /\ k # label[c]
             /\ kind[c] # "remove" /\ pc[c] = "upnSave" =>
                  \A k : InFile(e, k) <=> InFile(view[c], k)
             /\ kind[c] # "remove" /\ pc[c] # "upnSave" =>
                  \A k : InFile(e, k) <=> InFile(view[c], k) \/ k = label[c]
             /\ \/ kind[c] = "remove" \/ pc[c] = "upnSave" \/ ~InFile(view[c], label[c])
                => (Single(view[c]) => Single(e))
<1>1. /\ view[c] \in Seq(Config) /\ label[c] \in Labels /\ mail[c] \in MaybeUser
      /\ [label |-> label[c], upn |-> NoUser, ours |-> ours] \in Config
  BY DEF TypeOK, Config, MaybeUser
<1>2. CASE kind[c] = "remove"
  <2>1. Edited(c, ours) = Without(view[c], label[c])
    BY <1>2 DEF Edited
  <2>2. QED
    BY <1>1, <1>2, <2>1, WithoutFacts
<1>3. CASE kind[c] # "remove" /\ pc[c] = "upnSave"
  <2>1. CASE InFile(view[c], label[c])
    BY <1>1, <1>3, <2>1, UpnFacts DEF Edited
  <2>2. CASE ~InFile(view[c], label[c])
    BY <1>1, <1>3, <2>2 DEF Edited
  <2>3. QED
    BY <2>1, <2>2
<1>4. CASE kind[c] # "remove" /\ pc[c] # "upnSave"
  <2> DEFINE r == [label |-> label[c], upn |-> NoUser, ours |-> ours]
  <2>1. Edited(c, ours) = Append(view[c], r) /\ r \in Config /\ r.label = label[c]
    BY <1>1, <1>4 DEF Edited
  <2> HIDE DEF r
  <2>2. QED
    BY <1>1, <1>4, <2>1, AppendFacts
<1>5. QED
  BY <1>2, <1>3, <1>4

\* A restart makes entries of records; with a file read in full and every
\* credential made, exactly its labels and the implicit default are registered.
LEMMA RestoredFacts ==
  ASSUME NEW f \in Seq(Config), tokens \in [Labels -> MaybeUser],
         NEW made \in SUBSET Labels, NEW silent \in SUBSET made
  PROVE  /\ Restored(f, made, silent) \in [Labels -> Entry]
         /\ \A l \in Labels :
              LET e == Restored(f, made, silent)[l]
              IN  /\ e.by = NoCall
                  /\ e.state # "absent" => l = DefaultLabel \/ InFile(f, l)
                  /\ InFile(f, l) /\ l \in made => e.state # "absent"
<1> SUFFICES ASSUME NEW l \in Labels
             PROVE  LET e == Restored(f, made, silent)[l]
                    IN  /\ e \in Entry /\ e.by = NoCall
                        /\ e.state # "absent" => l = DefaultLabel \/ InFile(f, l)
                        /\ InFile(f, l) /\ l \in made => e.state # "absent"
  BY DEF Restored
<1>1. CASE l = DefaultLabel /\ ImplicitDefault(f)
  <2>1. Restored(f, made, silent)[l] = [Absent EXCEPT !.state = "connected"]
    <3>1. ~InFile(f, l)
      BY <1>1 DEF ImplicitDefault, InFile
    <3>2. QED
      BY <1>1, <3>1, Zenon DEF Restored
  <2>2. QED
    BY <1>1, <2>1 DEF Absent, Entry, MaybeUser
<1>2. CASE ~(l = DefaultLabel /\ ImplicitDefault(f)) /\ InFile(f, l) /\ l \in made
  <2>1. f[First(f, l)].upn \in MaybeUser
    <3>1. f[First(f, l)] \in Config
      BY <1>2, FirstRecord
    <3>2. QED
      BY <3>1 DEF Config
  <2>2. Restored(f, made, silent)[l] =
          [state |-> IF l \in silent THEN "connected" ELSE "disconnected",
           owner |-> IF l \in silent THEN tokens[l] ELSE NoUser,
           email |-> f[First(f, l)].upn, own |-> TRUE, by |-> NoCall]
    BY <1>2 DEF Restored
  <2>3. QED
    BY <1>2, <2>1, <2>2 DEF Entry, MaybeUser
<1>3. CASE ~(l = DefaultLabel /\ ImplicitDefault(f)) /\ ~(InFile(f, l) /\ l \in made)
  <2>1. Restored(f, made, silent)[l] = Absent
    BY <1>3 DEF Restored
  <2>2. QED
    BY <1>3, <2>1 DEF Absent, Entry, MaybeUser
<1>4. QED
  BY <1>1, <1>2, <1>3

-------------------------------------------------------------------------------
\* Types.
LEMMA InitType == Init => TypeOK
<1> SUFFICES ASSUME Init PROVE TypeOK
  OBVIOUS
<1>1. file \in Seq(Config) /\ tokens \in [Labels -> MaybeUser]
  BY DEF Init, MaybeUser
<1>2. entries \in [Labels -> Entry]
  BY <1>1, RestoredFacts DEF Init
<1>3. /\ kind \in [Calls -> Kinds] /\ pc \in [Calls -> Steps] /\ label \in [Calls -> Labels]
      /\ owner \in [Calls -> MaybeUser] /\ mail \in [Calls -> MaybeUser]
  BY DEF Init, Kinds, Steps, MaybeUser
<1>4. view \in [Calls -> Seq(Config)] /\ held \in [Calls -> Calls \cup {NoCall}]
  BY DEF Init
<1>5. /\ clears \in [Calls -> BOOLEAN]
      /\ acked \in [Labels -> {"none", "removing", "removed"}]
  BY DEF Init
<1>6. crashes \in 0 .. MaxCrashes
  BY DEF Init
<1>7. raced \in BOOLEAN /\ crossed \in BOOLEAN /\ swapped \in BOOLEAN /\ failed \in BOOLEAN
  BY DEF Init
<1>8. QED
  BY <1>1, <1>2, <1>3, <1>4, <1>5, <1>6, <1>7 DEF TypeOK

\* A call that moves to a step stays one of the steps.
LEMMA GotoType ==
  ASSUME TypeOK, NEW c \in Calls, \E s \in Steps : Goto(c, s)
  PROVE  pc' \in [Calls -> Steps]
  BY DEF Goto, TypeOK

LEMMA BeginType ==
  ASSUME TypeOK, NEW c \in Calls, NEW l \in Labels,
         BeginAdd(c, l) \/ BeginLogin(c, l) \/ BeginLogout(c, l) \/ BeginRemove(c, l)
           \/ BeginList(c, l)
  PROVE  TypeOK'
<1>1. /\ {"add", "login", "logout", "remove", "list"} \subseteq Kinds
      /\ {"signin", "answered", "entry", "mail"} \subseteq Steps
      /\ entries[l] \in Entry
  BY DEF Kinds, Steps, TypeOK
<1>2. entries[l].own \in BOOLEAN /\ entries[l].owner \in MaybeUser
      /\ entries[l].by \in Calls \cup {NoCall}
  BY <1>1 DEF Entry
<1>3. CASE BeginAdd(c, l)
  BY <1>1, <1>3 DEF BeginAdd, Begin, Goto, TypeOK
<1>4. CASE BeginLogin(c, l)
  BY <1>1, <1>4 DEF BeginLogin, Begin, Goto, TypeOK, history
<1>5. CASE BeginLogout(c, l)
  BY <1>1, <1>2, <1>5 DEF BeginLogout, Begin, Goto, TypeOK, history
<1>6. CASE BeginRemove(c, l)
  BY <1>1, <1>2, <1>6 DEF BeginRemove, Begin, Goto, TypeOK, history
<1>7. CASE BeginList(c, l)
  BY SMTT(30), <1>1, <1>2, <1>7 DEF BeginList, Begin, Goto, TypeOK, history
<1>8. QED
  BY <1>3, <1>4, <1>5, <1>6, <1>7

\* What the verbs write in the registry are entries.
LEMMA EntryType ==
  ASSUME TypeOK, NEW l \in Labels,
         \/ \E e \in Entry : entries' = [entries EXCEPT ![l] = e]
         \/ \E s \in {"disconnected", "connected"}, u \in MaybeUser :
              \/ entries' = [entries EXCEPT ![l].state = s, ![l].owner = u]
              \/ entries' = [entries EXCEPT ![l].state = s, ![l].owner = u,
                                            ![l].own = TRUE, ![l].email = NoUser]
         \/ \E m \in MaybeUser : entries' = [entries EXCEPT ![l].email = m]
  PROVE  entries' \in [Labels -> Entry]
<1>1. entries[l] \in Entry /\ NoUser \in MaybeUser
  BY DEF TypeOK, MaybeUser
<1>2. ASSUME NEW e \in Entry, entries' = [entries EXCEPT ![l] = e]
      PROVE  entries' \in [Labels -> Entry]
  BY <1>2 DEF TypeOK
<1>3. ASSUME NEW s \in {"disconnected", "connected"}, NEW u \in MaybeUser,
             entries' = [entries EXCEPT ![l].state = s, ![l].owner = u]
      PROVE  \E e \in Entry : entries' = [entries EXCEPT ![l] = e]
  <2>1. [entries[l] EXCEPT !.state = s, !.owner = u] \in Entry
    BY <1>1 DEF Entry
  <2>2. entries' = [entries EXCEPT ![l] = [entries[l] EXCEPT !.state = s, !.owner = u]]
    BY <1>3 DEF TypeOK
  <2>3. QED
    BY <2>1, <2>2
<1>4. ASSUME NEW s \in {"disconnected", "connected"}, NEW u \in MaybeUser,
             entries' = [entries EXCEPT ![l].state = s, ![l].owner = u,
                                        ![l].own = TRUE, ![l].email = NoUser]
      PROVE  \E e \in Entry : entries' = [entries EXCEPT ![l] = e]
  <2> DEFINE e == [entries[l] EXCEPT !.state = s, !.owner = u, !.own = TRUE, !.email = NoUser]
  <2>1. e \in Entry
    BY <1>1 DEF Entry
  <2>2. entries' = [entries EXCEPT ![l] = e]
    BY <1>4 DEF TypeOK
  <2>3. QED
    BY <2>1, <2>2
<1>5. ASSUME NEW m \in MaybeUser, entries' = [entries EXCEPT ![l].email = m]
      PROVE  \E e \in Entry : entries' = [entries EXCEPT ![l] = e]
  <2>1. [entries[l] EXCEPT !.email = m] \in Entry
    BY <1>1 DEF Entry
  <2>2. entries' = [entries EXCEPT ![l] = [entries[l] EXCEPT !.email = m]]
    BY <1>5 DEF TypeOK
  <2>3. QED
    BY <2>1, <2>2
<1>6. QED
  BY <1>2, <1>3, <1>4, <1>5

LEMMA RegisterType ==
  ASSUME TypeOK, NEW c \in Calls,
         SignIn(c) \/ AddRegister(c) \/ LoginUpdate(c) \/ LogoutUpdate(c) \/ RemoveEntry(c)
  PROVE  TypeOK'
<1>1. /\ label[c] \in Labels /\ owner[c] \in MaybeUser
      /\ NoUser \in MaybeUser /\ Users \subseteq MaybeUser
      /\ entries[label[c]] \in Entry /\ Absent \in Entry
  BY DEF TypeOK, MaybeUser, Absent, Entry
<1>2. pc' \in [Calls -> Steps]
  <2>1. {"register", "answered", "mail", "load", "clear"} \subseteq Steps
    BY DEF Steps
  <2>2. QED
    BY <2>1, GotoType DEF SignIn, AddRegister, LoginUpdate, LogoutUpdate, RemoveEntry, Answer
<1>3. CASE SignIn(c)
  <2>1. owner' \in [Calls -> MaybeUser]
    BY ZenonT(60), <1>1, <1>3 DEF SignIn, TypeOK
  <2>2. tokens' \in [Labels -> MaybeUser]
    BY <1>1, <1>3 DEF SignIn, TypeOK
  <2>3. QED
    BY <1>2, <1>3, <2>1, <2>2 DEF SignIn, TypeOK, history
<1>4. CASE AddRegister(c)
  <2>1. [state |-> "connected", owner |-> owner[c], email |-> NoUser,
         own |-> TRUE, by |-> c] \in Entry
    BY <1>1 DEF Entry
  <2>2. entries' \in [Labels -> Entry]
    <3>1. CASE UNCHANGED entries
      BY <3>1 DEF TypeOK
    <3>2. CASE ~UNCHANGED entries
      BY <1>1, <1>4, <2>1, <3>2, EntryType DEF AddRegister
    <3>3. QED
      BY <3>1, <3>2
  <2>3. crossed' \in BOOLEAN
    BY <1>4 DEF AddRegister, TypeOK
  <2>4. held' \in [Calls -> Calls \cup {NoCall}]
    BY <1>4 DEF AddRegister, TypeOK
  <2>5. QED
    BY <1>2, <1>4, <2>2, <2>3, <2>4 DEF AddRegister, TypeOK
<1>5. CASE LoginUpdate(c)
  <2>1. entries' \in [Labels -> Entry]
    <3>1. CASE UNCHANGED entries
      BY <3>1 DEF TypeOK
    <3>2. CASE ~UNCHANGED entries
      BY <1>1, <1>5, <3>2, EntryType DEF LoginUpdate
    <3>3. QED
      BY <3>1, <3>2
  <2>2. swapped' \in BOOLEAN
    BY <1>5 DEF LoginUpdate, TypeOK
  <2>3. held' \in [Calls -> Calls \cup {NoCall}]
    <3>1. entries[label[c]].by \in Calls \cup {NoCall}
      BY <1>1 DEF Entry
    <3>2. QED
      BY <1>5, <3>1 DEF LoginUpdate, TypeOK
  <2>4. QED
    BY <1>2, <1>5, <2>1, <2>2, <2>3 DEF LoginUpdate, TypeOK
<1>6. CASE LogoutUpdate(c)
  <2>1. entries' \in [Labels -> Entry]
    <3>1. CASE UNCHANGED entries
      BY <3>1 DEF TypeOK
    <3>2. CASE ~UNCHANGED entries
      BY <1>1, <1>6, <3>2, EntryType DEF LogoutUpdate
    <3>3. QED
      BY <3>1, <3>2
  <2>2. QED
    BY <1>2, <1>6, <2>1 DEF LogoutUpdate, TypeOK, history
<1>7. CASE RemoveEntry(c)
  <2>1. entries' \in [Labels -> Entry]
    <3>1. CASE UNCHANGED entries
      BY <3>1 DEF TypeOK
    <3>2. CASE ~UNCHANGED entries
      BY <1>1, <1>7, <3>2, EntryType DEF RemoveEntry
    <3>3. QED
      BY <3>1, <3>2
  <2>2. crossed' \in BOOLEAN
    BY <1>7 DEF RemoveEntry, TypeOK
  <2>3. acked' \in [Labels -> {"none", "removing", "removed"}]
    BY <1>1, <1>7 DEF RemoveEntry, TypeOK
  <2>4. QED
    BY SMTT(30), <1>2, <1>7, <2>1, <2>2, <2>3 DEF RemoveEntry, TypeOK
<1>8. QED
  BY <1>3, <1>4, <1>5, <1>6, <1>7

LEMMA FileType ==
  ASSUME TypeOK, FlowInv, NEW c \in Calls,
         Load(c) \/ Save(c) \/ UpnCheck(c) \/ UpnLoad(c) \/ ClearTokens(c)
  PROVE  TypeOK'
<1>1. label[c] \in Labels /\ NoUser \in MaybeUser
  BY DEF TypeOK, MaybeUser
<1>2. pc' \in [Calls -> Steps]
  <2>1. /\ {"save", "answered", "upnLoad", "upnSave"} \subseteq Steps
        /\ After(c) \in Steps
    BY DEF Steps, After
  <2>2. QED
    BY <2>1, GotoType DEF Load, Save, UpnCheck, UpnLoad, ClearTokens, Answer
<1>3. CASE Load(c)
  <2>1. view' \in [Calls -> Seq(Config)]
    BY <1>3 DEF Load, TypeOK
  <2>2. QED
    BY <1>2, <1>3, <2>1 DEF Load, TypeOK
<1>4. CASE Save(c)
  <2>1. kind[c] = "remove" => pc[c] # "upnSave"
    BY DEF FlowInv
  <2>2. file' \in Seq(Config)
    <3>1. \A ours \in BOOLEAN : Edited(c, ours) \in Seq(Config)
      BY <2>1, EditedFacts
    <3>2. QED
      BY <1>4, <3>1 DEF Save, TypeOK
  <2>3. raced' \in BOOLEAN
    BY <1>4 DEF Save, TypeOK
  <2>4. failed' \in BOOLEAN
    BY <1>4 DEF Save, TypeOK
  <2>5. QED
    BY <1>2, <1>4, <2>2, <2>3, <2>4 DEF Save, TypeOK
<1>5. CASE UpnCheck(c)
  BY <1>2, <1>5 DEF UpnCheck, TypeOK, history
<1>6. CASE UpnLoad(c)
  <2>1. view' \in [Calls -> Seq(Config)]
    BY <1>6 DEF UpnLoad, TypeOK
  <2>2. QED
    BY <1>2, <1>6, <2>1 DEF UpnLoad, TypeOK, history
<1>7. CASE ClearTokens(c)
  <2>1. tokens' \in [Labels -> MaybeUser]
    BY <1>1, <1>7 DEF ClearTokens, Cleared, TypeOK
  <2>2. acked' \in [Labels -> {"none", "removing", "removed"}]
    BY <1>7 DEF ClearTokens, TypeOK
  <2>3. QED
    BY <1>2, <1>7, <2>1, <2>2 DEF ClearTokens, TypeOK
<1>8. QED
  BY <1>3, <1>4, <1>5, <1>6, <1>7

LEMMA MailType ==
  ASSUME TypeOK, NEW c \in Calls, FetchEmail(c) \/ StoreEmail(c)
  PROVE  TypeOK'
<1>1. /\ label[c] \in Labels /\ owner[c] \in MaybeUser /\ NoUser \in MaybeUser
      /\ mail[c] \in MaybeUser /\ entries[label[c]] \in Entry
  BY DEF TypeOK, MaybeUser
<1>2. entries[label[c]].email \in MaybeUser /\ entries[label[c]].owner \in MaybeUser
  BY <1>1 DEF Entry
<1>3. pc' \in [Calls -> Steps]
  <2>1. {"store", "upnCheck", "answered"} \subseteq Steps
    BY DEF Steps
  <2>2. QED
    BY <2>1, GotoType DEF FetchEmail, StoreEmail
<1>4. CASE FetchEmail(c)
  <2>1. mail' \in [Calls -> MaybeUser]
    BY <1>1, <1>2, <1>4 DEF FetchEmail, TypeOK
  <2>2. QED
    BY <1>3, <1>4, <2>1 DEF FetchEmail, TypeOK, history
<1>5. CASE StoreEmail(c)
  <2>1. \E m \in MaybeUser : entries' = [entries EXCEPT ![label[c]].email = m]
    BY <1>1, <1>2, <1>5 DEF StoreEmail, TypeOK
  <2>2. entries' \in [Labels -> Entry]
    BY <1>1, <2>1, EntryType
  <2>3. QED
    BY <1>3, <1>5, <2>2 DEF StoreEmail, TypeOK, history
<1>6. QED
  BY <1>4, <1>5

LEMMA CrashType == ASSUME TypeOK, Crash PROVE TypeOK'
<1>1. PICK f \in {file, <<>>}, made \in SUBSET Labels :
        \E silent \in SUBSET {l \in made : tokens[l] # NoUser} :
          /\ entries' = Restored(f, made, silent)
          /\ failed' = (failed \/ f # file \/ \E l \in Labels \ made : InFile(f, l))
  BY DEF Crash
<1>2. f \in Seq(Config) /\ tokens \in [Labels -> MaybeUser]
  <2>1. f = file \/ f = <<>>
    BY <1>1
  <2>2. <<>> \in Seq(Config)
    OBVIOUS
  <2>3. file \in Seq(Config) /\ tokens \in [Labels -> MaybeUser]
    BY DEF TypeOK
  <2>4. QED
    BY <2>1, <2>2, <2>3
<1>3. entries' \in [Labels -> Entry]
  <2>1. PICK silent \in SUBSET made : entries' = Restored(f, made, silent)
    BY <1>1
  <2>2. QED
    BY <1>2, <2>1, RestoredFacts
<1>4. crashes' \in 0 .. MaxCrashes
  BY DEF Crash, TypeOK
<1>5. failed' \in BOOLEAN
  BY <1>1
<1>6. pc' \in [Calls -> Steps]
  BY DEF Crash, TypeOK, Steps
<1>7. QED
  BY <1>3, <1>4, <1>5, <1>6 DEF Crash, TypeOK

LEMMA NextType == TypeOK /\ FlowInv /\ [Next]_vars => TypeOK'
<1> SUFFICES ASSUME TypeOK, FlowInv, [Next]_vars PROVE TypeOK'
  OBVIOUS
<1>1. ASSUME NEW c \in Calls, CallStep(c) PROVE TypeOK'
  BY <1>1, BeginType, RegisterType, FileType, MailType DEF CallStep
<1>2. CASE UNCHANGED vars
  BY <1>2 DEF vars, callVars, history, TypeOK
<1>3. QED
  BY <1>1, <1>2, CrashType DEF Next, Quiescent

-------------------------------------------------------------------------------
\* A call begins once, as one verb on one label, and leaves the others alone.
BeginStep(c, l) == BeginAdd(c, l) \/ BeginLogin(c, l) \/ BeginLogout(c, l)
                     \/ BeginRemove(c, l) \/ BeginList(c, l)
LaterStep(c) == \/ SignIn(c) \/ AddRegister(c) \/ LoginUpdate(c) \/ Load(c) \/ Save(c)
                \/ FetchEmail(c) \/ StoreEmail(c) \/ UpnCheck(c) \/ UpnLoad(c)
                \/ LogoutUpdate(c) \/ RemoveEntry(c) \/ ClearTokens(c)

LEMMA StepSplit ==
  ASSUME NEW c \in Calls, CallStep(c)
  PROVE  (\E l \in Labels : BeginStep(c, l)) \/ LaterStep(c)
  BY DEF CallStep, BeginStep, LaterStep

LEMMA BeginFrame ==
  ASSUME TypeOK, NEW c \in Calls, NEW l \in Labels, BeginStep(c, l)
  PROVE  /\ pc[c] = "idle" /\ label'[c] = l
         /\ \/ kind'[c] = "add" /\ pc'[c] \in {"signin", "answered"}
            \/ kind'[c] = "login" /\ pc'[c] \in {"signin", "answered"}
            \/ kind'[c] = "logout" /\ pc'[c] \in {"entry", "answered"}
            \/ kind'[c] = "remove" /\ pc'[c] = "entry"
            \/ kind'[c] = "list" /\ pc'[c] = "mail"
         /\ \A d \in Calls \ {c} :
              /\ kind'[d] = kind[d] /\ label'[d] = label[d] /\ pc'[d] = pc[d]
              /\ clears'[d] = clears[d] /\ held'[d] = held[d]
         /\ UNCHANGED <<entries, file, tokens, crashes, view, mail, raced, crossed, swapped,
                        failed>>
         /\ acked' = acked \/ acked' = [acked EXCEPT ![l] = "none"]
         /\ kind'[c] = "add" /\ pc'[c] = "signin" => acked'[l] = "none"
<1> USE DEF Begin, Goto, TypeOK, history
<1>1. CASE BeginAdd(c, l)
  BY <1>1 DEF BeginAdd
<1>2. CASE BeginLogin(c, l)
  BY <1>2 DEF BeginLogin
<1>3. CASE BeginLogout(c, l)
  BY <1>3 DEF BeginLogout
<1>4. CASE BeginRemove(c, l)
  BY <1>4 DEF BeginRemove
<1>5. CASE BeginList(c, l)
  BY <1>5 DEF BeginList
<1>6. QED
  BY <1>1, <1>2, <1>3, <1>4, <1>5 DEF BeginStep

LEMMA LaterFrame ==
  ASSUME TypeOK, NEW c \in Calls, LaterStep(c)
  PROVE  /\ UNCHANGED <<kind, label, clears, crashes>>
         /\ pc[c] \notin {"idle", "answered", "lost"} /\ pc'[c] # "idle"
         /\ \A d \in Calls \ {c} :
              /\ pc'[d] = pc[d] /\ owner'[d] = owner[d] /\ view'[d] = view[d]
              /\ mail'[d] = mail[d] /\ held'[d] = held[d]
         /\ (raced => raced') /\ (crossed => crossed')
         /\ (swapped => swapped') /\ (failed => failed')
<1> USE DEF Goto, Answer, TypeOK, history
<1>1. CASE SignIn(c)
  BY <1>1 DEF SignIn
<1>2. CASE AddRegister(c)
  BY <1>2 DEF AddRegister
<1>3. CASE LoginUpdate(c)
  BY <1>3 DEF LoginUpdate
<1>4. CASE Load(c)
  BY <1>4 DEF Load, After
<1>5. CASE Save(c)
  <2>1. (raced => raced') /\ (failed => failed')
    <3>1. raced' = raced \/ raced' = (raced \/ file # view[c])
      BY <1>5, Zenon DEF Save
    <3>2. failed' = failed \/ failed' = TRUE
      BY <1>5, Zenon DEF Save
    <3>3. QED
      BY <3>1, <3>2, Zenon
  <2>2. \E s \in {"mail", "clear", "answered"} : pc' = [pc EXCEPT ![c] = s]
    BY <1>5 DEF Save, After
  <2>3. QED
    BY <1>5, <2>1, <2>2 DEF Save
<1>6. CASE FetchEmail(c)
  BY <1>6 DEF FetchEmail
<1>7. CASE StoreEmail(c)
  BY <1>7 DEF StoreEmail
<1>8. CASE UpnCheck(c) \/ UpnLoad(c)
  BY <1>8 DEF UpnCheck, UpnLoad
<1>9. CASE LogoutUpdate(c)
  BY <1>9 DEF LogoutUpdate
<1>10. CASE RemoveEntry(c)
  BY <1>10 DEF RemoveEntry
<1>11. CASE ClearTokens(c)
  BY <1>11 DEF ClearTokens
<1>12. QED
  BY <1>1, <1>2, <1>3, <1>4, <1>5, <1>6, <1>7, <1>8, <1>9, <1>10, <1>11 DEF LaterStep

\* Where a step takes a call from where it is.
Mailing == {"mail", "store", "upnCheck", "upnLoad", "upnSave"}
Moves(c) ==
  \/ pc[c] = "signin" /\ pc'[c] \in {"register", "answered"}
  \/ pc[c] = "register" /\ kind[c] = "add" /\ pc'[c] \in {"load", "answered"}
  \/ pc[c] = "register" /\ kind[c] = "login" /\ pc'[c] \in {"mail", "answered"}
  \/ pc[c] = "load" /\ pc'[c] \in {"save", After(c)}
  \/ pc[c] = "save" /\ pc'[c] = After(c)
  \/ pc[c] \in Mailing /\ pc'[c] \in {"store", "upnCheck", "upnLoad", "upnSave", "answered"}
  \/ pc[c] = "entry" /\ kind[c] = "logout" /\ pc'[c] \in {"clear", "answered"}
  \/ pc[c] = "entry" /\ kind[c] = "remove" /\ pc'[c] \in {"load", "answered"}
  \/ pc[c] = "clear" /\ pc'[c] = "answered"

LEMMA LaterMoves == ASSUME TypeOK, NEW c \in Calls, LaterStep(c) PROVE Moves(c)
<1>0. pc \in [Calls -> Steps]
  BY DEF TypeOK
<1> USE DEF Goto, Answer, Moves, Mailing
<1>1. CASE SignIn(c) \/ ClearTokens(c)
  BY <1>0, <1>1 DEF SignIn, ClearTokens
<1>2. CASE AddRegister(c) \/ LoginUpdate(c)
  BY <1>0, <1>2 DEF AddRegister, LoginUpdate
<1>3. CASE Load(c)
  BY <1>0, <1>3 DEF Load
<1>4. CASE Save(c)
  BY <1>0, <1>4 DEF Save
<1>5. CASE FetchEmail(c) \/ StoreEmail(c) \/ UpnCheck(c) \/ UpnLoad(c)
  BY <1>0, <1>5 DEF FetchEmail, StoreEmail, UpnCheck, UpnLoad
<1>6. CASE LogoutUpdate(c) \/ RemoveEntry(c)
  BY <1>0, <1>6 DEF LogoutUpdate, RemoveEntry
<1>7. QED
  BY <1>1, <1>2, <1>3, <1>4, <1>5, <1>6 DEF LaterStep

LEMMA CrashFrame ==
  ASSUME TypeOK, Crash
  PROVE  /\ UNCHANGED <<file, tokens, kind, label, owner, view, mail, clears, held, raced,
                        crossed, swapped, acked>>
         /\ \A c \in Calls : pc'[c] = "lost" \/ (pc'[c] = pc[c] /\ pc[c] \in {"idle", "answered"})
         /\ crashes' # 0 /\ (failed => failed')
         /\ \A l \in Labels : entries'[l].by = NoCall
<1>1. PICK f \in {file, <<>>}, made \in SUBSET Labels :
        \E silent \in SUBSET {l \in made : tokens[l] # NoUser} :
          /\ entries' = Restored(f, made, silent)
          /\ failed' = (failed \/ f # file \/ \E l \in Labels \ made : InFile(f, l))
  BY DEF Crash
<1>2. PICK silent \in SUBSET made : entries' = Restored(f, made, silent)
  BY <1>1
<1>3. f \in Seq(Config) /\ tokens \in [Labels -> MaybeUser]
  <2>1. f = file \/ f = <<>>
    BY <1>1
  <2>2. <<>> \in Seq(Config)
    OBVIOUS
  <2>3. file \in Seq(Config) /\ tokens \in [Labels -> MaybeUser]
    BY DEF TypeOK
  <2>4. QED
    BY <2>1, <2>2, <2>3
<1>4. \A l \in Labels : entries'[l].by = NoCall
  <2>1. \A l \in Labels : Restored(f, made, silent)[l].by = NoCall
    BY ZenonT(60), <1>3, RestoredFacts
  <2>2. QED
    BY <1>2, <2>1
<1>5. \A c \in Calls : pc'[c] = "lost" \/ (pc'[c] = pc[c] /\ pc[c] \in {"idle", "answered"})
  BY DEF Crash
<1>6. crashes' # 0
  BY DEF Crash, TypeOK
<1>7. failed => failed'
  BY <1>1, Zenon
<1>8. QED
  BY <1>4, <1>5, <1>6, <1>7 DEF Crash

-------------------------------------------------------------------------------
\* FlowInv and HeldInv.
LEMMA NextFlow == TypeOK /\ FlowInv /\ [Next]_vars => FlowInv'
<1> SUFFICES ASSUME TypeOK, FlowInv, [Next]_vars PROVE FlowInv'
  OBVIOUS
<1>1. ASSUME NEW c \in Calls, CallStep(c) PROVE FlowInv'
  <2>1. ASSUME NEW l \in Labels, BeginStep(c, l) PROVE FlowInv'
    BY <2>1, BeginFrame DEF FlowInv
  <2>2. ASSUME LaterStep(c) PROVE FlowInv'
    BY <2>2, LaterFrame, LaterMoves DEF FlowInv, Moves, Mailing, After
  <2>3. QED
    BY <1>1, <2>1, <2>2, StepSplit
<1>2. CASE Crash
  BY <1>2, CrashFrame DEF FlowInv
<1>3. CASE UNCHANGED vars
  BY <1>3 DEF vars, callVars, FlowInv
<1>4. QED
  BY <1>1, <1>2, <1>3 DEF Next, Quiescent

\* What a step does to one entry of the registry.
Same(l, field) == entries'[l][field] = entries[l][field]
EntryAdded(c, l) ==
  /\ l = label[c] /\ AddRegister(c) /\ ~Registered(l)
  /\ entries'[l].state = "connected" /\ entries'[l].owner = owner[c]
  /\ entries'[l].email = NoUser /\ entries'[l].by = c
EntryLoggedIn(c, l) ==
  /\ l = label[c] /\ LoginUpdate(c) /\ Registered(l)
  /\ entries'[l].state = "connected" /\ entries'[l].owner = owner[c]
  /\ entries'[l].email = NoUser /\ Same(l, "by")
EntryLoggedOut(c, l) ==
  /\ l = label[c] /\ LogoutUpdate(c) /\ Registered(l)
  /\ entries'[l].state = "disconnected" /\ entries'[l].owner = NoUser
  /\ Same(l, "email") /\ Same(l, "by")
EntryRemoved(c, l) ==
  /\ l = label[c] /\ RemoveEntry(c) /\ Registered(l)
  /\ entries'[l].state = "absent" /\ entries'[l].by = NoCall
EntryNamed(c, l) ==
  /\ l = label[c] /\ StoreEmail(c) /\ Holds(c)
  /\ Same(l, "state") /\ Same(l, "owner") /\ Same(l, "by") /\ entries'[l].email = mail[c]

LEMMA StepEntry ==
  ASSUME TypeOK, NEW c \in Calls, CallStep(c), NEW l \in Labels
  PROVE  \/ entries'[l] = entries[l]
         \/ EntryAdded(c, l) \/ EntryLoggedIn(c, l) \/ EntryLoggedOut(c, l)
         \/ EntryRemoved(c, l) \/ EntryNamed(c, l)
<1>1. entries \in [Labels -> Entry] /\ label[c] \in Labels /\ entries[l] \in Entry
  BY DEF TypeOK
<1> USE DEF Entry, Same, Registered
<1>2. CASE AddRegister(c)
  <2>1. UNCHANGED entries \/ ~Registered(label[c])
    BY <1>2 DEF AddRegister
  <2>2. ~UNCHANGED entries =>
          entries' = [entries EXCEPT ![label[c]] =
             [state |-> "connected", owner |-> owner[c], email |-> NoUser,
              own |-> TRUE, by |-> c]]
    BY <1>2 DEF AddRegister
  <2>3. QED
    BY <1>1, <1>2, <2>1, <2>2 DEF EntryAdded
<1>3. CASE LoginUpdate(c)
  BY <1>1, <1>3 DEF LoginUpdate, EntryLoggedIn
<1>4. CASE LogoutUpdate(c)
  BY <1>1, <1>4 DEF LogoutUpdate, EntryLoggedOut
<1>5. CASE RemoveEntry(c)
  BY <1>1, <1>5 DEF RemoveEntry, EntryRemoved, Absent
<1>6. CASE StoreEmail(c)
  <2>1. CASE Holds(c)
    BY <1>1, <1>6, <2>1 DEF StoreEmail, EntryNamed
  <2>2. CASE ~Holds(c)
    BY <1>1, <1>6, <2>2 DEF StoreEmail
  <2>3. QED
    BY <2>1, <2>2
<1>7. CASE UNCHANGED entries
  BY <1>7
<1>8. QED
  BY <1>2, <1>3, <1>4, <1>5, <1>6, <1>7
     DEF CallStep, BeginAdd, BeginLogin, BeginLogout, BeginRemove, BeginList, SignIn, Load,
         Save, FetchEmail, UpnCheck, UpnLoad, ClearTokens

\* Which entry a call holds, and who made the entries.
LEMMA StepNames ==
  ASSUME TypeOK, NEW c \in Calls, CallStep(c)
  PROVE  /\ \A l \in Labels :
              \/ entries'[l].by = entries[l].by
              \/ entries'[l].by = NoCall /\ ~Registered(l)'
              \/ AddRegister(c) /\ l = label[c] /\ ~Registered(l) /\ entries'[l].by = c
         /\ \/ held'[c] = held[c]
            \/ \E l \in Labels : held'[c] = entries[l].by
            \/ AddRegister(c) /\ ~Registered(label[c]) /\ held'[c] = c
<1>1. label[c] \in Labels
  BY DEF TypeOK
<1>2. ASSUME NEW l \in Labels
      PROVE  \/ entries'[l].by = entries[l].by
             \/ entries'[l].by = NoCall /\ ~Registered(l)'
             \/ AddRegister(c) /\ l = label[c] /\ ~Registered(l) /\ entries'[l].by = c
  <2>1. entries[l] \in Entry
    BY DEF TypeOK
  <2>2. QED
    BY <1>1, <2>1, StepEntry
       DEF EntryAdded, EntryLoggedIn, EntryLoggedOut, EntryRemoved, EntryNamed, Same, Registered
<1>3. \/ held'[c] = held[c]
      \/ \E l \in Labels : held'[c] = entries[l].by
      \/ AddRegister(c) /\ ~Registered(label[c]) /\ held'[c] = c
  <2>1. held \in [Calls -> Calls \cup {NoCall}]
    BY DEF TypeOK
  <2>2. CASE AddRegister(c) \/ LoginUpdate(c)
    BY <1>1, <2>1, <2>2 DEF AddRegister, LoginUpdate
  <2>3. ASSUME NEW l \in Labels, BeginList(c, l) PROVE held'[c] = entries[l].by
    BY <2>1, <2>3 DEF BeginList
  <2>4. QED
    BY <2>2, <2>3
       DEF CallStep, BeginAdd, BeginLogin, BeginLogout, BeginRemove, SignIn, Load, Save,
           FetchEmail, StoreEmail, UpnCheck, UpnLoad, LogoutUpdate, RemoveEntry, ClearTokens
<1>4. QED
  BY <1>2, <1>3

LEMMA NextHeld == TypeOK /\ FlowInv /\ HeldInv /\ [Next]_vars => HeldInv'
<1> SUFFICES ASSUME TypeOK, FlowInv, HeldInv, [Next]_vars PROVE HeldInv'
  OBVIOUS
<1>1. ASSUME NEW c \in Calls, CallStep(c) PROVE HeldInv'
  <2>1. \A a \in Calls : Added(a) => Added(a)'
    <3>1. ASSUME NEW l \in Labels, BeginStep(c, l) PROVE \A a \in Calls : Added(a) => Added(a)'
      BY <3>1, BeginFrame DEF Added, FlowInv
    <3>2. ASSUME LaterStep(c) PROVE \A a \in Calls : Added(a) => Added(a)'
      BY <3>2, LaterFrame, LaterMoves DEF Added, Moves, Mailing, After
    <3>3. QED
      BY <1>1, <3>1, <3>2, StepSplit
  <2>2. AddRegister(c) /\ ~Registered(label[c]) => Added(c)'
    BY DEF AddRegister, Added, Goto, TypeOK
  <2>3. \A d \in Calls \ {c} : held'[d] = held[d]
    BY <1>1, StepSplit, BeginFrame, LaterFrame
  <2>4. QED
    BY <1>1, <2>1, <2>2, <2>3, StepNames DEF HeldInv
<1>2. CASE Crash
  BY <1>2, CrashFrame DEF HeldInv, Added
<1>3. CASE UNCHANGED vars
  BY <1>3 DEF vars, callVars, HeldInv, Added
<1>4. QED
  BY <1>1, <1>2, <1>3 DEF Next, Quiescent

-------------------------------------------------------------------------------
\* Addresses.
LEMMA NextEmail ==
  /\ TypeOK /\ FlowInv /\ HeldInv /\ FetchedInv /\ EmailNamesOwner
  /\ [Next]_vars
  => FetchedInv' /\ EmailNamesOwner'
<1> SUFFICES ASSUME TypeOK, FlowInv, HeldInv, FetchedInv, EmailNamesOwner, [Next]_vars
             PROVE  FetchedInv' /\ EmailNamesOwner'
  OBVIOUS
<1>1. ASSUME NEW c \in Calls, CallStep(c) PROVE FetchedInv' /\ EmailNamesOwner'
  <2> SUFFICES ASSUME ~swapped', crashes' = 0 PROVE FetchedInv' /\ EmailNamesOwner'
    BY DEF FetchedInv, EmailNamesOwner
  <2>1. ~swapped /\ crashes = 0
    BY <1>1, StepSplit, BeginFrame, LaterFrame
  <2>2. ASSUME NEW d \in Calls, pc'[d] = "store", Holds(d)', Connected(label[d])'
        PROVE  entries'[label'[d]].owner \in {NoUser, mail'[d]}
    <3>1. CASE d = c
      <4>1. FetchEmail(c) /\ entries' = entries /\ label' = label
        BY ZenonT(60), <1>1, <2>2, <3>1
           DEF CallStep, BeginAdd, BeginLogin, BeginLogout, BeginRemove, BeginList, Begin,
               SignIn, AddRegister, LoginUpdate, Load, Save, After, FetchEmail, StoreEmail,
               UpnCheck, UpnLoad, LogoutUpdate, RemoveEntry, ClearTokens, Goto, Answer,
               TypeOK
      <4>2. mail'[c] = entries[label[c]].owner
        BY <2>2, <3>1, <4>1 DEF FetchEmail, Goto, TypeOK
      <4>3. QED
        BY <3>1, <4>1, <4>2
    <3>2. CASE d # c
      <4>1. /\ pc[d] = "store" /\ label'[d] = label[d] /\ mail'[d] = mail[d]
            /\ held'[d] = held[d]
        BY <1>1, <2>2, <3>2, StepSplit, BeginFrame, LaterFrame
      <4> DEFINE l == label[d]
      <4>2. /\ l \in Labels
            /\ entries'[l].state = "connected" /\ entries'[l].by = held[d]
        BY <1>1, <2>2, <4>1, StepEntry DEF TypeOK, Holds, Connected
      <4> HIDE DEF l
      <4>3. ~(AddRegister(c) /\ entries'[l].by = c)
        BY <4>2 DEF AddRegister, HeldInv, Added
      <4>4. ~(LoginUpdate(c) /\ l = label[c] /\ Registered(l) /\ entries[l].by = held[d])
        BY <1>1, <2>1, <4>1 DEF LoginUpdate, Fetching, l
      <4>5. /\ entries'[l].owner = entries[l].owner /\ entries[l].by = held[d]
            /\ entries[l].state = "connected"
        BY <1>1, <4>2, <4>3, <4>4, StepEntry
           DEF EntryAdded, EntryLoggedIn, EntryLoggedOut, EntryRemoved, EntryNamed, Same
      <4>6. entries[l].owner \in {NoUser, mail[d]}
        BY <2>1, <4>1, <4>5 DEF FetchedInv, Holds, Connected, Registered, l
      <4>7. QED
        BY <4>1, <4>5, <4>6 DEF l
    <3>3. QED
      BY <3>1, <3>2
  <2>3. ASSUME NEW l \in Labels, entries'[l].state = "connected", entries'[l].owner # NoUser
        PROVE  entries'[l].email \in {NoUser, entries'[l].owner}
    <3>2. CASE entries'[l] = entries[l]
      BY <2>1, <2>3, <3>2 DEF EmailNamesOwner, Connected
    <3>3. CASE EntryNamed(c, l)
      <4>1. /\ entries'[l].email = mail[c] /\ entries'[l].owner = entries[l].owner
            /\ entries[l].state = "connected"
        BY <2>3, <3>3 DEF EntryNamed, Same
      <4>2. pc[c] = "store"
        BY <3>3 DEF EntryNamed, StoreEmail
      <4>3. entries[l].owner \in {NoUser, mail[c]}
        BY <2>1, <3>3, <4>1, <4>2 DEF EntryNamed, FetchedInv, Connected
      <4>4. QED
        BY <2>3, <4>1, <4>3
    <3>4. QED
      BY <1>1, <2>3, <3>2, <3>3, StepEntry
         DEF EntryAdded, EntryLoggedIn, EntryLoggedOut, EntryRemoved
  <2>4. QED
    BY <2>2, <2>3 DEF FetchedInv, EmailNamesOwner, Connected
<1>2. CASE Crash
  BY <1>2, CrashFrame DEF FetchedInv, EmailNamesOwner
<1>3. CASE UNCHANGED vars
  BY SMTT(30), <1>3 DEF vars, callVars, history, FetchedInv, EmailNamesOwner, Holds, Connected, Registered
<1>4. QED
  BY <1>1, <1>2, <1>3 DEF Next, Quiescent

-------------------------------------------------------------------------------
\* Removals.  What a later step does to the tokens and to what was acknowledged.
LEMMA StepTokens ==
  ASSUME TypeOK, FlowInv, NEW c \in Calls, LaterStep(c), NEW l \in Labels
  PROVE  /\ tokens'[l] # tokens[l] =>
              \/ l = label[c] /\ kind[c] \in {"add", "login"} /\ acked' = acked
              \/ tokens'[l] = NoUser
         /\ acked'[l] # acked[l] =>
              /\ l = label[c] /\ kind[c] = "remove"
              /\ \/ /\ pc[c] = "entry" /\ tokens' = tokens
                    /\ acked'[l] # "none" =>
                         /\ acked'[l] = "removing"
                         /\ \A d \in Calls : kind[d] = "add" /\ label[d] = l =>
                                               pc[d] \in {"answered", "lost"}
                 \/ /\ acked[l] = "removing"
                    /\ ~failed' /\ clears[c] => tokens'[l] = NoUser
<1>1. /\ label[c] \in Labels /\ tokens \in [Labels -> MaybeUser]
      /\ acked \in [Labels -> {"none", "removing", "removed"}]
  BY DEF TypeOK
<1>2. CASE SignIn(c)
  <2>1. kind[c] \in {"add", "login"}
    BY <1>2 DEF FlowInv, SignIn
  <2>2. acked' = acked /\ (l # label[c] => tokens'[l] = tokens[l])
    BY <1>1, <1>2 DEF SignIn, history
  <2>3. QED
    BY <2>1, <2>2
<1>3. CASE RemoveEntry(c)
  <2>1. tokens' = tokens /\ kind[c] = "remove" /\ pc[c] = "entry"
    BY <1>3 DEF RemoveEntry
  <2>2. acked' = acked \/ acked' = [acked EXCEPT ![label[c]] =
             IF \E d \in Calls : kind[d] = "add" /\ label[d] = label[c]
                                   /\ pc[d] \notin {"answered", "lost"}
             THEN "none" ELSE "removing"]
    BY <1>3 DEF RemoveEntry
  <2>3. QED
    BY <1>1, <2>1, <2>2
<1>4. CASE ClearTokens(c)
  <2>1. \/ tokens' = tokens /\ failed' = TRUE
        \/ tokens' = Cleared(c)
    BY <1>4 DEF ClearTokens
  <2>2. /\ tokens'[l] # tokens[l] => tokens'[l] = NoUser
        /\ ~failed' /\ clears[c] /\ l = label[c] => tokens'[l] = NoUser
    BY <1>1, <2>1 DEF Cleared
  <2>3. acked' = IF kind[c] = "remove" /\ acked[label[c]] = "removing"
                 THEN [acked EXCEPT ![label[c]] = "removed"] ELSE acked
    BY <1>4 DEF ClearTokens
  <2>4. acked'[l] # acked[l] => l = label[c] /\ kind[c] = "remove" /\ acked[l] = "removing"
    BY <1>1, <2>3
  <2>5. QED
    BY <2>2, <2>4
<1>5. CASE UNCHANGED <<tokens, acked>>
  BY <1>5
<1>6. QED
  BY <1>2, <1>3, <1>4, <1>5
     DEF LaterStep, AddRegister, LoginUpdate, Load, Save, FetchEmail, StoreEmail, UpnCheck,
         UpnLoad, LogoutUpdate, history

LEMMA NextAsked ==
  TypeOK /\ FlowInv /\ AskedInv /\ [Next]_vars => AskedInv'
<1> SUFFICES ASSUME TypeOK, FlowInv, AskedInv, [Next]_vars PROVE AskedInv'
  OBVIOUS
<1>1. ASSUME NEW c \in Calls, NEW l \in Labels, BeginStep(c, l) PROVE AskedInv'
  <2> SUFFICES ASSUME NEW d \in Calls, kind'[d] = "add", acked'[label'[d]] # "none"
               PROVE  pc'[d] \in {"answered", "lost"}
    BY DEF AskedInv
  <2>1. CASE d = c
    BY <1>1, <2>1, BeginFrame
  <2>2. CASE d # c
    <3>1. acked[label[d]] # "none"
      <4>1. label[d] \in Labels /\ label'[d] = label[d]
        BY <1>1, <2>2, BeginFrame DEF TypeOK
      <4>2. acked' = acked \/ acked' = [acked EXCEPT ![l] = "none"]
        BY <1>1, BeginFrame
      <4>3. QED
        BY <4>1, <4>2 DEF TypeOK
    <3>2. QED
      BY <1>1, <2>2, <3>1, BeginFrame DEF AskedInv
  <2>3. QED
    BY <2>1, <2>2
<1>2. ASSUME NEW c \in Calls, LaterStep(c) PROVE AskedInv'
  <2> SUFFICES ASSUME NEW d \in Calls, kind'[d] = "add", acked'[label'[d]] # "none"
               PROVE  pc'[d] \in {"answered", "lost"}
    BY DEF AskedInv
  <2>1. kind' = kind /\ label' = label /\ label[d] \in Labels
    BY <1>2, LaterFrame DEF TypeOK
  <2>2. pc[d] \in {"answered", "lost"}
    BY <1>2, <2>1, StepTokens DEF AskedInv
  <2>3. d # c
    BY <1>2, <2>2, LaterFrame
  <2>4. QED
    BY <1>2, <2>2, <2>3, LaterFrame
<1>3. CASE Crash
  BY <1>3, CrashFrame DEF AskedInv, FlowInv
<1>4. CASE UNCHANGED vars
  BY <1>4 DEF vars, callVars, history, AskedInv
<1>5. QED
  BY <1>1, <1>2, <1>3, <1>4, StepSplit DEF Next, Quiescent

LEMMA NextTokens ==
  TypeOK /\ FlowInv /\ AskedInv /\ TokensGoWithAccount /\ [Next]_vars => TokensGoWithAccount'
<1> SUFFICES ASSUME TypeOK, FlowInv, AskedInv, TokensGoWithAccount, [Next]_vars,
                    NEW l \in Labels, ~failed', acked'[l] = "removed",
                    \A c \in Calls : label'[c] = l => /\ kind'[c] # "login"
                                                      /\ kind'[c] = "remove" => clears'[c]
             PROVE  tokens'[l] = NoUser
  BY DEF TokensGoWithAccount
<1>1. ASSUME NEW c \in Calls, NEW k \in Labels, BeginStep(c, k) PROVE tokens'[l] = NoUser
  <2>1. acked[l] = "removed" /\ ~failed /\ tokens' = tokens
    <3>1. /\ acked' = acked \/ acked' = [acked EXCEPT ![k] = "none"]
          /\ UNCHANGED <<failed, tokens>>
      BY <1>1, BeginFrame
    <3>2. QED
      BY <3>1 DEF TypeOK
  <2>2. \A d \in Calls : label[d] = l => /\ kind[d] # "login"
                                         /\ kind[d] = "remove" => clears[d]
    BY <1>1, BeginFrame DEF FlowInv
  <2>3. QED
    BY <2>1, <2>2 DEF TokensGoWithAccount
<1>2. ASSUME NEW c \in Calls, LaterStep(c) PROVE tokens'[l] = NoUser
  <2>1. /\ ~failed
        /\ \A d \in Calls : label[d] = l => /\ kind[d] # "login"
                                            /\ kind[d] = "remove" => clears[d]
    BY <1>2, LaterFrame
  <2>2. CASE acked[l] = "removed"
    <3>1. tokens[l] = NoUser
      BY <2>1, <2>2 DEF TokensGoWithAccount
    <3>2. ~(l = label[c] /\ kind[c] \in {"add", "login"})
      BY <1>2, <2>1, <2>2, LaterFrame DEF AskedInv
    <3>3. QED
      BY <1>2, <3>1, <3>2, StepTokens
  <2>3. CASE acked[l] # "removed"
    BY <1>2, <2>1, <2>3, StepTokens
  <2>4. QED
    BY <2>2, <2>3
<1>3. CASE Crash
  BY <1>3, CrashFrame DEF TokensGoWithAccount
<1>4. CASE UNCHANGED vars
  BY <1>4 DEF vars, callVars, history, TokensGoWithAccount
<1>5. QED
  BY <1>1, <1>2, <1>3, <1>4, StepSplit DEF Next, Quiescent

-------------------------------------------------------------------------------
\* The registry and the file.  What a save that overwrites nothing makes of the
\* labels in the file.
LEMMA SaveFacts ==
  ASSUME TypeOK, FlowInv, NEW c \in Calls, Save(c), ~raced', ~failed'
  PROVE  /\ Single(file) /\ (pc[c] = "save" /\ kind[c] = "add" => ~InFile(file, label[c]))
              => Single(file')
         /\ pc[c] = "save" /\ kind[c] = "add" =>
              \A k : InFile(file', k) <=> InFile(file, k) \/ k = label[c]
         /\ pc[c] = "save" /\ kind[c] = "remove" =>
              /\ \A k : k # label[c] => (InFile(file', k) <=> InFile(file, k))
              /\ InFile(file', label[c]) => InFile(file, label[c]) /\ ~InFile(view[c], label[c])
         /\ pc[c] = "upnSave" => \A k : InFile(file', k) <=> InFile(file, k)
<1>1. PICK ours \in BOOLEAN :
        \/ Edited(c, ours) = view[c] /\ file' = file
        \/ file' = Edited(c, ours) /\ file = view[c]
  BY Zenon DEF Save
<1>2. kind[c] = "remove" => pc[c] # "upnSave"
  BY DEF FlowInv
<1>3. /\ kind[c] = "remove" => \A k : InFile(Edited(c, ours), k)
                                        <=> InFile(view[c], k) /\ k # label[c]
      /\ kind[c] # "remove" /\ pc[c] = "upnSave" =>
           \A k : InFile(Edited(c, ours), k) <=> InFile(view[c], k)
      /\ kind[c] # "remove" /\ pc[c] # "upnSave" =>
           \A k : InFile(Edited(c, ours), k) <=> InFile(view[c], k) \/ k = label[c]
      /\ \/ kind[c] = "remove" \/ pc[c] = "upnSave" \/ ~InFile(view[c], label[c])
         => (Single(view[c]) => Single(Edited(c, ours)))
  BY <1>2, EditedFacts
<1>4. kind[c] = "add" /\ pc[c] = "save" => Edited(c, ours) # view[c]
  <2> SUFFICES ASSUME kind[c] = "add", pc[c] = "save" PROVE Edited(c, ours) # view[c]
    OBVIOUS
  <2> DEFINE r == [label |-> label[c], upn |-> NoUser, ours |-> ours]
  <2>1. Edited(c, ours) = Append(view[c], r)
    BY DEF Edited
  <2>2. view[c] \in Seq(Config) /\ r \in Config
    BY DEF TypeOK, Config, MaybeUser
  <2>3. Len(Append(view[c], r)) # Len(view[c])
    BY <2>2
  <2>4. QED
    BY <2>1, <2>3
<1>5. pc[c] \in {"save", "upnSave"}
  BY DEF Save
<1>6. pc[c] = "upnSave" => kind[c] # "remove"
  BY <1>2
<1>7. Single(file) /\ (pc[c] = "save" /\ kind[c] = "add" => ~InFile(file, label[c]))
        => Single(file')
  <2> SUFFICES ASSUME Single(file), pc[c] = "save" /\ kind[c] = "add" => ~InFile(file, label[c]),
                      file' = Edited(c, ours), file = view[c]
               PROVE  Single(file')
    BY <1>1
  <2>1. kind[c] = "remove" \/ pc[c] = "upnSave" \/ ~InFile(view[c], label[c])
    BY <1>5 DEF FlowInv
  <2>2. QED
    BY <1>3, <2>1
<1>8. ASSUME pc[c] = "save", kind[c] = "add"
      PROVE  \A k : InFile(file', k) <=> InFile(file, k) \/ k = label[c]
  <2>1. file' = Edited(c, ours) /\ file = view[c]
    BY <1>1, <1>4, <1>8
  <2>2. QED
    BY <1>3, <1>8, <2>1
<1>9. ASSUME pc[c] = "save", kind[c] = "remove"
      PROVE  /\ \A k : k # label[c] => (InFile(file', k) <=> InFile(file, k))
             /\ InFile(file', label[c]) => InFile(file, label[c]) /\ ~InFile(view[c], label[c])
  <2>1. CASE Edited(c, ours) = view[c] /\ file' = file
    BY <1>3, <1>9, <2>1
  <2>2. CASE file' = Edited(c, ours) /\ file = view[c]
    BY <1>3, <1>9, <2>2
  <2>3. QED
    BY <1>1, <2>1, <2>2
<1>10. ASSUME pc[c] = "upnSave" PROVE \A k : InFile(file', k) <=> InFile(file, k)
  <2>1. \A k : InFile(Edited(c, ours), k) <=> InFile(view[c], k)
    BY <1>3, <1>6, <1>10
  <2>2. QED
    BY <1>1, <2>1
<1>11. QED
  BY <1>7, <1>8, <1>9, <1>10

\* A step that leaves the labels of the registry and of the file alone, and the
\* calls between the two, keeps them in agreement.
LEMMA QuietStep ==
  ASSUME HalvesInv, MirrorInv, file' = file,
         \A l \in Labels : /\ Registered(l)' <=> Registered(l)
                           /\ entries'[l].by = entries[l].by,
         \A d \in Calls, k \in Kinds, l \in Labels :
           /\ Writing(d, k, l)' <=> Writing(d, k, l)
           /\ Writing(d, k, l) => pc'[d] = pc[d] /\ view'[d] = view[d]
  PROVE  HalvesInv' /\ MirrorInv'
<1>1. {"add", "remove"} \subseteq Kinds
  BY DEF Kinds
<1>2. HalvesInv'
  BY <1>1 DEF HalvesInv
<1>3. \A k \in {"add", "remove"}, l \in Labels : HalfDone(k, l) => HalfDone(k, l)'
  BY <1>1 DEF HalfDone, Writing
<1>4. QED
  BY <1>2, <1>3 DEF MirrorInv

\* Only these steps are not quiet.
Loud(c) == \/ AddRegister(c) /\ ~Registered(label[c])
           \/ RemoveEntry(c) /\ Registered(label[c])
           \/ Load(c) \/ Save(c)

LEMMA StepQuiet ==
  ASSUME TypeOK, FlowInv, HalvesInv, MirrorInv, NEW c \in Calls, CallStep(c), ~Loud(c)
  PROVE  HalvesInv' /\ MirrorInv' /\ file' = file
<1>1. file' = file
  BY DEF Loud, CallStep, BeginAdd, BeginLogin, BeginLogout, BeginRemove, BeginList, SignIn,
         AddRegister, LoginUpdate, FetchEmail, StoreEmail, UpnCheck, UpnLoad, LogoutUpdate,
         RemoveEntry, ClearTokens
<1>2. \A l \in Labels : /\ Registered(l)' <=> Registered(l)
                        /\ entries'[l].by = entries[l].by
  BY StepEntry DEF EntryAdded, EntryLoggedIn, EntryLoggedOut, EntryRemoved, EntryNamed, Same,
                   Loud, Registered
<1>3. pc[c] \notin {"load", "save"} /\ pc'[c] \notin {"load", "save"}
  <2>1. ASSUME NEW l \in Labels, BeginStep(c, l)
        PROVE  pc[c] \notin {"load", "save"} /\ pc'[c] \notin {"load", "save"}
    BY <2>1, BeginFrame
  <2>2. ASSUME LaterStep(c)
        PROVE  pc[c] \notin {"load", "save"} /\ pc'[c] \notin {"load", "save"}
    BY <2>2 DEF LaterStep, Loud, SignIn, AddRegister, LoginUpdate, FetchEmail, StoreEmail,
                UpnCheck, UpnLoad, LogoutUpdate, RemoveEntry, ClearTokens, Goto, Answer, TypeOK
  <2>3. QED
    BY <2>1, <2>2, StepSplit
<1>4. ASSUME NEW d \in Calls, NEW k \in Kinds, NEW l \in Labels
      PROVE  /\ Writing(d, k, l)' <=> Writing(d, k, l)
             /\ Writing(d, k, l) => pc'[d] = pc[d] /\ view'[d] = view[d]
  <2>1. CASE d = c
    BY <1>3, <2>1 DEF Writing
  <2>2. CASE d # c
    BY <2>2, StepSplit, BeginFrame, LaterFrame DEF Writing
  <2>3. QED
    BY <2>1, <2>2
<1>5. QED
  BY SMTT(30), <1>1, <1>2, <1>4, QuietStep

\* registry.Add: the label is in neither half yet.
LEMMA AddMirrors ==
  ASSUME TypeOK, HalvesInv, MirrorInv, NEW c \in Calls,
         AddRegister(c), ~Registered(label[c]), ~crossed'
  PROVE  HalvesInv' /\ MirrorInv' /\ file' = file
<1>1. /\ kind[c] = "add" /\ pc[c] = "register" /\ pc'[c] = "load"
      /\ ~HalfDone("remove", label[c])
      /\ UNCHANGED <<file, kind, label, view>>
      /\ \A d \in Calls \ {c} : pc'[d] = pc[d]
  BY DEF AddRegister, Goto, TypeOK
<1>2. /\ label[c] \in Labels /\ entries'[label[c]].state = "connected"
      /\ \A l \in Labels \ {label[c]} : entries'[l] = entries[l]
  BY DEF AddRegister, TypeOK
<1>3. ~InFile(file, label[c]) /\ \A d \in Calls : ~Writing(d, "add", label[c])
  BY <1>1, <1>2 DEF MirrorInv, HalvesInv
<1>4. \A d \in Calls, k \in {"add", "remove"}, l \in Labels :
        Writing(d, k, l)' <=> Writing(d, k, l) \/ (d = c /\ k = "add" /\ l = label[c])
  BY <1>1 DEF Writing
<1>5. HalvesInv'
  <2> SUFFICES ASSUME NEW d \in Calls, NEW l \in Labels
               PROVE  /\ Writing(d, "add", l)' =>
                           /\ Registered(l)' /\ ~InFile(file, l)
                           /\ \A a \in Calls : Writing(a, "add", l)' => d = a
                      /\ Writing(d, "remove", l)' =>
                           /\ ~Registered(l)'
                           /\ pc'[d] = "save" /\ InFile(file, l) => InFile(view[d], l)
    BY <1>1 DEF HalvesInv
  <2>1. CASE l = label[c]
    <3>1. ~Writing(d, "remove", l)
      BY <1>1, <2>1 DEF Writing, HalfDone
    <3>2. QED
      BY <1>2, <1>3, <1>4, <2>1, <3>1 DEF Registered
  <2>2. CASE l # label[c]
    <3>1. Registered(l)' <=> Registered(l)
      BY <1>2, <2>2 DEF Registered
    <3>2. Writing(d, "remove", l) => pc'[d] = pc[d]
      BY <1>1 DEF Writing
    <3>3. QED
      BY <1>4, <2>2, <3>1, <3>2 DEF HalvesInv
  <2>3. QED
    BY <2>1, <2>2
<1>6. \A k \in {"add", "remove"}, l \in Labels :
        /\ HalfDone(k, l) => HalfDone(k, l)'
        /\ l = label[c] => HalfDone("add", l)'
  BY <1>1, <1>4 DEF HalfDone, Writing
<1>7. MirrorInv'
  <2> SUFFICES ASSUME NEW l \in Labels
               PROVE  /\ InFile(file, l) => Registered(l)' \/ HalfDone("remove", l)'
                      /\ Registered(l)' => \/ InFile(file, l) \/ HalfDone("add", l)'
                                           \/ l = DefaultLabel /\ entries'[l].by = NoCall
    BY <1>1 DEF MirrorInv
  <2>1. CASE l = label[c]
    BY <1>3, <1>6, <2>1
  <2>2. CASE l # label[c]
    BY <1>2, <1>6, <2>2 DEF MirrorInv, Registered
  <2>3. QED
    BY <2>1, <2>2
<1>8. QED
  BY <1>1, <1>5, <1>7

\* registry.Remove: no add of the label is between its halves.
LEMMA RemoveMirrors ==
  ASSUME TypeOK, HalvesInv, MirrorInv, NEW c \in Calls,
         RemoveEntry(c), Registered(label[c]), ~crossed'
  PROVE  HalvesInv' /\ MirrorInv' /\ file' = file
<1>1. /\ kind[c] = "remove" /\ pc[c] = "entry" /\ pc'[c] = "load"
      /\ ~HalfDone("add", label[c])
      /\ UNCHANGED <<file, kind, label, view>>
      /\ \A d \in Calls \ {c} : pc'[d] = pc[d]
  BY DEF RemoveEntry, Goto, TypeOK
<1>2. /\ label[c] \in Labels /\ entries'[label[c]].state = "absent"
      /\ \A l \in Labels \ {label[c]} : entries'[l] = entries[l]
  BY DEF RemoveEntry, TypeOK, Absent
<1>3. \A d \in Calls, k \in {"add", "remove"}, l \in Labels :
        Writing(d, k, l)' <=> Writing(d, k, l) \/ (d = c /\ k = "remove" /\ l = label[c])
  BY <1>1 DEF Writing
<1>4. \A d \in Calls : /\ ~Writing(d, "add", label[c])
                       /\ ~Writing(d, "remove", label[c])
  BY <1>1, <1>2 DEF Writing, HalfDone, HalvesInv
<1>5. HalvesInv'
  <2> SUFFICES ASSUME NEW d \in Calls, NEW l \in Labels
               PROVE  /\ Writing(d, "add", l)' =>
                           /\ Registered(l)' /\ ~InFile(file, l)
                           /\ \A a \in Calls : Writing(a, "add", l)' => d = a
                      /\ Writing(d, "remove", l)' =>
                           /\ ~Registered(l)'
                           /\ pc'[d] = "save" /\ InFile(file, l) => InFile(view[d], l)
    BY <1>1 DEF HalvesInv
  <2>1. CASE l = label[c]
    BY <1>1, <1>2, <1>3, <1>4, <2>1 DEF Registered
  <2>2. CASE l # label[c]
    <3>1. Registered(l)' <=> Registered(l)
      BY <1>2, <2>2 DEF Registered
    <3>2. Writing(d, "remove", l) => pc'[d] = pc[d]
      BY <1>1 DEF Writing
    <3>3. QED
      BY <1>3, <2>2, <3>1, <3>2 DEF HalvesInv
  <2>3. QED
    BY <2>1, <2>2
<1>6. \A k \in {"add", "remove"}, l \in Labels :
        /\ HalfDone(k, l) => HalfDone(k, l)'
        /\ l = label[c] => HalfDone("remove", l)'
  BY <1>1, <1>3 DEF HalfDone, Writing
<1>7. MirrorInv'
  <2> SUFFICES ASSUME NEW l \in Labels
               PROVE  /\ InFile(file, l) => Registered(l)' \/ HalfDone("remove", l)'
                      /\ Registered(l)' => \/ InFile(file, l) \/ HalfDone("add", l)'
                                           \/ l = DefaultLabel /\ entries'[l].by = NoCall
    BY <1>1 DEF MirrorInv
  <2>1. CASE l = label[c]
    BY <1>2, <1>6, <2>1 DEF Registered
  <2>2. CASE l # label[c]
    BY <1>2, <1>6, <2>2 DEF MirrorInv, Registered
  <2>3. QED
    BY <2>1, <2>2
<1>8. QED
  BY <1>1, <1>5, <1>7

\* LoadAccounts, when it does not fail: the call sees what the file holds.
LEMMA LoadMirrors ==
  ASSUME TypeOK, HalvesInv, MirrorInv, NEW c \in Calls, Load(c), ~failed'
  PROVE  HalvesInv' /\ MirrorInv' /\ file' = file
<1>1. /\ pc[c] = "load" /\ pc'[c] = "save" /\ view'[c] = file
      /\ UNCHANGED <<entries, file, kind, label>>
      /\ \A d \in Calls \ {c} : pc'[d] = pc[d] /\ view'[d] = view[d]
  BY DEF Load, Goto, TypeOK
<1>2. \A d \in Calls, k \in {"add", "remove"}, l \in Labels : Writing(d, k, l)' <=> Writing(d, k, l)
  BY <1>1 DEF Writing
<1>3. \A k \in {"add", "remove"}, l \in Labels : HalfDone(k, l) => HalfDone(k, l)'
  BY <1>1, <1>2 DEF HalfDone, Writing
<1>4. HalvesInv'
  BY <1>1, <1>2 DEF HalvesInv, Registered
<1>5. MirrorInv'
  BY <1>1, <1>3 DEF MirrorInv, Registered
<1>6. QED
  BY <1>1, <1>4, <1>5

\* SaveAccounts, when it does not fail and overwrites no change: the second half of
\* an add or a removal, or a UPN, which is no matter of labels.
LEMMA SaveMirrors ==
  ASSUME TypeOK, FlowInv, HalvesInv, MirrorInv, Single(file),
         NEW c \in Calls, Save(c), ~failed', ~raced'
  PROVE  HalvesInv' /\ MirrorInv' /\ Single(file')
<1>1. /\ pc[c] \in {"save", "upnSave"} /\ pc'[c] \notin {"load", "save"}
      /\ UNCHANGED <<entries, kind, label, view>>
      /\ \A d \in Calls \ {c} : pc'[d] = pc[d]
      /\ label[c] \in Labels
      /\ pc[c] = "save" => kind[c] \in {"add", "remove"}
  BY DEF Save, Goto, After, TypeOK, FlowInv
<1>2. \A d \in Calls, k \in {"add", "remove"}, l \in Labels :
        /\ Writing(d, k, l)' <=> Writing(d, k, l) /\ d # c
        /\ Writing(d, k, l)' => pc'[d] = pc[d]
  BY <1>1 DEF Writing
<1>3. pc[c] = "save" => Writing(c, kind[c], label[c])
  BY <1>1 DEF Writing
<1>4. Single(file')
  BY <1>1, <1>3, SaveFacts DEF HalvesInv
<1>5. \A k \in {"add", "remove"}, l \in Labels :
        ~(pc[c] = "save" /\ k = kind[c] /\ l = label[c]) /\ HalfDone(k, l) => HalfDone(k, l)'
  BY <1>1, <1>2 DEF HalfDone, Writing
<1>6. CASE pc[c] = "upnSave"
  <2>1. \A l : InFile(file', l) <=> InFile(file, l)
    BY <1>6, SaveFacts
  <2>2. HalvesInv'
    BY <1>1, <1>2, <2>1 DEF HalvesInv, Registered
  <2>3. MirrorInv'
    BY <1>1, <1>5, <1>6, <2>1 DEF MirrorInv, Registered
  <2>4. QED
    BY <1>4, <2>2, <2>3
<1>7. CASE pc[c] = "save" /\ kind[c] = "add"
  <2>1. \A l : InFile(file', l) <=> InFile(file, l) \/ l = label[c]
    BY <1>7, SaveFacts
  <2>2. /\ Registered(label[c])
        /\ \A d \in Calls : Writing(d, "add", label[c]) => d = c
    BY <1>1, <1>3, <1>7 DEF HalvesInv
  <2>3. \A d \in Calls : ~Writing(d, "remove", label[c])
    BY <1>1, <2>2 DEF HalvesInv
  <2>4. HalvesInv'
    BY <1>1, <1>2, <2>1, <2>2, <2>3 DEF HalvesInv, Registered
  <2>5. MirrorInv'
    BY <1>1, <1>5, <1>7, <2>1, <2>2 DEF MirrorInv, Registered
  <2>6. QED
    BY <1>4, <2>4, <2>5
<1>8. CASE pc[c] = "save" /\ kind[c] = "remove"
  <2>1. /\ \A l : l # label[c] => (InFile(file', l) <=> InFile(file, l))
        /\ InFile(file', label[c]) => InFile(file, label[c]) /\ ~InFile(view[c], label[c])
    BY <1>8, SaveFacts
  <2>2. ~Registered(label[c]) /\ (InFile(file, label[c]) => InFile(view[c], label[c]))
    BY <1>1, <1>3, <1>8 DEF HalvesInv
  <2>3. ~InFile(file', label[c])
    BY <2>1, <2>2
  <2>4. HalvesInv'
    BY <1>1, <1>2, <2>1, <2>3 DEF HalvesInv, Registered
  <2>5. MirrorInv'
    BY <1>1, <1>5, <1>8, <2>1, <2>2, <2>3 DEF MirrorInv, Registered
  <2>6. QED
    BY <1>4, <2>4, <2>5
<1>9. QED
  BY <1>1, <1>6, <1>7, <1>8

\* A restart that reads the file and makes every credential restores what the file
\* holds, and no call is at work any more.
LEMMA CrashMirrors ==
  ASSUME TypeOK, Crash, ~failed'
  PROVE  HalvesInv' /\ MirrorInv' /\ file' = file
<1>1. /\ file' = file
      /\ \A d \in Calls : pc'[d] \notin {"load", "save"}
      /\ \A l \in Labels : entries'[l].by = NoCall
  BY CrashFrame
<1>2. PICK f \in {file, <<>>}, made \in SUBSET Labels :
        \E silent \in SUBSET {l \in made : tokens[l] # NoUser} :
          /\ entries' = Restored(f, made, silent)
          /\ failed' = (failed \/ f # file \/ \E l \in Labels \ made : InFile(f, l))
  BY DEF Crash
<1>3. PICK silent \in SUBSET made : entries' = Restored(f, made, silent)
  BY <1>2
<1>4. f = file /\ \A l \in Labels : InFile(file, l) => l \in made
  BY <1>2
<1>5. \A l \in Labels : /\ InFile(file, l) => Registered(l)'
                        /\ Registered(l)' => InFile(file, l) \/ l = DefaultLabel
  <2>1. file \in Seq(Config) /\ tokens \in [Labels -> MaybeUser]
    BY DEF TypeOK
  <2>2. \A l \in Labels :
          /\ InFile(file, l) => Restored(file, made, silent)[l].state # "absent"
          /\ Restored(file, made, silent)[l].state # "absent"
               => InFile(file, l) \/ l = DefaultLabel
    <3>1. \A l \in Labels :
            /\ InFile(file, l) /\ l \in made => Restored(file, made, silent)[l].state # "absent"
            /\ Restored(file, made, silent)[l].state # "absent"
                 => l = DefaultLabel \/ InFile(file, l)
      BY <2>1, RestoredFacts
    <3>2. QED
      BY <1>4, <3>1
  <2>3. entries' = Restored(file, made, silent)
    BY <1>3, <1>4
  <2>4. QED
    BY <2>2, <2>3 DEF Registered
<1>6. QED
  BY <1>1, <1>5 DEF HalvesInv, MirrorInv, Writing

LEMMA NextMirrors ==
  /\ TypeOK /\ FlowInv
  /\ Orderly => HalvesInv /\ MirrorInv
  /\ OneConfigPerLabel
  /\ [Next]_vars
  => (Orderly => HalvesInv /\ MirrorInv)' /\ OneConfigPerLabel'
<1> SUFFICES ASSUME TypeOK, FlowInv, Orderly => HalvesInv /\ MirrorInv, OneConfigPerLabel,
                    [Next]_vars, Orderly'
             PROVE  HalvesInv' /\ MirrorInv' /\ Single(file')
  BY DEF OneConfigPerLabel, Single
<1>1. Orderly
  <2>1. ASSUME NEW c \in Calls, CallStep(c) PROVE Orderly
    BY <2>1, StepSplit, BeginFrame, LaterFrame DEF Orderly
  <2>2. CASE Crash
    BY <2>2, CrashFrame DEF Orderly
  <2>3. CASE UNCHANGED vars
    BY <2>3 DEF vars, history, Orderly
  <2>4. QED
    BY <2>1, <2>2, <2>3 DEF Next, Quiescent
<1>2. HalvesInv /\ MirrorInv /\ Single(file)
  BY <1>1 DEF OneConfigPerLabel, Single
<1>3. ~raced' /\ ~crossed' /\ ~failed'
  BY DEF Orderly
<1>4. ASSUME NEW c \in Calls, CallStep(c) PROVE HalvesInv' /\ MirrorInv' /\ Single(file')
  BY <1>2, <1>3, <1>4, StepQuiet, AddMirrors, RemoveMirrors, LoadMirrors, SaveMirrors DEF Loud
<1>5. CASE Crash
  BY <1>2, <1>3, <1>5, CrashMirrors
<1>6. CASE UNCHANGED vars
  BY <1>2, <1>6 DEF vars, callVars, HalvesInv, MirrorInv, Writing, HalfDone, Registered
<1>7. QED
  BY <1>4, <1>5, <1>6 DEF Next, Quiescent

-------------------------------------------------------------------------------
LEMMA InitInv == Init => StoreInv
<1> SUFFICES ASSUME Init PROVE StoreInv
  OBVIOUS
<1>1. /\ \A c \in Calls : pc[c] = "idle" /\ kind[c] = "none" /\ held[c] = NoCall
      /\ \A l \in Labels : acked[l] = "none" /\ tokens[l] = NoUser
      /\ file = <<>> /\ ~failed
  BY DEF Init
<1>2. \A l \in Labels : ~InFile(file, l)
  BY <1>1 DEF InFile
<1>3. \A l \in Labels : /\ entries[l].by = NoCall /\ entries[l].owner = NoUser
                        /\ Registered(l) => l = DefaultLabel
  BY DEF Init, Restored, Absent, Registered, InFile
<1>4. FlowInv /\ HeldInv /\ AskedInv /\ FetchedInv /\ EmailNamesOwner /\ TokensGoWithAccount
  BY <1>1, <1>3, NamesAssumption
     DEF FlowInv, HeldInv, AskedInv, FetchedInv, EmailNamesOwner, TokensGoWithAccount
<1>5. HalvesInv /\ MirrorInv /\ OneConfigPerLabel
  BY <1>1, <1>2, <1>3 DEF HalvesInv, MirrorInv, OneConfigPerLabel, Writing
<1>6. QED
  BY <1>4, <1>5 DEF StoreInv

LEMMA NextStore == TypeOK /\ StoreInv /\ [Next]_vars => StoreInv'
BY NextFlow, NextHeld, NextEmail, NextAsked, NextTokens, NextMirrors DEF StoreInv

-------------------------------------------------------------------------------
\* The inductive invariant: what each call is by where it is, which entry it holds,
\* whose address it carries, and how the registry and accounts.json stand between
\* the two halves of an add or a removal.
THEOREM StoreAgrees == Spec => [](TypeOK /\ StoreInv)
<1>1. Init => TypeOK /\ StoreInv
  BY InitType, InitInv
<1>2. TypeOK /\ StoreInv /\ [Next]_vars => (TypeOK /\ StoreInv)'
  BY NextType, NextStore DEF StoreInv
<1>3. QED
  BY <1>1, <1>2, PTL DEF Spec

\* Every variable keeps its type, for any calls, labels, users and restarts.
THEOREM StoreTypes == Spec => []TypeOK
BY StoreAgrees, PTL

\* Once no verb is at work on a label, registry.go and accounts.json agree on it,
\* across crashes between any two steps of HandleAddAccount and
\* HandleRemoveAccount, as long as no save lost another's and nothing failed.
THEOREM FileMirrors == Spec => []FileMirrorsRegistry
<1>1. StoreInv => FileMirrorsRegistry
  <2> SUFFICES ASSUME StoreInv, Orderly, NEW l \in Labels, ~Busy(l)
               PROVE  /\ InFile(file, l) => Registered(l)
                      /\ Registered(l) => InFile(file, l)
                                          \/ (l = DefaultLabel /\ entries[l].by = NoCall)
    BY DEF FileMirrorsRegistry
  <2>1. ~HalfDone("remove", l) /\ ~HalfDone("add", l)
    BY DEF Busy, HalfDone
  <2>2. QED
    BY <2>1 DEF StoreInv, MirrorInv
<1>2. QED
  BY <1>1, StoreAgrees, PTL

\* AddAccountConfig appends without looking, and the file still never holds two
\* records of one label: only one of several concurrent adds gets past registry.Add.
THEOREM RecordsAreSingle == Spec => []OneConfigPerLabel
BY StoreAgrees, PTL DEF StoreInv

\* Until a restart an account shows the address of the user whose credential it
\* has: EnsureEmail stores it in the entry it looked it up for, or nobody sees it.
THEOREM AddressesNameOwner == Spec => []EmailNamesOwner
BY StoreAgrees, PTL DEF StoreInv

\* HandleRemoveAccount takes the tokens of the account along, whatever happened to
\* the account before and whatever else goes on but a login of it.
THEOREM TokensAreCleared == Spec => []TokensGoWithAccount
BY StoreAgrees, PTL DEF StoreInv
===============================================================================
