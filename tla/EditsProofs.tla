----------------------------- MODULE EditsProofs -----------------------------
(***************************************************************************)
(* Proofs about what is edited on the client and sent call by call: the    *)
(* groups of an evaluation, the members of a group, the tags of an         *)
(* evaluation and the table of accounts.  Each has an inductive invariant  *)
(* that accounts for what is still under way; the theorem at the end takes *)
(* them together.                                                          *)
(***************************************************************************)
EXTENDS MCSessionProofs

-----------------------------------------------------------------------------
(* The groups of an evaluation.                                            *)

Linking(g) == \E c \in groupCalls : c.kind = "link" /\ c.g = g
Unlinking(g) == \E c \in groupCalls : c.kind = "unlink" /\ c.g = g

(* What was asked for is there, or a call for it is under way.             *)
LinksCome ==
    clear => /\ L!Apart(groupCalls)
             /\ \A g \in Group :
                   g \in asked <=> Linking(g) \/ (~Unlinking(g) /\ g \in linked)

DialogRight ==
    dialog # NoDialog => dialog.kept \subseteq dialog.original \ dialog.picked

LinksInv == L!TypeOK /\ DialogRight /\ LinksCome

LinkCall ==
    [kind : L!Changes, g : Group, n : 1..updates, served : {FALSE}, got : {{}}] \cup
    [kind : {"edit", "read"}, g : {L!AnyGroup}, n : 1..updates,
     served : BOOLEAN, got : SUBSET Group]

LEMMA LinkCallIs ==
    ASSUME NEW n \in 1..updates'
    PROVE  /\ \A k \in {"edit", "read"} :
                 /\ L!Call(k, L!AnyGroup, n) \in LinkCall' /\ L!Call(k, L!AnyGroup, n).kind = k
           /\ \A k \in L!Changes, g \in Group :
                 /\ L!Call(k, g, n) \in LinkCall'
                 /\ L!Call(k, g, n).kind = k /\ L!Call(k, g, n).g = g
  BY DEF L!Call, LinkCall, L!Changes

LEMMA ToggleStep ==
    ASSUME LinksInv, NEW g \in Group, L!Toggle(g)
    PROVE  LinksInv'
<1>1. UNCHANGED <<linked, listed, groupCalls, updates, asked, clear>>
  BY DEF L!Toggle
<1>2. LinksCome'
  BY <1>1 DEF LinksInv, LinksCome, Linking, Unlinking, L!Apart
<1>3. dialog' \in L!Dialog \cup {NoDialog} /\ DialogRight'
  BY DEF L!Toggle, LinksInv, L!TypeOK, L!Dialog, DialogRight
<1> QED
  BY <1>1, <1>2, <1>3 DEF LinksInv, L!TypeOK

(* A save leaves what it does not ask for, and no call for a group that    *)
(* has one under way, as long as the user lets them be.                    *)
LEMMA UpdateEvaluationStep ==
    ASSUME LinksInv, L!UpdateEvaluation
    PROVE  LinksInv'
<1> DEFINE n == updates + 1
           edit == L!Call("edit", L!AnyGroup, n)
           links == {L!Call("link", g, n) : g \in dialog.picked}
           unlinks == {L!Call("unlink", g, n) : g \in dialog.original \ dialog.kept}
           choice == dialog.kept \cup dialog.picked
<1>1. dialog \in L!Dialog /\ dialog.kept \subseteq dialog.original \ dialog.picked
  BY DEF LinksInv, L!TypeOK, DialogRight, L!UpdateEvaluation
<1>2. /\ updates' = n /\ n \in 1..MaxUpdates /\ dialog' = NoDialog
      /\ groupCalls' = groupCalls \cup {edit} \cup links \cup unlinks
      /\ asked' = (asked \ (dialog.original \ choice)) \cup (choice \ dialog.original)
      /\ clear' = (clear /\ L!Apart(groupCalls'))
      /\ UNCHANGED <<linked, listed>>
  BY PartsAssumption DEF L!UpdateEvaluation, L!Removed, LinksInv, L!TypeOK
<1>3. /\ edit \in LinkCall' /\ edit.kind = "edit"
      /\ \A g \in Group : /\ L!Call("link", g, n) \in LinkCall'
                          /\ L!Call("link", g, n).kind = "link" /\ L!Call("link", g, n).g = g
                          /\ L!Call("unlink", g, n) \in LinkCall'
                          /\ L!Call("unlink", g, n).kind = "unlink" /\ L!Call("unlink", g, n).g = g
  BY <1>2, LinkCallIs DEF L!Changes
<1>4. L!TypeOK'
  <2>1. groupCalls \subseteq LinkCall'
    <3>1. updates \in Nat /\ 1..updates \subseteq 1..updates'
      BY <1>2 DEF LinksInv, L!TypeOK
    <3>2. groupCalls \subseteq LinkCall
      BY DEF LinksInv, L!TypeOK, LinkCall
    <3>3. LinkCall \subseteq LinkCall'
      BY <3>1 DEF LinkCall
    <3> QED
      BY <3>2, <3>3
  <2>2. groupCalls' \subseteq LinkCall'
    BY <1>1, <1>2, <1>3, <2>1 DEF L!Dialog
  <2> QED
    <3>1. /\ linked' \subseteq Group /\ listed' \subseteq Group /\ asked' \subseteq Group
          /\ clear' \in BOOLEAN /\ updates' \in 0..MaxUpdates
      BY <1>1, <1>2 DEF LinksInv, L!TypeOK, L!Dialog, L!Apart
    <3> QED
      BY <1>2, <2>2, <3>1 DEF L!TypeOK, LinkCall
<1>5. ASSUME clear', NEW g \in Group
      PROVE  g \in asked' <=> Linking(g)' \/ (~Unlinking(g)' /\ g \in linked')
  <2>1. clear /\ L!Apart(groupCalls')
    BY <1>2, <1>5
  <2>2. Linking(g)' <=> Linking(g) \/ g \in dialog.picked
    BY <1>1, <1>2, <1>3 DEF Linking, L!Dialog
  <2>3. Unlinking(g)' <=> Unlinking(g) \/ g \in dialog.original \ dialog.kept
    BY <1>1, <1>2, <1>3 DEF Unlinking, L!Dialog
  <2>4. ~(Linking(g)' /\ Unlinking(g)')
    BY <2>1 DEF L!Apart, Linking, Unlinking, L!Changes
  <2> QED
    BY <1>1, <1>2, <2>1, <2>2, <2>3, <2>4 DEF LinksInv, LinksCome
<1> QED
  BY <1>2, <1>4, <1>5 DEF LinksInv, DialogRight, LinksCome

(* A call that is gone or read anew.                                       *)
LEMMA LinkCallGone ==
    ASSUME LinksInv, NEW c \in groupCalls, groupCalls' = groupCalls \ {c},
           UNCHANGED updates
    PROVE  /\ groupCalls' \subseteq LinkCall' /\ (clear => L!Apart(groupCalls'))
           /\ c \in LinkCall
  BY DEF LinksInv, L!TypeOK, LinkCall, LinksCome, L!Apart

LEMMA LinkCallsSame ==
    ASSUME LinksInv, NEW c \in groupCalls, c.kind \notin L!Changes,
           NEW d, d.kind \notin L!Changes,
           groupCalls' \in {groupCalls \ {c}, (groupCalls \ {c}) \cup {d}},
           UNCHANGED <<linked, asked, clear>>
    PROVE  LinksCome'
<1>1. \A g \in Group : Linking(g)' = Linking(g) /\ Unlinking(g)' = Unlinking(g)
  BY DEF Linking, Unlinking, L!Changes
<1>2. L!Apart(groupCalls) => L!Apart(groupCalls')
  BY DEF L!Apart
<1> QED
  BY <1>1, <1>2 DEF LinksInv, LinksCome

LEMMA ServeLinkStep ==
    ASSUME LinksInv, NEW c \in groupCalls, L!ServeChange(c)
    PROVE  LinksInv'
<1>1. /\ c.kind \in L!Changes /\ groupCalls' = groupCalls \ {c}
      /\ linked' = IF c.kind = "link" THEN linked \cup {c.g} ELSE linked \ {c.g}
      /\ UNCHANGED <<listed, dialog, updates, asked, clear>>
  BY DEF L!ServeChange
<1>2. c \in LinkCall /\ groupCalls' \subseteq LinkCall'
  BY <1>1, LinkCallGone
<1>3. c.g \in Group
  BY <1>1, <1>2 DEF LinkCall, L!Changes
<1>4. ASSUME clear, NEW g \in Group
      PROVE  g \in asked' <=> Linking(g)' \/ (~Unlinking(g)' /\ g \in linked')
  <2>1. L!Apart(groupCalls) /\ (g \in asked <=> Linking(g) \/ (~Unlinking(g) /\ g \in linked))
    BY <1>4 DEF LinksInv, LinksCome
  <2>2. CASE g = c.g
    <3>1. ~Linking(g)' /\ ~Unlinking(g)'
      BY <1>1, <2>1, <2>2 DEF L!Apart, Linking, Unlinking, L!Changes
    <3>2. Linking(g) <=> c.kind = "link"
      BY <1>1, <2>1, <2>2 DEF L!Apart, Linking, L!Changes
    <3>3. Unlinking(g) <=> c.kind # "link"
      BY <1>1, <2>1, <2>2 DEF L!Apart, Unlinking, L!Changes
    <3> QED
      BY <1>1, <2>1, <2>2, <3>1, <3>2, <3>3
  <2>3. CASE g # c.g
    <3>1. Linking(g)' = Linking(g) /\ Unlinking(g)' = Unlinking(g)
      BY <1>1, <2>3 DEF Linking, Unlinking
    <3> QED
      BY <1>1, <2>1, <2>3, <3>1
  <2> QED
    BY <2>2, <2>3
<1>5. LinksCome'
  BY <1>1, <1>4, LinkCallGone DEF LinksCome
<1> QED
  BY <1>1, <1>2, <1>3, <1>5 DEF LinksInv, L!TypeOK, LinkCall, DialogRight

LEMMA OtherLinkSteps ==
    ASSUME LinksInv, NEW c \in groupCalls,
           L!AnswerEdit(c) \/ L!ServeRead(c) \/ L!AnswerRead(c) \/ L!Fail(c)
    PROVE  LinksInv'
<1>1. c \in LinkCall /\ groupCalls \subseteq LinkCall
  BY DEF LinksInv, L!TypeOK, LinkCall
<1>2. CASE L!AnswerEdit(c)
  <2> DEFINE d == L!Call("read", L!AnyGroup, c.n)
  <2>1. /\ listed' = {} /\ groupCalls' = (groupCalls \ {c}) \cup {d}
        /\ c.kind = "edit" /\ UNCHANGED <<linked, dialog, updates, asked, clear>>
    BY <1>2 DEF L!AnswerEdit
  <2>2. d \in LinkCall' /\ d.kind = "read"
    BY <1>1, <2>1, LinkCallIs DEF LinkCall
  <2>3. LinksCome'
    BY <2>1, <2>2, LinkCallsSame DEF L!Changes
  <2> HIDE DEF d
  <2> QED
    BY <1>1, <2>1, <2>2, <2>3 DEF LinksInv, L!TypeOK, LinkCall, DialogRight
<1>3. CASE L!ServeRead(c)
  <2> DEFINE d == [c EXCEPT !.served = TRUE, !.got = linked]
  <2>1. /\ groupCalls' = (groupCalls \ {c}) \cup {d} /\ c.kind = "read"
        /\ UNCHANGED <<linked, listed, dialog, updates, asked, clear>>
    BY <1>3 DEF L!ServeRead
  <2>2. d \in LinkCall' /\ d.kind = "read"
    BY <1>1, <2>1 DEF LinkCall, LinksInv, L!TypeOK, L!Changes
  <2>3. LinksCome'
    BY <2>1, <2>2, LinkCallsSame DEF L!Changes
  <2> HIDE DEF d
  <2> QED
    BY <1>1, <2>1, <2>2, <2>3 DEF LinksInv, L!TypeOK, LinkCall, DialogRight
<1>4. CASE L!AnswerRead(c)
  <2>1. /\ groupCalls' = groupCalls \ {c} /\ c.kind = "read" /\ listed' = c.got
        /\ UNCHANGED <<linked, dialog, updates, asked, clear>>
    BY <1>4 DEF L!AnswerRead
  <2>2. LinksCome' /\ c.got \subseteq Group
    BY <1>1, <2>1, LinkCallsSame DEF L!Changes, LinkCall
  <2> QED
    BY <1>1, <2>1, <2>2 DEF LinksInv, L!TypeOK, LinkCall, DialogRight
<1>5. CASE L!Fail(c)
  <2>1. /\ groupCalls' = groupCalls \ {c} /\ clear' = (clear /\ c.kind \notin L!Changes)
        /\ UNCHANGED <<linked, listed, dialog, updates, asked>>
    BY <1>5 DEF L!Fail
  <2>2. LinksCome'
    <3>1. CASE c.kind \in L!Changes
      BY <2>1, <3>1 DEF LinksCome
    <3>2. CASE c.kind \notin L!Changes
      BY <2>1, <3>2, LinkCallsSame DEF LinksInv, L!TypeOK
    <3> QED
      BY <3>1, <3>2
  <2> QED
    BY <1>1, <2>1, <2>2 DEF LinksInv, L!TypeOK, LinkCall, DialogRight
<1> QED
  BY <1>2, <1>3, <1>4, <1>5

LEMMA LinksStep ==
    ASSUME LinksInv, [L!Next]_(L!vars)
    PROVE  LinksInv'
<1>1. CASE L!Open \/ L!Cancel
  <2>1. UNCHANGED <<linked, listed, groupCalls, updates, asked, clear>>
    BY <1>1 DEF L!Open, L!Cancel
  <2>2. LinksCome'
    BY <2>1 DEF LinksInv, LinksCome, Linking, Unlinking, L!Apart
  <2>3. dialog' \in L!Dialog \cup {NoDialog} /\ DialogRight'
    BY <1>1 DEF L!Open, L!Cancel, LinksInv, L!TypeOK, L!Dialog, DialogRight
  <2> QED
    BY <2>1, <2>2, <2>3 DEF LinksInv, L!TypeOK
<1>2. CASE UNCHANGED L!vars
  BY <1>2 DEF L!vars, LinksInv, L!TypeOK, DialogRight, LinksCome, Linking, Unlinking, L!Apart
<1> QED
  BY <1>1, <1>2, ToggleStep, UpdateEvaluationStep, ServeLinkStep, OtherLinkSteps DEF L!Next

LEMMA LinksInit == L!Init => LinksInv
<1>1. MaxUpdates \in Nat
  BY PartsAssumption
<1> QED
  BY <1>1 DEF L!Init, LinksInv, L!TypeOK, DialogRight, LinksCome, Linking, Unlinking, L!Apart

LEMMA LinksImply == LinksInv => L!GroupsAsChosen
  BY DEF LinksInv, L!TypeOK, LinksCome, L!GroupsAsChosen, Linking, Unlinking, L!Changes

-----------------------------------------------------------------------------
(* The members of a group.                                                 *)

Adding(u) == \E c \in memberCalls : c.kind = "add" /\ c.u = u
Leaving(u) == \E c \in memberCalls : c.kind = "remove" /\ c.u = u

OneChangeEach ==
    \A c, d \in memberCalls : c.kind \in M!Changes /\ d.kind \in M!Changes /\ c.u = d.u => c = d

(* Who was chosen is there, or a call for it is under way.                 *)
MembersCome ==
    calm => /\ OneChangeEach
            /\ \A u \in Colleague :
                  u \in chosen <=> Adding(u) \/ (~Leaving(u) /\ u \in belongs)

(* The owner at work is in every list that was read.                       *)
ReadWithMe == \A c \in memberCalls : c.kind = "get" /\ c.served => Me \in c.got

MembersInv == M!TypeOK /\ ReadWithMe /\ MembersCome

MemberCall ==
    [kind : M!Changes, u : Colleague, n : 0..memberSaves, served : {FALSE}, got : {{}}] \cup
    [kind : {"put", "get"}, u : {Me}, n : 0..memberSaves, served : BOOLEAN, got : SUBSET Colleague]

LEMMA MemberCallIs ==
    ASSUME NEW n \in 0..memberSaves'
    PROVE  /\ \A k \in {"put", "get"} :
                 /\ M!Call(k, Me, n) \in MemberCall' /\ M!Call(k, Me, n).kind = k
                 /\ ~M!Call(k, Me, n).served
           /\ \A k \in M!Changes, u \in Colleague :
                 /\ M!Call(k, u, n) \in MemberCall'
                 /\ M!Call(k, u, n).kind = k /\ M!Call(k, u, n).u = u
  BY DEF M!Call, MemberCall, M!Changes

(* Steps after which the same changes are under way.                       *)
LEMMA MemberCallsSame ==
    ASSUME MembersCome, UNCHANGED <<belongs, chosen, calm>>,
           \A c : c.kind \in M!Changes => (c \in memberCalls' <=> c \in memberCalls)
    PROVE  MembersCome'
<1>1. \A u \in Colleague : Adding(u)' = Adding(u) /\ Leaving(u)' = Leaving(u)
  BY DEF Adding, Leaving, M!Changes
<1>2. OneChangeEach => OneChangeEach'
  BY DEF OneChangeEach
<1> QED
  BY <1>1, <1>2 DEF MembersCome

LEMMA MemberDialogSteps ==
    ASSUME MembersInv, M!Open \/ M!Cancel \/ M!Save \/ (\E u \in Colleague : M!Flip(u))
    PROVE  MembersInv'
<1>1. CASE M!Save
  <2> DEFINE n == memberSaves + 1
             put == M!Call("put", Me, n)
  <2>1. /\ n \in 0..MaxMemberSaves /\ memberSaves' = n /\ memberCalls' = memberCalls \cup {put}
        /\ UNCHANGED <<belongs, groupRow, groupForm, groupDialog, elsewhere, memberFlips, chosen, calm>>
    BY <1>1, PartsAssumption DEF M!Save, MembersInv, M!TypeOK
  <2>2. memberSaves \in Nat /\ 0..memberSaves \subseteq 0..memberSaves' /\ n \in 0..memberSaves'
    BY <2>1 DEF MembersInv, M!TypeOK
  <2>3. memberCalls \subseteq MemberCall /\ MemberCall \subseteq MemberCall'
    BY <2>2 DEF MembersInv, M!TypeOK, MemberCall
  <2>4. put \in MemberCall' /\ put.kind = "put"
    BY <2>2, MemberCallIs
  <2> HIDE DEF n, put
  <2>5. \A c : c.kind \in M!Changes => (c \in memberCalls' <=> c \in memberCalls)
    BY <2>1, <2>4 DEF M!Changes
  <2>6. MembersCome'
    BY <2>1, <2>5, MemberCallsSame DEF MembersInv
  <2> QED
    BY <2>1, <2>3, <2>4, <2>6 DEF MembersInv, M!TypeOK, MemberCall, ReadWithMe
<1>2. CASE ~M!Save
  <2>1. /\ UNCHANGED <<belongs, groupRow, memberCalls, memberSaves, elsewhere, chosen, calm>>
        /\ groupDialog' \in BOOLEAN
    BY <1>2 DEF M!Open, M!Cancel, M!Flip, MembersInv, M!TypeOK
  <2>2. groupForm' \subseteq Colleague /\ memberFlips' \subseteq Colleague
    BY <1>2 DEF M!Open, M!Cancel, M!Flip, M!Toggled, MembersInv, M!TypeOK
  <2>3. MembersCome'
    BY <2>1 DEF MembersInv, MembersCome, OneChangeEach, Adding, Leaving
  <2> QED
    BY <2>1, <2>2, <2>3 DEF MembersInv, M!TypeOK, ReadWithMe
<1> QED
  BY <1>1, <1>2

LEMMA ElsewhereStep ==
    ASSUME MembersInv, NEW u \in Colleague, M!ChangeElsewhere(u)
    PROVE  MembersInv'
<1>1. /\ u # Me /\ elsewhere' \in 0..MaxElsewhere
      /\ belongs' = M!Toggled(belongs, u)
      /\ chosen' = IF u \in belongs' THEN chosen \cup {u} ELSE chosen \ {u}
      /\ calm' = (calm /\ ~\E c \in memberCalls : c.kind \in M!Changes /\ c.u = u)
      /\ UNCHANGED <<groupRow, groupForm, groupDialog, memberCalls, memberSaves, memberFlips>>
  BY PartsAssumption DEF M!ChangeElsewhere, MembersInv, M!TypeOK
<1>2. ASSUME calm', NEW v \in Colleague
      PROVE  v \in chosen' <=> Adding(v)' \/ (~Leaving(v)' /\ v \in belongs')
  <2>1. v \in chosen <=> Adding(v) \/ (~Leaving(v) /\ v \in belongs)
    BY <1>1, <1>2 DEF MembersInv, MembersCome
  <2>2. Adding(v)' = Adding(v) /\ Leaving(v)' = Leaving(v)
    BY <1>1 DEF Adding, Leaving
  <2>3. CASE v = u
    <3>1. ~Adding(u) /\ ~Leaving(u)
      BY <1>1, <1>2 DEF Adding, Leaving, M!Changes
    <3> QED
      BY <1>1, <2>2, <2>3, <3>1
  <2>4. CASE v # u
    BY <1>1, <2>1, <2>2, <2>4 DEF M!Toggled
  <2> QED
    BY <2>3, <2>4
<1>3. MembersCome'
  BY <1>1, <1>2 DEF MembersInv, MembersCome, OneChangeEach
<1>4. belongs' \subseteq Colleague /\ Me \in belongs' /\ chosen' \subseteq Colleague
  BY <1>1 DEF M!Toggled, MembersInv, M!TypeOK
<1> QED
  BY <1>1, <1>3, <1>4 DEF MembersInv, M!TypeOK, ReadWithMe

(* The differences that are sent are what was changed in the form.         *)
LEMMA AnswerPutStep ==
    ASSUME MembersInv, NEW c \in memberCalls, M!AnswerPut(c)
    PROVE  MembersInv'
<1> DEFINE others == memberCalls \ {c}
           adds == {M!Call("add", u, c.n) : u \in groupForm \ groupRow}
           removes == {M!Call("remove", u, c.n) : u \in groupRow \ groupForm}
           changed == (groupForm \ groupRow) \cup (groupRow \ groupForm)
           get == M!Call("get", Me, c.n)
<1>1. /\ c.kind = "put"
      /\ calm' = /\ calm /\ \A d \in others : d.kind = "put"
                 /\ changed \subseteq memberFlips
                 /\ \A u \in memberFlips :
                       (u \in groupForm <=> u \in groupRow) => (u \in groupRow <=> u \in belongs)
      /\ chosen' = (chosen \ memberFlips) \cup (groupForm \cap memberFlips) /\ memberFlips' = {}
      /\ UNCHANGED <<belongs, groupRow, groupForm, memberSaves, elsewhere>>
  BY DEF M!AnswerPut
<1>2. /\ memberCalls' \in {others \cup {get}, others \cup (adds \cup removes)}
      /\ adds \cup removes # {} => memberCalls' = others \cup (adds \cup removes)
      /\ groupDialog' \in {groupDialog, FALSE}
  BY DEF M!AnswerPut, M!Finish, M!Differences
<1>3. memberCalls \subseteq MemberCall /\ MemberCall' = MemberCall
  BY <1>1 DEF MembersInv, M!TypeOK, MemberCall
<1>4. c.n \in 0..memberSaves'
  BY <1>1, <1>3 DEF MemberCall
<1>5. /\ get \in MemberCall' /\ get.kind = "get" /\ ~get.served
      /\ \A k \in M!Changes, u \in Colleague : 
            /\ M!Call(k, u, c.n) \in MemberCall'
            /\ M!Call(k, u, c.n).kind = k /\ M!Call(k, u, c.n).u = u
  BY <1>4, MemberCallIs
<1>6. groupForm \subseteq Colleague /\ groupRow \subseteq Colleague
  BY DEF MembersInv, M!TypeOK
<1>7. memberCalls' \subseteq MemberCall' /\ ReadWithMe'
  <2>1. \A d \in adds \cup removes : d \in MemberCall' /\ d.kind \in M!Changes
    BY <1>5, <1>6 DEF M!Changes
  <2> HIDE DEF adds, removes, get
  <2> QED
    BY <1>2, <1>3, <1>5, <2>1 DEF ReadWithMe, MembersInv, M!Changes
<1>8. ASSUME calm'
      PROVE  MembersCome'
  <2>0. calm /\ \A d \in memberCalls : d.kind = "put"
    BY <1>1, <1>8
  <2>1. \A u \in Colleague : ~Adding(u) /\ ~Leaving(u) /\ (u \in chosen <=> u \in belongs)
    BY <2>0 DEF MembersInv, MembersCome, Adding, Leaving
  <2>2. \A d \in memberCalls' : d.kind \in M!Changes => d \in adds \cup removes
    BY <1>1, <1>2, <1>5, <2>0 DEF M!Changes
  <2>3. adds \cup removes \subseteq memberCalls'
    BY <1>2
  <2>4. ASSUME NEW d \in adds \cup removes
        PROVE  \/ d.u \in groupForm \ groupRow /\ d = M!Call("add", d.u, c.n) /\ d.kind = "add"
               \/ d.u \in groupRow \ groupForm /\ d = M!Call("remove", d.u, c.n) /\ d.kind = "remove"
    BY <1>5, <1>6, <2>4 DEF M!Changes
  <2>5. OneChangeEach'
    BY <2>2, <2>4 DEF OneChangeEach
  <2>6. ASSUME NEW u \in Colleague
        PROVE  /\ Adding(u)' <=> u \in groupForm \ groupRow
               /\ Leaving(u)' <=> u \in groupRow \ groupForm
    <3>1. Adding(u)' => u \in groupForm \ groupRow
      BY <2>2, <2>4 DEF Adding, M!Changes
    <3>2. Leaving(u)' => u \in groupRow \ groupForm
      BY <2>2, <2>4 DEF Leaving, M!Changes
    <3>3. u \in groupForm \ groupRow => Adding(u)'
      <4>1. u \in groupForm \ groupRow => M!Call("add", u, c.n) \in adds
        OBVIOUS
      <4> QED
        BY <4>1, <1>5, <2>3 DEF Adding, M!Changes
    <3>4. u \in groupRow \ groupForm => Leaving(u)'
      <4>1. u \in groupRow \ groupForm => M!Call("remove", u, c.n) \in removes
        OBVIOUS
      <4> QED
        BY <4>1, <1>5, <2>3 DEF Leaving, M!Changes
    <3> QED
      BY <3>1, <3>2, <3>3, <3>4
  <2> QED
    BY <1>1, <1>8, <2>1, <2>5, <2>6 DEF MembersCome
<1>9. MembersCome'
  BY <1>8 DEF MembersCome
<1>10. chosen' \subseteq Colleague /\ memberFlips' \subseteq Colleague /\ calm' \in BOOLEAN
       /\ groupDialog' \in BOOLEAN
  BY <1>1, <1>2, <1>6 DEF MembersInv, M!TypeOK
<1> QED
  BY <1>1, <1>7, <1>9, <1>10 DEF MembersInv, M!TypeOK, MemberCall

LEMMA ServeMemberStep ==
    ASSUME MembersInv, NEW c \in memberCalls, M!ServeChange(c)
    PROVE  MembersInv'
<1> DEFINE others == memberCalls \ {c}
           get == M!Call("get", Me, c.n)
<1>1. /\ c.kind \in M!Changes /\ ~(c.kind = "remove" /\ c.u = Me)
      /\ belongs' = IF c.kind = "add" THEN belongs \cup {c.u} ELSE belongs \ {c.u}
      /\ memberCalls' \in {others, others \cup {get}} /\ groupDialog' \in {groupDialog, FALSE}
      /\ UNCHANGED <<groupRow, groupForm, memberSaves, elsewhere, memberFlips, chosen, calm>>
  BY DEF M!ServeChange, M!Finish
<1>2. memberCalls \subseteq MemberCall /\ MemberCall' = MemberCall
  BY <1>1 DEF MembersInv, M!TypeOK, MemberCall
<1>3. c.u \in Colleague /\ c.n \in 0..memberSaves'
  BY <1>1, <1>2 DEF MemberCall, M!Changes
<1>4. get \in MemberCall' /\ get.kind = "get" /\ ~get.served
  BY <1>3, MemberCallIs
<1> HIDE DEF get
<1>5. memberCalls' \subseteq MemberCall' /\ ReadWithMe'
  BY <1>1, <1>2, <1>4 DEF MembersInv, ReadWithMe
<1>6. ASSUME calm, NEW u \in Colleague
      PROVE  u \in chosen <=> Adding(u)' \/ (~Leaving(u)' /\ u \in belongs')
  <2>1. OneChangeEach /\ (u \in chosen <=> Adding(u) \/ (~Leaving(u) /\ u \in belongs))
    BY <1>6 DEF MembersInv, MembersCome
  <2>2. CASE u = c.u
    <3>1. ~Adding(u)' /\ ~Leaving(u)'
      BY <1>1, <1>4, <2>1, <2>2 DEF OneChangeEach, Adding, Leaving, M!Changes
    <3>2. Adding(u) <=> c.kind = "add"
      BY <1>1, <2>1, <2>2 DEF OneChangeEach, Adding, M!Changes
    <3>3. Leaving(u) <=> c.kind # "add"
      BY <1>1, <2>1, <2>2 DEF OneChangeEach, Leaving, M!Changes
    <3> QED
      BY <1>1, <2>1, <2>2, <3>1, <3>2, <3>3
  <2>3. CASE u # c.u
    <3>1. Adding(u)' = Adding(u) /\ Leaving(u)' = Leaving(u)
      BY <1>1, <1>4, <2>3 DEF Adding, Leaving
    <3> QED
      BY <1>1, <2>1, <2>3, <3>1
  <2> QED
    BY <2>2, <2>3
<1>7. OneChangeEach => OneChangeEach'
  BY <1>1, <1>4 DEF OneChangeEach, M!Changes
<1>8. MembersCome'
  BY <1>1, <1>6, <1>7 DEF MembersInv, MembersCome
<1>9. belongs' \subseteq Colleague /\ Me \in belongs' /\ groupDialog' \in BOOLEAN
  BY <1>1, <1>3 DEF MembersInv, M!TypeOK, M!Changes
<1> QED
  BY <1>1, <1>5, <1>8, <1>9 DEF MembersInv, M!TypeOK, MemberCall

LEMMA OtherMemberSteps ==
    ASSUME MembersInv, NEW c \in memberCalls, M!ServeGet(c) \/ M!AnswerGet(c) \/ M!Fail(c)
    PROVE  MembersInv'
<1>1. /\ memberCalls \subseteq MemberCall /\ MemberCall' = MemberCall /\ c \in MemberCall
      /\ UNCHANGED <<belongs, groupForm, groupDialog, memberSaves, elsewhere, memberFlips, chosen>>
  BY DEF MembersInv, M!TypeOK, MemberCall, M!ServeGet, M!AnswerGet, M!Fail
<1>2. CASE M!ServeGet(c)
  <2> DEFINE d == [c EXCEPT !.served = TRUE, !.got = belongs]
  <2>1. /\ memberCalls' = (memberCalls \ {c}) \cup {d} /\ c.kind = "get"
        /\ groupRow' = groupRow /\ calm' = calm
    BY <1>2 DEF M!ServeGet
  <2>2. d \in MemberCall' /\ d.kind = "get" /\ Me \in d.got
    BY <1>1, <2>1 DEF MemberCall, MembersInv, M!TypeOK, M!Changes
  <2> HIDE DEF d
  <2>3. \A x : x.kind \in M!Changes => (x \in memberCalls' <=> x \in memberCalls)
    BY <2>1, <2>2 DEF M!Changes
  <2>4. MembersCome'
    BY <1>1, <2>1, <2>3, MemberCallsSame DEF MembersInv
  <2> QED
    BY <1>1, <2>1, <2>2, <2>4 DEF MembersInv, M!TypeOK, MemberCall, ReadWithMe
<1>3. CASE M!AnswerGet(c)
  <2>1. /\ memberCalls' = memberCalls \ {c} /\ c.kind = "get" /\ c.served
        /\ groupRow' = c.got /\ calm' = calm
    BY <1>3 DEF M!AnswerGet
  <2>2. Me \in c.got /\ c.got \subseteq Colleague
    BY <1>1, <2>1 DEF MembersInv, ReadWithMe, MemberCall, M!Changes
  <2>3. \A x : x.kind \in M!Changes => (x \in memberCalls' <=> x \in memberCalls)
    BY <2>1 DEF M!Changes
  <2>4. MembersCome'
    BY <1>1, <2>1, <2>3, MemberCallsSame DEF MembersInv
  <2> QED
    BY <1>1, <2>1, <2>2, <2>4 DEF MembersInv, M!TypeOK, MemberCall, ReadWithMe
<1>4. CASE M!Fail(c)
  <2> DEFINE Freed(d) == IF d.n = c.n THEN [d EXCEPT !.n = 0] ELSE d
  <2>1. /\ memberCalls' = {Freed(d) : d \in memberCalls \ {c}} /\ ~calm'
        /\ groupRow' = groupRow /\ calm' \in BOOLEAN
    BY <1>4 DEF M!Fail
  <2>2. 0 \in 0..memberSaves
    BY DEF MembersInv, M!TypeOK
  <2>3. \A d \in MemberCall :
           /\ Freed(d) \in MemberCall /\ Freed(d).kind = d.kind
           /\ Freed(d).served = d.served /\ Freed(d).got = d.got
    BY <2>2 DEF MemberCall
  <2> HIDE DEF Freed
  <2>4. memberCalls' \subseteq MemberCall'
    BY <1>1, <2>1, <2>3
  <2>5. ReadWithMe'
    BY <1>1, <2>1, <2>3 DEF MembersInv, ReadWithMe
  <2> QED
    BY <1>1, <2>1, <2>4, <2>5 DEF MembersInv, M!TypeOK, MemberCall, MembersCome
<1> QED
  BY <1>2, <1>3, <1>4

LEMMA MembersStep ==
    ASSUME MembersInv, [M!Next]_(M!vars)
    PROVE  MembersInv'
<1>1. CASE UNCHANGED M!vars
  BY <1>1 DEF M!vars, MembersInv, M!TypeOK, ReadWithMe, MembersCome, OneChangeEach, Adding, Leaving
<1> QED
  BY <1>1, MemberDialogSteps, ElsewhereStep, AnswerPutStep, ServeMemberStep, OtherMemberSteps
     DEF M!Next

LEMMA MembersInit == M!Init => MembersInv
<1>1. MaxMemberSaves \in Nat /\ MaxElsewhere \in Nat /\ Me \in Colleague
  BY PartsAssumption
<1> SUFFICES ASSUME M!Init PROVE MembersInv
  OBVIOUS
<1>2. /\ belongs \subseteq Colleague /\ Me \in belongs /\ memberCalls = {}
      /\ groupRow = belongs /\ groupForm = belongs /\ chosen = belongs
      /\ groupDialog = FALSE /\ memberFlips = {} /\ memberSaves = 0 /\ elsewhere = 0 /\ calm = TRUE
  BY DEF M!Init
<1>3. M!TypeOK
  <2>1. belongs \cup groupRow \cup groupForm \cup memberFlips \cup chosen \subseteq Colleague
        /\ Me \in belongs \cap groupRow
    BY <1>2
  <2>2. groupDialog \in BOOLEAN /\ calm \in BOOLEAN
    BY <1>2
  <2>3. memberSaves \in 0..MaxMemberSaves /\ elsewhere \in 0..MaxElsewhere
    BY <1>1, <1>2
  <2> QED
    BY <1>2, <2>1, <2>2, <2>3 DEF M!TypeOK
<1> QED
  BY <1>2, <1>3 DEF MembersInv, ReadWithMe, MembersCome, OneChangeEach, Adding, Leaving

LEMMA MembersImply == MembersInv => M!MembersAsChosen
  BY DEF MembersInv, M!TypeOK, MembersCome, M!MembersAsChosen, Adding, Leaving

-----------------------------------------------------------------------------
(* The tags of an evaluation.                                              *)

TagCall ==
    [kind : {"add", "delete"}, id : 0..ids, value : Value, batch : 0..saves,
     sync : BOOLEAN, got : {T!NoTags}, served : BOOLEAN] \cup
    [kind : {"list"}, id : {0}, value : {CHOOSE v \in Value : TRUE}, batch : 0..saves,
     sync : BOOLEAN, got : SUBSET T!Tag, served : BOOLEAN]

UniqueIds == \A t, u \in stored : t.id = u.id => t = u

(* The calls of a kind the server has not seen yet.                        *)
Unserved(kind) == {c \in tagCalls : c.kind = kind /\ ~c.served}

TagsOnce == \A t, u \in stored : t.value = u.value => t = u

(* The calls under way are those of one save or deletion, or the list that *)
(* follows it, which ends with the row as the server has it.               *)
OneBatch == \A c, d \in tagCalls : c.batch = d.batch /\ c.sync = d.sync /\ c.batch # 0
ListLast == \A c \in tagCalls : c.kind = "list" => tagCalls = {c} /\ (c.served => c.got = stored)
RowRight == tagCalls = {} => shown = stored

(* The editor holds what is wanted and what was changed in it since.       *)
EditorRight ==
    (\A c \in tagCalls : ~c.sync) => tags = (wanted \ flips) \cup (flips \ wanted)

(* What is wanted is there or is being added, once; what is there is       *)
(* wanted or is being deleted.                                             *)
AddsRight ==
    /\ \A v \in wanted : (\E t \in stored : t.value = v) \/ \E c \in Unserved("add") : c.value = v
    /\ \A c \in Unserved("add") : c.value \in wanted /\ \A t \in stored : t.value # c.value
    /\ \A c, d \in Unserved("add") : c.value = d.value => c = d
DeletesRight ==
    /\ \A t \in stored : t.value \in wanted \/ \E c \in Unserved("delete") : c.id = t.id
    /\ \A c \in Unserved("delete"), t \in stored : c.id = t.id => t.value \notin wanted

TagsCome ==
    /\ TagsOnce /\ OneBatch /\ ListLast /\ RowRight /\ EditorRight
    /\ AddsRight /\ DeletesRight

TagsInv == T!TypeOK /\ UniqueIds /\ (alone => TagsCome)

LEMMA TagTypes ==
    T!TypeOK <=> /\ stored \subseteq T!Tag /\ shown \subseteq T!Tag
                 /\ tags \subseteq Value /\ flips \subseteq Value /\ wanted \subseteq Value
                 /\ saves \in 0..MaxSaves /\ ids \in Nat /\ alone \in BOOLEAN
                 /\ tagCalls \subseteq TagCall
  BY DEF T!TypeOK, TagCall

LEMMA RefreshIs ==
    ASSUME NEW b \in 0..saves', NEW y \in BOOLEAN
    PROVE  /\ T!Refresh(b, y) \in TagCall' /\ T!Refresh(b, y).kind = "list"
           /\ T!Refresh(b, y).batch = b /\ T!Refresh(b, y).sync = y /\ ~T!Refresh(b, y).served
  BY DEF T!Refresh, T!Call, TagCall, T!NoTags

(* At rest the row and the editor are right.                               *)
LEMMA TagsAtRest ==
    ASSUME T!TypeOK, TagsCome, tagCalls = {}
    PROVE  /\ shown = stored /\ T!Values(stored) = wanted
           /\ tags = (wanted \ flips) \cup (flips \ wanted)
<1>1. \A k : Unserved(k) = {}
  BY DEF Unserved
<1>2. T!Values(stored) = wanted
  BY <1>1 DEF TagsCome, AddsRight, DeletesRight, T!Values
<1> QED
  BY <1>2 DEF TagsCome, RowRight, EditorRight

(* The bounds of what a save or a deletion adds.                           *)
LEMMA StartTypes ==
    ASSUME T!TypeOK, T!Starts, UNCHANGED ids
    PROVE  /\ saves' = saves + 1 /\ saves' \in 0..MaxSaves /\ saves' # 0
           /\ tagCalls \subseteq TagCall' /\ alone' = (alone /\ tagCalls = {}) /\ T!Tag' = T!Tag
<1>1. /\ saves' = saves + 1 /\ saves' \in 0..MaxSaves /\ saves' # 0
      /\ 0..saves \subseteq 0..saves' /\ alone' = (alone /\ tagCalls = {})
  BY PartsAssumption DEF T!Starts, T!TypeOK
<1>2. T!Tag' = T!Tag
  BY DEF T!Tag
<1>3. TagCall \subseteq TagCall'
  BY <1>1, <1>2 DEF TagCall
<1> QED
  BY <1>1, <1>2, <1>3, TagTypes

LEMMA SaveTagsStep ==
    ASSUME TagsInv, T!Save
    PROVE  TagsInv'
<1> DEFINE b == saves'
           add(v) == T!Call("add", 0, v, b, FALSE, T!NoTags)
           del(t) == T!Call("delete", t.id, t.value, b, FALSE, T!NoTags)
           adds == {add(v) : v \in tags \ T!Values(shown)}
           dels == {del(t) : t \in {u \in shown : u.value \notin tags}}
           list == T!Refresh(b, FALSE)
           new == IF adds \cup dels = {} THEN {list} ELSE adds \cup dels
<1>0. T!Starts /\ tagCalls' = tagCalls \cup new
      /\ wanted' = (wanted \ flips) \cup (flips \ wanted) /\ flips' = {}
      /\ UNCHANGED <<stored, shown, tags, ids>>
  BY DEF T!Save
<1>1. /\ b \in 0..MaxSaves /\ b # 0 /\ b \in 0..saves' /\ tagCalls \subseteq TagCall'
      /\ alone' = (alone /\ tagCalls = {}) /\ T!Tag' = T!Tag
  BY <1>0, StartTypes DEF TagsInv, T!TypeOK
<1>2. /\ stored \subseteq T!Tag /\ shown \subseteq T!Tag /\ ids \in Nat
      /\ tags \subseteq Value /\ flips \subseteq Value /\ wanted \subseteq Value
      /\ alone \in BOOLEAN
  BY TagTypes DEF TagsInv
<1>3. \A v \in Value : /\ add(v) \in TagCall' /\ add(v).kind = "add" /\ add(v).value = v
                       /\ add(v).batch = b /\ add(v).sync = FALSE /\ ~add(v).served
  <2>1. 0 \in 0..ids'
    BY <1>0, <1>2
  <2> QED
    BY <1>1, <2>1 DEF T!Call, TagCall
<1>4. \A t \in T!Tag : /\ del(t) \in TagCall' /\ del(t).kind = "delete" /\ del(t).id = t.id
                       /\ del(t).batch = b /\ del(t).sync = FALSE /\ ~del(t).served
  <2>1. \A t \in T!Tag : t.id \in 0..ids' /\ t.value \in Value
    BY <1>0, <1>2 DEF T!Tag
  <2> QED
    BY <1>1, <2>1 DEF T!Call, TagCall
<1>5. list \in TagCall' /\ list.kind = "list" /\ list.batch = b /\ list.sync = FALSE /\ ~list.served
  BY <1>1, RefreshIs
<1> HIDE DEF add, del, list
<1>6. \A c \in new : /\ c \in TagCall' /\ c.batch = b /\ c.sync = FALSE /\ ~c.served
                     /\ c.kind = "list" => new = {c}
                     /\ c.kind = "add" => c.value \in tags \ T!Values(shown) /\ c = add(c.value)
                     /\ c.kind = "delete" => \E t \in shown : c.id = t.id /\ t.value \notin tags
  <2>1. \A c \in adds : c.value \in tags \ T!Values(shown) /\ c = add(c.value) /\ c.kind = "add"
                       /\ c \in TagCall' /\ c.batch = b /\ c.sync = FALSE /\ ~c.served
    BY <1>2, <1>3
  <2>2. \A c \in dels : /\ \E t \in shown : c.id = t.id /\ t.value \notin tags
                       /\ c.kind = "delete" /\ c \in TagCall' /\ c.batch = b /\ c.sync = FALSE /\ ~c.served
    BY <1>2, <1>4
  <2> HIDE DEF adds, dels
  <2> QED
    BY <1>5, <2>1, <2>2
<1>7. /\ \A v \in tags \ T!Values(shown) : add(v) \in new
      /\ \A t \in shown : t.value \notin tags => del(t) \in new
  OBVIOUS
<1>8. new # {}
  OBVIOUS
<1> HIDE DEF new
<1>9. T!TypeOK'
  <2>1. tagCalls' \subseteq TagCall'
    BY <1>0, <1>1, <1>6
  <2>2. wanted' \subseteq Value
    BY <1>0, <1>2
  <2> QED
    BY <1>0, <1>1, <1>2, <2>1, <2>2 DEF T!TypeOK, TagCall
<1>10. UniqueIds'
  BY <1>0 DEF TagsInv, UniqueIds
<1>11. ASSUME alone'
       PROVE  TagsCome'
  <2>1. alone /\ tagCalls = {} /\ TagsCome /\ tagCalls' = new
    BY <1>0, <1>1, <1>11 DEF TagsInv
  <2>2. /\ shown = stored /\ T!Values(stored) = wanted
        /\ tags = (wanted \ flips) \cup (flips \ wanted) /\ tags = wanted'
    BY <1>0, <2>1, TagsAtRest DEF TagsInv
  <2>a. OneBatch'
    BY <1>1, <1>6, <2>1 DEF OneBatch
  <2>b. ListLast'
    BY <1>6, <2>1 DEF ListLast
  <2>3. RowRight' /\ TagsOnce'
    BY <1>0, <1>8, <2>1 DEF RowRight, TagsOnce, TagsCome
  <2>4. EditorRight'
    BY <1>0, <2>2 DEF EditorRight
  <2>5. AddsRight'
    <3>1. ASSUME NEW v \in wanted'
          PROVE  (\E t \in stored' : t.value = v) \/ \E c \in Unserved("add")' : c.value = v
      <4>1. CASE v \in T!Values(shown)
        BY <1>0, <2>2, <4>1 DEF T!Values
      <4>2. CASE v \notin T!Values(shown)
        <5>1. add(v) \in tagCalls' /\ v \in Value
          BY <1>2, <1>7, <2>1, <2>2, <4>2
        <5> QED
          BY <1>3, <5>1 DEF Unserved
      <4> QED
        BY <4>1, <4>2
    <3>2. ASSUME NEW c \in Unserved("add")'
          PROVE  c.value \in wanted' /\ (\A t \in stored' : t.value # c.value) /\ c = add(c.value)
      <4>1. c.value \in tags \ T!Values(shown) /\ c = add(c.value)
        BY <1>6, <2>1 DEF Unserved
      <4> QED
        BY <1>0, <2>2, <4>1 DEF T!Values
    <3> QED
      BY <3>1, <3>2 DEF AddsRight
  <2>6. DeletesRight'
    <3>1. ASSUME NEW t \in stored', t.value \notin wanted'
          PROVE  \E c \in Unserved("delete")' : c.id = t.id
      <4>1. del(t) \in tagCalls' /\ t \in T!Tag
        BY <1>0, <1>2, <1>7, <2>1, <2>2, <3>1
      <4> QED
        BY <1>4, <4>1 DEF Unserved
    <3>2. ASSUME NEW c \in Unserved("delete")', NEW t \in stored', c.id = t.id
          PROVE  t.value \notin wanted'
      <4>1. PICK u \in shown : c.id = u.id /\ u.value \notin tags
        BY <1>6, <2>1 DEF Unserved
      <4> QED
        BY <1>0, <2>2, <3>2, <4>1 DEF TagsInv, UniqueIds
    <3> QED
      BY <3>1, <3>2 DEF DeletesRight
  <2> QED
    BY <2>a, <2>b, <2>3, <2>4, <2>5, <2>6 DEF TagsCome
<1> QED
  BY <1>9, <1>10, <1>11 DEF TagsInv

LEMMA DeleteTagStep ==
    ASSUME TagsInv, NEW t \in shown, T!DeleteTag(t)
    PROVE  TagsInv'
<1> DEFINE b == saves'
           del == T!Call("delete", t.id, t.value, b, TRUE, T!NoTags)
<1>0. /\ T!Starts /\ tagCalls' = tagCalls \cup {del}
      /\ wanted' = wanted \ {t.value} /\ UNCHANGED <<stored, shown, tags, ids, flips>>
  BY DEF T!DeleteTag
<1>1. /\ b \in 0..MaxSaves /\ b # 0 /\ b \in 0..saves' /\ tagCalls \subseteq TagCall'
      /\ alone' = (alone /\ tagCalls = {}) /\ T!Tag' = T!Tag
  BY <1>0, StartTypes DEF TagsInv, T!TypeOK
<1>2. /\ stored \subseteq T!Tag /\ shown \subseteq T!Tag /\ ids \in Nat
      /\ tags \subseteq Value /\ flips \subseteq Value /\ wanted \subseteq Value
      /\ alone \in BOOLEAN
  BY TagTypes DEF TagsInv
<1>3. /\ del \in TagCall' /\ del.kind = "delete" /\ del.id = t.id /\ del.batch = b
      /\ del.sync = TRUE /\ ~del.served
  <2>1. t.id \in 0..ids' /\ t.value \in Value
    BY <1>0, <1>2 DEF T!Tag
  <2> QED
    BY <1>1, <2>1 DEF T!Call, TagCall
<1> HIDE DEF del
<1>4. T!TypeOK'
  <2>1. tagCalls' \subseteq TagCall'
    BY <1>0, <1>1, <1>3
  <2>2. wanted' \subseteq Value
    BY <1>0, <1>2
  <2> QED
    BY <1>0, <1>1, <1>2, <2>1, <2>2 DEF T!TypeOK, TagCall
<1>5. UniqueIds'
  BY <1>0 DEF TagsInv, UniqueIds
<1>6. ASSUME alone'
      PROVE  TagsCome'
  <2>1. alone /\ tagCalls = {} /\ TagsCome /\ tagCalls' = {del}
    BY <1>0, <1>1, <1>6 DEF TagsInv
  <2>2. shown = stored /\ T!Values(stored) = wanted
    BY <2>1, TagsAtRest DEF TagsInv
  <2>3. OneBatch' /\ ListLast' /\ RowRight' /\ EditorRight'
    BY <1>0, <1>1, <1>3, <2>1 DEF OneBatch, ListLast, RowRight, EditorRight
  <2>4. TagsOnce'
    BY <1>0, <2>1 DEF TagsOnce, TagsCome
  <2>5. Unserved("add")' = {} /\ Unserved("delete")' = {del}
    BY <1>3, <2>1 DEF Unserved
  <2>6. AddsRight'
    BY <1>0, <2>2, <2>5 DEF AddsRight, T!Values
  <2>7. DeletesRight'
    <3>1. ASSUME NEW u \in stored
          PROVE  (u.value \in wanted' \/ u.id = t.id) /\ (u.id = t.id => u.value \notin wanted')
      BY <1>0, <2>1, <2>2, <3>1 DEF TagsCome, TagsOnce, TagsInv, UniqueIds, T!Values
    <3> QED
      BY <1>0, <1>3, <2>5, <3>1 DEF DeletesRight
  <2> QED
    BY <2>3, <2>4, <2>6, <2>7 DEF TagsCome
<1> QED
  BY <1>4, <1>5, <1>6 DEF TagsInv

(* What is typed into the editor, or taken back while nothing is under way.*)
LEMMA EditTagsStep ==
    ASSUME TagsInv, T!Cancel \/ (\E v \in Value : T!Choose(v))
    PROVE  TagsInv'
<1>1. UNCHANGED <<stored, shown, tagCalls, saves, ids, wanted>>
  BY DEF T!Cancel, T!Choose
<1>2. /\ stored \subseteq T!Tag /\ shown \subseteq T!Tag
      /\ tags \subseteq Value /\ flips \subseteq Value /\ wanted \subseteq Value
      /\ alone \in BOOLEAN
  BY TagTypes DEF TagsInv
<1>3. tags' \subseteq Value /\ flips' \subseteq Value /\ alone' \in BOOLEAN /\ (alone' => alone)
  <2>1. CASE T!Cancel
    BY <1>2, <2>1 DEF T!Cancel, T!Values, T!Tag
  <2>2. CASE \E v \in Value : T!Choose(v)
    BY <1>2, <2>2 DEF T!Choose, T!Toggled
  <2> QED
    BY <2>1, <2>2
<1>4. ASSUME alone'
      PROVE  EditorRight'
  <2>1. CASE T!Cancel
    <3>1. tagCalls = {} /\ alone /\ tags' = T!Values(shown) /\ flips' = {}
      BY <1>4, <2>1 DEF T!Cancel
    <3>2. T!Values(shown) = wanted
      BY <3>1, TagsAtRest DEF TagsInv
    <3> QED
      BY <1>1, <3>1, <3>2 DEF EditorRight
  <2>2. ASSUME NEW v \in Value, T!Choose(v)
        PROVE  EditorRight'
    BY <1>1, <1>3, <1>4, <2>2 DEF T!Choose, T!Toggled, TagsInv, TagsCome, EditorRight
  <2> QED
    BY <2>1, <2>2
<1>5. TagsOnce' = TagsOnce /\ OneBatch' = OneBatch /\ ListLast' = ListLast /\ RowRight' = RowRight
  BY <1>1 DEF TagsOnce, OneBatch, ListLast, RowRight
<1>6. AddsRight' = AddsRight /\ DeletesRight' = DeletesRight
  BY <1>1 DEF AddsRight, DeletesRight, Unserved
<1>7. T!TypeOK' /\ UniqueIds'
  BY <1>1, <1>2, <1>3 DEF TagsInv, T!TypeOK, T!Tag, UniqueIds
<1> QED
  BY <1>3, <1>4, <1>5, <1>6, <1>7 DEF TagsInv, TagsCome

(* A call the server serves.                                               *)
LEMMA ServedIs ==
    ASSUME T!TypeOK, NEW c \in tagCalls
    PROVE  /\ [c EXCEPT !.served = TRUE] \in TagCall /\ [c EXCEPT !.served = TRUE].served
           /\ [c EXCEPT !.served = TRUE].kind = c.kind /\ [c EXCEPT !.served = TRUE].id = c.id
           /\ [c EXCEPT !.served = TRUE].batch = c.batch /\ [c EXCEPT !.served = TRUE].sync = c.sync
<1>1. c \in TagCall
  BY TagTypes
<1> QED
  BY <1>1 DEF TagCall

LEMMA ServeAddStep ==
    ASSUME TagsInv, NEW c \in tagCalls, c.kind = "add", T!Serve(c)
    PROVE  TagsInv'
<1> DEFINE d == [c EXCEPT !.served = TRUE]
           new == [id |-> ids', value |-> c.value]
<1>1. /\ ~c.served /\ ids' = ids + 1 /\ stored' = stored \cup {new}
      /\ tagCalls' = (tagCalls \ {c}) \cup {d}
      /\ UNCHANGED <<shown, tags, saves, flips, wanted, alone>>
  BY DEF T!Serve, T!Served
<1>2. /\ stored \subseteq T!Tag /\ shown \subseteq T!Tag /\ ids \in Nat /\ tagCalls \subseteq TagCall
  BY TagTypes DEF TagsInv
<1>3. d \in TagCall /\ d.kind = "add" /\ d.served /\ d.batch = c.batch /\ d.sync = c.sync
  BY ServedIs DEF TagsInv
<1>4. T!Tag \subseteq T!Tag' /\ TagCall \subseteq TagCall' /\ new \in T!Tag'
      /\ new.id = ids + 1 /\ new.value = c.value
  <2>1. 1..ids \subseteq 1..ids' /\ 0..ids \subseteq 0..ids' /\ ids' \in 1..ids'
    BY <1>1, <1>2
  <2>2. c.value \in Value
    BY <1>2 DEF TagCall
  <2>3. T!Tag \subseteq T!Tag'
    BY <2>1 DEF T!Tag
  <2>4. TagCall \subseteq TagCall'
    BY <1>1, <2>1, <2>3 DEF TagCall
  <2> QED
    BY <1>1, <2>1, <2>2, <2>3, <2>4 DEF T!Tag
<1> HIDE DEF d, new
<1>5. T!TypeOK'
  <2>1. tagCalls' \subseteq TagCall' /\ stored' \subseteq T!Tag' /\ shown' \subseteq T!Tag' /\ ids' \in Nat
    BY <1>1, <1>2, <1>3, <1>4
  <2> QED
    BY <1>1, <2>1 DEF TagsInv, T!TypeOK, TagCall
<1>6. UniqueIds' /\ \A t \in stored : t.id # new.id
  BY <1>1, <1>2, <1>4 DEF TagsInv, UniqueIds, T!Tag
<1>7. ASSUME alone
      PROVE  TagsCome'
  <2>0. TagsCome
    BY <1>7 DEF TagsInv
  <2>1. c \in Unserved("add") /\ c.value \in wanted /\ \A t \in stored : t.value # c.value
    BY <1>1, <2>0 DEF Unserved, TagsCome, AddsRight
  <2>2. Unserved("add")' = Unserved("add") \ {c} /\ Unserved("delete")' = Unserved("delete")
    BY <1>1, <1>3 DEF Unserved
  <2>3. TagsOnce'
    BY <1>1, <1>4, <2>0, <2>1 DEF TagsCome, TagsOnce
  <2>4. OneBatch'
    BY <1>1, <1>3, <2>0 DEF TagsCome, OneBatch
  <2>5. ListLast' /\ RowRight'
    BY <1>1, <1>3, <2>0 DEF TagsCome, ListLast, RowRight
  <2>6. EditorRight'
    BY <1>1, <1>3, <2>0 DEF TagsCome, EditorRight
  <2>7. AddsRight'
    <3>1. ASSUME NEW v \in wanted'
          PROVE  (\E t \in stored' : t.value = v) \/ \E e \in Unserved("add")' : e.value = v
      BY <1>1, <1>4, <2>0, <2>2 DEF TagsCome, AddsRight
    <3>2. ASSUME NEW e \in Unserved("add")'
          PROVE  e.value \in wanted' /\ \A t \in stored' : t.value # e.value
      BY <1>1, <1>4, <2>0, <2>1, <2>2 DEF TagsCome, AddsRight
    <3> QED
      BY <2>0, <2>2, <3>1, <3>2 DEF TagsCome, AddsRight
  <2>8. DeletesRight'
    <3>1. \A e \in Unserved("delete") : e.id # new.id
      BY <1>2, <1>4 DEF Unserved, TagCall
    <3> QED
      BY <1>1, <1>4, <2>0, <2>1, <2>2, <3>1 DEF TagsCome, DeletesRight
  <2> QED
    BY <2>3, <2>4, <2>5, <2>6, <2>7, <2>8 DEF TagsCome
<1> QED
  BY <1>1, <1>5, <1>6, <1>7 DEF TagsInv

LEMMA ServeDeleteStep ==
    ASSUME TagsInv, NEW c \in tagCalls, c.kind = "delete", T!Serve(c)
    PROVE  TagsInv'
<1> DEFINE d == [c EXCEPT !.served = TRUE]
<1>1. /\ ~c.served /\ stored' = {t \in stored : t.id # c.id}
      /\ tagCalls' = (tagCalls \ {c}) \cup {d}
      /\ UNCHANGED <<shown, tags, saves, ids, flips, wanted, alone>>
  BY DEF T!Serve, T!Served
<1>2. d \in TagCall /\ d.kind = "delete" /\ d.served /\ d.batch = c.batch /\ d.sync = c.sync
  BY ServedIs DEF TagsInv
<1> HIDE DEF d
<1>3. T!TypeOK' /\ UniqueIds'
  <2>1. T!Tag' = T!Tag /\ TagCall' = TagCall /\ stored' \subseteq stored
    BY <1>1 DEF T!Tag, TagCall
  <2>2. tagCalls' \subseteq TagCall' /\ stored' \subseteq T!Tag' /\ shown' \subseteq T!Tag'
    BY <1>1, <1>2, <2>1, TagTypes DEF TagsInv
  <2> QED
    BY <1>1, <2>1, <2>2 DEF TagsInv, T!TypeOK, TagCall, UniqueIds
<1>4. ASSUME alone
      PROVE  TagsCome'
  <2>0. TagsCome
    BY <1>4 DEF TagsInv
  <2>1. c \in Unserved("delete")
    BY <1>1 DEF Unserved
  <2>2. Unserved("add")' = Unserved("add") /\ Unserved("delete")' = Unserved("delete") \ {c}
    BY <1>1, <1>2 DEF Unserved
  <2>3. TagsOnce'
    BY <1>1, <2>0 DEF TagsCome, TagsOnce
  <2>4. OneBatch'
    BY <1>1, <1>2, <2>0 DEF TagsCome, OneBatch
  <2>5. ListLast' /\ RowRight'
    BY <1>1, <1>2, <2>0 DEF TagsCome, ListLast, RowRight
  <2>6. EditorRight'
    BY <1>1, <1>2, <2>0 DEF TagsCome, EditorRight
  <2>7. AddsRight'
    BY <1>1, <2>0, <2>1, <2>2 DEF TagsCome, AddsRight, DeletesRight
  <2>8. DeletesRight'
    BY <1>1, <2>0, <2>1, <2>2 DEF TagsCome, DeletesRight
  <2> QED
    BY <2>3, <2>4, <2>5, <2>6, <2>7, <2>8 DEF TagsCome
<1> QED
  BY <1>1, <1>3, <1>4 DEF TagsInv

(* When the changes of a batch are answered the list is fetched, and taken *)
(* up as the server has it by then.                                        *)
LEMMA TagsLeft ==
    ASSUME TagsInv, NEW c \in tagCalls, c.served \/ c.kind = "list", UNCHANGED <<stored, wanted>>,
           \A e : e.kind # "list" /\ ~e.served => (e \in tagCalls' <=> e \in tagCalls)
    PROVE  /\ UniqueIds' /\ (TagsOnce => TagsOnce')
           /\ (AddsRight => AddsRight') /\ (DeletesRight => DeletesRight')
<1>1. Unserved("add")' = Unserved("add") /\ Unserved("delete")' = Unserved("delete")
  BY DEF Unserved
<1> QED
  BY <1>1 DEF TagsInv, UniqueIds, TagsOnce, AddsRight, DeletesRight

LEMMA ServeTagListStep ==
    ASSUME TagsInv, NEW c \in tagCalls, c.kind = "list", T!Serve(c)
    PROVE  TagsInv'
<1> DEFINE d == [c EXCEPT !.served = TRUE, !.got = stored]
<1>1. /\ ~c.served /\ tagCalls' = (tagCalls \ {c}) \cup {d}
      /\ UNCHANGED <<stored, ids, shown, tags, saves, flips, wanted, alone>>
  BY DEF T!Serve
<1>2. stored \subseteq T!Tag /\ tagCalls \subseteq TagCall /\ TagCall' = TagCall /\ T!Tag' = T!Tag
  BY <1>1, TagTypes DEF TagsInv, TagCall, T!Tag
<1>3. /\ d \in TagCall /\ d.kind = "list" /\ d.batch = c.batch /\ d.sync = c.sync
      /\ d.got = stored
  BY <1>2 DEF TagCall
<1> HIDE DEF d
<1>4. \A e : e.kind # "list" /\ ~e.served => (e \in tagCalls' <=> e \in tagCalls)
  BY <1>1, <1>3
<1>5. /\ UniqueIds' /\ (TagsOnce => TagsOnce')
      /\ (AddsRight => AddsRight') /\ (DeletesRight => DeletesRight')
  BY <1>1, <1>4, TagsLeft
<1>6. T!TypeOK'
  BY <1>1, <1>2, <1>3 DEF TagsInv, T!TypeOK, TagCall, T!Tag
<1>7. ASSUME alone
      PROVE  TagsCome'
  <2>0. TagsCome
    BY <1>7 DEF TagsInv
  <2>1. tagCalls = {c} /\ tagCalls' = {d}
    BY <1>1, <2>0 DEF TagsCome, ListLast
  <2>2. OneBatch' /\ ListLast' /\ RowRight' /\ EditorRight'
    BY <1>1, <1>3, <2>0, <2>1 DEF TagsCome, OneBatch, ListLast, RowRight, EditorRight
  <2> QED
    BY <1>5, <2>0, <2>2 DEF TagsCome
<1> QED
  BY <1>1, <1>5, <1>6, <1>7 DEF TagsInv

LEMMA AnswerTagStep ==
    ASSUME TagsInv, NEW c \in tagCalls, T!AnswerChange(c)
    PROVE  TagsInv'
<1> DEFINE list == T!Refresh(c.batch, c.sync)
           last == c.batch # 0 /\ ~\E d \in tagCalls \ {c} : d.batch = c.batch
<1>1. /\ c.served /\ c.kind # "list"
      /\ tagCalls' = (tagCalls \ {c}) \cup (IF last THEN {list} ELSE {})
      /\ UNCHANGED <<stored, ids, shown, tags, saves, flips, wanted, alone>>
  BY DEF T!AnswerChange
<1>2. tagCalls \subseteq TagCall /\ TagCall' = TagCall /\ T!Tag' = T!Tag
  BY <1>1, TagTypes DEF TagsInv, TagCall, T!Tag
<1>3. c.batch \in 0..saves' /\ c.sync \in BOOLEAN
  BY <1>1, <1>2 DEF TagCall
<1>4. /\ list \in TagCall' /\ list.kind = "list" /\ list.batch = c.batch /\ list.sync = c.sync
      /\ ~list.served
  BY <1>3, RefreshIs
<1> HIDE DEF list
<1>5. \A e : e.kind # "list" /\ ~e.served => (e \in tagCalls' <=> e \in tagCalls)
  BY <1>1, <1>4
<1>6. /\ UniqueIds' /\ (TagsOnce => TagsOnce')
      /\ (AddsRight => AddsRight') /\ (DeletesRight => DeletesRight')
  BY <1>1, <1>5, TagsLeft
<1>7. T!TypeOK'
  <2>1. tagCalls' \subseteq TagCall'
    BY <1>1, <1>2, <1>4
  <2> QED
    BY <1>1, <1>2, <2>1 DEF TagsInv, T!TypeOK, TagCall
<1>8. ASSUME alone
      PROVE  TagsCome'
  <2>0. TagsCome
    BY <1>8 DEF TagsInv
  <2>1. last <=> tagCalls = {c}
    BY <2>0 DEF TagsCome, OneBatch
  <2>2. OneBatch'
    BY <1>1, <1>4, <2>0 DEF TagsCome, OneBatch
  <2>3. \A d \in tagCalls : d.kind # "list"
    BY <1>1, <2>0 DEF TagsCome, ListLast
  <2>4. tagCalls' # {}
    BY <1>1, <2>1
  <2>5. ListLast'
    BY <1>1, <1>4, <2>1, <2>3 DEF ListLast
  <2>6. RowRight'
    BY <2>4 DEF RowRight
  <2>7. EditorRight'
    <3>1. (\A e \in tagCalls' : ~e.sync) => \A e \in tagCalls : ~e.sync
      BY <1>1, <1>4, <2>0, <2>4 DEF TagsCome, OneBatch
    <3> QED
      BY <1>1, <2>0, <3>1 DEF TagsCome, EditorRight
  <2> QED
    BY <1>6, <2>0, <2>2, <2>5, <2>6, <2>7 DEF TagsCome
<1> QED
  BY <1>1, <1>6, <1>7, <1>8 DEF TagsInv

LEMMA AnswerTagListStep ==
    ASSUME TagsInv, NEW c \in tagCalls, T!AnswerList(c)
    PROVE  TagsInv'
<1>1. /\ c.served /\ c.kind = "list" /\ shown' = c.got /\ tagCalls' = tagCalls \ {c}
      /\ tags' = (IF c.sync THEN T!Values(c.got) ELSE tags)
      /\ flips' = (IF c.sync THEN {} ELSE flips)
      /\ UNCHANGED <<stored, saves, ids, wanted, alone>>
  BY DEF T!AnswerList
<1>2. /\ tagCalls \subseteq TagCall /\ TagCall' = TagCall /\ T!Tag' = T!Tag
      /\ tags \subseteq Value /\ flips \subseteq Value
  BY <1>1, TagTypes DEF TagsInv, TagCall, T!Tag
<1>3. c.got \subseteq T!Tag /\ T!Values(c.got) \subseteq Value
  BY <1>1, <1>2 DEF TagCall, T!Values, T!Tag
<1>4. \A e : e.kind # "list" /\ ~e.served => (e \in tagCalls' <=> e \in tagCalls)
  BY <1>1
<1>5. /\ UniqueIds' /\ (TagsOnce => TagsOnce')
      /\ (AddsRight => AddsRight') /\ (DeletesRight => DeletesRight')
  BY <1>1, <1>4, TagsLeft
<1>6. T!TypeOK'
  <2>1. /\ shown' \subseteq T!Tag' /\ tags' \subseteq Value /\ flips' \subseteq Value
        /\ tagCalls' \subseteq TagCall'
    BY <1>1, <1>2, <1>3
  <2> QED
    BY <1>1, <1>2, <2>1 DEF TagsInv, T!TypeOK, TagCall
<1>7. ASSUME alone
      PROVE  TagsCome'
  <2>0. TagsCome
    BY <1>7 DEF TagsInv
  <2>1. tagCalls = {c} /\ tagCalls' = {} /\ c.got = stored
    BY <1>1, <2>0 DEF TagsCome, ListLast
  <2>2. OneBatch' /\ ListLast' /\ RowRight'
    BY <1>1, <2>1 DEF OneBatch, ListLast, RowRight
  <2>3. T!Values(stored) = wanted
    <3>1. \A k \in {"add", "delete"} : Unserved(k) = {}
      BY <1>1, <2>1 DEF Unserved
    <3> QED
      BY <2>0, <3>1 DEF TagsCome, AddsRight, DeletesRight, T!Values
  <2>4. EditorRight'
    BY <1>1, <2>0, <2>1, <2>3 DEF TagsCome, EditorRight
  <2> QED
    BY <1>5, <2>0, <2>2, <2>4 DEF TagsCome
<1> QED
  BY <1>1, <1>5, <1>6, <1>7 DEF TagsInv

LEMMA FailTagStep ==
    ASSUME TagsInv, NEW c \in tagCalls, T!Fail(c)
    PROVE  TagsInv'
<1> DEFINE Freed(d) == IF d.batch = c.batch THEN [d EXCEPT !.batch = 0] ELSE d
           list == T!Refresh(c.batch, FALSE)
<1>1. /\ ~alone' /\ alone' \in BOOLEAN
      /\ tagCalls' \subseteq {Freed(d) : d \in tagCalls \ {c}} \cup {list}
      /\ UNCHANGED <<stored, shown, tags, saves, ids, flips, wanted>>
  BY DEF T!Fail
<1>2. tagCalls \subseteq TagCall /\ TagCall' = TagCall /\ 0 \in 0..saves
  BY <1>1, TagTypes, PartsAssumption DEF TagsInv, TagCall, T!Tag
<1>3. c.batch \in 0..saves'
  BY <1>1, <1>2 DEF TagCall
<1>4. list \in TagCall'
  BY <1>3, RefreshIs
<1>5. \A d \in TagCall : Freed(d) \in TagCall
  BY <1>2 DEF TagCall
<1> HIDE DEF Freed, list
<1>6. tagCalls' \subseteq TagCall'
  BY <1>1, <1>2, <1>4, <1>5
<1> QED
  BY <1>1, <1>2, <1>6 DEF TagsInv, T!TypeOK, T!Tag, TagCall, UniqueIds

LEMMA TagsStep ==
    ASSUME TagsInv, [T!Next]_(T!vars)
    PROVE  TagsInv'
<1>1. CASE UNCHANGED T!vars
  BY <1>1 DEF T!vars, TagsInv, T!TypeOK, T!Tag, UniqueIds, TagsCome, TagsOnce, OneBatch, ListLast,
              RowRight, EditorRight, AddsRight, DeletesRight, Unserved
<1>2. ASSUME NEW c \in tagCalls, T!Serve(c)
      PROVE  TagsInv'
  <2>1. c.kind \in {"add", "delete", "list"}
    BY TagTypes DEF TagsInv, TagCall
  <2> QED
    BY <1>2, <2>1, ServeAddStep, ServeDeleteStep, ServeTagListStep
<1> QED
  BY <1>1, <1>2, SaveTagsStep, EditTagsStep, DeleteTagStep, AnswerTagStep, AnswerTagListStep,
     FailTagStep DEF T!Next
LEMMA TagOperators == /\ \A S : T!SetToSeq(S) = SetToSeq(S)
                      /\ \A S : T!Cardinality(S) = Cardinality(S)
  BY DEF T!SetToSeq, SetToSeq, T!Cardinality, Cardinality, T!IsInjective, IsInjective

LEMMA TagsInit == T!Init => TagsInv
<1> SUFFICES ASSUME T!Init PROVE TagsInv
  OBVIOUS
<1>1. PICK V \in SUBSET Value :
         stored = {[id |-> i, value |-> SetToSeq(V)[i]] : i \in 1..Cardinality(V)}
  BY TagOperators DEF T!Init
<1> DEFINE m == Cardinality(V)
           q == SetToSeq(V)
           tag(i) == [id |-> i, value |-> q[i]]
<1>2. /\ q \in [1..m -> V] /\ m \in Nat
      /\ \A a, b \in 1..m : q[a] = q[b] => a = b
  BY PartsAssumption, FS_Subset, SetToSeqOnce
<1>3. stored = {tag(i) : i \in 1..m}
  BY <1>1
<1>4. \A i \in 1..m : tag(i).id = i /\ tag(i).value = q[i] /\ tag(i).value \in Value
  BY <1>2
<1>5. m = ids
  <2> DEFINE f == [i \in 1..m |-> tag(i)]
  <2>1. f \in Surjection(1..m, stored)
    BY <1>3 DEF Surjection
  <2>2. f \in Injection(1..m, stored)
    BY <1>3, <1>4 DEF Injection, IsInjective
  <2>3. ExistsBijection(1..m, stored)
    BY <2>1, <2>2 DEF ExistsBijection, Bijection
  <2>4. Cardinality(stored) = m
    BY <1>2, <2>3, FS_CountingElements
  <2> QED
    BY <2>4, TagOperators DEF T!Init
<1> HIDE DEF m, q
<1>6. \A t \in stored : \E i \in 1..m : t = tag(i)
  BY <1>3
<1>7. stored \subseteq T!Tag
  BY <1>4, <1>5, <1>6 DEF T!Tag
<1>8. UniqueIds /\ TagsOnce
  BY <1>2, <1>4, <1>6 DEF UniqueIds, TagsOnce
<1>9. /\ shown = stored /\ tags = T!Values(stored) /\ wanted = tags /\ flips = {}
      /\ tagCalls = {} /\ saves = 0 /\ alone = TRUE
  BY DEF T!Init
<1>10. T!Values(stored) \subseteq Value
  BY <1>4, <1>6 DEF T!Values
<1>11. T!TypeOK
  BY <1>2, <1>5, <1>7, <1>9, <1>10, PartsAssumption DEF T!TypeOK
<1>12. TagsCome
  BY <1>8, <1>9 DEF TagsCome, OneBatch, ListLast, RowRight, EditorRight, AddsRight, DeletesRight,
                    Unserved, T!Values
<1> QED
  BY <1>8, <1>11, <1>12 DEF TagsInv

LEMMA TagsImply == TagsInv => T!TagsAsChosen
<1> SUFFICES ASSUME TagsInv, alone, tagCalls = {}
             PROVE  T!Values(stored) = wanted /\ T!Cardinality(stored) = T!Cardinality(wanted)
  BY DEF T!TagsAsChosen
<1>1. T!Values(stored) = wanted
  BY TagsAtRest DEF TagsInv
<1> DEFINE f == [t \in stored |-> t.value]
<1>2. f \in Surjection(stored, wanted)
  BY <1>1 DEF T!Values, Surjection
<1>3. f \in Injection(stored, wanted)
  BY <1>2 DEF Surjection, Injection, IsInjective, TagsInv, TagsCome, TagsOnce
<1> HIDE DEF f
<1>4. IsFiniteSet(wanted)
  BY PartsAssumption, TagTypes, FS_Subset DEF TagsInv
<1>5. Cardinality(stored) = Cardinality(wanted)
  BY <1>2, <1>3, <1>4, FS_Injection
<1> QED
  BY <1>1, <1>5, TagOperators

-----------------------------------------------------------------------------
(* The table of accounts.                                                  *)

UserCall ==
    U!Calls({"list"}, {NoPerson}, {NoPerson}, U!Lists) \cup
    U!Calls({"register", "delete"}, Person, {NoPerson}, {<<>>}) \cup
    U!Calls({"update"}, Person, Person \cup {NoPerson}, {<<>>})

(* The calls of a kind the server has granted.                             *)
GrantedUsers(kind) == {c \in open : c.kind = kind /\ c.served /\ ~c.refused}

LEMMA UserLists ==
    /\ \A f : f \in U!Lists <=> DOMAIN f \subseteq Person /\ f \in [DOMAIN f -> Info]
    /\ <<>> \in U!Lists /\ DOMAIN <<>> = {}
<1>1. \A f : f \in U!Lists <=> DOMAIN f \subseteq Person /\ f \in [DOMAIN f -> Info]
  BY DEF U!Lists
<1>2. DOMAIN <<>> = {} /\ <<>> \in [DOMAIN <<>> -> Info]
  OBVIOUS
<1> QED
  BY <1>1, <1>2

LEMMA UserTypes ==
    U!TypeOK <=> /\ accounts \in U!Lists /\ DOMAIN accounts \subseteq known
                 /\ members \in U!Lists /\ forms \in U!Lists
                 /\ DOMAIN forms = DOMAIN members /\ editedUser \in Person \cup {NoPerson}
                 /\ mine \in Info /\ edited \subseteq Person /\ done \in 0..MaxEdits
                 /\ apart \in BOOLEAN /\ open \subseteq UserCall
  BY DEF U!TypeOK, UserCall

(* A call, what it becomes when it is served or refused, and the list that *)
(* follows it.                                                             *)
UserAnswer(c, refused) == [c EXCEPT !.served = TRUE, !.refused = refused]

LEMMA UserAnswered ==
    ASSUME NEW kinds, NEW whos, NEW from, NEW lists,
           NEW c \in U!Calls(kinds, whos, from, lists), NEW r \in BOOLEAN
    PROVE  /\ UserAnswer(c, r) \in U!Calls(kinds, whos, from, lists)
           /\ UserAnswer(c, r).served /\ UserAnswer(c, r).refused = r
           /\ UserAnswer(c, r).kind = c.kind /\ UserAnswer(c, r).who = c.who
           /\ UserAnswer(c, r).form = c.form /\ UserAnswer(c, r).info = c.info
  BY DEF UserAnswer, U!Calls

LEMMA UserCallIs ==
    ASSUME NEW c \in UserCall
    PROVE  /\ c.kind \in {"list", "register", "update", "delete"} /\ c.n \in 0..done
           /\ c.served \in BOOLEAN /\ c.refused \in BOOLEAN /\ c.info \in Info
           /\ c.kind = "list" => c.got \in U!Lists
           /\ c.kind # "list" => c.who \in Person
           /\ c.form \in Person \cup {NoPerson}
           /\ [c EXCEPT !.served = TRUE] = UserAnswer(c, c.refused)
<1>1. [c EXCEPT !.served = TRUE] = UserAnswer(c, c.refused)
  BY DEF UserCall, U!Calls, UserAnswer
<1> QED
  BY <1>1 DEF UserCall, U!Calls

LEMMA UserAnswerIs ==
    ASSUME NEW c \in UserCall, NEW r \in BOOLEAN
    PROVE  /\ UserAnswer(c, r) \in UserCall
           /\ UserAnswer(c, r).served /\ UserAnswer(c, r).refused = r
           /\ UserAnswer(c, r).kind = c.kind /\ UserAnswer(c, r).who = c.who
           /\ UserAnswer(c, r).form = c.form /\ UserAnswer(c, r).info = c.info
<1> DEFINE A == U!Calls({"list"}, {NoPerson}, {NoPerson}, U!Lists)
           B == U!Calls({"register", "delete"}, Person, {NoPerson}, {<<>>})
           C == U!Calls({"update"}, Person, Person \cup {NoPerson}, {<<>>})
<1>1. UserCall = A \cup B \cup C
  BY DEF UserCall
<1>2. CASE c \in A
  BY <1>1, <1>2, UserAnswered
<1>3. CASE c \in B
  BY <1>1, <1>3, UserAnswered
<1>4. CASE c \in C
  BY <1>1, <1>4, UserAnswered
<1> QED
  BY <1>1, <1>2, <1>3, <1>4

UserList(c) == [c EXCEPT !.served = TRUE, !.got = accounts]

LEMMA ListServed ==
    ASSUME NEW c \in UserCall, c.kind = "list", accounts \in U!Lists
    PROVE  /\ UserList(c) \in UserCall /\ UserList(c).served /\ UserList(c).kind = "list"
           /\ UserList(c).got = accounts /\ UserList(c).refused = c.refused
  BY DEF UserList, UserCall, U!Calls

LEMMA NewUserCalls ==
    ASSUME Info # {}, NEW n \in 0..done'
    PROVE  /\ \A k \in {"register", "delete"}, u \in Person, i \in Info :
                 U!Call(k, u, NoPerson, i, n) \in UserCall'
           /\ \A u \in Person, f \in Person \cup {NoPerson}, i \in Info :
                 U!Call("update", u, f, i, n) \in UserCall'
           /\ U!Call("list", NoPerson, NoPerson, U!NobodyInfo, n) \in UserCall'
           /\ U!NobodyInfo \in Info
<1>1. U!NobodyInfo \in Info
  BY DEF U!NobodyInfo
<1> QED
  BY <1>1, UserLists DEF U!Call, UserCall, U!Calls

LEMMA UserCallFields ==
    \A k, u, f, i, n :
        LET c == U!Call(k, u, f, i, n) IN
        /\ c.kind = k /\ c.who = u /\ c.form = f /\ c.info = i /\ c.n = n
        /\ ~c.served /\ ~c.refused
  BY DEF U!Call

LEMMA UserTypesNext ==
    U!TypeOK' <=> /\ accounts' \in U!Lists /\ DOMAIN accounts' \subseteq known'
                  /\ members' \in U!Lists /\ forms' \in U!Lists
                  /\ DOMAIN forms' = DOMAIN members' /\ editedUser' \in Person \cup {NoPerson}
                  /\ mine' \in Info /\ edited' \subseteq Person /\ done' \in 0..MaxEdits
                  /\ apart' \in BOOLEAN /\ open' \subseteq UserCall'
  BY DEF U!TypeOK, UserCall

(* A change asked for adds its call.                                       *)
LEMMA UserCallsGrow ==
    ASSUME U!TypeOK, done' \in {done, done + 1}
    PROVE  UserCall \subseteq UserCall'
<1>1. 0..done \subseteq 0..done'
  BY PartsAssumption DEF U!TypeOK
<1> QED
  BY <1>1 DEF UserCall, U!Calls

LEMMA StartIs ==
    ASSUME U!TypeOK, NEW c, U!Start(c)
    PROVE  /\ done' = done + 1 /\ done' \in 0..MaxEdits /\ done' \in 0..done'
           /\ open' = open \cup {c} /\ UserCall \subseteq UserCall'
<1>1. /\ done' = done + 1 /\ done' \in 0..MaxEdits /\ done' \in 0..done'
      /\ open' = open \cup {c}
  BY PartsAssumption DEF U!Start, U!TypeOK
<1> QED
  BY <1>1, UserCallsGrow

(* What the server does with a call it grants.                             *)
UserGranted(c) ==
    /\ ~c.served /\ Me \in DOMAIN accounts /\ known' = known \cup DOMAIN accounts'
    /\ UNCHANGED <<members, editedUser, forms, mine, edited, done>>
    /\ \/ /\ c.kind = "list" /\ UNCHANGED <<accounts, apart>>
          /\ open' = (open \ {c}) \cup {UserList(c)}
       \/ /\ c.kind = "register" /\ c.who \notin known
          /\ open' = (open \ {c}) \cup {UserAnswer(c, c.refused)}
          /\ accounts' = [u \in DOMAIN accounts \cup {c.who} |->
                             IF u = c.who THEN c.info ELSE accounts[u]]
          /\ apart' = (apart /\ ~U!Overtaken(c))
       \/ /\ c.kind = "update" /\ c.who \in DOMAIN accounts
          /\ open' = (open \ {c}) \cup {UserAnswer(c, c.refused)}
          /\ accounts' = [accounts EXCEPT ![c.who] = c.info]
          /\ apart' = (apart /\ ~U!Overtaken(c))
       \/ /\ c.kind = "delete" /\ c.who \in DOMAIN accounts
          /\ open' = (open \ {c}) \cup {UserAnswer(c, c.refused)}
          /\ accounts' = [u \in DOMAIN accounts \ {c.who} |-> accounts[u]]
          /\ apart' = (apart /\ ~\E d \in open : d.served /\ d.kind = "list")

LEMMA GrantIs ==
    ASSUME U!TypeOK, NEW c \in open, U!Serve(c)
    PROVE  UserGranted(c)
<1>1. c.kind \in {"list", "register", "update", "delete"}
      /\ [c EXCEPT !.served = TRUE] = UserAnswer(c, c.refused)
  BY UserTypes, UserCallIs
<1> QED
  BY <1>1 DEF U!Serve, U!Answered, U!page, UserList, UserGranted

LEMMA ServeUserTypes ==
    ASSUME U!TypeOK, NEW c \in open, U!Serve(c)
    PROVE  U!TypeOK'
<1>0. /\ accounts \in [DOMAIN accounts -> Info] /\ DOMAIN accounts \subseteq Person
      /\ c \in UserCall /\ open \subseteq UserCall /\ accounts \in U!Lists /\ apart \in BOOLEAN
  BY UserTypes, UserLists
<1>g. UserGranted(c)
  BY GrantIs
<1>1. /\ c.info \in Info /\ (c.kind # "list" => c.who \in Person) /\ c.refused \in BOOLEAN
  BY <1>0, UserCallIs
<1>2. apart' \in BOOLEAN /\ DOMAIN accounts' \subseteq known'
      /\ UNCHANGED <<members, editedUser, forms, mine, edited, done>>
  BY <1>0, <1>g DEF UserGranted
<1>3. open' \subseteq UserCall'
  <2>1. UserCall' = UserCall
    BY <1>2 DEF UserCall, U!Calls
  <2>2. UserAnswer(c, c.refused) \in UserCall
    BY <1>0, <1>1, UserAnswerIs
  <2>3. c.kind = "list" => UserList(c) \in UserCall
    BY <1>0, ListServed
  <2> QED
    BY <1>0, <1>g, <2>1, <2>2, <2>3 DEF UserGranted
<1>4. accounts' \in U!Lists
  <2>1. CASE c.kind = "list"
    BY <1>0, <1>g, <2>1 DEF UserGranted
  <2>2. CASE c.kind = "register"
    <3>1. accounts' = [u \in DOMAIN accounts \cup {c.who} |->
                                          IF u = c.who THEN c.info ELSE accounts[u]]
      BY <1>g, <2>2 DEF UserGranted
    <3> QED
      BY <1>0, <1>1, <2>2, <3>1, UserLists
  <2>3. CASE c.kind = "update"
    <3>1. accounts' = [accounts EXCEPT ![c.who] = c.info]
      BY <1>g, <2>3 DEF UserGranted
    <3> QED
      BY <1>0, <1>1, <2>3, <3>1, UserLists
  <2>4. CASE c.kind = "delete"
    <3>1. accounts' = [u \in DOMAIN accounts \ {c.who} |-> accounts[u]]
      BY <1>g, <2>4 DEF UserGranted
    <3> QED
      BY <1>0, <1>1, <2>4, <3>1, UserLists
  <2> QED
    BY <1>g, <2>1, <2>2, <2>3, <2>4 DEF UserGranted
<1> QED
  BY <1>2, <1>3, <1>4, UserTypes, UserTypesNext

LEMMA AskUserTypes ==
    ASSUME U!TypeOK, U!DeleteUserConfirm
                     \/ (\E u \in Person \ known, i \in Info : U!Register(u, i))
                     \/ (\E u \in DOMAIN members : U!SaveForm(u))
                     \/ (\E i \in Info : U!SaveProfile(i))
    PROVE  U!TypeOK'
<1>0. /\ mine \in Info /\ Me \in Person /\ open \subseteq UserCall
      /\ editedUser \in Person \cup {NoPerson}
      /\ forms \in [DOMAIN members -> Info] /\ DOMAIN members \subseteq Person
  BY PartsAssumption, UserTypes, UserLists
<1>1. \E c \in UserCall' : U!Start(c)
  <2>1. done' \in 0..done'
    BY StartIs DEF U!DeleteUserConfirm, U!Register, U!SaveForm, U!SaveProfile
  <2>2. CASE U!DeleteUserConfirm
    BY <1>0, <2>1, <2>2, NewUserCalls DEF U!DeleteUserConfirm
  <2>3. CASE \E u \in Person \ known, i \in Info : U!Register(u, i)
    BY <1>0, <2>1, <2>3, NewUserCalls DEF U!Register
  <2>4. CASE \E u \in DOMAIN members : U!SaveForm(u)
    BY <1>0, <2>1, <2>4, NewUserCalls DEF U!SaveForm
  <2>5. CASE \E i \in Info : U!SaveProfile(i)
    BY <1>0, <2>1, <2>5, NewUserCalls DEF U!SaveProfile
  <2> QED
    BY <2>2, <2>3, <2>4, <2>5
<1>2. /\ open' \subseteq UserCall' /\ done' \in 0..MaxEdits
  BY <1>0, <1>1, StartIs
<1>3. /\ UNCHANGED <<accounts, known, members, editedUser, forms, mine, apart>>
      /\ edited' \subseteq edited
  BY DEF U!DeleteUserConfirm, U!Register, U!SaveForm, U!SaveProfile, U!page
<1> QED
  BY <1>2, <1>3, UserTypes, UserTypesNext

(* The list that follows a change.                                         *)
LEMMA ListAfterIs ==
    ASSUME U!TypeOK, done' = done, NEW n \in 0..done'
    PROVE  LET l == [U!GetUsers EXCEPT !.n = n] IN
           l \in UserCall' /\ l.kind = "list" /\ ~l.served /\ ~l.refused
<1>1. done' \in 0..done' /\ Info # {}
  BY PartsAssumption, UserTypes
<1>2. U!GetUsers \in UserCall' /\ U!GetUsers.kind = "list"
      /\ ~U!GetUsers.served /\ ~U!GetUsers.refused
  BY <1>1, NewUserCalls, UserCallFields DEF U!GetUsers
<1> DEFINE g == U!GetUsers
<1> HIDE DEF g
<1>3. ASSUME g \in UserCall', g.kind = "list", ~g.served, ~g.refused
      PROVE  [g EXCEPT !.n = n] \in UserCall' /\ [g EXCEPT !.n = n].kind = "list"
             /\ ~[g EXCEPT !.n = n].served /\ ~[g EXCEPT !.n = n].refused
  BY <1>3 DEF UserCall, U!Calls
<1> QED
  BY <1>2, <1>3 DEF g

LEMMA AnswerUserTypes ==
    ASSUME U!TypeOK, NEW c \in open,
           U!Refuse(c) \/ U!AnswerList(c) \/ U!AnswerUpdate(c) \/ U!AnswerRegister(c)
           \/ U!AnswerDelete(c)
    PROVE  U!TypeOK'
<1>0. /\ mine \in Info /\ open \subseteq UserCall /\ c \in UserCall /\ apart \in BOOLEAN
      /\ forms \in [DOMAIN members -> Info] /\ DOMAIN members \subseteq Person
      /\ members \in [DOMAIN members -> Info] /\ done' = done
      /\ accounts' = accounts /\ known' = known /\ edited \subseteq Person
      /\ members \in U!Lists /\ forms \in U!Lists /\ DOMAIN forms = DOMAIN members
      /\ editedUser \in Person \cup {NoPerson}
  BY UserTypes, UserLists
     DEF U!Refuse, U!AnswerList, U!AnswerUpdate, U!AnswerRegister, U!AnswerDelete
<1>1. /\ c.info \in Info /\ c.n \in 0..done' /\ UserCall' = UserCall
      /\ c.kind = "list" => c.got \in U!Lists
  BY <1>0, UserCallIs DEF UserCall, U!Calls
<1>2. CASE U!Refuse(c)
  <2>1. UserAnswer(c, TRUE) \in UserCall
    BY <1>0, UserAnswerIs
  <2>2. open' = (open \ {c}) \cup {UserAnswer(c, TRUE)}
    BY <1>2 DEF U!Refuse, U!Answered, UserAnswer
  <2> QED
    BY <1>0, <1>1, <1>2, <2>1, <2>2, UserTypes, UserTypesNext DEF U!Refuse, U!page
<1>3. CASE U!AnswerList(c)
  <2>1. /\ c.kind = "list" /\ open' = open \ {c}
        /\ UNCHANGED <<editedUser, mine, apart>>
        /\ IF c.refused THEN UNCHANGED <<members, forms, edited>>
           ELSE /\ members' = c.got
                /\ forms' = [u \in DOMAIN c.got |->
                                IF u \in DOMAIN forms THEN forms[u] ELSE c.got[u]]
                /\ edited' = edited \cap DOMAIN c.got
    BY <1>3 DEF U!AnswerList
  <2>2. c.got \in [DOMAIN c.got -> Info] /\ DOMAIN c.got \subseteq Person
    BY <1>1, <2>1, UserLists
  <2>3. members' \in U!Lists /\ forms' \in U!Lists /\ DOMAIN forms' = DOMAIN members'
        /\ edited' \subseteq Person
    <3>1. CASE c.refused
      BY <1>0, <2>1, <3>1
    <3>2. CASE ~c.refused
      <4>1. forms' = [u \in DOMAIN c.got |->
                                IF u \in DOMAIN forms THEN forms[u] ELSE c.got[u]]
        BY <2>1, <3>2
      <4>2. forms' \in [DOMAIN c.got -> Info] /\ DOMAIN forms' = DOMAIN c.got
        BY <1>0, <2>2, <4>1
      <4>3. forms' \in U!Lists
        BY <2>2, <4>2, UserLists
      <4> QED
        BY <1>0, <1>1, <2>1, <3>2, <4>2, <4>3
    <3> QED
      BY <3>1, <3>2
  <2> QED
    BY <1>0, <1>1, <2>1, <2>3, UserTypes, UserTypesNext
<1>4. CASE U!AnswerUpdate(c)
  <2>1. /\ open' = open \ {c} /\ mine' \in {mine, c.info} /\ forms' = forms
        /\ \/ members' = members
           \/ members' = [v \in DOMAIN members |-> IF v = c.who THEN c.info ELSE members[v]]
        /\ UNCHANGED <<editedUser, edited, apart>>
    BY <1>4 DEF U!AnswerUpdate, U!UpdateUser
  <2>2. members' \in [DOMAIN members -> Info] /\ DOMAIN members' = DOMAIN members
    BY <1>0, <1>1, <2>1
  <2>3. members' \in U!Lists
    BY <1>0, <2>2, UserLists
  <2> QED
    BY <1>0, <1>1, <2>1, <2>2, <2>3, UserTypes, UserTypesNext
<1>5. CASE U!AnswerRegister(c) \/ U!AnswerDelete(c)
  <2>1. [U!GetUsers EXCEPT !.n = c.n] \in UserCall'
    BY <1>0, <1>1, ListAfterIs
  <2> QED
    BY <1>0, <1>1, <1>5, <2>1, UserTypes, UserTypesNext
       DEF U!AnswerRegister, U!AnswerDelete, U!page
<1> QED
  BY <1>2, <1>3, <1>4, <1>5

LEMMA UsersTypeStep ==
    ASSUME U!TypeOK, [U!Next]_(U!vars)
    PROVE  U!TypeOK'
<1>0. /\ DOMAIN members \subseteq Person /\ forms \in [DOMAIN members -> Info]
  BY UserTypes, UserLists
<1>1. CASE UNCHANGED U!vars
  BY <1>1, UserTypes, UserTypesNext DEF U!vars, UserCall, U!Calls
<1>2. CASE U!CloseDelete \/ \E u \in DOMAIN members : U!OpenDelete(u)
  BY <1>0, <1>2, UserTypes, UserTypesNext DEF U!CloseDelete, U!OpenDelete, UserCall, U!Calls
<1>3. ASSUME NEW u \in DOMAIN members, NEW i \in Info, U!Type(u, i)
      PROVE  U!TypeOK'
  <2>1. forms' \in [DOMAIN members -> Info] /\ DOMAIN forms' = DOMAIN members
    BY <1>0, <1>3 DEF U!Type
  <2>2. forms' \in U!Lists
    BY <1>0, <2>1, UserLists
  <2>3. edited' \subseteq Person
    BY <1>0, <1>3, UserTypes DEF U!Type
  <2>4. UserCall' = UserCall
    BY <1>3 DEF U!Type, UserCall, U!Calls
  <2> QED
    BY <1>3, <2>1, <2>2, <2>3, <2>4, UserTypes, UserTypesNext DEF U!Type
<1> QED
  BY <1>1, <1>2, <1>3, ServeUserTypes, AskUserTypes, AnswerUserTypes DEF U!Next

(* The rows both sides have, but the administrator's own, and the edits    *)
(* under way of a form and, once granted, of an account.                   *)
Rows == (DOMAIN accounts \cap DOMAIN members) \ {Me}
SavesOf(form) == {c \in open : c.kind = "update" /\ c.form = form}
EditsOf(u) == {c \in open : c.kind = "update" /\ c.served /\ c.who = u}

(* A call that ends with a new list is under way.                          *)
ListComing ==
    GrantedUsers("register") # {} \/ GrantedUsers("delete") # {} \/ \E c \in open : c.kind = "list"

KnownRows == Me \in known /\ DOMAIN members \subseteq known

(* An administrator who deletes the own account finds out.                 *)
AdminStays ==
    Me \in DOMAIN accounts \/ GrantedUsers("delete") # {}
    \/ \E c \in open : c.kind = "list" /\ ~c.served

RefusedAre == \A c \in open : c.refused => c.served /\ c.kind \in {"delete", "register"}

(* A list that was read is still right, and rows come and go with a list.  *)
ListsAgree == \A c \in open : c.kind = "list" /\ c.served => c.got = accounts
RowsThere == ListComing \/ DOMAIN members = DOMAIN accounts

(* The edits under way are of accounts with a row, one of each form, and   *)
(* the granted ones are what the server has.                               *)
SavesAre ==
    /\ \A c \in open : c.kind = "update" =>
          /\ c.who \in known /\ (c.form = NoPerson => c.who = Me)
          /\ c.form # NoPerson =>
                c.form = c.who /\ (c.who \in DOMAIN accounts => c.who \in DOMAIN members)
    /\ \A c, d \in open : c.kind = "update" /\ d.kind = "update" /\ c.form = d.form => c = d
EditsAgree ==
    \A c \in open : c.kind = "update" /\ c.served /\ c.who \in DOMAIN accounts =>
        c.info = accounts[c.who]

(* A row, the page's own account and a form nobody types in are right or   *)
(* an edit under way makes them so.                                        *)
RowsAgree == \A u \in Rows : members[u] = accounts[u] \/ EditsOf(u) # {}
MineAgrees == Me \in DOMAIN accounts => mine = accounts[Me] \/ EditsOf(Me) # {}
FormsAgree ==
    \A u \in Rows \ edited : /\ \A c \in SavesOf(u) : c.info = forms[u]
                             /\ SavesOf(u) = {} => forms[u] = accounts[u]

UsersAgree ==
    /\ KnownRows /\ AdminStays /\ RefusedAre /\ ListsAgree /\ RowsThere /\ SavesAre
    /\ EditsAgree /\ RowsAgree /\ MineAgrees /\ FormsAgree

UsersInv == U!TypeOK /\ (apart => UsersAgree)

(* What does not touch the edits and the lists under way, and the accounts *)
(* and rows they are about.                                                *)
LEMMA UsersQuiet ==
    ASSUME UsersAgree, RefusedAre', UNCHANGED <<accounts, known, members, forms, mine, edited>>,
           \A e : e.kind \in {"update", "list"} => (e \in open' <=> e \in open),
           GrantedUsers("register")' = GrantedUsers("register"),
           GrantedUsers("delete")' = GrantedUsers("delete")
    PROVE  UsersAgree'
<1>1. ListComing' = ListComing
  BY DEF ListComing
<1>2. \A u : SavesOf(u)' = SavesOf(u) /\ EditsOf(u)' = EditsOf(u)
  BY DEF SavesOf, EditsOf
<1>3. KnownRows' /\ AdminStays' /\ ListsAgree' /\ RowsThere' /\ EditsAgree'
  BY <1>1 DEF UsersAgree, KnownRows, AdminStays, ListsAgree, RowsThere, EditsAgree
<1>4. SavesAre'
  BY DEF UsersAgree, SavesAre
<1>5. RowsAgree' /\ MineAgrees' /\ FormsAgree'
  BY <1>2 DEF UsersAgree, RowsAgree, MineAgrees, FormsAgree, Rows
<1> QED
  BY <1>3, <1>4, <1>5 DEF UsersAgree

LEMMA AskUserStep ==
    ASSUME U!TypeOK, UsersAgree,
           U!DeleteUserConfirm \/ \E u \in Person \ known, i \in Info : U!Register(u, i)
    PROVE  UsersAgree'
<1>1. PICK c : /\ U!Start(c) /\ c.kind \in {"register", "delete"} /\ ~c.served /\ ~c.refused
  BY UserCallFields DEF U!DeleteUserConfirm, U!Register
<1>2. open' = open \cup {c}
  BY <1>1 DEF U!Start
<1>3. RefusedAre' /\ \A k : GrantedUsers(k)' = GrantedUsers(k)
  BY <1>1, <1>2 DEF UsersAgree, RefusedAre, GrantedUsers
<1>4. UNCHANGED <<accounts, known, members, forms, mine, edited>>
  BY DEF U!DeleteUserConfirm, U!Register, U!page
<1> QED
  BY <1>1, <1>2, <1>3, <1>4, UsersQuiet

LEMMA RefuseUserStep ==
    ASSUME UsersInv, NEW c \in open, U!Refuse(c), apart'
    PROVE  UsersAgree'
<1> DEFINE d == UserAnswer(c, TRUE)
<1>1. /\ ~c.served /\ open' = (open \ {c}) \cup {d} /\ apart /\ c.kind \in {"delete", "register"}
      /\ UNCHANGED <<accounts, known, members, forms, mine, edited>>
  BY DEF U!Refuse, U!Answered, U!page, UserAnswer
<1>2. d.served /\ d.refused /\ d.kind = c.kind
  BY UserTypes, UserAnswerIs DEF UsersInv
<1> HIDE DEF d
<1>3. RefusedAre' /\ \A k : GrantedUsers(k)' = GrantedUsers(k)
  BY <1>1, <1>2 DEF UsersInv, UsersAgree, RefusedAre, GrantedUsers
<1> QED
  BY <1>1, <1>2, <1>3, UsersQuiet DEF UsersInv

LEMMA TypeFormStep ==
    ASSUME U!TypeOK, UsersAgree, NEW u \in DOMAIN members, NEW i \in Info, U!Type(u, i)
    PROVE  UsersAgree'
<1>1. /\ forms' = [forms EXCEPT ![u] = i] /\ edited' = edited \cup {u}
      /\ UNCHANGED <<accounts, known, members, mine, open>>
  BY DEF U!Type
<1>2. \A k : GrantedUsers(k)' = GrantedUsers(k)
  BY <1>1 DEF GrantedUsers
<1>3. \A v \in Rows' \ edited' : v \in Rows \ edited /\ forms'[v] = forms[v]
  BY <1>1, UserTypes, UserLists DEF Rows
<1>4. FormsAgree'
  BY <1>1, <1>3 DEF UsersAgree, FormsAgree, SavesOf
<1> QED
  BY <1>1, <1>2, <1>4
     DEF UsersAgree, KnownRows, AdminStays, RefusedAre, ListsAgree, RowsThere, ListComing,
         SavesAre, EditsAgree, RowsAgree, MineAgrees, EditsOf, Rows

(* A save of a form whose button does not wait adds the one edit of it.    *)
LEMMA SaveAdded ==
    ASSUME UsersAgree, NEW c, open' = open \cup {c}, c.kind = "update", ~c.served, ~c.refused,
           ~U!Waits(c.form), c.who \in known, c.form = NoPerson => c.who = Me,
           c.form # NoPerson => c.form = c.who /\ c.who \in DOMAIN members,
           UNCHANGED <<accounts, known, members, forms, mine>>, edited' \subseteq edited,
           \A u \in Rows \ edited' : u = c.form \/ u \notin edited,
           c.form # NoPerson => c.info = forms[c.form], NoPerson \notin Rows
    PROVE  UsersAgree'
<1>1. /\ \A k : GrantedUsers(k)' = GrantedUsers(k) /\ \A u : EditsOf(u)' = EditsOf(u)
      /\ \A e : e.kind = "list" => (e \in open' <=> e \in open)
  BY DEF GrantedUsers, EditsOf
<1>2. ListComing' = ListComing /\ Rows' = Rows
  BY <1>1 DEF ListComing, Rows
<1>3. SavesOf(c.form)' = {c} /\ \A f : f # c.form => SavesOf(f)' = SavesOf(f)
  BY DEF SavesOf, U!Waits
<1>4. KnownRows' /\ AdminStays' /\ ListsAgree' /\ RowsThere' /\ EditsAgree' /\ RefusedAre'
  BY <1>1, <1>2
     DEF UsersAgree, KnownRows, AdminStays, ListsAgree, RowsThere, EditsAgree, RefusedAre
<1>5. SavesAre'
  BY DEF UsersAgree, SavesAre, U!Waits
<1>6. RowsAgree' /\ MineAgrees'
  BY <1>1, <1>2 DEF UsersAgree, RowsAgree, MineAgrees
<1>7. FormsAgree'
  BY <1>2, <1>3 DEF UsersAgree, FormsAgree
<1> QED
  BY <1>4, <1>5, <1>6, <1>7 DEF UsersAgree

LEMMA SaveUserStep ==
    ASSUME U!TypeOK, UsersAgree,
           (\E u \in DOMAIN members : U!SaveForm(u)) \/ (\E i \in Info : U!SaveProfile(i))
    PROVE  UsersAgree'
<1>0. NoPerson \notin Rows /\ NoPerson \notin DOMAIN members
  BY PartsAssumption, UserTypes, UserLists DEF Rows
<1>1. ASSUME NEW u \in DOMAIN members, U!SaveForm(u)
      PROVE  UsersAgree'
  <2> DEFINE c == U!Call("update", u, u, forms[u], done')
  <2>1. /\ c.kind = "update" /\ c.who = u /\ c.form = u /\ c.info = forms[u]
        /\ ~c.served /\ ~c.refused
    BY UserCallFields
  <2>2. /\ open' = open \cup {c} /\ ~U!Waits(u) /\ edited' = edited \ {u}
        /\ UNCHANGED <<accounts, known, members, forms, mine>>
    BY <1>1 DEF U!SaveForm, U!Start
  <2>3. u \in known
    BY DEF UsersAgree, KnownRows
  <2> HIDE DEF c
  <2> QED
    BY <1>0, <2>1, <2>2, <2>3, SaveAdded
<1>2. ASSUME NEW i \in Info, U!SaveProfile(i)
      PROVE  UsersAgree'
  <2> DEFINE c == U!Call("update", Me, NoPerson, i, done')
  <2>1. /\ c.kind = "update" /\ c.who = Me /\ c.form = NoPerson /\ ~c.served /\ ~c.refused
    BY UserCallFields
  <2>2. /\ open' = open \cup {c} /\ ~U!Waits(NoPerson)
        /\ UNCHANGED <<accounts, known, members, forms, mine, edited>>
    BY <1>2 DEF U!SaveProfile, U!Start, U!page
  <2>3. Me \in known
    BY DEF UsersAgree, KnownRows
  <2> HIDE DEF c
  <2> QED
    BY <1>0, <2>1, <2>2, <2>3, SaveAdded
<1> QED
  BY <1>1, <1>2

(* What the server grants.                                                 *)
LEMMA GrantListStep ==
    ASSUME UsersInv, NEW c \in open, UserGranted(c), c.kind = "list", apart'
    PROVE  UsersAgree'
<1> DEFINE d == UserList(c)
<1>1. /\ ~c.served /\ Me \in DOMAIN accounts /\ known' = known \cup DOMAIN accounts
      /\ UNCHANGED <<accounts, apart, members, forms, mine, edited>>
      /\ open' = (open \ {c}) \cup {d}
  BY DEF UserGranted
<1>2. d.served /\ d.kind = "list" /\ d.got = accounts /\ d.refused = c.refused
  BY UserTypes, ListServed DEF UsersInv
<1>3. UsersAgree /\ known' = known
  BY <1>1, UserTypes DEF UsersInv
<1> HIDE DEF d
<1>4. /\ \A k : k # "list" => GrantedUsers(k)' = GrantedUsers(k)
      /\ \A u : EditsOf(u)' = EditsOf(u) /\ SavesOf(u)' = SavesOf(u)
  BY <1>1, <1>2 DEF GrantedUsers, EditsOf, SavesOf
<1>5. ListComing' /\ Rows' = Rows
  BY <1>1, <1>2 DEF ListComing, Rows
<1>6. KnownRows' /\ AdminStays' /\ RefusedAre' /\ ListsAgree' /\ RowsThere'
  BY <1>1, <1>2, <1>3, <1>5
     DEF UsersAgree, KnownRows, AdminStays, RefusedAre, ListsAgree, RowsThere
<1>7. SavesAre' /\ EditsAgree'
  BY <1>1, <1>2, <1>3 DEF UsersAgree, SavesAre, EditsAgree
<1>8. RowsAgree' /\ MineAgrees' /\ FormsAgree'
  BY <1>1, <1>3, <1>4, <1>5 DEF UsersAgree, RowsAgree, MineAgrees, FormsAgree
<1> QED
  BY <1>6, <1>7, <1>8 DEF UsersAgree

LEMMA GrantedChange ==
    ASSUME UsersInv, NEW c \in open, UserGranted(c), c.kind # "list", apart'
    PROVE  /\ UsersAgree /\ ~c.served /\ Me \in DOMAIN accounts
           /\ known' = known \cup DOMAIN accounts'
           /\ UNCHANGED <<members, forms, mine, edited>>
           /\ \A e \in open : ~(e.served /\ e.kind = "list")
           /\ c.kind # "delete" =>
                 \A e \in open : ~(e.served /\ e.kind = "update" /\ e.who = c.who)
           /\ \E d : /\ open' = (open \ {c}) \cup {d} /\ d.served /\ ~d.refused
                    /\ d.kind = c.kind /\ d.who = c.who /\ d.form = c.form /\ d.info = c.info
<1>1. /\ ~c.served /\ Me \in DOMAIN accounts /\ known' = known \cup DOMAIN accounts'
      /\ UNCHANGED <<members, forms, mine, edited>> /\ apart
      /\ open' = (open \ {c}) \cup {UserAnswer(c, c.refused)}
      /\ \A e \in open : ~(e.served /\ e.kind = "list")
      /\ c.kind # "delete" =>
            \A e \in open : ~(e.served /\ e.kind = "update" /\ e.who = c.who)
  BY DEF UserGranted, U!Overtaken
<1>2. UsersAgree /\ ~c.refused /\ c \in UserCall /\ c.refused \in BOOLEAN
  BY <1>1, UserTypes, UserCallIs DEF UsersInv, UsersAgree, RefusedAre
<1> QED
  BY <1>1, <1>2, UserAnswerIs

(* What a change that was granted leaves of the calls.                     *)
LEMMA GrantedCalls ==
    ASSUME NEW c \in open, NEW d, open' = (open \ {c}) \cup {d}, UsersAgree,
           ~c.served, c.kind # "list", d.served, ~d.refused,
           d.kind = c.kind, d.who = c.who, d.form = c.form, d.info = c.info,
           \A e \in open : ~(e.served /\ e.kind = "list")
    PROVE  /\ \A k : GrantedUsers(k) \subseteq GrantedUsers(k)'
           /\ d \in GrantedUsers(c.kind)' /\ \A u : EditsOf(u) \subseteq EditsOf(u)'
           /\ \A f : SavesOf(f) = {} <=> SavesOf(f)' = {}
           /\ \A f : \A e \in SavesOf(f)' : \E g \in SavesOf(f) : e.info = g.info
           /\ (ListComing => ListComing') /\ ListsAgree' /\ RefusedAre'
           /\ \A e : e.kind = "list" => (e \in open' <=> e \in open)
<1>1. /\ \A k : GrantedUsers(k) \subseteq GrantedUsers(k)'
      /\ d \in GrantedUsers(c.kind)' /\ \A u : EditsOf(u) \subseteq EditsOf(u)'
  BY DEF GrantedUsers, EditsOf
<1>2. /\ \A f : SavesOf(f) = {} <=> SavesOf(f)' = {}
      /\ \A f : \A e \in SavesOf(f)' : \E g \in SavesOf(f) : e.info = g.info
  BY DEF SavesOf
<1>3. \A e : e.kind = "list" => (e \in open' <=> e \in open)
  OBVIOUS
<1> QED
  BY <1>1, <1>2, <1>3 DEF ListComing, ListsAgree, UsersAgree, RefusedAre

(* A row keeps its account and its edits under way.                        *)
LEMMA RowsStay ==
    ASSUME RowsAgree, FormsAgree, UNCHANGED <<members, forms, edited>>, NEW u \in Rows,
           accounts'[u] = accounts[u], EditsOf(u) \subseteq EditsOf(u)',
           SavesOf(u) = {} <=> SavesOf(u)' = {},
           \A e \in SavesOf(u)' : \E g \in SavesOf(u) : e.info = g.info
    PROVE  /\ members'[u] = accounts'[u] \/ EditsOf(u)' # {}
           /\ u \notin edited' =>
                 /\ \A e \in SavesOf(u)' : e.info = forms'[u]
                 /\ (SavesOf(u)' = {} => forms'[u] = accounts'[u])
<1>1. members'[u] = accounts'[u] \/ EditsOf(u)' # {}
  BY DEF RowsAgree
<1>2. ASSUME u \notin edited'
      PROVE  /\ \A e \in SavesOf(u)' : e.info = forms'[u]
             /\ SavesOf(u)' = {} => forms'[u] = accounts'[u]
  BY <1>2 DEF FormsAgree
<1> QED
  BY <1>1, <1>2

LEMMA GrantRegisterStep ==
    ASSUME UsersInv, NEW c \in open, UserGranted(c), c.kind = "register", apart'
    PROVE  UsersAgree'
<1>1. /\ UsersAgree /\ ~c.served /\ Me \in DOMAIN accounts
      /\ known' = known \cup DOMAIN accounts' /\ UNCHANGED <<members, forms, mine, edited>>
      /\ \A e \in open : ~(e.served /\ e.kind = "list")
  BY GrantedChange
<1>2. PICK d : /\ open' = (open \ {c}) \cup {d} /\ d.served /\ ~d.refused
               /\ d.kind = c.kind /\ d.who = c.who /\ d.form = c.form /\ d.info = c.info
  BY GrantedChange
<1>3. /\ \A u : EditsOf(u) \subseteq EditsOf(u)' /\ \A f : SavesOf(f) = {} <=> SavesOf(f)' = {}
      /\ \A f : \A e \in SavesOf(f)' : \E g \in SavesOf(f) : e.info = g.info
      /\ GrantedUsers("register")' # {} /\ ListsAgree' /\ RefusedAre'
  BY <1>1, <1>2, GrantedCalls
<1>4. /\ c.who \notin known /\ DOMAIN accounts \subseteq known
      /\ DOMAIN accounts' = DOMAIN accounts \cup {c.who}
      /\ \A u \in DOMAIN accounts : accounts'[u] = accounts[u]
  BY UserTypes DEF UsersInv, UserGranted
<1>5. Rows' = Rows /\ \A u \in Rows : accounts'[u] = accounts[u]
  BY <1>1, <1>4 DEF Rows, UsersAgree, KnownRows
<1>6. KnownRows' /\ AdminStays' /\ RowsThere'
  BY <1>1, <1>3, <1>4 DEF UsersAgree, KnownRows, AdminStays, RowsThere, ListComing
<1>7. SavesAre'
  BY <1>1, <1>2, <1>4 DEF UsersAgree, SavesAre
<1>8. EditsAgree'
  BY <1>1, <1>2, <1>4 DEF UsersAgree, SavesAre, EditsAgree
<1>9. RowsAgree' /\ FormsAgree'
  BY <1>1, <1>3, <1>5, RowsStay DEF UsersAgree, RowsAgree, FormsAgree
<1>10. MineAgrees'
  BY <1>1, <1>3, <1>4 DEF UsersAgree, MineAgrees
<1> QED
  BY <1>3, <1>6, <1>7, <1>8, <1>9, <1>10 DEF UsersAgree

LEMMA GrantUpdateStep ==
    ASSUME UsersInv, NEW c \in open, UserGranted(c), c.kind = "update", apart'
    PROVE  UsersAgree'
<1>1. /\ UsersAgree /\ ~c.served /\ Me \in DOMAIN accounts
      /\ known' = known \cup DOMAIN accounts' /\ UNCHANGED <<members, forms, mine, edited>>
      /\ \A e \in open : ~(e.served /\ e.kind = "list")
      /\ \A e \in open : ~(e.served /\ e.kind = "update" /\ e.who = c.who)
  BY GrantedChange
<1>2. PICK d : /\ open' = (open \ {c}) \cup {d} /\ d.served /\ ~d.refused
               /\ d.kind = c.kind /\ d.who = c.who /\ d.form = c.form /\ d.info = c.info
  BY GrantedChange
<1>3. /\ \A u : EditsOf(u) \subseteq EditsOf(u)' /\ \A f : SavesOf(f) = {} <=> SavesOf(f)' = {}
      /\ \A f : \A e \in SavesOf(f)' : \E g \in SavesOf(f) : e.info = g.info
      /\ \A k : GrantedUsers(k) \subseteq GrantedUsers(k)'
      /\ (ListComing => ListComing') /\ ListsAgree' /\ RefusedAre'
      /\ \A e : e.kind = "list" => (e \in open' <=> e \in open)
  BY <1>1, <1>2, GrantedCalls
<1>4. /\ c.who \in DOMAIN accounts /\ DOMAIN accounts \subseteq known /\ known' = known
      /\ DOMAIN accounts' = DOMAIN accounts /\ accounts'[c.who] = c.info
      /\ \A u \in DOMAIN accounts : u # c.who => accounts'[u] = accounts[u]
  BY UserTypes DEF UsersInv, UserGranted
<1>5. Rows' = Rows /\ \A u \in Rows : u # c.who => accounts'[u] = accounts[u]
  BY <1>1, <1>4 DEF Rows
<1>6. KnownRows' /\ AdminStays' /\ RowsThere'
  BY <1>1, <1>3, <1>4 DEF UsersAgree, KnownRows, AdminStays, RowsThere
<1>7. SavesAre'
  BY <1>1, <1>2, <1>4 DEF UsersAgree, SavesAre
<1>8. EditsAgree'
  BY <1>1, <1>2, <1>4 DEF UsersAgree, EditsAgree
<1>9. d \in EditsOf(c.who)'
  BY <1>2 DEF EditsOf
<1>10. RowsAgree' /\ MineAgrees'
  BY <1>1, <1>3, <1>4, <1>5, <1>9 DEF UsersAgree, RowsAgree, MineAgrees
<1>11. c \in SavesOf(c.form) /\ (c.who # Me => c.form = c.who)
  BY <1>1 DEF SavesOf, UsersAgree, SavesAre
<1>12. FormsAgree'
  <2> SUFFICES ASSUME NEW u \in Rows, u \notin edited
               PROVE  /\ \A e \in SavesOf(u)' : e.info = forms[u]
                      /\ SavesOf(u)' = {} => forms[u] = accounts'[u]
    BY <1>1, <1>5 DEF FormsAgree
  <2>1. CASE u # c.who
    <3>1. accounts'[u] = accounts[u]
      BY <1>5, <2>1
    <3>2. /\ \A g \in SavesOf(u) : g.info = forms[u]
          /\ SavesOf(u) = {} => forms[u] = accounts[u]
      BY <1>1 DEF UsersAgree, FormsAgree
    <3> QED
      BY <1>3, <3>1, <3>2
  <2>2. CASE u = c.who
    <3>1. c \in SavesOf(u)
      BY <1>11, <2>2 DEF Rows
    <3> QED
      BY <1>1, <1>3, <3>1 DEF UsersAgree, FormsAgree
  <2> QED
    BY <2>1, <2>2
<1> QED
  BY <1>3, <1>6, <1>7, <1>8, <1>10, <1>12 DEF UsersAgree

LEMMA GrantDeleteStep ==
    ASSUME UsersInv, NEW c \in open, UserGranted(c), c.kind = "delete", apart'
    PROVE  UsersAgree'
<1>1. /\ UsersAgree /\ ~c.served /\ Me \in DOMAIN accounts
      /\ known' = known \cup DOMAIN accounts' /\ UNCHANGED <<members, forms, mine, edited>>
      /\ \A e \in open : ~(e.served /\ e.kind = "list")
  BY GrantedChange
<1>2. PICK d : /\ open' = (open \ {c}) \cup {d} /\ d.served /\ ~d.refused
               /\ d.kind = c.kind /\ d.who = c.who /\ d.form = c.form /\ d.info = c.info
  BY GrantedChange
<1>3. /\ \A u : EditsOf(u) \subseteq EditsOf(u)' /\ \A f : SavesOf(f) = {} <=> SavesOf(f)' = {}
      /\ \A f : \A e \in SavesOf(f)' : \E g \in SavesOf(f) : e.info = g.info
      /\ GrantedUsers("delete")' # {} /\ ListsAgree' /\ RefusedAre'
  BY <1>1, <1>2, GrantedCalls
<1>4. /\ DOMAIN accounts' = DOMAIN accounts \ {c.who}
      /\ DOMAIN accounts \subseteq known /\ known' = known
      /\ \A u \in DOMAIN accounts' : accounts'[u] = accounts[u]
  BY UserTypes DEF UsersInv, UserGranted
<1>5. Rows' \subseteq Rows /\ \A u \in Rows' : accounts'[u] = accounts[u]
  BY <1>1, <1>4 DEF Rows
<1>6. KnownRows' /\ AdminStays' /\ RowsThere'
  BY <1>1, <1>3, <1>4 DEF UsersAgree, KnownRows, AdminStays, RowsThere, ListComing
<1>7. SavesAre'
  BY <1>1, <1>2, <1>4 DEF UsersAgree, SavesAre
<1>8. EditsAgree'
  BY <1>1, <1>2, <1>4 DEF UsersAgree, EditsAgree
<1>9. RowsAgree' /\ FormsAgree'
  BY <1>1, <1>3, <1>5, RowsStay DEF UsersAgree, RowsAgree, FormsAgree
<1>10. MineAgrees'
  BY <1>1, <1>3, <1>4 DEF UsersAgree, MineAgrees
<1> QED
  BY <1>3, <1>6, <1>7, <1>8, <1>9, <1>10 DEF UsersAgree

(* What the page does with an answer.                                      *)
LEMMA AnswerUserListStep ==
    ASSUME UsersInv, UsersAgree, NEW c \in open, U!AnswerList(c)
    PROVE  UsersAgree'
<1>1. /\ c.kind = "list" /\ c.served /\ ~c.refused /\ c.got = accounts /\ open' = open \ {c}
      /\ UNCHANGED <<accounts, known, mine>>
  BY DEF U!AnswerList, UsersAgree, RefusedAre, ListsAgree
<1>2. /\ members' = accounts /\ DOMAIN accounts \subseteq known
      /\ forms' = [u \in DOMAIN accounts |-> IF u \in DOMAIN forms THEN forms[u] ELSE accounts[u]]
      /\ edited' = edited \cap DOMAIN accounts /\ DOMAIN forms = DOMAIN members
      /\ NoPerson \notin DOMAIN accounts
  BY <1>1, PartsAssumption, UserTypes, UserLists DEF U!AnswerList, UsersInv
<1>3. /\ \A k : k # "list" => GrantedUsers(k)' = GrantedUsers(k)
      /\ \A u : EditsOf(u)' = EditsOf(u) /\ SavesOf(u)' = SavesOf(u)
  BY <1>1 DEF GrantedUsers, EditsOf, SavesOf
<1>4. KnownRows' /\ AdminStays' /\ RefusedAre' /\ ListsAgree' /\ RowsThere'
  BY <1>1, <1>2, <1>3
     DEF UsersAgree, KnownRows, AdminStays, RefusedAre, ListsAgree, RowsThere
<1>5. SavesAre' /\ EditsAgree'
  BY <1>1, <1>2 DEF UsersAgree, SavesAre, EditsAgree
<1>6. RowsAgree' /\ MineAgrees'
  BY <1>1, <1>2, <1>3 DEF UsersAgree, RowsAgree, MineAgrees, Rows
<1>7. FormsAgree'
  <2> SUFFICES ASSUME NEW u \in DOMAIN accounts, u # Me, u \notin edited
               PROVE  /\ \A e \in SavesOf(u) : e.info = forms'[u]
                      /\ SavesOf(u) = {} => forms'[u] = accounts[u]
    BY <1>1, <1>2, <1>3 DEF FormsAgree, Rows
  <2>1. CASE u \in DOMAIN members
    BY <1>2, <2>1 DEF UsersAgree, FormsAgree, Rows
  <2>2. CASE u \notin DOMAIN members
    <3>1. SavesOf(u) = {}
      BY <1>2, <2>2 DEF SavesOf, UsersAgree, SavesAre
    <3> QED
      BY <1>2, <2>2, <3>1
  <2> QED
    BY <2>1, <2>2
<1> QED
  BY <1>4, <1>5, <1>6, <1>7 DEF UsersAgree

LEMMA AnswerUserUpdateStep ==
    ASSUME UsersInv, UsersAgree, NEW c \in open, U!AnswerUpdate(c)
    PROVE  UsersAgree'
<1>1. /\ c.kind = "update" /\ c.served /\ ~c.refused /\ open' = open \ {c}
      /\ mine' = (IF c.who = Me THEN c.info ELSE mine) /\ forms' = forms
      /\ members' = IF c.form = NoPerson THEN members
                    ELSE [v \in DOMAIN members |-> IF v = c.who THEN c.info ELSE members[v]]
      /\ UNCHANGED <<accounts, known, edited>>
  BY DEF U!AnswerUpdate, U!UpdateUser, UsersAgree, RefusedAre
<1>2. /\ c.who \in known /\ (c.form = NoPerson => c.who = Me)
      /\ (c.form # NoPerson => c.form = c.who)
      /\ c.who \in DOMAIN accounts => c.info = accounts[c.who]
      /\ \A e \in open : e.kind = "update" /\ e.form = c.form => e = c
  BY <1>1 DEF UsersAgree, SavesAre, EditsAgree
<1>3. /\ DOMAIN members' = DOMAIN members
      /\ \A u \in DOMAIN members : u # c.who => members'[u] = members[u]
      /\ c.form # NoPerson /\ c.who \in DOMAIN members => members'[c.who] = c.info
  BY <1>1, UserTypes, UserLists DEF UsersInv
<1>4. /\ \A k : k # "update" => GrantedUsers(k)' = GrantedUsers(k)
      /\ \A u : u # c.who => EditsOf(u)' = EditsOf(u)
      /\ \A f : f # c.form => SavesOf(f)' = SavesOf(f)
      /\ SavesOf(c.form) = {c} /\ SavesOf(c.form)' = {}
      /\ \A e : e.kind = "list" => (e \in open' <=> e \in open)
  BY <1>1, <1>2 DEF GrantedUsers, EditsOf, SavesOf
<1>5. ListComing' = ListComing /\ Rows' = Rows
  BY <1>1, <1>3, <1>4 DEF ListComing, Rows
<1>6. KnownRows' /\ AdminStays' /\ RefusedAre' /\ ListsAgree' /\ RowsThere'
  BY <1>1, <1>3, <1>4, <1>5
     DEF UsersAgree, KnownRows, AdminStays, RefusedAre, ListsAgree, RowsThere
<1>7. SavesAre' /\ EditsAgree'
  BY <1>1, <1>3 DEF UsersAgree, SavesAre, EditsAgree
<1>8. RowsAgree'
  <2> SUFFICES ASSUME NEW u \in Rows PROVE members'[u] = accounts[u] \/ EditsOf(u)' # {}
    BY <1>1, <1>5 DEF RowsAgree
  <2>1. CASE u = c.who
    BY <1>2, <1>3, <2>1 DEF Rows
  <2>2. CASE u # c.who
    BY <1>3, <1>4, <2>2 DEF UsersAgree, RowsAgree, Rows
  <2> QED
    BY <2>1, <2>2
<1>9. MineAgrees'
  BY <1>1, <1>2, <1>4 DEF UsersAgree, MineAgrees
<1>10. FormsAgree'
  <2> SUFFICES ASSUME NEW u \in Rows, u \notin edited
               PROVE  /\ \A e \in SavesOf(u)' : e.info = forms[u]
                      /\ SavesOf(u)' = {} => forms[u] = accounts[u]
    BY <1>1, <1>5 DEF FormsAgree
  <2>0. \A e \in SavesOf(u) : e.info = forms[u]
    BY DEF UsersAgree, FormsAgree
  <2>1. CASE u = c.form
    <3>1. c.info = forms[u] /\ c.who = u
      BY <1>2, <1>4, <2>0, <2>1, PartsAssumption, UserTypes, UserLists DEF Rows, UsersInv
    <3> QED
      BY <1>2, <1>4, <2>1, <3>1 DEF Rows
  <2>2. CASE u # c.form
    BY <1>4, <2>2 DEF UsersAgree, FormsAgree
  <2> QED
    BY <2>1, <2>2
<1> QED
  BY <1>6, <1>7, <1>8, <1>9, <1>10 DEF UsersAgree

(* A registration or a deletion that was granted ends with a list.         *)
LEMMA AnswerUserChangeStep ==
    ASSUME UsersInv, UsersAgree, NEW c \in open, U!AnswerRegister(c) \/ U!AnswerDelete(c)
    PROVE  UsersAgree'
<1> DEFINE l == [U!GetUsers EXCEPT !.n = c.n]
<1>1. /\ c.kind \in {"register", "delete"} /\ done' = done
      /\ open' = (open \ {c}) \/ open' = (open \ {c}) \cup {l}
      /\ ~c.refused => open' = (open \ {c}) \cup {l}
      /\ UNCHANGED <<accounts, known, members, forms, mine, edited>>
  BY DEF U!AnswerRegister, U!AnswerDelete, U!page
<1>2. c.n \in 0..done'
  BY <1>1, UserTypes, UserCallIs DEF UsersInv
<1>3. l.kind = "list" /\ ~l.served /\ ~l.refused
  BY <1>1, <1>2, ListAfterIs DEF UsersInv
<1> HIDE DEF l
<1>4. \A u : EditsOf(u)' = EditsOf(u) /\ SavesOf(u)' = SavesOf(u)
  BY <1>1, <1>3 DEF EditsOf, SavesOf
<1>5. KnownRows' /\ RefusedAre' /\ ListsAgree'
  BY <1>1, <1>3 DEF UsersAgree, KnownRows, RefusedAre, ListsAgree
<1>6. AdminStays' /\ RowsThere'
  <2>1. CASE l \in open'
    BY <1>3, <2>1 DEF AdminStays, RowsThere, ListComing
  <2>2. CASE l \notin open'
    <3>1. c.refused /\ open' = open \ {c}
      BY <1>1, <2>2
    <3>2. \A k : GrantedUsers(k)' = GrantedUsers(k)
      BY <3>1 DEF GrantedUsers
    <3>3. \A e : e.kind = "list" => (e \in open' <=> e \in open)
      BY <1>1, <3>1
    <3> QED
      BY <1>1, <3>2, <3>3 DEF UsersAgree, AdminStays, RowsThere, ListComing
  <2> QED
    BY <2>1, <2>2
<1>7. SavesAre' /\ EditsAgree'
  BY <1>1, <1>3 DEF UsersAgree, SavesAre, EditsAgree
<1>8. RowsAgree' /\ MineAgrees' /\ FormsAgree'
  BY <1>1, <1>4 DEF UsersAgree, RowsAgree, MineAgrees, FormsAgree, Rows
<1> QED
  BY <1>5, <1>6, <1>7, <1>8 DEF UsersAgree

LEMMA UsersStep ==
    ASSUME UsersInv, [U!Next]_(U!vars)
    PROVE  UsersInv'
<1>0. U!TypeOK /\ U!TypeOK'
  BY UsersTypeStep DEF UsersInv
<1>1. apart' => apart
  <2>1. ASSUME NEW c \in open, U!Serve(c)
        PROVE  apart' => apart
    BY <1>0, <2>1, GrantIs DEF UserGranted
  <2>2. ASSUME NEW c \in open, U!Refuse(c)
        PROVE  apart' => apart
    BY <2>2 DEF U!Refuse
  <2>3. CASE UNCHANGED apart
    BY <2>3
  <2> QED
    BY <2>1, <2>2, <2>3
       DEF U!Next, U!vars, U!CloseDelete, U!OpenDelete, U!DeleteUserConfirm, U!Register,
           U!SaveForm, U!SaveProfile, U!Type, U!AnswerList, U!AnswerUpdate, U!AnswerRegister,
           U!AnswerDelete
<1>2. ASSUME apart'
      PROVE  UsersAgree'
  <2>0. UsersAgree
    BY <1>1, <1>2 DEF UsersInv
  <2>1. CASE UNCHANGED U!vars \/ U!CloseDelete \/ \E u \in DOMAIN members : U!OpenDelete(u)
    <3>1. UNCHANGED <<accounts, known, members, forms, mine, edited, open>>
      BY <2>1 DEF U!vars, U!CloseDelete, U!OpenDelete
    <3>2. RefusedAre' /\ \A k : GrantedUsers(k)' = GrantedUsers(k)
      BY <2>0, <3>1 DEF UsersAgree, RefusedAre, GrantedUsers
    <3> QED
      BY <2>0, <3>1, <3>2, UsersQuiet
  <2>2. ASSUME NEW c \in open, U!Serve(c)
        PROVE  UsersAgree'
    <3>1. UserGranted(c)
      BY <1>0, <2>2, GrantIs
    <3>2. c.kind \in {"list", "register", "update", "delete"}
      BY <3>1 DEF UserGranted
    <3> QED
      BY <1>2, <3>1, <3>2, GrantListStep, GrantRegisterStep, GrantUpdateStep, GrantDeleteStep
  <2> QED
    BY <1>0, <1>2, <2>0, <2>1, <2>2, AskUserStep, SaveUserStep, TypeFormStep, RefuseUserStep,
       AnswerUserListStep, AnswerUserUpdateStep, AnswerUserChangeStep DEF U!Next
<1> QED
  BY <1>0, <1>2 DEF UsersInv

LEMMA UsersInit == U!Init => UsersInv
<1> SUFFICES ASSUME U!Init PROVE UsersInv
  OBVIOUS
<1> DEFINE c == U!Call("list", NoPerson, NoPerson, U!NobodyInfo, 0)
<1>1. /\ accounts \in U!Lists /\ Me \in DOMAIN accounts /\ known = DOMAIN accounts
      /\ members = <<>> /\ forms = <<>> /\ editedUser = NoPerson /\ mine = accounts[Me]
      /\ edited = {} /\ done = 0 /\ apart = TRUE /\ open = {c}
  BY DEF U!Init
<1>2. mine \in Info
  BY <1>1, UserLists
<1>3. c.kind = "list" /\ ~c.served /\ ~c.refused
  BY UserCallFields
<1>4. c \in UserCall
  <2>1. U!NobodyInfo \in Info /\ 0 \in 0..done
    BY <1>1, <1>2 DEF U!NobodyInfo
  <2> QED
    BY <2>1, UserLists DEF U!Call, UserCall, U!Calls
<1>5. U!TypeOK
  BY <1>1, <1>2, <1>4, UserTypes, UserLists, PartsAssumption
<1> HIDE DEF c
<1>6. Rows = {} /\ DOMAIN members = {}
  BY <1>1, UserLists DEF Rows
<1>7. UsersAgree
  BY <1>1, <1>3, <1>6
     DEF UsersAgree, KnownRows, AdminStays, RefusedAre, ListsAgree, RowsThere, ListComing,
         SavesAre, EditsAgree, RowsAgree, MineAgrees, FormsAgree
<1> QED
  BY <1>5, <1>7 DEF UsersInv

LEMMA UsersImply == UsersInv => U!TableRight
<1> SUFFICES ASSUME UsersInv, apart, open = {}
             PROVE  /\ DOMAIN members = DOMAIN accounts /\ mine = accounts[Me]
                    /\ \A u \in DOMAIN members \ {Me} :
                          members[u] = accounts[u] /\ (u \notin edited => forms[u] = members[u])
  BY DEF U!TableRight
<1>1. /\ \A k : GrantedUsers(k) = {} /\ \A u : EditsOf(u) = {} /\ \A f : SavesOf(f) = {}
  BY DEF GrantedUsers, EditsOf, SavesOf
<1>2. ~ListComing /\ Me \in DOMAIN accounts
  BY <1>1 DEF ListComing, UsersInv, UsersAgree, AdminStays
<1>3. DOMAIN members = DOMAIN accounts /\ mine = accounts[Me]
  BY <1>1, <1>2 DEF UsersInv, UsersAgree, RowsThere, MineAgrees
<1> QED
  BY <1>1, <1>3 DEF UsersInv, UsersAgree, RowsAgree, FormsAgree, Rows

-----------------------------------------------------------------------------
(* All of them.                                                            *)

EditsInv == TagsInv /\ UsersInv /\ MembersInv /\ LinksInv

LEMMA EditsInit == PartsInit => EditsInv
  BY PartsInits, TagsInit, UsersInit, MembersInit, LinksInit DEF EditsInv

LEMMA EditsStep ==
    ASSUME EditsInv, [PartsNext]_partsVars
    PROVE  EditsInv'
<1>1. [T!Next]_(T!vars)
  BY OtherPart DEF otherVars, tagVars, T!vars
<1>2. [U!Next]_(U!vars)
  BY OtherPart DEF otherVars, userVars, U!vars
<1>3. [M!Next]_(M!vars)
  BY OtherPart DEF otherVars, groupVars, memberVars, M!vars
<1>4. [L!Next]_(L!vars)
  BY OtherPart DEF otherVars, groupVars, linkVars, L!vars
<1> QED
  BY <1>1, <1>2, <1>3, <1>4, TagsStep, UsersStep, MembersStep, LinksStep DEF EditsInv

(* At rest, for any values, accounts, colleagues and groups and any bounds *)
(* on what is asked for: if the user waited for the answers and none was   *)
(* an error, an evaluation has the tags its user chose, once, and is in    *)
(* the groups asked for, a group has the members its owners chose, and the *)
(* table of accounts and its forms show what the server has (TagRow.vue,   *)
(* EditEvaluationModal.vue, GroupModal.vue, UserManagement.vue,            *)
(* UserModal.vue).                                                         *)
THEOREM EditsReachServer == PartsSpec => []EditsArrive
<1>1. EditsInv /\ [PartsNext]_partsVars => EditsInv'
  BY EditsStep
<1>2. EditsInv => EditsArrive
  BY TagsImply, UsersImply, MembersImply, LinksImply DEF EditsInv, EditsArrive
<1> QED
  BY EditsInit, <1>1, <1>2, PTL DEF PartsSpec

LEMMA SplunkTypes ==
    ASSUME P!TypeOK, [P!Next]_(P!vars)
    PROVE  P!TypeOK'
<1>1. /\ step \in {1, 2} /\ splunkState \in P!Known /\ checking \in P!Known
      /\ items \in P!Known /\ errorCount \in -1..3 /\ logins \in 0..MaxLogins
      /\ searches \subseteq [of : Endpoint, at : {"create", "job", "results"}]
      /\ alreadySearching \in BOOLEAN /\ due \in BOOLEAN
  BY DEF P!TypeOK
<1>2. P!HandleError => step' \in {1, 2} /\ errorCount' \in -1..3
  BY <1>1 DEF P!HandleError
<1>3. CASE \E e \in Endpoint : P!TryLogin(e)
  BY <1>1, <1>3, PartsAssumption DEF P!TryLogin, P!poller, P!TypeOK, P!Known
<1>4. CASE P!CheckAnswered
  <2>1. step' \in {1, 2} /\ errorCount' \in -1..3 /\ splunkState' \in P!Known
    BY <1>1, <1>2, <1>4 DEF P!CheckAnswered
  <2> QED
    BY <1>1, <1>4, <2>1 DEF P!CheckAnswered, P!poller, P!TypeOK, P!Known
<1>5. CASE P!Poll
  <2>1. P!Search(splunkState, "create") \in [of : Endpoint, at : {"create", "job", "results"}]
    BY <1>1, <1>5 DEF P!Poll, P!Search, P!Known
  <2> QED
    BY <1>1, <1>5, <2>1 DEF P!Poll, P!form, P!TypeOK
<1>6. CASE P!TimePasses
  BY <1>1, <1>6 DEF P!TimePasses, P!form, P!TypeOK
<1>7. ASSUME NEW s \in searches, P!SearchGoesOn(s)
      PROVE  P!TypeOK'
  <2>1. P!Search(s.of, IF s.at = "create" THEN "job" ELSE "results")
           \in [of : Endpoint, at : {"create", "job", "results"}]
    BY <1>1 DEF P!Search
  <2> QED
    BY <1>1, <1>7, <2>1 DEF P!SearchGoesOn, P!form, P!TypeOK
<1>8. ASSUME NEW s \in searches, P!SearchSucceeds(s)
      PROVE  P!TypeOK'
  <2>1. s.of \in Endpoint
    BY <1>1
  <2> QED
    BY <1>1, <1>8, <2>1 DEF P!SearchSucceeds, P!form, P!TypeOK, P!Known
<1>9. ASSUME NEW s \in searches, P!SearchFails(s)
      PROVE  P!TypeOK'
  BY <1>1, <1>2, <1>9 DEF P!SearchFails, P!form, P!TypeOK, P!Known
<1>10. CASE P!Logout \/ P!Overlay
  BY <1>1, <1>10 DEF P!Logout, P!Overlay, P!form, P!poller, P!TypeOK, P!Known
<1>11. CASE UNCHANGED P!vars
  BY <1>1, <1>11 DEF P!vars, P!TypeOK
<1> QED
  BY <1>3, <1>4, <1>5, <1>6, <1>7, <1>8, <1>9, <1>10, <1>11 DEF P!Next, P!SearchMoves

(* Every part keeps its types.                                             *)
THEOREM PartsTyped == PartsSpec => []TypesOK
<1> DEFINE Typed == IInv /\ P!TypeOK /\ BucketInv /\ ExportInv /\ UpdatesInv /\ EditsInv
<1>1. PartsInit => Typed
  <2>1. ASSUME P!Init
        PROVE  P!TypeOK
    <3>1. /\ step = 1 /\ splunkState = NoEndpoint /\ checking = NoEndpoint
          /\ searches = {} /\ alreadySearching = FALSE /\ due = TRUE
          /\ items = NoEndpoint /\ errorCount = 0 /\ logins = 0
      BY <2>1 DEF P!Init
    <3>2. errorCount \in -1..3 /\ logins \in 0..MaxLogins /\ NoEndpoint \in P!Known
      BY <3>1, PartsAssumption DEF P!Known
    <3> QED
      BY <3>1, <3>2 DEF P!TypeOK
  <2> QED
    BY <2>1, PartsInits, SessionInit, BucketInit, ExportInit, UpdatesInit, EditsInit
<1>2. Typed /\ [PartsNext]_partsVars => Typed'
  BY SessionPart, SplunkPart, S3Part, ExportPart, UpdatePart, SessionInductive, SplunkTypes,
     BucketStep, ExportStep, UpdatesStep, EditsStep
<1>3. Typed => TypesOK
  BY DEF TypesOK, IInv, BucketInv, ExportInv, UpdatesInv, EditsInv, TagsInv, UsersInv, MembersInv,
         LinksInv
<1> QED
  BY <1>1, <1>2, <1>3, PTL DEF PartsSpec

=============================================================================
