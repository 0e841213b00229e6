---------------------------- MODULE Evaluations ----------------------------
(***************************************************************************)
(* Evaluations of the heimdall2 backend: EvaluationsController, the tag    *)
(* and the group-link handlers, and the tables they write.                 *)
(*                                                                         *)
(* As in Groups, a request performs one database statement per step.  The  *)
(* groups an evaluation is created in are linked after the response, by    *)
(* statements nobody waits for; a create request here ends with the last   *)
(* of them.  Memberships are those module Groups maintains: here they      *)
(* change at any time.                                                     *)
(***************************************************************************)
EXTENDS Naturals, FiniteSets

CONSTANTS
    User, Admin, Group,
    Evaluation,  \* ids the Evaluations table may hand out, used once
    Tag,         \* ids the EvaluationTags table may hand out, used once
    Req,         \* slots for requests that are in flight at the same time
    None,
    Ops          \* the operations requests ask for in this instance

Row == [owner : User \cup {None}, public : BOOLEAN]

ASSUME ConstantsAssumption ==
    /\ Admin \subseteq User
    /\ None \notin User \cup Group \cup Evaluation \cup Tag
    /\ None \notin Row
    /\ {"unborn", "stray", "gone"} \cap Evaluation = {}

VARIABLES
    users,   \* the accounts that exist
    groups,  \* the groups that exist
    role,    \* role[g][u]: "none", "member" or "owner"
    born,    \* the evaluation ids handed out so far
    eval,    \* the rows of Evaluations, None where there is none
    tag,     \* the evaluation of each tag, "stray" where it is NULL,
             \* "unborn" and "gone" where there is no such row
    link,    \* link[g][e]: GroupEvaluations rows linking g and e
    req      \* what each request in flight holds

world == <<users, groups, role>>

vars == <<users, groups, role, born, eval, tag, link, req>>

-----------------------------------------------------------------------------

NoLinks == [g \in Group |-> "no"]

(* add says of each group how far $add has come: "no" where there is       *)
(* nothing (more) to do.  public is what the body asks for, was the value  *)
(* of the loaded row, tags its loaded tags.                                *)
New(pc, op, u, G, e, t, p) ==
    [pc |-> pc, op |-> op, actor |-> u, asked |-> G, ev |-> e, tag |-> t,
     public |-> p, was |-> FALSE, tags |-> {}, add |-> NoLinks]

Idle == New("idle", "none", None, {}, None, None, FALSE)

At(r, pc) == req[r].pc = pc

Done(r) == req' = [req EXCEPT ![r] = Idle]

Goto(r, pc) == req' = [req EXCEPT ![r].pc = pc]

Live(e) == e \in Evaluation /\ eval[e] # None

TagsOf(e) == {t \in Tag : tag[t] = e}

Linked(g, e) == link[g][e] > 0

BelongsTo(u, g) == role[g][u] # "none"

(* Mutant of MayLink: whoever names a group that exists.                   *)
AnyoneLinks(u, g) == g \in groups

MayLink(u, g) == g \in groups /\ (u \in Admin \/ BelongsTo(u, g))

(* Mutant of MayRead: everybody who is signed in.                          *)
AnyoneReads(u, e) == Live(e)

MayRead(u, e) ==
    Live(e) /\ \/ u \in Admin \/ eval[e].public \/ eval[e].owner = u
               \/ \E g \in Group : Linked(g, e) /\ BelongsTo(u, g)

MayManage(u, e) ==
    Live(e) /\ \/ u \in Admin \/ eval[e].owner = u
               \/ \E g \in Group : Linked(g, e) /\ role[g][u] = "owner"

-----------------------------------------------------------------------------

Init ==
    /\ users = User /\ groups = Group
    /\ role = [g \in Group |-> [u \in User |-> "none"]]
    /\ born = {}
    /\ eval = [e \in Evaluation |-> None]
    /\ tag = [t \in Tag |-> "unborn"]
    /\ link = [g \in Group |-> [e \in Evaluation |-> 0]]
    /\ req = [r \in Req |-> Idle]

(* Bounds of the model: requests that insert come while there are ids.     *)
IdsLeft ==
    Cardinality({r \in Req : req[r].pc \in {"group", "insert"} /\ req[r].op = "create"})
        < Cardinality(Evaluation \ born)

TagsLeft ==
    Cardinality({r \in Req : req[r].op \in {"create", "tag"}})
        < Cardinality({t \in Tag : tag[t] = "unborn"})

(* The requests account u may send.  A create request carries one tag.     *)
Asks(u) ==
    {New("group", "create", u, G, None, None, p) :
        G \in {X \in SUBSET Group : IdsLeft /\ TagsLeft}, p \in BOOLEAN}
    \cup {New("check", "update", u, {}, e, None, p) : e \in Evaluation, p \in BOOLEAN}
    \cup {New("check", "remove", u, {}, e, None, FALSE) : e \in Evaluation}
    \cup {New("check", "tag", u, {}, e, None, FALSE) :
             e \in {x \in Evaluation : TagsLeft}}
    \cup {New("check", "untag", u, {}, None, t, FALSE) : t \in Tag}
    \cup {New("group", x[1], u, {x[2]}, x[3], None, FALSE) :
             x \in {"share", "unshare"} \X Group \X Evaluation}

Receive(r) ==
    /\ At(r, "idle")
    /\ \E u \in users : \E q \in Asks(u) :
          q.op \in Ops /\ req' = [req EXCEPT ![r] = q]
    /\ UNCHANGED <<world, born, eval, tag, link>>

(* The groups a request names, and the AddEvaluation or RemoveEvaluation   *)
(* ability: create drops the groups it may not use, the others refuse.     *)
LoadGroups(r) ==
    /\ At(r, "group")
    /\ LET q == req[r]
           G == {g \in q.asked : MayLink(q.actor, g)} IN
          IF q.op = "create"
          THEN req' = [req EXCEPT ![r].pc = "insert",
                 ![r].add = [g \in Group |-> IF g \in G THEN "select" ELSE "no"]]
          ELSE IF G = {} THEN Done(r) ELSE Goto(r, "check")
    /\ UNCHANGED <<world, born, eval, tag, link>>

(* create: the evaluation, refused by the foreign key on userId where the  *)
(* uploader is gone ...                                                    *)
InsertEvaluation(r) ==
    /\ At(r, "insert")
    /\ LET q == req[r] IN
          IF q.actor \in users
          THEN \E e \in Evaluation :
                  /\ e \notin born /\ born' = born \cup {e}
                  /\ eval' = [eval EXCEPT ![e] = [owner |-> q.actor, public |-> q.public]]
                  /\ req' = [req EXCEPT ![r].pc = "tags", ![r].ev = e]
          ELSE Done(r) /\ UNCHANGED <<born, eval>>
    /\ UNCHANGED <<world, tag, link>>

(* The request goes on with the groups that are left to link, if any.      *)
Linking(r, add) ==
    IF add = NoLinks THEN Done(r)
    ELSE req' = [req EXCEPT ![r].pc = "link", ![r].add = add]

(* ... and then its tag; the same INSERT serves the tag handler.  Where    *)
(* the evaluation is gone by now it fails, and create links no group.      *)
InsertTag(r) ==
    /\ At(r, "tags")
    /\ IF Live(req[r].ev)
       THEN /\ \E t \in Tag : tag[t] = "unborn" /\ tag' = [tag EXCEPT ![t] = req[r].ev]
            /\ Linking(r, req[r].add)
       ELSE Done(r) /\ UNCHANGED tag
    /\ UNCHANGED <<world, born, eval, link>>

(* The evaluation, with its groups and their members, and the ability      *)
(* check on it.  A tag brings its evaluation along; only an administrator  *)
(* has abilities over the evaluation a stray tag does not have.            *)
Allowed(q) ==
    CASE q.op \in {"update", "remove", "tag"} -> MayManage(q.actor, q.ev)
      [] q.op = "untag" -> \/ tag[q.tag] = "stray" /\ q.actor \in Admin
                           \/ MayManage(q.actor, tag[q.tag])
      [] q.op = "share"   -> MayRead(q.actor, q.ev)
      [] q.op = "unshare" -> Live(q.ev)

LoadEvaluation(r) ==
    /\ At(r, "check")
    /\ LET q == req[r] IN
          IF ~Allowed(q) THEN Done(r)
          ELSE CASE q.op \in {"update", "remove", "untag"} -> Goto(r, "reload")
                 [] q.op = "tag"     -> Goto(r, "tags")
                 [] q.op = "unshare" -> Goto(r, "write")
                 [] q.op = "share"   ->
                      Linking(r, [g \in Group |-> IF g \in q.asked THEN "select" ELSE "no"])
    /\ UNCHANGED <<world, born, eval, tag, link>>

(* The services look the row up again, without another ability check.      *)
Reload(r) ==
    /\ At(r, "reload")
    /\ LET q == req[r] IN
          IF q.op = "untag"
          THEN IF tag[q.tag] \in {"unborn", "gone"} THEN Done(r) ELSE Goto(r, "write")
          ELSE IF ~Live(q.ev) THEN Done(r)
          ELSE req' = [req EXCEPT ![r].pc = "write", ![r].was = eval[q.ev].public,
                                  ![r].tags = TagsOf(q.ev)]
    /\ UNCHANGED <<world, born, eval, tag, link>>

(* An UPDATE of public where the body differs from the row as it was.      *)
SaveEvaluation(r) ==
    /\ At(r, "write") /\ req[r].op = "update"
    /\ LET q == req[r] IN
          eval' = IF Live(q.ev) /\ q.public # q.was
                  THEN [eval EXCEPT ![q.ev].public = q.public]
                  ELSE eval
    /\ Done(r)
    /\ UNCHANGED <<world, born, tag, link>>

Unlinked(e) == [g \in Group |-> [link[g] EXCEPT ![e] = 0]]

(* Mutant of RemoveEvaluation: only the evaluation itself is destroyed.    *)
RemoveOnlyEvaluation(r) ==
    /\ At(r, "write") /\ req[r].op = "remove"
    /\ LET q == req[r] IN
          /\ eval' = [eval EXCEPT ![q.ev] = None]
          /\ tag' = [t \in Tag |-> IF tag[t] = q.ev THEN "stray" ELSE tag[t]]
          /\ link' = Unlinked(q.ev)
    /\ Done(r)
    /\ UNCHANGED <<world, born>>

(* The transaction: the tags that were loaded, then the evaluation.  The   *)
(* foreign keys clear evaluationId in what still refers to it.             *)
RemoveEvaluation(r) ==
    /\ At(r, "write") /\ req[r].op = "remove"
    /\ LET q == req[r] IN
          /\ eval' = [eval EXCEPT ![q.ev] = None]
          /\ tag' = [t \in Tag |-> CASE t \in q.tags     -> "gone"
                                     [] t \in TagsOf(q.ev) \ q.tags -> "stray"
                                     [] OTHER            -> tag[t]]
          /\ link' = Unlinked(q.ev)
    /\ Done(r)
    /\ UNCHANGED <<world, born>>

DestroyTag(r) ==
    /\ At(r, "write") /\ req[r].op = "untag"
    /\ tag' = [tag EXCEPT ![req[r].tag] = "gone"]
    /\ Done(r)
    /\ UNCHANGED <<world, born, eval, link>>

(* Mutant of DeleteLinks: one row of the pair at a time.                   *)
DeleteOneLink(r) ==
    /\ At(r, "write") /\ req[r].op = "unshare"
    /\ LET q == req[r] IN
          link' = [g \in Group |-> IF g \in q.asked THEN [link[g] EXCEPT ![q.ev] = @ - 1]
                                   ELSE link[g]]
    /\ Done(r)
    /\ UNCHANGED <<world, born, eval, tag>>

(* $remove: a DELETE of every row of the pair.                             *)
DeleteLinks(r) ==
    /\ At(r, "write") /\ req[r].op = "unshare"
    /\ LET q == req[r] IN
          link' = [g \in Group |-> IF g \in q.asked THEN [link[g] EXCEPT ![q.ev] = 0]
                                   ELSE link[g]]
    /\ Done(r)
    /\ UNCHANGED <<world, born, eval, tag>>

(* $add, for one of the groups: a SELECT of the pair's rows ...            *)
SelectLink(r, g) ==
    /\ At(r, "link") /\ req[r].add[g] = "select"
    /\ Linking(r, [req[r].add EXCEPT
                     ![g] = IF Linked(g, req[r].ev) THEN "no" ELSE "insert"])
    /\ UNCHANGED <<world, born, eval, tag, link>>

(* Mutant of Linkable: no foreign key on groupId.                          *)
LinkableAnywhere(g, e) == Live(e)

Linkable(g, e) == g \in groups /\ Live(e)

(* Mutant of InsertLink: the groups after the first are forgotten.         *)
InsertOneLink(r, g) ==
    /\ At(r, "link") /\ req[r].add[g] = "insert"
    /\ link' = IF Linkable(g, req[r].ev) THEN [link EXCEPT ![g][req[r].ev] = @ + 1]
               ELSE link
    /\ Done(r)
    /\ UNCHANGED <<world, born, eval, tag>>

(* ... and an INSERT where there were none.                                *)
InsertLink(r, g) ==
    /\ At(r, "link") /\ req[r].add[g] = "insert"
    /\ link' = IF Linkable(g, req[r].ev) THEN [link EXCEPT ![g][req[r].ev] = @ + 1]
               ELSE link
    /\ Linking(r, [req[r].add EXCEPT ![g] = "no"])
    /\ UNCHANGED <<world, born, eval, tag>>

-----------------------------------------------------------------------------

(* Memberships change, groups and accounts are deleted: modules Groups and *)
(* Accounts.  The foreign keys clear the columns that refer to them.  What *)
(* role an administrator has in a group decides nothing here.              *)
ChangeRole ==
    /\ \E g \in groups, u \in users \ Admin, x \in {"none", "member", "owner"} :
          role' = [role EXCEPT ![g][u] = x]
    /\ UNCHANGED <<users, groups, born, eval, tag, link, req>>

DestroyGroup ==
    /\ \E g \in groups :
          /\ groups' = groups \ {g}
          /\ role' = [role EXCEPT ![g] = [u \in User |-> "none"]]
          /\ link' = [link EXCEPT ![g] = [e \in Evaluation |-> 0]]
    /\ UNCHANGED <<users, born, eval, tag, req>>

DeleteUser ==
    /\ \E u \in users :
          /\ users' = users \ {u}
          /\ role' = [g \in Group |-> [role[g] EXCEPT ![u] = "none"]]
          /\ eval' = [e \in Evaluation |->
                        IF Live(e) /\ eval[e].owner = u
                        THEN [eval[e] EXCEPT !.owner = None] ELSE eval[e]]
    /\ UNCHANGED <<groups, born, tag, link, req>>

(* The server process dies: requests in flight stop, what they have        *)
(* written stays.                                                          *)
Crash ==
    /\ \E r \in Req : ~At(r, "idle")
    /\ "crash" \in Ops
    /\ req' = [r \in Req |-> Idle]
    /\ UNCHANGED <<world, born, eval, tag, link>>

Proceed(r) ==
    \/ LoadGroups(r)     \/ InsertEvaluation(r) \/ InsertTag(r)
    \/ LoadEvaluation(r) \/ Reload(r)           \/ SaveEvaluation(r)
    \/ RemoveEvaluation(r) \/ DestroyTag(r)     \/ DeleteLinks(r)
    \/ \E g \in Group : SelectLink(r, g) \/ InsertLink(r, g)

Next ==
    \/ \E r \in Req : Receive(r) \/ Proceed(r)
    \/ ChangeRole \/ DestroyGroup \/ DeleteUser \/ Crash

(* A statement sent to the database is answered, in each of the chains of  *)
(* callbacks a request runs.                                               *)
Fairness ==
    \A r \in Req :
        /\ WF_vars(Proceed(r))
        /\ \A g \in Group : WF_vars(SelectLink(r, g) \/ InsertLink(r, g))

Spec == Init /\ [][Next]_vars

FairSpec == Spec /\ Fairness

-----------------------------------------------------------------------------

Request ==
    [pc     : {"idle", "group", "check", "reload", "insert", "tags", "write", "link"},
     op     : {"none", "create", "update", "remove", "tag", "untag", "share", "unshare"},
     actor  : User \cup {None},
     asked  : SUBSET Group,
     ev     : Evaluation \cup {None},
     tag    : Tag \cup {None},
     public : BOOLEAN,
     was    : BOOLEAN,
     tags   : SUBSET Tag,
     add    : [Group -> {"no", "select", "insert"}]]

(* Every variable holds a value of its type.                               *)
TypeOK ==
    /\ users \subseteq User /\ groups \subseteq Group
    /\ role \in [Group -> [User -> {"none", "member", "owner"}]]
    /\ born \subseteq Evaluation
    /\ eval \in [Evaluation -> Row \cup {None}]
    /\ \A e \in Evaluation : Live(e) => e \in born
    /\ tag \in [Tag -> Evaluation \cup {"unborn", "stray", "gone"}]
    /\ link \in [Group -> [Evaluation -> Nat]]
    /\ req \in [Req -> Request]

(* However late a link or a tag is written, it refers to an evaluation and *)
(* to a group that exist.                                                  *)
NothingDangles ==
    /\ \A g \in Group, e \in Evaluation : Linked(g, e) => g \in groups /\ Live(e)
    /\ \A t \in Tag : tag[t] \in Evaluation => Live(tag[t])

Stray == {t \in Tag : tag[t] = "stray"}

(* evaluations.service.spec.ts:275: 'should remove an evaluation and its   *)
(* evaluation tags given an id', for any interleaving of requests.         *)
RemovalTakesTags ==
    [][\A r \in Req : RemoveEvaluation(r) => Stray' \subseteq Stray]_vars

(* A private evaluation whose uploader is gone, in no group, with no       *)
(* request under way that was let through to it (taking it out of a group  *)
(* takes no ability over it).                                              *)
Abandoned(e) ==
    /\ Live(e) /\ eval[e].owner = None /\ ~eval[e].public
    /\ \A g \in Group : ~Linked(g, e)
    /\ \A r \in Req : /\ req[r].ev = e /\ req[r].op # "unshare"
                      /\ req[r].pc \in {"reload", "tags", "write", "link"}
                      => req[r].actor \in Admin

(* What an account leaves behind falls to the administrators: nobody else  *)
(* can publish, share or remove it, also where a membership changes or a   *)
(* request was on its way when the account was deleted.                    *)
AbandonedNeedsAdmin ==
    [][\A e \in Evaluation :
          Abandoned(e) =>
             \/ Abandoned(e)'
             \/ \E r \in Req : /\ req[r].ev = e /\ req[r].actor \in Admin
                               /\ req[r].pc \in {"write", "link"}
                               /\ req'[r] # req[r]]_vars

(* The links nobody waits for arrive: a group that create or share let     *)
(* through gets the evaluation, unless one of the two is deleted first.    *)
LinksArrive ==
    \A r \in Req, g \in Group, e \in Evaluation :
        (At(r, "link") /\ req[r].ev = e /\ req[r].add[g] # "no")
            ~> (Linked(g, e) \/ g \notin groups \/ ~Live(e))

-----------------------------------------------------------------------------

Shared == {x \in Group \X Evaluation : Linked(x[1], x[2])}

(* What request q has been let through to, by the checks behind it.        *)
Entered(q) ==
    IF q.pc \in {"insert", "tags", "link"} THEN {g \in Group : q.add[g] # "no"}
    ELSE IF q.op \in {"share", "unshare"} /\ q.pc \in {"check", "write"} THEN q.asked
    ELSE {}

Managed(q) ==
    IF \/ q.op \in {"update", "remove"} /\ q.pc \in {"reload", "write"}
       \/ q.op \in {"create", "tag"} /\ q.pc \in {"tags", "link"}
    THEN {q.ev} ELSE {}

Untaggable(q) ==
    CASE q.op = "untag" /\ q.pc \in {"reload", "write"} -> {q.tag}
      [] q.op = "remove" /\ q.pc = "write" -> q.tags
      [] OTHER -> {}

PermitOf(q) ==
    [actor |-> q.actor, enter |-> Entered(q), manage |-> Managed(q),
     read |-> IF q.op = "share" /\ q.pc = "link" THEN {q.ev} ELSE {},
     untag |-> Untaggable(q)]

Permits == [r \in Req |-> PermitOf(req[r])]

Access == INSTANCE EvaluationAccess WITH shared <- Shared, permit <- Permits

(* The handlers implement EvaluationAccess: every write, however late, is  *)
(* of a request that was let through to it by a check of its own, a group  *)
(* it was let into gets one evaluation for that, and a removal takes along *)
(* the tags it was let through to.                                         *)
ImplementsAccess == Access!ASpec

=============================================================================
