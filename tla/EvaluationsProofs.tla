-------------------------- MODULE EvaluationsProofs --------------------------
(***************************************************************************)
(* Proofs about Evaluations, for every set of accounts, groups, rows and   *)
(* requests.                                                               *)
(***************************************************************************)
EXTENDS Evaluations, TLAPS

(* What a request under way holds: the fields its next statement uses.     *)
WellFormed(q) ==
    q.pc # "idle" =>
       /\ q.actor \in User
       /\ q.op # "none"
       /\ q.pc = "group"  => q.op \in {"create", "share", "unshare"}
       /\ q.pc = "insert" => q.op = "create"
       /\ q.pc = "check"  => q.op # "create"
       /\ q.pc = "reload" => q.op \in {"update", "remove", "untag"}
       /\ q.pc = "tags"   => q.op \in {"create", "tag"}
       /\ q.pc = "link"   => q.op \in {"create", "share"}
       /\ q.op = "tag"    => q.add = NoLinks
       /\ q.op \in {"share", "unshare"} => \A g, h \in q.asked : g = h
       /\ q.op = "untag"  => q.tag \in Tag /\ q.ev = None
       /\ q.op \notin {"create", "untag"} => q.ev \in Evaluation
       /\ q.pc \in {"tags", "link"} => q.ev \in Evaluation

TypeInv == TypeOK /\ \A r \in Req : WellFormed(req[r])

LEMMA IdleIsRequest == Idle \in Request /\ WellFormed(Idle)
  BY DEF Idle, New, Request, WellFormed, NoLinks

LEMMA TypeInit == Init => TypeInv
  BY IdleIsRequest DEF Init, TypeInv, TypeOK, Live

(* A step that replaces the record of one request by a well-formed one.    *)
Moves(r) == \E q \in Request : WellFormed(q) /\ req' = [req EXCEPT ![r] = q]

LEMMA OneRequest ==
    ASSUME TypeInv, NEW r \in Req, Moves(r)
    PROVE  /\ req' \in [Req -> Request]
           /\ \A s \in Req : WellFormed(req'[s])
  BY DEF TypeInv, TypeOK, Moves

LEMMA DoneMoves == ASSUME NEW r \in Req, Done(r) PROVE Moves(r)
  BY IdleIsRequest DEF Done, Moves

(* Linking keeps the rest of the record.                                   *)
LEMMA LinkingMoves ==
    ASSUME TypeInv, NEW r \in Req, NEW add \in [Group -> {"no", "select", "insert"}],
           req[r].pc # "idle", req[r].op \in {"create", "tag", "share"}, req[r].ev \in Evaluation,
           req[r].op = "tag" => add = NoLinks, Linking(r, add)
    PROVE  Moves(r)
<1> DEFINE q == [req[r] EXCEPT !.pc = "link", !.add = add]
<1>1. CASE Done(r)
  BY <1>1, DoneMoves
<1>2. CASE add # NoLinks /\ req' = [req EXCEPT ![r].pc = "link", ![r].add = add]
  <2>1. req' = [req EXCEPT ![r] = q]
    BY <1>2
  <2>2. req[r] \in Request /\ WellFormed(req[r])
    BY DEF TypeInv, TypeOK
  <2>3. q \in Request
    BY <2>2 DEF Request
  <2>4. WellFormed(q)
    BY <1>2, <2>2 DEF Request, WellFormed
  <2> HIDE DEF q
  <2> QED
    BY <2>1, <2>3, <2>4 DEF Moves
<1> QED
  BY <1>1, <1>2 DEF Linking

LEMMA AsksWellFormed ==
    ASSUME NEW u \in User, NEW q \in Asks(u)
    PROVE  /\ q \in Request /\ WellFormed(q)
           /\ q.pc \in {"group", "check"}
<1> DEFINE Good(x) == x \in Request /\ WellFormed(x) /\ x.pc \in {"group", "check"}
<1>1. ASSUME NEW G \in SUBSET Group, NEW p \in BOOLEAN
      PROVE  Good(New("group", "create", u, G, None, None, p))
  BY DEF New, Request, WellFormed, NoLinks
<1>2. ASSUME NEW op \in {"update", "remove", "tag"}, NEW e \in Evaluation, NEW p \in BOOLEAN
      PROVE  Good(New("check", op, u, {}, e, None, p))
  BY DEF New, Request, WellFormed, NoLinks
<1>3. ASSUME NEW t \in Tag
      PROVE  Good(New("check", "untag", u, {}, None, t, FALSE))
  BY DEF New, Request, WellFormed, NoLinks
<1>4. ASSUME NEW x \in {"share", "unshare"} \X Group \X Evaluation
      PROVE  Good(New("group", x[1], u, {x[2]}, x[3], None, FALSE))
  BY DEF New, Request, WellFormed, NoLinks
<1> DEFINE Creates == {New("group", "create", u, G, None, None, p) :
                        G \in {X \in SUBSET Group : IdsLeft /\ TagsLeft}, p \in BOOLEAN}
           Updates == {New("check", "update", u, {}, e, None, p) :
                        e \in Evaluation, p \in BOOLEAN}
           Removes == {New("check", "remove", u, {}, e, None, FALSE) : e \in Evaluation}
           Tags    == {New("check", "tag", u, {}, e, None, FALSE) :
                        e \in {x \in Evaluation : TagsLeft}}
           Untags  == {New("check", "untag", u, {}, None, t, FALSE) : t \in Tag}
           Links   == {New("group", x[1], u, {x[2]}, x[3], None, FALSE) :
                        x \in {"share", "unshare"} \X Group \X Evaluation}
<1> HIDE DEF Good
<1>5. \A x \in Creates : Good(x)
  BY <1>1
<1>6. \A x \in Updates : Good(x)
  BY <1>2
<1>7. \A x \in Removes \cup Tags : Good(x)
  BY <1>2
<1>8. \A x \in Untags : Good(x)
  BY <1>3
<1>9. \A x \in Links : Good(x)
  BY <1>4
<1>10. Asks(u) = Creates \cup Updates \cup Removes \cup Tags \cup Untags \cup Links
  BY DEF Asks
<1> HIDE DEF Creates, Updates, Removes, Tags, Untags, Links
<1>11. Good(q)
  BY <1>5, <1>6, <1>7, <1>8, <1>9, <1>10
<1> QED
  BY <1>11 DEF Good

LEMMA TypeReceive ==
    ASSUME TypeInv, NEW r \in Req, Receive(r) PROVE TypeInv' /\ Moves(r)
<1>1. PICK u \in users : \E q \in Asks(u) : req' = [req EXCEPT ![r] = q]
  BY DEF Receive
<1>2. u \in User
  BY DEF TypeInv, TypeOK
<1>3. Moves(r)
  BY <1>1, <1>2, AsksWellFormed DEF Moves
<1> QED
  BY <1>3, OneRequest DEF Receive, TypeInv, TypeOK, Live, world

LEMMA MovesLoadGroups ==
    ASSUME TypeInv, NEW r \in Req, LoadGroups(r) PROVE Moves(r)
<1>w. WellFormed(req[r]) /\ req[r] \in Request /\ At(r, "group")
  BY DEF TypeInv, TypeOK, LoadGroups
<1> DEFINE G == {g \in req[r].asked : MayLink(req[r].actor, g)}
           add == [g \in Group |-> IF g \in G THEN "select" ELSE "no"]
           q1 == [req[r] EXCEPT !.pc = "insert", !.add = add]
           q2 == [req[r] EXCEPT !.pc = "check"]
<1>1. CASE req[r].op = "create"
  <2>1. req' = [req EXCEPT ![r].pc = "insert", ![r].add = add]
    BY <1>1 DEF LoadGroups
  <2>2. req' = [req EXCEPT ![r] = q1]
    BY <2>1
  <2>3. add \in [Group -> {"no", "select", "insert"}]
    OBVIOUS
  <2> HIDE DEF add
  <2>4. q1 \in Request /\ WellFormed(q1)
    BY <1>w, <1>1, <2>3 DEF Request, WellFormed, At
  <2> HIDE DEF q1
  <2> QED
    BY <2>2, <2>4 DEF Moves
<1>2. CASE req[r].op # "create" /\ Done(r)
  BY <1>2, DoneMoves
<1>3. CASE req[r].op # "create" /\ Goto(r, "check")
  <2>1. req' = [req EXCEPT ![r] = q2]
    BY <1>3 DEF Goto
  <2>2. q2 \in Request /\ WellFormed(q2)
    BY <1>w, <1>3 DEF Request, WellFormed, At
  <2> HIDE DEF q2
  <2> QED
    BY <2>1, <2>2 DEF Moves
<1> QED
  BY <1>1, <1>2, <1>3 DEF LoadGroups

LEMMA MovesLoadEvaluation ==
    ASSUME TypeInv, NEW r \in Req, LoadEvaluation(r) PROVE Moves(r)
<1>w. WellFormed(req[r]) /\ req[r] \in Request /\ At(r, "check")
  BY DEF TypeInv, TypeOK, LoadEvaluation
<1>1. CASE Done(r)
  BY <1>1, DoneMoves
<1>2. ASSUME NEW pc \in {"reload", "tags", "write"}, Goto(r, pc),
             pc = "reload" => req[r].op \in {"update", "remove", "untag"},
             pc = "tags"   => req[r].op = "tag",
             pc = "write"  => req[r].op = "unshare"
      PROVE  Moves(r)
  <2> DEFINE q == [req[r] EXCEPT !.pc = pc]
  <2>1. req' = [req EXCEPT ![r] = q]
    BY <1>2 DEF Goto
  <2>2. q \in Request /\ WellFormed(q)
    BY <1>w, <1>2 DEF Request, WellFormed, At
  <2> HIDE DEF q
  <2> QED
    BY <2>1, <2>2 DEF Moves
<1>3. CASE req[r].op \in {"update", "remove", "untag"}
  BY <1>1, <1>2, <1>3 DEF LoadEvaluation
<1>4. CASE req[r].op = "tag"
  BY <1>1, <1>2, <1>4 DEF LoadEvaluation
<1>5. CASE req[r].op = "unshare"
  BY <1>1, <1>2, <1>5 DEF LoadEvaluation
<1>6. CASE req[r].op = "share"
  <2> DEFINE add == [g \in Group |-> IF g \in req[r].asked THEN "select" ELSE "no"]
  <2>1. Done(r) \/ Linking(r, add)
    BY <1>6 DEF LoadEvaluation
  <2>2. add \in [Group -> {"no", "select", "insert"}]
    OBVIOUS
  <2>3. req[r].pc # "idle" /\ req[r].ev \in Evaluation
    BY <1>w, <1>6 DEF At, WellFormed
  <2> HIDE DEF add
  <2> QED
    BY <1>1, <1>6, <2>1, <2>2, <2>3, LinkingMoves
<1> QED
  BY <1>w, <1>3, <1>4, <1>5, <1>6 DEF WellFormed, At, Request

LEMMA MovesReload ==
    ASSUME TypeInv, NEW r \in Req, Reload(r) PROVE Moves(r)
<1>w. WellFormed(req[r]) /\ req[r] \in Request /\ At(r, "reload")
  BY DEF TypeInv, TypeOK, Reload
<1>1. CASE Done(r)
  BY <1>1, DoneMoves
<1>2. CASE Goto(r, "write")
  <2> DEFINE q == [req[r] EXCEPT !.pc = "write"]
  <2>1. req' = [req EXCEPT ![r] = q]
    BY <1>2 DEF Goto
  <2>2. q \in Request /\ WellFormed(q)
    BY <1>w DEF Request, WellFormed, At
  <2> HIDE DEF q
  <2> QED
    BY <2>1, <2>2 DEF Moves
<1>3. CASE req[r].op # "untag" /\ Live(req[r].ev) /\ ~Done(r)
  <2> DEFINE q == [req[r] EXCEPT !.pc = "write", !.was = eval[req[r].ev].public,
                                 !.tags = TagsOf(req[r].ev)]
  <2>1. req' = [req EXCEPT ![r] = q]
    BY <1>3 DEF Reload
  <2>2. eval[req[r].ev].public \in BOOLEAN /\ TagsOf(req[r].ev) \subseteq Tag
    BY <1>3 DEF TypeInv, TypeOK, Live, Row, TagsOf
  <2>3. q \in Request
    BY <1>w, <2>2 DEF Request
  <2>4. WellFormed(q)
    BY <1>w DEF Request, WellFormed, At
  <2> HIDE DEF q
  <2> QED
    BY <2>1, <2>3, <2>4 DEF Moves
<1> QED
  BY <1>1, <1>2, <1>3 DEF Reload

LEMMA TypeProceed ==
    ASSUME TypeInv, NEW r \in Req, Proceed(r) PROVE TypeInv' /\ Moves(r)
<1>w. WellFormed(req[r]) /\ req[r] \in Request
  BY DEF TypeInv, TypeOK
<1>0. ASSUME Moves(r), UNCHANGED <<world, born, eval, tag, link>> PROVE TypeInv' /\ Moves(r)
  BY <1>0, OneRequest DEF TypeInv, TypeOK, world, Live
<1>1. CASE LoadGroups(r) \/ LoadEvaluation(r) \/ Reload(r)
  BY <1>0, <1>1, MovesLoadGroups, MovesLoadEvaluation, MovesReload
     DEF LoadGroups, LoadEvaluation, Reload
<1>2. CASE InsertEvaluation(r)
  <2>1. CASE req[r].actor \in users
    <3>1. PICK e \in Evaluation :
             /\ e \notin born /\ born' = born \cup {e}
             /\ eval' = [eval EXCEPT ![e] = [owner |-> req[r].actor, public |-> req[r].public]]
             /\ req' = [req EXCEPT ![r].pc = "tags", ![r].ev = e]
      BY <1>2, <2>1 DEF InsertEvaluation
    <3> DEFINE q == [req[r] EXCEPT !.pc = "tags", !.ev = e]
               row == [owner |-> req[r].actor, public |-> req[r].public]
    <3>2. req' = [req EXCEPT ![r] = q]
      BY <3>1
    <3>3. q \in Request /\ WellFormed(q) /\ row \in Row
      BY <1>w, <1>2 DEF Request, WellFormed, At, InsertEvaluation, Row
    <3>4. eval' \in [Evaluation -> Row \cup {None}]
      BY <3>1, <3>3 DEF TypeInv, TypeOK
    <3>5. \A x \in Evaluation : Live(x)' => x \in born'
      BY <3>1 DEF TypeInv, TypeOK, Live
    <3> HIDE DEF q
    <3>6. Moves(r)
      BY <3>2, <3>3 DEF Moves
    <3> QED
      BY <1>2, <3>1, <3>4, <3>5, <3>6, OneRequest DEF InsertEvaluation, TypeInv, TypeOK, world
  <2>2. CASE req[r].actor \notin users
    BY <1>0, <1>2, <2>2, DoneMoves DEF InsertEvaluation
  <2> QED
    BY <2>1, <2>2
<1>3. CASE InsertTag(r)
  <2>1. CASE Live(req[r].ev)
    <3>1. tag' \in [Tag -> Evaluation \cup {"unborn", "stray", "gone"}]
      BY <1>3, <2>1 DEF InsertTag, TypeInv, TypeOK, Live
    <3>2. Moves(r)
      <4>1. req[r].op \in {"create", "tag"} /\ (req[r].op = "tag" => req[r].add = NoLinks)
        BY <1>w, <1>3 DEF InsertTag, At, WellFormed
      <4> QED
        BY <1>w, <1>3, <2>1, <4>1, LinkingMoves DEF InsertTag, At, Live, Request
    <3> QED
      BY <1>3, <3>1, <3>2, OneRequest DEF InsertTag, TypeInv, TypeOK, world, Live
  <2>2. CASE ~Live(req[r].ev)
    BY <1>0, <1>3, <2>2, DoneMoves DEF InsertTag
  <2> QED
    BY <2>1, <2>2
<1>4. CASE SaveEvaluation(r)
  <2>1. /\ eval' \in [Evaluation -> Row \cup {None}]
        /\ \A x \in Evaluation : Live(x)' => Live(x)
    BY <1>4 DEF SaveEvaluation, TypeInv, TypeOK, Live, Row, Request
  <2> QED
    BY <1>4, <2>1, DoneMoves, OneRequest DEF SaveEvaluation, TypeInv, TypeOK, world
<1>5. CASE RemoveEvaluation(r)
  <2>1. /\ eval' \in [Evaluation -> Row \cup {None}]
        /\ \A x \in Evaluation : Live(x)' => Live(x)
    BY <1>5 DEF RemoveEvaluation, TypeInv, TypeOK, Live
  <2>2. /\ tag' \in [Tag -> Evaluation \cup {"unborn", "stray", "gone"}]
        /\ link' \in [Group -> [Evaluation -> Nat]]
    BY <1>5 DEF RemoveEvaluation, TypeInv, TypeOK, Unlinked
  <2> QED
    BY <1>5, <2>1, <2>2, DoneMoves, OneRequest DEF RemoveEvaluation, TypeInv, TypeOK, world
<1>6. CASE DestroyTag(r)
  BY <1>6, DoneMoves, OneRequest DEF DestroyTag, TypeInv, TypeOK, world, Live
<1>7. CASE DeleteLinks(r)
  <2>1. link' \in [Group -> [Evaluation -> Nat]]
    BY <1>7 DEF DeleteLinks, TypeInv, TypeOK
  <2> QED
    BY <1>7, <2>1, DoneMoves, OneRequest DEF DeleteLinks, TypeInv, TypeOK, world, Live
<1>8. ASSUME NEW g \in Group, SelectLink(r, g) \/ InsertLink(r, g)
      PROVE  TypeInv' /\ Moves(r)
  <2>1. At(r, "link")
    BY <1>8 DEF SelectLink, InsertLink
  <2>2. req[r].ev \in Evaluation /\ req[r].op \in {"create", "share"}
    BY <1>w, <2>1 DEF WellFormed, At
  <2>3. \A x \in {"no", "insert"} :
           [req[r].add EXCEPT ![g] = x] \in [Group -> {"no", "select", "insert"}]
    BY <1>w DEF Request
  <2>4. PICK x \in {"no", "insert"} : Linking(r, [req[r].add EXCEPT ![g] = x])
    BY <1>8 DEF SelectLink, InsertLink
  <2>5. Moves(r)
    BY <2>1, <2>2, <2>3, <2>4, LinkingMoves DEF At
  <2>6. link' \in [Group -> [Evaluation -> Nat]]
    <3>1. link' = link \/ link' = [link EXCEPT ![g][req[r].ev] = @ + 1]
      BY <1>8 DEF SelectLink, InsertLink
    <3>2. link \in [Group -> [Evaluation -> Nat]] /\ link[g][req[r].ev] + 1 \in Nat
      BY <2>2 DEF TypeInv, TypeOK
    <3> QED
      BY <3>1, <3>2, <2>2
  <2> QED
    BY <1>8, <2>5, <2>6, OneRequest DEF SelectLink, InsertLink, TypeInv, TypeOK, world, Live
<1> QED
  BY <1>1, <1>2, <1>3, <1>4, <1>5, <1>6, <1>7, <1>8 DEF Proceed

LEMMA TypeDeleteUser ==
    ASSUME TypeInv, DeleteUser
    PROVE  /\ TypeInv' /\ \A e \in Evaluation : Live(e)' <=> Live(e)
<1>1. PICK u \in users :
         /\ users' = users \ {u}
         /\ role' = [g \in Group |-> [role[g] EXCEPT ![u] = "none"]]
         /\ eval' = [e \in Evaluation |->
                        IF Live(e) /\ eval[e].owner = u
                        THEN [eval[e] EXCEPT !.owner = None] ELSE eval[e]]
  BY DEF DeleteUser
<1>2. ASSUME NEW e \in Evaluation
      PROVE  eval'[e] \in Row \cup {None} /\ (eval'[e] # None <=> eval[e] # None)
  <2>1. CASE Live(e) /\ eval[e].owner = u
    <3>1. eval[e] \in Row
      BY <2>1 DEF Live, TypeInv, TypeOK
    <3>2. [eval[e] EXCEPT !.owner = None] \in Row
      BY <3>1 DEF Row
    <3> QED
      BY <1>1, <2>1, <3>2, ConstantsAssumption DEF Live
  <2>2. CASE ~(Live(e) /\ eval[e].owner = u)
    BY <1>1, <2>2 DEF TypeInv, TypeOK
  <2> QED
    BY <2>1, <2>2
<1>3. eval' \in [Evaluation -> Row \cup {None}]
  BY <1>1, <1>2
<1>4. \A e \in Evaluation : Live(e)' <=> Live(e)
  BY <1>2 DEF Live
<1>5. role' \in [Group -> [User -> {"none", "member", "owner"}]]
  BY <1>1 DEF TypeInv, TypeOK
<1> QED
  BY <1>1, <1>3, <1>4, <1>5 DEF DeleteUser, TypeInv, TypeOK

LEMMA TypeStep ==
    ASSUME TypeInv, [Next]_vars PROVE TypeInv'
<1>1. CASE \E r \in Req : Receive(r) \/ Proceed(r)
  BY <1>1, TypeReceive, TypeProceed
<1>2. CASE ChangeRole
  BY <1>2 DEF ChangeRole, TypeInv, TypeOK, Live
<1>3. CASE DestroyGroup
  BY <1>3 DEF DestroyGroup, TypeInv, TypeOK, Live
<1>4. CASE DeleteUser
  BY <1>4, TypeDeleteUser
<1>5. CASE Crash
  BY <1>5, IdleIsRequest DEF Crash, TypeInv, TypeOK, world, Live
<1>6. CASE UNCHANGED vars
  BY <1>6 DEF TypeInv, TypeOK, vars, world, Live
<1> QED
  BY <1>1, <1>2, <1>3, <1>4, <1>5, <1>6 DEF Next

(* Every variable keeps its type, only rows that were inserted exist, and  *)
(* every request under way holds what its next statement needs.            *)
THEOREM EvaluationsTypeCorrect == Spec => []TypeOK
<1>1. Init => TypeInv
  BY TypeInit
<1>2. TypeInv /\ [Next]_vars => TypeInv'
  BY TypeStep
<1>3. TypeInv => TypeOK
  BY DEF TypeInv
<1> QED
  BY <1>1, <1>2, <1>3, PTL DEF Spec

-----------------------------------------------------------------------------

(* Only RemoveEvaluation takes an evaluation away.                         *)
LEMMA LiveAfter ==
    ASSUME TypeInv, [Next]_vars, NEW e \in Evaluation, Live(e),
           ~\E r \in Req : RemoveEvaluation(r) /\ req[r].ev = e
    PROVE  Live(e)'
<1>e. eval[e] \in Row
  BY DEF TypeInv, TypeOK, Live
<1>1. ASSUME NEW r \in Req, InsertEvaluation(r) PROVE Live(e)'
  <2>1. e \in born
    BY DEF TypeInv, TypeOK
  <2> QED
    BY <1>1, <2>1 DEF InsertEvaluation, Live, TypeInv, TypeOK
<1>2. ASSUME NEW r \in Req, SaveEvaluation(r) PROVE Live(e)'
  BY <1>2, <1>e, ConstantsAssumption DEF SaveEvaluation, Live, TypeInv, TypeOK, Row, Request
<1>3. ASSUME NEW r \in Req, RemoveEvaluation(r) PROVE Live(e)'
  BY <1>3 DEF RemoveEvaluation, Live, TypeInv, TypeOK
<1>4. CASE DeleteUser
  BY <1>4, TypeDeleteUser
<1>5. CASE eval' = eval
  BY <1>5 DEF Live
<1> QED
  BY <1>1, <1>2, <1>3, <1>4, <1>5
     DEF Next, vars, Receive, Proceed, LoadGroups, InsertTag, LoadEvaluation, Reload,
         DestroyTag, DeleteLinks, SelectLink, InsertLink, ChangeRole, DestroyGroup, Crash

(* Only InsertLink links, and only what exists.                            *)
LEMMA LinksAfter ==
    ASSUME TypeInv, [Next]_vars, NEW g \in Group, NEW e \in Evaluation, Linked(g, e)'
    PROVE  \/ Linked(g, e)
           \/ \E r \in Req : /\ InsertLink(r, g) /\ req[r].ev = e
                            /\ Linkable(g, e) /\ UNCHANGED <<groups, eval>>
<1>t. link \in [Group -> [Evaluation -> Nat]]
  BY DEF TypeInv, TypeOK
<1>1. CASE link' = link
  BY <1>1 DEF Linked
<1>2. ASSUME NEW r \in Req, RemoveEvaluation(r) PROVE Linked(g, e)
  <2>1. link'[g] = [link[g] EXCEPT ![req[r].ev] = 0]
    BY <1>2 DEF RemoveEvaluation, Unlinked
  <2> QED
    BY <2>1, <1>t DEF Linked
<1>3. ASSUME NEW r \in Req, DeleteLinks(r) PROVE Linked(g, e)
  <2>1. link'[g] = link[g] \/ link'[g] = [link[g] EXCEPT ![req[r].ev] = 0]
    BY <1>3 DEF DeleteLinks
  <2> QED
    BY <2>1, <1>t DEF Linked
<1>4. CASE DestroyGroup
  <2>1. PICK h \in groups : link' = [link EXCEPT ![h] = [x \in Evaluation |-> 0]]
    BY <1>4 DEF DestroyGroup
  <2>2. link'[g] = link[g] \/ link'[g] = [x \in Evaluation |-> 0]
    BY <2>1, <1>t
  <2> QED
    BY <2>2 DEF Linked
<1>5. ASSUME NEW r \in Req, NEW h \in Group, InsertLink(r, h), link' # link
      PROVE  \/ Linked(g, e)
             \/ /\ InsertLink(r, g) /\ req[r].ev = e
                /\ Linkable(g, e) /\ UNCHANGED <<groups, eval>>
  <2>1. Linkable(h, req[r].ev) /\ link' = [link EXCEPT ![h][req[r].ev] = @ + 1]
    BY <1>5 DEF InsertLink
  <2>2. CASE h = g /\ req[r].ev = e
    BY <1>5, <2>1, <2>2 DEF InsertLink, world
  <2>3. CASE ~(h = g /\ req[r].ev = e)
    <3>1. link'[g][e] = link[g][e]
      BY <2>1, <2>3, <1>t
    <3> QED
      BY <3>1 DEF Linked
  <2> QED
    BY <2>2, <2>3
<1> QED
  BY <1>1, <1>2, <1>3, <1>4, <1>5
     DEF Next, vars, Receive, Proceed, LoadGroups, InsertEvaluation, InsertTag,
         LoadEvaluation, Reload, SaveEvaluation, DestroyTag, SelectLink, ChangeRole,
         DeleteUser, Crash

(* Only InsertTag makes a tag refer to an evaluation, and only to one that *)
(* exists.                                                                 *)
LEMMA TagsAfter ==
    ASSUME TypeInv, [Next]_vars, NEW t \in Tag, tag'[t] \in Evaluation
    PROVE  \/ tag[t] = tag'[t]
           \/ \E r \in Req : InsertTag(r) /\ req[r].ev = tag'[t] /\ Live(tag'[t]) /\ eval' = eval
<1>c. "gone" \notin Evaluation /\ "stray" \notin Evaluation
  BY ConstantsAssumption
<1>t. tag \in [Tag -> Evaluation \cup {"unborn", "stray", "gone"}]
  BY DEF TypeInv, TypeOK
<1>1. CASE tag' = tag
  BY <1>1
<1>2. ASSUME NEW r \in Req, InsertTag(r), tag' # tag, tag'[t] # tag[t]
      PROVE  req[r].ev = tag'[t] /\ Live(tag'[t]) /\ eval' = eval
  BY <1>2, <1>t DEF InsertTag
<1>3. ASSUME NEW r \in Req, RemoveEvaluation(r) PROVE tag[t] = tag'[t]
  BY <1>3, <1>c DEF RemoveEvaluation
<1>4. ASSUME NEW r \in Req, DestroyTag(r) PROVE tag[t] = tag'[t]
  BY <1>4, <1>c, <1>t DEF DestroyTag
<1> QED
  BY <1>1, <1>2, <1>3, <1>4
     DEF Next, vars, Receive, Proceed, LoadGroups, InsertEvaluation,
         LoadEvaluation, Reload, SaveEvaluation, DeleteLinks, SelectLink, InsertLink,
         ChangeRole, DestroyGroup, DeleteUser, Crash

LEMMA NothingDanglesStep ==
    ASSUME TypeInv, NothingDangles, [Next]_vars PROVE NothingDangles'
<1>1. ASSUME NEW g \in Group, NEW e \in Evaluation, Linked(g, e)'
      PROVE  g \in groups' /\ Live(e)'
  <2>1. CASE \E r \in Req : Linkable(g, e) /\ UNCHANGED <<groups, eval>>
    BY <2>1 DEF Linkable, Live
  <2>2. CASE Linked(g, e)
    <3>1. g \in groups /\ Live(e)
      BY <2>2 DEF NothingDangles
    <3>2. ASSUME NEW r \in Req, RemoveEvaluation(r), req[r].ev = e PROVE FALSE
      BY <1>1, <3>2 DEF RemoveEvaluation, Unlinked, Linked, TypeInv, TypeOK
    <3>3. Live(e)'
      BY <3>1, <3>2, LiveAfter
    <3>4. ASSUME g \notin groups' PROVE FALSE
      <4>1. DestroyGroup
        BY <3>1, <3>4
           DEF Next, vars, world, Receive, Proceed, LoadGroups, InsertEvaluation, InsertTag,
               LoadEvaluation, Reload, SaveEvaluation, RemoveEvaluation, DestroyTag,
               DeleteLinks, SelectLink, InsertLink, ChangeRole, DeleteUser, Crash
      <4>2. link'[g] = [x \in Evaluation |-> 0]
        BY <3>1, <3>4, <4>1 DEF DestroyGroup, TypeInv, TypeOK
      <4> QED
        BY <1>1, <4>2 DEF Linked
    <3> QED
      BY <3>3, <3>4
  <2> QED
    BY <1>1, <2>1, <2>2, LinksAfter
<1>2. ASSUME NEW t \in Tag, tag'[t] \in Evaluation
      PROVE  eval'[tag'[t]] # None
  <2>1. CASE Live(tag'[t]) /\ eval' = eval
    BY <2>1 DEF Live
  <2>2. CASE tag[t] = tag'[t]
    <3>1. Live(tag[t])
      BY <1>2, <2>2 DEF NothingDangles
    <3>2. ASSUME NEW r \in Req, RemoveEvaluation(r), req[r].ev = tag[t] PROVE FALSE
      <4>1. tag'[t] \in {"gone", "stray"}
        BY <3>2 DEF RemoveEvaluation, TagsOf
      <4> QED
        BY <1>2, <4>1, ConstantsAssumption
    <3>3. Live(tag[t])'
      BY <1>2, <2>2, <3>1, <3>2, LiveAfter
    <3> QED
      BY <2>2, <3>3 DEF Live
  <2> QED
    BY <1>2, <2>1, <2>2, TagsAfter
<1> QED
  BY <1>1, <1>2 DEF NothingDangles, Live

(* However late they are written, no link and no tag refers to what is     *)
(* gone.                                                                   *)
THEOREM NoEvaluationDangles == Spec => []NothingDangles
<1>1. Init => TypeInv /\ NothingDangles
  BY TypeInit, ConstantsAssumption DEF Init, NothingDangles, Linked
<1>2. TypeInv /\ NothingDangles /\ [Next]_vars => TypeInv' /\ NothingDangles'
  BY TypeStep, NothingDanglesStep
<1> QED
  BY <1>1, <1>2, PTL DEF Spec

-----------------------------------------------------------------------------

(* What a request that is past its checks may hold for evaluation e.       *)
Past(q, e) ==
    /\ q.ev = e /\ q.op # "unshare"
    /\ q.pc \in {"reload", "tags", "write", "link"}

Clear(q, e) == Past(q, e) => q.actor \in Admin

Left(e) ==
    /\ Live(e) /\ eval[e].owner = None /\ ~eval[e].public
    /\ \A g \in Group : ~Linked(g, e)

LEMMA AbandonedIs ==
    ASSUME NEW e \in Evaluation
    PROVE  /\ Abandoned(e) <=> Left(e) /\ \A r \in Req : Clear(req[r], e)
           /\ Abandoned(e)' <=> Left(e)' /\ \A r \in Req : Clear(req'[r], e)
  BY DEF Abandoned, Left, Clear, Past

(* Nobody but an administrator gets past a check on it.                    *)
LEMMA NobodyPasses ==
    ASSUME TypeInv, NEW e \in Evaluation, Left(e), NEW u \in User, u \notin Admin
    PROVE  ~MayManage(u, e) /\ ~MayRead(u, e)
<1>1. u # None
  BY ConstantsAssumption
<1> QED
  BY <1>1 DEF Left, MayManage, MayRead, Linked

(* A record that stays behind the checks, or keeps its actor, stays clear. *)
LEMMA ClearMove ==
    ASSUME TypeInv, NEW e \in Evaluation, NEW r \in Req, NEW q,
           \A s \in Req : Clear(req[s], e), Clear(q, e),
           req' = [req EXCEPT ![r] = q]
    PROVE  \A s \in Req : Clear(req'[s], e)
  BY DEF TypeInv, TypeOK

LEMMA ClearDone ==
    ASSUME TypeInv, NEW e \in Evaluation, NEW r \in Req,
           \A s \in Req : Clear(req[s], e), Done(r)
    PROVE  \A s \in Req : Clear(req'[s], e)
<1>1. Clear(Idle, e)
  BY DEF Clear, Past, Idle, New
<1> QED
  BY <1>1, ClearMove DEF Done

LEMMA ClearLinking ==
    ASSUME TypeInv, NEW e \in Evaluation, NEW r \in Req, NEW add,
           \A s \in Req : Clear(req[s], e), Linking(r, add),
           Past(req[r], e) \/ req[r].ev # e \/ req[r].actor \in Admin
    PROVE  \A s \in Req : Clear(req'[s], e)
<1> DEFINE q == [req[r] EXCEPT !.pc = "link", !.add = add]
<1>w. req[r] \in Request
  BY DEF TypeInv, TypeOK
<1>1. CASE Done(r)
  BY <1>1, ClearDone
<1>2. CASE req' = [req EXCEPT ![r].pc = "link", ![r].add = add]
  <2>1. req' = [req EXCEPT ![r] = q]
    BY <1>2
  <2>2. q.ev = req[r].ev /\ q.actor = req[r].actor
    BY <1>w DEF Request
  <2>3. Clear(q, e)
    BY <2>2 DEF Clear, Past
  <2> HIDE DEF q
  <2> QED
    BY <2>1, <2>3, ClearMove
<1> QED
  BY <1>1, <1>2 DEF Linking

LEMMA ClearGoto ==
    ASSUME TypeInv, NEW e \in Evaluation, NEW r \in Req, NEW pc,
           \A s \in Req : Clear(req[s], e), Goto(r, pc),
           \/ pc \in {"group", "check"} \/ req[r].op = "unshare"
           \/ Past(req[r], e) \/ req[r].ev # e \/ req[r].actor \in Admin
    PROVE  \A s \in Req : Clear(req'[s], e)
<1> DEFINE q == [req[r] EXCEPT !.pc = pc]
<1>w. req[r] \in Request
  BY DEF TypeInv, TypeOK
<1>1. req' = [req EXCEPT ![r] = q]
  BY DEF Goto
<1>2. q.ev = req[r].ev /\ q.actor = req[r].actor /\ q.op = req[r].op /\ q.pc = pc
  BY <1>w DEF Request
<1>3. Clear(q, e)
  BY <1>2 DEF Clear, Past
<1> HIDE DEF q
<1> QED
  BY <1>1, <1>3, ClearMove

LEMMA ClearStep ==
    ASSUME TypeInv, NEW e \in Evaluation, Abandoned(e), [Next]_vars
    PROVE  \A s \in Req : Clear(req'[s], e)
<1>c. Left(e) /\ \A s \in Req : Clear(req[s], e)
  BY AbandonedIs
<1>1. ASSUME NEW r \in Req, Receive(r) PROVE \A s \in Req : Clear(req'[s], e)
  <2>0. PICK u \in users : \E q \in Asks(u) : req' = [req EXCEPT ![r] = q]
    BY <1>1 DEF Receive
  <2>1. PICK q \in Asks(u) : req' = [req EXCEPT ![r] = q]
    BY <2>0
  <2>2. q.pc \in {"group", "check"}
    BY <2>1, AsksWellFormed DEF TypeInv, TypeOK
  <2> QED
    BY <1>c, <2>1, <2>2, ClearMove DEF Clear, Past
<1>2. ASSUME NEW r \in Req, Proceed(r) PROVE \A s \in Req : Clear(req'[s], e)
  <2>w. WellFormed(req[r]) /\ req[r] \in Request
    BY DEF TypeInv, TypeOK
  <2>1. CASE LoadGroups(r)
    <3>1. CASE req[r].op # "create"
      BY <1>c, <2>1, <3>1, ClearDone, ClearGoto DEF LoadGroups
    <3>2. CASE req[r].op = "create"
      <4> DEFINE add == [g \in Group |-> IF g \in {h \in req[r].asked : MayLink(req[r].actor, h)}
                                        THEN "select" ELSE "no"]
                 q == [req[r] EXCEPT !.pc = "insert", !.add = add]
      <4>1. req' = [req EXCEPT ![r].pc = "insert", ![r].add = add]
        BY <2>1, <3>2 DEF LoadGroups
      <4>2. req' = [req EXCEPT ![r] = q]
        BY <4>1
      <4> HIDE DEF add
      <4>3. Clear(q, e)
        BY <2>w DEF Clear, Past, Request
      <4> HIDE DEF q
      <4> QED
        BY <1>c, <4>2, <4>3, ClearMove
    <3> QED
      BY <3>1, <3>2
  <2>2. CASE InsertEvaluation(r)
    <3>1. CASE Done(r)
      BY <1>c, <3>1, ClearDone
    <3>2. CASE ~Done(r)
      <4>1. PICK x \in Evaluation : x \notin born /\ req' = [req EXCEPT ![r].pc = "tags", ![r].ev = x]
        BY <2>2, <3>2 DEF InsertEvaluation
      <4> DEFINE q == [req[r] EXCEPT !.pc = "tags", !.ev = x]
      <4>2. req' = [req EXCEPT ![r] = q] /\ q.ev = x
        BY <2>w, <4>1 DEF Request
      <4>3. x # e
        BY <1>c, <4>1 DEF Left, TypeInv, TypeOK
      <4>4. Clear(q, e)
        BY <4>2, <4>3 DEF Clear, Past
      <4> HIDE DEF q
      <4> QED
        BY <1>c, <4>2, <4>4, ClearMove
    <3> QED
      BY <3>1, <3>2
  <2>3. CASE InsertTag(r)
    <3>1. req[r].ev = e => Past(req[r], e)
      BY <2>w, <2>3 DEF Past, InsertTag, At, WellFormed
    <3> QED
      BY <1>c, <2>3, <3>1, ClearDone, ClearLinking DEF InsertTag
  <2>4. CASE LoadEvaluation(r)
    <3>w. req[r].actor \in User /\ req[r].op # "create"
      BY <2>w, <2>4 DEF LoadEvaluation, At, WellFormed
    <3>1. CASE Done(r)
      BY <1>c, <3>1, ClearDone
    <3>2. CASE req[r].op = "untag"
      <4>1. req[r].ev # e
        BY <2>w, <2>4, <3>2, ConstantsAssumption DEF LoadEvaluation, At, WellFormed
      <4> QED
        BY <1>c, <2>4, <3>1, <3>2, <4>1, ClearGoto DEF LoadEvaluation
    <3>3. CASE req[r].op \in {"update", "remove", "tag", "share"} /\ ~Done(r)
      <4>1. Allowed(req[r])
        BY <2>4, <3>3 DEF LoadEvaluation
      <4>2. req[r].ev = e => req[r].actor \in Admin
        BY <1>c, <3>w, <3>3, <4>1, NobodyPasses DEF Allowed
      <4> QED
        BY <1>c, <2>4, <3>3, <4>2, ClearGoto, ClearLinking DEF LoadEvaluation
    <3>4. CASE req[r].op = "unshare"
      BY <1>c, <2>4, <3>1, <3>4, ClearGoto DEF LoadEvaluation
    <3> QED
      BY <2>w, <2>4, <3>w, <3>1, <3>2, <3>3, <3>4 DEF Request, WellFormed, LoadEvaluation, At
  <2>5. CASE Reload(r)
    <3>0. req[r].ev = e => Past(req[r], e)
      BY <2>w, <2>5 DEF Past, Reload, At, WellFormed
    <3>1. CASE Done(r)
      BY <1>c, <3>1, ClearDone
    <3>2. CASE Goto(r, "write")
      BY <1>c, <3>0, <3>2, ClearGoto
    <3>3. CASE req' = [req EXCEPT ![r].pc = "write", ![r].was = eval[req[r].ev].public,
                                  ![r].tags = TagsOf(req[r].ev)]
      <4> DEFINE q == [req[r] EXCEPT !.pc = "write", !.was = eval[req[r].ev].public,
                                     !.tags = TagsOf(req[r].ev)]
      <4>1. req' = [req EXCEPT ![r] = q]
        BY <3>3
      <4>2. q.ev = req[r].ev /\ q.actor = req[r].actor
        BY <2>w DEF Request
      <4>3. Clear(q, e)
        BY <1>c, <3>0, <4>2 DEF Clear, Past
      <4> HIDE DEF q
      <4> QED
        BY <1>c, <4>1, <4>3, ClearMove
    <3> QED
      BY <2>5, <3>1, <3>2, <3>3 DEF Reload
  <2>6. CASE SaveEvaluation(r) \/ RemoveEvaluation(r) \/ DestroyTag(r) \/ DeleteLinks(r)
    BY <1>c, <2>6, ClearDone DEF SaveEvaluation, RemoveEvaluation, DestroyTag, DeleteLinks
  <2>7. ASSUME NEW g \in Group, SelectLink(r, g) \/ InsertLink(r, g)
        PROVE  \A s \in Req : Clear(req'[s], e)
    <3>1. req[r].ev = e => Past(req[r], e)
      BY <2>w, <2>7 DEF Past, SelectLink, InsertLink, At, WellFormed
    <3> QED
      BY <1>c, <2>7, <3>1, ClearLinking DEF SelectLink, InsertLink
  <2> QED
    BY <1>2, <2>1, <2>2, <2>3, <2>4, <2>5, <2>6, <2>7 DEF Proceed
<1>3. CASE Crash
  BY <1>3 DEF Crash, Clear, Past, Idle, New
<1>4. CASE req' = req
  BY <1>c, <1>4
<1> QED
  BY <1>1, <1>2, <1>3, <1>4 DEF Next, vars, ChangeRole, DestroyGroup, DeleteUser

LEMMA AbandonedStep ==
    ASSUME TypeInv, NEW e \in Evaluation, Abandoned(e), [Next]_vars
    PROVE  \/ Abandoned(e)'
           \/ \E r \in Req : /\ req[r].ev = e /\ req[r].actor \in Admin
                            /\ req[r].pc \in {"write", "link"}
                            /\ req'[r] # req[r]
<1> DEFINE Acts(r) == /\ req[r].ev = e /\ req[r].actor \in Admin
                      /\ req[r].pc \in {"write", "link"}
                      /\ req'[r] # req[r]
<1>c. Left(e) /\ \A s \in Req : Clear(req[s], e)
  BY AbandonedIs
<1>t. req \in [Req -> Request] /\ eval \in [Evaluation -> Row \cup {None}] /\ eval[e] \in Row
  BY <1>c DEF TypeInv, TypeOK, Left, Live
<1>1. ASSUME NEW r \in Req, RemoveEvaluation(r) \/ SaveEvaluation(r), req[r].ev = e
      PROVE  Acts(r)
  BY <1>1, <1>c, <1>t DEF RemoveEvaluation, SaveEvaluation, Done, Idle, New, At, Clear, Past
<1>2. ASSUME NEW r \in Req, NEW g \in Group, InsertLink(r, g), req[r].ev = e
      PROVE  Acts(r)
  <2>1. req[r].op # "unshare" /\ req[r] \in Request
    BY <1>2 DEF InsertLink, At, TypeInv, TypeOK, WellFormed
  <2>2. req[r].actor \in Admin
    BY <1>2, <1>c, <2>1 DEF InsertLink, At, Clear, Past
  <2>3. req'[r] # req[r]
    <3>1. CASE Done(r)
      BY <1>2, <1>t, <3>1 DEF Done, Idle, New, InsertLink, At
    <3>2. CASE ~Done(r)
      <4>1. req'[r].add = [req[r].add EXCEPT ![g] = "no"]
        BY <1>2, <1>t, <3>2 DEF InsertLink, Linking, Request
      <4>2. req'[r].add[g] = "no" /\ req[r].add[g] = "insert"
        BY <1>2, <2>1, <4>1 DEF InsertLink, Request
      <4> QED
        BY <4>2
    <3> QED
      BY <3>1, <3>2
  <2> QED
    BY <1>2, <2>2, <2>3 DEF InsertLink, At
<1>3. ASSUME ~\E r \in Req : Acts(r) PROVE Left(e)'
  <2>1. Live(e)'
    BY <1>1, <1>3, <1>c, LiveAfter DEF Left
  <2>2. ASSUME NEW g \in Group, Linked(g, e)' PROVE FALSE
    BY <1>2, <1>3, <1>c, <2>2, LinksAfter DEF Left
  <2>3. eval'[e].owner = None /\ ~eval'[e].public
    <3>1. ASSUME NEW r \in Req, InsertEvaluation(r) PROVE eval'[e] = eval[e]
      <4>1. e \in born
        BY <1>c DEF Left, TypeInv, TypeOK
      <4> QED
        BY <1>t, <3>1, <4>1 DEF InsertEvaluation
    <3>2. ASSUME NEW r \in Req, SaveEvaluation(r), req[r].ev # e PROVE eval'[e] = eval[e]
      BY <1>t, <3>2 DEF SaveEvaluation
    <3>3. ASSUME NEW r \in Req, RemoveEvaluation(r), req[r].ev # e PROVE eval'[e] = eval[e]
      BY <1>t, <3>3 DEF RemoveEvaluation
    <3>4. CASE DeleteUser
      <4>1. PICK u \in users : eval' = [x \in Evaluation |->
                        IF Live(x) /\ eval[x].owner = u
                        THEN [eval[x] EXCEPT !.owner = None] ELSE eval[x]]
        BY <3>4 DEF DeleteUser
      <4>2. u # None
        BY ConstantsAssumption DEF TypeInv, TypeOK
      <4>3. eval'[e] = eval[e]
        BY <1>c, <4>1, <4>2 DEF Left
      <4> QED
        BY <1>c, <4>3 DEF Left
    <3>5. CASE eval'[e] = eval[e]
      BY <1>c, <3>5 DEF Left
    <3> QED
      BY <1>1, <1>3, <3>1, <3>2, <3>3, <3>4, <3>5
         DEF Next, vars, Receive, Proceed, LoadGroups, InsertTag, LoadEvaluation, Reload,
             DestroyTag, DeleteLinks, SelectLink, InsertLink, ChangeRole, DestroyGroup, Crash
  <2> QED
    BY <2>1, <2>2, <2>3 DEF Left, Live, Linked
<1> QED
  BY <1>3, ClearStep, AbandonedIs

(* What a deleted account leaves behind changes hands only through an      *)
(* administrator, whatever was on its way when the account went.           *)
THEOREM AbandonedBelongsToAdmins == Spec => AbandonedNeedsAdmin
<1>1. Init => TypeInv
  BY TypeInit
<1>2. TypeInv /\ [Next]_vars => TypeInv'
  BY TypeStep
<1>3. TypeInv /\ [Next]_vars =>
        [\A e \in Evaluation :
          Abandoned(e) =>
             \/ Abandoned(e)'
             \/ \E r \in Req : /\ req[r].ev = e /\ req[r].actor \in Admin
                               /\ req[r].pc \in {"write", "link"}
                               /\ req'[r] # req[r]]_vars
  BY AbandonedStep
<1> QED
  BY <1>1, <1>2, <1>3, PTL DEF Spec, AbandonedNeedsAdmin

-----------------------------------------------------------------------------
(* Evaluations implements EvaluationAccess.                                *)

AccessStep == Access!ANext \/ UNCHANGED Access!avars

LEMMA PermitTyped ==
    ASSUME NEW q \in Request, WellFormed(q)
    PROVE  PermitOf(q) \in Access!Permit
<1>1. Entered(q) \subseteq Group
  BY DEF Entered, Request
<1>2. Managed(q) \subseteq Evaluation
  BY DEF Managed, Request, WellFormed
<1>3. Untaggable(q) \subseteq Tag
  BY DEF Untaggable, Request, WellFormed
<1>4. q.actor \in User \cup {None} /\ (q.pc = "link" => q.ev \in Evaluation)
  BY DEF Request, WellFormed
<1> QED
  BY <1>1, <1>2, <1>3, <1>4 DEF PermitOf, Access!Permit

LEMMA PermitOfIdle == PermitOf(Idle) = Access!Nothing
  BY DEF PermitOf, Entered, Managed, Untaggable, Idle, New, Access!Nothing

(* A request moves on alone.                                               *)
LEMMA OneMoves ==
    ASSUME TypeInv, TypeInv', NEW r \in Req, NEW q, req' = [req EXCEPT ![r] = q]
    PROVE  /\ Access!Alone(r)
           /\ Permits[r] = PermitOf(req[r]) /\ Permits'[r] = PermitOf(q)
<1>1. \A s \in Req : req'[s] \in Request /\ WellFormed(req'[s])
  BY DEF TypeInv, TypeOK
<1>2. Permits' \in [Req -> Access!Permit]
  BY <1>1, PermitTyped DEF Permits
<1>3. \A s \in Req : Permits[s] = PermitOf(req[s]) /\ Permits'[s] = PermitOf(req'[s])
  BY DEF Permits
<1>4. req'[r] = q /\ \A s \in Req \ {r} : req'[s] = req[s]
  BY DEF TypeInv, TypeOK
<1> QED
  BY <1>2, <1>3, <1>4 DEF Access!Alone

LEMMA DecideMoves ==
    ASSUME TypeInv, TypeInv', NEW r \in Req, NEW q, req' = [req EXCEPT ![r] = q],
           UNCHANGED <<world, born, eval, tag, link>>,
           Access!Justified(PermitOf(q), PermitOf(req[r]))
    PROVE  AccessStep
<1>1. UNCHANGED Access!data
  BY DEF Access!data, world, Shared, Linked
<1>2. Access!Decide(r)
  BY <1>1, OneMoves DEF Access!Decide
<1> QED
  BY <1>2 DEF AccessStep, Access!ANext

LEMMA DoneDecides ==
    ASSUME TypeInv, TypeInv', NEW r \in Req, Done(r),
           UNCHANGED <<world, born, eval, tag, link>>
    PROVE  AccessStep
<1>1. Access!Justified(PermitOf(Idle), PermitOf(req[r]))
  BY PermitOfIdle DEF Access!Justified, Access!Nothing
<1> QED
  BY <1>1, DecideMoves DEF Done

(* After a write the request ends, or goes on with what is left.           *)
LEMMA LeftMoves ==
    ASSUME TypeInv, TypeInv', NEW r \in Req, NEW q, req' = [req EXCEPT ![r] = q],
           NEW p, Access!Within(PermitOf(q), p)
    PROVE  Access!Left(r, p)
  BY OneMoves DEF Access!Left

LEMMA LeftDone ==
    ASSUME TypeInv, TypeInv', NEW r \in Req, Done(r), NEW p
    PROVE  Access!Left(r, p)
<1>1. Access!Within(PermitOf(Idle), p)
  BY PermitOfIdle DEF Access!Within, Access!Nothing
<1> QED
  BY <1>1, LeftMoves DEF Done

LEMMA SharedIsLinked ==
    \A g \in Group, e \in Evaluation : <<g, e>> \in Shared <=> Linked(g, e)
  BY DEF Shared

(* The abilities of the code are those of the promise.                     *)
LEMMA Abilities ==
    ASSUME NEW u \in User
    PROVE  /\ \A g \in Group : MayLink(u, g) => Access!Enters(u, g)
           /\ \A e : MayManage(u, e) => e \in Evaluation /\ Access!Manages(u, e)
           /\ \A e : MayRead(u, e) => e \in Evaluation /\ Access!Reads(u, e)
  BY SharedIsLinked DEF MayLink, BelongsTo, MayManage, MayRead, Live,
     Access!Enters, Access!Manages, Access!Reads

LEMMA AccessInit == Init => Access!AInit
<1> SUFFICES ASSUME Init PROVE Access!AInit
  OBVIOUS
<1>1. Shared = {}
  BY DEF Init, Shared, Linked
<1>2. Permits = [r \in Req |-> Access!Nothing]
  BY PermitOfIdle DEF Init, Permits
<1> QED
  BY <1>1, <1>2 DEF Init, Access!AInit

LEMMA AccessReceive ==
    ASSUME TypeInv, TypeInv', NEW r \in Req, Receive(r) PROVE AccessStep
<1>1. PICK u \in users : \E q \in Asks(u) : req' = [req EXCEPT ![r] = q]
  BY DEF Receive
<1>2. PICK q \in Asks(u) : req' = [req EXCEPT ![r] = q]
  BY <1>1
<1>3. q.pc \in {"group", "check"} /\ (q.pc = "check" => q.op \notin {"share", "unshare"})
  BY DEF Asks, New
<1>4. /\ PermitOf(q).enter = {} /\ PermitOf(q).manage = {}
      /\ PermitOf(q).read = {} /\ PermitOf(q).untag = {}
  BY <1>3 DEF PermitOf, Entered, Managed, Untaggable
<1>5. Access!Justified(PermitOf(q), PermitOf(req[r]))
  BY <1>4 DEF Access!Justified
<1> QED
  BY <1>2, <1>5, DecideMoves DEF Receive

LEMMA AccessLoadGroups ==
    ASSUME TypeInv, TypeInv', NEW r \in Req, LoadGroups(r) PROVE AccessStep
<1>w. WellFormed(req[r]) /\ req[r] \in Request /\ At(r, "group") /\ req[r].actor \in User
  BY DEF TypeInv, TypeOK, LoadGroups, WellFormed, At
<1> DEFINE G == {g \in req[r].asked : MayLink(req[r].actor, g)}
           add == [g \in Group |-> IF g \in G THEN "select" ELSE "no"]
           q1 == [req[r] EXCEPT !.pc = "insert", !.add = add]
           q2 == [req[r] EXCEPT !.pc = "check"]
<1>g. req[r].asked \subseteq Group
  BY <1>w DEF Request
<1>1. CASE Done(r)
  BY <1>1, DoneDecides DEF LoadGroups
<1>2. CASE req[r].op = "create"
  <2>1. req' = [req EXCEPT ![r].pc = "insert", ![r].add = add]
    BY <1>2 DEF LoadGroups
  <2>2. req' = [req EXCEPT ![r] = q1]
    BY <2>1
  <2>3. \A g \in Group : add[g] # "no" => MayLink(req[r].actor, g)
    OBVIOUS
  <2> HIDE DEF add
  <2>4. q1.pc = "insert" /\ q1.op = "create" /\ q1.actor = req[r].actor /\ q1.add = add
    BY <1>w, <1>2 DEF Request
  <2> HIDE DEF q1
  <2>5. /\ PermitOf(q1).actor = req[r].actor /\ PermitOf(q1).enter = {g \in Group : add[g] # "no"}
        /\ PermitOf(q1).manage = {} /\ PermitOf(q1).read = {} /\ PermitOf(q1).untag = {}
    BY <2>4 DEF PermitOf, Entered, Managed, Untaggable
  <2>6. Access!Justified(PermitOf(q1), PermitOf(req[r]))
    BY <1>w, <2>3, <2>5, Abilities DEF Access!Justified
  <2> QED
    BY <2>2, <2>6, DecideMoves DEF LoadGroups
<1>3. CASE req[r].op # "create" /\ ~Done(r)
  <2>1. req' = [req EXCEPT ![r] = q2] /\ G # {}
    BY <1>3 DEF LoadGroups, Goto
  <2>2. req[r].op \in {"share", "unshare"}
    BY <1>w, <1>3 DEF WellFormed, At
  <2>3. \A g \in req[r].asked : MayLink(req[r].actor, g)
    BY <1>w, <2>1, <2>2 DEF WellFormed, At
  <2>4. q2.pc = "check" /\ q2.op = req[r].op /\ q2.actor = req[r].actor /\ q2.asked = req[r].asked
    BY <1>w DEF Request
  <2> HIDE DEF q2, G
  <2>5. /\ PermitOf(q2).actor = req[r].actor /\ PermitOf(q2).enter = req[r].asked
        /\ PermitOf(q2).manage = {} /\ PermitOf(q2).read = {} /\ PermitOf(q2).untag = {}
    BY <2>2, <2>4 DEF PermitOf, Entered, Managed, Untaggable
  <2>6. Access!Justified(PermitOf(q2), PermitOf(req[r]))
    BY <1>w, <1>g, <2>3, <2>5, Abilities DEF Access!Justified
  <2> QED
    BY <2>1, <2>6, DecideMoves DEF LoadGroups
<1> QED
  BY <1>1, <1>2, <1>3

LEMMA AccessLoadEvaluation ==
    ASSUME TypeInv, TypeInv', NEW r \in Req, LoadEvaluation(r) PROVE AccessStep
<1>w. WellFormed(req[r]) /\ req[r] \in Request /\ req[r].pc = "check" /\ req[r].actor \in User
  BY DEF TypeInv, TypeOK, LoadEvaluation, WellFormed, At
<1>u. UNCHANGED <<world, born, eval, tag, link>>
  BY DEF LoadEvaluation
<1>1. CASE Done(r)
  BY <1>1, <1>u, DoneDecides
<1>2. CASE Goto(r, "reload") /\ req[r].op \in {"update", "remove"} /\ Allowed(req[r])
  <2> DEFINE q == [req[r] EXCEPT !.pc = "reload"]
  <2>1. req' = [req EXCEPT ![r] = q]
    BY <1>2 DEF Goto
  <2>2. q.pc = "reload" /\ q.op = req[r].op /\ q.actor = req[r].actor /\ q.ev = req[r].ev
    BY <1>w DEF Request
  <2> HIDE DEF q
  <2>3. /\ PermitOf(q).actor = req[r].actor /\ PermitOf(q).enter = {}
        /\ PermitOf(q).manage = {req[r].ev} /\ PermitOf(q).read = {} /\ PermitOf(q).untag = {}
    BY <1>2, <2>2 DEF PermitOf, Entered, Managed, Untaggable
  <2>4. MayManage(req[r].actor, req[r].ev)
    BY <1>2 DEF Allowed
  <2>5. Access!Justified(PermitOf(q), PermitOf(req[r]))
    BY <1>w, <2>3, <2>4, Abilities DEF Access!Justified
  <2> QED
    BY <1>u, <2>1, <2>5, DecideMoves
<1>3. CASE Goto(r, "reload") /\ req[r].op = "untag" /\ Allowed(req[r])
  <2> DEFINE q == [req[r] EXCEPT !.pc = "reload"]
  <2>1. req' = [req EXCEPT ![r] = q]
    BY <1>3 DEF Goto
  <2>2. q.pc = "reload" /\ q.op = "untag" /\ q.actor = req[r].actor /\ q.tag = req[r].tag
    BY <1>w, <1>3 DEF Request
  <2> HIDE DEF q
  <2>3. /\ PermitOf(q).actor = req[r].actor /\ PermitOf(q).enter = {}
        /\ PermitOf(q).manage = {} /\ PermitOf(q).read = {} /\ PermitOf(q).untag = {req[r].tag}
    BY <2>2 DEF PermitOf, Entered, Managed, Untaggable
  <2>4. \/ tag[req[r].tag] = "stray" /\ req[r].actor \in Admin
        \/ MayManage(req[r].actor, tag[req[r].tag])
    BY <1>3 DEF Allowed
  <2>5. Access!Justified(PermitOf(q), PermitOf(req[r]))
    BY <1>w, <2>3, <2>4, Abilities DEF Access!Justified
  <2> QED
    BY <1>u, <2>1, <2>5, DecideMoves
<1>4. CASE Goto(r, "tags") /\ req[r].op = "tag" /\ Allowed(req[r])
  <2> DEFINE q == [req[r] EXCEPT !.pc = "tags"]
  <2>1. req' = [req EXCEPT ![r] = q]
    BY <1>4 DEF Goto
  <2>2. /\ q.pc = "tags" /\ q.op = "tag" /\ q.actor = req[r].actor /\ q.ev = req[r].ev
        /\ q.add = NoLinks
    BY <1>w, <1>4 DEF Request, WellFormed
  <2> HIDE DEF q
  <2>3. /\ PermitOf(q).actor = req[r].actor /\ PermitOf(q).enter = {}
        /\ PermitOf(q).manage = {req[r].ev} /\ PermitOf(q).read = {} /\ PermitOf(q).untag = {}
    BY <2>2 DEF PermitOf, Entered, Managed, Untaggable, NoLinks
  <2>4. MayManage(req[r].actor, req[r].ev)
    BY <1>4 DEF Allowed
  <2>5. Access!Justified(PermitOf(q), PermitOf(req[r]))
    BY <1>w, <2>3, <2>4, Abilities DEF Access!Justified
  <2> QED
    BY <1>u, <2>1, <2>5, DecideMoves
<1>5. CASE Goto(r, "write") /\ req[r].op = "unshare"
  <2> DEFINE q == [req[r] EXCEPT !.pc = "write"]
  <2>1. req' = [req EXCEPT ![r] = q]
    BY <1>5 DEF Goto
  <2>2. q.pc = "write" /\ q.op = "unshare" /\ q.actor = req[r].actor /\ q.asked = req[r].asked
    BY <1>w, <1>5 DEF Request
  <2> HIDE DEF q
  <2>3. PermitOf(q) = PermitOf(req[r])
    BY <1>w, <1>5, <2>2 DEF PermitOf, Entered, Managed, Untaggable
  <2>4. Access!Justified(PermitOf(q), PermitOf(req[r]))
    BY <2>3 DEF Access!Justified
  <2> QED
    BY <1>u, <2>1, <2>4, DecideMoves
<1>6. CASE req[r].op = "share" /\ Allowed(req[r]) /\ ~Done(r)
  <2> DEFINE add == [g \in Group |-> IF g \in req[r].asked THEN "select" ELSE "no"]
             q == [req[r] EXCEPT !.pc = "link", !.add = add]
  <2>1. req' = [req EXCEPT ![r].pc = "link", ![r].add = add]
    BY <1>6 DEF LoadEvaluation, Linking
  <2>2. req' = [req EXCEPT ![r] = q]
    BY <2>1
  <2>3. \A g \in Group : add[g] # "no" => g \in req[r].asked
    OBVIOUS
  <2> HIDE DEF add
  <2>4. /\ q.pc = "link" /\ q.op = "share" /\ q.actor = req[r].actor /\ q.ev = req[r].ev
        /\ q.add = add
    BY <1>w, <1>6 DEF Request
  <2> HIDE DEF q
  <2>5. /\ PermitOf(q).actor = req[r].actor /\ PermitOf(q).enter = {g \in Group : add[g] # "no"}
        /\ PermitOf(q).manage = {} /\ PermitOf(q).read = {req[r].ev} /\ PermitOf(q).untag = {}
    BY <2>4 DEF PermitOf, Entered, Managed, Untaggable
  <2>6. PermitOf(req[r]).actor = req[r].actor /\ PermitOf(req[r]).enter = req[r].asked
    BY <1>w, <1>6 DEF PermitOf, Entered
  <2>7. MayRead(req[r].actor, req[r].ev)
    BY <1>6 DEF Allowed
  <2>8. Access!Justified(PermitOf(q), PermitOf(req[r]))
    BY <1>w, <2>3, <2>5, <2>6, <2>7, Abilities DEF Access!Justified
  <2> QED
    BY <1>u, <2>2, <2>8, DecideMoves
<1> QED
  <2>1. req[r].op \in {"update", "remove", "tag", "untag", "share", "unshare"}
    BY <1>w DEF Request, WellFormed
  <2> QED
    BY <2>1, <1>1, <1>2, <1>3, <1>4, <1>5, <1>6 DEF LoadEvaluation

LEMMA AccessReload ==
    ASSUME TypeInv, TypeInv', NEW r \in Req, Reload(r) PROVE AccessStep
<1>w. WellFormed(req[r]) /\ req[r] \in Request /\ req[r].pc = "reload" /\ req[r].actor \in User
  BY DEF TypeInv, TypeOK, Reload, WellFormed, At
<1>u. UNCHANGED <<world, born, eval, tag, link>>
  BY DEF Reload
<1>1. CASE Done(r)
  BY <1>1, <1>u, DoneDecides
<1>2. CASE req[r].op = "untag" /\ Goto(r, "write")
  <2> DEFINE q == [req[r] EXCEPT !.pc = "write"]
  <2>1. req' = [req EXCEPT ![r] = q]
    BY <1>2 DEF Goto
  <2>2. q.pc = "write" /\ q.op = "untag" /\ q.actor = req[r].actor /\ q.tag = req[r].tag
    BY <1>w, <1>2 DEF Request
  <2> HIDE DEF q
  <2>3. PermitOf(q) = PermitOf(req[r])
    BY <1>w, <1>2, <2>2 DEF PermitOf, Entered, Managed, Untaggable
  <2>4. Access!Justified(PermitOf(q), PermitOf(req[r]))
    BY <2>3 DEF Access!Justified
  <2> QED
    BY <1>u, <2>1, <2>4, DecideMoves
<1>3. CASE req[r].op \in {"update", "remove"} /\ ~Done(r)
  <2> DEFINE q == [req[r] EXCEPT !.pc = "write", !.was = eval[req[r].ev].public,
                                 !.tags = TagsOf(req[r].ev)]
  <2>1. req' = [req EXCEPT ![r] = q]
    BY <1>3 DEF Reload
  <2>2. /\ q.pc = "write" /\ q.op = req[r].op /\ q.actor = req[r].actor /\ q.ev = req[r].ev
        /\ q.tags = TagsOf(req[r].ev)
    BY <1>w DEF Request
  <2> HIDE DEF q
  <2>3. /\ PermitOf(q).actor = req[r].actor /\ PermitOf(q).enter = {}
        /\ PermitOf(q).manage = {req[r].ev} /\ PermitOf(q).read = {}
        /\ PermitOf(q).untag \subseteq TagsOf(req[r].ev)
    BY <1>3, <2>2 DEF PermitOf, Entered, Managed, Untaggable
  <2>4. PermitOf(req[r]).actor = req[r].actor /\ PermitOf(req[r]).manage = {req[r].ev}
    BY <1>w, <1>3 DEF PermitOf, Managed
  <2>5. \A t \in PermitOf(q).untag : tag[t] = req[r].ev
    BY <2>3 DEF TagsOf
  <2>6. req[r].ev \in Evaluation
    BY <1>w, <1>3 DEF WellFormed
  <2>7. Access!Justified(PermitOf(q), PermitOf(req[r]))
    BY <2>3, <2>4, <2>5, <2>6 DEF Access!Justified
  <2> QED
    BY <1>u, <2>1, <2>7, DecideMoves
<1> QED
  BY <1>w, <1>1, <1>2, <1>3 DEF Reload, WellFormed

LEMMA AccessInsertEvaluation ==
    ASSUME TypeInv, TypeInv', NEW r \in Req, InsertEvaluation(r) PROVE AccessStep
<1>w. WellFormed(req[r]) /\ req[r] \in Request /\ req[r].pc = "insert" /\ req[r].op = "create"
  BY DEF TypeInv, TypeOK, InsertEvaluation, WellFormed, At
<1>1. CASE req[r].actor \notin users
  BY <1>1, DoneDecides DEF InsertEvaluation
<1>2. CASE req[r].actor \in users
  <2>1. PICK e \in Evaluation :
           /\ e \notin born /\ born' = born \cup {e}
           /\ eval' = [eval EXCEPT ![e] = [owner |-> req[r].actor, public |-> req[r].public]]
           /\ req' = [req EXCEPT ![r].pc = "tags", ![r].ev = e]
    BY <1>2 DEF InsertEvaluation
  <2> DEFINE q == [req[r] EXCEPT !.pc = "tags", !.ev = e]
             p == [Permits[r] EXCEPT !.manage = Permits[r].manage \cup {e}]
  <2>2. req' = [req EXCEPT ![r] = q]
    BY <2>1
  <2>3. /\ q.pc = "tags" /\ q.op = "create" /\ q.actor = req[r].actor /\ q.ev = e
        /\ q.add = req[r].add
    BY <1>w DEF Request
  <2> HIDE DEF q
  <2>4. Permits[r] = PermitOf(req[r])
    BY <2>2, OneMoves
  <2>5. /\ PermitOf(q).actor = req[r].actor /\ PermitOf(q).enter = PermitOf(req[r]).enter
        /\ PermitOf(q).manage = {e} /\ PermitOf(q).read = {} /\ PermitOf(q).untag = {}
    BY <1>w, <2>3 DEF PermitOf, Entered, Managed, Untaggable
  <2>6. Permits[r].actor = req[r].actor
    BY <2>4 DEF PermitOf
  <2>7. p.actor = req[r].actor /\ p.enter = PermitOf(req[r]).enter /\ e \in p.manage
    BY <2>4, <2>6 DEF PermitOf
  <2> HIDE DEF p
  <2>8. Access!Within(PermitOf(q), p)
    BY <2>5, <2>7 DEF Access!Within
  <2>9. Access!Left(r, p)
    BY <2>2, <2>8, LeftMoves
  <2>10. req[r].public \in BOOLEAN
    BY <1>w DEF Request
  <2>11. UNCHANGED <<users, groups, role, tag, Shared>>
    BY <1>2 DEF InsertEvaluation, world, Shared, Linked
  <2>12. Access!Upload(r, e)
    BY <1>2, <2>1, <2>6, <2>9, <2>10, <2>11 DEF Access!Upload, p
  <2> QED
    BY <2>12 DEF AccessStep, Access!ANext, Access!Write
<1> QED
  BY <1>1, <1>2

(* A request that goes on linking, or ends, keeps what it had but groups.  *)
LEMMA AccessLinking ==
    ASSUME TypeInv, TypeInv', NEW r \in Req, NEW add, Linking(r, add),
           req[r].pc \in {"tags", "link"}
    PROVE  \E q : /\ req' = [req EXCEPT ![r] = q]
                  /\ \/ PermitOf(q) = Access!Nothing
                     \/ /\ PermitOf(q).actor = req[r].actor
                        /\ PermitOf(q).enter = {g \in Group : add[g] # "no"}
                        /\ PermitOf(q).manage = PermitOf(req[r]).manage
                        /\ PermitOf(q).read = PermitOf(req[r]).read
                        /\ PermitOf(q).untag = {}
<1>w. WellFormed(req[r]) /\ req[r] \in Request
  BY DEF TypeInv, TypeOK
<1>1. CASE Done(r)
  BY <1>1, PermitOfIdle DEF Done
<1>2. CASE ~Done(r)
  <2> DEFINE q == [req[r] EXCEPT !.pc = "link", !.add = add]
  <2>1. req' = [req EXCEPT ![r].pc = "link", ![r].add = add]
    BY <1>2 DEF Linking
  <2>2. req' = [req EXCEPT ![r] = q]
    BY <2>1
  <2>3. /\ q.pc = "link" /\ q.op = req[r].op /\ q.actor = req[r].actor /\ q.ev = req[r].ev
        /\ q.add = add
    BY <1>w DEF Request
  <2> HIDE DEF q
  <2>4. req[r].op \in {"create", "tag", "share"} /\ (req[r].op = "share" => req[r].pc = "link")
    BY <1>w DEF WellFormed
  <2>5. /\ PermitOf(q).actor = req[r].actor /\ PermitOf(q).enter = {g \in Group : add[g] # "no"}
        /\ PermitOf(q).manage = PermitOf(req[r]).manage
        /\ PermitOf(q).read = PermitOf(req[r]).read /\ PermitOf(q).untag = {}
    BY <2>3, <2>4 DEF PermitOf, Entered, Managed, Untaggable
  <2> QED
    BY <2>2, <2>5
<1> QED
  BY <1>1, <1>2

LEMMA AccessInsertTag ==
    ASSUME TypeInv, TypeInv', NEW r \in Req, InsertTag(r) PROVE AccessStep
<1>w. WellFormed(req[r]) /\ req[r] \in Request /\ req[r].pc = "tags"
  BY DEF TypeInv, TypeOK, InsertTag, At
<1>1. CASE ~Live(req[r].ev)
  BY <1>1, DoneDecides DEF InsertTag
<1>2. CASE Live(req[r].ev)
  <2>1. PICK t \in Tag : tag[t] = "unborn" /\ tag' = [tag EXCEPT ![t] = req[r].ev]
    BY <1>2 DEF InsertTag
  <2>2. Linking(r, req[r].add)
    BY <1>2 DEF InsertTag
  <2>3. PICK q : /\ req' = [req EXCEPT ![r] = q]
                 /\ \/ PermitOf(q) = Access!Nothing
                    \/ /\ PermitOf(q).actor = req[r].actor
                       /\ PermitOf(q).enter = {g \in Group : req[r].add[g] # "no"}
                       /\ PermitOf(q).manage = PermitOf(req[r]).manage
                       /\ PermitOf(q).read = PermitOf(req[r]).read
                       /\ PermitOf(q).untag = {}
    BY <1>w, <2>2, AccessLinking
  <2>4. /\ PermitOf(req[r]).actor = req[r].actor
        /\ PermitOf(req[r]).enter = {g \in Group : req[r].add[g] # "no"}
        /\ PermitOf(req[r]).manage = {req[r].ev}
    BY <1>w DEF PermitOf, Entered, Managed, WellFormed
  <2>5. Access!Within(PermitOf(q), PermitOf(req[r]))
    BY <2>3, <2>4 DEF Access!Within, Access!Nothing
  <2>6. Permits[r] = PermitOf(req[r]) /\ Access!Left(r, Permits[r])
    BY <2>3, <2>5, OneMoves, LeftMoves
  <2>7. UNCHANGED <<users, groups, role, born, eval, Shared>>
    BY DEF InsertTag, world, Shared, Linked
  <2>8. Access!AddTag(r, req[r].ev, t)
    BY <1>2, <2>1, <2>4, <2>6, <2>7 DEF Access!AddTag, Live
  <2> QED
    BY <1>2, <2>8 DEF AccessStep, Access!ANext, Access!Write, Live
<1> QED
  BY <1>1, <1>2

(* Requests that write once and end.                                       *)
LEMMA AccessWrites ==
    ASSUME TypeInv, TypeInv', NEW r \in Req,
           SaveEvaluation(r) \/ RemoveEvaluation(r) \/ DestroyTag(r) \/ DeleteLinks(r)
    PROVE  AccessStep
<1>w. WellFormed(req[r]) /\ req[r] \in Request /\ req[r].pc = "write" /\ Done(r)
  BY DEF TypeInv, TypeOK, SaveEvaluation, RemoveEvaluation, DestroyTag, DeleteLinks, At
<1>l. \A p : Access!Left(r, p)
  BY <1>w, LeftDone
<1>p. Permits[r] = PermitOf(req[r])
  BY DEF Permits
<1>s. link' = link => Shared' = Shared
  BY DEF Shared, Linked
<1>1. CASE SaveEvaluation(r)
  <2>0. req[r].op = "update" /\ req[r].public \in BOOLEAN /\ req[r].ev \in Evaluation
    BY <1>w, <1>1 DEF SaveEvaluation, Request, WellFormed
  <2>1. CASE eval' = eval
    BY <1>w, <1>1, <2>1, DoneDecides DEF SaveEvaluation
  <2>2. CASE eval' # eval
    <3>1. req[r].ev \in Permits[r].manage
      BY <1>w, <1>p, <2>0 DEF PermitOf, Managed
    <3>2. Access!Publish(r, req[r].ev)
      BY <1>1, <1>l, <1>s, <2>0, <2>2, <3>1 DEF SaveEvaluation, Access!Publish, world, Live
    <3> QED
      BY <2>0, <3>2 DEF AccessStep, Access!ANext, Access!Write
  <2> QED
    BY <2>1, <2>2
<1>2. CASE RemoveEvaluation(r)
  <2>0. req[r].op = "remove" /\ req[r].ev \in Evaluation
    BY <1>w, <1>2 DEF RemoveEvaluation, WellFormed
  <2>1. req[r].ev \in Permits[r].manage /\ Permits[r].untag = req[r].tags
    BY <1>w, <1>p, <2>0 DEF PermitOf, Managed, Untaggable
  <2>2. tag' = [t \in Tag |-> CASE t \in Permits[r].untag -> "gone"
                   [] tag[t] = req[r].ev /\ t \notin Permits[r].untag -> "stray"
                   [] OTHER -> tag[t]]
    BY <1>2, <2>1 DEF RemoveEvaluation, TagsOf
  <2>3. Shared' = {x \in Shared : x[2] # req[r].ev}
    <3>1. \A g \in Group, e \in Evaluation :
             link'[g][e] = IF e = req[r].ev THEN 0 ELSE link[g][e]
      BY <1>2 DEF RemoveEvaluation, Unlinked, TypeInv, TypeOK
    <3>2. \A g \in Group, e \in Evaluation :
             link'[g][e] > 0 <=> link[g][e] > 0 /\ e # req[r].ev
      BY <3>1
    <3> QED
      BY <3>2 DEF Shared, Linked
  <2>4. Access!Remove(r, req[r].ev)
    BY <1>2, <1>l, <2>1, <2>2, <2>3 DEF RemoveEvaluation, Access!Remove, world
  <2> QED
    BY <2>0, <2>4 DEF AccessStep, Access!ANext, Access!Write
<1>3. CASE DestroyTag(r)
  <2>1. req[r].tag \in Tag /\ req[r].tag \in Permits[r].untag
    BY <1>w, <1>p, <1>3 DEF DestroyTag, WellFormed, PermitOf, Untaggable
  <2>2. Access!TakeTag(r, req[r].tag)
    BY <1>3, <1>l, <1>s, <2>1 DEF DestroyTag, Access!TakeTag, world
  <2> QED
    BY <2>1, <2>2 DEF AccessStep, Access!ANext, Access!Write
<1>4. CASE DeleteLinks(r)
  <2>0. req[r].op = "unshare" /\ req[r].ev \in Evaluation
    BY <1>w, <1>4 DEF DeleteLinks, WellFormed
  <2>1. Permits[r].enter = req[r].asked
    BY <1>w, <1>p, <2>0 DEF PermitOf, Entered
  <2>2. Shared' = {x \in Shared : ~(x[2] = req[r].ev /\ x[1] \in Permits[r].enter)}
    <3>1. \A g \in Group, e \in Evaluation :
             link'[g][e] = IF g \in req[r].asked /\ e = req[r].ev THEN 0 ELSE link[g][e]
      BY <1>4 DEF DeleteLinks, TypeInv, TypeOK
    <3>2. \A g \in Group, e \in Evaluation :
             link'[g][e] > 0 <=> link[g][e] > 0 /\ ~(e = req[r].ev /\ g \in req[r].asked)
      BY <3>1
    <3> QED
      BY <2>1, <3>2 DEF Shared, Linked
  <2>3. Access!TakeBack(r, req[r].ev)
    BY <1>4, <1>l, <2>2 DEF DeleteLinks, Access!TakeBack, world
  <2> QED
    BY <2>0, <2>3 DEF AccessStep, Access!ANext, Access!Write
<1> QED
  BY <1>1, <1>2, <1>3, <1>4

LEMMA AccessLinks ==
    ASSUME TypeInv, TypeInv', NEW r \in Req, NEW g \in Group,
           SelectLink(r, g) \/ InsertLink(r, g)
    PROVE  AccessStep
<1>w. /\ WellFormed(req[r]) /\ req[r] \in Request /\ req[r].pc = "link"
      /\ req[r].op \in {"create", "share"} /\ req[r].ev \in Evaluation
  BY DEF TypeInv, TypeOK, SelectLink, InsertLink, At, WellFormed
<1>t. req[r].add \in [Group -> {"no", "select", "insert"}]
  BY <1>w DEF Request
<1>p. /\ PermitOf(req[r]).actor = req[r].actor
      /\ PermitOf(req[r]).enter = {h \in Group : req[r].add[h] # "no"}
      /\ req[r].ev \in PermitOf(req[r]).manage \cup PermitOf(req[r]).read
  BY <1>w DEF PermitOf, Entered, Managed
<1>g. g \in PermitOf(req[r]).enter
  BY <1>p DEF SelectLink, InsertLink
<1>1. PICK x \in {"no", "insert"} :
         /\ Linking(r, [req[r].add EXCEPT ![g] = x])
         /\ InsertLink(r, g) => x = "no"
  BY DEF SelectLink, InsertLink
<1> DEFINE add == [req[r].add EXCEPT ![g] = x]
<1>2. Linking(r, add)
  BY <1>1
<1>3. /\ \A h \in Group : add[h] # "no" => req[r].add[h] # "no"
      /\ x = "no" => add[g] = "no"
  BY <1>t, <1>g, <1>p
<1> HIDE DEF add
<1>4. PICK q : /\ req' = [req EXCEPT ![r] = q]
               /\ \/ PermitOf(q) = Access!Nothing
                  \/ /\ PermitOf(q).actor = req[r].actor
                     /\ PermitOf(q).enter = {h \in Group : add[h] # "no"}
                     /\ PermitOf(q).manage = PermitOf(req[r]).manage
                     /\ PermitOf(q).read = PermitOf(req[r]).read
                     /\ PermitOf(q).untag = {}
  BY <1>w, <1>2, AccessLinking
<1>5. CASE UNCHANGED <<world, born, eval, tag, link>>
  <2>1. Access!Justified(PermitOf(q), PermitOf(req[r]))
    BY <1>3, <1>4, <1>p DEF Access!Justified, Access!Nothing
  <2> QED
    BY <1>4, <1>5, <2>1, DecideMoves
<1>6. CASE InsertLink(r, g) /\ Linkable(g, req[r].ev)
  <2> DEFINE p == [Permits[r] EXCEPT !.enter = Permits[r].enter \ {g}]
  <2>1. Permits[r] = PermitOf(req[r])
    BY DEF Permits
  <2>2. /\ p.actor = req[r].actor /\ p.enter = PermitOf(req[r]).enter \ {g}
        /\ p.manage = PermitOf(req[r]).manage /\ p.read = PermitOf(req[r]).read
    BY <2>1, <1>p DEF PermitOf
  <2> HIDE DEF p
  <2>3. Access!Within(PermitOf(q), p)
    BY <1>1, <1>3, <1>4, <1>6, <1>p, <2>2 DEF Access!Within, Access!Nothing
  <2>4. Access!Left(r, p)
    BY <1>4, <2>3, LeftMoves
  <2>5. Shared' = Shared \cup {<<g, req[r].ev>>}
    <3>1. link' = [link EXCEPT ![g][req[r].ev] = @ + 1]
      BY <1>6 DEF InsertLink
    <3>2. \A h \in Group, e \in Evaluation :
             link'[h][e] = IF h = g /\ e = req[r].ev THEN link[h][e] + 1 ELSE link[h][e]
      BY <1>w, <3>1 DEF TypeInv, TypeOK
    <3>3. \A h \in Group, e \in Evaluation :
             link'[h][e] > 0 <=> link[h][e] > 0 \/ (h = g /\ e = req[r].ev)
      BY <3>2 DEF TypeInv, TypeOK
    <3> QED
      BY <1>w, <3>3 DEF Shared, Linked
  <2>6. g \in groups /\ eval[req[r].ev] # None
    BY <1>6 DEF Linkable, Live
  <2>7. Access!Share(r, g, req[r].ev)
    BY <1>6, <1>g, <1>p, <2>1, <2>4, <2>5, <2>6 DEF InsertLink, Access!Share, world, p
  <2> QED
    BY <1>w, <2>7 DEF AccessStep, Access!ANext, Access!Write
<1> QED
  BY <1>5, <1>6 DEF SelectLink, InsertLink

LEMMA AccessWorld ==
    ASSUME TypeInv, TypeInv', ChangeRole \/ DestroyGroup \/ DeleteUser \/ Crash
    PROVE  AccessStep
<1>p. req' = req => Permits' = Permits
  BY DEF Permits
<1>s. link' = link => Shared' = Shared
  BY DEF Shared, Linked
<1>1. CASE ChangeRole
  <2>1. PICK g \in groups, u \in users \ Admin, x \in {"none", "member", "owner"} :
           role' = [role EXCEPT ![g][u] = x]
    BY <1>1 DEF ChangeRole
  <2>2. g \in Group /\ u \in User
    BY DEF TypeInv, TypeOK
  <2>3. Access!Meet(g, u)
    BY <1>1, <1>p, <1>s, <2>1 DEF ChangeRole, Access!Meet
  <2> QED
    BY <2>2, <2>3 DEF AccessStep, Access!ANext
<1>2. CASE DestroyGroup
  <2>1. PICK g \in groups : /\ groups' = groups \ {g}
                            /\ role' = [role EXCEPT ![g] = [u \in User |-> "none"]]
                            /\ link' = [link EXCEPT ![g] = [e \in Evaluation |-> 0]]
    BY <1>2 DEF DestroyGroup
  <2>2. g \in Group
    BY DEF TypeInv, TypeOK
  <2>3. Shared' = {x \in Shared : x[1] # g}
    <3>1. \A h \in Group, e \in Evaluation :
             link'[h][e] = IF h = g THEN 0 ELSE link[h][e]
      BY <2>1 DEF TypeInv, TypeOK
    <3>2. \A h \in Group, e \in Evaluation : link'[h][e] > 0 <=> link[h][e] > 0 /\ h # g
      BY <3>1
    <3> QED
      BY <3>2 DEF Shared, Linked
  <2>4. Access!Dissolve(g)
    BY <1>2, <1>p, <2>1, <2>3 DEF DestroyGroup, Access!Dissolve
  <2> QED
    BY <2>2, <2>4 DEF AccessStep, Access!ANext
<1>3. CASE DeleteUser
  <2>1. PICK u \in users :
           /\ users' = users \ {u}
           /\ role' = [g \in Group |-> [role[g] EXCEPT ![u] = "none"]]
           /\ eval' = [e \in Evaluation |->
                          IF Live(e) /\ eval[e].owner = u
                          THEN [eval[e] EXCEPT !.owner = None] ELSE eval[e]]
    BY <1>3 DEF DeleteUser
  <2>2. u \in User
    BY DEF TypeInv, TypeOK
  <2>3. eval' = [e \in Evaluation |->
                   IF eval[e] # None /\ eval[e].owner = u
                   THEN [eval[e] EXCEPT !.owner = None] ELSE eval[e]]
    BY <2>1 DEF Live
  <2>4. Access!Leave(u)
    BY <1>3, <1>p, <1>s, <2>1, <2>3 DEF DeleteUser, Access!Leave
  <2> QED
    BY <2>2, <2>4 DEF AccessStep, Access!ANext
<1>4. CASE Crash
  <2>1. Permits' = [r \in Req |-> Access!Nothing]
    BY <1>4, PermitOfIdle DEF Crash, Permits
  <2>2. Access!Restart
    BY <1>4, <1>s, <2>1 DEF Crash, Access!Restart, Access!data, world
  <2> QED
    BY <2>2 DEF AccessStep, Access!ANext
<1> QED
  BY <1>1, <1>2, <1>3, <1>4

LEMMA AccessNext ==
    ASSUME TypeInv, TypeInv', [Next]_vars
    PROVE  AccessStep
<1>1. ASSUME NEW r \in Req, Receive(r) \/ Proceed(r) PROVE AccessStep
  BY <1>1, AccessReceive, AccessLoadGroups, AccessLoadEvaluation, AccessReload,
     AccessInsertEvaluation, AccessInsertTag, AccessWrites, AccessLinks DEF Proceed
<1>2. CASE UNCHANGED vars
  BY <1>2 DEF vars, world, AccessStep, Access!avars, Permits, Shared, Linked
<1> QED
  BY <1>1, <1>2, AccessWorld DEF Next

(* Every behaviour of the handlers is one of EvaluationAccess: whatever    *)
(* they write, however late, is of a request that was let through to it.   *)
THEOREM EvaluationsImplementAccess == Spec => ImplementsAccess
<1>1. Init => TypeInv /\ Access!AInit
  BY TypeInit, AccessInit
<1>2. TypeInv /\ [Next]_vars => TypeInv'
  BY TypeStep
<1>3. TypeInv /\ TypeInv' /\ [Next]_vars => [Access!ANext]_(Access!avars)
  BY AccessNext DEF AccessStep
<1> QED
  BY <1>1, <1>2, <1>3, PTL DEF Spec, ImplementsAccess, Access!ASpec
=============================================================================
