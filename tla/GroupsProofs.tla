---------------------------- MODULE GroupsProofs ----------------------------
(***************************************************************************)
(* Proofs about Groups, for every set of accounts, groups and requests.    *)
(***************************************************************************)
EXTENDS Groups, FiniteSetTheorems, TLAPS

(* What a request under way holds: the fields its next statement uses.     *)
WellFormed(q) ==
    q.pc # "idle" =>
       /\ q.actor \in User
       /\ q.op # "none"
       /\ q.op \in {"create", "add", "remove"} => q.target \in User
       /\ q.op \in {"create", "add"} => q.role \in Role
       /\ q.pc = "insert" => q.op = "create"
       /\ q.pc # "insert" => q.grp \in Group
       /\ q.pc \in {"find", "select"} => q.op # "destroy"

TypeInv == TypeOK /\ \A r \in Req : WellFormed(req[r])

LEMMA IdleIsRequest == Idle \in Request /\ WellFormed(Idle)
  BY DEF Idle, New, Request, WellFormed, Nothing

LEMMA TypeInit == Init => TypeInv
  BY IdleIsRequest DEF Init, TypeInv, TypeOK, NoRows, Role

(* A step that replaces the record of one request by a well-formed one.    *)
LEMMA OneRequest ==
    ASSUME TypeInv, NEW r \in Req, NEW q \in Request, WellFormed(q),
           req' = [req EXCEPT ![r] = q]
    PROVE  /\ req' \in [Req -> Request]
           /\ \A s \in Req : WellFormed(req'[s])
  BY DEF TypeInv, TypeOK

LEMMA TypeReceive ==
    ASSUME TypeInv, NEW r \in Req, Receive(r) PROVE TypeInv'
<1>1. PICK u \in users, g \in Group, v \in User, x \in Role :
          \E q \in Asks(u, g, v, x) : req' = [req EXCEPT ![r] = q]
  BY DEF Receive
<1>2. u \in User
  BY DEF TypeInv, TypeOK
<1>3. ASSUME NEW q \in Asks(u, g, v, x) PROVE q \in Request /\ WellFormed(q)
  BY <1>2 DEF Asks, New, Request, WellFormed, Nothing, Role
<1>4. req' \in [Req -> Request] /\ \A s \in Req : WellFormed(req'[s])
  BY <1>1, <1>3, OneRequest
<1> QED
  BY <1>4 DEF Receive, TypeInv, TypeOK

LEMMA TypeProceed ==
    ASSUME TypeInv, NEW r \in Req, Proceed(r) PROVE TypeInv'
<1> USE DEF TypeInv, TypeOK
<1> DEFINE Moves == \E q \in Request : WellFormed(q) /\ req' = [req EXCEPT ![r] = q]
<1>d. ASSUME Done(r) PROVE Moves
  BY <1>d, IdleIsRequest DEF Done
<1>w. WellFormed(req[r]) /\ req[r] \in Request
  OBVIOUS
<1>1. CASE InsertGroup(r)
  <2>1. PICK g \in Group : /\ group' = [group EXCEPT ![g] = "live"]
                           /\ req' = [req EXCEPT ![r] = [req[r] EXCEPT !.pc = "select", !.grp = g]]
    BY <1>1 DEF InsertGroup
  <2>2. [req[r] EXCEPT !.pc = "select", !.grp = g] \in Request
    BY <1>w DEF Request
  <2>3. WellFormed([req[r] EXCEPT !.pc = "select", !.grp = g])
    BY <1>w, <1>1 DEF WellFormed, Request, InsertGroup, At
  <2>4. req' \in [Req -> Request] /\ \A s \in Req : WellFormed(req'[s])
    BY <2>1, <2>2, <2>3, OneRequest
  <2> QED
    BY <1>1, <2>1, <2>4 DEF InsertGroup
<1>2. CASE LoadGroup(r)
  <2>1. CASE Done(r)
    BY <1>2, <2>1, <1>d, OneRequest DEF LoadGroup
  <2>2. CASE Goto(r, IF req[r].op = "destroy" THEN "write" ELSE "find")
    <3> DEFINE q == [req[r] EXCEPT !.pc = IF req[r].op = "destroy" THEN "write" ELSE "find"]
    <3>1. q \in Request /\ req' = [req EXCEPT ![r] = q]
      BY <2>2, <1>w DEF Goto, Request
    <3>2. WellFormed(q)
      BY <1>w, <1>2 DEF LoadGroup, At, WellFormed, Request
    <3> HIDE DEF q
    <3> QED
      BY <3>1, <3>2, <1>2, OneRequest DEF LoadGroup
  <2> QED
    BY <1>2, <2>1, <2>2 DEF LoadGroup
<1>3. CASE FindTarget(r)
  <2>1. CASE Done(r)
    BY <1>3, <2>1, <1>d, OneRequest DEF FindTarget
  <2>2. CASE Goto(r, "select")
    <3> DEFINE q == [req[r] EXCEPT !.pc = "select"]
    <3>1. q \in Request /\ req' = [req EXCEPT ![r] = q]
      BY <2>2, <1>w DEF Goto, Request
    <3>2. WellFormed(q)
      BY <1>w, <1>3 DEF FindTarget, At, WellFormed, Request
    <3> HIDE DEF q
    <3> QED
      BY <3>1, <3>2, <1>3, OneRequest DEF FindTarget
  <2> QED
    BY <1>3, <2>1, <2>2 DEF FindTarget
<1>4. CASE SelectOwners(r)
  <2>0. OwnerRows(req[r].grp) \in [User -> Nat]
    BY <1>w, <1>4 DEF SelectOwners, At, WellFormed, OwnerRows, Role
  <2>1. CASE Done(r)
    BY <1>4, <2>1, <1>d, OneRequest DEF SelectOwners
  <2>2. CASE ~Done(r)
    <3> DEFINE q == [req[r] EXCEPT !.pc = "write", !.seen = OwnerRows(req[r].grp)]
    <3>1. q \in Request /\ req' = [req EXCEPT ![r] = q]
      BY <1>4, <2>2, <2>0, <1>w DEF SelectOwners, Request
    <3>2. WellFormed(q)
      BY <1>w, <1>4 DEF SelectOwners, At, WellFormed, Request
    <3> HIDE DEF q
    <3> QED
      BY <3>1, <3>2, <1>4, OneRequest DEF SelectOwners
  <2> QED
    BY <2>1, <2>2
<1>5. CASE SelectMembership(r)
  <2> DEFINE n == [Nothing EXCEPT ![req[r].target] = Rows(req[r].grp, req[r].target)]
             q == [req[r] EXCEPT !.pc = "write", !.seen = n]
  <2>0. n \in [User -> Nat]
    BY <1>w, <1>5 DEF SelectMembership, At, WellFormed, Rows, Role, Nothing
  <2>1. q \in Request /\ req' = [req EXCEPT ![r] = q]
    BY <1>5, <2>0, <1>w DEF SelectMembership, Request
  <2>2. WellFormed(q)
    BY <1>w, <1>5 DEF SelectMembership, At, WellFormed, Request
  <2> HIDE DEF q
  <2> QED
    BY <2>1, <2>2, <1>5, OneRequest DEF SelectMembership
<1>6. CASE InsertMembership(r)
  <2>1. rows' \in [Group -> [User -> [Role -> Nat]]]
    BY <1>6, <1>w DEF InsertMembership, WellFormed, At, Role
  <2> QED
    BY <1>6, <1>d, <2>1, OneRequest DEF InsertMembership
<1>7. CASE UpdateMembership(r)
  <2>0. Rows(req[r].grp, req[r].target) \in Nat
    BY <1>7, <1>w DEF UpdateMembership, WellFormed, At, Role, Rows
  <2>1. rows' \in [Group -> [User -> [Role -> Nat]]]
    BY <1>7, <1>w, <2>0 DEF UpdateMembership, WellFormed, At, Role, NoRows
  <2> QED
    BY <1>7, <1>d, <2>1, OneRequest DEF UpdateMembership
<1>8. CASE DeleteMembership(r)
  <2>1. rows' \in [Group -> [User -> [Role -> Nat]]]
    BY <1>8, <1>w DEF DeleteMembership, WellFormed, At, Role, NoRows
  <2> QED
    BY <1>8, <1>d, <2>1, OneRequest DEF DeleteMembership
<1>9. CASE DestroyGroup(r)
  <2>1. rows' \in [Group -> [User -> [Role -> Nat]]]
    BY <1>9, <1>w DEF DestroyGroup, WellFormed, At, Role, NoRows
  <2> QED
    BY <1>9, <1>d, <2>1, OneRequest DEF DestroyGroup
<1> QED
  BY <1>1, <1>2, <1>3, <1>4, <1>5, <1>6, <1>7, <1>8, <1>9 DEF Proceed

LEMMA TypeStep ==
    ASSUME TypeInv, [Next]_vars PROVE TypeInv'
<1>1. CASE \E r \in Req : Receive(r) \/ Proceed(r)
  BY <1>1, TypeReceive, TypeProceed
<1>2. ASSUME NEW u \in User, DeleteUser(u) PROVE TypeInv'
  BY <1>2 DEF TypeInv, TypeOK, DeleteUser, NoRows, Role
<1>3. CASE Crash
  BY <1>3, IdleIsRequest DEF TypeInv, TypeOK, Crash
<1>4. CASE UNCHANGED vars
  BY <1>4 DEF TypeInv, TypeOK, vars
<1> QED
  BY <1>1, <1>2, <1>3, <1>4 DEF Next

(* Every variable keeps its type, and every request under way holds what   *)
(* its next statement needs.                                               *)
THEOREM TypeCorrect == Spec => []TypeOK
<1>1. Init => TypeInv
  BY TypeInit
<1>2. TypeInv /\ [Next]_vars => TypeInv'
  BY TypeStep
<1>3. TypeInv => TypeOK
  BY DEF TypeInv
<1> QED
  BY <1>1, <1>2, <1>3, PTL DEF Spec

-----------------------------------------------------------------------------

(* The steps that write GroupUsers; every other step leaves it alone.      *)
LEMMA Writers ==
    ASSUME [Next]_vars, rows' # rows
    PROVE  \/ \E r \in Req : \/ InsertMembership(r) \/ UpdateMembership(r)
                             \/ DeleteMembership(r) \/ DestroyGroup(r)
           \/ \E u \in User : DeleteUser(u)
  BY DEF Next, vars, Receive, Proceed, InsertGroup, LoadGroup, FindTarget,
         SelectOwners, SelectMembership, Crash

(* The steps that end the life of an account or a group.                   *)
LEMMA Enders ==
    ASSUME TypeInv, [Next]_vars
    PROVE  /\ users' # users => \E u \in User : DeleteUser(u)
           /\ \A g \in Group : group[g] = "live" /\ group'[g] # "live"
                => \E r \in Req : DestroyGroup(r) /\ req[r].grp = g
<1>1. users' # users => \E u \in User : DeleteUser(u)
  BY DEF Next, vars, Receive, Proceed, InsertGroup, LoadGroup, FindTarget,
         SelectOwners, SelectMembership, InsertMembership, UpdateMembership,
         DeleteMembership, DestroyGroup, Crash
<1>2. group' # group => \E r \in Req : InsertGroup(r) \/ DestroyGroup(r)
  BY DEF Next, vars, Receive, Proceed, LoadGroup, FindTarget, SelectOwners,
         SelectMembership, InsertMembership, UpdateMembership,
         DeleteMembership, DeleteUser, Crash
<1>3. ASSUME NEW g \in Group, group[g] = "live", group'[g] # "live"
      PROVE  \E r \in Req : DestroyGroup(r) /\ req[r].grp = g
  <2>1. PICK r \in Req : InsertGroup(r) \/ DestroyGroup(r)
    BY <1>2, <1>3
  <2>2. ~InsertGroup(r)
    BY <1>3 DEF InsertGroup, TypeInv, TypeOK
  <2> QED
    BY <1>3, <2>1, <2>2 DEF DestroyGroup, TypeInv, TypeOK
<1> QED
  BY <1>1, <1>3

(* The row counts of a pair after each write.                              *)
LEMMA RowsAfter ==
    ASSUME TypeInv, NEW g \in Group, NEW u \in User, NEW r \in Req
    PROVE  /\ InsertMembership(r) =>
                Rows(g, u)' = IF req[r].grp = g /\ req[r].target = u /\ Linkable(g, u)
                              THEN Rows(g, u) + 1 ELSE Rows(g, u)
           /\ UpdateMembership(r) => Rows(g, u)' = Rows(g, u)
           /\ DeleteMembership(r) =>
                Rows(g, u)' = IF req[r].grp = g /\ req[r].target = u
                              THEN 0 ELSE Rows(g, u)
           /\ DestroyGroup(r) =>
                Rows(g, u)' = IF req[r].grp = g THEN 0 ELSE Rows(g, u)
<1> DEFINE h == req[r].grp
           v == req[r].target
<1>t. rows \in [Group -> [User -> [Role -> Nat]]]
  BY DEF TypeInv, TypeOK
<1>u. At(r, "write") => h \in Group
  BY DEF TypeInv, WellFormed, At
<1>v. At(r, "write") /\ req[r].op \in {"create", "add", "remove"} => v \in User
  BY DEF TypeInv, WellFormed, At
<1>x. At(r, "write") /\ req[r].op \in {"create", "add"} => req[r].role \in Role
  BY DEF TypeInv, WellFormed, At
<1>n. /\ rows[g][u]["owner"] \in Nat /\ rows[g][u]["member"] \in Nat
  BY <1>t DEF Role
<1>1. ASSUME InsertMembership(r)
      PROVE  Rows(g, u)' = IF h = g /\ v = u /\ Linkable(g, u)
                           THEN Rows(g, u) + 1 ELSE Rows(g, u)
  <2>1. CASE ~Linkable(h, v)
    BY <1>1, <2>1 DEF InsertMembership, Rows
  <2>2. CASE Linkable(h, v)
    <3>1. rows' = [rows EXCEPT ![h][v][req[r].role] = @ + 1]
      BY <1>1, <2>2 DEF InsertMembership
    <3>2. h \in Group /\ v \in User /\ req[r].role \in {"owner", "member"}
      BY <1>1, <1>u, <1>v, <1>x DEF InsertMembership, Role
    <3>3. CASE h = g /\ v = u
      BY <3>1, <3>2, <3>3, <2>2, <1>t, <1>n DEF Rows, Role
    <3>4. CASE ~(h = g /\ v = u)
      <4>1. rows'[g][u] = rows[g][u]
        BY <3>1, <3>2, <3>4, <1>t
      <4> QED
        BY <4>1, <3>4 DEF Rows
    <3> QED
      BY <3>3, <3>4
  <2> QED
    BY <2>1, <2>2
<1>2. ASSUME UpdateMembership(r) PROVE Rows(g, u)' = Rows(g, u)
  <2>1. rows' = [rows EXCEPT ![h][v] = [NoRows EXCEPT ![req[r].role] = Rows(h, v)]]
    BY <1>2 DEF UpdateMembership
  <2>2. h \in Group /\ v \in User /\ req[r].role \in {"owner", "member"}
    BY <1>2, <1>u, <1>v, <1>x DEF UpdateMembership, Role
  <2>3. CASE h = g /\ v = u
    <3>1. rows'[g][u] = [NoRows EXCEPT ![req[r].role] = Rows(g, u)]
      BY <2>1, <2>3, <1>t
    <3> QED
      BY <3>1, <2>2, <1>n DEF Rows, NoRows, Role
  <2>4. CASE ~(h = g /\ v = u)
    <3>1. rows'[g][u] = rows[g][u]
      BY <2>1, <2>2, <2>4, <1>t
    <3> QED
      BY <3>1 DEF Rows
  <2> QED
    BY <2>3, <2>4
<1>3. ASSUME DeleteMembership(r)
      PROVE  Rows(g, u)' = IF h = g /\ v = u THEN 0 ELSE Rows(g, u)
  <2>1. rows' = [rows EXCEPT ![h][v] = NoRows] /\ h \in Group /\ v \in User
    BY <1>3, <1>u, <1>v DEF DeleteMembership
  <2> QED
    BY <2>1, <1>t DEF Rows, NoRows, Role
<1>4. ASSUME DestroyGroup(r)
      PROVE  Rows(g, u)' = IF h = g THEN 0 ELSE Rows(g, u)
  <2>1. rows' = [rows EXCEPT ![h] = [w \in User |-> NoRows]] /\ h \in Group
    BY <1>4, <1>u DEF DestroyGroup
  <2> QED
    BY <2>1, <1>t DEF Rows, NoRows, Role
<1> QED
  BY <1>1, <1>2, <1>3, <1>4

LEMMA RowsAfterDeleteUser ==
    ASSUME TypeInv, NEW g \in Group, NEW u \in User, NEW v \in User, DeleteUser(v)
    PROVE  Rows(g, u)' = IF u = v THEN 0 ELSE Rows(g, u)
  BY DEF TypeInv, TypeOK, DeleteUser, Rows, NoRows, Role

LEMMA NoDanglingStep ==
    ASSUME TypeInv, NoDanglingRows, [Next]_vars PROVE NoDanglingRows'
<1> SUFFICES ASSUME NEW g \in Group, NEW u \in User, (Rows(g, u) > 0)'
             PROVE  (u \in users /\ group[g] = "live")'
  BY DEF NoDanglingRows
<1>n. Rows(g, u) \in Nat
  BY DEF TypeInv, TypeOK, Rows, Role
<1>p. Rows(g, u)' > 0
  OBVIOUS
<1>1. ASSUME NEW v \in User, DeleteUser(v) PROVE u \in users' /\ group'[g] = "live"
  <2>1. u # v /\ Rows(g, u)' = Rows(g, u)
    BY <1>1, <1>p, RowsAfterDeleteUser
  <2> QED
    BY <1>1, <1>p, <2>1 DEF NoDanglingRows, DeleteUser
<1>2. ASSUME NEW r \in Req, DestroyGroup(r) PROVE u \in users' /\ group'[g] = "live"
  <2>1. req[r].grp # g /\ Rows(g, u)' = Rows(g, u)
    BY <1>2, <1>p, RowsAfter
  <2> QED
    BY <1>2, <1>p, <2>1 DEF NoDanglingRows, DestroyGroup, TypeInv, TypeOK
<1>3. ASSUME NEW r \in Req, InsertMembership(r) PROVE u \in users' /\ group'[g] = "live"
  BY <1>3, <1>n, RowsAfter DEF NoDanglingRows, InsertMembership, Linkable
<1>4. ASSUME NEW r \in Req, UpdateMembership(r) PROVE u \in users' /\ group'[g] = "live"
  BY <1>4, <1>n, RowsAfter DEF NoDanglingRows, UpdateMembership
<1>5. ASSUME NEW r \in Req, DeleteMembership(r) PROVE u \in users' /\ group'[g] = "live"
  <2>1. Rows(g, u)' = Rows(g, u)
    BY <1>5, <1>p, RowsAfter
  <2> QED
    BY <1>5, <1>p, <2>1 DEF NoDanglingRows, DeleteMembership
<1>6. CASE rows' = rows
  <2>1. u \in users /\ group[g] = "live"
    BY <1>6 DEF NoDanglingRows, Rows
  <2> QED
    BY <2>1, <1>1, <1>2, Enders
<1> QED
  BY <1>1, <1>2, <1>3, <1>4, <1>5, <1>6, Writers

(* No write, however late, links an account or a group that is gone.       *)
THEOREM NothingDangles == Spec => []NoDanglingRows
<1>1. Init => TypeInv /\ NoDanglingRows
  BY TypeInit DEF Init, NoDanglingRows, Rows, NoRows, Role
<1>2. TypeInv /\ NoDanglingRows /\ [Next]_vars => TypeInv' /\ NoDanglingRows'
  BY TypeStep, NoDanglingStep
<1> QED
  BY <1>1, <1>2, PTL DEF Spec

-----------------------------------------------------------------------------

(* How a request comes to be authorised for a group.                       *)
LEMMA AuthorisedStep ==
    ASSUME TypeInv, [Next]_vars, NEW s \in Req, NEW g \in Group, Authorised(s, g)'
    PROVE  /\ req'[s].actor = req[s].actor
           /\ \/ Authorised(s, g)
              \/ LoadGroup(s) /\ group[g] = "live" /\ MayManage(req[s].actor, g)
              \/ InsertGroup(s) /\ group[g] = "unborn"
<1> DEFINE Goal == /\ req'[s].actor = req[s].actor
                   /\ \/ Authorised(s, g)
                      \/ LoadGroup(s) /\ group[g] = "live" /\ MayManage(req[s].actor, g)
                      \/ InsertGroup(s) /\ group[g] = "unborn"
<1>a. req'[s].grp = g /\ req'[s].pc \in {"find", "select", "write"}
  BY DEF Authorised, At
<1>t. req \in [Req -> Request]
  BY DEF TypeInv, TypeOK
<1>0. CASE req' = req
  BY <1>0 DEF Authorised, At
<1>1. ASSUME NEW r \in Req, r # s,
             \/ Receive(r) \/ Proceed(r)
      PROVE  Goal
  <2>1. \E q : req' = [req EXCEPT ![r] = q]
    BY <1>1 DEF Receive, Proceed, InsertGroup, LoadGroup, FindTarget, SelectOwners,
         SelectMembership, InsertMembership, UpdateMembership, DeleteMembership,
         DestroyGroup, Done, Goto
  <2>2. req'[s] = req[s]
    BY <2>1, <1>1, <1>t
  <2> QED
    BY <2>2, <1>a DEF Authorised, At
<1>2. ~Receive(s)
  <2>1. ASSUME NEW u \in users, NEW g1 \in Group, NEW v \in User, NEW x \in Role,
               NEW q \in Asks(u, g1, v, x)
        PROVE  q.pc \in {"load", "insert"}
    BY DEF Asks, New
  <2>2. Receive(s) => req'[s].pc \in {"load", "insert"}
    BY <2>1, <1>t DEF Receive
  <2> QED
    BY <2>2, <1>a
<1>3. ~Done(s)
  BY <1>a, <1>t DEF Done, Idle, New
<1>4. CASE InsertGroup(s)
  <2>1. PICK h \in Group : /\ group[h] = "unborn"
                           /\ req' = [req EXCEPT ![s].pc = "select", ![s].grp = h]
    BY <1>4 DEF InsertGroup
  <2>2. req'[s].grp = h /\ req'[s].actor = req[s].actor
    BY <2>1, <1>t DEF Request
  <2> QED
    BY <1>4, <1>a, <2>1, <2>2
<1>5. CASE LoadGroup(s)
  <2>1. PICK pc \in {"write", "find"} : Goto(s, pc)
    BY <1>5, <1>3 DEF LoadGroup
  <2>2. req'[s].grp = req[s].grp /\ req'[s].actor = req[s].actor
    BY <2>1, <1>t DEF Goto, Request
  <2>3. group[req[s].grp] = "live" /\ MayManage(req[s].actor, req[s].grp)
    BY <1>5, <1>3 DEF LoadGroup
  <2> QED
    BY <1>5, <1>a, <2>2, <2>3
<1>6. CASE FindTarget(s) \/ SelectOwners(s) \/ SelectMembership(s)
  <2>1. At(s, "find") \/ At(s, "select")
    BY <1>6 DEF FindTarget, SelectOwners, SelectMembership
  <2>2. req'[s].grp = req[s].grp /\ req'[s].actor = req[s].actor
    BY <1>6, <1>3, <1>t DEF FindTarget, SelectOwners, SelectMembership, Goto, Request
  <2> QED
    BY <1>a, <2>1, <2>2 DEF Authorised
<1>7. ~ \/ InsertMembership(s) \/ UpdateMembership(s) \/ DeleteMembership(s)
        \/ DestroyGroup(s)
  BY <1>3 DEF InsertMembership, UpdateMembership, DeleteMembership, DestroyGroup
<1>8. ASSUME NEW u \in User, DeleteUser(u) PROVE Goal
  BY <1>8, <1>0 DEF DeleteUser
<1>9. ~Crash
  BY <1>a DEF Crash, Idle, New
<1> QED
  BY <1>0, <1>1, <1>2, <1>4, <1>5, <1>6, <1>7, <1>8, <1>9 DEF Next, vars, Proceed

(* A write that gives an account the owner role is an authorised one.      *)
LEMMA OwnerGained ==
    ASSUME TypeInv, [Next]_vars, NEW g \in Group, ~HasOwner(g), HasOwner(g)'
    PROVE  \E r \in Req : /\ Authorised(r, g) /\ At(r, "write")
                          /\ req'[r].pc = "idle"
<1>t. req \in [Req -> Request] /\ rows \in [Group -> [User -> [Role -> Nat]]]
  BY DEF TypeInv, TypeOK
<1>1. PICK u \in User : rows'[g][u]["owner"] > 0
  BY DEF HasOwner
<1>2. rows[g][u]["owner"] = 0
  BY <1>t DEF HasOwner, Role
<1>3. ASSUME NEW v \in User, DeleteUser(v) PROVE FALSE
  BY <1>1, <1>2, <1>3, <1>t DEF DeleteUser, NoRows, Role
<1>4. ASSUME NEW r \in Req, DeleteMembership(r) PROVE FALSE
  BY <1>1, <1>2, <1>4, <1>t DEF DeleteMembership, NoRows, Role
<1>5. ASSUME NEW r \in Req, DestroyGroup(r) PROVE FALSE
  BY <1>1, <1>2, <1>5, <1>t DEF DestroyGroup, NoRows, Role
<1>6. ASSUME NEW r \in Req, InsertMembership(r) \/ UpdateMembership(r)
      PROVE  Authorised(r, g) /\ At(r, "write") /\ req'[r].pc = "idle"
  <2>1. At(r, "write") /\ Done(r)
    BY <1>6 DEF InsertMembership, UpdateMembership
  <2>2. \A h \in Group : h # req[r].grp => rows'[h] = rows[h]
    BY <1>6, <1>t DEF InsertMembership, UpdateMembership
  <2>3. req[r].grp = g
    BY <1>1, <1>2, <2>2
  <2> QED
    BY <2>1, <2>3, <1>t DEF Authorised, Done, Idle, New
<1>7. rows' # rows
  BY <1>1, <1>2
<1> QED
  BY <1>3, <1>4, <1>5, <1>6, <1>7, Writers

LEMMA OrphanStep ==
    ASSUME TypeInv, [Next]_vars, NEW g \in Group, Orphaned(g)
    PROVE  \/ Orphaned(g)'
           \/ \E r \in Req : /\ Authorised(r, g) /\ At(r, "write")
                             /\ req[r].actor \in Admin /\ req'[r].pc = "idle"
<1>t. req \in [Req -> Request] /\ rows \in [Group -> [User -> [Role -> Nat]]]
  BY DEF TypeInv, TypeOK
<1> DEFINE ByAdmin == \E r \in Req : /\ Authorised(r, g) /\ At(r, "write")
                                     /\ req[r].actor \in Admin /\ req'[r].pc = "idle"
<1>1. CASE group'[g] # "live"
  <2>1. PICK r \in Req : DestroyGroup(r) /\ req[r].grp = g
    BY <1>1, Enders DEF Orphaned
  <2> QED
    BY <2>1, <1>t DEF DestroyGroup, Authorised, Orphaned, Done, Idle, New
<1>2. CASE HasOwner(g)'
  BY <1>2, OwnerGained DEF Orphaned
<1>3. ASSUME NEW s \in Req, Authorised(s, g)' PROVE req'[s].actor \in Admin
  <2>1. CASE Authorised(s, g)
    BY <2>1, <1>3, AuthorisedStep DEF Orphaned
  <2>2. CASE MayManage(req[s].actor, g)
    BY <2>2, <1>3, AuthorisedStep, <1>t DEF Orphaned, MayManage, HasOwner, WellFormed,
       TypeInv, LoadGroup, At
  <2> QED
    BY <2>1, <2>2, <1>3, AuthorisedStep DEF Orphaned
<1> QED
  BY <1>1, <1>2, <1>3 DEF Orphaned

(* A live group without an owner comes back into someone's hands only by a *)
(* write an administrator was authorised for.                              *)
THEOREM OrphansAreSafe == Spec => OrphanNeedsAdmin
<1>1. Init => TypeInv
  BY TypeInit
<1>2. TypeInv /\ [Next]_vars => TypeInv'
  BY TypeStep
<1>3. TypeInv /\ [Next]_vars =>
        [\A g \in Group :
          Orphaned(g) =>
             \/ Orphaned(g)'
             \/ \E r \in Req : /\ Authorised(r, g) /\ At(r, "write")
                               /\ req[r].actor \in Admin
                               /\ req'[r].pc = "idle"]_vars
  BY OrphanStep
<1> QED
  BY <1>1, <1>2, <1>3, PTL DEF Spec, OrphanNeedsAdmin

-----------------------------------------------------------------------------

(* What a removal that got past its check knows of the owners it counted.  *)
RemovalChecked ==
    \A r \in Req :
        At(r, "write") /\ req[r].op = "remove" =>
            ~(FewerThanTwo(req[r].seen) /\ req[r].seen[req[r].target] > 0)

LEMMA RemovalCheckedStep ==
    ASSUME TypeInv, RemovalChecked, [Next]_vars PROVE RemovalChecked'
<1> SUFFICES ASSUME NEW s \in Req, req'[s].pc = "write", req'[s].op = "remove"
             PROVE  ~(FewerThanTwo(req'[s].seen) /\ req'[s].seen[req'[s].target] > 0)
  BY DEF RemovalChecked, FewerThanTwo, At
<1>t. req \in [Req -> Request]
  BY DEF TypeInv, TypeOK
<1>0. CASE req'[s] = req[s]
  BY <1>0 DEF RemovalChecked, At
<1>1. CASE req'[s] # req[s]
  <2>1. ASSUME NEW r \in Req, r # s, Receive(r) \/ Proceed(r) PROVE FALSE
    <3>1. \E q : req' = [req EXCEPT ![r] = q]
      BY <2>1 DEF Receive, Proceed, InsertGroup, LoadGroup, FindTarget, SelectOwners,
           SelectMembership, InsertMembership, UpdateMembership, DeleteMembership,
           DestroyGroup, Done, Goto
    <3> QED
      BY <3>1, <2>1, <1>1, <1>t
  <2>2. ~Done(s) /\ ~Crash
    BY <1>t DEF Done, Crash, Idle, New
  <2>3. ~Receive(s)
    <3>1. ASSUME NEW u \in users, NEW g \in Group, NEW v \in User, NEW x \in Role,
                 NEW q \in Asks(u, g, v, x)
          PROVE  q.pc # "write"
      BY DEF Asks, New
    <3> QED
      BY <3>1, <1>t DEF Receive
  <2>4. ~InsertGroup(s) /\ ~FindTarget(s) /\ ~SelectMembership(s)
    <3>1. ~InsertGroup(s) /\ ~FindTarget(s)
      BY <1>t, <2>2 DEF InsertGroup, FindTarget, Goto, Request
    <3>2. ~SelectMembership(s)
      BY <1>t DEF SelectMembership, Request
    <3> QED BY <3>1, <3>2
  <2>5. ~LoadGroup(s)
    <3>1. LoadGroup(s) => Goto(s, IF req[s].op = "destroy" THEN "write" ELSE "find")
      BY <2>2 DEF LoadGroup
    <3> QED
      BY <3>1, <1>t DEF Goto, Request
  <2>6. CASE SelectOwners(s)
    <3> DEFINE owners == OwnerRows(req[s].grp)
    <3>1. /\ req' = [req EXCEPT ![s].pc = "write", ![s].seen = owners]
          /\ ~(FewerThanTwo(owners) /\ owners[req[s].target] > 0)
      BY <2>2, <2>6 DEF SelectOwners
    <3>2. req'[s].seen = owners /\ req'[s].target = req[s].target
      BY <3>1, <1>t DEF Request
    <3> HIDE DEF owners
    <3> QED
      BY <3>1, <3>2
  <2>7. SelectOwners(s)
    BY <1>1, <2>1, <2>2, <2>3, <2>4, <2>5
       DEF Next, vars, Proceed, InsertMembership, UpdateMembership,
           DeleteMembership, DestroyGroup, DeleteUser
  <2> QED
    BY <2>6, <2>7
<1> QED
  BY <1>0, <1>1

LEMMA FreshRemovalStep ==
    ASSUME TypeInv, RemovalChecked, NEW r \in Req, NEW g \in Group,
           DeleteMembership(r), req[r].grp = g, HasOwner(g),
           req[r].seen = OwnerRows(g), \A u \in User : req[r].seen[u] < 2
    PROVE  HasOwner(g)'
<1> DEFINE v == req[r].target
<1>1. v \in User /\ rows \in [Group -> [User -> [Role -> Nat]]]
  BY DEF TypeInv, TypeOK, WellFormed, DeleteMembership, At
<1>2. PICK u \in User : rows[g][u]["owner"] > 0 /\ u # v
  <2>1. PICK u \in User : rows[g][u]["owner"] > 0
    BY DEF HasOwner
  <2>2. CASE u = v
    <3>1. req[r].seen[v] > 0
      BY <1>1, <2>1, <2>2 DEF OwnerRows
    <3>2. ~FewerThanTwo(req[r].seen)
      BY <3>1 DEF RemovalChecked, DeleteMembership
    <3>3. PICK a, b \in User : req[r].seen[a] > 0 /\ req[r].seen[b] > 0 /\ a # b
      BY <3>2 DEF FewerThanTwo
    <3>4. rows[g][a]["owner"] > 0 /\ rows[g][b]["owner"] > 0
      BY <3>3 DEF OwnerRows
    <3> QED
      BY <3>3, <3>4
  <2> QED
    BY <2>1, <2>2
<1>3. rows' = [rows EXCEPT ![g][v] = NoRows]
  BY DEF DeleteMembership
<1>4. rows'[g][u] = rows[g][u]
  BY <1>1, <1>2, <1>3
<1> QED
  BY <1>2, <1>4 DEF HasOwner

(* The owner check of a removal is right whenever its answer is current.   *)
THEOREM FreshRemovalsKeepOwner == Spec => FreshRemovalKeepsOwner
<1>1. Init => TypeInv /\ RemovalChecked
  BY TypeInit DEF Init, RemovalChecked, At, Idle, New
<1>2. TypeInv /\ RemovalChecked /\ [Next]_vars => TypeInv' /\ RemovalChecked'
  BY TypeStep, RemovalCheckedStep
<1>3. TypeInv /\ RemovalChecked /\ [Next]_vars =>
        [\A r \in Req, g \in Group :
          /\ DeleteMembership(r) /\ req[r].grp = g /\ HasOwner(g)
          /\ req[r].seen = OwnerRows(g)
          /\ \A u \in User : req[r].seen[u] < 2
          => HasOwner(g)']_vars
  BY FreshRemovalStep
<1> QED
  BY <1>1, <1>2, <1>3, PTL DEF Spec, FreshRemovalKeepsOwner

-----------------------------------------------------------------------------

(* Between a SELECT that finds no row of a pair and the INSERT that follows *)
(* it, a request counts as the row it is about to write.                   *)
LEMMA PendingFinite ==
    ASSUME NEW g \in Group, NEW u \in User
    PROVE  /\ IsFiniteSet(PendingInserts(g, u))
           /\ Cardinality(PendingInserts(g, u)) \in Nat
           /\ Cardinality(PendingInserts(g, u)) <= Cardinality(Req)
           /\ Cardinality(Req) \in Nat
<1>1. PendingInserts(g, u) \subseteq Req /\ IsFiniteSet(Req)
  BY ConstantsAssumption DEF PendingInserts
<1> QED
  BY <1>1, FS_Subset, FS_CardinalityType

Pending(q, g, u) ==
    /\ q.pc = "write" /\ q.op \in {"add", "create"}
    /\ q.grp = g /\ q.target = u /\ q.seen[q.target] = 0

LEMMA PendingIs ==
    ASSUME NEW g \in Group, NEW u \in User
    PROVE  /\ PendingInserts(g, u) = {r \in Req : Pending(req[r], g, u)}
           /\ PendingInserts(g, u)' = {r \in Req : Pending(req'[r], g, u)}
  BY DEF PendingInserts, Pending, At, Inserts

(* A request whose record does not become pending adds nothing.            *)
LEMMA PendingShrinks ==
    ASSUME TypeInv, NEW g \in Group, NEW u \in User, NEW r \in Req, NEW q,
           req' = [req EXCEPT ![r] = q], ~Pending(q, g, u)
    PROVE  /\ PendingInserts(g, u)' = PendingInserts(g, u) \ {r}
           /\ IsFiniteSet(PendingInserts(g, u)')
           /\ Cardinality(PendingInserts(g, u)') \in Nat
           /\ Cardinality(PendingInserts(g, u)') <= Cardinality(PendingInserts(g, u))
           /\ r \in PendingInserts(g, u) =>
                Cardinality(PendingInserts(g, u)') = Cardinality(PendingInserts(g, u)) - 1
<1>1. PendingInserts(g, u)' = PendingInserts(g, u) \ {r}
  BY PendingIs DEF TypeInv, TypeOK
<1>2. IsFiniteSet(PendingInserts(g, u)) /\ Cardinality(PendingInserts(g, u)) \in Nat
  BY PendingFinite
<1>3. CASE r \in PendingInserts(g, u)
  <2>1. /\ IsFiniteSet(PendingInserts(g, u) \ {r})
        /\ Cardinality(PendingInserts(g, u) \ {r}) = Cardinality(PendingInserts(g, u)) - 1
    BY <1>2, <1>3, FS_RemoveElement
  <2>2. Cardinality(PendingInserts(g, u) \ {r}) \in Nat
    BY <2>1, FS_CardinalityType
  <2>3. \A m, k \in Nat : m = k - 1 => m <= k
    OBVIOUS
  <2>4. Cardinality(PendingInserts(g, u) \ {r}) <= Cardinality(PendingInserts(g, u))
    BY <1>2, <2>1, <2>2, <2>3
  <2> QED
    BY <1>1, <1>3, <2>1, <2>2, <2>4
<1>4. CASE r \notin PendingInserts(g, u)
  <2>1. PendingInserts(g, u) \ {r} = PendingInserts(g, u)
    BY <1>4
  <2>2. PendingInserts(g, u)' = PendingInserts(g, u)
    BY <1>1, <2>1
  <2>3. Cardinality(PendingInserts(g, u)') = Cardinality(PendingInserts(g, u))
    BY <2>2
  <2>4. Cardinality(PendingInserts(g, u)') <= Cardinality(PendingInserts(g, u))
    BY <1>2, <2>3
  <2>5. IsFiniteSet(PendingInserts(g, u)')
    BY <1>2, <2>2
  <2> QED
    BY <1>1, <1>2, <1>4, <2>3, <2>4, <2>5
<1> QED
  BY <1>3, <1>4

Bounded(g, u) == Rows(g, u) + Cardinality(PendingInserts(g, u)) <= Cardinality(Req)

LEMMA BoundedStep ==
    ASSUME TypeInv, [Next]_vars, NEW g \in Group, NEW u \in User, Bounded(g, u)
    PROVE  Bounded(g, u)'
<1> DEFINE P  == PendingInserts(g, u)
           n  == Cardinality(P)
           n1 == Cardinality(P')
<1>t. req \in [Req -> Request] /\ Rows(g, u) \in Nat
  BY DEF TypeInv, TypeOK, Rows, Role
<1>p. n \in Nat /\ n <= Cardinality(Req) /\ Cardinality(Req) \in Nat
  BY PendingFinite
<1>q. n1 \in Nat /\ n1 <= Cardinality(Req)
  <2>1. P' \subseteq Req /\ IsFiniteSet(Req)
    BY ConstantsAssumption, PendingIs
  <2> QED
    BY <2>1, FS_Subset, FS_CardinalityType
<1>r. Bounded(g, u) <=> Rows(g, u) + n <= Cardinality(Req)
  BY DEF Bounded
<1>s. Bounded(g, u)' <=> Rows(g, u)' + n1 <= Cardinality(Req)
  BY DEF Bounded
<1> DEFINE Quiet == \E r \in Req : \E q : req' = [req EXCEPT ![r] = q] /\ ~Pending(q, g, u)
<1>k. ASSUME Quiet, Rows(g, u)' = Rows(g, u) PROVE Bounded(g, u)'
  <2>1. n1 <= n
    BY <1>k, PendingShrinks
  <2> HIDE DEF n, n1
  <2> QED
    BY <1>k, <1>p, <1>q, <1>r, <1>s, <1>t, <2>1
<1>i. ~Pending(Idle, g, u)
  BY DEF Idle, New, Pending
<1>d. ASSUME NEW r \in Req, Done(r) PROVE Quiet
  BY <1>d, <1>i DEF Done
<1>1. ASSUME NEW r \in Req, Receive(r) PROVE Bounded(g, u)'
  <2>1. ASSUME NEW a \in users, NEW h \in Group, NEW v \in User, NEW x \in Role,
               NEW q \in Asks(a, h, v, x)
        PROVE  ~Pending(q, g, u)
    BY DEF Asks, New, Pending
  <2>2. Quiet
    BY <1>1, <2>1 DEF Receive
  <2> QED
    BY <1>1, <1>k, <2>2 DEF Receive, Rows
<1>2. ASSUME NEW r \in Req,
             InsertGroup(r) \/ LoadGroup(r) \/ FindTarget(r) \/ SelectOwners(r)
      PROVE  Bounded(g, u)'
  <2>w. WellFormed(req[r]) /\ req[r] \in Request
    BY DEF TypeInv, TypeOK
  <2>1. Rows(g, u)' = Rows(g, u)
    BY <1>2 DEF InsertGroup, LoadGroup, FindTarget, SelectOwners, Rows
  <2>2. CASE InsertGroup(r)
    <3>1. PICK h \in Group : req' = [req EXCEPT ![r] = [req[r] EXCEPT !.pc = "select", !.grp = h]]
      BY <2>2 DEF InsertGroup
    <3>2. ~Pending([req[r] EXCEPT !.pc = "select", !.grp = h], g, u)
      BY <2>w DEF Pending, Request
    <3> QED
      BY <1>k, <2>1, <3>1, <3>2
  <2>3. CASE LoadGroup(r)
    <3> DEFINE q == [req[r] EXCEPT !.pc = IF req[r].op = "destroy" THEN "write" ELSE "find"]
    <3>1. CASE Done(r)
      BY <1>d, <1>k, <2>1, <3>1
    <3>2. CASE ~Done(r)
      <4>1. req' = [req EXCEPT ![r] = q]
        BY <2>3, <3>2 DEF LoadGroup, Goto
      <4>2. ~Pending(q, g, u)
        BY <2>w DEF Pending, Request
      <4> HIDE DEF q
      <4> QED
        BY <1>k, <2>1, <4>1, <4>2
    <3> QED
      BY <3>1, <3>2
  <2>4. CASE FindTarget(r)
    <3>1. CASE Done(r)
      BY <1>d, <1>k, <2>1, <3>1
    <3>2. CASE ~Done(r)
      <4>1. req' = [req EXCEPT ![r] = [req[r] EXCEPT !.pc = "select"]]
        BY <2>4, <3>2 DEF FindTarget, Goto
      <4>2. ~Pending([req[r] EXCEPT !.pc = "select"], g, u)
        BY <2>w DEF Pending, Request
      <4> QED
        BY <1>k, <2>1, <4>1, <4>2
    <3> QED
      BY <3>1, <3>2
  <2>5. CASE SelectOwners(r)
    <3> DEFINE q == [req[r] EXCEPT !.pc = "write", !.seen = OwnerRows(req[r].grp)]
    <3>1. CASE Done(r)
      BY <1>d, <1>k, <2>1, <3>1
    <3>2. CASE ~Done(r)
      <4>1. req' = [req EXCEPT ![r] = q]
        BY <2>5, <3>2 DEF SelectOwners
      <4>2. ~Pending(q, g, u)
        BY <2>w, <2>5 DEF Pending, Request, SelectOwners
      <4> HIDE DEF q
      <4> QED
        BY <1>k, <2>1, <4>1, <4>2
    <3> QED
      BY <3>1, <3>2
  <2> QED
    BY <1>2, <2>2, <2>3, <2>4, <2>5
<1>3. ASSUME NEW r \in Req, SelectMembership(r) PROVE Bounded(g, u)'
  <2> DEFINE h == req[r].grp
             v == req[r].target
             seen1 == [Nothing EXCEPT ![v] = Rows(h, v)]
             q == [req[r] EXCEPT !.pc = "write", !.seen = seen1]
  <2>1. req' = [req EXCEPT ![r] = q] /\ Rows(g, u)' = Rows(g, u)
    BY <1>3 DEF SelectMembership, Rows
  <2>2. CASE ~Pending(q, g, u)
    <3> HIDE DEF q
    <3> QED
      BY <1>k, <2>1, <2>2
  <2>3. CASE Pending(q, g, u)
    <3>1. h = g /\ v = u /\ seen1[v] = 0
      BY <2>3, <1>t DEF Pending, Request
    <3>2. Rows(g, u) = 0
      BY <3>1 DEF Nothing
    <3> HIDE DEF n, n1
    <3> QED
      BY <1>q, <1>s, <2>1, <3>2
  <2> QED
    BY <2>2, <2>3
<1>4. ASSUME NEW r \in Req, InsertMembership(r) PROVE Bounded(g, u)'
  <2>1. Quiet /\ req' = [req EXCEPT ![r] = Idle] /\ ~Pending(Idle, g, u)
    BY <1>4, <1>d DEF InsertMembership, Done, Idle, New, Pending
  <2>2. CASE r \in P
    <3>1. n1 = n - 1
      BY <2>1, <2>2, PendingShrinks
    <3>2. Rows(g, u)' \in {Rows(g, u), Rows(g, u) + 1}
      BY <1>4, RowsAfter
    <3> HIDE DEF n, n1
    <3> QED
      BY <1>p, <1>q, <1>r, <1>s, <1>t, <3>1, <3>2
  <2>3. CASE r \notin P
    <3>1. ~(req[r].grp = g /\ req[r].target = u)
      BY <1>4, <2>3 DEF PendingInserts, InsertMembership
    <3>2. Rows(g, u)' = Rows(g, u)
      BY <1>4, <3>1, RowsAfter
    <3> QED
      BY <1>k, <2>1, <3>2
  <2> QED
    BY <2>2, <2>3
<1>5. ASSUME NEW r \in Req, UpdateMembership(r) PROVE Bounded(g, u)'
  <2>1. Quiet /\ Rows(g, u)' = Rows(g, u)
    BY <1>5, <1>d, RowsAfter DEF UpdateMembership
  <2> QED
    BY <1>k, <2>1
<1>6. ASSUME NEW r \in Req, DeleteMembership(r) \/ DestroyGroup(r) PROVE Bounded(g, u)'
  <2>1. Quiet
    BY <1>6, <1>d DEF DeleteMembership, DestroyGroup
  <2>2. CASE Rows(g, u)' = Rows(g, u)
    BY <1>k, <2>1, <2>2
  <2>3. CASE Rows(g, u)' = 0
    <3> HIDE DEF n, n1
    <3> QED
      BY <1>q, <1>s, <2>3
  <2> QED
    BY <1>6, <2>2, <2>3, RowsAfter
<1>7. ASSUME NEW v \in User, DeleteUser(v) PROVE Bounded(g, u)'
  <2>0. req' = req
    BY <1>7 DEF DeleteUser
  <2>1. P' = P
    BY <2>0 DEF PendingInserts, At, Inserts
  <2>2. n1 = n
    BY <2>1
  <2>3. Rows(g, u)' \in {0, Rows(g, u)}
    BY <1>7, RowsAfterDeleteUser
  <2> HIDE DEF n, n1
  <2> QED
    BY <1>p, <1>q, <1>r, <1>s, <1>t, <2>2, <2>3
<1>8. CASE Crash
  <2>1. P' = {}
    BY <1>8, PendingIs DEF Crash, Idle, New, Pending
  <2>2. n1 = 0
    BY <2>1, FS_EmptySet
  <2>3. Rows(g, u)' = Rows(g, u)
    BY <1>8 DEF Crash, Rows
  <2> HIDE DEF n, n1
  <2> QED
    BY <1>p, <1>r, <1>s, <1>t, <2>2, <2>3
<1>9. CASE UNCHANGED vars
  BY <1>9 DEF vars, Bounded, Rows, PendingInserts, At, Inserts
<1> QED
  BY <1>1, <1>2, <1>3, <1>4, <1>5, <1>6, <1>7, <1>8, <1>9 DEF Next, Proceed

(* A pair never has more rows than requests can be in flight together; in  *)
(* particular requests that do not overlap never duplicate a membership.   *)
THEOREM DuplicatesAreBounded == Spec => []DuplicatesBounded
<1>1. Init => TypeInv /\ DuplicatesBounded
  <2> SUFFICES ASSUME Init PROVE DuplicatesBounded
    BY TypeInit
  <2> SUFFICES ASSUME NEW g \in Group, NEW u \in User PROVE Bounded(g, u)
    BY DEF DuplicatesBounded, Bounded
  <2>1. PendingInserts(g, u) = {}
    BY DEF Init, PendingInserts, At, Idle, New
  <2>2. Rows(g, u) = 0
    BY DEF Init, Rows, NoRows, Role
  <2> QED
    BY <2>1, <2>2, FS_EmptySet, PendingFinite DEF Bounded
<1>2. TypeInv /\ DuplicatesBounded /\ [Next]_vars => TypeInv' /\ DuplicatesBounded'
  <2> SUFFICES ASSUME TypeInv, DuplicatesBounded, [Next]_vars
               PROVE  TypeInv' /\ DuplicatesBounded'
    OBVIOUS
  <2>1. ASSUME NEW g \in Group, NEW u \in User PROVE Bounded(g, u)'
    BY BoundedStep DEF DuplicatesBounded, Bounded
  <2> QED
    BY <2>1, TypeStep DEF DuplicatesBounded, Bounded
<1> QED
  BY <1>1, <1>2, PTL DEF Spec

-----------------------------------------------------------------------------
(* Groups implements GroupAuthority: what TLC checks as                    *)
(* ImplementsAuthority.                                                    *)

Warrant(r) == <<r, req[r].actor, req[r].grp>>

Cleared(q) == q.pc \in {"find", "select", "write"}

LEMMA WarrantMember ==
    ASSUME NEW s \in Req, NEW u \in User, NEW g \in Group
    PROVE  <<s, u, g>> \in Warrants
              <=> Cleared(req[s]) /\ req[s].actor = u /\ req[s].grp = g
  BY DEF Warrants, Authorised, At, Cleared

LEMMA WarrantMemberAfter ==
    ASSUME NEW s \in Req, NEW u \in User, NEW g \in Group
    PROVE  <<s, u, g>> \in Warrants'
              <=> Cleared(req'[s]) /\ req'[s].actor = u /\ req'[s].grp = g
  BY DEF Warrants, Authorised, At, Cleared

LEMMA WarrantTriples ==
    Warrants \subseteq Req \X User \X Group /\ Warrants' \subseteq Req \X User \X Group
  BY DEF Warrants

LEMMA ClearedFields ==
    ASSUME TypeInv, NEW r \in Req, Cleared(req[r])
    PROVE  req[r].actor \in User /\ req[r].grp \in Group
  BY DEF TypeInv, WellFormed, Cleared

(* A step of r that leaves r's clearance, account and group as they are.   *)
LEMMA WarrantsKept ==
    ASSUME TypeInv, NEW r \in Req, NEW q, req' = [req EXCEPT ![r] = q],
           Cleared(q) <=> Cleared(req[r]),
           Cleared(q) => q.actor = req[r].actor /\ q.grp = req[r].grp
    PROVE  Warrants' = Warrants
<1>1. ASSUME NEW s \in Req, NEW u \in User, NEW g \in Group
      PROVE  <<s, u, g>> \in Warrants' <=> <<s, u, g>> \in Warrants
  BY WarrantMember, WarrantMemberAfter DEF TypeInv, TypeOK
<1> QED
  BY <1>1, WarrantTriples

(* A cleared request ends.                                                 *)
LEMMA WarrantsSpent ==
    ASSUME TypeInv, NEW r \in Req, Cleared(req[r]), Done(r)
    PROVE  Warrant(r) \in Warrants /\ Warrants' = Warrants \ {Warrant(r)}
<1>0. req' = [req EXCEPT ![r] = Idle] /\ ~Cleared(Idle)
  BY DEF Done, Idle, New, Cleared
<1>1. ASSUME NEW s \in Req, NEW u \in User, NEW g \in Group
      PROVE  <<s, u, g>> \in Warrants' <=> <<s, u, g>> \in Warrants /\ <<s, u, g>> # Warrant(r)
  <2>1. CASE s = r
    BY <1>0, <2>1, WarrantMember, WarrantMemberAfter DEF TypeInv, TypeOK, Warrant
  <2>2. CASE s # r
    <3>1. req'[s] = req[s]
      BY <1>0, <2>2 DEF TypeInv, TypeOK
    <3> QED
      BY <2>2, <3>1, WarrantMember, WarrantMemberAfter DEF Warrant
  <2> QED
    BY <2>1, <2>2
<1>2. Warrant(r) \in Warrants
  BY ClearedFields, WarrantMember DEF Warrant
<1> QED
  BY <1>1, <1>2, WarrantTriples

(* A request becomes cleared.                                              *)
LEMMA WarrantsGained ==
    ASSUME TypeInv, NEW r \in Req, ~Cleared(req[r]), NEW q, Cleared(q),
           q.actor \in User, q.grp \in Group, req' = [req EXCEPT ![r] = q]
    PROVE  Warrants' = Warrants \cup {<<r, q.actor, q.grp>>}
<1>1. ASSUME NEW s \in Req, NEW u \in User, NEW g \in Group
      PROVE  <<s, u, g>> \in Warrants'
                <=> <<s, u, g>> \in Warrants \/ <<s, u, g>> = <<r, q.actor, q.grp>>
  <2>1. CASE s = r
    BY <2>1, WarrantMember, WarrantMemberAfter DEF TypeInv, TypeOK
  <2>2. CASE s # r
    <3>1. req'[s] = req[s]
      BY <2>2 DEF TypeInv, TypeOK
    <3> QED
      BY <2>2, <3>1, WarrantMember, WarrantMemberAfter
  <2> QED
    BY <2>1, <2>2
<1> QED
  BY <1>1, WarrantTriples

-----------------------------------------------------------------------------

AStep == Authority!ANext \/ UNCHANGED <<users, group, Held, Warrants>>

LEMMA HeldKept == rows' = rows => Held' = Held
  BY DEF Held

LEMMA HeldAfterUpdate ==
    ASSUME TypeInv, NEW r \in Req, UpdateMembership(r)
    PROVE  Held' = IF Rows(req[r].grp, req[r].target) = 0 THEN Held
                   ELSE [Held EXCEPT ![req[r].grp][req[r].target] = {req[r].role}]
<1> DEFINE h == req[r].grp
           v == req[r].target
           x == req[r].role
<1>t. rows \in [Group -> [User -> [Role -> Nat]]]
  BY DEF TypeInv, TypeOK
<1>1. h \in Group /\ v \in User /\ x \in Role
  BY DEF TypeInv, WellFormed, UpdateMembership, At
<1>2. rows' = [rows EXCEPT ![h][v] = [NoRows EXCEPT ![x] = Rows(h, v)]]
  BY DEF UpdateMembership
<1>3. rows[h][v]["owner"] \in Nat /\ rows[h][v]["member"] \in Nat
  BY <1>t, <1>1 DEF Role
<1>4. \A y \in Role : rows'[h][v][y] > 0 <=> y = x /\ Rows(h, v) # 0
  <2>1. rows'[h][v] = [NoRows EXCEPT ![x] = Rows(h, v)]
    BY <1>1, <1>2, <1>t
  <2>2. Rows(h, v) \in Nat
    BY <1>3 DEF Rows
  <2> HIDE DEF h, v, x
  <2> QED
    BY <1>1, <2>1, <2>2 DEF NoRows
<1>5. \A g \in Group, u \in User : g # h \/ u # v => rows'[g][u] = rows[g][u]
  BY <1>2, <1>t
<1>6. Rows(h, v) = 0 => \A y \in Role : ~(rows[h][v][y] > 0)
  BY <1>3 DEF Rows, Role
<1>7. Held' = [g \in Group |-> [u \in User |->
                  IF g = h /\ u = v THEN IF Rows(h, v) = 0 THEN {} ELSE {x}
                  ELSE Held[g][u]]]
  <2>1. ASSUME NEW g \in Group, NEW u \in User
        PROVE  {y \in Role : rows'[g][u][y] > 0}
                  = IF g = h /\ u = v THEN IF Rows(h, v) = 0 THEN {} ELSE {x}
                    ELSE Held[g][u]
    BY <1>1, <1>4, <1>5 DEF Held
  <2> QED
    BY <2>1 DEF Held
<1>8. Rows(h, v) = 0 => Held[h][v] = {}
  BY <1>1, <1>6 DEF Held
<1>9. Held = [g \in Group |-> [u \in User |-> Held[g][u]]]
  BY DEF Held
<1> HIDE DEF h, v, x
<1> QED
  BY <1>1, <1>7, <1>8, <1>9 DEF h, v, x

LEMMA HeldAfterInsert ==
    ASSUME TypeInv, NEW r \in Req, InsertMembership(r)
    PROVE  IF Linkable(req[r].grp, req[r].target)
           THEN Held' = [Held EXCEPT ![req[r].grp][req[r].target] = @ \cup {req[r].role}]
           ELSE Held' = Held
<1> DEFINE h == req[r].grp
           v == req[r].target
           x == req[r].role
<1>t. rows \in [Group -> [User -> [Role -> Nat]]]
  BY DEF TypeInv, TypeOK
<1>1. h \in Group /\ v \in User /\ x \in Role
  BY DEF TypeInv, WellFormed, InsertMembership, At
<1>2. CASE Linkable(h, v)
  <2>1. rows' = [rows EXCEPT ![h][v][x] = @ + 1]
    BY <1>2 DEF InsertMembership
  <2> HIDE DEF h, v, x
  <2>2. \A g \in Group, u \in User, y \in Role :
            rows'[g][u][y] = IF g = h /\ u = v /\ y = x THEN rows[g][u][y] + 1
                             ELSE rows[g][u][y]
    BY <1>1, <2>1, <1>t
  <2>3. ASSUME NEW g \in Group, NEW u \in User
        PROVE  {y \in Role : rows'[g][u][y] > 0}
                  = IF g = h /\ u = v THEN Held[g][u] \cup {x} ELSE Held[g][u]
    BY <1>1, <2>2, <1>t DEF Held
  <2>4. Held' = [g \in Group |-> [u \in User |->
                  IF g = h /\ u = v THEN Held[g][u] \cup {x} ELSE Held[g][u]]]
    BY <2>3 DEF Held
  <2>5. Held = [g \in Group |-> [u \in User |-> Held[g][u]]]
    BY DEF Held
  <2>6. Held' = [Held EXCEPT ![h][v] = @ \cup {x}]
    BY <1>1, <2>4, <2>5
  <2> QED
    BY <1>2, <2>6 DEF h, v, x
<1>3. CASE ~Linkable(h, v)
  BY <1>3, HeldKept DEF InsertMembership
<1> QED
  BY <1>2, <1>3

LEMMA HeldAfterDelete ==
    ASSUME TypeInv, NEW r \in Req, DeleteMembership(r)
    PROVE  Held' = [Held EXCEPT ![req[r].grp][req[r].target] = {}]
<1> DEFINE h == req[r].grp
           v == req[r].target
<1>t. rows \in [Group -> [User -> [Role -> Nat]]]
  BY DEF TypeInv, TypeOK
<1>1. h \in Group /\ v \in User /\ rows' = [rows EXCEPT ![h][v] = NoRows]
  BY DEF TypeInv, WellFormed, DeleteMembership, At
<1> HIDE DEF h, v
<1>2. ASSUME NEW g \in Group, NEW u \in User
      PROVE  {y \in Role : rows'[g][u][y] > 0}
                = IF g = h /\ u = v THEN {} ELSE Held[g][u]
  BY <1>1, <1>t DEF Held, NoRows
<1>3. Held' = [g \in Group |-> [u \in User |->
                IF g = h /\ u = v THEN {} ELSE Held[g][u]]]
  BY <1>2 DEF Held
<1>4. Held = [g \in Group |-> [u \in User |-> Held[g][u]]]
  BY DEF Held
<1>5. Held' = [Held EXCEPT ![h][v] = {}]
  BY <1>1, <1>3, <1>4
<1> QED
  BY <1>5 DEF h, v

LEMMA HeldAfterDestroy ==
    ASSUME TypeInv, NEW r \in Req, DestroyGroup(r)
    PROVE  Held' = [Held EXCEPT ![req[r].grp] = [u \in User |-> {}]]
<1> DEFINE h == req[r].grp
<1>t. rows \in [Group -> [User -> [Role -> Nat]]]
  BY DEF TypeInv, TypeOK
<1>1. h \in Group /\ rows' = [rows EXCEPT ![h] = [u \in User |-> NoRows]]
  BY DEF TypeInv, WellFormed, DestroyGroup, At
<1> HIDE DEF h
<1>2. ASSUME NEW g \in Group, NEW u \in User
      PROVE  {y \in Role : rows'[g][u][y] > 0} = IF g = h THEN {} ELSE Held[g][u]
  BY <1>1, <1>t DEF Held, NoRows
<1>3. Held' = [g \in Group |-> IF g = h THEN [u \in User |-> {}] ELSE Held[g]]
  <2>1. Held' = [g \in Group |-> [u \in User |-> IF g = h THEN {} ELSE Held[g][u]]]
    BY <1>2 DEF Held
  <2>2. ASSUME NEW g \in Group
        PROVE  [u \in User |-> IF g = h THEN {} ELSE Held[g][u]]
                  = IF g = h THEN [u \in User |-> {}] ELSE Held[g]
    BY DEF Held
  <2> QED
    BY <2>1, <2>2
<1>4. Held = [g \in Group |-> Held[g]]
  BY DEF Held
<1>5. Held' = [Held EXCEPT ![h] = [u \in User |-> {}]]
  BY <1>1, <1>3, <1>4
<1> QED
  BY <1>5 DEF h

LEMMA HeldAfterDeleteUser ==
    ASSUME TypeInv, NEW v \in User, DeleteUser(v)
    PROVE  Held' = [g \in Group |-> [Held[g] EXCEPT ![v] = {}]]
<1>t. rows \in [Group -> [User -> [Role -> Nat]]]
  BY DEF TypeInv, TypeOK
<1>1. ASSUME NEW g \in Group, NEW u \in User
      PROVE  {y \in Role : rows'[g][u][y] > 0} = IF u = v THEN {} ELSE Held[g][u]
  BY <1>t DEF Held, NoRows, DeleteUser
<1>2. Held' = [g \in Group |-> [u \in User |-> IF u = v THEN {} ELSE Held[g][u]]]
  BY <1>1 DEF Held
<1>3. ASSUME NEW g \in Group
      PROVE  [u \in User |-> IF u = v THEN {} ELSE Held[g][u]] = [Held[g] EXCEPT ![v] = {}]
  BY DEF Held
<1> QED
  BY <1>2, <1>3

-----------------------------------------------------------------------------

LEMMA RefineInit == Init => Authority!AInit
<1> SUFFICES ASSUME Init PROVE Authority!AInit
  OBVIOUS
<1>1. Held = [g \in Group |-> [u \in User |-> {}]]
  BY DEF Init, Held, NoRows
<1>2. Warrants = {}
  BY DEF Init, Warrants, Authorised, At, Idle, New
<1> QED
  BY <1>1, <1>2 DEF Init, Authority!AInit, Authority!NoRoles

(* A cleared request that ends without a write gives its warrant up.       *)
LEMMA RefineGiveUp ==
    ASSUME TypeInv, NEW r \in Req, Cleared(req[r]), Done(r),
           UNCHANGED <<users, group, Held>>
    PROVE  Authority!ANext
<1>1. Authority!GiveUp({Warrant(r)})
  BY WarrantsSpent DEF Authority!GiveUp
<1> QED
  BY <1>1, WarrantsSpent DEF Authority!ANext

LEMMA RefineReads ==
    ASSUME TypeInv, NEW r \in Req,
           Receive(r) \/ FindTarget(r) \/ SelectOwners(r) \/ SelectMembership(r)
    PROVE  AStep
<1>h. UNCHANGED <<users, group, Held>>
  BY HeldKept DEF Receive, FindTarget, SelectOwners, SelectMembership
<1>t. req[r] \in Request
  BY DEF TypeInv, TypeOK
<1>1. CASE Receive(r)
  <2>1. PICK u \in users, g \in Group, v \in User, x \in Role :
          \E q \in Asks(u, g, v, x) : req' = [req EXCEPT ![r] = q]
    BY <1>1 DEF Receive
  <2>2. PICK q \in Asks(u, g, v, x) : req' = [req EXCEPT ![r] = q]
    BY <2>1
  <2>3. ~Cleared(q) /\ ~Cleared(req[r])
    BY <1>1 DEF Asks, New, Cleared, Receive, At
  <2> QED
    BY <2>2, <2>3, WarrantsKept, <1>h DEF AStep
<1>2. CASE FindTarget(r) \/ SelectOwners(r) \/ SelectMembership(r)
  <2>1. Cleared(req[r])
    BY <1>2 DEF FindTarget, SelectOwners, SelectMembership, At, Cleared
  <2>2. CASE Done(r)
    BY <1>h, <2>1, <2>2, RefineGiveUp DEF AStep
  <2>3. CASE ~Done(r)
    <3>1. \E q : /\ req' = [req EXCEPT ![r] = q] /\ Cleared(q)
                 /\ q.actor = req[r].actor /\ q.grp = req[r].grp
      <4>1. CASE FindTarget(r)
        <5> DEFINE q == [req[r] EXCEPT !.pc = "select"]
        <5>1. req' = [req EXCEPT ![r] = q]
          BY <2>3, <4>1 DEF FindTarget, Goto
        <5>2. Cleared(q) /\ q.actor = req[r].actor /\ q.grp = req[r].grp
          BY <1>t DEF Cleared, Request
        <5> QED BY <5>1, <5>2
      <4>2. CASE SelectOwners(r)
        <5> DEFINE q == [req[r] EXCEPT !.pc = "write", !.seen = OwnerRows(req[r].grp)]
        <5>1. req' = [req EXCEPT ![r] = q]
          BY <2>3, <4>2 DEF SelectOwners
        <5>2. Cleared(q) /\ q.actor = req[r].actor /\ q.grp = req[r].grp
          BY <1>t DEF Cleared, Request
        <5> QED BY <5>1, <5>2
      <4>3. CASE SelectMembership(r)
        <5> DEFINE q == [req[r] EXCEPT !.pc = "write",
              !.seen = [Nothing EXCEPT ![req[r].target] = Rows(req[r].grp, req[r].target)]]
        <5>1. req' = [req EXCEPT ![r] = q]
          BY <4>3 DEF SelectMembership
        <5>2. Cleared(q) /\ q.actor = req[r].actor /\ q.grp = req[r].grp
          BY <1>t DEF Cleared, Request
        <5> QED BY <5>1, <5>2
      <4> QED BY <1>2, <4>1, <4>2, <4>3
    <3> QED
      BY <3>1, <2>1, WarrantsKept, <1>h DEF AStep
  <2> QED
    BY <2>2, <2>3
<1> QED
  BY <1>1, <1>2

LEMMA RefineInsertGroup ==
    ASSUME TypeInv, NEW r \in Req, InsertGroup(r) PROVE AStep
<1>1. PICK g \in Group : /\ group[g] = "unborn"
                         /\ group' = [group EXCEPT ![g] = "live"]
                         /\ req' = [req EXCEPT ![r].pc = "select", ![r].grp = g]
  BY DEF InsertGroup
<1> DEFINE q == [req[r] EXCEPT !.pc = "select", !.grp = g]
<1>2. req' = [req EXCEPT ![r] = q]
  BY <1>1
<1>3. req[r].actor \in User /\ req[r] \in Request /\ ~Cleared(req[r])
  BY DEF TypeInv, TypeOK, WellFormed, InsertGroup, At, Cleared
<1>4. Cleared(q) /\ q.actor = req[r].actor /\ q.grp = g
  BY <1>3 DEF Cleared, Request
<1> HIDE DEF q
<1>5. Warrants' = Warrants \cup {<<r, req[r].actor, g>>}
  BY <1>2, <1>3, <1>4, WarrantsGained
<1>6. Authority!Found(r, req[r].actor, g)
  BY <1>1, <1>5, HeldKept DEF InsertGroup, Authority!Found
<1> QED
  BY <1>3, <1>6 DEF AStep, Authority!ANext

LEMMA RefineLoadGroup ==
    ASSUME TypeInv, NEW r \in Req, LoadGroup(r) PROVE AStep
<1>1. req[r].actor \in User /\ req[r].grp \in Group /\ req[r] \in Request
  BY DEF TypeInv, TypeOK, WellFormed, LoadGroup, At
<1>2. ~Cleared(req[r]) /\ UNCHANGED <<users, group, Held>>
  BY HeldKept DEF LoadGroup, At, Cleared
<1>3. CASE Done(r)
  BY <1>2, <1>3, WarrantsKept DEF Done, Idle, New, Cleared, AStep
<1>4. CASE ~Done(r)
  <2> DEFINE pc == IF req[r].op = "destroy" THEN "write" ELSE "find"
             q == [req[r] EXCEPT !.pc = pc]
  <2>1. /\ group[req[r].grp] = "live" /\ MayManage(req[r].actor, req[r].grp)
        /\ req' = [req EXCEPT ![r] = q]
    BY <1>4 DEF LoadGroup, Goto
  <2>2. Cleared(q) /\ q.actor = req[r].actor /\ q.grp = req[r].grp
    BY <1>1 DEF Cleared, Request
  <2> HIDE DEF q
  <2>3. Warrants' = Warrants \cup {<<r, req[r].actor, req[r].grp>>}
    BY <1>1, <1>2, <2>1, <2>2, WarrantsGained
  <2>4. req[r].actor \in Admin \/ "owner" \in Held[req[r].grp][req[r].actor]
    BY <1>1, <2>1 DEF MayManage, Held, Role
  <2>5. Authority!Authorise(r, req[r].actor, req[r].grp)
    BY <1>2, <2>1, <2>3, <2>4 DEF Authority!Authorise
  <2> QED
    BY <1>1, <2>5 DEF AStep, Authority!ANext
<1> QED
  BY <1>3, <1>4

LEMMA RefineWrites ==
    ASSUME TypeInv, NoDanglingRows, NEW r \in Req,
           \/ InsertMembership(r) \/ UpdateMembership(r)
           \/ DeleteMembership(r) \/ DestroyGroup(r)
    PROVE  AStep
<1> DEFINE w == Warrant(r)
           h == req[r].grp
           v == req[r].target
           x == req[r].role
<1>1. At(r, "write") /\ Done(r) /\ Cleared(req[r])
  BY DEF InsertMembership, UpdateMembership, DeleteMembership, DestroyGroup, At, Cleared
<1>2. Authority!Spend(w) /\ w \in Warrants /\ w[3] = h
  BY <1>1, WarrantsSpent DEF Authority!Spend, Warrant
<1>3. h \in Group
  BY <1>1, ClearedFields
<1>4. req[r].op \in {"add", "create", "remove"} => v \in User
  BY <1>1 DEF TypeInv, WellFormed, At
<1>5. req[r].op \in {"add", "create"} => x \in Role
  BY <1>1 DEF TypeInv, WellFormed, At
<1> HIDE DEF w, h, v, x
<1>6. CASE InsertMembership(r)
  <2>1. CASE Linkable(h, v)
    <3>1. Held' = [Held EXCEPT ![w[3]][v] = Held[w[3]][v] \cup {x}]
      BY <1>2, <1>6, <2>1, HeldAfterInsert DEF h, v, x
    <3>2. v \in User /\ x \in Authority!ARole
      BY <1>4, <1>5, <1>6 DEF InsertMembership, Authority!ARole, Role
    <3>3. Authority!Grant(w, v, x)
      BY <1>2, <1>6, <2>1, <3>1 DEF Authority!Grant, InsertMembership, Linkable
    <3> QED
      BY <1>2, <3>2, <3>3 DEF AStep, Authority!ANext
  <2>2. CASE ~Linkable(h, v)
    BY <1>1, <1>6, <2>2, HeldAfterInsert, RefineGiveUp DEF InsertMembership, AStep, h, v
  <2> QED
    BY <2>1, <2>2
<1>7. CASE UpdateMembership(r)
  <2>1. CASE Rows(h, v) # 0
    <3>1. Held' = [Held EXCEPT ![w[3]][v] = {x}]
      BY <1>2, <1>7, <2>1, HeldAfterUpdate DEF h, v, x
    <3>2. v \in User /\ x \in Authority!ARole
      BY <1>4, <1>5, <1>7 DEF UpdateMembership, Authority!ARole, Role
    <3>3. Rows(h, v) \in Nat
      BY <1>3, <3>2 DEF TypeInv, TypeOK, Rows, Role
    <3>4. v \in users /\ group[h] = "live"
      BY <1>3, <2>1, <3>2, <3>3 DEF NoDanglingRows
    <3>5. Authority!Grant(w, v, x)
      BY <1>2, <1>7, <3>1, <3>4 DEF Authority!Grant, UpdateMembership
    <3> QED
      BY <1>2, <3>2, <3>5 DEF AStep, Authority!ANext
  <2>2. CASE Rows(h, v) = 0
    BY <1>1, <1>7, <2>2, HeldAfterUpdate, RefineGiveUp DEF UpdateMembership, AStep, h, v
  <2> QED
    BY <2>1, <2>2
<1>8. CASE DeleteMembership(r)
  <2>1. Authority!Revoke(w, v) /\ v \in User
    BY <1>2, <1>4, <1>8, HeldAfterDelete DEF Authority!Revoke, DeleteMembership, h, v
  <2> QED
    BY <1>2, <2>1 DEF AStep, Authority!ANext
<1>9. CASE DestroyGroup(r)
  <2>1. Authority!Dissolve(w)
    BY <1>2, <1>9, HeldAfterDestroy
       DEF Authority!Dissolve, Authority!NoRoles, DestroyGroup, h
  <2> QED
    BY <1>2, <2>1 DEF AStep, Authority!ANext
<1> QED
  BY <1>6, <1>7, <1>8, <1>9

LEMMA RefineNext ==
    ASSUME TypeInv, NoDanglingRows, [Next]_vars
    PROVE  AStep
<1>1. ASSUME NEW r \in Req, Receive(r) \/ Proceed(r) PROVE AStep
  BY <1>1, RefineReads, RefineInsertGroup, RefineLoadGroup, RefineWrites DEF Proceed
<1>2. ASSUME NEW v \in User, DeleteUser(v) PROVE AStep
  <2>1. Warrants' = Warrants
    BY <1>2 DEF DeleteUser, Warrants, Authorised, At
  <2>2. Authority!Leave(v)
    BY <1>2, <2>1, HeldAfterDeleteUser DEF Authority!Leave, DeleteUser
  <2> QED
    BY <2>2 DEF AStep, Authority!ANext
<1>3. CASE Crash
  <2>1. Warrants' = {}
    BY <1>3 DEF Crash, Warrants, Authorised, At, Idle, New
  <2>2. Authority!GiveUp(Warrants)
    BY <1>3, <2>1, HeldKept DEF Authority!GiveUp, Crash
  <2> QED
    BY <2>2 DEF AStep, Authority!ANext
<1>4. CASE UNCHANGED vars
  BY <1>4 DEF vars, AStep, Held, Warrants, Authorised, At
<1> QED
  BY <1>1, <1>2, <1>3, <1>4 DEF Next

(* Every behaviour of the handlers is one of GroupAuthority: whatever they *)
(* write is the one change of a request that was authorised for the group. *)
THEOREM GroupsImplementAuthority == Spec => ImplementsAuthority
<1>1. Init => TypeInv /\ NoDanglingRows /\ Authority!AInit
  BY TypeInit, RefineInit DEF Init, NoDanglingRows, Rows, NoRows, Role
<1>2. TypeInv /\ NoDanglingRows /\ [Next]_vars => TypeInv' /\ NoDanglingRows'
  BY TypeStep, NoDanglingStep
<1>3. TypeInv /\ NoDanglingRows /\ [Next]_vars => [Authority!ANext]_(Authority!avars)
  BY RefineNext DEF AStep, Authority!avars
<1> QED
  BY <1>1, <1>2, <1>3, PTL DEF Spec, ImplementsAuthority, Authority!ASpec
=============================================================================
