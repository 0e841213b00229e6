-------------------------- MODULE EvaluationAccess --------------------------
(***************************************************************************)
(* What the backend promises about evaluations, without statements, rows   *)
(* of links or local variables: nobody changes an evaluation, its tags or  *)
(* its groups without a permit, which only those obtain who have the       *)
(* ability at that moment, which nobody passes on, and which lets into a   *)
(* group for one change.                                                   *)
(***************************************************************************)
CONSTANTS User, Admin, Group, Evaluation, Tag, Req, None

VARIABLES
    users, groups,   \* the accounts and the groups that exist
    role,            \* role[g][u]: "none", "member" or "owner"
    born,            \* evaluations there are or were
    eval,            \* owner and visibility of each, None where there is none
    tag,             \* the evaluation of each tag, "unborn", "stray" or "gone"
    shared,          \* <<g, e>>: e is in g
    permit           \* what each request has been let through to

avars == <<users, groups, role, born, eval, tag, shared, permit>>

data == <<users, groups, role, born, eval, tag, shared>>

Permit ==
    [actor  : User \cup {None}, enter : SUBSET Group,
     manage : SUBSET Evaluation, read : SUBSET Evaluation, untag : SUBSET Tag]

Nothing == [actor |-> None, enter |-> {}, manage |-> {}, read |-> {}, untag |-> {}]

AInit ==
    /\ users = User /\ groups = Group
    /\ role = [g \in Group |-> [u \in User |-> "none"]]
    /\ born = {} /\ eval = [e \in Evaluation |-> None]
    /\ tag = [t \in Tag |-> "unborn"]
    /\ shared = {} /\ permit = [r \in Req |-> Nothing]

-----------------------------------------------------------------------------

Enters(u, g) == g \in groups /\ (u \in Admin \/ role[g][u] # "none")

Manages(u, e) ==
    eval[e] # None /\ \/ u \in Admin \/ eval[e].owner = u
                      \/ \E g \in Group : <<g, e>> \in shared /\ role[g][u] = "owner"

Reads(u, e) ==
    eval[e] # None /\ \/ u \in Admin \/ eval[e].public \/ eval[e].owner = u
                      \/ \E g \in Group : <<g, e>> \in shared /\ role[g][u] # "none"

(* Permit p, after q, has nothing its account may not do at this moment    *)
(* but what it had; who manages an evaluation may take its tags.           *)
Justified(p, q) ==
    LET had == IF p.actor = q.actor THEN q ELSE Nothing IN
       /\ \A g \in p.enter \ had.enter : Enters(p.actor, g)
       /\ \A e \in p.manage \ had.manage : Manages(p.actor, e)
       /\ \A e \in p.read \ had.read : Reads(p.actor, e)
       /\ \A t \in p.untag \ had.untag :
             \/ tag[t] = "stray" /\ p.actor \in Admin
             \/ tag[t] \in Evaluation /\ (tag[t] \in had.manage \/ Manages(p.actor, tag[t]))

Within(p, q) ==
    /\ p.actor = q.actor \/ p = Nothing
    /\ p.enter \subseteq q.enter /\ p.manage \subseteq q.manage
    /\ p.read \subseteq q.read /\ p.untag \subseteq q.untag

Alone(r) == (\A s \in Req \ {r} : permit'[s] = permit[s]) /\ permit' \in [Req -> Permit]

(* After a write at most q is left of the permit of r.                     *)
Left(r, q) == Alone(r) /\ Within(permit'[r], q)

Decide(r) == UNCHANGED data /\ Alone(r) /\ Justified(permit'[r], permit[r])

(* Who uploads an evaluation manages it.                                   *)
Upload(r, e) ==
    /\ e \notin born /\ born' = born \cup {e}
    /\ permit[r].actor \in users
    /\ \E p \in BOOLEAN :
          eval' = [eval EXCEPT ![e] = [owner |-> permit[r].actor, public |-> p]]
    /\ Left(r, [permit[r] EXCEPT !.manage = permit[r].manage \cup {e}])
    /\ UNCHANGED <<users, groups, role, tag, shared>>

Publish(r, e) ==
    /\ e \in permit[r].manage /\ eval[e] # None
    /\ \E p \in BOOLEAN : eval' = [eval EXCEPT ![e].public = p]
    /\ Left(r, permit[r])
    /\ UNCHANGED <<users, groups, role, born, tag, shared>>

(* The tags r was let through to go, others are left behind.               *)
Remove(r, e) ==
    /\ e \in permit[r].manage
    /\ eval' = [eval EXCEPT ![e] = None]
    /\ tag' = [t \in Tag |-> CASE t \in permit[r].untag -> "gone"
                               [] tag[t] = e /\ t \notin permit[r].untag -> "stray"
                               [] OTHER -> tag[t]]
    /\ shared' = {x \in shared : x[2] # e}
    /\ Left(r, permit[r])
    /\ UNCHANGED <<users, groups, role, born>>

AddTag(r, e, t) ==
    /\ e \in permit[r].manage /\ eval[e] # None
    /\ tag[t] = "unborn" /\ tag' = [tag EXCEPT ![t] = e]
    /\ Left(r, permit[r])
    /\ UNCHANGED <<users, groups, role, born, eval, shared>>

TakeTag(r, t) ==
    /\ t \in permit[r].untag /\ tag' = [tag EXCEPT ![t] = "gone"]
    /\ Left(r, permit[r])
    /\ UNCHANGED <<users, groups, role, born, eval, shared>>

Share(r, g, e) ==
    /\ g \in permit[r].enter /\ e \in permit[r].manage \cup permit[r].read
    /\ g \in groups /\ eval[e] # None
    /\ shared' = shared \cup {<<g, e>>}
    /\ Left(r, [permit[r] EXCEPT !.enter = permit[r].enter \ {g}])
    /\ UNCHANGED <<users, groups, role, born, eval, tag>>

TakeBack(r, e) ==
    /\ shared' = {x \in shared : ~(x[2] = e /\ x[1] \in permit[r].enter)}
    /\ Left(r, [permit[r] EXCEPT !.enter = {}])
    /\ UNCHANGED <<users, groups, role, born, eval, tag>>

-----------------------------------------------------------------------------

Meet(g, u) ==
    /\ \E x \in {"none", "member", "owner"} : role' = [role EXCEPT ![g][u] = x]
    /\ UNCHANGED <<users, groups, born, eval, tag, shared, permit>>

Dissolve(g) ==
    /\ groups' = groups \ {g}
    /\ role' = [role EXCEPT ![g] = [u \in User |-> "none"]]
    /\ shared' = {x \in shared : x[1] # g}
    /\ UNCHANGED <<users, born, eval, tag, permit>>

Leave(u) ==
    /\ users' = users \ {u}
    /\ role' = [g \in Group |-> [role[g] EXCEPT ![u] = "none"]]
    /\ eval' = [e \in Evaluation |->
                  IF eval[e] # None /\ eval[e].owner = u
                  THEN [eval[e] EXCEPT !.owner = None] ELSE eval[e]]
    /\ UNCHANGED <<groups, born, tag, shared, permit>>

Restart == permit' = [r \in Req |-> Nothing] /\ UNCHANGED data

Write(r) ==
    \/ \E e \in Evaluation :
          \/ Upload(r, e) \/ Publish(r, e) \/ Remove(r, e) \/ TakeBack(r, e)
          \/ \E t \in Tag : AddTag(r, e, t)
          \/ \E g \in Group : Share(r, g, e)
    \/ \E t \in Tag : TakeTag(r, t)

ANext ==
    \/ \E r \in Req : Decide(r) \/ Write(r)
    \/ \E g \in Group, u \in User : Meet(g, u)
    \/ \E g \in Group : Dissolve(g)
    \/ \E u \in User : Leave(u)
    \/ Restart

ASpec == AInit /\ [][ANext]_avars

=============================================================================
