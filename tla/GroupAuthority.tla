--------------------------- MODULE GroupAuthority ---------------------------
(***************************************************************************)
(* What the backend promises about group membership, without statements,   *)
(* table rows or local variables: nobody changes a group without a warrant *)
(* for it, which only an owner, an administrator or the founder of the     *)
(* group obtains, and a warrant is good for at most one change.            *)
(***************************************************************************)
CONSTANTS User, Admin, Group, Req

VARIABLES
    users,     \* the accounts that exist
    group,     \* life of each group id: "unborn", "live" or "gone"
    roles,     \* roles[g][u]: the roles u holds in g
    warrants   \* <<r, u, g>>: request r of account u may change g

avars == <<users, group, roles, warrants>>

ARole == {"owner", "member"}

NoRoles == [u \in User |-> {}]

AInit ==
    /\ users = User
    /\ group = [g \in Group |-> "unborn"]
    /\ roles = [g \in Group |-> NoRoles]
    /\ warrants = {}

Spend(w) == w \in warrants /\ warrants' = warrants \ {w}

(* A new group comes with a warrant for its founder.                       *)
Found(r, u, g) ==
    /\ group[g] = "unborn"
    /\ group' = [group EXCEPT ![g] = "live"]
    /\ warrants' = warrants \cup {<<r, u, g>>}
    /\ UNCHANGED <<users, roles>>

(* Who manages the group at this moment obtains a warrant.                 *)
Authorise(r, u, g) ==
    /\ group[g] = "live"
    /\ u \in Admin \/ "owner" \in roles[g][u]
    /\ warrants' = warrants \cup {<<r, u, g>>}
    /\ UNCHANGED <<users, group, roles>>

(* Account v gets role x: instead of the roles it has, or, when two grants *)
(* overlap, beside them.                                                   *)
Grant(w, v, x) ==
    /\ Spend(w)
    /\ v \in users /\ group[w[3]] = "live"
    /\ \E held \in {{x}, roles[w[3]][v] \cup {x}} :
          roles' = [roles EXCEPT ![w[3]][v] = held]
    /\ UNCHANGED <<users, group>>

Revoke(w, v) ==
    /\ Spend(w)
    /\ roles' = [roles EXCEPT ![w[3]][v] = {}]
    /\ UNCHANGED <<users, group>>

Dissolve(w) ==
    /\ Spend(w)
    /\ group' = [group EXCEPT ![w[3]] = "gone"]
    /\ roles' = [roles EXCEPT ![w[3]] = NoRoles]
    /\ UNCHANGED users

(* A request may end without a change, alone or with all the others.       *)
GiveUp(lost) ==
    /\ warrants' = warrants \ lost
    /\ UNCHANGED <<users, group, roles>>

Leave(u) ==
    /\ users' = users \ {u}
    /\ roles' = [g \in Group |-> [roles[g] EXCEPT ![u] = {}]]
    /\ UNCHANGED <<group, warrants>>

ANext ==
    \/ \E r \in Req, u \in User, g \in Group : Found(r, u, g) \/ Authorise(r, u, g)
    \/ \E w \in warrants :
          \/ \E v \in User, x \in ARole : Grant(w, v, x)
          \/ \E v \in User : Revoke(w, v)
          \/ Dissolve(w)
          \/ GiveUp({w})
    \/ GiveUp(warrants)
    \/ \E u \in User : Leave(u)

ASpec == AInit /\ [][ANext]_avars

=============================================================================
