------------------------------- MODULE Groups -------------------------------
(***************************************************************************)
(* Group membership of the heimdall2 backend: GroupsController,            *)
(* GroupsService and the GroupUsers table they write.                      *)
(*                                                                         *)
(* Node runs one callback at a time, so the code between two awaits is     *)
(* atomic; each awaited Sequelize call is one statement of the database.   *)
(* A request is therefore a little process that performs one statement per *)
(* step and keeps what it has read in local variables, which may be stale  *)
(* when they are used.  No handler of this module opens a transaction.     *)
(***************************************************************************)
EXTENDS Naturals, FiniteSets

CONSTANTS
    User,    \* ids of the accounts
    Admin,   \* the accounts whose role is 'admin'
    Group,   \* ids the Groups table may hand out, never used twice
    Req,     \* slots for requests that are in flight at the same time
    None     \* stands for a field a request does not use

ASSUME ConstantsAssumption ==
    /\ Admin \subseteq User
    /\ None \notin User \cup Group
    /\ IsFiniteSet(Req) /\ IsFiniteSet(Group)

VARIABLES
    users,   \* the rows of Users
    group,   \* life of each group id: "unborn", "live" or "gone"
    rows,    \* rows[g][u][x]: GroupUsers rows linking g and u with role x
    req      \* what each request in flight holds

vars == <<users, group, rows, req>>

-----------------------------------------------------------------------------

(* groupRole is any string; whatever is not 'owner' does what 'member'     *)
(* does.                                                                   *)
Role == {"owner", "member"}

NoRows == [x \in Role |-> 0]

Nothing == [u \in User |-> 0]

(* The local state of a request; seen[u] counts the rows of u which the    *)
(* last SELECT on GroupUsers returned.                                     *)
New(pc, op, u, g, v, x) ==
    [pc |-> pc, op |-> op, actor |-> u, grp |-> g, target |-> v, role |-> x,
     seen |-> Nothing]

Idle == New("idle", "none", None, None, None, "none")

Request ==
    [pc     : {"idle", "insert", "load", "find", "select", "write"},
     op     : {"none", "create", "add", "remove", "destroy"},
     actor  : User \cup {None},
     grp    : Group \cup {None},
     target : User \cup {None},
     role   : Role \cup {"none"},
     seen   : [User -> Nat]]

(* The pair (g, u) has two rows only after two requests both found none:   *)
(* the migration declares no unique index over groupId and userId.         *)
Rows(g, u) == rows[g][u]["owner"] + rows[g][u]["member"]

OwnerRows(g) == [u \in User |-> rows[g][u]["owner"]]

HasOwner(g) == \E u \in User : rows[g][u]["owner"] > 0

(* Mutant of FewerThanTwo: off by one.                                     *)
NoOwners(count) == \A u \in User : count[u] = 0

(* owners.length < 2, where an account with two owner rows counts twice.   *)
FewerThanTwo(count) ==
    /\ \A u \in User : count[u] < 2
    /\ \A u, v \in User : count[u] > 0 /\ count[v] > 0 => u = v

(* Mutant of MayManage: every member may.                                  *)
MembersManage(u, g) == u \in Admin \/ Rows(g, u) > 0

(* The include of 'users' yields each account once, with the role of one   *)
(* of its rows; so an account with rows of both roles may come out either  *)
(* way and both of these may hold.                                         *)
MayManage(u, g)    == u \in Admin \/ rows[g][u]["owner"] > 0
MayNotManage(u, g) ==
    /\ u \notin Admin
    /\ rows[g][u]["owner"] = 0 \/ rows[g][u]["member"] > 0

At(r, pc) == req[r].pc = pc

Done(r) == req' = [req EXCEPT ![r] = Idle]

Goto(r, pc) == req' = [req EXCEPT ![r].pc = pc]

-----------------------------------------------------------------------------

Init ==
    /\ users = User
    /\ group = [g \in Group |-> "unborn"]
    /\ rows = [g \in Group |-> [u \in User |-> NoRows]]
    /\ req = [r \in Req |-> Idle]

(* Bound of the model: a group is asked for only while there is an id.     *)
IdsLeft ==
    Cardinality({r \in Req : At(r, "insert")})
        < Cardinality({g \in Group : group[g] = "unborn"})

(* The guard loads the requester's row; the ability is built from it.      *)
Asks(u, g, v, x) ==
    {New("load", "add", u, g, v, x),
     New("load", "remove", u, g, v, "none"),
     New("load", "destroy", u, g, None, "none")}
    \cup {q \in {New("insert", "create", u, None, u, "owner")} : IdsLeft}

Receive(r) ==
    /\ At(r, "idle")
    /\ \E u \in users, g \in Group, v \in User, x \in Role :
          \E q \in Asks(u, g, v, x) : req' = [req EXCEPT ![r] = q]
    /\ UNCHANGED <<users, group, rows>>

(* create: the INSERT of the group; its owner is added by the steps below. *)
InsertGroup(r) ==
    /\ At(r, "insert")
    /\ \E g \in Group :
          /\ group[g] = "unborn"
          /\ group' = [group EXCEPT ![g] = "live"]
          /\ req' = [req EXCEPT ![r].pc = "select", ![r].grp = g]
    /\ UNCHANGED <<users, rows>>

(* findByPkBang of the group with its users, and the ability check on it.  *)
LoadGroup(r) ==
    /\ At(r, "load")
    /\ LET q == req[r] IN
          \/ /\ group[q.grp] = "live" /\ MayManage(q.actor, q.grp)
             /\ Goto(r, IF q.op = "destroy" THEN "write" ELSE "find")
          \/ /\ group[q.grp] # "live" \/ MayNotManage(q.actor, q.grp)
             /\ Done(r)
    /\ UNCHANGED <<users, group, rows>>

(* findById of the account to add or to remove.                             *)
FindTarget(r) ==
    /\ At(r, "find")
    /\ IF req[r].target \in users THEN Goto(r, "select") ELSE Done(r)
    /\ UNCHANGED <<users, group, rows>>

(* removeUserFromGroup: $get('users'), then the check on the owners.       *)
SelectOwners(r) ==
    /\ At(r, "select") /\ req[r].op = "remove"
    /\ LET owners == OwnerRows(req[r].grp) IN
          IF FewerThanTwo(owners) /\ owners[req[r].target] > 0
          THEN Done(r)
          ELSE req' = [req EXCEPT ![r].pc = "write", ![r].seen = owners]
    /\ UNCHANGED <<users, group, rows>>

(* Mutant of SelectMembership: $add inserts without a look.                *)
SelectNothing(r) ==
    /\ At(r, "select") /\ req[r].op \in {"add", "create"}
    /\ req' = [req EXCEPT ![r].pc = "write", ![r].seen = Nothing]
    /\ UNCHANGED <<users, group, rows>>

(* $add first reads the rows of the pair ...                               *)
SelectMembership(r) ==
    /\ At(r, "select") /\ req[r].op \in {"add", "create"}
    /\ LET q == req[r] IN
          req' = [req EXCEPT ![r].pc = "write",
                    ![r].seen = [Nothing EXCEPT ![q.target] = Rows(q.grp, q.target)]]
    /\ UNCHANGED <<users, group, rows>>

(* ... and then inserts one, which the foreign keys refuse for an account  *)
(* or a group that is gone, or updates every row the pair has by now.      *)
Inserts(r) == req[r].seen[req[r].target] = 0

(* Mutant of Linkable: no foreign key on groupId.                          *)
LinkableAnywhere(g, u) == u \in users

Linkable(g, u) == u \in users /\ group[g] = "live"

InsertMembership(r) ==
    /\ At(r, "write") /\ req[r].op \in {"add", "create"} /\ Inserts(r)
    /\ LET q == req[r] IN
          rows' = IF Linkable(q.grp, q.target)
                  THEN [rows EXCEPT ![q.grp][q.target][q.role] = @ + 1]
                  ELSE rows
    /\ Done(r)
    /\ UNCHANGED <<users, group>>

UpdateMembership(r) ==
    /\ At(r, "write") /\ req[r].op \in {"add", "create"} /\ ~Inserts(r)
    /\ LET q == req[r] IN
          rows' = [rows EXCEPT ![q.grp][q.target] =
                     [NoRows EXCEPT ![q.role] = Rows(q.grp, q.target)]]
    /\ Done(r)
    /\ UNCHANGED <<users, group>>

(* Mutant of DeleteMembership: takes a row of either role off the pair.    *)
DeleteOneRow(r) ==
    /\ At(r, "write") /\ req[r].op = "remove"
    /\ \E x \in Role :
          rows' = [rows EXCEPT ![req[r].grp][req[r].target][x] = @ - 1]
    /\ Done(r)
    /\ UNCHANGED <<users, group>>

(* $remove deletes every row of the pair.                                  *)
DeleteMembership(r) ==
    /\ At(r, "write") /\ req[r].op = "remove"
    /\ rows' = [rows EXCEPT ![req[r].grp][req[r].target] = NoRows]
    /\ Done(r)
    /\ UNCHANGED <<users, group>>

(* The foreign keys clear groupId, or userId, in the rows that refer to a  *)
(* deleted group or account: such a row belongs to no pair any more.       *)
DestroyGroup(r) ==
    /\ At(r, "write") /\ req[r].op = "destroy"
    /\ group' = [group EXCEPT ![req[r].grp] = "gone"]
    /\ rows' = [rows EXCEPT ![req[r].grp] = [u \in User |-> NoRows]]
    /\ Done(r)
    /\ UNCHANGED users

(* UsersService.remove, whose own checks are those of module Accounts.     *)
DeleteUser(u) ==
    /\ u \in users
    /\ users' = users \ {u}
    /\ rows' = [g \in Group |-> [rows[g] EXCEPT ![u] = NoRows]]
    /\ UNCHANGED <<group, req>>

(* The server process dies: requests in flight stop, what they have        *)
(* written stays.                                                          *)
Crash ==
    /\ \E r \in Req : ~At(r, "idle")
    /\ req' = [r \in Req |-> Idle]
    /\ UNCHANGED <<users, group, rows>>

Proceed(r) ==
    \/ InsertGroup(r)      \/ LoadGroup(r)        \/ FindTarget(r)
    \/ SelectOwners(r)     \/ SelectMembership(r)
    \/ InsertMembership(r) \/ UpdateMembership(r) \/ DeleteMembership(r)
    \/ DestroyGroup(r)

Next ==
    \/ \E r \in Req : Receive(r) \/ Proceed(r)
    \/ \E u \in User : DeleteUser(u)
    \/ Crash

Spec == Init /\ [][Next]_vars

-----------------------------------------------------------------------------

(* Every variable holds a value of its type.                               *)
TypeOK ==
    /\ users \subseteq User
    /\ group \in [Group -> {"unborn", "live", "gone"}]
    /\ rows \in [Group -> [User -> [Role -> Nat]]]
    /\ req \in [Req -> Request]

(* A late write leaves nothing behind: no membership row links an account  *)
(* that was deleted or a group that does not exist, even when the request  *)
(* that writes it looked both up before they went away.                    *)
NoDanglingRows ==
    \A g \in Group, u \in User :
        Rows(g, u) > 0 => u \in users /\ group[g] = "live"

(* Requests which found no row of the pair and are about to insert one.    *)
PendingInserts(g, u) ==
    {r \in Req : /\ At(r, "write") /\ req[r].op \in {"add", "create"}
                 /\ req[r].grp = g /\ req[r].target = u /\ Inserts(r)}

(* Duplicate membership rows come only from requests that overlap: a pair  *)
(* never has more rows than requests can be in flight together, counting   *)
(* the inserts still to come; one request at a time keeps rows unique.     *)
DuplicatesBounded ==
    \A g \in Group, u \in User :
        Rows(g, u) + Cardinality(PendingInserts(g, u)) <= Cardinality(Req)

(* A request that passed the ability check of its group.                   *)
Authorised(r, g) ==
    /\ req[r].grp = g
    /\ \E pc \in {"find", "select", "write"} : At(r, pc)

(* A live group without an owner, on which only administrators act.        *)
Orphaned(g) ==
    /\ group[g] = "live" /\ ~HasOwner(g)
    /\ \A r \in Req : Authorised(r, g) => req[r].actor \in Admin

(* A group nobody owns can be brought back, or destroyed, by a request of  *)
(* an administrator only: no member, and no owner of another group, can    *)
(* get a hold of it.                                                       *)
OrphanNeedsAdmin ==
    [][\A g \in Group :
          Orphaned(g) =>
             \/ Orphaned(g)'
             \/ \E r \in Req : /\ Authorised(r, g) /\ At(r, "write")
                               /\ req[r].actor \in Admin
                               /\ req'[r].pc = "idle"]_vars

(* removeUserFromGroup keeps an owner in the group when the owners it      *)
(* counted are still the owners at the DELETE and each has one row: the    *)
(* check is the right one, only its answer can be out of date.             *)
FreshRemovalKeepsOwner ==
    [][\A r \in Req, g \in Group :
          /\ DeleteMembership(r) /\ req[r].grp = g /\ HasOwner(g)
          /\ req[r].seen = OwnerRows(g)
          /\ \A u \in User : req[r].seen[u] < 2
          => HasOwner(g)']_vars

(* groups.service.spec.ts:136: 'should not remove the last owner from a    *)
(* group', for any interleaving of requests.                               *)
RemovalKeepsOwner ==
    [][\A r \in Req, g \in Group :
          DeleteMembership(r) /\ req[r].grp = g /\ HasOwner(g)
             => HasOwner(g)']_vars

(* The roles an account holds in a group, and the requests under way that  *)
(* passed the ability check, are what GroupAuthority speaks of.            *)
Held == [g \in Group |-> [u \in User |-> {x \in Role : rows[g][u][x] > 0}]]

Warrants == {w \in Req \X User \X Group :
                Authorised(w[1], w[3]) /\ req[w[1]].actor = w[2]}

Authority == INSTANCE GroupAuthority WITH roles <- Held, warrants <- Warrants

(* The handlers implement GroupAuthority: every write, however late, is    *)
(* the single change of a request that was authorised for that group.      *)
ImplementsAuthority == Authority!ASpec

=============================================================================
