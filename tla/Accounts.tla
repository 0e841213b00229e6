------------------------------ MODULE Accounts ------------------------------
(***************************************************************************)
(* Accounts of the heimdall2 backend: UsersController, UsersService, the   *)
(* sign-in paths of AuthnService and the Users table.                      *)
(*                                                                         *)
(* As in Groups, a request performs one database statement per step.  What *)
(* it edits is a Sequelize instance: a copy of the row taken when it was   *)
(* loaded, of which save() writes the columns that changed, and no others. *)
(***************************************************************************)
EXTENDS Naturals, FiniteSets

CONSTANTS
    Uid,      \* account ids the Users table may hand out, never used twice
    Email,
    Password,
    Random,   \* the password of an account made for an identity provider
    Req,      \* slots for requests that are in flight at the same time
    Anon,     \* nobody: the requester of a request without a token
    None,     \* no value
    Empty,    \* the password of no characters, which no account has
    Ops,      \* the operations requests ask for in this instance
    Edit,     \* the bodies of update requests in this instance
    RegistrationAllowed,
    MaxLogins,  \* bound of the model: sign-ins accepted per account
    Start     \* rows of the table when the server starts

Column == {"email", "role", "force", "pw", "logins"}

Role == {"user", "admin"}

(* forcePasswordChange is null until somebody sets it.                     *)
ForceFlag == {"null", "false", "true"}

Row == [email : Email, role : Role, force : ForceFlag, pw : Password, logins : Nat]

(* The validators refuse an empty email and an empty role, and let an      *)
(* empty password pass.                                                    *)
Body == [email : Email \cup {None}, role : Role \cup {None},
         force : BOOLEAN, pw : Password \cup {None, Empty}]

ASSUME ConstantsAssumption ==
    /\ Random \in Password /\ RegistrationAllowed \in BOOLEAN
    /\ Anon \notin Uid
    /\ None \notin Uid \cup Email \cup Role \cup Password /\ None \notin Row
    /\ Empty \notin Password \cup {None}
    /\ Edit \subseteq Body /\ MaxLogins \in Nat
    /\ IsFiniteSet(Uid) /\ IsFiniteSet(Req)

(* The unique index on email holds of the rows the server starts with.     *)
ASSUME StartAssumption ==
    /\ \A u \in Uid : Start[u] # None => Start[u] \in Row
    /\ Start = [u \in Uid |-> Start[u]]
    /\ \A u, v \in Uid :
          /\ Start[u] # None /\ Start[v] # None
          /\ Start[u].email = Start[v].email
          => u = v

VARIABLES
    db,       \* the rows of Users, None where there is none
    born,     \* the ids handed out so far
    req,      \* what each request in flight holds
    accepted  \* sign-ins accepted for each account, which nothing stores

vars == <<db, born, req, accepted>>

-----------------------------------------------------------------------------

(* actor and asAdmin are request.user; next is the instance a request has  *)
(* loaded and edited, cols the columns in which it differs from the row it *)
(* was loaded from, count the administrators it counted.                   *)
New(pc, op, u, a, v, e, p, b) ==
    [pc |-> pc, op |-> op, actor |-> u, asAdmin |-> a, target |-> v,
     email |-> e, pw |-> p, body |-> b, next |-> None, cols |-> {}, count |-> 0]

Idle == New("idle", "none", Anon, FALSE, None, None, None, None)

At(r, pc) == req[r].pc = pc

(* The request has an instance in hand, and calls save() on it.            *)
Saving(q, u, next, cols) ==
    [q EXCEPT !.pc = "save", !.target = u, !.next = next, !.cols = cols]

Done(r) == req' = [req EXCEPT ![r] = Idle]

Exists(u) == db[u] # None

Existing == {u \in Uid : Exists(u)}

Admins == {u \in Uid : Exists(u) /\ db[u].role = "admin"}

EmailHeld(e, by) == \E u \in by : Exists(u) /\ db[u].email = e

(* Mutant of Taken: the migration forgot the index.                        *)
WithoutIndex(e, by) == FALSE

(* Whether the unique index on email refuses a value next to these rows.   *)
Taken(e, by) == EmailHeld(e, by)

(* Mutant of FullAbility: over its own account too.                        *)
EveryAbility(q) == q.asAdmin

(* An administrator has every ability over other accounts.  Over its own   *)
(* account everybody has the same few, an administrator too.               *)
FullAbility(q) == q.asAdmin /\ q.actor # q.target

MayEdit(q) == FullAbility(q) \/ q.actor = q.target

-----------------------------------------------------------------------------

Init ==
    /\ db = Start
    /\ born = {u \in Uid : Start[u] # None}
    /\ req = [r \in Req |-> Idle]
    /\ accepted = [u \in Uid |-> IF Start[u] = None THEN 0 ELSE Start[u].logins]

(* Bounds of the model: accounts are asked for while there are ids, and    *)
(* sign-ins while MaxLogins is not reached.                                *)
IdsLeft ==
    Cardinality({r \in Req : req[r].op \in {"register", "sso"}})
        < Cardinality(Uid \ born)

LoginsLeft ==
    \A u \in Uid :
        accepted[u] + Cardinality({r \in Req : req[r].op \in {"login", "sso"}})
            < MaxLogins

(* POST /users, for an anonymous or a signed-in requester.                 *)
ReceiveRegister(r) ==
    /\ At(r, "idle") /\ "register" \in Ops /\ IdsLeft
    /\ \E u \in Existing \cup {Anon}, e \in Email, p \in Password :
          /\ RegistrationAllowed \/ u \in Admins
          /\ req' = [req EXCEPT ![r] =
                New("insert", "register", u, FALSE, None, e, p, None)]
    /\ UNCHANGED <<db, born, accepted>>

(* PUT or DELETE /users/:id, with the current password; the guard loads    *)
(* the requester.                                                          *)
ReceiveEdit(r) ==
    /\ At(r, "idle")
    /\ \E u \in Existing, v \in Uid, p \in Password, b \in Edit :
       \E q \in {New("load", "remove", u, u \in Admins, v, None, p, None),
                 New("load", "update", u, u \in Admins, v, None, p, b)} :
          /\ q.op \in Ops
          /\ req' = [req EXCEPT ![r] = q]
    /\ UNCHANGED <<db, born, accepted>>

(* A sign-in with a password, or by way of an identity provider.           *)
ReceiveSignIn(r) ==
    /\ At(r, "idle") /\ LoginsLeft
    /\ \E e \in Email, p \in Password :
       \E q \in {New("find", "login", Anon, FALSE, None, e, p, None),
                 New("find", "sso", Anon, FALSE, None, e, Random, None)} :
          /\ q.op \in Ops /\ (q.op = "sso" => IdsLeft)
          /\ req' = [req EXCEPT ![r] = q]
    /\ UNCHANGED <<db, born, accepted>>

(* Mutant of NewUser: the role is left to a default the column lacks.      *)
UserWithoutRole(q) ==
    [email |-> q.email, role |-> None, force |-> "null", pw |-> q.pw, logins |-> 0]

NewUser(q) ==
    [email |-> q.email, role |-> "user", force |-> "null", pw |-> q.pw, logins |-> 0]

(* create: the INSERT, which the unique index on email may refuse.  The    *)
(* role is 'user', forcePasswordChange stays unset.  An identity provider  *)
(* goes on to look the account up.                                         *)
InsertUser(r) ==
    /\ At(r, "insert")
    /\ LET q == req[r] IN
          IF Taken(q.email, Uid)
          THEN Done(r) /\ UNCHANGED <<db, born>>
          ELSE /\ \E u \in Uid \ born :
                     /\ db' = [db EXCEPT ![u] = NewUser(q)]
                     /\ born' = born \cup {u}
               /\ IF q.op = "sso" THEN req' = [req EXCEPT ![r].pc = "refind"]
                                  ELSE Done(r)
    /\ UNCHANGED accepted

(* findByEmail, and for a sign-in with a password the comparison with the  *)
(* hash that was read.  The sign-in is accepted; loginCount is written by  *)
(* a statement nobody waits for.                                           *)
LoggedIn(row) == [row EXCEPT !.logins = @ + 1]

Accept(r, u) ==
    /\ accepted' = [accepted EXCEPT ![u] = @ + 1]
    /\ req' = [req EXCEPT ![r] = Saving(req[r], u, LoggedIn(db[u]), {"logins"})]

(* Mutant of Refuse: login metadata is written before the comparison.      *)
CountFailure(r, u) ==
    /\ req' = [req EXCEPT ![r] = Saving(req[r], u, LoggedIn(db[u]), {"logins"})]
    /\ UNCHANGED accepted

Refuse(r, u) == Done(r) /\ UNCHANGED accepted

(* Mutant of NotFound: the lookup is repeated until somebody has the email. *)
LookAgain(r) ==
    /\ req' = IF req[r].op = "sso" /\ req[r].pc = "find"
              THEN [req EXCEPT ![r].pc = "insert"] ELSE req
    /\ UNCHANGED accepted

(* Nobody has the email: an identity provider gets an account made, once.  *)
NotFound(r) ==
    /\ IF req[r].op = "sso" /\ req[r].pc = "find"
       THEN req' = [req EXCEPT ![r].pc = "insert"]
       ELSE Done(r)
    /\ UNCHANGED accepted

FindByEmail(r) ==
    /\ At(r, "find") \/ At(r, "refind")
    /\ LET q == req[r] IN
          \/ \E u \in Existing :
                /\ db[u].email = q.email
                /\ IF q.op = "sso" \/ db[u].pw = q.pw
                   THEN Accept(r, u) ELSE Refuse(r, u)
          \/ ~EmailHeld(q.email, Uid) /\ NotFound(r)
    /\ UNCHANGED <<db, born>>

(* Whether an update stores a password: not where it is left out, and not  *)
(* where it is empty.                                                      *)
GivesPassword(b) == b.pw \notin {None, Empty}

(* Mutant of Edited: forcePasswordChange is taken from the body as it is.  *)
EditedUnforced(row, q) ==
    LET b == q.body IN
    [email  |-> IF b.email = None THEN row.email ELSE b.email,
     role   |-> IF FullAbility(q) /\ b.role # None THEN b.role ELSE row.role,
     force  |-> IF b.force THEN "true" ELSE "false",
     pw     |-> IF GivesPassword(b) THEN b.pw ELSE row.pw,
     logins |-> row.logins]

(* What update makes of the loaded row.                                    *)
Edited(row, q) ==
    LET b == q.body
        force == IF GivesPassword(b) THEN "false" ELSE row.force IN
    [email  |-> IF b.email = None THEN row.email ELSE b.email,
     role   |-> IF FullAbility(q) /\ b.role # None THEN b.role ELSE row.role,
     force  |-> IF b.force THEN "true" ELSE force,
     pw     |-> IF GivesPassword(b) THEN b.pw ELSE row.pw,
     logins |-> row.logins]

(* Mutant of Changed: save() writes the whole copy.                        *)
AllColumns(row, next, b) == Column

(* A new password has a new hash, even where the password is the same.     *)
Changed(row, next, b) ==
    {c \in Column : next[c] # row[c]} \cup (IF GivesPassword(b) THEN {"pw"} ELSE {})

(* Who has to change the password must send one; that it is not empty is   *)
(* not asked here.                                                         *)
RefusesEdit(row, q) ==
    \/ ~MayEdit(q)
    \/ ~FullAbility(q) /\ q.pw # row.pw
    \/ q.op = "update" /\ ~FullAbility(q) /\ q.body.pw = None /\ row.force = "true"

(* findByPkBang, the ability check, the password comparison and the edits: *)
(* all of it looks at the row as it was loaded.                            *)
LoadUser(r) ==
    /\ At(r, "load")
    /\ LET q == req[r]
           row == db[q.target] IN
          IF ~Exists(q.target) \/ RefusesEdit(row, q) THEN Done(r)
          ELSE IF q.op = "remove"
          THEN req' = [req EXCEPT ![r].pc = "count", ![r].next = row]
          ELSE LET next == Edited(row, q) IN
               req' = [req EXCEPT ![r] =
                    Saving(q, q.target, next, Changed(row, next, q.body))]
    /\ UNCHANGED <<db, born, accepted>>

(* save(): an UPDATE of the changed columns.  It fails where the unique    *)
(* index on email says so and affects no row where the row is gone.        *)
Merged(row, next, cols) ==
    [c \in Column |-> IF c \in cols THEN next[c] ELSE row[c]]

(* Mutant of Updated: an upsert of the copy.                               *)
Upserted(u, q) ==
    IF "email" \in q.cols /\ Taken(q.next.email, Uid \ {u})
    THEN db ELSE [db EXCEPT ![u] = q.next]

Updated(u, q) ==
    IF ~Exists(u) \/ ("email" \in q.cols /\ Taken(q.next.email, Uid \ {u}))
    THEN db
    ELSE [db EXCEPT ![u] = Merged(db[u], q.next, q.cols)]

SaveUser(r) ==
    /\ At(r, "save")
    /\ db' = Updated(req[r].target, req[r])
    /\ Done(r)
    /\ UNCHANGED <<born, accepted>>

(* Mutant of TooFew: off by one.                                           *)
NoneLeft(n) == n < 1

TooFew(n) == n < 2

(* remove: the count of the administrators, and the check on it.           *)
CountAdmins(r) ==
    /\ At(r, "count")
    /\ LET n == Cardinality(Admins) IN
          IF req[r].next.role = "admin" /\ TooFew(n)
          THEN Done(r)
          ELSE req' = [req EXCEPT ![r].pc = "destroy", ![r].count = n]
    /\ UNCHANGED <<db, born, accepted>>

DestroyUser(r) ==
    /\ At(r, "destroy")
    /\ db' = [db EXCEPT ![req[r].target] = None]
    /\ Done(r)
    /\ UNCHANGED <<born, accepted>>

(* The server process dies: requests in flight stop, what they have        *)
(* written stays.                                                          *)
Crash ==
    /\ \E r \in Req : ~At(r, "idle")
    /\ req' = [r \in Req |-> Idle]
    /\ UNCHANGED <<db, born, accepted>>

Proceed(r) ==
    \/ InsertUser(r) \/ FindByEmail(r) \/ LoadUser(r)
    \/ SaveUser(r)   \/ CountAdmins(r) \/ DestroyUser(r)

Next ==
    \/ \E r \in Req : \/ ReceiveRegister(r) \/ ReceiveEdit(r)
                      \/ ReceiveSignIn(r) \/ Proceed(r)
    \/ Crash

Fairness == \A r \in Req : WF_vars(Proceed(r))

Spec == Init /\ [][Next]_vars

FairSpec == Spec /\ Fairness

-----------------------------------------------------------------------------

Request ==
    [pc      : {"idle", "insert", "find", "refind", "load", "count", "destroy", "save"},
     op      : {"none", "register", "update", "remove", "login", "sso"},
     actor   : Uid \cup {Anon},
     asAdmin : BOOLEAN,
     target  : Uid \cup {None},
     email   : Email \cup {None},
     pw      : Password \cup {None},
     body    : Body \cup {None},
     next    : Row \cup {None},
     cols    : SUBSET Column,
     count   : Nat]

(* Every variable holds a value of its type, and only ids that were handed *)
(* out have a row.                                                         *)
TypeOK ==
    /\ db \in [Uid -> Row \cup {None}]
    /\ born \subseteq Uid /\ Existing \subseteq born
    /\ req \in [Req -> Request]
    /\ accepted \in [Uid -> Nat]

(* An email address signs in to one account, although find-or-create looks *)
(* an account up and inserts it in two steps that overlap with others.     *)
EmailsUnique ==
    \A u, v \in Existing : db[u].email = db[v].email => u = v

(* Lost updates of loginCount only lose: whatever the order of the writes  *)
(* nobody waits for, no account counts more sign-ins than were accepted.   *)
LoginsNeverOvercount ==
    \A u \in Existing : db[u].logins <= accepted[u]

(* There is an administrator.                                              *)
AdminRemains == Admins # {}

(* users.service.ts:129: 'Do not allow the administrator to destroy the    *)
(* only administrator account', for any interleaving of requests.          *)
DestroyKeepsAdmin ==
    [][\A r \in Req : DestroyUser(r) /\ AdminRemains => AdminRemains']_vars

(* A removal leaves an administrator when the count it took and the role   *)
(* it loaded are still right at the DELETE: the check is the right one,    *)
(* only its answer can be out of date.                                     *)
FreshDestroyKeepsAdmin ==
    [][\A r \in Req :
          /\ DestroyUser(r) /\ AdminRemains
          /\ req[r].count = Cardinality(Admins)
          /\ Exists(req[r].target) => db[req[r].target].role = req[r].next.role
          => AdminRemains']_vars

(* An account gets another role only from an update that asks for that     *)
(* role, by someone else who was administrator when it came in.  A save of *)
(* a stale copy never gives a role back, and nothing creates a row as      *)
(* administrator.                                                          *)
RolesAreGranted ==
    [][\A u \in Uid :
          Exists(u)' /\ db'[u].role # (IF Exists(u) THEN db[u].role ELSE "user") =>
             \E r \in Req : /\ SaveUser(r) /\ req[r].op = "update"
                            /\ req[r].target = u /\ req[r].actor # u
                            /\ req[r].asAdmin /\ req[r].body.role = db'[u].role]_vars

(* Once an account has to change its password it has to until a write that *)
(* stores a new one, whoever edits it meanwhile and from whatever copy.    *)
ForceEndsWithPassword ==
    [][\A u \in Uid :
          /\ Exists(u) /\ db[u].force = "true"
          /\ Exists(u)' /\ db'[u].force # "true"
          => \E r \in Req : /\ SaveUser(r) /\ req[r].target = u
                            /\ "pw" \in req[r].cols]_vars

(* A write that comes after the DELETE does not bring the account back.    *)
DeletedStaysDeleted ==
    [][\A u \in born : ~Exists(u) => ~Exists(u)']_vars

(* What a request has been let through to, and what it will write.         *)
LetTo(q) ==
    CASE q.pc = "insert"             -> "open"
      [] q.pc = "refind"             -> "opened"
      [] q.pc = "save"               -> "update"
      [] q.pc \in {"count", "destroy"} -> "remove"
      [] OTHER                       -> "nothing"

Writes(q) == [c \in (IF q.pc = "save" THEN q.cols ELSE {}) |-> q.next[c]]

PermitOf(q) ==
    [asks |-> q.op, who |-> q.actor, badge |-> q.asAdmin, email |-> q.email, pw |-> q.pw,
     on |-> q.target, to |-> LetTo(q), change |-> Writes(q)]

Permits == [r \in Req |-> PermitOf(req[r])]

Authority == INSTANCE AccountAuthority WITH rows <- db, permit <- Permits

(* The handlers implement AccountAuthority: every write of the table,      *)
(* however late and whatever it was loaded from, is one its request was    *)
(* let through to, as itself with its password or as an administrator, and *)
(* writes no more than that.                                               *)
ImplementsAuthority == Authority!ASpec

(* Every request is answered, whatever the others do meanwhile.            *)
RequestsEnd == \A r \in Req : []<>At(r, "idle")

=============================================================================
