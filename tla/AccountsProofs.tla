--------------------------- MODULE AccountsProofs ---------------------------
(***************************************************************************)
(* Proofs about Accounts, for every set of accounts and requests.          *)
(***************************************************************************)
EXTENDS Accounts, FiniteSetTheorems, TLAPS

(* What a request under way holds: the fields its next statement uses.     *)
WellFormed(q) ==
    /\ q.pc \in {"insert", "find", "refind"} =>
          /\ q.email \in Email /\ q.pw \in Password
          /\ q.op \in {"register", "login", "sso"}
    /\ q.pc = "find" => q.op \in {"login", "sso"}
    /\ q.pc = "refind" => q.op = "sso"
    /\ q.pc \in {"load", "count", "destroy", "save"} => q.target \in Uid
    /\ q.pc = "load" => /\ q.op \in {"update", "remove"} /\ q.pw \in Password
                        /\ q.actor \in Uid
                        /\ q.op = "update" => q.body \in Body
    /\ q.pc \in {"count", "destroy", "save"} => q.next \in Row
    /\ q.pc \in {"count", "destroy"} => q.op = "remove"
    /\ q.pc = "insert" => q.op \in {"register", "sso"}

TypeInv == TypeOK /\ \A r \in Req : WellFormed(req[r])

LEMMA IdleIsRequest == Idle \in Request /\ WellFormed(Idle)
  BY DEF Idle, New, Request, WellFormed

LEMMA TypeInit == Init => TypeInv
<1> SUFFICES ASSUME Init PROVE TypeInv
  OBVIOUS
<1>1. db \in [Uid -> Row \cup {None}]
  BY StartAssumption DEF Init
<1>2. accepted \in [Uid -> Nat]
  BY StartAssumption DEF Init, Row
<1> QED
  BY <1>1, <1>2, IdleIsRequest DEF Init, TypeInv, TypeOK, Existing, Exists

LEMMA OneRequest ==
    ASSUME TypeInv, NEW r \in Req, NEW q \in Request, WellFormed(q),
           req' = [req EXCEPT ![r] = q]
    PROVE  /\ req' \in [Req -> Request]
           /\ \A s \in Req : WellFormed(req'[s])
  BY DEF TypeInv, TypeOK

LEMMA SavingIsRequest ==
    ASSUME NEW q \in Request, NEW u \in Uid, NEW next \in Row,
           NEW cols \in SUBSET Column
    PROVE  Saving(q, u, next, cols) \in Request /\ WellFormed(Saving(q, u, next, cols))
  BY DEF Saving, Request, WellFormed

Moves(r) == \E q \in Request : WellFormed(q) /\ req' = [req EXCEPT ![r] = q]

LEMMA DoneMoves == ASSUME NEW r \in Req, Done(r) PROVE Moves(r)
  BY IdleIsRequest DEF Done, Moves

LEMMA MovesKeepTypes ==
    ASSUME TypeInv, NEW r \in Req, Moves(r), UNCHANGED <<db, born>>,
           accepted' \in [Uid -> Nat]
    PROVE  TypeInv'
<1>1. req' \in [Req -> Request] /\ \A s \in Req : WellFormed(req'[s])
  BY OneRequest DEF Moves
<1> QED
  BY <1>1 DEF TypeInv, TypeOK, Existing, Exists

LEMMA TypeReceive ==
    ASSUME TypeInv, NEW r \in Req,
           ReceiveRegister(r) \/ ReceiveEdit(r) \/ ReceiveSignIn(r)
    PROVE  TypeInv'
<1>0. Existing \subseteq Uid /\ Edit \subseteq Body /\ Random \in Password
  BY ConstantsAssumption DEF Existing
<1>1. CASE ReceiveRegister(r)
  <2>1. PICK u \in Existing \cup {Anon}, e \in Email, p \in Password :
          req' = [req EXCEPT ![r] = New("insert", "register", u, FALSE, None, e, p, None)]
    BY <1>1 DEF ReceiveRegister
  <2> DEFINE q == New("insert", "register", u, FALSE, None, e, p, None)
  <2>2. q \in Request /\ WellFormed(q)
    BY <1>0 DEF New, Request, WellFormed
  <2> QED
    BY <1>1, <2>1, <2>2, MovesKeepTypes DEF Moves, ReceiveRegister, TypeInv, TypeOK
<1>2. CASE ReceiveEdit(r)
  <2>1. PICK u \in Existing, v \in Uid, p \in Password, b \in Edit :
          \E q \in {New("load", "remove", u, u \in Admins, v, None, p, None),
                    New("load", "update", u, u \in Admins, v, None, p, b)} :
             req' = [req EXCEPT ![r] = q]
    BY <1>2 DEF ReceiveEdit
  <2> DEFINE q1 == New("load", "remove", u, u \in Admins, v, None, p, None)
             q2 == New("load", "update", u, u \in Admins, v, None, p, b)
  <2>0. (u \in Admins) \in BOOLEAN
    OBVIOUS
  <2>2. q1 \in Request /\ WellFormed(q1)
    <3> DEFINE a == u \in Admins
    <3> HIDE DEF a
    <3> QED BY <1>0, <2>0 DEF New, Request, WellFormed, a
  <2>3. q2 \in Request /\ WellFormed(q2)
    <3> DEFINE a == u \in Admins
    <3> HIDE DEF a
    <3> QED BY <1>0, <2>0 DEF New, Request, WellFormed, a
  <2>4. req' = [req EXCEPT ![r] = q1] \/ req' = [req EXCEPT ![r] = q2]
    BY <2>1
  <2> HIDE DEF q1, q2
  <2>5. Moves(r)
    BY <2>2, <2>3, <2>4 DEF Moves
  <2> QED
    BY <1>2, <2>5, MovesKeepTypes DEF ReceiveEdit, TypeInv, TypeOK
<1>3. CASE ReceiveSignIn(r)
  <2>1. PICK e \in Email, p \in Password :
          \E q \in {New("find", "login", Anon, FALSE, None, e, p, None),
                    New("find", "sso", Anon, FALSE, None, e, Random, None)} :
             req' = [req EXCEPT ![r] = q]
    BY <1>3 DEF ReceiveSignIn
  <2> DEFINE q1 == New("find", "login", Anon, FALSE, None, e, p, None)
             q2 == New("find", "sso", Anon, FALSE, None, e, Random, None)
  <2>2. q1 \in Request /\ WellFormed(q1)
    BY DEF New, Request, WellFormed
  <2>3. q2 \in Request /\ WellFormed(q2)
    BY <1>0 DEF New, Request, WellFormed
  <2>4. req' = [req EXCEPT ![r] = q1] \/ req' = [req EXCEPT ![r] = q2]
    BY <2>1
  <2> HIDE DEF q1, q2
  <2>5. Moves(r)
    BY <2>2, <2>3, <2>4 DEF Moves
  <2> QED
    BY <1>3, <2>5, MovesKeepTypes DEF ReceiveSignIn, TypeInv, TypeOK
<1> QED
  BY <1>1, <1>2, <1>3

(* A row update works with: what save() writes is a row again.             *)
LEMMA MergedIsRow ==
    ASSUME NEW row \in Row, NEW next \in Row, NEW cols \in SUBSET Column
    PROVE  /\ Merged(row, next, cols) \in Row
           /\ \A c \in Column : Merged(row, next, cols)[c]
                 = IF c \in cols THEN next[c] ELSE row[c]
           /\ \A c \in {"email", "role", "force", "pw", "logins"} :
                 Merged(row, next, cols)[c] = IF c \in cols THEN next[c] ELSE row[c]
  BY DEF Merged, Row, Column

LEMMA EditedIsRow ==
    ASSUME NEW row \in Row, NEW q, q.body \in Body
    PROVE  /\ Edited(row, q) \in Row
           /\ Changed(row, Edited(row, q), q.body) \subseteq Column
<1>1. /\ q.body.email \in Email \cup {None} /\ q.body.role \in Role \cup {None}
      /\ q.body.force \in BOOLEAN /\ q.body.pw \in Password \cup {None, Empty}
  BY DEF Body
<1>2. /\ row.email \in Email /\ row.role \in Role /\ row.force \in ForceFlag
      /\ row.pw \in Password /\ row.logins \in Nat
  BY DEF Row
<1>3. Edited(row, q) \in Row
  BY <1>1, <1>2 DEF Edited, GivesPassword, Row, ForceFlag
<1>4. Changed(row, Edited(row, q), q.body) \subseteq Column
  BY DEF Changed, Column
<1> QED
  BY <1>3, <1>4

(* What LoadUser does, case by case.                                       *)
LEMMA LoadCases ==
    ASSUME TypeInv, NEW r \in Req, LoadUser(r)
    PROVE  \/ Done(r)
           \/ /\ req[r].op = "remove" /\ Exists(req[r].target)
              /\ db[req[r].target] \in Row /\ MayEdit(req[r])
              /\ req' = [req EXCEPT ![r] =
                   [req[r] EXCEPT !.pc = "count", !.next = db[req[r].target]]]
           \/ /\ req[r].op = "update" /\ Exists(req[r].target)
              /\ db[req[r].target] \in Row /\ MayEdit(req[r])
              /\ req[r].body \in Body
              /\ req' = [req EXCEPT ![r] =
                   Saving(req[r], req[r].target, Edited(db[req[r].target], req[r]),
                          Changed(db[req[r].target],
                                  Edited(db[req[r].target], req[r]), req[r].body))]
<1>1. /\ req[r].op \in {"update", "remove"} /\ req[r].target \in Uid
      /\ req[r].op = "update" => req[r].body \in Body
  BY DEF TypeInv, WellFormed, LoadUser, At
<1>2. Exists(req[r].target) => db[req[r].target] \in Row
  BY <1>1 DEF TypeInv, TypeOK, Exists
<1> QED
  BY <1>1, <1>2 DEF LoadUser, RefusesEdit

LEMMA AdminsFinite == IsFiniteSet(Admins) /\ Cardinality(Admins) \in Nat
<1>1. Admins \subseteq Uid /\ IsFiniteSet(Uid)
  BY ConstantsAssumption DEF Admins
<1> QED
  BY <1>1, FS_Subset, FS_CardinalityType

LEMMA TypeProceed ==
    ASSUME TypeInv, NEW r \in Req, Proceed(r) PROVE TypeInv'
<1>w. WellFormed(req[r]) /\ req[r] \in Request
  BY DEF TypeInv, TypeOK
<1>a. accepted \in [Uid -> Nat] /\ db \in [Uid -> Row \cup {None}]
  BY DEF TypeInv, TypeOK
<1>1. CASE InsertUser(r)
  <2>1. CASE UNCHANGED <<db, born>> /\ Done(r)
    BY <1>1, <1>a, <2>1, DoneMoves, MovesKeepTypes DEF InsertUser
  <2>2. CASE ~(UNCHANGED <<db, born>> /\ Done(r))
    <3> DEFINE row == NewUser(req[r])
               q == [req[r] EXCEPT !.pc = "refind"]
    <3>1. PICK u \in Uid \ born : /\ db' = [db EXCEPT ![u] = row]
                                  /\ born' = born \cup {u}
      BY <1>1, <2>2 DEF InsertUser
    <3>2. row \in Row
      BY <1>w, <1>1 DEF InsertUser, At, WellFormed, NewUser, Row, Role, ForceFlag
    <3> HIDE DEF row
    <3>3. q \in Request /\ (req[r].op = "sso" => WellFormed(q))
      BY <1>w, <1>1 DEF Request, WellFormed, InsertUser, At
    <3>4. Done(r) \/ (req[r].op = "sso" /\ req' = [req EXCEPT ![r] = q])
      BY <1>1, <2>2 DEF InsertUser
    <3> HIDE DEF q
    <3>5. Moves(r)
      BY <3>3, <3>4, DoneMoves DEF Moves
    <3>6. req' \in [Req -> Request] /\ \A s \in Req : WellFormed(req'[s])
      BY <3>5, OneRequest DEF Moves
    <3>7. /\ db' \in [Uid -> Row \cup {None}] /\ born' \subseteq Uid
          /\ Existing' \subseteq born'
      BY <3>1, <3>2, <1>a DEF TypeInv, TypeOK, Existing, Exists
    <3> QED
      BY <1>1, <3>6, <3>7, <1>a DEF InsertUser, TypeInv, TypeOK
  <2> QED
    BY <2>1, <2>2
<1>2. CASE FindByEmail(r)
  <2>0. UNCHANGED <<db, born>>
    BY <1>2 DEF FindByEmail
  <2>1. CASE Done(r) /\ UNCHANGED accepted
    BY <2>0, <2>1, <1>a, DoneMoves, MovesKeepTypes
  <2>2. ASSUME NEW u \in Existing, Accept(r, u), req[r].op \in {"register", "login", "sso"}
        PROVE  TypeInv'
    <3>1. u \in Uid /\ db[u] \in Row
      BY <1>a, <2>2 DEF Existing, Exists
    <3> DEFINE q == Saving(req[r], u, LoggedIn(db[u]), {"logins"})
    <3>2. LoggedIn(db[u]) \in Row
      BY <3>1 DEF Row, LoggedIn
    <3>3. q \in Request /\ WellFormed(q)
      BY <1>w, <3>1, <3>2, SavingIsRequest DEF Column
    <3>4. req' = [req EXCEPT ![r] = q]
      BY <2>2 DEF Accept
    <3>5. accepted' \in [Uid -> Nat]
      BY <2>2, <3>1, <1>a DEF Accept
    <3> HIDE DEF q
    <3> QED
      BY <2>0, <3>3, <3>4, <3>5, MovesKeepTypes DEF Moves
  <2>3. CASE req' = [req EXCEPT ![r].pc = "insert"] /\ UNCHANGED accepted /\ req[r].op = "sso"
             /\ req[r].pc = "find"
    <3> DEFINE q == [req[r] EXCEPT !.pc = "insert"]
    <3>1. q \in Request /\ WellFormed(q) /\ req' = [req EXCEPT ![r] = q]
      BY <1>w, <2>3 DEF Request, WellFormed
    <3> HIDE DEF q
    <3> QED
      BY <2>0, <2>3, <1>a, <3>1, MovesKeepTypes DEF Moves
  <2>4. req[r].op \in {"register", "login", "sso"}
    BY <1>w, <1>2 DEF FindByEmail, At, WellFormed
  <2> QED
    BY <1>2, <2>1, <2>2, <2>3, <2>4 DEF FindByEmail, Refuse, NotFound
<1>3. CASE LoadUser(r)
  <2>0. UNCHANGED <<db, born, accepted>>
    BY <1>3 DEF LoadUser
  <2>t. req[r].target \in Uid
    BY <1>w, <1>3 DEF LoadUser, At, WellFormed
  <2>1. CASE Done(r)
    BY <2>0, <2>1, <1>a, DoneMoves, MovesKeepTypes
  <2>2. CASE req[r].op = "remove" /\ ~Done(r)
    <3> DEFINE row == db[req[r].target]
               q == [req[r] EXCEPT !.pc = "count", !.next = row]
    <3>1. row \in Row /\ req' = [req EXCEPT ![r] = q]
      BY <1>3, <2>2, LoadCases
    <3>2. q \in Request /\ WellFormed(q)
      <4> HIDE DEF row
      <4> QED BY <1>w, <2>t, <2>2, <3>1 DEF Request, WellFormed
    <3> HIDE DEF q
    <3> QED
      BY <2>0, <1>a, <3>1, <3>2, MovesKeepTypes DEF Moves
  <2>3. CASE req[r].op = "update" /\ ~Done(r)
    <3> DEFINE row == db[req[r].target]
               next == Edited(row, req[r])
               cols == Changed(row, next, req[r].body)
               q == Saving(req[r], req[r].target, next, cols)
    <3>1. row \in Row /\ req' = [req EXCEPT ![r] = q] /\ req[r].body \in Body
      BY <1>3, <2>3, LoadCases
    <3>2. next \in Row /\ cols \in SUBSET Column
      BY <3>1, EditedIsRow
    <3>3. q \in Request /\ WellFormed(q)
      BY <1>w, <2>t, <3>2, SavingIsRequest
    <3> HIDE DEF q
    <3> QED
      BY <2>0, <1>a, <3>1, <3>3, MovesKeepTypes DEF Moves
  <2> QED
    BY <1>3, <2>1, <2>2, <2>3, LoadCases
<1>4. CASE SaveUser(r)
  <2>1. req[r].target \in Uid /\ req[r].next \in Row /\ req[r].cols \in SUBSET Column
    BY <1>w, <1>4 DEF SaveUser, At, WellFormed, Request
  <2>2. db' \in [Uid -> Row \cup {None}] /\ Existing' \subseteq Existing
    <3>1. CASE db' = db
      BY <1>a, <3>1 DEF Existing, Exists
    <3>2. CASE db' # db
      <4> DEFINE m == Merged(db[req[r].target], req[r].next, req[r].cols)
      <4>1. Exists(req[r].target) /\ db' = [db EXCEPT ![req[r].target] = m]
        <5> HIDE DEF m
        <5>1. db' = Updated(req[r].target, req[r])
          BY <1>4 DEF SaveUser
        <5> QED
          BY <5>1, <3>2 DEF Updated, m
      <4>2. m \in Row
        BY <1>a, <2>1, <4>1, MergedIsRow DEF Exists
      <4> HIDE DEF m
      <4> QED
        BY <1>a, <2>1, <4>1, <4>2 DEF Existing, Exists
    <3> QED
      BY <3>1, <3>2
  <2>3. req' \in [Req -> Request] /\ \A s \in Req : WellFormed(req'[s])
    BY <1>4, DoneMoves, OneRequest DEF SaveUser, Moves
  <2> QED
    BY <1>4, <2>2, <2>3 DEF SaveUser, TypeInv, TypeOK
<1>5. CASE CountAdmins(r)
  <2>0. UNCHANGED <<db, born, accepted>>
    BY <1>5 DEF CountAdmins
  <2>1. CASE Done(r)
    BY <2>0, <2>1, <1>a, DoneMoves, MovesKeepTypes
  <2>2. CASE ~Done(r)
    <3> DEFINE q == [req[r] EXCEPT !.pc = "destroy", !.count = Cardinality(Admins)]
    <3>1. Cardinality(Admins) \in Nat
      BY AdminsFinite
    <3>2. q \in Request /\ WellFormed(q)
      BY <1>w, <1>5, <3>1 DEF Request, WellFormed, CountAdmins, At
    <3>3. req' = [req EXCEPT ![r] = q]
      BY <1>5, <2>2 DEF CountAdmins
    <3> HIDE DEF q
    <3> QED
      BY <2>0, <1>a, <3>2, <3>3, MovesKeepTypes DEF Moves
  <2> QED
    BY <2>1, <2>2
<1>6. CASE DestroyUser(r)
  <2>1. db' \in [Uid -> Row \cup {None}] /\ Existing' \subseteq Existing
    BY <1>6, <1>a DEF DestroyUser, Existing, Exists
  <2>2. req' \in [Req -> Request] /\ \A s \in Req : WellFormed(req'[s])
    BY <1>6, DoneMoves, OneRequest DEF DestroyUser, Moves
  <2> QED
    BY <1>6, <2>1, <2>2 DEF DestroyUser, TypeInv, TypeOK
<1> QED
  BY <1>1, <1>2, <1>3, <1>4, <1>5, <1>6 DEF Proceed

LEMMA TypeStep ==
    ASSUME TypeInv, [Next]_vars PROVE TypeInv'
<1>1. CASE Crash
  BY <1>1, IdleIsRequest DEF TypeInv, TypeOK, Crash, Existing, Exists
<1>2. CASE UNCHANGED vars
  BY <1>2 DEF TypeInv, TypeOK, vars, Existing, Exists
<1> QED
  BY <1>1, <1>2, TypeReceive, TypeProceed DEF Next

(* Every variable keeps its type, and only ids handed out have rows.       *)
THEOREM TypeCorrect == Spec => []TypeOK
<1>1. TypeInv => TypeOK
  BY DEF TypeInv
<1> QED
  BY <1>1, TypeInit, TypeStep, PTL DEF Spec

-----------------------------------------------------------------------------

(* What a request that is about to write has behind it: for a role an      *)
(* administrator who asked for it, for the end of a forced password change *)
(* a new password, for a removal a count of two or more.                   *)
Granted(q) ==
    /\ q.pc = "save" /\ "role" \in q.cols =>
          /\ q.op = "update" /\ q.asAdmin /\ q.actor # q.target
          /\ q.body.role = q.next.role
    /\ q.pc = "save" /\ "force" \in q.cols /\ q.next.force # "true" =>
          "pw" \in q.cols
    /\ q.pc = "destroy" /\ q.next.role = "admin" => q.count >= 2

AllGranted == \A r \in Req : Granted(req[r])

LEMMA EditIsGranted ==
    ASSUME NEW q \in Request, q.op = "update", q.body \in Body, NEW row \in Row
    PROVE  Granted(Saving(q, q.target, Edited(row, q),
                          Changed(row, Edited(row, q), q.body)))
<1> DEFINE next == Edited(row, q)
           cols == Changed(row, next, q.body)
           s == Saving(q, q.target, next, cols)
<1>1. /\ s.pc = "save" /\ s.op = "update" /\ s.asAdmin = q.asAdmin
      /\ s.actor = q.actor /\ s.target = q.target /\ s.body = q.body
      /\ s.next = next /\ s.cols = cols
  BY DEF Saving, Request
<1>2. ASSUME "role" \in cols
      PROVE  q.asAdmin /\ q.actor # q.target /\ q.body.role = next.role
  <2>1. next.role # row.role
    BY <1>2 DEF Changed
  <2> QED
    BY <2>1 DEF Edited, FullAbility
<1>3. ASSUME "force" \in cols, next.force # "true"
      PROVE  "pw" \in cols
  <2>1. next.force # row.force
    BY <1>3 DEF Changed
  <2>2. GivesPassword(q.body)
    BY <1>3, <2>1 DEF Edited
  <2> QED
    BY <2>2 DEF Changed
<1> HIDE DEF next, cols, s
<1> QED
  BY <1>1, <1>2, <1>3 DEF Granted, s, next, cols

(* A request moves to save or destroy in three ways only.                  *)
LEMMA GrantedStep ==
    ASSUME TypeInv, AllGranted, [Next]_vars PROVE AllGranted'
<1> SUFFICES ASSUME NEW s \in Req PROVE Granted(req'[s])
  BY DEF AllGranted
<1>t. req \in [Req -> Request] /\ WellFormed(req[s]) /\ req[s] \in Request
  BY DEF TypeInv, TypeOK
<1>i. Granted(Idle)
  BY DEF Granted, Idle, New
<1>0. CASE req'[s] = req[s]
  BY <1>0 DEF AllGranted
<1>1. CASE req'[s] # req[s]
  <2>1. \/ Crash
        \/ ReceiveRegister(s) \/ ReceiveEdit(s) \/ ReceiveSignIn(s) \/ Proceed(s)
    <3>1. ASSUME NEW r \in Req, r # s,
                 ReceiveRegister(r) \/ ReceiveEdit(r) \/ ReceiveSignIn(r) \/ Proceed(r)
          PROVE  FALSE
      BY <1>1, <1>t, <3>1 DEF ReceiveRegister, ReceiveEdit, ReceiveSignIn, Proceed,
         InsertUser, FindByEmail, Accept, Refuse, NotFound, LoadUser, SaveUser,
         CountAdmins, DestroyUser, Done
    <3> QED
      BY <1>1, <3>1 DEF Next, vars
  <2>2. CASE Crash
    BY <2>2, <1>i DEF Crash
  <2>3. CASE Done(s)
    BY <2>3, <1>t, <1>i DEF Done
  <2>4. CASE ReceiveRegister(s) \/ ReceiveEdit(s) \/ ReceiveSignIn(s)
    <3>1. req'[s].pc \in {"insert", "load", "find"}
      BY <2>4, <1>t DEF ReceiveRegister, ReceiveEdit, ReceiveSignIn, New
    <3> QED
      BY <3>1 DEF Granted
  <2>5. CASE InsertUser(s) /\ ~Done(s)
    <3>1. req'[s].pc = "refind"
      BY <2>5, <1>t DEF InsertUser, Request
    <3> QED
      BY <3>1 DEF Granted
  <2>6. CASE FindByEmail(s) /\ ~Done(s)
    <3>1. CASE req' = [req EXCEPT ![s].pc = "insert"]
      <4>1. req'[s].pc = "insert"
        BY <3>1, <1>t DEF Request
      <4> QED
        BY <4>1 DEF Granted
    <3>2. ASSUME NEW u \in Existing, Accept(s, u) PROVE Granted(req'[s])
      <4>1. req'[s] = Saving(req[s], u, LoggedIn(db[u]), {"logins"})
        BY <3>2, <1>t DEF Accept
      <4>2. req'[s].pc = "save" /\ req'[s].cols = {"logins"}
        BY <4>1, <1>t DEF Saving, Request
      <4> QED
        BY <4>2 DEF Granted
    <3> QED
      BY <2>6, <3>1, <3>2 DEF FindByEmail, Refuse, NotFound
  <2>7. CASE LoadUser(s) /\ ~Done(s)
    <3>1. CASE req[s].op = "remove"
      <4> DEFINE q == [req[s] EXCEPT !.pc = "count", !.next = db[req[s].target]]
      <4>0. req' = [req EXCEPT ![s] = q] /\ q.pc = "count"
        BY <2>7, <3>1, <1>t, LoadCases DEF Request
      <4> HIDE DEF q
      <4>1. req'[s].pc = "count"
        BY <4>0, <1>t
      <4> QED
        BY <4>1 DEF Granted
    <3>2. CASE req[s].op # "remove"
      <4> DEFINE row == db[req[s].target]
                 q == Saving(req[s], req[s].target, Edited(row, req[s]),
                             Changed(row, Edited(row, req[s]), req[s].body))
      <4>1. /\ req[s].op = "update" /\ row \in Row /\ req[s].body \in Body
            /\ req' = [req EXCEPT ![s] = q]
        BY <2>7, <3>2, LoadCases
      <4>2. Granted(q)
        BY <4>1, <1>t, EditIsGranted
      <4> HIDE DEF q
      <4> QED
        BY <4>1, <4>2, <1>t
    <3> QED
      BY <3>1, <3>2
  <2>8. CASE CountAdmins(s) /\ ~Done(s)
    <3> DEFINE n == Cardinality(Admins)
    <3>1. /\ ~(req[s].next.role = "admin" /\ TooFew(n))
          /\ req' = [req EXCEPT ![s].pc = "destroy", ![s].count = n]
      BY <2>8 DEF CountAdmins
    <3>2. req'[s].pc = "destroy" /\ req'[s].count = n /\ req'[s].next = req[s].next
      BY <3>1, <1>t DEF Request
    <3>3. n \in Nat
      BY AdminsFinite
    <3>4. req'[s].next.role = "admin" => n >= 2
      <4> HIDE DEF n
      <4> QED BY <3>1, <3>2, <3>3 DEF TooFew
    <3> QED
      BY <3>2, <3>4 DEF Granted
  <2>9. CASE SaveUser(s) \/ DestroyUser(s)
    BY <2>3, <2>9 DEF SaveUser, DestroyUser
  <2> QED
    BY <2>1, <2>2, <2>3, <2>4, <2>5, <2>6, <2>7, <2>8, <2>9 DEF Proceed
<1> QED
  BY <1>0, <1>1

LEMMA GrantedInit == Init => AllGranted
  BY DEF Init, AllGranted, Granted, Idle, New

-----------------------------------------------------------------------------

(* The steps that write the Users table; the rest leaves it alone.         *)
LEMMA Writers ==
    ASSUME [Next]_vars, db' # db
    PROVE  \E r \in Req : InsertUser(r) \/ SaveUser(r) \/ DestroyUser(r)
  BY DEF Next, vars, ReceiveRegister, ReceiveEdit, ReceiveSignIn, Proceed,
     FindByEmail, LoadUser, CountAdmins, Crash

LEMMA Inserted ==
    ASSUME TypeInv, NEW r \in Req, InsertUser(r), db' # db
    PROVE  /\ ~Taken(req[r].email, Uid)
           /\ \E v \in Uid \ born : db' = [db EXCEPT ![v] = NewUser(req[r])]
           /\ NewUser(req[r]) # None
<1>1. NewUser(req[r]) \in Row
  BY DEF TypeInv, WellFormed, InsertUser, At, NewUser, Row, Role, ForceFlag
<1> QED
  BY <1>1, ConstantsAssumption DEF InsertUser

LEMMA Saved ==
    ASSUME TypeInv, NEW r \in Req, SaveUser(r), db' # db
    PROVE  LET q == req[r]
               m == Merged(db[q.target], q.next, q.cols) IN
           /\ q.target \in Uid /\ Exists(q.target) /\ db[q.target] \in Row
           /\ q.next \in Row /\ q.cols \in SUBSET Column
           /\ db' = [db EXCEPT ![q.target] = m] /\ m \in Row /\ m # None
           /\ db'[q.target] = m
           /\ "email" \in q.cols => ~Taken(q.next.email, Uid \ {q.target})
<1> DEFINE q == req[r]
           m == Merged(db[q.target], q.next, q.cols)
<1>1. q.target \in Uid /\ q.next \in Row /\ q.cols \in SUBSET Column
  BY DEF TypeInv, TypeOK, SaveUser, At, WellFormed, Request
<1>2. db' = Updated(q.target, q)
  BY DEF SaveUser
<1>3. /\ Exists(q.target) /\ db' = [db EXCEPT ![q.target] = m]
      /\ "email" \in q.cols => ~Taken(q.next.email, Uid \ {q.target})
  <2> HIDE DEF q, m
  <2> QED
    BY <1>2 DEF Updated, m
<1>4. db \in [Uid -> Row \cup {None}] /\ db[q.target] \in Row
  BY <1>1, <1>3 DEF TypeInv, TypeOK, Exists
<1>5. m \in Row
  BY <1>1, <1>4, MergedIsRow
<1>6. m # None
  BY <1>5, ConstantsAssumption
<1> HIDE DEF q, m
<1>7. db'[q.target] = m
  BY <1>1, <1>3, <1>4
<1> QED
  BY <1>1, <1>3, <1>4, <1>5, <1>6, <1>7 DEF q, m

LEMMA DeletedStep ==
    ASSUME TypeInv, [Next]_vars, NEW u \in born, ~Exists(u) PROVE ~Exists(u)'
<1>0. CASE db' = db
  BY <1>0 DEF Exists
<1>1. ASSUME NEW r \in Req, InsertUser(r), db' # db PROVE ~Exists(u)'
  BY <1>1, Inserted DEF Exists, TypeInv, TypeOK
<1>2. ASSUME NEW r \in Req, SaveUser(r), db' # db PROVE ~Exists(u)'
  BY <1>2, Saved DEF Exists, TypeInv, TypeOK
<1>3. ASSUME NEW r \in Req, DestroyUser(r) PROVE ~Exists(u)'
  BY <1>3 DEF Exists, TypeInv, TypeOK, DestroyUser
<1> QED
  BY <1>0, <1>1, <1>2, <1>3, Writers

(* An account that was deleted never comes back: no save of a copy loaded  *)
(* before the DELETE and no registration gives its id a row again.         *)
THEOREM DeletedAccountsStayDeleted == Spec => DeletedStaysDeleted
<1>1. TypeInv /\ [Next]_vars => [\A u \in born : ~Exists(u) => ~Exists(u)']_vars
  BY DeletedStep
<1> QED
  BY <1>1, TypeInit, TypeStep, PTL DEF Spec, DeletedStaysDeleted

-----------------------------------------------------------------------------

LEMMA EmailsStep ==
    ASSUME TypeInv, EmailsUnique, [Next]_vars PROVE EmailsUnique'
<1> SUFFICES ASSUME NEW u \in Uid, NEW v \in Uid, Exists(u)', Exists(v)',
                    db'[u].email = db'[v].email, u # v
             PROVE  FALSE
  BY DEF EmailsUnique, Existing
<1>t. db \in [Uid -> Row \cup {None}] /\ born \subseteq Uid
  BY DEF TypeInv, TypeOK
<1>e. Exists(u) /\ Exists(v) => db[u].email # db[v].email
  BY DEF EmailsUnique, Existing
<1>0. CASE db' = db
  BY <1>0, <1>e DEF Exists
<1>1. ASSUME NEW r \in Req, InsertUser(r), db' # db PROVE FALSE
  <2>1. PICK w \in Uid \ born : db' = [db EXCEPT ![w] = NewUser(req[r])]
    BY <1>1, Inserted
  <2>2. \A x \in Uid : Exists(x) => db[x].email # req[r].email
    BY <1>1, Inserted DEF Taken, EmailHeld
  <2>3. NewUser(req[r]).email = req[r].email
    BY DEF NewUser
  <2> QED
    BY <1>t, <1>e, <2>1, <2>2, <2>3 DEF Exists
<1>2. ASSUME NEW r \in Req, SaveUser(r), db' # db PROVE FALSE
  <2> DEFINE q == req[r]
             m == Merged(db[q.target], q.next, q.cols)
  <2>1. /\ q.target \in Uid /\ Exists(q.target) /\ db' = [db EXCEPT ![q.target] = m]
        /\ db[q.target] \in Row /\ q.next \in Row /\ q.cols \in SUBSET Column
        /\ "email" \in q.cols => ~Taken(q.next.email, Uid \ {q.target})
    BY <1>2, Saved
  <2>2. m.email = IF "email" \in q.cols THEN q.next.email ELSE db[q.target].email
    BY DEF Merged, Column
  <2>3. \A x \in Uid \ {q.target} : Exists(x) => db[x].email # m.email
    <3>1. CASE "email" \in q.cols
      BY <2>1, <2>2, <3>1 DEF Taken, EmailHeld
    <3>2. CASE "email" \notin q.cols
      BY <2>1, <2>2, <3>2 DEF EmailsUnique, Existing
    <3> QED
      BY <3>1, <3>2
  <2> HIDE DEF q, m
  <2> QED
    BY <1>t, <1>e, <2>1, <2>3 DEF Exists
<1>3. ASSUME NEW r \in Req, DestroyUser(r) PROVE FALSE
  <2>1. \A x \in Uid : Exists(x)' => Exists(x) /\ db'[x] = db[x]
    BY <1>3, <1>t DEF DestroyUser, Exists
  <2> QED
    BY <1>e, <2>1
<1> QED
  BY <1>0, <1>1, <1>2, <1>3, Writers

(* Two accounts never have the same email address.                         *)
THEOREM EmailsStayUnique == Spec => []EmailsUnique
<1>1. Init => EmailsUnique
  BY StartAssumption DEF Init, EmailsUnique, Existing, Exists
<1>2. TypeInv /\ EmailsUnique /\ [Next]_vars => EmailsUnique'
  BY EmailsStep
<1> QED
  BY <1>1, <1>2, TypeInit, TypeStep, PTL DEF Spec

-----------------------------------------------------------------------------

(* What a save does to one column of one row.                              *)
LEMMA SavedColumn ==
    ASSUME TypeInv, NEW r \in Req, SaveUser(r), NEW u \in Uid, Exists(u),
           NEW c \in Column, db'[u][c] # db[u][c]
    PROVE  req[r].target = u /\ c \in req[r].cols /\ db'[u][c] = req[r].next[c]
<1> DEFINE q == req[r]
           m == Merged(db[q.target], q.next, q.cols)
<1>1. /\ q.target \in Uid /\ db' = [db EXCEPT ![q.target] = m] /\ db'[q.target] = m
  BY Saved
<1>2. m[c] = IF c \in q.cols THEN q.next[c] ELSE db[q.target][c]
  BY DEF Merged
<1>3. db \in [Uid -> Row \cup {None}]
  BY DEF TypeInv, TypeOK
<1> HIDE DEF m
<1>4. q.target = u
  BY <1>1, <1>3
<1> QED
  BY <1>1, <1>2, <1>4

LEMMA RoleStep ==
    ASSUME TypeInv, AllGranted, [Next]_vars, NEW u \in Uid, Exists(u)',
           db'[u].role # (IF Exists(u) THEN db[u].role ELSE "user")
    PROVE  \E r \in Req : /\ SaveUser(r) /\ req[r].op = "update"
                          /\ req[r].target = u /\ req[r].actor # u
                          /\ req[r].asAdmin /\ req[r].body.role = db'[u].role
<1>t. db \in [Uid -> Row \cup {None}]
  BY DEF TypeInv, TypeOK
<1>0. CASE db' = db
  BY <1>0 DEF Exists
<1>1. ASSUME NEW r \in Req, InsertUser(r), db' # db PROVE FALSE
  <2>1. PICK v \in Uid \ born : db' = [db EXCEPT ![v] = NewUser(req[r])]
    BY <1>1, Inserted
  <2>2. NewUser(req[r]).role = "user" /\ ~Exists(v)
    BY DEF NewUser, TypeInv, TypeOK, Existing
  <2> QED
    BY <2>1, <2>2, <1>t DEF Exists
<1>2. ASSUME NEW r \in Req, SaveUser(r), db' # db
      PROVE  /\ req[r].op = "update" /\ req[r].target = u /\ req[r].actor # u
             /\ req[r].asAdmin /\ req[r].body.role = db'[u].role
  <2>1. Exists(u)
    BY <1>2, <1>t, Saved DEF Exists
  <2>2. "role" \in Column /\ db'[u]["role"] # db[u]["role"]
    BY <2>1 DEF Column
  <2>3. req[r].target = u /\ "role" \in req[r].cols /\ db'[u]["role"] = req[r].next["role"]
    BY <1>2, <2>1, <2>2, SavedColumn
  <2>4. Granted(req[r]) /\ req[r].pc = "save"
    BY <1>2 DEF AllGranted, SaveUser, At
  <2> QED
    BY <2>3, <2>4 DEF Granted
<1>3. ASSUME NEW r \in Req, DestroyUser(r) PROVE FALSE
  BY <1>3, <1>t DEF DestroyUser, Exists
<1> QED
  BY <1>0, <1>1, <1>2, <1>3, Writers

(* Only an update that asks for a role, by an administrator and not by the *)
(* account itself, gives an account that role: no copy of a row saved late *)
(* restores one that was taken away.                                       *)
THEOREM RolesComeFromAdmins == Spec => RolesAreGranted
<1>1. TypeInv /\ AllGranted /\ [Next]_vars =>
        [\A u \in Uid :
          Exists(u)' /\ db'[u].role # (IF Exists(u) THEN db[u].role ELSE "user") =>
             \E r \in Req : /\ SaveUser(r) /\ req[r].op = "update"
                            /\ req[r].target = u /\ req[r].actor # u
                            /\ req[r].asAdmin /\ req[r].body.role = db'[u].role]_vars
  BY RoleStep
<1> QED
  BY <1>1, TypeInit, TypeStep, GrantedInit, GrantedStep, PTL DEF Spec, RolesAreGranted

LEMMA ForceStep ==
    ASSUME TypeInv, AllGranted, [Next]_vars, NEW u \in Uid,
           Exists(u), db[u].force = "true", Exists(u)', db'[u].force # "true"
    PROVE  \E r \in Req : SaveUser(r) /\ req[r].target = u /\ "pw" \in req[r].cols
<1>t. db \in [Uid -> Row \cup {None}]
  BY DEF TypeInv, TypeOK
<1>0. db' # db
  OBVIOUS
<1>1. ASSUME NEW r \in Req, InsertUser(r), db' # db PROVE FALSE
  <2>1. PICK v \in Uid \ born : db' = [db EXCEPT ![v] = NewUser(req[r])]
    BY <1>1, Inserted
  <2>2. ~Exists(v)
    BY DEF TypeInv, TypeOK, Existing
  <2> QED
    BY <2>1, <2>2, <1>t DEF Exists
<1>2. ASSUME NEW r \in Req, SaveUser(r)
      PROVE  req[r].target = u /\ "pw" \in req[r].cols
  <2>1. "force" \in Column /\ db'[u]["force"] # db[u]["force"]
    BY DEF Column
  <2>2. /\ req[r].target = u /\ "force" \in req[r].cols
        /\ db'[u]["force"] = req[r].next["force"]
    BY <1>2, <2>1, SavedColumn
  <2>3. Granted(req[r]) /\ req[r].pc = "save"
    BY <1>2 DEF AllGranted, SaveUser, At
  <2> QED
    BY <2>2, <2>3 DEF Granted
<1>3. ASSUME NEW r \in Req, DestroyUser(r) PROVE FALSE
  BY <1>3, <1>t DEF DestroyUser, Exists
<1> QED
  BY <1>0, <1>1, <1>2, <1>3, Writers

(* The obligation to change a password is ended by storing a new password  *)
(* and by nothing else.                                                    *)
THEOREM ForceEndsByPassword == Spec => ForceEndsWithPassword
<1>1. TypeInv /\ AllGranted /\ [Next]_vars =>
        [\A u \in Uid :
          /\ Exists(u) /\ db[u].force = "true"
          /\ Exists(u)' /\ db'[u].force # "true"
          => \E r \in Req : /\ SaveUser(r) /\ req[r].target = u
                            /\ "pw" \in req[r].cols]_vars
  BY ForceStep
<1> QED
  BY <1>1, TypeInit, TypeStep, GrantedInit, GrantedStep, PTL
  DEF Spec, ForceEndsWithPassword

-----------------------------------------------------------------------------

LEMMA FreshDestroyStep ==
    ASSUME TypeInv, AllGranted, NEW r \in Req, DestroyUser(r), AdminRemains,
           req[r].count = Cardinality(Admins),
           Exists(req[r].target) => db[req[r].target].role = req[r].next.role
    PROVE  AdminRemains'
<1> DEFINE v == req[r].target
<1>1. v \in Uid /\ At(r, "destroy") /\ db' = [db EXCEPT ![v] = None] /\ Granted(req[r])
  BY DEF TypeInv, WellFormed, DestroyUser, At, AllGranted
<1>2. Admins \ {v} \subseteq Admins'
  BY <1>1 DEF TypeInv, TypeOK, Admins, Exists
<1>3. Admins \ {v} # {}
  <2>1. CASE v \in Admins
    <3>1. req[r].count >= 2
      BY <1>1, <2>1 DEF Admins, Granted, At
    <3>2. Cardinality(Admins \ {v}) = Cardinality(Admins) - 1
      BY <2>1, AdminsFinite, FS_RemoveElement
    <3>3. Cardinality(Admins \ {v}) # 0
      BY <3>1, <3>2, AdminsFinite
    <3> QED
      BY <3>3, FS_EmptySet
  <2>2. CASE v \notin Admins
    BY <2>2 DEF AdminRemains
  <2> QED
    BY <2>1, <2>2
<1> QED
  BY <1>2, <1>3 DEF AdminRemains

(* Removing an account leaves an administrator whenever the count and the  *)
(* role that were read are still right at the DELETE.                      *)
THEOREM FreshDestroysKeepAdmin == Spec => FreshDestroyKeepsAdmin
<1>1. TypeInv /\ AllGranted /\ [Next]_vars =>
        [\A r \in Req :
          /\ DestroyUser(r) /\ AdminRemains
          /\ req[r].count = Cardinality(Admins)
          /\ Exists(req[r].target) => db[req[r].target].role = req[r].next.role
          => AdminRemains']_vars
  BY FreshDestroyStep
<1> QED
  BY <1>1, TypeInit, TypeStep, GrantedInit, GrantedStep, PTL
  DEF Spec, FreshDestroyKeepsAdmin

-----------------------------------------------------------------------------

(* A save of loginCount under way holds a count that has been reached.     *)
LoginsReached ==
    \A r \in Req :
        At(r, "save") /\ "logins" \in req[r].cols =>
            req[r].next.logins <= accepted[req[r].target]

LoginsInv == LoginsReached /\ LoginsNeverOvercount

(* An id that was not handed out has no row, so its count starts at 0.     *)
LEMMA LoginsInit == Init => LoginsInv
<1> SUFFICES ASSUME Init PROVE LoginsInv
  OBVIOUS
<1>1. LoginsReached
  BY DEF Init, LoginsReached, At, Idle, New
<1>2. LoginsNeverOvercount
  BY StartAssumption DEF Init, LoginsNeverOvercount, Existing, Exists, Row
<1> QED
  BY <1>1, <1>2 DEF LoginsInv

LEMMA AcceptedGrows ==
    ASSUME TypeInv, [Next]_vars, NEW u \in Uid
    PROVE  /\ accepted[u] \in Nat /\ accepted'[u] \in Nat
           /\ accepted[u] <= accepted'[u]
<1>t. accepted \in [Uid -> Nat]
  BY DEF TypeInv, TypeOK
<1>1. CASE accepted' = accepted
  BY <1>1, <1>t
<1>2. ASSUME NEW v, accepted' = [accepted EXCEPT ![v] = @ + 1]
      PROVE  accepted'[u] \in Nat /\ accepted[u] <= accepted'[u]
  BY <1>2, <1>t
<1>3. accepted' = accepted \/ \E v \in Uid : accepted' = [accepted EXCEPT ![v] = @ + 1]
  BY DEF Next, vars, ReceiveRegister, ReceiveEdit, ReceiveSignIn, Proceed, Crash,
     InsertUser, FindByEmail, Accept, Refuse, NotFound, LoadUser, SaveUser,
     CountAdmins, DestroyUser, Existing
<1> QED
  BY <1>1, <1>2, <1>3, <1>t

(* Where the instance a request saves comes from.                          *)
LEMMA SavesFrom ==
    ASSUME TypeInv, [Next]_vars, NEW s \in Req, req'[s].pc = "save", req'[s] # req[s]
    PROVE  \/ /\ FindByEmail(s)
              /\ \E u \in Existing :
                    Accept(s, u) /\ req'[s] = Saving(req[s], u, LoggedIn(db[u]), {"logins"})
           \/ /\ LoadUser(s) /\ db[req[s].target] \in Row /\ req[s].body \in Body
              /\ req[s].op = "update" /\ req[s].target \in Uid /\ Exists(req[s].target)
              /\ req'[s] = Saving(req[s], req[s].target,
                               Edited(db[req[s].target], req[s]),
                               Changed(db[req[s].target],
                                       Edited(db[req[s].target], req[s]), req[s].body))
<1>t. req \in [Req -> Request] /\ WellFormed(req[s])
  BY DEF TypeInv, TypeOK
<1>1. ReceiveRegister(s) \/ ReceiveEdit(s) \/ ReceiveSignIn(s) \/ Proceed(s)
  <2>1. ASSUME NEW r \in Req, r # s,
               ReceiveRegister(r) \/ ReceiveEdit(r) \/ ReceiveSignIn(r) \/ Proceed(r)
        PROVE  FALSE
    BY <1>t, <2>1 DEF ReceiveRegister, ReceiveEdit, ReceiveSignIn, Proceed,
       InsertUser, FindByEmail, Accept, Refuse, NotFound, LoadUser, SaveUser,
       CountAdmins, DestroyUser, Done
  <2>2. ~Crash
    BY DEF Crash, Idle, New
  <2> QED
    BY <2>1, <2>2 DEF Next, vars
<1>2. ~Done(s)
  BY <1>t DEF Done, Idle, New
<1>3. ~(ReceiveRegister(s) \/ ReceiveEdit(s) \/ ReceiveSignIn(s))
  BY <1>t DEF ReceiveRegister, ReceiveEdit, ReceiveSignIn, New
<1>4. ~InsertUser(s) /\ ~SaveUser(s) /\ ~DestroyUser(s)
  BY <1>2, <1>t DEF InsertUser, SaveUser, DestroyUser, Request
<1>5. ~CountAdmins(s)
  BY <1>2, <1>t DEF CountAdmins, Request
<1>6. CASE FindByEmail(s)
  <2>1. req' # [req EXCEPT ![s].pc = "insert"]
    BY <1>t DEF Request
  <2>2. PICK u \in Existing : Accept(s, u)
    BY <1>2, <1>6, <2>1 DEF FindByEmail, Refuse, NotFound
  <2>3. req'[s] = Saving(req[s], u, LoggedIn(db[u]), {"logins"})
    BY <1>t, <2>2 DEF Accept
  <2> QED
    BY <1>6, <2>2, <2>3
<1>7. CASE LoadUser(s)
  <2> DEFINE row == db[req[s].target]
             q == Saving(req[s], req[s].target, Edited(row, req[s]),
                         Changed(row, Edited(row, req[s]), req[s].body))
             c == [req[s] EXCEPT !.pc = "count", !.next = row]
  <2>1. req' # [req EXCEPT ![s] = c]
    <3>1. c.pc = "count"
      BY <1>t DEF Request
    <3> HIDE DEF c
    <3> QED
      BY <1>t, <3>1
  <2>2. /\ req[s].op = "update" /\ row \in Row /\ req[s].body \in Body
        /\ Exists(req[s].target) /\ req' = [req EXCEPT ![s] = q]
    BY <1>2, <1>7, <2>1, LoadCases
  <2>3. req[s].target \in Uid
    BY <1>7, <1>t DEF LoadUser, At, WellFormed
  <2>4. req'[s] = q
    <3> HIDE DEF q
    <3> QED BY <2>2, <1>t
  <2> QED
    BY <1>7, <2>2, <2>3, <2>4
<1> QED
  BY <1>1, <1>3, <1>4, <1>5, <1>6, <1>7 DEF Proceed

LEMMA LoginsReachedStep ==
    ASSUME TypeInv, LoginsInv, [Next]_vars PROVE LoginsReached'
<1> SUFFICES ASSUME NEW s \in Req, req'[s].pc = "save", "logins" \in req'[s].cols
             PROVE  req'[s].next.logins <= accepted'[req'[s].target]
  BY DEF LoginsReached, At
<1>t. req \in [Req -> Request] /\ WellFormed(req[s]) /\ req[s] \in Request
  BY DEF TypeInv, TypeOK
<1>d. db \in [Uid -> Row \cup {None}] /\ accepted \in [Uid -> Nat]
  BY DEF TypeInv, TypeOK
<1>1. CASE req'[s] = req[s]
  <2>1. req[s].target \in Uid /\ req[s].next.logins \in Nat
    BY <1>1, <1>t DEF WellFormed, Row
  <2>2. req[s].next.logins <= accepted[req[s].target]
    BY <1>1 DEF LoginsInv, LoginsReached, At
  <2> QED
    BY <1>1, <2>1, <2>2, AcceptedGrows
<1>2. CASE req'[s] # req[s]
  <2>1. ASSUME NEW u \in Existing, Accept(s, u),
               req'[s] = Saving(req[s], u, LoggedIn(db[u]), {"logins"})
        PROVE  req'[s].next.logins <= accepted'[req'[s].target]
    <3>1. u \in Uid /\ db[u] \in Row
      BY <1>d DEF Existing, Exists
    <3>2. req'[s].target = u /\ req'[s].next = LoggedIn(db[u])
      BY <2>1, <1>t DEF Saving, Request
    <3>3. LoggedIn(db[u]).logins = db[u].logins + 1 /\ db[u].logins \in Nat
      BY <3>1 DEF LoggedIn, Row
    <3>4. accepted'[u] = accepted[u] + 1 /\ accepted[u] \in Nat
      BY <2>1, <3>1, <1>d DEF Accept
    <3>5. db[u].logins <= accepted[u]
      BY DEF LoginsInv, LoginsNeverOvercount
    <3> QED
      BY <3>2, <3>3, <3>4, <3>5
  <2>2. ASSUME NEW row \in Row, req[s].body \in Body,
               req'[s] = Saving(req[s], req[s].target, Edited(row, req[s]),
                                Changed(row, Edited(row, req[s]), req[s].body))
        PROVE  FALSE
    <3> DEFINE cols == Changed(row, Edited(row, req[s]), req[s].body)
    <3>1. req'[s].cols = cols
      BY <2>2, <1>t DEF Saving, Request
    <3>2. Edited(row, req[s])["logins"] = row["logins"]
      BY DEF Edited
    <3>3. "logins" \notin cols
      BY <3>2 DEF Changed
    <3> QED
      BY <3>1, <3>3
  <2> QED
    BY <1>2, <2>1, <2>2, SavesFrom
<1> QED
  BY <1>1, <1>2

LEMMA LoginsStep ==
    ASSUME TypeInv, LoginsInv, [Next]_vars PROVE LoginsInv'
<1>1. LoginsReached'
  BY LoginsReachedStep
<1>2. LoginsNeverOvercount'
  <2> SUFFICES ASSUME NEW u \in Uid, Exists(u)'
               PROVE  db'[u].logins <= accepted'[u]
    BY DEF LoginsNeverOvercount, Existing
  <2>t. db \in [Uid -> Row \cup {None}]
    BY DEF TypeInv, TypeOK
  <2>a. accepted[u] \in Nat /\ accepted'[u] \in Nat /\ accepted[u] <= accepted'[u]
    BY AcceptedGrows
  <2>o. Exists(u) => db[u].logins <= accepted[u] /\ db[u].logins \in Nat
    BY <2>t DEF LoginsInv, LoginsNeverOvercount, Existing, Exists, Row
  <2>0. CASE Exists(u) /\ db'[u].logins = db[u].logins
    BY <2>0, <2>a, <2>o
  <2>1. ASSUME NEW r \in Req, InsertUser(r), db' # db
        PROVE  \/ Exists(u) /\ db'[u].logins = db[u].logins
               \/ db'[u].logins = 0
    <3>1. PICK v \in Uid \ born : db' = [db EXCEPT ![v] = NewUser(req[r])]
      BY <2>1, Inserted
    <3>2. NewUser(req[r]).logins = 0
      BY DEF NewUser
    <3> QED
      BY <3>1, <3>2, <2>t DEF Exists
  <2>2. ASSUME NEW r \in Req, SaveUser(r), db' # db,
               ~(Exists(u) /\ db'[u].logins = db[u].logins)
        PROVE  db'[u].logins <= accepted'[u]
    <3>1. Exists(u)
      BY <2>2, <2>t, Saved DEF Exists
    <3>2. "logins" \in Column /\ db'[u]["logins"] # db[u]["logins"]
      BY <2>2, <3>1 DEF Column
    <3>3. /\ req[r].target = u /\ "logins" \in req[r].cols
          /\ db'[u]["logins"] = req[r].next["logins"]
      BY <2>2, <3>1, <3>2, SavedColumn
    <3>4. req[r].next.logins <= accepted[u] /\ req[r].next.logins \in Nat
      BY <2>2, <3>3 DEF LoginsInv, LoginsReached, SaveUser, TypeInv, WellFormed, At, Row
    <3> QED
      BY <3>3, <3>4, <2>a
  <2>3. ASSUME NEW r \in Req, DestroyUser(r)
        PROVE  Exists(u) /\ db'[u].logins = db[u].logins
    BY <2>3, <2>t DEF DestroyUser, Exists
  <2>4. CASE db' = db
    BY <2>4, <2>0 DEF Exists
  <2>5. db'[u].logins = 0 => db'[u].logins <= accepted'[u]
    BY <2>a
  <2> QED
    BY <2>0, <2>1, <2>2, <2>3, <2>4, <2>5, Writers
<1> QED
  BY <1>1, <1>2 DEF LoginsInv

(* loginCount never exceeds the sign-ins that were accepted.               *)
THEOREM LoginsAreNotInvented == Spec => []LoginsNeverOvercount
<1>1. LoginsInv => LoginsNeverOvercount
  BY DEF LoginsInv
<1> QED
  BY <1>1, LoginsInit, LoginsStep, TypeInit, TypeStep, PTL DEF Spec

-----------------------------------------------------------------------------

(* What a request knows stays true while no other request runs.            *)
UpToDate ==
    \A r \in Req :
        /\ req[r].asAdmin => req[r].actor \in Admins
        /\ req[r].pc \in {"count", "destroy"} =>
              Exists(req[r].target) /\ req[r].next = db[req[r].target]
        /\ req[r].pc = "destroy" => req[r].count = Cardinality(Admins)

LEMMA SerialStep ==
    ASSUME \A r, s \in Req : r = s, TypeInv, AllGranted, UpToDate, AdminRemains,
           [Next]_vars
    PROVE  UpToDate' /\ AdminRemains'
<1>t. db \in [Uid -> Row \cup {None}] /\ req \in [Req -> Request]
  BY DEF TypeInv, TypeOK
<1>i. ~Idle.asAdmin /\ Idle.pc = "idle"
  BY DEF Idle, New
<1>d. ASSUME NEW r \in Req, Done(r) PROVE UpToDate'
  BY <1>d, <1>i, <1>t DEF UpToDate, Done
<1>u. ASSUME db' = db PROVE Admins' = Admins /\ AdminRemains'
  BY <1>u DEF Admins, Exists, AdminRemains
<1>1. CASE UNCHANGED vars
  BY <1>1, <1>u DEF vars, UpToDate, Exists
<1>2. CASE Crash
  BY <1>2, <1>i, <1>u DEF Crash, UpToDate
<1>3. ASSUME NEW r \in Req, ReceiveRegister(r) \/ ReceiveEdit(r) \/ ReceiveSignIn(r)
      PROVE  UpToDate' /\ AdminRemains'
  <2>1. db' = db
    BY <1>3 DEF ReceiveRegister, ReceiveEdit, ReceiveSignIn
  <2>2. /\ req'[r].pc \in {"insert", "load", "find"}
        /\ req'[r].asAdmin => req'[r].actor \in Admins
    <3>1. CASE ReceiveRegister(r) \/ ReceiveSignIn(r)
      BY <3>1, <1>t DEF ReceiveRegister, ReceiveSignIn, New
    <3>2. CASE ReceiveEdit(r)
      <4>1. PICK u \in Existing, v \in Uid, p \in Password, b \in Edit :
              \E q \in {New("load", "remove", u, u \in Admins, v, None, p, None),
                        New("load", "update", u, u \in Admins, v, None, p, b)} :
                 req' = [req EXCEPT ![r] = q]
        BY <3>2 DEF ReceiveEdit
      <4> DEFINE a == u \in Admins
                 q1 == New("load", "remove", u, a, v, None, p, None)
                 q2 == New("load", "update", u, a, v, None, p, b)
      <4>2. req' = [req EXCEPT ![r] = q1] \/ req' = [req EXCEPT ![r] = q2]
        BY <4>1
      <4> HIDE DEF a
      <4>3. /\ q1.pc = "load" /\ q1.actor = u /\ q1.asAdmin = a
            /\ q2.pc = "load" /\ q2.actor = u /\ q2.asAdmin = a
        BY DEF New
      <4> HIDE DEF q1, q2
      <4>4. req'[r] = q1 \/ req'[r] = q2
        BY <4>2, <1>t
      <4>5. /\ req'[r].pc = "load" /\ req'[r].actor = u /\ req'[r].asAdmin = a
        BY <4>3, <4>4
      <4> QED
        BY <4>5 DEF a
    <3> QED
      BY <1>3, <3>1, <3>2
  <2> QED
    BY <2>1, <2>2, <1>u DEF UpToDate
<1>4. ASSUME NEW r \in Req, InsertUser(r) PROVE UpToDate' /\ AdminRemains'
  <2>1. Admins \subseteq Admins'
    <3>1. CASE db' = db
      BY <3>1, <1>u
    <3>2. CASE db' # db
      <4>1. PICK v \in Uid \ born : db' = [db EXCEPT ![v] = NewUser(req[r])]
        BY <1>4, <3>2, Inserted
      <4>2. v \notin Admins
        BY DEF TypeInv, TypeOK, Existing, Admins
      <4> QED
        BY <4>1, <4>2, <1>t DEF Admins, Exists
    <3> QED
      BY <3>1, <3>2
  <2>2. CASE req' = [req EXCEPT ![r].pc = "refind"]
    <3>1. /\ req'[r].pc = "refind" /\ req'[r].asAdmin = req[r].asAdmin
          /\ req'[r].actor = req[r].actor
      BY <2>2, <1>t DEF Request
    <3> QED
      BY <2>1, <3>1 DEF UpToDate, AdminRemains
  <2> QED
    BY <1>4, <2>1, <2>2, <1>d DEF InsertUser, AdminRemains
<1>5. ASSUME NEW r \in Req, FindByEmail(r), ~Done(r) PROVE UpToDate' /\ AdminRemains'
  <2>0. db' = db
    BY <1>5 DEF FindByEmail
  <2>1. /\ req'[r].pc \in {"insert", "save"} /\ req'[r].asAdmin = req[r].asAdmin
        /\ req'[r].actor = req[r].actor
    <3>1. ASSUME NEW u \in Existing, Accept(r, u)
          PROVE  /\ req'[r].pc = "save" /\ req'[r].asAdmin = req[r].asAdmin
                 /\ req'[r].actor = req[r].actor
      <4>1. req'[r] = Saving(req[r], u, LoggedIn(db[u]), {"logins"})
        BY <3>1, <1>t DEF Accept
      <4> QED
        BY <4>1, <1>t DEF Saving, Request
    <3>2. CASE req' = [req EXCEPT ![r].pc = "insert"]
      BY <3>2, <1>t DEF Request
    <3> QED
      BY <1>5, <3>1, <3>2 DEF FindByEmail, Refuse, NotFound
  <2> QED
    BY <2>0, <2>1, <1>u DEF UpToDate
<1>6. ASSUME NEW r \in Req, LoadUser(r), ~Done(r) PROVE UpToDate' /\ AdminRemains'
  <2> DEFINE row == db[req[r].target]
             c == [req[r] EXCEPT !.pc = "count", !.next = row]
             q == Saving(req[r], req[r].target, Edited(row, req[r]),
                         Changed(row, Edited(row, req[r]), req[r].body))
  <2>0. db' = db
    BY <1>6 DEF LoadUser
  <2>1. Exists(req[r].target) /\ \E x \in {c, q} : req' = [req EXCEPT ![r] = x]
    BY <1>6, LoadCases
  <2>2. /\ c.asAdmin = req[r].asAdmin /\ c.actor = req[r].actor /\ c.pc = "count"
        /\ c.target = req[r].target /\ c.next = row
    BY <1>t DEF Request
  <2>3. q.asAdmin = req[r].asAdmin /\ q.actor = req[r].actor /\ q.pc = "save"
    BY <1>t DEF Request, Saving
  <2> HIDE DEF c, q
  <2>4. req'[r] = c \/ req'[r] = q
    BY <2>1, <1>t
  <2> QED
    BY <2>0, <2>1, <2>2, <2>3, <2>4, <1>u DEF UpToDate, Exists
<1>7. ASSUME NEW r \in Req, CountAdmins(r), ~Done(r) PROVE UpToDate' /\ AdminRemains'
  <2> DEFINE n == Cardinality(Admins)
             q == [req[r] EXCEPT !.pc = "destroy", !.count = n]
  <2>0. db' = db
    BY <1>7 DEF CountAdmins
  <2>1. req' = [req EXCEPT ![r] = q] /\ req[r].pc = "count"
    BY <1>7 DEF CountAdmins, At
  <2>2. /\ q.asAdmin = req[r].asAdmin /\ q.actor = req[r].actor
        /\ q.target = req[r].target /\ q.next = req[r].next /\ q.count = n
    BY <1>t DEF Request
  <2>3. n' = n
    BY <2>0, <1>u
  <2> HIDE DEF q, n
  <2>4. req'[r] = q
    BY <2>1, <1>t
  <2> QED
    BY <2>0, <2>1, <2>2, <2>3, <2>4, <1>u DEF UpToDate, Exists, n
<1>8. ASSUME NEW r \in Req, SaveUser(r) PROVE AdminRemains'
  <2>1. PICK a \in Admins : TRUE
    BY DEF AdminRemains
  <2>2. CASE a \in Admins'
    BY <2>2 DEF AdminRemains
  <2>3. CASE a \notin Admins'
    <3>1. Exists(a) /\ a \in Uid /\ "role" \in Column
      BY <2>1 DEF Admins, Column
    <3>2. Exists(a)'
      BY <1>8, <3>1, <1>t, Saved DEF Exists
    <3>3. db'[a]["role"] # db[a]["role"]
      BY <2>1, <2>3, <3>2 DEF Admins
    <3>4. req[r].target = a /\ "role" \in req[r].cols
      BY <1>8, <3>1, <3>3, SavedColumn
    <3>5. req[r].actor # a /\ req[r].actor \in Admins
      BY <1>8, <3>4 DEF AllGranted, Granted, SaveUser, At, UpToDate
    <3>6. db' # db
      BY <3>3
    <3>7. db'[req[r].actor] = db[req[r].actor]
      <4> DEFINE m == Merged(db[req[r].target], req[r].next, req[r].cols)
      <4>1. db' = [db EXCEPT ![req[r].target] = m]
        BY <1>8, <3>6, Saved
      <4> HIDE DEF m
      <4> QED
        BY <4>1, <3>4, <3>5, <1>t DEF Admins
    <3> QED
      BY <3>5, <3>7 DEF Admins, Exists, AdminRemains
  <2> QED
    BY <2>2, <2>3
<1>9. ASSUME NEW r \in Req, DestroyUser(r) PROVE AdminRemains'
  BY <1>9, FreshDestroyStep DEF UpToDate, DestroyUser, At
<1>10. ASSUME NEW r \in Req, SaveUser(r) \/ DestroyUser(r) PROVE UpToDate'
  BY <1>10, <1>d DEF SaveUser, DestroyUser
<1>11. ASSUME NEW r \in Req, FindByEmail(r) \/ LoadUser(r) \/ CountAdmins(r), Done(r)
       PROVE  UpToDate' /\ AdminRemains'
  BY <1>11, <1>d, <1>u DEF FindByEmail, LoadUser, CountAdmins
<1> QED
  BY <1>1, <1>2, <1>3, <1>4, <1>5, <1>6, <1>7, <1>8, <1>9, <1>10, <1>11
  DEF Next, Proceed

(* With one request at a time there always is an administrator.            *)
THEOREM SerialAdminRemains ==
    ASSUME \A r, s \in Req : r = s,
           \E u \in Uid : Start[u] # None /\ Start[u].role = "admin"
    PROVE  Spec => []AdminRemains
<1>1. Init => UpToDate /\ AdminRemains
  BY DEF Init, UpToDate, AdminRemains, Admins, Exists, Idle, New
<1>2. TypeInv /\ AllGranted /\ UpToDate /\ AdminRemains /\ [Next]_vars
        => UpToDate' /\ AdminRemains'
  BY SerialStep
<1> QED
  BY <1>1, <1>2, TypeInit, TypeStep, GrantedInit, GrantedStep, PTL DEF Spec

-----------------------------------------------------------------------------
(* The refinement.  First how the permit of a request follows what it      *)
(* holds.                                                                  *)

LEMMA WritesIs ==
    /\ \A q : q.pc # "save" => Writes(q) = Authority!NoChange
    /\ \A q : q.pc = "save" => /\ DOMAIN Writes(q) = q.cols
                               /\ \A c \in q.cols : Writes(q)[c] = q.next[c]
    /\ DOMAIN Authority!NoChange = {}
  BY DEF Writes, Authority!NoChange

LEMMA IdlePermit == PermitOf(Idle) = Authority!Nothing
<1>1. Idle.pc = "idle"
  BY DEF Idle, New
<1>2. Writes(Idle) = Authority!NoChange
  BY <1>1, WritesIs
<1> QED
  BY <1>2 DEF PermitOf, LetTo, Idle, New, Authority!Nothing

(* The parts of a permit, and those a step of the request leaves alone.    *)
LEMMA PermitIs ==
    /\ \A q : /\ PermitOf(q).asks = q.op /\ PermitOf(q).who = q.actor
              /\ PermitOf(q).badge = q.asAdmin /\ PermitOf(q).email = q.email
              /\ PermitOf(q).pw = q.pw /\ PermitOf(q).on = q.target
              /\ PermitOf(q).to = LetTo(q) /\ PermitOf(q).change = Writes(q)
  BY DEF PermitOf

Goes(q, x) ==
    /\ x.op = q.op /\ x.actor = q.actor /\ x.asAdmin = q.asAdmin
    /\ x.email = q.email /\ x.pw = q.pw

LEMMA PermitGoes ==
    ASSUME NEW q, NEW x, Goes(q, x)
    PROVE  PermitOf(x) = Authority!Onward(PermitOf(q), x.target, LetTo(x), Writes(x))
  BY PermitIs DEF PermitOf, Goes, Authority!Onward

LEMMA OnePermit ==
    ASSUME TypeInv, NEW r \in Req, NEW x, req' = [req EXCEPT ![r] = x]
    PROVE  /\ Permits[r] = PermitOf(req[r])
           /\ Permits'[r] = PermitOf(x)
           /\ Authority!Becomes(r, PermitOf(x))
           /\ PermitOf(x) = PermitOf(req[r]) => Permits' = Permits
<1>1. req \in [Req -> Request] /\ \A s \in Req : req'[s] = IF s = r THEN x ELSE req[s]
  BY DEF TypeInv, TypeOK
<1>2. Permits' = [s \in Req |-> PermitOf(req'[s])]
  BY DEF Permits, PermitOf, LetTo, Writes
<1>3. Permits = [s \in Req |-> PermitOf(req[s])]
  BY DEF Permits
<1> QED
  BY <1>1, <1>2, <1>3 DEF Authority!Becomes

LEMMA EndsGiveUp ==
    ASSUME TypeInv, NEW r \in Req, Done(r)
    PROVE  /\ Authority!Becomes(r, Authority!Nothing)
           /\ UNCHANGED <<db, born>> => Authority!GiveUp(r)
<1>1. Authority!Becomes(r, PermitOf(Idle))
  BY OnePermit DEF Done
<1> QED
  BY <1>1, IdlePermit DEF Authority!GiveUp, Authority!data

LEMMA AuthorityNames ==
    /\ Authority!Account = Existing /\ Authority!Admins = Admins
    /\ \A e, S : S \subseteq Uid => (Authority!Addressed(e, S) <=> EmailHeld(e, S))
  BY DEF Authority!Account, Authority!Admins, Authority!Addressed, Existing, Exists, Admins,
         EmailHeld

-----------------------------------------------------------------------------

LEMMA ArriveStep ==
    ASSUME TypeInv, NEW r \in Req,
           ReceiveRegister(r) \/ ReceiveEdit(r) \/ ReceiveSignIn(r)
    PROVE  Authority!Arrive(r)
<1>1. PICK q : /\ req' = [req EXCEPT ![r] = q] /\ q.pc \in {"insert", "load", "find"}
               /\ q.actor \in Existing \cup {Anon}
               /\ q.asAdmin => q.actor \in Admins
               /\ q.pc = "insert" =>
                     q.op = "register" /\ (RegistrationAllowed \/ q.actor \in Admins)
  <2>1. CASE ReceiveRegister(r)
    <3>1. PICK u \in Existing \cup {Anon}, e \in Email, p \in Password :
            /\ RegistrationAllowed \/ u \in Admins
            /\ req' = [req EXCEPT ![r] =
                 New("insert", "register", u, FALSE, None, e, p, None)]
      BY <2>1 DEF ReceiveRegister
    <3> DEFINE q == New("insert", "register", u, FALSE, None, e, p, None)
    <3>2. q.pc = "insert" /\ q.op = "register" /\ q.actor = u /\ q.asAdmin = FALSE
      BY DEF New
    <3>3. req' = [req EXCEPT ![r] = q]
      BY <3>1
    <3> HIDE DEF q
    <3> QED
      BY <3>1, <3>2, <3>3
  <2>2. CASE ReceiveEdit(r)
    <3>1. PICK u \in Existing, v \in Uid, p \in Password, b \in Edit :
            \E q \in {New("load", "remove", u, u \in Admins, v, None, p, None),
                      New("load", "update", u, u \in Admins, v, None, p, b)} :
               req' = [req EXCEPT ![r] = q]
      BY <2>2 DEF ReceiveEdit
    <3> DEFINE a == u \in Admins
               q1 == New("load", "remove", u, a, v, None, p, None)
               q2 == New("load", "update", u, a, v, None, p, b)
    <3>2. \E q \in {q1, q2} : req' = [req EXCEPT ![r] = q]
      BY <3>1
    <3> HIDE DEF a
    <3>3. /\ q1.pc = "load" /\ q1.actor = u /\ q1.asAdmin = a
          /\ q2.pc = "load" /\ q2.actor = u /\ q2.asAdmin = a
      BY DEF New
    <3> HIDE DEF q1, q2
    <3>4. a => u \in Admins
      BY DEF a
    <3> QED
      BY <3>2, <3>3, <3>4
  <2>3. CASE ReceiveSignIn(r)
    <3>1. PICK e \in Email, p \in Password :
            \E q \in {New("find", "login", Anon, FALSE, None, e, p, None),
                      New("find", "sso", Anon, FALSE, None, e, Random, None)} :
               req' = [req EXCEPT ![r] = q]
      BY <2>3 DEF ReceiveSignIn
    <3> DEFINE q1 == New("find", "login", Anon, FALSE, None, e, p, None)
               q2 == New("find", "sso", Anon, FALSE, None, e, Random, None)
    <3>2. \E q \in {q1, q2} : req' = [req EXCEPT ![r] = q]
      BY <3>1
    <3>3. /\ q1.pc = "find" /\ q1.actor = Anon /\ q1.asAdmin = FALSE
          /\ q2.pc = "find" /\ q2.actor = Anon /\ q2.asAdmin = FALSE
      BY DEF New
    <3> HIDE DEF q1, q2
    <3> QED
      BY <3>2, <3>3
  <2> QED
    BY <2>1, <2>2, <2>3
<1>2. /\ Permits'[r] = PermitOf(q) /\ Authority!Becomes(r, PermitOf(q))
  BY <1>1, OnePermit
<1>3. Writes(q) = Authority!NoChange
  BY <1>1, WritesIs
<1>4. LetTo(q) = (IF q.pc = "insert" THEN "open" ELSE "nothing")
  BY <1>1 DEF LetTo
<1>5. UNCHANGED <<db, born>>
  BY DEF ReceiveRegister, ReceiveEdit, ReceiveSignIn
<1>6. /\ PermitOf(q).who \in Existing \cup {Anon}
      /\ PermitOf(q).badge => PermitOf(q).who \in Admins
      /\ \/ PermitOf(q).to = "nothing"
         \/ /\ PermitOf(q).to = "open" /\ PermitOf(q).asks = "register"
            /\ RegistrationAllowed \/ PermitOf(q).who \in Admins
      /\ PermitOf(q).change = Authority!NoChange
  BY <1>1, <1>3, <1>4, PermitIs
<1> QED
  BY <1>2, <1>5, <1>6, AuthorityNames DEF Authority!Arrive, Authority!data

LEMMA OpenStep ==
    ASSUME TypeInv, NEW r \in Req, InsertUser(r)
    PROVE  Authority!GiveUp(r) \/ \E u \in Uid : Authority!Open(r, u)
<1> DEFINE q == req[r]
           x == [q EXCEPT !.pc = "refind"]
<1>w. q.pc = "insert" /\ q \in Request /\ Permits[r] = PermitOf(q)
  BY DEF TypeInv, TypeOK, InsertUser, At, Permits
<1>1. CASE Taken(q.email, Uid)
  BY <1>1, EndsGiveUp DEF InsertUser
<1>2. CASE ~Taken(q.email, Uid)
  <2>1. PICK u \in Uid \ born : /\ db' = [db EXCEPT ![u] = NewUser(q)]
                                /\ born' = born \cup {u}
    BY <1>2 DEF InsertUser
  <2>2. LetTo(q) = "open" /\ Writes(q) = Authority!NoChange
    BY <1>w, WritesIs DEF LetTo
  <2>3. ~Authority!Addressed(q.email, Uid)
    BY <1>2, AuthorityNames DEF Taken
  <2>4. Authority!Becomes(r, IF q.op = "sso"
                             THEN Authority!Onward(PermitOf(q), PermitOf(q).on, "opened",
                                                   Authority!NoChange)
                             ELSE Authority!Nothing)
    <3>1. CASE q.op = "sso"
      <4>1. req' = [req EXCEPT ![r] = x]
        BY <1>2, <3>1 DEF InsertUser
      <4>2. x.pc = "refind" /\ Goes(q, x) /\ x.target = q.target
        BY <1>w DEF Goes, Request
      <4>3. LetTo(x) = "opened" /\ Writes(x) = Authority!NoChange
        BY <4>2, WritesIs DEF LetTo
      <4> HIDE DEF x, q
      <4>4. PermitOf(x) = Authority!Onward(PermitOf(q), PermitOf(q).on, "opened",
                                           Authority!NoChange)
        BY <4>2, <4>3, PermitGoes, PermitIs
      <4> QED
        BY <3>1, <4>1, <4>4, OnePermit
    <3>2. CASE q.op # "sso"
      BY <1>2, <3>2, EndsGiveUp DEF InsertUser
    <3> QED
      BY <3>1, <3>2
  <2>5. NewUser(q) = [email |-> PermitOf(q).email, role |-> "user", force |-> "null",
                      pw |-> PermitOf(q).pw, logins |-> 0]
    BY PermitIs DEF NewUser
  <2> HIDE DEF q, x
  <2> QED
    BY <1>w, <2>1, <2>2, <2>3, <2>4, <2>5, PermitIs DEF Authority!Open
<1> QED
  BY <1>1, <1>2

LEMMA FindStep ==
    ASSUME TypeInv, NEW r \in Req, FindByEmail(r)
    PROVE  \/ Authority!GiveUp(r) \/ Authority!Vouch(r)
           \/ \E u \in Uid : Authority!SignIn(r, u)
<1> DEFINE q == req[r]
<1>w. /\ q.pc \in {"find", "refind"} /\ q.op \in {"login", "sso"} /\ q \in Request
      /\ Permits[r] = PermitOf(q)
  BY DEF TypeInv, TypeOK, WellFormed, FindByEmail, At, Permits
<1>d. UNCHANGED <<db, born>> /\ db \in [Uid -> Row \cup {None}]
  BY DEF FindByEmail, TypeInv, TypeOK
<1>l. LetTo(q) = IF q.pc = "find" THEN "nothing" ELSE "opened"
  BY <1>w DEF LetTo
<1>1. CASE Done(r)
  BY <1>1, <1>d, EndsGiveUp
<1>2. ASSUME NEW u \in Existing, db[u].email = q.email, q.op = "sso" \/ db[u].pw = q.pw,
             Accept(r, u)
      PROVE  Authority!SignIn(r, u) /\ u \in Uid
  <2> DEFINE next == LoggedIn(db[u])
             x == Saving(q, u, next, {"logins"})
             change == [c \in {"logins"} |-> db[u].logins + 1]
  <2>1. u \in Uid /\ next["logins"] = db[u].logins + 1
    BY <1>d DEF Existing, Exists, LoggedIn, Row
  <2>2. req' = [req EXCEPT ![r] = x]
    BY <1>2 DEF Accept
  <2>3. /\ x.pc = "save" /\ Goes(q, x) /\ x.target = u /\ x.next = next
        /\ x.cols = {"logins"}
    BY <1>w DEF Saving, Goes, Request
  <2> HIDE DEF q, x
  <2>4. Writes(x) = change
    BY <2>1, <2>3 DEF Writes
  <2> HIDE DEF next, change
  <2>5. LetTo(x) = "update"
    BY <2>3 DEF LetTo
  <2>6. Authority!Becomes(r, Authority!Onward(PermitOf(q), u, "update", change))
    <3>1. PermitOf(x) = Authority!Onward(PermitOf(q), u, "update", change)
      BY <2>3, <2>4, <2>5, PermitGoes
    <3> QED
      BY <2>2, <3>1, OnePermit
  <2> DEFINE p == PermitOf(q)
  <2>7. p.asks = q.op /\ p.to = LetTo(q) /\ p.email = q.email /\ p.pw = q.pw
    BY PermitIs
  <2> HIDE DEF p
  <2>8. Permits[r] = p
    BY <1>w DEF p
  <2>9. Authority!Becomes(r, Authority!Onward(p, u, "update", change))
    BY <2>6 DEF p
  <2>10. u \in Authority!Account /\ change = [c \in {"logins"} |-> db[u].logins + 1]
    BY AuthorityNames DEF change
  <2> QED
    BY <1>w, <1>d, <1>l, <1>2, <2>1, <2>7, <2>8, <2>9, <2>10
    DEF Authority!SignIn, Authority!data
<1>3. CASE /\ ~EmailHeld(q.email, Uid) /\ q.op = "sso" /\ q.pc = "find"
           /\ req' = [req EXCEPT ![r].pc = "insert"]
  <2> DEFINE x == [q EXCEPT !.pc = "insert"]
  <2>1. x.pc = "insert" /\ Goes(q, x) /\ x.target = q.target
    BY <1>w DEF Goes, Request
  <2>2. req' = [req EXCEPT ![r] = x]
    BY <1>3
  <2> HIDE DEF q, x
  <2>3. LetTo(x) = "open" /\ Writes(x) = Authority!NoChange
    BY <2>1, WritesIs DEF LetTo
  <2>4. Authority!Becomes(r, Authority!Onward(PermitOf(q), PermitOf(q).on, "open",
                                              Authority!NoChange))
    <3>1. PermitOf(x) = Authority!Onward(PermitOf(q), PermitOf(q).on, "open",
                                         Authority!NoChange)
      BY <2>1, <2>3, PermitGoes, PermitIs
    <3> QED
      BY <2>2, <3>1, OnePermit
  <2> QED
    BY <1>w, <1>d, <1>l, <1>3, <2>4, PermitIs, AuthorityNames
    DEF Authority!Vouch, Authority!data
<1> QED
  BY <1>1, <1>2, <1>3 DEF FindByEmail, Refuse, NotFound

(* What an edit that is not refused may do, and may not.                   *)
LEMMA EditIsOwn ==
    ASSUME NEW q \in Request, q.op = "update", q.body \in Body, NEW row \in Row,
           ~RefusesEdit(row, q)
    PROVE  LET cols == Changed(row, Edited(row, q), q.body) IN
           /\ \/ q.asAdmin /\ q.actor # q.target
              \/ q.actor = q.target /\ q.pw = row.pw /\ "role" \notin cols
           /\ "logins" \notin cols
           /\ "force" \in cols /\ Edited(row, q)["force"] # "true" => "pw" \in cols
<1> DEFINE next == Edited(row, q)
           cols == Changed(row, next, q.body)
<1>1. next["logins"] = row["logins"] /\ (~FullAbility(q) => next["role"] = row["role"])
  BY DEF Edited
<1>2. "logins" \notin cols /\ (~FullAbility(q) => "role" \notin cols)
  BY <1>1 DEF Changed
<1>3. GivesPassword(q.body) => "pw" \in cols
  BY DEF Changed
<1>4. ASSUME "force" \in cols, next["force"] # "true" PROVE "pw" \in cols
  <2>1. next["force"] # row["force"]
    BY <1>4 DEF Changed
  <2> QED
    BY <1>3, <1>4, <2>1 DEF Edited
<1> HIDE DEF next, cols
<1>5. \/ q.asAdmin /\ q.actor # q.target
      \/ q.actor = q.target /\ q.pw = row.pw /\ "role" \notin cols
  BY <1>2 DEF RefusesEdit, MayEdit, FullAbility
<1> QED
  BY <1>2, <1>4, <1>5 DEF next, cols

LEMMA LoadStep ==
    ASSUME TypeInv, NEW r \in Req, LoadUser(r)
    PROVE  Authority!GiveUp(r) \/ Authority!LetThrough(r)
<1> DEFINE q == req[r]
           row == db[q.target]
<1>w. /\ q.pc = "load" /\ q.op \in {"update", "remove"} /\ q \in Request
      /\ q.target \in Uid /\ Permits[r] = PermitOf(q)
  BY DEF TypeInv, TypeOK, WellFormed, LoadUser, At, Permits
<1>d. UNCHANGED <<db, born>>
  BY DEF LoadUser
<1>l. LetTo(q) = "nothing"
  BY <1>w DEF LetTo
<1>1. CASE Done(r)
  BY <1>1, <1>d, EndsGiveUp
<1>n. ASSUME ~Done(r) PROVE ~RefusesEdit(row, q) /\ Exists(q.target)
  BY <1>n DEF LoadUser
(* The two ways through differ only in what they write.                    *)
<1>t. ASSUME ~Done(r), NEW x, req' = [req EXCEPT ![r] = x], Goes(q, x), x.target = q.target,
             LetTo(x) = q.op,
             (q.asAdmin /\ q.actor # q.target) \/ Authority!OwnEdit(PermitOf(q), Writes(x)),
             "logins" \notin DOMAIN Writes(x),
             "force" \in DOMAIN Writes(x) /\ Writes(x)["force"] # "true" =>
                "pw" \in DOMAIN Writes(x)
      PROVE  Authority!LetThrough(r)
  <2> HIDE DEF q
  <2>1. Permits'[r].change = Writes(x)
    BY <1>t, OnePermit, PermitIs
  <2>2. Authority!Becomes(r, Authority!Onward(PermitOf(q), PermitOf(q).on,
                                              PermitOf(q).asks, Writes(x)))
    <3>1. PermitOf(x) = Authority!Onward(PermitOf(q), PermitOf(q).on, PermitOf(q).asks,
                                         Writes(x))
      BY <1>t, PermitGoes, PermitIs
    <3> QED
      BY <1>t, <3>1, OnePermit
  <2>3. PermitOf(q).on \in Existing
    BY <1>w, <1>n, <1>t, PermitIs DEF Existing
  <2> QED
    BY <1>w, <1>d, <1>l, <1>t, <2>1, <2>2, <2>3, PermitIs, AuthorityNames
    DEF Authority!LetThrough, Authority!data
<1>2. CASE q.op = "remove" /\ ~Done(r)
  <2> DEFINE x == [q EXCEPT !.pc = "count", !.next = row]
  <2>1. req' = [req EXCEPT ![r] = x]
    BY <1>2, LoadCases
  <2>2. x.pc = "count" /\ Goes(q, x) /\ x.target = q.target
    BY <1>w DEF Goes, Request
  <2>3. (q.asAdmin /\ q.actor # q.target) \/ (q.actor = q.target /\ q.pw = row.pw)
    BY <1>n, <1>2 DEF RefusesEdit, MayEdit, FullAbility
  <2> HIDE DEF q, x
  <2>4. LetTo(x) = "remove" /\ Writes(x) = Authority!NoChange
    BY <2>2, WritesIs DEF LetTo
  <2>5. (q.asAdmin /\ q.actor # q.target) \/ Authority!OwnEdit(PermitOf(q), Writes(x))
    BY <1>2, <2>3, <2>4, WritesIs, PermitIs DEF Authority!OwnEdit
  <2> QED
    BY <1>2, <1>t, <2>1, <2>2, <2>4, <2>5, WritesIs
<1>3. CASE q.op = "update" /\ ~Done(r)
  <2> DEFINE next == Edited(row, q)
             cols == Changed(row, next, q.body)
             x == Saving(q, q.target, next, cols)
  <2>1. row \in Row /\ q.body \in Body /\ req' = [req EXCEPT ![r] = x]
    BY <1>3, LoadCases
  <2>2. /\ x.pc = "save" /\ Goes(q, x) /\ x.target = q.target
        /\ x.next = next /\ x.cols = cols
    BY <1>w DEF Saving, Goes, Request
  <2>3. /\ \/ q.asAdmin /\ q.actor # q.target
           \/ q.actor = q.target /\ q.pw = row.pw /\ "role" \notin cols
        /\ "logins" \notin cols
        /\ "force" \in cols /\ next["force"] # "true" => "pw" \in cols
    BY <1>w, <1>n, <1>3, <2>1, EditIsOwn
  <2> HIDE DEF q, x, next, cols
  <2>4. /\ LetTo(x) = "update" /\ DOMAIN Writes(x) = cols
        /\ \A c \in cols : Writes(x)[c] = next[c]
    BY <2>2, WritesIs DEF LetTo
  <2>5. (q.asAdmin /\ q.actor # q.target) \/ Authority!OwnEdit(PermitOf(q), Writes(x))
    BY <2>3, <2>4, PermitIs DEF Authority!OwnEdit
  <2> QED
    BY <1>3, <1>t, <2>1, <2>2, <2>3, <2>4, <2>5
<1> QED
  BY <1>1, <1>2, <1>3, <1>w

LEMMA SaveStep ==
    ASSUME TypeInv, NEW r \in Req, SaveUser(r)
    PROVE  Authority!GiveUp(r) \/ Authority!Write(r)
<1> DEFINE q == req[r]
           u == q.target
<1>w. /\ q.pc = "save" /\ q \in Request /\ u \in Uid /\ Permits[r] = PermitOf(q)
      /\ db \in [Uid -> Row \cup {None}]
  BY DEF TypeInv, TypeOK, WellFormed, SaveUser, At, Permits
<1>d. born' = born /\ Authority!Becomes(r, Authority!Nothing)
  BY EndsGiveUp DEF SaveUser
<1>1. CASE db' = db
  BY <1>1, <1>d, EndsGiveUp DEF SaveUser
<1>2. CASE db' # db
  <2> DEFINE m == Merged(db[u], q.next, q.cols)
  <2>1. /\ Exists(u) /\ db' = [db EXCEPT ![u] = m]
        /\ "email" \in q.cols => ~EmailHeld(q.next.email, Uid \ {u})
    <3> HIDE DEF m
    <3>1. db' = Updated(u, q)
      BY DEF SaveUser
    <3> QED
      BY <1>2, <3>1 DEF Updated, Taken, m
  <2>2. u \in Existing /\ DOMAIN db[u] = Column
    BY <1>w, <2>1 DEF Existing, Exists, Row, Column
  <2>3. /\ DOMAIN Writes(q) = q.cols /\ LetTo(q) = "update"
        /\ \A c \in q.cols : Writes(q)[c] = q.next[c]
    BY <1>w, WritesIs DEF LetTo
  <2>4. m = [c \in DOMAIN db[u] |-> IF c \in DOMAIN Writes(q) THEN Writes(q)[c]
                                                            ELSE db[u][c]]
    BY <2>2, <2>3 DEF Merged
  <2>5. "email" \in DOMAIN Writes(q) =>
            ~Authority!Addressed(Writes(q)["email"], Uid \ {u})
    BY <2>1, <2>3, AuthorityNames
  <2> DEFINE p == PermitOf(q)
  <2>6. p.to = "update" /\ p.on = u /\ p.change = Writes(q)
    BY <2>3, PermitIs
  <2> HIDE DEF q, m, u, p
  <2>7. Permits[r] = p /\ u \in Authority!Account
    BY <1>w, <2>2, AuthorityNames DEF p
  <2> QED
    BY <1>d, <2>1, <2>4, <2>5, <2>6, <2>7 DEF Authority!Write
<1> QED
  BY <1>1, <1>2

LEMMA CountStep ==
    ASSUME TypeInv, NEW r \in Req, CountAdmins(r)
    PROVE  Authority!GiveUp(r) \/ UNCHANGED Authority!avars
<1> DEFINE q == req[r]
           n == Cardinality(Admins)
           x == [q EXCEPT !.pc = "destroy", !.count = n]
<1>w. /\ q.pc = "count" /\ q \in Request
  BY DEF TypeInv, TypeOK, CountAdmins, At
<1>d. UNCHANGED <<db, born>>
  BY DEF CountAdmins
<1>1. CASE Done(r)
  BY <1>1, <1>d, EndsGiveUp
<1>2. CASE ~Done(r)
  <2>1. req' = [req EXCEPT ![r] = x]
    BY <1>2 DEF CountAdmins
  <2> HIDE DEF n
  <2>2. x.pc = "destroy" /\ Goes(q, x) /\ x.target = q.target
    BY <1>w DEF Goes, Request
  <2> HIDE DEF x
  <2>3. Writes(x) = Writes(q) /\ LetTo(x) = LetTo(q)
    BY <1>w, <2>2, WritesIs DEF LetTo
  <2>4. PermitOf(x) = PermitOf(q)
    BY <2>2, <2>3 DEF PermitOf, Goes
  <2> QED
    BY <1>d, <2>1, <2>4, OnePermit DEF Authority!avars
<1> QED
  BY <1>1, <1>2

LEMMA DestroyStep ==
    ASSUME TypeInv, NEW r \in Req, DestroyUser(r)
    PROVE  Authority!Remove(r)
<1>1. LetTo(req[r]) = "remove" /\ Permits[r] = PermitOf(req[r])
  BY DEF DestroyUser, At, LetTo, Permits
<1>2. Authority!Becomes(r, Authority!Nothing)
  BY EndsGiveUp DEF DestroyUser
<1> QED
  BY <1>1, <1>2, PermitIs DEF DestroyUser, Authority!Remove

LEMMA AuthorityStep ==
    ASSUME TypeInv, [Next]_vars PROVE [Authority!ANext]_(Authority!avars)
<1>1. CASE UNCHANGED vars
  BY <1>1 DEF vars, Authority!avars, Permits, PermitOf, LetTo, Writes
<1>2. CASE Crash
  <2>1. Permits' = [r \in Req |-> PermitOf(req'[r])]
    BY DEF Permits, PermitOf, LetTo, Writes
  <2> QED
    BY <1>2, <2>1, IdlePermit
    DEF Crash, Authority!ANext, Authority!Restart, Authority!data
<1>3. ASSUME NEW r \in Req, ReceiveRegister(r) \/ ReceiveEdit(r) \/ ReceiveSignIn(r)
      PROVE  Authority!ANext
  BY <1>3, ArriveStep DEF Authority!ANext
<1>4. ASSUME NEW r \in Req, InsertUser(r) PROVE Authority!ANext
  BY <1>4, OpenStep DEF Authority!ANext
<1>5. ASSUME NEW r \in Req, FindByEmail(r) PROVE Authority!ANext
  BY <1>5, FindStep DEF Authority!ANext
<1>6. ASSUME NEW r \in Req, LoadUser(r) PROVE Authority!ANext
  BY <1>6, LoadStep DEF Authority!ANext
<1>7. ASSUME NEW r \in Req, SaveUser(r) PROVE Authority!ANext
  BY <1>7, SaveStep DEF Authority!ANext
<1>8. ASSUME NEW r \in Req, CountAdmins(r)
      PROVE  Authority!ANext \/ UNCHANGED Authority!avars
  BY <1>8, CountStep DEF Authority!ANext
<1>9. ASSUME NEW r \in Req, DestroyUser(r) PROVE Authority!ANext
  BY <1>9, DestroyStep DEF Authority!ANext
<1> QED
  BY <1>1, <1>2, <1>3, <1>4, <1>5, <1>6, <1>7, <1>8, <1>9 DEF Next, Proceed

(* The handlers implement the abstract account authority: the permits of   *)
(* its requests follow the steps of the code, statement by statement.      *)
THEOREM AccountsImplementAuthority == Spec => ImplementsAuthority
<1>1. Init => Authority!AInit
  <2> SUFFICES ASSUME Init PROVE Authority!AInit
    OBVIOUS
  <2>1. Permits = [r \in Req |-> Authority!Nothing]
    BY IdlePermit DEF Init, Permits
  <2> QED
    BY <2>1 DEF Init, Authority!AInit
<1>2. TypeInv /\ [Next]_vars => [Authority!ANext]_(Authority!avars)
  BY AuthorityStep
<1> QED
  BY <1>1, <1>2, TypeInit, TypeStep, PTL DEF Spec, ImplementsAuthority, Authority!ASpec

=============================================================================
