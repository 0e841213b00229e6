--------------------------- MODULE MCSessionProofs ---------------------------
(***************************************************************************)
(* Proofs about MCSession.  First Session, for every set of accounts and   *)
(* any number of steps: none of its proofs needs the bound on turns.  Then *)
(* the parts that share no state with it: the search of Splunk, the list   *)
(* of a bucket, the export of a report, and the updates of a group on the  *)
(* server.  Each invariant is of one part, whose actions are the           *)
(* instance's: P, W, H and G.  The theorems hold for any constants with    *)
(* PartsAssumption.                                                        *)
(***************************************************************************)
EXTENDS MCSession, ListLemmas

Kinds == {"server", "user", "login", "other"}

LEMMA CallTyped ==
    ASSUME NEW k \in Kinds, NEW i \in Known, NEW a \in Known, NEW r \in Waiting
    PROVE  /\ Call(k, i, a, r) \in [kind : Kinds, id : Known, as : Known, to : Waiting]
           /\ Call(k, i, a, r).kind = k /\ Call(k, i, a, r).id = i /\ Call(k, i, a, r).to = r
  BY DEF Call

LEMMA OrTyped ==
    ASSUME NEW a \in Known, NEW b \in Known PROVE Or(a, b) \in Known
  BY DEF Or

(* A sign-in names an account, a /server call is some guard's.             *)
CallsMeant ==
    \A c \in calls : /\ c.kind = "login" => c.id # Nobody
                     /\ c.kind = "server" => c.to # "none"

(* A page shows a route or is about to.                                    *)
RouteWanted == at # "none" \/ pending # "none"

(* Whose data is asked for.                                                *)

CallsForToken ==
    ~switched => \A c \in calls : c.kind = "user" => c.id \in {token, Nobody}

IInv == /\ TypeOK /\ CallsMeant /\ RouteWanted /\ CallsForToken
        /\ StoredPair /\ UserIsSignedIn /\ AdminSeesAdmin

LEMMA SessionInit == Init => IInv
<1> SUFFICES ASSUME Init PROVE IInv
  OBVIOUS
<1>1. TypeOK
  <2>1. PICK a \in Known : storage = [token |-> a, id |-> a]
    BY DEF Init
  <2>2. pending \in Waiting /\ Nobody \in Known
    BY DEF Init, Waiting, Known
  <2>3. calls \subseteq [kind : Kinds, id : Known, as : Known, to : Waiting]
    BY <2>2, CallTyped DEF Init, Kinds
  <2>4. storage \in [token : Known, id : Known] /\ cookie \in Known
    BY <2>1 DEF Init
  <2>5. user \in [id : Known, data : Known] /\ token \in Known
    BY <2>2 DEF Init
  <2>6. at \in Waiting /\ valid \subseteq Account
    BY DEF Init, Waiting
  <2>7. turns \in 0..MaxTurns
    BY AccountAssumption DEF Init
  <2> QED
    BY <2>2, <2>3, <2>4, <2>5, <2>6, <2>7 DEF Init, TypeOK, Kinds
<1>2. CallsMeant /\ RouteWanted /\ CallsForToken
  BY DEF Init, CallsMeant, RouteWanted, CallsForToken, Call, Routes
<1> QED
  BY <1>1, <1>2 DEF Init, IInv, StoredPair, UserIsSignedIn, AdminSeesAdmin

(* Entering a route shows one that may be shown.                           *)
LEMMA EnterRight ==
    ASSUME NEW r \in Waiting, r # "none", Enter(r)
    PROVE  /\ at' \in Routes /\ pending' = "none"
           /\ at' = "admin" => user'.data \in AdminAccount
  BY DEF Enter, Allowed, Waiting, Routes

(* The administration is shown for the token's own data.                   *)
LEMMA AdminAfterEnter ==
    ASSUME UserIsSignedIn', at' = "admin" => user'.data \in AdminAccount
    PROVE  AdminSeesAdmin'
  BY AccountAssumption DEF UserIsSignedIn, AdminSeesAdmin

(* Steps that change nothing the session invariants speak of, but add calls *)
(* and move between routes.                                                 *)
LEMMA PageStart ==
    ASSUME IInv, NEW r \in Routes, StartPage(r),
           storage' \in [token : Known, id : Known], StoredPair',
           cookie' \in Known, valid' \subseteq Account, turns' \in 0..MaxTurns
    PROVE  IInv'
<1>1. r \in Waiting /\ Nobody \in Known
  BY DEF Waiting, Known
<1>2. Call("server", Nobody, Nobody, r) \in [kind : Kinds, id : Known, as : Known, to : Waiting]
  BY <1>1, CallTyped DEF Kinds
<1>3. TypeOK'
  BY <1>1, <1>2 DEF TypeOK, StartPage, Kinds, Waiting
<1>4. CallsMeant' /\ RouteWanted' /\ CallsForToken'
  BY DEF StartPage, CallsMeant, RouteWanted, CallsForToken, Call, Routes
<1> QED
  BY <1>3, <1>4 DEF IInv, StartPage, UserIsSignedIn, AdminSeesAdmin

LEMMA Cleared ==
    ASSUME Logout
    PROVE  /\ storage' \in [token : Known, id : Known] /\ StoredPair'
           /\ leaving' = TRUE
  BY DEF Logout, ClearStorage, StoredPair, Known

LEMMA CallAdded ==
    ASSUME IInv, NEW c, c \in [kind : Kinds, id : Known, as : Known, to : Waiting],
           \/ c.kind = "server" /\ c.to # "none"
           \/ c.kind = "login" /\ c.id # Nobody
           \/ c.kind = "other",
           calls' = calls \cup {c}, token' = token, switched' = switched
    PROVE  /\ calls' \subseteq [kind : Kinds, id : Known, as : Known, to : Waiting]
           /\ CallsMeant' /\ CallsForToken'
  BY DEF IInv, TypeOK, Kinds, CallsMeant, CallsForToken

LEMMA TurnTyped ==
    ASSUME TypeOK, Turn PROVE turns' \in 0..MaxTurns
  BY AccountAssumption DEF TypeOK, Turn

LEMMA UserSteps ==
    ASSUME IInv, Navigate \/ Login \/ Use \/ ClickLogout \/ OtherTab \/ Expire
    PROVE  IInv'
<1>t. turns' \in 0..MaxTurns
  BY TurnTyped DEF IInv, Navigate, Login, Use, ClickLogout, OtherTab, Expire
<1>n. Nobody \in Known /\ token \in Known /\ Account \subseteq Known
  BY DEF IInv, TypeOK, Known
<1>1. CASE Navigate
  <2>1. PICK r \in Routes :
          IF loading
          THEN /\ pending' = r /\ at' = at
               /\ calls' = calls \cup {Call("server", Nobody, token, r)}
          ELSE Enter(r) /\ calls' = calls
    BY <1>1 DEF Navigate
  <2>2. UNCHANGED <<storage, cookie, valid, token, user, loading, leaving, switched>>
    BY <1>1 DEF Navigate, outside
  <2>3. CASE loading
    <3>1. Call("server", Nobody, token, r) \in [kind : Kinds, id : Known, as : Known, to : Waiting]
          /\ Call("server", Nobody, token, r).kind = "server"
          /\ Call("server", Nobody, token, r).to # "none"
      BY <1>n, CallTyped DEF Kinds, Waiting, Routes
    <3>2. /\ calls' \subseteq [kind : Kinds, id : Known, as : Known, to : Waiting]
          /\ CallsMeant' /\ CallsForToken'
      BY <2>1, <2>2, <2>3, <3>1, CallAdded
    <3> QED
      BY <1>t, <2>1, <2>2, <2>3, <3>2
         DEF IInv, TypeOK, Kinds, Waiting, Routes, RouteWanted, StoredPair, UserIsSignedIn, AdminSeesAdmin
  <2>4. CASE ~loading
    <3>1. at' \in Routes /\ pending' = "none" /\ (at' = "admin" => user'.data \in AdminAccount)
      BY <2>1, <2>4, EnterRight DEF Waiting, Routes
    <3>2. UserIsSignedIn' /\ AdminSeesAdmin'
      BY <2>2, <3>1, AdminAfterEnter DEF IInv, UserIsSignedIn
    <3> QED
      BY <1>t, <2>1, <2>2, <2>4, <3>1, <3>2
         DEF IInv, TypeOK, Waiting, Routes, RouteWanted, StoredPair, CallsMeant, CallsForToken
  <2> QED
    BY <2>3, <2>4
<1>2. CASE Login
  <2>1. PICK a \in Account : calls' = calls \cup {Call("login", a, token, "none")}
    BY <1>2 DEF Login
  <2>2. Call("login", a, token, "none") \in [kind : Kinds, id : Known, as : Known, to : Waiting]
        /\ Call("login", a, token, "none").kind = "login" /\ Call("login", a, token, "none").id # Nobody
    BY <1>n, CallTyped, AccountAssumption DEF Kinds, Waiting
  <2>3. UNCHANGED <<storage, cookie, valid, token, user, loading, at, pending, leaving, switched>>
    BY <1>2 DEF Login, outside
  <2>4. /\ calls' \subseteq [kind : Kinds, id : Known, as : Known, to : Waiting]
        /\ CallsMeant' /\ CallsForToken'
    BY <2>1, <2>2, <2>3, CallAdded
  <2> QED
    BY <1>t, <2>3, <2>4 DEF IInv, TypeOK, Kinds, RouteWanted, StoredPair, UserIsSignedIn, AdminSeesAdmin
<1>3. CASE Use
  <2>1. calls' = calls \cup {Call("other", token, token, "none")}
    BY <1>3 DEF Use
  <2>2. Call("other", token, token, "none") \in [kind : Kinds, id : Known, as : Known, to : Waiting]
        /\ Call("other", token, token, "none").kind = "other"
    BY <1>n, CallTyped DEF Kinds, Waiting
  <2>3. UNCHANGED <<storage, cookie, valid, token, user, loading, at, pending, leaving, switched>>
    BY <1>3 DEF Use, outside
  <2>4. /\ calls' \subseteq [kind : Kinds, id : Known, as : Known, to : Waiting]
        /\ CallsMeant' /\ CallsForToken'
    BY <2>1, <2>2, <2>3, CallAdded
  <2> QED
    BY <1>t, <2>3, <2>4 DEF IInv, TypeOK, Kinds, RouteWanted, StoredPair, UserIsSignedIn, AdminSeesAdmin
<1>4. CASE ClickLogout
  <2>1. storage' \in [token : Known, id : Known] /\ StoredPair' /\ leaving' = TRUE
    BY <1>4, Cleared DEF ClickLogout
  <2> QED
    BY <1>t, <1>4, <2>1
       DEF ClickLogout, IInv, TypeOK, UserIsSignedIn, AdminSeesAdmin, CallsMeant, RouteWanted, CallsForToken
<1>5. CASE OtherTab
  <2>1. PICK a \in Known : /\ storage' = [token |-> a, id |-> a]
                           /\ valid' = valid \cup ({a} \ {Nobody})
    BY <1>5 DEF OtherTab
  <2>2. storage' \in [token : Known, id : Known] /\ StoredPair' /\ valid' \subseteq Account
    BY <2>1 DEF StoredPair, IInv, TypeOK, Known
  <2> QED
    BY <1>t, <1>5, <2>2
       DEF OtherTab, page, IInv, TypeOK, UserIsSignedIn, AdminSeesAdmin, CallsMeant, RouteWanted, CallsForToken
<1>6. CASE Expire
  BY <1>t, <1>6
     DEF Expire, page, IInv, TypeOK, StoredPair, UserIsSignedIn, AdminSeesAdmin,
         CallsMeant, RouteWanted, CallsForToken
<1> QED
  BY <1>1, <1>2, <1>3, <1>4, <1>5, <1>6

LEMMA LoadSteps ==
    ASSUME IInv, Leave \/ Load PROVE IInv'
<1>1. Shown \in Routes /\ "home" \in Routes
  BY DEF IInv, TypeOK, RouteWanted, Waiting, Shown, Routes
<1>s. storage \in [token : Known, id : Known] /\ turns \in 0..MaxTurns
  BY DEF IInv, TypeOK
<1>2. CASE Leave
  BY <1>1, <1>2, PageStart DEF Leave, outside, IInv, TypeOK, StoredPair
<1>3. CASE Load
  <2>1. turns' \in 0..MaxTurns /\ storage' = storage
    BY <1>3, TurnTyped DEF Load, IInv
  <2>2. PICK r \in Routes : StartPage(r) /\ cookie' \in Known /\ valid' \subseteq Account
    BY <1>1, <1>3 DEF Load, IInv, TypeOK, Known
  <2> QED
    BY <1>s, <2>1, <2>2, PageStart DEF IInv, StoredPair
<1> QED
  BY <1>2, <1>3

-----------------------------------------------------------------------------

(* What an answer leaves of the calls.                                     *)
LEMMA CallRemoved ==
    ASSUME IInv, NEW c \in calls, calls' = calls \ {c}
    PROVE  /\ calls' \subseteq [kind : Kinds, id : Known, as : Known, to : Waiting]
           /\ CallsMeant'
  BY DEF IInv, TypeOK, Kinds, CallsMeant

LEMMA Settled ==
    ASSUME IInv, NEW c \in calls, c.to # "none", Settle(c)
    PROVE  /\ loading' = FALSE /\ at' \in Waiting /\ pending' \in Waiting
           /\ at' = "none" => pending' # "none"
           /\ at' = at \/ (at' = "admin" => user'.data \in AdminAccount)
<1>1. c.to \in Waiting
  BY DEF IInv, TypeOK
<1>2. CASE c.to = pending
  BY <1>1, <1>2, EnterRight DEF Settle, Waiting, Routes
<1>3. CASE c.to # pending
  BY <1>3 DEF Settle, IInv, TypeOK, RouteWanted
<1> QED
  BY <1>2, <1>3

LEMMA ServerAnswers ==
    ASSUME IInv, NEW c \in calls, AnswerServer(c) PROVE IInv'
<1> DEFINE tok == StoredToken
           sid == Or(storage.id, cookie)
           u == [kind |-> "user", id |-> user'.id, as |-> token', to |-> c.to]
<1>1. tok \in Known /\ sid = tok /\ storage' = [token |-> tok, id |-> sid]
  BY OrTyped DEF IInv, TypeOK, StoredPair, StoredToken, AnswerServer
<1>2. storage' \in [token : Known, id : Known] /\ StoredPair' /\ storage'.token = tok /\ storage'.id = tok
  BY <1>1 DEF StoredPair
<1> HIDE DEF tok, sid
<1>3. token' = Or(tok, token) /\ user' = [user EXCEPT !.id = Or(tok, user.id)]
  BY <1>2 DEF AnswerServer
<1>4. token' \in Known /\ user' \in [id : Known, data : Known]
      /\ user'.id = Or(tok, user.id) /\ user'.data = user.data
  BY <1>1, <1>3, OrTyped DEF IInv, TypeOK
<1>5. switched' = (switched \/ (tok # Nobody /\ token \notin {tok, Nobody}))
  BY <1>2 DEF AnswerServer, Switches
<1>6. ASSUME ~switched'
      PROVE  ~switched /\ (token' = token \/ token = Nobody)
  BY <1>3, <1>5, <1>6 DEF Or
<1>7. UserIsSignedIn'
  BY <1>3, <1>4, <1>5, <1>6 DEF UserIsSignedIn, IInv, Or
<1>8. cookie' = Nobody /\ Nobody \in Known /\ c \in [kind : Kinds, id : Known, as : Known, to : Waiting]
      /\ c.kind = "server" /\ c.to # "none"
  BY DEF AnswerServer, Known, IInv, TypeOK, Kinds, CallsMeant
<1>9. \A d \in calls : ~switched' /\ d.kind = "user" => d.id \in {token', Nobody}
  BY <1>6 DEF IInv, CallsForToken
<1>10. ASSUME ~switched', at = "admin" PROVE token' \in AdminAccount
  BY <1>6, <1>10, AccountAssumption DEF IInv, AdminSeesAdmin
<1>11. CASE user'.id # Nobody
  <2>1. calls' = (calls \ {c}) \cup {Call("user", user'.id, token', c.to)} /\ UNCHANGED <<loading, at, pending>>
    BY <1>11 DEF AnswerServer
  <2>2. u \in [kind : Kinds, id : Known, as : Known, to : Waiting]
    BY <1>4, <1>8 DEF Kinds
  <2>3. calls' = (calls \ {c}) \cup {u}
    BY <2>1 DEF Call
  <2>4. calls' \subseteq [kind : Kinds, id : Known, as : Known, to : Waiting]
    BY <2>2, <2>3 DEF IInv, TypeOK, Kinds
  <2>5. CallsMeant'
    BY <2>3 DEF IInv, CallsMeant
  <2>6. CallsForToken'
    BY <2>3, <1>7, <1>9 DEF CallsForToken, UserIsSignedIn
  <2>7. AdminSeesAdmin'
    BY <2>1, <1>10 DEF AdminSeesAdmin
  <2> QED
    BY <1>2, <1>4, <1>5, <1>7, <1>8, <2>1, <2>4, <2>5, <2>6, <2>7
       DEF IInv, TypeOK, AnswerServer, Kinds, RouteWanted
<1>12. CASE user'.id = Nobody
  <2>1. calls' = calls \ {c} /\ Settle(c)
    BY <1>12 DEF AnswerServer
  <2>2. calls' \subseteq [kind : Kinds, id : Known, as : Known, to : Waiting] /\ CallsMeant'
    BY <2>1, CallRemoved
  <2>3. CallsForToken'
    BY <2>1, <1>9 DEF CallsForToken
  <2>4. /\ loading' = FALSE /\ at' \in Waiting /\ pending' \in Waiting
        /\ at' = "none" => pending' # "none"
        /\ at' = at \/ (at' = "admin" => user'.data \in AdminAccount)
    BY <1>8, <2>1, Settled
  <2>5. AdminSeesAdmin'
    BY <1>7, <1>10, <2>4, AdminAfterEnter DEF AdminSeesAdmin
  <2> QED
    BY <1>2, <1>4, <1>5, <1>7, <1>8, <2>2, <2>3, <2>4, <2>5
       DEF IInv, TypeOK, AnswerServer, Kinds, RouteWanted
<1> QED
  BY <1>11, <1>12

LEMMA UserAnswers ==
    ASSUME IInv, NEW c \in calls, AnswerUser(c) PROVE IInv'
<1>1. calls' \subseteq [kind : Kinds, id : Known, as : Known, to : Waiting] /\ CallsMeant'
  BY CallRemoved DEF AnswerUser
<1>2. CallsForToken'
  BY DEF AnswerUser, CallsForToken, IInv
<1>3. c.kind = "user" /\ c.id \in Known
  BY DEF AnswerUser, IInv, TypeOK
<1>4. storage' \in [token : Known, id : Known] /\ StoredPair' /\ leaving' \in BOOLEAN
  BY Cleared DEF AnswerUser, IInv, TypeOK, StoredPair
<1>5. user' \in [id : Known, data : Known] /\ (user' = user \/ (user'.id = c.id /\ user'.data = c.id))
  BY <1>3 DEF AnswerUser, IInv, TypeOK
<1>6. UserIsSignedIn'
  BY <1>3, <1>5 DEF AnswerUser, IInv, UserIsSignedIn, CallsForToken
<1>7. /\ loading' \in BOOLEAN /\ at' \in Waiting /\ pending' \in Waiting
      /\ at' = "none" => pending' # "none"
      /\ at' = at \/ (at' = "admin" => user'.data \in AdminAccount)
  <2>1. CASE c.to = "none"
    BY <2>1 DEF AnswerUser, IInv, TypeOK, RouteWanted
  <2>2. CASE c.to # "none"
    BY <2>2, Settled DEF AnswerUser
  <2> QED
    BY <2>1, <2>2
<1>8. AdminSeesAdmin'
  BY <1>6, <1>7, AdminAfterEnter DEF AdminSeesAdmin, IInv, AnswerUser
<1> QED
  BY <1>1, <1>2, <1>4, <1>5, <1>6, <1>7, <1>8
     DEF IInv, TypeOK, AnswerUser, Kinds, RouteWanted

LEMMA LoginAnswers ==
    ASSUME IInv, NEW c \in calls, AnswerLogin(c) PROVE IInv'
<1> DEFINE u == [kind |-> "user", id |-> c.id, as |-> c.id, to |-> "none"]
<1>1. c.kind = "login" /\ c.id \in Account /\ c.id \in Known /\ c.id # Nobody
  BY DEF AnswerLogin, IInv, TypeOK, CallsMeant, Known
<1>2. CASE c.id = storage'.id /\ storage' = [token |-> c.id, id |-> c.id]
           /\ token' = c.id /\ user' = [user EXCEPT !.id = c.id]
           /\ Switches(c.id) /\ valid' = valid \cup {c.id}
           /\ calls' = (calls \ {c}) \cup {Call("user", c.id, c.id, "none")}
           /\ Enter("home") /\ leaving' = leaving
  <2>1. calls' = (calls \ {c}) \cup {u}
    BY <1>2 DEF Call
  <2>2. u \in [kind : Kinds, id : Known, as : Known, to : Waiting]
    BY <1>1 DEF Kinds, Waiting
  <2>3. calls' \subseteq [kind : Kinds, id : Known, as : Known, to : Waiting]
    BY <2>1, <2>2 DEF IInv, TypeOK, Kinds
  <2>4. CallsMeant'
    BY <2>1 DEF IInv, CallsMeant
  <2>5. ~switched' => ~switched /\ token \in {c.id, Nobody}
    BY <1>1, <1>2 DEF Switches
  <2>6. user' \in [id : Known, data : Known] /\ user'.id = c.id /\ user'.data = user.data
    BY <1>1, <1>2 DEF IInv, TypeOK
  <2>7. UserIsSignedIn'
    BY <1>2, <2>5, <2>6 DEF IInv, UserIsSignedIn
  <2>8. CallsForToken'
    BY <1>2, <2>1, <2>5 DEF IInv, CallsForToken
  <2>9. at' \in Routes /\ pending' = "none" /\ (at' = "admin" => user'.data \in AdminAccount)
    BY <1>2, EnterRight DEF Waiting, Routes
  <2>10. AdminSeesAdmin'
    BY <2>7, <2>9, AdminAfterEnter
  <2>11. storage' \in [token : Known, id : Known] /\ StoredPair' /\ switched' \in BOOLEAN
    BY <1>1, <1>2 DEF StoredPair, Switches, IInv, TypeOK
  <2> QED
    BY <1>1, <1>2, <2>3, <2>4, <2>6, <2>7, <2>8, <2>9, <2>10, <2>11
       DEF IInv, TypeOK, AnswerLogin, Kinds, RouteWanted, Waiting, Routes
<1>3. CASE /\ calls' = calls \ {c}
           /\ IF token # Nobody THEN Logout ELSE UNCHANGED <<storage, leaving>>
           /\ UNCHANGED <<token, user, valid, at, pending, switched>>
  <2>1. calls' \subseteq [kind : Kinds, id : Known, as : Known, to : Waiting] /\ CallsMeant'
    BY <1>3, CallRemoved
  <2>2. storage' \in [token : Known, id : Known] /\ StoredPair' /\ leaving' \in BOOLEAN
    BY <1>3, Cleared DEF IInv, TypeOK, StoredPair
  <2> QED
    BY <1>3, <2>1, <2>2
       DEF IInv, TypeOK, AnswerLogin, Kinds, RouteWanted, UserIsSignedIn, AdminSeesAdmin, CallsForToken
<1> QED
  BY <1>2, <1>3 DEF AnswerLogin

LEMMA OtherAnswers ==
    ASSUME IInv, NEW c \in calls, AnswerOther(c) PROVE IInv'
<1>1. calls' \subseteq [kind : Kinds, id : Known, as : Known, to : Waiting] /\ CallsMeant'
  BY CallRemoved DEF AnswerOther
<1>2. storage' \in [token : Known, id : Known] /\ StoredPair' /\ leaving' \in BOOLEAN
  BY Cleared DEF AnswerOther, IInv, TypeOK, StoredPair
<1> QED
  BY <1>1, <1>2
     DEF IInv, TypeOK, AnswerOther, Kinds, RouteWanted, UserIsSignedIn, AdminSeesAdmin, CallsForToken

LEMMA SessionInductive ==
    ASSUME IInv, [Next]_vars PROVE IInv'
<1>1. CASE Answer
  BY <1>1, ServerAnswers, UserAnswers, LoginAnswers, OtherAnswers DEF Answer, AnswerOf
<1>2. CASE UNCHANGED vars
  BY <1>2 DEF vars, IInv, TypeOK, CallsMeant, RouteWanted, CallsForToken, StoredPair,
       UserIsSignedIn, AdminSeesAdmin
<1> QED
  BY <1>1, <1>2, UserSteps, LoadSteps DEF Next

LEMMA SessionInvariant == Spec => []IInv
<1>1. Init => IInv
  BY SessionInit
<1>2. IInv /\ [Next]_vars => IInv'
  BY SessionInductive
<1> QED
  BY <1>1, <1>2, PTL DEF Spec

(* Every variable keeps its type.                                          *)
THEOREM SessionTypeCorrect == Spec => []TypeOK
<1>1. IInv => TypeOK
  BY DEF IInv
<1> QED
  BY <1>1, SessionInvariant, PTL

(* What is stored is of one account, whichever pages, tabs and callbacks   *)
(* wrote it; a page that one account used shows and asks for that account  *)
(* only, and shows the administration to administrators only.              *)
THEOREM SessionStaysHonest == Spec => []SessionHonest
<1>1. IInv => SessionHonest
  BY DEF IInv, SessionHonest
<1> QED
  BY <1>1, SessionInvariant, PTL

-----------------------------------------------------------------------------
(* What the steps of the whole are for one of its parts.                   *)

LEMMA PartsInits ==
    PartsInit => Init /\ P!Init /\ W!Init /\ T!Init /\ H!Init /\ U!Init /\ G!Init /\ M!Init /\ L!Init
  BY DEF PartsInit, SessionIdle, S3Idle, TagsIdle, ExportIdle, UsersIdle, UpdatesIdle,
         MembersIdle, LinksIdle

LEMMA SessionPart == [PartsNext]_partsVars => [Next]_vars
  BY DEF PartsNext, partsVars, sessionVars, vars, SplunkStep, SessionStep

LEMMA SplunkPart == [PartsNext]_partsVars => [P!Next]_(P!vars)
  BY DEF PartsNext, partsVars, splunkVars, P!vars, SplunkStep, SessionStep

LEMMA S3Part == [PartsNext]_partsVars => [W!Next]_(W!vars)
  BY DEF PartsNext, partsVars, s3Vars, W!vars, W!history, SplunkStep, SessionStep

LEMMA OtherPart ==
    ASSUME [PartsNext]_partsVars
    PROVE  /\ part' = part
           /\ \/ UNCHANGED otherVars
              \/ part = "tags" /\ T!Next /\ UNCHANGED <<exportVars, userVars, groupVars>>
              \/ part = "export" /\ H!Next /\ UNCHANGED <<tagVars, userVars, groupVars>>
              \/ part = "users" /\ U!Next /\ UNCHANGED <<tagVars, exportVars, groupVars>>
              \/ part = "updates" /\ G!Next
                 /\ UNCHANGED <<tagVars, exportVars, userVars, memberVars, linkVars>>
              \/ part = "members" /\ M!Next
                 /\ UNCHANGED <<tagVars, exportVars, userVars, updateVars, linkVars>>
              \/ part = "links" /\ L!Next
                 /\ UNCHANGED <<tagVars, exportVars, userVars, updateVars, memberVars>>
  BY DEF PartsNext, partsVars, otherVars, groupVars, SplunkStep, SessionStep

LEMMA ExportPart == [PartsNext]_partsVars => [H!Next]_(H!vars)
  BY OtherPart DEF otherVars, exportVars, H!vars

LEMMA UpdatePart == [PartsNext]_partsVars => [G!Next]_(G!vars)
  BY OtherPart DEF otherVars, groupVars, updateVars, G!vars

-----------------------------------------------------------------------------
(* The search of Splunk.                                                   *)

(* The search the flag stands for.                                         *)
FlagIsSearch ==
    IF alreadySearching THEN \E s : searches = {s} ELSE searches = {}

LEMMA SearchEnds ==
    ASSUME FlagIsSearch, NEW s \in searches, searches' = searches \ {s},
           alreadySearching' = FALSE
    PROVE  FlagIsSearch'
  BY DEF FlagIsSearch

LEMMA SearchStep ==
    ASSUME FlagIsSearch, [P!Next]_(P!vars) PROVE FlagIsSearch'
<1>1. CASE P!Poll
  <2>1. searches = {}
    BY <1>1 DEF P!Poll, FlagIsSearch
  <2> QED
    BY <1>1, <2>1 DEF P!Poll, FlagIsSearch
<1>2. ASSUME NEW s \in searches, P!SearchGoesOn(s) PROVE FlagIsSearch'
  <2>1. searches = {s} /\ alreadySearching
    BY DEF FlagIsSearch
  <2>2. searches' = {P!Search(s.of, IF s.at = "create" THEN "job" ELSE "results")}
    BY <1>2, <2>1 DEF P!SearchGoesOn
  <2> QED
    BY <1>2, <2>1, <2>2 DEF P!SearchGoesOn, FlagIsSearch
<1>3. ASSUME NEW s \in searches, P!SearchSucceeds(s) \/ P!SearchFails(s) PROVE FlagIsSearch'
  BY <1>3, SearchEnds DEF P!SearchSucceeds, P!SearchFails
<1>4. CASE UNCHANGED <<searches, alreadySearching>>
  BY <1>4 DEF FlagIsSearch
<1> QED
  BY <1>1, <1>2, <1>3, <1>4
     DEF P!Next, P!SearchMoves, P!TryLogin, P!CheckAnswered, P!TimePasses, P!Logout, P!Overlay, P!poller, P!vars

LEMMA FlagCounts == ASSUME FlagIsSearch PROVE P!OneSearch
<1>0. \A S : P!Cardinality(S) = Cardinality(S)
  BY DEF P!Cardinality, Cardinality
<1>1. CASE alreadySearching
  <2>1. PICK s : searches = {s}
    BY <1>1 DEF FlagIsSearch
  <2>2. Cardinality({s}) = 1
    BY FS_Singleton
  <2> QED
    BY <1>0, <1>1, <2>1, <2>2 DEF P!OneSearch
<1>2. CASE ~alreadySearching
  BY <1>0, <1>2, FS_EmptySet DEF FlagIsSearch, P!OneSearch
<1> QED
  BY <1>1, <1>2

(* However sign-ins, sign-outs, errors and answers meet, the flag of the   *)
(* poller stands for the one search that is under way                      *)
(* (splunk/FileList.vue).                                                  *)
THEOREM OneSearchAtATime == PartsSpec => []OneSearch
<1>1. PartsInit => FlagIsSearch
  BY PartsInits DEF P!Init, FlagIsSearch
<1>2. FlagIsSearch /\ [PartsNext]_partsVars => FlagIsSearch'
  BY SplunkPart, SearchStep
<1>3. FlagIsSearch => OneSearch
  BY FlagCounts DEF OneSearch
<1> QED
  BY <1>1, <1>2, <1>3, PTL DEF PartsSpec

-----------------------------------------------------------------------------
(* The list of a bucket.                                                   *)

(* While no two authentications crossed, one at most is unanswered, it is   *)
(* the last that was sent, and a form is open; until a form or the list was *)
(* cancelled, files are asked for with the credentials held.                *)
BucketInv ==
    /\ W!TypeOK /\ W!CredentialsAsAsked
    /\ ~crossed =>
          /\ \A c \in s3calls : c.kind # "list" => c.by = askedFor /\ s3step # 3
          /\ \A c, d \in s3calls : c.kind # "list" /\ d.kind # "list" => c = d
          /\ ~wentBack => \A c \in s3calls : c.kind = "list" => c.by = assumedRole

LEMMA BucketAuthenticate ==
    ASSUME BucketInv, W!Authenticate
    PROVE  BucketInv'
<1>1. PICK k \in Key, kind \in {"basic", "goto", "mfa"} :
         W!Ask(kind, k) /\ askedFor' = k /\ W!Crosses /\ s3step # 3
  BY DEF W!Authenticate
<1> DEFINE call == [n |-> clicks + 1, kind |-> kind, by |-> k]
<1>2. /\ s3calls' = s3calls \cup {call} /\ call.kind # "list" /\ call.by = k
      /\ UNCHANGED <<s3step, assumedRole, listedBy, wentBack>> /\ clicks' = clicks + 1
      /\ call \in [n : 1..MaxClicks, kind : {"basic", "goto", "mfa", "list"}, by : Key]
      /\ clicks' \in 0..MaxClicks
  BY <1>1, PartsAssumption DEF W!Ask, BucketInv, W!TypeOK
<1> HIDE DEF call
<1>3. crossed' = (crossed \/ \E c \in s3calls : c.kind # "list")
  BY <1>1 DEF W!Crosses, W!Authentications
<1>4. W!TypeOK'
  BY <1>1, <1>2, <1>3 DEF BucketInv, W!TypeOK
<1> QED
  BY <1>1, <1>2, <1>3, <1>4 DEF BucketInv, W!CredentialsAsAsked

LEMMA BucketLoad ==
    ASSUME BucketInv, W!LoadBucket
    PROVE  BucketInv'
<1> DEFINE call == [n |-> clicks + 1, kind |-> "list", by |-> assumedRole]
<1>1. /\ s3calls' = s3calls \cup {call} /\ call.kind = "list" /\ call.by = assumedRole
      /\ UNCHANGED <<s3step, assumedRole, listedBy, W!history>> /\ clicks' = clicks + 1
      /\ call \in [n : 1..MaxClicks, kind : {"basic", "goto", "mfa", "list"}, by : Key]
      /\ clicks' \in 0..MaxClicks /\ s3step = 3
  BY PartsAssumption DEF W!LoadBucket, W!Ask, W!history, BucketInv, W!TypeOK
<1> HIDE DEF call
<1> QED
  BY <1>1 DEF W!history, BucketInv, W!TypeOK, W!CredentialsAsAsked

LEMMA BucketAnswer ==
    ASSUME BucketInv, NEW c \in s3calls, W!Answer(c)
    PROVE  BucketInv'
<1>1. /\ c.kind \in {"basic", "goto", "mfa", "list"} /\ c.by \in Key
      /\ s3calls' = s3calls \ {c} /\ UNCHANGED <<clicks, W!history>>
  BY DEF BucketInv, W!TypeOK, W!Answer
<1>2. CASE c.kind \in {"basic", "mfa"}
  <2>1. assumedRole' \in {c.by, NoRole} /\ s3step' = 3 /\ listedBy' = listedBy
    BY <1>2 DEF W!Answer
  <2>2. ASSUME ~crossed
        PROVE  /\ c.by = askedFor /\ assumedRole = NoRole
               /\ \A d \in s3calls' : d.kind = "list"
               /\ ~wentBack => listedBy = NoRole /\ s3calls' = {}
    BY <1>1, <1>2, <2>2, PartsAssumption DEF BucketInv, W!TypeOK, W!CredentialsAsAsked
  <2> QED
    BY <1>1, <2>1, <2>2 DEF W!history, BucketInv, W!TypeOK, W!CredentialsAsAsked
<1>3. CASE c.kind = "goto"
  <2>1. s3step' = 2 /\ UNCHANGED <<assumedRole, listedBy>>
    BY <1>3 DEF W!Answer
  <2> QED
    BY <1>1, <1>3, <2>1 DEF W!history, BucketInv, W!TypeOK, W!CredentialsAsAsked
<1>4. CASE c.kind = "list"
  <2>1. listedBy' = c.by /\ UNCHANGED <<assumedRole, s3step>>
    BY <1>4 DEF W!Answer
  <2> QED
    BY <1>1, <1>4, <2>1 DEF W!history, BucketInv, W!TypeOK, W!CredentialsAsAsked
<1> QED
  BY <1>1, <1>2, <1>3, <1>4

LEMMA BucketStep ==
    ASSUME BucketInv, [W!Next]_(W!vars)
    PROVE  BucketInv'
<1>1. CASE W!CancelMfa
  <2>1. crossed' = (crossed \/ \E c \in s3calls : c.kind # "list") /\ wentBack'
    BY <1>1 DEF W!CancelMfa, W!Crosses, W!Authentications
  <2> QED
    BY <1>1, <2>1 DEF W!CancelMfa, BucketInv, W!TypeOK, W!CredentialsAsAsked
<1>2. ASSUME NEW c \in s3calls, W!Fail(c)
      PROVE  BucketInv'
  BY <1>2 DEF W!Fail, W!history, BucketInv, W!TypeOK, W!CredentialsAsAsked
<1>3. CASE UNCHANGED W!vars
  BY <1>3 DEF W!vars, W!history, BucketInv, W!TypeOK, W!CredentialsAsAsked
<1> QED
  BY <1>1, <1>2, <1>3, BucketAuthenticate, BucketLoad, BucketAnswer DEF W!Next

LEMMA BucketInit == W!Init => BucketInv
<1> SUFFICES ASSUME W!Init PROVE BucketInv
  OBVIOUS
<1>1. /\ assumedRole \in Key \cup {NoRole} /\ listedBy = NoRole /\ askedFor = assumedRole
      /\ s3step \in {1, 3} /\ (s3step # 3 => assumedRole = NoRole)
      /\ s3calls = {} /\ clicks = 0 /\ ~crossed /\ ~wentBack
      /\ crossed \in BOOLEAN /\ wentBack \in BOOLEAN
  BY DEF W!Init
<1>2. W!TypeOK
  <2>1. 0 \in 0..MaxClicks /\ s3step \in 1..3
    BY <1>1, PartsAssumption
  <2> QED
    BY <1>1, <2>1 DEF W!TypeOK
<1> QED
  BY <1>1, <1>2 DEF BucketInv, W!CredentialsAsAsked

(* Where no two authentications crossed the credentials held are those     *)
(* asked for last, a form holds none, and files are fetched with those     *)
(* they were listed with until one goes back (S3Reader.vue).               *)
THEOREM CredentialsStayAsAsked == PartsSpec => []CredentialsAsAsked
<1>1. PartsInit => BucketInv
  BY PartsInits, BucketInit
<1>2. BucketInv /\ [PartsNext]_partsVars => BucketInv'
  BY S3Part, BucketStep
<1>3. BucketInv => CredentialsAsAsked
  BY DEF BucketInv, CredentialsAsAsked
<1> QED
  BY <1>1, <1>2, <1>3, PTL DEF PartsSpec

-----------------------------------------------------------------------------
(* The export of a report.                                                 *)

LEMMA SameSetToSeq == \A S : H!SetToSeq(S) = SetToSeq(S)
  BY DEF H!SetToSeq, SetToSeq, H!Cardinality, Cardinality, H!IsInjective, IsInjective

(* An export that met nothing is alone, and its data are of the filter.    *)
ExportInv ==
    /\ H!TypeOK /\ H!ReportWhole
    /\ ~met /\ fetching # {} =>
          (\E n : fetching = {n}) /\ statistics = filter /\ controlSets = <<>>

LEMMA SameToSet == /\ \A q : H!ToSet(q) = ToSet(q)
                   /\ \A S : H!Cardinality(S) = Cardinality(S)
  BY DEF H!ToSet, ToSet, H!Cardinality, Cardinality

LEMMA RenderRight ==
    ASSUME ExportInv, NEW n \in fetching, H!Render(n)
    PROVE  ExportInv'
<1> DEFINE q == SetToSeq(filter.files)
           m == Cardinality(filter.files)
           Item == [file : ReportFile, rest : StatusFilter]
           added == [i \in 1..m |-> [file |-> q[i], rest |-> filter.rest]]
<1>1. filter.files \subseteq ReportFile /\ filter.rest \in StatusFilter /\ IsFiniteSet(filter.files)
  BY PartsAssumption, FS_Subset DEF ExportInv, H!TypeOK, H!Filter
<1>2. /\ q \in [1..m -> filter.files] /\ m \in Nat
      /\ \A x \in filter.files : \E a \in 1..m : q[a] = x
  BY <1>1, SetToSeqOnce
<1>3. controlSets' = controlSets \o added
  BY <1>2, SameSetToSeq DEF H!Render
<1>4. added \in Seq(Item) /\ Len(added) = m /\ DOMAIN added = 1..m
  <2>1. added \in [1..m -> Item]
    BY <1>1, <1>2
  <2> HIDE DEF added, m
  <2> HIDE DEF Item
  <2>2. added \in Seq(Item)
    BY <1>2, <2>1, SeqDef, Zenon
  <2>3. DOMAIN added = 1..m /\ DOMAIN added = 1..Len(added) /\ Len(added) \in Nat
    BY <2>1, <2>2, LenProperties
  <2> QED
    BY <1>2, <2>2, <2>3
<1>n. added \in [1..m -> Item] /\ \A i \in 1..m : added[i] = [file |-> q[i], rest |-> filter.rest]
  BY <1>1, <1>2
<1>m. m = Cardinality(filter.files)
  OBVIOUS
<1> HIDE DEF q, m, added
<1>5. H!TypeOK'
  <2>1. controlSets' \in Seq(Item)
    BY <1>3, <1>4, ConcatProperties DEF ExportInv, H!TypeOK
  <2> QED
    BY <2>1 DEF H!Render, ExportInv, H!TypeOK
<1>6. ASSUME ~met
      PROVE  H!ReportWhole'
  <2>1. statistics = filter /\ controlSets = <<>>
    BY <1>6 DEF ExportInv
  <2>2. controlSets' = added
    BY <1>3, <1>4, <2>1, ConcatEmptySeq
  <2>3. \A c \in ToSet(added) : c.file \in filter.files /\ c.rest = filter.rest
    BY <1>2, <1>4, <1>n DEF ToSet
  <2>4. \A x \in filter.files : \E c \in ToSet(added) : c.file = x
    <3> SUFFICES ASSUME NEW x \in filter.files PROVE \E c \in ToSet(added) : c.file = x
      OBVIOUS
    <3>1. PICK a \in 1..m : q[a] = x
      BY <1>2
    <3>2. added[a] \in ToSet(added) /\ added[a].file = x
      BY <1>4, <1>n, <3>1 DEF ToSet
    <3> QED
      BY <3>2
  <2>5. {c.file : c \in ToSet(added)} = filter.files
    BY <2>3, <2>4
  <2>6. reports' = {[statistics |-> filter, cards |-> filter, controls |-> added, met |-> met]}
    BY <2>1, <2>2 DEF H!Render
  <2> QED
    BY <1>4, <1>m, <2>3, <2>5, <2>6, SameToSet DEF H!ReportWhole
<1>7. reports' = {[statistics |-> statistics, cards |-> filter, controls |-> controlSets', met |-> met]}
      /\ UNCHANGED <<filter, statistics, met>> /\ fetching' = fetching \ {n}
  BY DEF H!Render
<1>8. CASE ~met
  BY <1>5, <1>6, <1>7, <1>8 DEF ExportInv
<1>9. CASE met
  BY <1>5, <1>7, <1>9 DEF ExportInv, H!ReportWhole
<1> QED
  BY <1>8, <1>9

LEMMA ExportStep ==
    ASSUME ExportInv, [H!Next]_(H!vars)
    PROVE  ExportInv'
<1>1. CASE H!ChangeFilter
  <2>1. /\ filter' \in H!Filter /\ changes' \in 0..MaxChanges /\ met' = (met \/ fetching # {})
        /\ UNCHANGED <<statistics, controlSets, fetching, reports, exports>>
    BY <1>1, PartsAssumption DEF H!ChangeFilter, ExportInv, H!TypeOK
  <2> QED
    BY <2>1 DEF ExportInv, H!TypeOK, H!ReportWhole
<1>2. CASE H!ExportHtml
  <2>1. exports + 1 \in 0..MaxExports /\ exports' = exports + 1
    BY <1>2, PartsAssumption DEF H!ExportHtml, ExportInv, H!TypeOK
  <2>2. <<>> \in Seq([file : ReportFile, rest : StatusFilter])
    OBVIOUS
  <2>3. H!TypeOK'
    <3>1. fetching' \subseteq 1..exports' /\ met' \in BOOLEAN
      BY <1>2, <2>1 DEF H!ExportHtml, ExportInv, H!TypeOK
    <3> QED
      BY <1>2, <2>1, <2>2, <3>1 DEF H!ExportHtml, H!ResetOutputData, ExportInv, H!TypeOK
  <2>4. /\ statistics' = filter' /\ controlSets' = <<>> /\ reports' = reports
        /\ fetching' \in {fetching, fetching \cup {exports'}} /\ met' = (fetching # {})
    BY <1>2 DEF H!ExportHtml, H!ResetOutputData
  <2>5. H!ReportWhole'
    BY <2>4 DEF ExportInv, H!ReportWhole
  <2>6. ~met' /\ fetching' # {} => fetching' = {exports'}
    BY <2>4
  <2> QED
    BY <2>3, <2>4, <2>5, <2>6 DEF ExportInv
<1>3. ASSUME NEW n \in fetching, H!Unanswered(n)
      PROVE  ExportInv'
  BY <1>3 DEF H!Unanswered, ExportInv, H!TypeOK, H!ReportWhole
<1>4. CASE UNCHANGED H!vars
  BY <1>4 DEF H!vars, ExportInv, H!TypeOK, H!ReportWhole
<1> QED
  BY <1>1, <1>2, <1>3, <1>4, RenderRight DEF H!Next

LEMMA ExportInit == H!Init => ExportInv
<1>1. <<>> \in Seq([file : ReportFile, rest : StatusFilter])
  OBVIOUS
<1>2. MaxExports \in Nat /\ MaxChanges \in Nat
  BY PartsAssumption
<1>3. H!Init => H!TypeOK
  <2> SUFFICES ASSUME H!Init PROVE H!TypeOK
    OBVIOUS
  <2>1. controlSets \in Seq([file : ReportFile, rest : StatusFilter])
    BY <1>1 DEF H!Init
  <2>2. filter \in H!Filter /\ statistics \in H!Filter
    BY DEF H!Init
  <2>3. fetching \subseteq 1..exports /\ met \in BOOLEAN
    BY DEF H!Init
  <2>4. exports \in 0..MaxExports /\ changes \in 0..MaxChanges
    BY <1>2 DEF H!Init
  <2> QED
    BY <2>1, <2>2, <2>3, <2>4 DEF H!TypeOK
<1> QED
  BY <1>3 DEF H!Init, ExportInv, H!ReportWhole

(* A report that met no other export and no change of the filter is of one *)
(* filter, for any files and however many exports went before              *)
(* (ExportHTMLModal.vue).                                                  *)
THEOREM ReportsWhole == PartsSpec => []ReportWhole
<1>1. PartsInit => ExportInv
  BY PartsInits, ExportInit
<1>2. ExportInv /\ [PartsNext]_partsVars => ExportInv'
  BY ExportPart, ExportStep
<1>3. ExportInv => ReportWhole
  BY DEF ExportInv, ReportWhole
<1> QED
  BY <1>1, <1>2, <1>3, PTL DEF PartsSpec

-----------------------------------------------------------------------------
(* The updates of a group on the server.                                   *)

(* Nobody has written f, or been granted it.                               *)
Untouched(f) ==
    \A x \in Update : ~G!Granted(x, f) /\ (G!At(x, "save") => upd[x].had[f] = row[f])

(* r asked for the value f has; whoever loaded the group after r had ended *)
(* and wants another value still has to write it, or failed to.            *)
Holds(r, f) ==
    /\ upd[r].pc \in {"save", "answered", "failed"} /\ G!AsksFor(r, f, row[f])
    /\ upd[r].wrote \/ G!At(r, "answered")
    /\ \A x \in Update :
          r \in upd[x].before /\ upd[x].dto[f] \notin {Unset, row[f]} =>
             upd[x].pc = "failed" \/ (G!At(x, "save") /\ f \in G!ChangedFields(upd[x]))

(* Only the ended are before anybody; who has not loaded has nobody before *)
(* it and nothing under way.                                               *)
OrderRight ==
    \A x \in Update :
       /\ \A r \in upd[x].before : r \in Update /\ G!Ended(r)
       /\ upd[x].pc \in {"unborn", "refused"} => upd[x].before = {} /\ upd[x].left = {}
       /\ G!At(x, "save") <=> 2 \in upd[x].left

UpdatesInv ==
    /\ G!TypeOK /\ OrderRight
    /\ life => \A f \in G!Fields : Untouched(f) \/ \E r \in Update : Holds(r, f)

(* Types and the order of the requests.                                    *)
LEMMA UpdatesTypeStep ==
    ASSUME G!TypeOK, [G!Next]_(G!vars)
    PROVE  G!TypeOK'
<1>0. row \in G!Rows /\ life \in BOOLEAN /\ upd \in [Update -> G!Request]
  BY DEF G!TypeOK
<1>1. CASE UNCHANGED G!vars
  BY <1>0, <1>1 DEF G!vars, G!TypeOK
<1>2. CASE G!Destroy
  BY <1>0, <1>2 DEF G!Destroy, G!TypeOK
<1>3. ASSUME NEW r \in Update, NEW dto \in G!Dto, G!Load(r, dto)
      PROVE  G!TypeOK'
  <2>1. G!New("save", dto, row, {x \in Update : G!Ended(x)}) \in G!Request
    BY <1>0 DEF G!New, G!Request
  <2> QED
    <3>1. \A q \in G!Request : /\ [q EXCEPT !.pc = "answered"] \in G!Request
                              /\ [q EXCEPT !.left = {1, 2}] \in G!Request
      BY DEF G!Request
    <3> QED
      BY <1>0, <1>3, <2>1, <3>1 DEF G!Load, G!TypeOK
<1>4. ASSUME NEW r \in Update, G!Refuse(r)
      PROVE  G!TypeOK'
  BY <1>0, <1>4 DEF G!Refuse, G!TypeOK, G!Request
<1>5. ASSUME NEW r \in Update, NEW i \in {1, 2}, G!Write(r, i)
      PROVE  G!TypeOK'
  <2>1. upd' \in [Update -> G!Request] /\ life' \in BOOLEAN
    <3>1. upd[r] \in G!Request
      BY <1>0
    <3>2. \A q \in G!Request : [q EXCEPT !.left = q.left \ {i}, !.wrote = q.wrote \/ life,
                                      !.pc = IF i = 2 THEN "answered" ELSE q.pc] \in G!Request
      BY <1>0 DEF G!Request
    <3> QED
      BY <1>0, <1>5, <3>1, <3>2 DEF G!Write
  <2>2. row' \in G!Rows
    <3>1. CASE ~life
      BY <1>0, <1>5, <3>1 DEF G!Write
    <3>2. CASE life
      <4>1. upd[r].dto["name"] \in Name /\ upd[r].dto["public"] \in BOOLEAN \cup {Unset}
        BY <1>0 DEF G!Request, G!Dto, G!Rows
      <4>2. \A f \in G!Fields : f \in G!ChangedFields(upd[r]) =>
               upd[r].dto[f] # Unset /\ G!FieldAfter(upd[r], f) = upd[r].dto[f]
        BY DEF G!ChangedFields, G!FieldAfter
      <4> DEFINE v(f) == IF f \in G!ChangedFields(upd[r]) THEN G!FieldAfter(upd[r], f) ELSE row[f]
      <4>3. v("name") \in Name /\ v("public") \in BOOLEAN
        BY <1>0, <4>1, <4>2 DEF G!Rows, G!Fields
      <4>4. row' = [f \in G!Fields |-> v(f)]
        BY <1>5, <3>2 DEF G!Write
      <4> HIDE DEF v
      <4> QED
        BY <4>3, <4>4 DEF G!Rows, G!Fields
    <3> QED
      BY <1>0, <3>1, <3>2
  <2> QED
    BY <2>1, <2>2 DEF G!TypeOK
<1>6. ASSUME NEW r \in Update, NEW i \in {1, 2}, G!WriteFails(r, i)
      PROVE  G!TypeOK'
  <2>1. upd[r] \in G!Request
    BY <1>0
  <2>2. \A q \in G!Request : [q EXCEPT !.left = q.left \ {i},
                                    !.pc = IF i = 2 THEN "failed" ELSE q.pc] \in G!Request
    BY DEF G!Request
  <2> QED
    BY <1>0, <1>6, <2>1, <2>2 DEF G!WriteFails, G!TypeOK
<1> QED
  BY <1>1, <1>2, <1>3, <1>4, <1>5, <1>6 DEF G!Next

(* What a step leaves of the request that takes it and of the others.      *)
LEMMA LoadedIs ==
    ASSUME G!TypeOK, NEW r \in Update, NEW dto \in G!Dto, G!Load(r, dto)
    PROVE  /\ G!At(r, "unborn") /\ life /\ life' = life /\ row' = row
           /\ \A x \in Update \ {r} : upd'[x] = upd[x]
           /\ upd'[r].dto = dto /\ upd'[r].had = row /\ ~upd'[r].wrote
           /\ upd'[r].before = {x \in Update : G!Ended(x)}
           /\ \/ /\ upd'[r].pc = "answered" /\ upd'[r].left = {}
                 /\ \A f \in G!Fields : dto[f] \in {Unset, row[f]}
              \/ upd'[r].pc = "save" /\ upd'[r].left = {1, 2}
<1> DEFINE q == G!New("save", dto, row, {x \in Update : G!Ended(x)})
<1>1. /\ q.pc = "save" /\ q.dto = dto /\ q.had = row /\ q.left = {} /\ ~q.wrote
      /\ q.before = {x \in Update : G!Ended(x)}
  BY DEF G!New
<1>2. q \in G!Request
  BY DEF G!New, G!Request, G!TypeOK
<1>3. G!ChangedFields(q) = {} => \A f \in G!Fields : dto[f] \in {Unset, row[f]}
  BY <1>1 DEF G!ChangedFields
<1>4. upd' = [upd EXCEPT ![r] = IF G!ChangedFields(q) = {} THEN [q EXCEPT !.pc = "answered"]
                                ELSE [q EXCEPT !.left = {1, 2}]]
  BY DEF G!Load
<1> HIDE DEF q
<1>5. upd'[r] = IF G!ChangedFields(q) = {} THEN [q EXCEPT !.pc = "answered"]
                ELSE [q EXCEPT !.left = {1, 2}]
  BY <1>4 DEF G!TypeOK
<1>6. G!At(r, "unborn") /\ life /\ life' = life /\ row' = row
  BY DEF G!Load
<1>7. \A x \in Update \ {r} : upd'[x] = upd[x]
  BY <1>4 DEF G!TypeOK
<1>8. CASE G!ChangedFields(q) = {}
  BY <1>1, <1>2, <1>3, <1>5, <1>6, <1>7, <1>8 DEF G!Request
<1>9. CASE G!ChangedFields(q) # {}
  BY <1>1, <1>2, <1>5, <1>6, <1>7, <1>9 DEF G!Request
<1> QED
  BY <1>8, <1>9

LEMMA WrittenIs ==
    ASSUME G!TypeOK, NEW r \in Update, NEW i \in {1, 2}, G!Write(r, i)
    PROVE  /\ i \in upd[r].left /\ life' = life
           /\ \A x \in Update \ {r} : upd'[x] = upd[x]
           /\ upd'[r].dto = upd[r].dto /\ upd'[r].had = upd[r].had
           /\ upd'[r].before = upd[r].before /\ upd'[r].left = upd[r].left \ {i}
           /\ upd'[r].wrote = (upd[r].wrote \/ life)
           /\ upd'[r].pc = IF i = 2 THEN "answered" ELSE upd[r].pc
           /\ life => \A f \in G!Fields :
                 row'[f] = IF f \in G!ChangedFields(upd[r]) THEN upd[r].dto[f] ELSE row[f]
<1>1. upd[r] \in G!Request
  BY DEF G!TypeOK
<1>2. upd'[r] = [upd[r] EXCEPT !.left = upd[r].left \ {i}, !.wrote = upd[r].wrote \/ life,
                              !.pc = IF i = 2 THEN "answered" ELSE upd[r].pc]
  BY DEF G!Write, G!TypeOK
<1>3. \A f \in G!ChangedFields(upd[r]) : G!FieldAfter(upd[r], f) = upd[r].dto[f]
  BY DEF G!ChangedFields, G!FieldAfter
<1>4. /\ i \in upd[r].left /\ life' = life
      /\ \A x \in Update \ {r} : upd'[x] = upd[x]
  BY DEF G!Write, G!TypeOK
<1>5. life => \A f \in G!Fields :
                 row'[f] = IF f \in G!ChangedFields(upd[r]) THEN upd[r].dto[f] ELSE row[f]
  BY <1>3 DEF G!Write
<1> QED
  BY <1>1, <1>2, <1>4, <1>5 DEF G!Request

LEMMA FailedIs ==
    ASSUME G!TypeOK, NEW r \in Update, NEW i \in {1, 2}, G!WriteFails(r, i)
    PROVE  /\ i \in upd[r].left /\ life' = life /\ row' = row
           /\ \A x \in Update \ {r} : upd'[x] = upd[x]
           /\ upd'[r].dto = upd[r].dto /\ upd'[r].had = upd[r].had
           /\ upd'[r].before = upd[r].before /\ upd'[r].left = upd[r].left \ {i}
           /\ upd'[r].wrote = upd[r].wrote
           /\ upd'[r].pc = IF i = 2 THEN "failed" ELSE upd[r].pc
<1>1. upd[r] \in G!Request
  BY DEF G!TypeOK
<1>2. upd'[r] = [upd[r] EXCEPT !.left = upd[r].left \ {i},
                              !.pc = IF i = 2 THEN "failed" ELSE upd[r].pc]
  BY DEF G!WriteFails, G!TypeOK
<1> QED
  BY <1>1, <1>2 DEF G!WriteFails, G!TypeOK, G!Request

LEMMA RefusedIs ==
    ASSUME G!TypeOK, NEW r \in Update, G!Refuse(r)
    PROVE  /\ G!At(r, "unborn") /\ life' = life /\ row' = row
           /\ \A x \in Update \ {r} : upd'[x] = upd[x]
           /\ upd'[r].pc = "refused" /\ upd'[r].left = upd[r].left
           /\ upd'[r].before = upd[r].before
<1>1. upd[r] \in G!Request
  BY DEF G!TypeOK
<1> QED
  BY <1>1 DEF G!Refuse, G!TypeOK, G!Request

LEMMA OrderStep ==
    ASSUME G!TypeOK, OrderRight, [G!Next]_(G!vars)
    PROVE  OrderRight'
<1>1. CASE UNCHANGED G!vars \/ G!Destroy
  BY <1>1 DEF G!vars, G!Destroy, OrderRight, G!Ended, G!At
<1>2. ASSUME NEW r \in Update, NEW dto \in G!Dto, G!Load(r, dto)
      PROVE  OrderRight'
  <2>1. \A x \in Update : G!Ended(x) => x # r /\ G!Ended(x)'
    BY <1>2, LoadedIs DEF G!Ended, G!At
  <2> QED
    BY <1>2, <2>1, LoadedIs DEF OrderRight, G!At
<1>3. ASSUME NEW r \in Update, G!Refuse(r)
      PROVE  OrderRight'
  <2>1. \A x \in Update : G!Ended(x) => x # r /\ G!Ended(x)'
    BY <1>3, RefusedIs DEF G!Ended, G!At
  <2> QED
    BY <1>3, <2>1, RefusedIs DEF OrderRight, G!At
<1>4. ASSUME NEW r \in Update, NEW i \in {1, 2}, G!Write(r, i) \/ G!WriteFails(r, i)
      PROVE  OrderRight'
  <2>1. /\ i \in upd[r].left /\ upd'[r].left = upd[r].left \ {i}
        /\ upd'[r].before = upd[r].before
        /\ upd'[r].pc \in IF i = 2 THEN {"answered", "failed"} ELSE {upd[r].pc}
        /\ \A x \in Update \ {r} : upd'[x] = upd[x]
    BY <1>4, WrittenIs, FailedIs
  <2>2. \A x \in Update : G!Ended(x) => x # r /\ G!Ended(x)'
    BY <2>1 DEF G!Ended
  <2> QED
    BY <2>1, <2>2 DEF OrderRight, G!At
<1> QED
  BY <1>1, <1>2, <1>3, <1>4 DEF G!Next

(* A field that somebody holds, or that nobody touched, is so after every  *)
(* step: a request that writes it takes it over, one that loads the group  *)
(* and wants another value has its statements before it.                   *)
LEMMA FieldStep ==
    ASSUME G!TypeOK, OrderRight, [G!Next]_(G!vars), life', NEW f \in G!Fields,
           Untouched(f) \/ \E r \in Update : Holds(r, f)
    PROVE  (Untouched(f) \/ \E r \in Update : Holds(r, f))'
<1>1. CASE UNCHANGED G!vars \/ G!Destroy
  BY <1>1 DEF G!vars, G!Destroy, Untouched, Holds, G!Granted, G!AsksFor, G!ChangedFields, G!At
<1>2. ASSUME NEW r \in Update, NEW dto \in G!Dto, G!Load(r, dto)
      PROVE  (Untouched(f) \/ \E x \in Update : Holds(x, f))'
  <2>0. /\ G!At(r, "unborn") /\ row' = row /\ upd'[r].dto = dto /\ upd'[r].had = row
        /\ upd'[r].before = {x \in Update : G!Ended(x)}
        /\ \A x \in Update \ {r} : upd'[x] = upd[x]
        /\ \/ upd'[r].pc = "answered" /\ dto[f] \in {Unset, row[f]}
           \/ upd'[r].pc = "save"
    BY <1>2, LoadedIs
  <2>1. ASSUME NEW w \in Update, Holds(w, f)
        PROVE  Holds(w, f)'
    <3>1. w # r
      BY <2>0, <2>1 DEF Holds, G!At
    <3>2. upd'[r].dto[f] \notin {Unset, row[f]} =>
             upd'[r].pc = "save" /\ f \in G!ChangedFields(upd'[r])
      BY <2>0 DEF G!ChangedFields
    <3> QED
      BY <2>0, <2>1, <3>1, <3>2 DEF Holds, G!AsksFor, G!At
  <2>2. ASSUME Untouched(f), upd'[r].pc = "answered", dto[f] = row[f], dto[f] # Unset
        PROVE  Holds(r, f)'
    <3>1. \A x \in Update : r \notin upd'[x].before
      BY <2>0 DEF OrderRight, G!Ended, G!At
    <3> QED
      BY <2>0, <2>2, <3>1 DEF Holds, G!AsksFor, G!At
  <2>3. ASSUME Untouched(f), ~(upd'[r].pc = "answered" /\ dto[f] # Unset)
        PROVE  Untouched(f)'
    BY <2>0, <2>3 DEF Untouched, G!Granted, G!At
  <2> QED
    BY <2>0, <2>1, <2>2, <2>3
<1>3. ASSUME NEW r \in Update, G!Refuse(r)
      PROVE  (Untouched(f) \/ \E x \in Update : Holds(x, f))'
  <2>1. ASSUME NEW w \in Update, Holds(w, f)
        PROVE  Holds(w, f)'
    <3>0. /\ G!At(r, "unborn") /\ row' = row /\ upd'[r].before = upd[r].before
          /\ \A x \in Update \ {r} : upd'[x] = upd[x]
      BY <1>3, RefusedIs
    <3>1. w # r /\ upd'[r].before = {}
      BY <2>1, <3>0 DEF Holds, G!At, OrderRight
    <3> QED
      BY <2>1, <3>0, <3>1 DEF Holds, G!AsksFor, G!At
  <2>2. Untouched(f) => Untouched(f)'
    BY <1>3, RefusedIs DEF Untouched, G!Granted, G!At
  <2> QED
    BY <2>1, <2>2
<1>4. ASSUME NEW r \in Update, NEW i \in {1, 2}, G!Write(r, i)
      PROVE  (Untouched(f) \/ \E x \in Update : Holds(x, f))'
  <2>0. /\ i \in upd[r].left /\ upd'[r].dto = upd[r].dto /\ upd'[r].had = upd[r].had
        /\ upd'[r].before = upd[r].before /\ upd'[r].wrote
        /\ upd'[r].pc = (IF i = 2 THEN "answered" ELSE upd[r].pc)
        /\ \A x \in Update \ {r} : upd'[x] = upd[x]
        /\ row'[f] = IF f \in G!ChangedFields(upd[r]) THEN upd[r].dto[f] ELSE row[f]
    BY <1>4, WrittenIs
  <2>1. upd[r].pc \in {"save", "answered", "failed"}
    BY <2>0 DEF OrderRight, G!TypeOK, G!Request
  <2>2. \A x \in Update : r \notin upd'[x].before
    BY <2>0 DEF OrderRight, G!Ended
  <2>3. CASE f \in G!ChangedFields(upd[r])
    <3>1. Holds(r, f)'
      BY <2>0, <2>1, <2>2, <2>3 DEF Holds, G!AsksFor, G!At
    <3> QED
      BY <3>1
  <2>4. ASSUME f \notin G!ChangedFields(upd[r]), NEW w \in Update, Holds(w, f)
        PROVE  Holds(w, f)'
    <3>1. i = 2 => upd[r].pc = "save"
      BY <2>0 DEF OrderRight, G!At
    <3>2. upd'[w].pc \in {"save", "answered", "failed"} /\ upd'[w].dto = upd[w].dto
      BY <2>0, <2>1, <2>4 DEF Holds
    <3>3. upd'[w].wrote \/ upd'[w].pc = "answered"
      BY <2>0, <2>4 DEF Holds, G!At
    <3>4. row'[f] = row[f]
      BY <2>0, <2>4
    <3>5. ASSUME NEW x \in Update, w \in upd'[x].before, upd'[x].dto[f] \notin {Unset, row[f]}
          PROVE  upd'[x].pc = "failed"
                 \/ (upd'[x].pc = "save" /\ f \in G!ChangedFields(upd'[x]))
      <4>1. CASE x = r
        BY <2>0, <2>4, <3>1, <3>5, <4>1 DEF Holds, G!At
      <4>2. CASE x # r
        BY <2>0, <2>4, <3>5, <4>2 DEF Holds, G!At
      <4> QED
        BY <4>1, <4>2
    <3> QED
      BY <2>4, <3>2, <3>3, <3>4, <3>5 DEF Holds, G!AsksFor, G!At
  <2>5. ASSUME f \notin G!ChangedFields(upd[r]), Untouched(f), i = 2, upd[r].dto[f] # Unset
        PROVE  Holds(r, f)'
    <3>1. G!At(r, "save")
      BY <2>0, <2>5 DEF OrderRight
    <3>2. upd[r].dto[f] = row[f]
      BY <2>5, <3>1 DEF Untouched, G!ChangedFields
    <3> QED
      BY <2>0, <2>2, <2>5, <3>2 DEF Holds, G!AsksFor, G!At
  <2>6. ASSUME f \notin G!ChangedFields(upd[r]), Untouched(f), i # 2 \/ upd[r].dto[f] = Unset
        PROVE  Untouched(f)'
    BY <2>0, <2>6 DEF Untouched, G!Granted, G!At
  <2> QED
    BY <2>3, <2>4, <2>5, <2>6
<1>5. ASSUME NEW r \in Update, NEW i \in {1, 2}, G!WriteFails(r, i)
      PROVE  (Untouched(f) \/ \E x \in Update : Holds(x, f))'
  <2>0. /\ i \in upd[r].left /\ upd'[r].dto = upd[r].dto /\ upd'[r].had = upd[r].had
        /\ upd'[r].before = upd[r].before /\ upd'[r].wrote = upd[r].wrote
        /\ upd'[r].pc = (IF i = 2 THEN "failed" ELSE upd[r].pc)
        /\ \A x \in Update \ {r} : upd'[x] = upd[x]
        /\ row' = row
    BY <1>5, FailedIs
  <2>1. i = 2 => G!At(r, "save")
    BY <2>0 DEF OrderRight
  <2>2. ASSUME NEW w \in Update, Holds(w, f)
        PROVE  Holds(w, f)'
    <3>1. upd'[w].pc \in {"save", "answered", "failed"} /\ upd'[w].dto = upd[w].dto
      BY <2>0, <2>2 DEF Holds
    <3>2. upd'[w].wrote \/ upd'[w].pc = "answered"
      BY <2>0, <2>1, <2>2 DEF Holds, G!At
    <3>3. ASSUME NEW x \in Update, w \in upd'[x].before, upd'[x].dto[f] \notin {Unset, row[f]}
          PROVE  upd'[x].pc = "failed"
                 \/ (upd'[x].pc = "save" /\ f \in G!ChangedFields(upd'[x]))
      <4>1. G!ChangedFields(upd'[x]) = G!ChangedFields(upd[x])
        BY <2>0 DEF G!ChangedFields
      <4> QED
        BY <2>0, <2>1, <2>2, <3>3, <4>1 DEF Holds, G!At
    <3> QED
      BY <2>0, <2>2, <3>1, <3>2, <3>3 DEF Holds, G!AsksFor, G!At
  <2>3. Untouched(f) => Untouched(f)'
    BY <2>0 DEF Untouched, G!Granted, G!At
  <2> QED
    BY <2>2, <2>3
<1> QED
  BY <1>1, <1>2, <1>3, <1>4, <1>5 DEF G!Next

LEMMA UpdatesInit == G!Init => UpdatesInv
<1> SUFFICES ASSUME G!Init PROVE UpdatesInv
  OBVIOUS
<1>0. row \in G!Rows /\ life = TRUE
      /\ upd = [r \in Update |-> G!New("unborn", row, row, {})]
  BY DEF G!Init
<1>1. G!TypeOK
  BY <1>0 DEF G!New, G!TypeOK, G!Request
<1>2. \A r \in Update : upd[r].pc = "unborn" /\ upd[r].left = {} /\ upd[r].before = {}
  BY <1>0 DEF G!New
<1> QED
  BY <1>1, <1>2 DEF UpdatesInv, OrderRight, Untouched, G!Granted, G!At

LEMMA UpdatesStep == UpdatesInv /\ [G!Next]_(G!vars) => UpdatesInv'
<1>1. [G!Next]_(G!vars) /\ life' => life
  BY DEF G!Next, G!vars, G!Load, G!Refuse, G!Write, G!WriteFails, G!Destroy
<1> QED
  BY <1>1, UpdatesTypeStep, OrderStep, FieldStep DEF UpdatesInv

LEMMA UpdatesImply == UpdatesInv => G!LastUpdateStays
<1> SUFFICES ASSUME UpdatesInv, life, \A r \in Update : G!At(r, "unborn") \/ G!Ended(r),
                    NEW f \in G!Fields, NEW w \in Update, Holds(w, f)
             PROVE  G!Stands(f, row[f])
  BY DEF UpdatesInv, G!LastUpdateStays, Untouched
<1>1. \A x \in Update : ~G!At(x, "save")
  BY DEF G!Ended, G!At
<1>2. \A x \in Update : w \in upd[x].before => ~G!Granted(x, f) \/ G!AsksFor(x, f, row[f])
  BY <1>1 DEF Holds, G!Granted, G!AsksFor, G!At
<1>3. upd[w].pc \in {"answered", "failed"}
  BY <1>1 DEF Holds, G!At
<1> QED
  BY <1>2, <1>3 DEF Holds, G!Stands

(* When nothing is under way, the name and the visibility of a group are   *)
(* those of an update no later one replaced, for any number of updates     *)
(* whose two statements come in any order, late, or fail                   *)
(* (groups.service.ts).                                                    *)
THEOREM UpdatesStay == PartsSpec => []LastUpdateStays
<1>1. PartsInit => UpdatesInv
  BY PartsInits, UpdatesInit
<1>2. UpdatesInv /\ [PartsNext]_partsVars => UpdatesInv'
  BY UpdatePart, UpdatesStep
<1>3. UpdatesInv => LastUpdateStays
  BY UpdatesImply DEF LastUpdateStays
<1> QED
  BY <1>1, <1>2, <1>3, PTL DEF PartsSpec

-----------------------------------------------------------------------------
(* The hierarchy of NIST controls.                                         *)

(* The loop over the list does what its body says, once for each control.  *)
LEMMA HungIs ==
    ASSUME NEW fam, NEW s, Len(s) \in Nat
    PROVE  /\ N!Hierarchies(fam, s)[0] = N!Start(fam)
           /\ \A n \in 1..Len(s) :
                 N!Hierarchies(fam, s)[n] = N!Hang(N!Hierarchies(fam, s)[n - 1], s[n])
<1> DEFINE Round(f, n) == IF n = 0 THEN N!Start(fam) ELSE N!Hang(f[n - 1], s[n])
           Is(f, m) == f = [n \in 0..m |-> Round(f, n)]
           Reach == {m \in Nat : \E f : Is(f, m)}
<1>1. 0 \in Reach
  <2> DEFINE f == [n \in 0..0 |-> N!Start(fam)]
  <2>1. f = [n \in 0..0 |-> Round(f, n)]
    OBVIOUS
  <2> QED
    BY <2>1
<1>2. ASSUME NEW m \in Nat, m \in Reach PROVE m + 1 \in Reach
  <2>1. PICK f : Is(f, m)
    BY <1>2
  <2> HIDE DEF Round
  <2> DEFINE g == [n \in 0..(m + 1) |-> IF n <= m THEN f[n] ELSE Round(f, n)]
  <2>2. ASSUME NEW n \in 0..(m + 1) PROVE g[n] = Round(g, n)
    <3>1. Round(g, n) = Round(f, n)
      <4>1. CASE n = 0
        BY <4>1 DEF Round
      <4>2. CASE n # 0
        <5>1. g[n - 1] = f[n - 1]
          BY <4>2
        <5> QED
          BY <5>1, <4>2 DEF Round
      <4> QED
        BY <4>1, <4>2
    <3>2. n <= m => f[n] = Round(f, n)
      BY <2>1
    <3> QED
      BY <3>1, <3>2
  <2>3. g = [n \in 0..(m + 1) |-> Round(g, n)]
    BY <2>2
  <2>4. \E x : Is(x, m + 1)
    <3> HIDE DEF g
    <3> QED
      BY <2>3
  <2> QED
    BY <2>4
<1>3. PICK f : Is(f, Len(s))
  <2>1. Nat \subseteq Reach
    <3> HIDE DEF Reach
    <3> QED
      BY <1>1, <1>2, Induction
  <2> QED
    BY <2>1
<1>4. Is(N!Hierarchies(fam, s), Len(s))
  BY <1>3 DEF N!Hierarchies
<1> QED
  BY <1>4

Specifiers == Seq(STRING)

(* Nodes and keys are one to one, the families are the first nodes, and    *)
(* under a node hang the nodes of the controls it is the parent of, among  *)
(* the first k of the list s, in their order.                              *)
NodesTyped(control, children, map) ==
    /\ control \in Seq(Specifiers) /\ children \in Seq(Seq(Nat)) /\ Len(children) = Len(control)
    /\ map \in [DOMAIN map -> 1..Len(control)]
    /\ \A k \in DOMAIN map : control[map[k]] = k
    /\ \A n \in 1..Len(control) : control[n] \in DOMAIN map /\ map[control[n]] = n

Family(f) == <<f>>

FamiliesFirst(control, fam) ==
    \A i \in DOMAIN fam : i \in 1..Len(control) /\ control[i] = Family(fam[i])

At(s, c, k) == {j \in 1..k : N!Parent(s[j]) = c}

ChildrenOf(control, children, map, s, k) ==
    \A n \in 1..Len(control) :
       /\ Len(children[n]) = Cardinality(At(s, control[n], k))
       /\ \A i \in 1..Cardinality(At(s, control[n], k)) :
             children[n][i] = map[s[Nth(At(s, control[n], k), i)]]

AllHung(map, s, k) ==
    \A j \in 1..k : s[j] \in DOMAIN map /\ N!Parent(s[j]) \in DOMAIN map

ForestOf(control, children, map, fam, s, k) ==
    /\ NodesTyped(control, children, map) /\ FamiliesFirst(control, fam)
    /\ ChildrenOf(control, children, map, s, k) /\ AllHung(map, s, k)

Forest(h, fam, s, k) ==
    \E control, children, map :
       /\ h = [control |-> control, children |-> children, map |-> map]
       /\ ForestOf(control, children, map, fam, s, k)

(* The positions of the children, and where they are among these.          *)
LEMMA AtIs ==
    ASSUME NEW s, NEW c, NEW k \in Nat
    PROVE  /\ At(s, c, k) \in SUBSET (1..k) /\ Cardinality(At(s, c, k)) \in Nat
           /\ \A i \in 1..Cardinality(At(s, c, k)) :
                 Nth(At(s, c, k), i) \in 1..k /\ N!Parent(s[Nth(At(s, c, k), i)]) = c
<1>1. At(s, c, k) \in SUBSET (1..k)
  BY DEF At
<1>2. /\ Cardinality(At(s, c, k)) \in 0..k
      /\ \A i \in 1..Cardinality(At(s, c, k)) : Nth(At(s, c, k), i) \in At(s, c, k)
  BY <1>1, NthIs
<1>3. \A j \in At(s, c, k) : j \in 1..k /\ N!Parent(s[j]) = c
  BY DEF At
<1> QED
  BY <1>1, <1>2, <1>3

Grows(s, c, k) ==
    /\ Cardinality(At(s, c, k)) \in Nat
    /\ Cardinality(At(s, c, k + 1)) = Cardinality(At(s, c, k)) + 1
    /\ \A i \in 1..Cardinality(At(s, c, k)) : Nth(At(s, c, k + 1), i) = Nth(At(s, c, k), i)
    /\ Nth(At(s, c, k + 1), Cardinality(At(s, c, k)) + 1) = k + 1

LEMMA AtGrows ==
    ASSUME NEW s, NEW k \in Nat, NEW c, c = N!Parent(s[k + 1]) PROVE Grows(s, c, k)
<1>1. At(s, c, k) \in SUBSET (1..k)
  BY DEF At
<1>2. At(s, c, k + 1) = At(s, c, k) \cup {k + 1}
  <2>1. 1..(k + 1) = 1..k \cup {k + 1}
    OBVIOUS
  <2> QED
    BY <2>1 DEF At
<1> QED
  BY <1>1, <1>2, NthGrows DEF Grows

LEMMA StartForest ==
    ASSUME NEW fam \in Seq(STRING), \A i, j \in DOMAIN fam : fam[i] = fam[j] => i = j, NEW s
    PROVE  Forest(N!Start(fam), fam, s, 0)
<1> DEFINE control == [i \in DOMAIN fam |-> <<fam[i]>>]
           children == [i \in DOMAIN fam |-> <<>>]
           map == [k \in {<<fam[i]>> : i \in DOMAIN fam} |->
                      CHOOSE i \in DOMAIN fam : fam[i] = k[1]]
<1>1. N!Start(fam) = [control |-> control, children |-> children, map |-> map]
  BY DEF N!Start
<1>2. Len(fam) \in Nat /\ DOMAIN fam = 1..Len(fam)
  OBVIOUS
<1>3. control \in Seq(Specifiers) /\ Len(control) = Len(fam)
  <2>1. \A i \in 1..Len(fam) : <<fam[i]>> \in Specifiers
    BY DEF Specifiers
  <2> QED
    BY <1>2, <2>1
<1>4. children \in Seq(Seq(Nat)) /\ Len(children) = Len(fam)
  BY <1>2
<1>5. \A i \in 1..Len(fam) : Family(fam[i]) \in DOMAIN map /\ map[Family(fam[i])] = i
  BY <1>2 DEF Family
<1>6. \A k \in DOMAIN map : map[k] \in 1..Len(fam) /\ control[map[k]] = k
  BY <1>2, <1>5 DEF Family
<1>7. map \in [DOMAIN map -> 1..Len(control)]
  BY <1>3, <1>6
<1>8. \A n \in 1..Len(fam) : control[n] = Family(fam[n]) /\ Len(children[n]) = 0
  BY <1>2 DEF Family
<1> HIDE DEF control, children, map
<1>9. NodesTyped(control, children, map)
  <2>1. \A n \in 1..Len(control) : control[n] \in DOMAIN map /\ map[control[n]] = n
    BY <1>3, <1>5, <1>8
  <2> QED
    BY <1>3, <1>4, <1>6, <1>7, <2>1 DEF NodesTyped
<1>10. FamiliesFirst(control, fam)
  BY <1>2, <1>3, <1>8 DEF FamiliesFirst
<1>11. ChildrenOf(control, children, map, s, 0)
  <2>1. \A c : At(s, c, 0) = {}
    BY DEF At
  <2>2. Cardinality({}) = 0 /\ 1..0 = {}
    BY FS_EmptySet
  <2>3. ASSUME NEW n \in 1..Len(control)
        PROVE  Len(children[n]) = 0 /\ At(s, control[n], 0) = {}
    BY <1>3, <1>8, <2>1
  <2> QED
    BY <2>2, <2>3 DEF ChildrenOf
<1>12. AllHung(map, s, 0)
  BY DEF AllHung
<1> QED
  BY <1>1, <1>9, <1>10, <1>11, <1>12 DEF Forest, ForestOf

(* A node without children is added, under a key of its own.               *)
Grown(control, children, map, c, control2, children2, map2) ==
    /\ Len(control2) = Len(control) + 1 /\ control2 \in Seq(Specifiers)
    /\ children2 \in Seq(Seq(Nat)) /\ Len(children2) = Len(control) + 1
    /\ control2[Len(control) + 1] = c /\ Len(children2[Len(control) + 1]) = 0
    /\ \A n \in 1..Len(control) : control2[n] = control[n] /\ children2[n] = children[n]
    /\ map2 = [k \in DOMAIN map2 |-> map2[k]] /\ DOMAIN map2 = DOMAIN map \cup {c}
    /\ map2[c] = Len(control) + 1
    /\ \A k \in DOMAIN map : map2[k] = map[k]

LEMMA MadeIsGrown ==
    ASSUME NEW control \in Seq(Specifiers), NEW children \in Seq(Seq(Nat)), NEW map, NEW c \in Specifiers,
           Len(children) = Len(control), c \notin DOMAIN map
    PROVE  Grown(control, children, map, c, Append(control, c), Append(children, <<>>),
                 [k \in DOMAIN map \cup {c} |-> IF k = c THEN Len(control) + 1 ELSE map[k]])
<1> DEFINE control2 == Append(control, c)
           children2 == Append(children, <<>>)
           map2 == [k \in DOMAIN map \cup {c} |-> IF k = c THEN Len(control) + 1 ELSE map[k]]
<1>1. /\ Len(control2) = Len(control) + 1 /\ control2 \in Seq(Specifiers)
      /\ control2[Len(control) + 1] = c
      /\ \A n \in 1..Len(control) : control2[n] = control[n]
  OBVIOUS
<1>2. <<>> \in Seq(Nat) /\ Len(<<>>) = 0
  OBVIOUS
<1>3. /\ children2 \in Seq(Seq(Nat)) /\ Len(children2) = Len(control) + 1
      /\ Len(children2[Len(control) + 1]) = 0
      /\ \A n \in 1..Len(control) : children2[n] = children[n]
  BY <1>2
<1>4. /\ map2 = [k \in DOMAIN map2 |-> map2[k]] /\ DOMAIN map2 = DOMAIN map \cup {c}
      /\ map2[c] = Len(control) + 1
      /\ \A k \in DOMAIN map : map2[k] = map[k]
  OBVIOUS
<1> HIDE DEF control2, children2, map2
<1>5. Grown(control, children, map, c, control2, children2, map2)
  BY <1>1, <1>3, <1>4 DEF Grown
<1> QED
  BY <1>5 DEF control2, children2, map2

LEMMA GrownForest ==
    ASSUME NEW control, NEW children, NEW map, NEW fam, NEW s, NEW k \in Nat,
           ForestOf(control, children, map, fam, s, k), NEW c \in Specifiers, c \notin DOMAIN map,
           NEW control2, NEW children2, NEW map2,
           Grown(control, children, map, c, control2, children2, map2)
    PROVE  ForestOf(control2, children2, map2, fam, s, k)
<1> DEFINE l == Len(control) + 1
<1>h. NodesTyped(control, children, map)
  BY DEF ForestOf
<1>2. /\ l \in Nat \ {0} /\ Len(control) = l - 1 /\ Len(control2) = l
      /\ control2 \in Seq(Specifiers) /\ children2 \in Seq(Seq(Nat)) /\ Len(children2) = l
      /\ control2[l] = c /\ Len(children2[l]) = 0
      /\ \A n \in 1..(l - 1) : control2[n] = control[n] /\ children2[n] = children[n]
  BY <1>h DEF NodesTyped, Grown
<1>3. /\ map2[c] = l /\ DOMAIN map2 = DOMAIN map \cup {c}
      /\ map2 = [d \in DOMAIN map2 |-> map2[d]]
      /\ \A d \in DOMAIN map : map2[d] = map[d] /\ map[d] \in 1..(l - 1)
  BY <1>h, <1>2 DEF NodesTyped, Grown
<1> HIDE DEF l
<1>4. 1..l = 1..(l - 1) \cup {l}
  BY <1>2
<1>5. NodesTyped(control2, children2, map2)
  <2>1. \A d \in DOMAIN map2 : map2[d] \in 1..l /\ control2[map2[d]] = d
    BY <1>h, <1>2, <1>3, <1>4 DEF NodesTyped
  <2>2. ASSUME NEW n \in 1..l PROVE control2[n] \in DOMAIN map2 /\ map2[control2[n]] = n
    <3>1. CASE n = l
      BY <3>1, <1>2, <1>3
    <3>2. CASE n \in 1..(l - 1)
      <4>1. control[n] \in DOMAIN map /\ map[control[n]] = n /\ control2[n] = control[n]
        BY <3>2, <1>h, <1>2 DEF NodesTyped
      <4> QED
        BY <4>1, <1>3
    <3> QED
      BY <3>1, <3>2, <1>4
  <2>3. map2 \in [DOMAIN map2 -> 1..l]
    BY <1>3, <2>1
  <2> QED
    BY <1>2, <2>1, <2>2, <2>3 DEF NodesTyped
<1>6. FamiliesFirst(control2, fam)
  BY <1>2, <1>4 DEF ForestOf, FamiliesFirst
<1>7. AllHung(map2, s, k)
  BY <1>3 DEF ForestOf, AllHung
<1>8. ChildrenOf(control2, children2, map2, s, k)
  <2> SUFFICES ASSUME NEW n \in 1..l
               PROVE  /\ Len(children2[n]) = Cardinality(At(s, control2[n], k))
                      /\ \A i \in 1..Cardinality(At(s, control2[n], k)) :
                            children2[n][i] = map2[s[Nth(At(s, control2[n], k), i)]]
    BY <1>2 DEF ChildrenOf
  <2>1. CASE n = l
    <3>1. At(s, c, k) = {}
      BY DEF ForestOf, AllHung, At
    <3>2. Cardinality(At(s, c, k)) = 0
      BY <3>1, FS_EmptySet
    <3> QED
      BY <2>1, <3>2, <1>2
  <2>2. CASE n \in 1..(l - 1)
    <3>1. /\ n \in 1..Len(control) /\ control2[n] = control[n] /\ children2[n] = children[n]
      BY <2>2, <1>2
    <3> DEFINE places == At(s, control[n], k)
    <3>2. /\ Len(children[n]) = Cardinality(places)
          /\ \A i \in 1..Cardinality(places) : children[n][i] = map[s[Nth(places, i)]]
      BY <3>1 DEF ForestOf, ChildrenOf
    <3>3. \A i \in 1..Cardinality(places) : s[Nth(places, i)] \in DOMAIN map
      <4>1. \A i \in 1..Cardinality(places) : Nth(places, i) \in 1..k
        BY AtIs
      <4> HIDE DEF places
      <4> QED
        BY <4>1 DEF ForestOf, AllHung
    <3> HIDE DEF places
    <3>4. \A i \in 1..Cardinality(places) : children[n][i] = map2[s[Nth(places, i)]]
      BY <3>2, <3>3, <1>3
    <3> QED
      BY <3>1, <3>2, <3>4 DEF places
  <2> QED
    BY <2>1, <2>2, <1>4
<1> QED
  BY <1>5, <1>6, <1>7, <1>8 DEF ForestOf

LEMMA AppendForest ==
    ASSUME NEW control, NEW children, NEW map, NEW fam, NEW s, NEW k \in Nat,
           ForestOf(control, children, map, fam, s, k), NEW c \in Specifiers, c = s[k + 1],
           c \in DOMAIN map, N!Parent(c) \in DOMAIN map,
           NEW children2,
           children2 = [children EXCEPT ![map[N!Parent(c)]] = Append(@, map[c])]
    PROVE  ForestOf(control, children2, map, fam, s, k + 1)
<1> DEFINE m == map[N!Parent(c)]
           x == map[c]
           e == Len(children[m]) + 1
<1>h. NodesTyped(control, children, map)
  BY DEF ForestOf
<1>2. /\ m \in 1..Len(control) /\ x \in 1..Len(control)
      /\ control[m] = N!Parent(c) /\ control[x] = c
  BY <1>h DEF NodesTyped
<1>d. children2 = [children EXCEPT ![m] = Append(@, x)]
  OBVIOUS
<1> HIDE DEF m, x
<1>3. /\ Len(children2) = Len(control) /\ children2 \in Seq(Seq(Nat))
      /\ children2[m] = Append(children[m], x) /\ children[m] \in Seq(Nat) /\ x \in Nat
      /\ \A n \in 1..Len(control) : n # m => children2[n] = children[n]
  <2>1. children[m] \in Seq(Nat) /\ x \in Nat /\ Append(children[m], x) \in Seq(Nat)
    BY <1>h, <1>2 DEF NodesTyped
  <2>2. DOMAIN children = 1..Len(control) /\ children \in Seq(Seq(Nat))
    BY <1>h DEF NodesTyped
  <2>3. children2 \in Seq(Seq(Nat)) /\ Len(children2) = Len(children)
    <3>1. children \in Seq(Seq(Nat)) /\ m \in 1..Len(children) /\ Append(children[m], x) \in Seq(Nat)
      BY <1>h, <1>2, <2>1 DEF NodesTyped
    <3>2. LET seq == [children EXCEPT ![m] = Append(children[m], x)] IN
             seq \in Seq(Seq(Nat)) /\ Len(seq) = Len(children)
      BY <3>1, ExceptSeq
    <3> QED
      BY <1>d, <3>2
  <2> QED
    BY <1>d, <1>2, <2>1, <2>2, <2>3, <1>h DEF NodesTyped
<1>4. /\ e \in Nat /\ Len(children[m]) = e - 1 /\ Len(children2[m]) = e /\ children2[m][e] = x
      /\ \A i \in 1..(e - 1) : children2[m][i] = children[m][i]
      /\ 1..e = 1..(e - 1) \cup {e}
  BY <1>3
<1> HIDE DEF e
<1>5. NodesTyped(control, children2, map)
  BY <1>h, <1>3 DEF NodesTyped
<1>6. ChildrenOf(control, children2, map, s, k + 1)
  <2> SUFFICES ASSUME NEW n \in 1..Len(control)
               PROVE  /\ Len(children2[n]) = Cardinality(At(s, control[n], k + 1))
                      /\ \A i \in 1..Cardinality(At(s, control[n], k + 1)) :
                            children2[n][i] = map[s[Nth(At(s, control[n], k + 1), i)]]
    BY DEF ChildrenOf
  <2> DEFINE places == At(s, control[n], k)
             more == At(s, control[n], k + 1)
  <2>1. /\ Len(children[n]) = Cardinality(places)
        /\ \A i \in 1..Cardinality(places) : children[n][i] = map[s[Nth(places, i)]]
    BY DEF ForestOf, ChildrenOf
  <2>2. 1..(k + 1) = 1..k \cup {k + 1} /\ places \in SUBSET (1..k)
    BY AtIs
  <2>3. CASE n # m
    <3>1. N!Parent(s[k + 1]) # control[n]
      BY <2>3, <1>2, <1>h DEF NodesTyped
    <3>2. more = places
      BY <2>2, <3>1 DEF At
    <3> HIDE DEF places, more
    <3> QED
      BY <2>1, <2>3, <3>2, <1>3 DEF more
  <2>4. CASE n = m
    <3>1. Grows(s, control[n], k)
      BY <2>4, <1>2, AtGrows
    <3>2. /\ Cardinality(places) \in Nat /\ Cardinality(more) = Cardinality(places) + 1
          /\ \A i \in 1..Cardinality(places) : Nth(more, i) = Nth(places, i)
          /\ Nth(more, Cardinality(places) + 1) = k + 1
      BY <3>1 DEF Grows
    <3> HIDE DEF places, more
    <3>3. e - 1 = Cardinality(places) /\ e = Cardinality(more)
      BY <1>4, <2>1, <2>4, <3>2
    <3>4. ASSUME NEW i \in 1..e PROVE children2[m][i] = map[s[Nth(more, i)]]
      <4>1. CASE i = e
        BY <4>1, <1>4, <3>2, <3>3 DEF x
      <4>2. CASE i \in 1..(e - 1)
        BY <4>2, <1>4, <2>1, <2>4, <3>2, <3>3
      <4> QED
        BY <4>1, <4>2, <1>4
    <3> QED
      BY <2>4, <1>4, <3>3, <3>4 DEF more
  <2> QED
    BY <2>3, <2>4
<1>7. AllHung(map, s, k + 1)
  <2>1. \A j \in 1..(k + 1) : j \in 1..k \/ j = k + 1
    OBVIOUS
  <2> QED
    BY <2>1 DEF ForestOf, AllHung
<1> QED
  BY <1>5, <1>6, <1>7 DEF ForestOf

(* A node is made where there is none.                                     *)
LEMMA NodeForest ==
    ASSUME NEW h, NEW fam, NEW s, NEW k \in Nat, Forest(h, fam, s, k), NEW c \in Specifiers
    PROVE  Forest(N!NodeFor(h, c), fam, s, k) /\ c \in DOMAIN N!NodeFor(h, c).map
<1>1. PICK control, children, map :
         /\ h = [control |-> control, children |-> children, map |-> map]
         /\ ForestOf(control, children, map, fam, s, k)
  BY DEF Forest
<1>2. CASE c \in DOMAIN map
  BY <1>1, <1>2 DEF N!NodeFor
<1>3. CASE c \notin DOMAIN map
  <2> DEFINE control2 == Append(control, c)
             children2 == Append(children, <<>>)
             map2 == [d \in DOMAIN map \cup {c} |-> IF d = c THEN Len(control) + 1 ELSE map[d]]
  <2>1. N!NodeFor(h, c) = [control |-> control2, children |-> children2, map |-> map2]
    BY <1>1, <1>3 DEF N!NodeFor, N!Made
  <2>2. Grown(control, children, map, c, control2, children2, map2)
    <3>1. control \in Seq(Specifiers) /\ children \in Seq(Seq(Nat)) /\ Len(children) = Len(control)
      BY <1>1 DEF ForestOf, NodesTyped
    <3> QED
      BY <1>3, <3>1, MadeIsGrown, Zenon
  <2> HIDE DEF control2, children2, map2
  <2>3. ForestOf(control2, children2, map2, fam, s, k)
    BY <1>1, <1>3, <2>2, GrownForest
  <2>4. Forest(N!NodeFor(h, c), fam, s, k)
    BY <2>1, <2>3 DEF Forest
  <2>5. DOMAIN map2 = DOMAIN map \cup {c} /\ N!NodeFor(h, c).map = map2
    BY <2>1, <2>2 DEF Grown
  <2> QED
    BY <2>4, <2>5
<1> QED
  BY <1>2, <1>3

(* A control of the list is hung, whether its node and that of its parent  *)
(* were there or had to be made.                                           *)
LEMMA HangForest ==
    ASSUME NEW h, NEW fam, NEW s, NEW k \in Nat, Forest(h, fam, s, k),
           NEW c \in Specifiers, Len(c) >= 2, c = s[k + 1]
    PROVE  Forest(N!Hang(h, c), fam, s, k + 1)
<1> DEFINE g == N!NodeFor(h, c)
           p == N!Parent(c)
<1>1. p \in Specifiers /\ p # c
  <2>1. p = SubSeq(c, 1, Len(c) - 1)
    BY DEF N!Parent, N!Front
  <2> QED
    BY <2>1 DEF Specifiers
<1>2. Forest(g, fam, s, k) /\ c \in DOMAIN g.map
  BY NodeForest
<1>3. N!Hang(h, c) = IF p \in DOMAIN g.map
                     THEN [g EXCEPT !.children[g.map[p]] = Append(@, g.map[c])]
                     ELSE N!Made(g, p, <<g.map[c]>>)
  BY DEF N!Hang
<1> HIDE DEF g, p
<1>4. PICK control, children, map :
         /\ g = [control |-> control, children |-> children, map |-> map]
         /\ ForestOf(control, children, map, fam, s, k)
  BY <1>2 DEF Forest
<1>5. g.control = control /\ g.children = children /\ g.map = map /\ c \in DOMAIN map
  BY <1>2, <1>4
<1>6. CASE p \in DOMAIN map
  <2> DEFINE children2 == [children EXCEPT ![map[p]] = Append(@, map[c])]
  <2>1. N!Hang(h, c) = [control |-> control, children |-> children2, map |-> map]
    BY <1>3, <1>4, <1>6
  <2>2. ForestOf(control, children2, map, fam, s, k + 1)
    BY <1>4, <1>5, <1>6, AppendForest DEF p
  <2> QED
    BY <2>1, <2>2 DEF Forest
<1>7. CASE p \notin DOMAIN map
  <2> DEFINE control2 == Append(control, p)
             middle == Append(children, <<>>)
             map2 == [d \in DOMAIN map \cup {p} |-> IF d = p THEN Len(control) + 1 ELSE map[d]]
             children2 == Append(children, <<map[c]>>)
  <2>1. N!Hang(h, c) = [control |-> control2, children |-> children2, map |-> map2]
    BY <1>3, <1>4, <1>7 DEF N!Made
  <2>t. children \in Seq(Seq(Nat)) /\ Len(children) = Len(control) /\ map[c] \in Nat
    BY <1>4, <1>5 DEF ForestOf, NodesTyped
  <2>g. Grown(control, children, map, p, control2, middle, map2)
    <3>1. control \in Seq(Specifiers) /\ children \in Seq(Seq(Nat)) /\ Len(children) = Len(control)
      BY <1>4 DEF ForestOf, NodesTyped
    <3> QED
      BY <1>1, <1>7, <3>1, MadeIsGrown, Zenon
  <2>2. DOMAIN map2 = DOMAIN map \cup {p} /\ map2[p] = Len(control) + 1 /\ map2[c] = map[c]
    BY <1>1, <1>5, <1>7
  <2>3. ForestOf(control2, middle, map2, fam, s, k)
    <3> HIDE DEF control2, middle, map2
    <3> QED
      BY <1>1, <1>4, <1>7, <2>g, GrownForest
  <2>4. children2 = [middle EXCEPT ![map2[p]] = Append(@, map2[c])]
    <3> DEFINE l == Len(children) + 1
    <3>1. l \in Nat /\ middle \in Seq(Seq(Nat)) /\ DOMAIN middle = 1..l /\ DOMAIN children2 = 1..l
      BY <2>t
    <3>2. middle[l] = <<>> /\ children2[l] = <<map[c]>>
      BY <2>t
    <3>3. Append(<<>>, map[c]) = <<map[c]>>
      OBVIOUS
    <3>4. \A n \in 1..l : n # l => middle[n] = children2[n]
      BY <2>t
    <3>5. children2 = [n \in 1..l |-> children2[n]]
      BY <2>t, <3>1
    <3>6. [middle EXCEPT ![l] = Append(@, map[c])]
             = [n \in 1..l |-> IF n = l THEN Append(middle[l], map[c]) ELSE middle[n]]
      BY <3>1
    <3> HIDE DEF middle, children2, map2
    <3>7. \A n \in 1..l : children2[n] =
             IF n = l THEN Append(middle[l], map[c]) ELSE middle[n]
      BY <3>2, <3>3, <3>4
    <3> QED
      BY <2>2, <2>t, <3>5, <3>6, <3>7
  <2> HIDE DEF control2, middle, map2, children2
  <2>5. ForestOf(control2, children2, map2, fam, s, k + 1)
    <3>1. c \in DOMAIN map2 /\ p \in DOMAIN map2
      BY <1>5, <2>2
    <3> QED
      BY <2>3, <2>4, <3>1, AppendForest DEF p
  <2> QED
    BY <2>1, <2>5 DEF Forest
<1> QED
  BY <1>5, <1>6, <1>7

(* Lists of controls, which may repeat one.                                *)
IsList(s) == s \in Seq(Specifiers) /\ \A i \in 1..Len(s) : Len(s[i]) >= 2

IsFamilies(fam) ==
    /\ fam \in Seq(STRING)
    /\ \A i, j \in DOMAIN fam : fam[i] = fam[j] => i = j

LEMMA HierarchyForest ==
    ASSUME NEW fam, IsFamilies(fam), NEW s, IsList(s)
    PROVE  Forest(N!Hierarchy(fam, s), fam, s, Len(s))
<1> DEFINE h == N!Hierarchies(fam, s)
           Good == {n \in Nat : n <= Len(s) => Forest(h[n], fam, s, n)}
<1>1. /\ Len(s) \in Nat /\ h[0] = N!Start(fam)
      /\ \A n \in 1..Len(s) : h[n] = N!Hang(h[n - 1], s[n])
  BY HungIs DEF IsList
<1>2. 0 \in Good
  <2>1. Forest(N!Start(fam), fam, s, 0)
    BY StartForest DEF IsFamilies
  <2> HIDE DEF h
  <2> QED
    BY <2>1, <1>1
<1>3. ASSUME NEW n \in Nat, n \in Good PROVE n + 1 \in Good
  <2> SUFFICES ASSUME n + 1 <= Len(s) PROVE Forest(h[n + 1], fam, s, n + 1)
    OBVIOUS
  <2>1. Forest(h[n], fam, s, n) /\ n + 1 \in 1..Len(s) /\ (n + 1) - 1 = n
    BY <1>1, <1>3
  <2>2. s[n + 1] \in Specifiers /\ Len(s[n + 1]) >= 2
    BY <1>1, <2>1 DEF IsList
  <2>3. h[n + 1] = N!Hang(h[n], s[n + 1])
    BY <1>1, <2>1
  <2> HIDE DEF h
  <2>4. Forest(N!Hang(h[n], s[n + 1]), fam, s, n + 1)
    BY <2>1, <2>2, HangForest
  <2> QED
    BY <2>3, <2>4
<1>4. Len(s) \in Good
  <2> HIDE DEF Good
  <2> QED
    BY <1>1, <1>2, <1>3, Induction
<1>5. N!Hierarchy(fam, s) = h[Len(s)]
  BY DEF N!Hierarchy
<1> HIDE DEF h
<1> QED
  BY <1>1, <1>4, <1>5

(* The first i specifiers of a control's parent are those of the control.  *)
LEMMA ParentIs ==
    ASSUME NEW c \in Specifiers, Len(c) >= 2
    PROVE  /\ N!Parent(c) = SubSeq(c, 1, Len(c) - 1) /\ N!Parent(c) \in Specifiers
           /\ Len(N!Parent(c)) = Len(c) - 1 /\ N!Parent(c)[1] = c[1]
           /\ \A i \in 1..(Len(c) - 1) : SubSeq(N!Parent(c), 1, i) = SubSeq(c, 1, i)
<1>1. N!Parent(c) = SubSeq(c, 1, Len(c) - 1)
  BY DEF N!Parent, N!Front
<1>2. /\ N!Parent(c) \in Specifiers /\ Len(N!Parent(c)) = Len(c) - 1 /\ N!Parent(c)[1] = c[1]
  BY <1>1 DEF Specifiers
<1>3. ASSUME NEW i \in 1..(Len(c) - 1) PROVE SubSeq(N!Parent(c), 1, i) = SubSeq(c, 1, i)
  <2>1. N!Parent(c) = [j \in 1..(Len(c) - 1) |-> c[j]]
    BY <1>1 DEF Specifiers
  <2>2. SubSeq(c, 1, i) = [j \in 1..i |-> c[j]]
    BY DEF Specifiers
  <2>3. SubSeq(N!Parent(c), 1, i) = [j \in 1..i |-> N!Parent(c)[j]]
    BY <1>2 DEF Specifiers
  <2> QED
    BY <2>1, <2>2, <2>3
<1> QED
  BY <1>1, <1>2, <1>3

LEMMA ShortParent ==
    ASSUME NEW c \in Specifiers, Len(c) = 2 PROVE N!Parent(c) = Family(c[1])
<1>1. Len(c) >= 2 /\ Len(c) - 1 = 1
  OBVIOUS
<1>2. N!Parent(c) = SubSeq(c, 1, Len(c) - 1)
  BY <1>1, ParentIs
<1>3. SubSeq(c, 1, 1) = <<c[1]>>
  <2>1. c[1] \in STRING /\ Len(c) \in Nat
    BY <1>1 DEF Specifiers
  <2>2. SubSeq(c, 1, 1) \in Seq(STRING) /\ Len(SubSeq(c, 1, 1)) = 1 /\ SubSeq(c, 1, 1)[1] = c[1]
    BY <1>1 DEF Specifiers
  <2>3. <<c[1]>> \in Seq(STRING) /\ Len(<<c[1]>>) = 1 /\ <<c[1]>>[1] = c[1]
    BY <2>1
  <2> DEFINE q == SubSeq(c, 1, 1)
             r == <<c[1]>>
  <2>4. q \in Seq(STRING) /\ r \in Seq(STRING) /\ Len(q) = 1 /\ Len(r) = 1 /\ q[1] = r[1]
    BY <2>2, <2>3
  <2> HIDE DEF q, r
  <2>5. q = r
    BY <2>4, SeqEqual
  <2> QED
    BY <2>5 DEF q, r
<1> QED
  BY <1>1, <1>2, <1>3 DEF Family

(* A control is rooted where its parent is, or is a family of the list.    *)
LEMMA RootedBelow ==
    ASSUME NEW fam, IsFamilies(fam), NEW s, IsList(s), NEW c \in ToSet(s)
    PROVE  /\ c \in Specifiers /\ Len(c) \in Nat /\ Len(c) >= 2
           /\ c \in N!Rooted(fam, s) <=>
                \/ \E i \in DOMAIN fam : N!Parent(c) = Family(fam[i])
                \/ N!Parent(c) \in N!Rooted(fam, s)
<1>1. c \in Specifiers /\ Len(c) \in Nat /\ Len(c) >= 2
  BY DEF ToSet, IsList, Specifiers
<1> DEFINE p == N!Parent(c)
<1>2. /\ p = SubSeq(c, 1, Len(c) - 1) /\ p \in Specifiers
      /\ Len(p) = Len(c) - 1 /\ p[1] = c[1]
      /\ \A i \in 1..(Len(c) - 1) : SubSeq(p, 1, i) = SubSeq(c, 1, i)
  BY <1>1, ParentIs
<1>3. Len(c) = 2 => p = Family(c[1])
  BY <1>1, ShortParent
<1>4. \A d : Len(Family(d)) = 1 /\ Family(d)[1] = d
  BY DEF Family
<1>5. \A d \in ToSet(s) : Len(d) >= 2
  BY DEF ToSet, IsList
<1> DEFINE Of(d) == \E i \in DOMAIN fam : d = fam[i]
<1>6. ASSUME NEW d \in ToSet(s)
      PROVE  d \in N!Rooted(fam, s) <=>
                Of(d[1]) /\ \A i \in 2..(Len(d) - 1) : SubSeq(d, 1, i) \in ToSet(s)
  BY DEF N!Rooted, N!ToSet, ToSet
<1>7. N!Rooted(fam, s) \subseteq ToSet(s)
  BY DEF N!Rooted, N!ToSet, ToSet
<1>l. PICK l \in Nat : l = Len(c) /\ l >= 2
  BY <1>1
<1>f. (\E i \in DOMAIN fam : p = Family(fam[i])) => Len(p) = 1
  BY <1>4
<1>8. CASE l = 2
  <2>1. 2..(Len(c) - 1) = {}
    BY <1>l, <1>8
  <2>2. c \in N!Rooted(fam, s) <=> Of(c[1])
    <3> HIDE DEF Of
    <3> QED
      BY <1>6, <2>1
  <2>3. p \notin N!Rooted(fam, s)
    <3>1. Len(p) = 1
      BY <1>l, <1>2, <1>8
    <3> SUFFICES ASSUME p \in N!Rooted(fam, s) PROVE FALSE
      OBVIOUS
    <3>2. Len(p) >= 2
      BY <1>5, <1>7
    <3> QED
      BY <3>1, <3>2
  <2>4. p = Family(c[1])
    BY <1>3, <1>l, <1>8
  <2>5. (\E i \in DOMAIN fam : p = Family(fam[i])) <=> Of(c[1])
    BY <2>4, <1>4
  <2> HIDE DEF p
  <2> QED
    BY <1>1, <2>2, <2>3, <2>5 DEF p
<1>9. CASE l # 2
  <2>0. Len(p) = l - 1 /\ l - 1 >= 2 /\ l - 1 \in 1..(l - 1) /\ l - 1 \in 2..(l - 1)
    BY <1>l, <1>2, <1>9
  <2>1. ~ \E i \in DOMAIN fam : p = Family(fam[i])
    BY <1>f, <2>0
  <2>2. ASSUME p \in ToSet(s) PROVE c \in N!Rooted(fam, s) <=> p \in N!Rooted(fam, s)
    <3>1. p \in N!Rooted(fam, s) <=>
             Of(p[1]) /\ \A i \in 2..(l - 2) : SubSeq(p, 1, i) \in ToSet(s)
      <4>1. Len(p) - 1 = l - 2
        BY <2>0, <1>l
      <4> HIDE DEF Of, p
      <4> QED
        BY <1>6, <2>2, <4>1
    <3>2. c \in N!Rooted(fam, s) <=>
             Of(c[1]) /\ \A i \in 2..(l - 1) : SubSeq(c, 1, i) \in ToSet(s)
      <4> HIDE DEF Of
      <4> QED
        BY <1>6, <1>l
    <3>3. \A i \in 2..(l - 1) : i \in 2..(l - 2) \/ i = l - 1
      BY <1>l
    <3>4. \A i \in 2..(l - 2) : i \in 2..(l - 1) /\ SubSeq(p, 1, i) = SubSeq(c, 1, i)
      <4>1. \A i \in 2..(l - 2) : i \in 2..(l - 1) /\ i \in 1..(l - 1)
        BY <1>l
      <4> HIDE DEF p
      <4> QED
        BY <4>1, <1>2, <1>l
    <3>5. SubSeq(c, 1, l - 1) = p /\ p[1] = c[1]
      BY <1>2, <1>l
    <3> HIDE DEF p, Of
    <3> QED
      BY <3>1, <3>2, <3>3, <3>4, <3>5, <2>2
  <2>3. c \in N!Rooted(fam, s) => p \in ToSet(s)
    <3>1. c \in N!Rooted(fam, s) => SubSeq(c, 1, l - 1) \in ToSet(s)
      BY <1>6, <1>l, <2>0
    <3> QED
      BY <1>2, <1>l, <3>1
  <2> HIDE DEF p
  <2> QED
    BY <1>1, <1>7, <2>1, <2>2, <2>3 DEF p
<1> QED
  BY <1>l, <1>8, <1>9

(* Of the whole list: under a node hang the controls it is the parent of,  *)
(* and each control of the list hangs under its parent.                    *)
Hanging(control, children, map, s) ==
    /\ \A n \in 1..Len(control) : \A i \in 1..Len(children[n]) :
          /\ children[n][i] \in 1..Len(control) /\ control[children[n][i]] \in ToSet(s)
          /\ N!Parent(control[children[n][i]]) = control[n]
    /\ \A c \in ToSet(s) :
          /\ c \in DOMAIN map /\ N!Parent(c) \in DOMAIN map
          /\ \E i \in 1..Len(children[map[N!Parent(c)]]) :
                children[map[N!Parent(c)]][i] = map[c]

LEMMA HangsIs ==
    ASSUME NEW fam, NEW s, IsList(s), NEW control, NEW children, NEW map,
           ForestOf(control, children, map, fam, s, Len(s))
    PROVE  Hanging(control, children, map, s)
<1>1. Len(s) \in Nat /\ ToSet(s) = {s[j] : j \in 1..Len(s)}
  BY DEF IsList, ToSet
<1>2. /\ NodesTyped(control, children, map) /\ AllHung(map, s, Len(s))
      /\ ChildrenOf(control, children, map, s, Len(s))
  BY DEF ForestOf
<1>3. ASSUME NEW n \in 1..Len(control), NEW i \in 1..Len(children[n])
      PROVE  /\ children[n][i] \in 1..Len(control) /\ control[children[n][i]] \in ToSet(s)
             /\ N!Parent(control[children[n][i]]) = control[n]
  <2> DEFINE places == At(s, control[n], Len(s))
             j == Nth(places, i)
  <2>1. i \in 1..Cardinality(places) /\ children[n][i] = map[s[j]]
    BY <1>2 DEF ChildrenOf
  <2>2. j \in 1..Len(s) /\ N!Parent(s[j]) = control[n]
    <3> HIDE DEF places
    <3>1. \A l \in 1..Cardinality(places) :
             Nth(places, l) \in 1..Len(s) /\ N!Parent(s[Nth(places, l)]) = control[n]
      BY <1>1, AtIs DEF places
    <3> QED
      BY <2>1, <3>1
  <2> HIDE DEF j, places
  <2>3. map[s[j]] \in 1..Len(control) /\ control[map[s[j]]] = s[j]
    BY <1>2, <2>2 DEF AllHung, NodesTyped
  <2> QED
    BY <1>1, <2>1, <2>2, <2>3
<1>4. ASSUME NEW c \in ToSet(s)
      PROVE  /\ c \in DOMAIN map /\ N!Parent(c) \in DOMAIN map
             /\ \E i \in 1..Len(children[map[N!Parent(c)]]) :
                   children[map[N!Parent(c)]][i] = map[c]
  <2>1. PICK j \in 1..Len(s) : s[j] = c
    BY <1>1
  <2>2. c \in DOMAIN map /\ N!Parent(c) \in DOMAIN map
    BY <1>2, <2>1 DEF AllHung
  <2> DEFINE n == map[N!Parent(c)]
             places == At(s, control[n], Len(s))
  <2>3. n \in 1..Len(control) /\ control[n] = N!Parent(c)
    BY <1>2, <2>2 DEF NodesTyped
  <2>4. places \in SUBSET (1..Len(s)) /\ j \in places
    BY <2>1, <2>3 DEF At
  <2>5. Len(children[n]) = Cardinality(places)
        /\ \A i \in 1..Cardinality(places) : children[n][i] = map[s[Nth(places, i)]]
    BY <1>2, <2>3 DEF ChildrenOf
  <2> HIDE DEF places
  <2>6. \E i \in 1..Cardinality(places) : Nth(places, i) = j
    BY <1>1, <2>4, NthIs
  <2> HIDE DEF n
  <2>7. \E i \in 1..Len(children[n]) : children[n][i] = map[c]
    BY <2>1, <2>5, <2>6
  <2> QED
    BY <2>2, <2>7 DEF n
<1> QED
  BY <1>3, <1>4 DEF Hanging

(* A node is in the hierarchy when its control is, and only then.          *)
LEMMA ReachedIs ==
    ASSUME NEW fam, IsFamilies(fam), NEW s, IsList(s), NEW control, NEW children, NEW map,
           ForestOf(control, children, map, fam, s, Len(s)), NEW h,
           h = [control |-> control, children |-> children, map |-> map]
    PROVE  N!Reached(h, DOMAIN fam) =
              {n \in 1..Len(control) :
                  \/ control[n] \in N!Rooted(fam, s)
                  \/ \E i \in DOMAIN fam : control[n] = Family(fam[i])}
<1> DEFINE OfFamily(c) == \E i \in DOMAIN fam : c = Family(fam[i])
           whole == {n \in 1..Len(control) : control[n] \in N!Rooted(fam, s) \/ OfFamily(control[n])}
<1>1. NodesTyped(control, children, map) /\ FamiliesFirst(control, fam)
  BY DEF ForestOf
<1>2. Hanging(control, children, map, s)
  BY HangsIs
<1>3. h.control = control /\ h.children = children
  OBVIOUS
<1>4. control \in Seq(Specifiers) /\ Len(control) \in Nat /\ DOMAIN control = 1..Len(control)
      /\ DOMAIN children = 1..Len(control)
      /\ \A n \in 1..Len(control) : children[n] \in Seq(Nat)
  BY <1>1 DEF NodesTyped
<1>5. \A n, m \in 1..Len(control) : control[n] = control[m] => n = m
  BY <1>1 DEF NodesTyped
<1>6. ASSUME NEW n \in 1..Len(control)
      PROVE  N!ToSet(h.children[n]) = {children[n][i] : i \in 1..Len(children[n])}
  BY <1>3, <1>4, <1>6 DEF N!ToSet
<1>7. N!Rooted(fam, s) \subseteq ToSet(s)
  BY DEF N!Rooted, N!ToSet, ToSet
<1> HIDE DEF OfFamily
<1>8. ASSUME NEW c \in ToSet(s)
      PROVE  /\ c \in Specifiers /\ Len(c) \in Nat /\ Len(c) >= 2
             /\ c \in N!Rooted(fam, s) <=>
                  OfFamily(N!Parent(c)) \/ N!Parent(c) \in N!Rooted(fam, s)
  BY RootedBelow DEF OfFamily
<1>9. \A i \in DOMAIN fam : i \in whole
  <2> TAKE i \in DOMAIN fam
  <2>1. i \in 1..Len(control) /\ control[i] = Family(fam[i])
    BY <1>1 DEF FamiliesFirst
  <2> QED
    BY <2>1 DEF OfFamily
<1>10. ASSUME NEW n \in whole, NEW m \in N!ToSet(h.children[n]) PROVE m \in whole
  <2>1. PICK i \in 1..Len(children[n]) : m = children[n][i]
    BY <1>6
  <2>2. m \in 1..Len(control) /\ control[m] \in ToSet(s) /\ N!Parent(control[m]) = control[n]
    BY <1>2, <2>1 DEF Hanging
  <2>3. control[m] \in N!Rooted(fam, s)
    BY <1>8, <2>2
  <2> QED
    BY <2>2, <2>3
<1>11. whole \in N!Closed(h, DOMAIN fam)
  <2>1. whole \in SUBSET DOMAIN h.control
    BY <1>3, <1>4
  <2>2. N!Below(h, whole) \subseteq whole
    <3> HIDE DEF whole
    <3> QED
      BY <1>10 DEF N!Below
  <2> HIDE DEF whole
  <2> QED
    BY <1>9, <2>1, <2>2 DEF N!Closed
<1>12. ASSUME NEW S \in N!Closed(h, DOMAIN fam), ~(whole \subseteq S) PROVE FALSE
  <2>1. DOMAIN fam \subseteq S /\ N!Below(h, S) \subseteq S /\ S \subseteq 1..Len(control)
    BY <1>3, <1>4, <1>12 DEF N!Closed
  <2> DEFINE Lengths == {Len(control[n]) : n \in whole \ S}
  <2>2. Lengths \in SUBSET Nat /\ Lengths # {}
    <3>1. \A n \in whole : Len(control[n]) \in Nat
      BY <1>4 DEF Specifiers
    <3> HIDE DEF whole
    <3> QED
      BY <1>12, <3>1
  <2>3. PICK l \in Lengths : \A k \in Lengths : l <= k
    <3> HIDE DEF Lengths
    <3> QED
      BY <2>2, SmallestIs
  <2>4. PICK n \in whole \ S : Len(control[n]) = l
    BY <2>3
  <2>5. ~OfFamily(control[n])
    <3> SUFFICES ASSUME NEW i \in DOMAIN fam, control[n] = Family(fam[i]) PROVE FALSE
      BY DEF OfFamily
    <3>1. i \in 1..Len(control) /\ control[i] = Family(fam[i])
      BY <1>1 DEF FamiliesFirst
    <3>2. n = i
      BY <1>5, <2>4, <3>1
    <3> QED
      BY <2>1, <2>4, <3>2
  <2> DEFINE c == control[n]
             p == N!Parent(c)
  <2>6. c \in N!Rooted(fam, s) /\ c \in ToSet(s)
    BY <1>7, <2>4, <2>5
  <2>7. c \in Specifiers /\ Len(c) >= 2 /\ Len(c) \in Nat /\ (OfFamily(p) \/ p \in N!Rooted(fam, s))
    BY <1>8, <2>6
  <2>8. Len(p) = Len(c) - 1
    BY <2>7, ParentIs
  <2>9. c \in DOMAIN map /\ p \in DOMAIN map /\ map[c] = n
        /\ \E i \in 1..Len(children[map[p]]) : children[map[p]][i] = n
    <3>1. map[c] = n
      BY <1>1, <2>4 DEF NodesTyped
    <3> HIDE DEF c
    <3> QED
      BY <1>2, <2>6, <3>1 DEF Hanging
  <2>10. map[p] \in 1..Len(control) /\ control[map[p]] = p
    BY <1>1, <2>9 DEF NodesTyped
  <2> HIDE DEF p, c
  <2>11. map[p] \in whole
    BY <2>7, <2>10
  <2>12. map[p] \in S
    <3> SUFFICES ASSUME map[p] \notin S PROVE FALSE
      OBVIOUS
    <3>1. Len(p) \in Lengths
      <4> HIDE DEF whole
      <4> QED
        BY <2>10, <2>11
    <3>2. l = Len(c) /\ l <= Len(p)
      BY <2>3, <2>4, <3>1 DEF c
    <3> QED
      BY <2>7, <2>8, <3>2
  <2>13. n \in N!ToSet(h.children[map[p]])
    BY <1>6, <2>9, <2>10
  <2> QED
    BY <2>1, <2>4, <2>12, <2>13 DEF N!Below
<1>13. N!Reached(h, DOMAIN fam) = whole
  <2>1. whole \subseteq DOMAIN h.control
    BY <1>3, <1>4
  <2> HIDE DEF whole
  <2> QED
    BY <1>11, <1>12, <2>1 DEF N!Reached
<1> QED
  BY <1>13 DEF OfFamily

LEMMA Whole ==
    ASSUME NEW fam, IsFamilies(fam), NEW s, IsList(s)
    PROVE  N!HierarchyWhole(fam, s)
<1> DEFINE h == N!Hierarchy(fam, s)
           nodes == N!Reached(h, DOMAIN fam)
           families == {<<fam[i]>> : i \in DOMAIN fam}
<1>1. PICK control, children, map :
         /\ h = [control |-> control, children |-> children, map |-> map]
         /\ ForestOf(control, children, map, fam, s, Len(s))
  BY HierarchyForest DEF Forest
<1> HIDE DEF h
<1>2. nodes = {n \in 1..Len(control) :
                  \/ control[n] \in N!Rooted(fam, s)
                  \/ \E i \in DOMAIN fam : control[n] = Family(fam[i])}
  BY <1>1, ReachedIs
<1>3. NodesTyped(control, children, map) /\ FamiliesFirst(control, fam)
  BY <1>1 DEF ForestOf
<1>4. /\ ChildrenOf(control, children, map, s, Len(s)) /\ AllHung(map, s, Len(s))
      /\ Len(s) \in Nat /\ s \in Seq(Specifiers)
  BY <1>1 DEF ForestOf, IsList
<1>5. h.control = control /\ h.children = children
  BY <1>1
<1> HIDE DEF nodes
<1>6. {control[n] : n \in nodes} = N!Rooted(fam, s) \cup families
  <2>1. ASSUME NEW n \in nodes PROVE control[n] \in N!Rooted(fam, s) \cup families
    BY <1>2 DEF Family
  <2>2. ASSUME NEW c \in N!Rooted(fam, s) PROVE \E n \in nodes : control[n] = c
    <3>1. c \in ToSet(s)
      BY DEF N!Rooted, N!ToSet, ToSet
    <3>2. c \in DOMAIN map
      BY <1>1, <3>1, HangsIs DEF Hanging
    <3>3. map[c] \in 1..Len(control) /\ control[map[c]] = c
      BY <1>3, <3>2 DEF NodesTyped
    <3> QED
      BY <1>2, <3>3
  <2>3. ASSUME NEW i \in DOMAIN fam PROVE \E n \in nodes : control[n] = <<fam[i]>>
    <3>1. i \in 1..Len(control) /\ control[i] = Family(fam[i])
      BY <1>3 DEF FamiliesFirst
    <3> QED
      BY <1>2, <3>1 DEF Family
  <2> QED
    BY <2>1, <2>2, <2>3
<1>7. \A n, m \in nodes : control[n] = control[m] => n = m
  BY <1>2, <1>3 DEF NodesTyped
<1>8. ASSUME NEW n \in nodes
      PROVE  [i \in DOMAIN children[n] |-> control[children[n][i]]] =
                N!Pick(s, N!ChildrenAt(s, control[n]))
  <2> DEFINE places == At(s, control[n], Len(s))
  <2>1. /\ n \in 1..Len(control) /\ children[n] \in Seq(Nat)
        /\ DOMAIN children[n] = 1..Len(children[n])
    BY <1>2, <1>3 DEF NodesTyped
  <2>2. N!ChildrenAt(s, control[n]) = places
    BY <1>4 DEF N!ChildrenAt, At
  <2>3. N!Pick(s, places) = Pick(s, places)
    BY DEF N!Pick, N!Nth, N!Cardinality, Pick, Nth, Cardinality
  <2>4. Pick(s, places) = [i \in 1..Cardinality(places) |-> s[Nth(places, i)]]
    BY DEF Pick
  <2>5. Len(children[n]) = Cardinality(places)
        /\ \A i \in 1..Cardinality(places) : children[n][i] = map[s[Nth(places, i)]]
    BY <1>4, <2>1 DEF ChildrenOf
  <2>6. \A i \in 1..Cardinality(places) : Nth(places, i) \in 1..Len(s)
    BY <1>4, AtIs
  <2> HIDE DEF places
  <2>7. ASSUME NEW i \in 1..Cardinality(places) PROVE control[children[n][i]] = s[Nth(places, i)]
    <3>1. s[Nth(places, i)] \in DOMAIN map
      BY <1>4, <2>6 DEF AllHung
    <3> QED
      BY <1>3, <2>5, <3>1 DEF NodesTyped
  <2>8. [i \in DOMAIN children[n] |-> control[children[n][i]]]
           = [i \in 1..Cardinality(places) |-> s[Nth(places, i)]]
    BY <2>1, <2>5, <2>7
  <2> QED
    BY <2>2, <2>3, <2>4, <2>8
<1> QED
  BY <1>5, <1>6, <1>7, <1>8 DEF N!HierarchyWhole, h, nodes

-----------------------------------------------------------------------------
(* The events of Splunk.                                                   *)

(* What is kept of a list are its elements at the positions kept.          *)
LEMMA KeptOf ==
    ASSUME NEW S, NEW s \in Seq(S), NEW places \in SUBSET (DOMAIN s)
    PROVE  /\ E!Pick(s, places) \in Seq(S) /\ Len(E!Pick(s, places)) = Cardinality(places)
           /\ E!ToSet(E!Pick(s, places)) = {s[i] : i \in places}
<1>1. E!Pick(s, places) = Pick(s, places)
  BY DEF E!Pick, E!Nth, E!Cardinality, Pick, Nth, Cardinality
<1> DEFINE p == Pick(s, places)
<1>2. /\ p \in Seq(S) /\ Len(p) = Cardinality(places) /\ DOMAIN p = 1..Cardinality(places)
      /\ \A k \in 1..Cardinality(places) : Nth(places, k) \in places /\ p[k] = s[Nth(places, k)]
      /\ \A i \in places : \E k \in 1..Cardinality(places) : Nth(places, k) = i /\ p[k] = s[i]
  BY PickIs
<1>3. E!ToSet(p) = {p[k] : k \in 1..Cardinality(places)}
  BY <1>2 DEF E!ToSet
<1> HIDE DEF p
<1>4. {p[k] : k \in 1..Cardinality(places)} = {s[i] : i \in places}
  <2>1. ASSUME NEW k \in 1..Cardinality(places) PROVE p[k] \in {s[i] : i \in places}
    BY <1>2
  <2>2. ASSUME NEW i \in places PROVE s[i] \in {p[k] : k \in 1..Cardinality(places)}
    BY <1>2
  <2> QED
    BY <2>1, <2>2
<1> QED
  BY <1>1, <1>2, <1>3, <1>4 DEF p

LEMMA KindsOf ==
    ASSUME NEW S, NEW s \in Seq(S), NEW guid, NEW subtype
    PROVE  /\ E!OfKind(s, guid, subtype) \in Seq(S)
           /\ \A e : e \in E!ToSet(E!OfKind(s, guid, subtype)) <=>
                 e \in E!ToSet(s) /\ e.guid = guid /\ e.subtype = subtype
<1> DEFINE places == {i \in DOMAIN s : s[i].guid = guid /\ s[i].subtype = subtype}
<1>1. /\ E!Pick(s, places) \in Seq(S)
      /\ E!ToSet(E!Pick(s, places)) = {s[i] : i \in places}
  BY KeptOf
<1>2. E!ToSet(s) = {s[i] : i \in DOMAIN s}
  BY DEF E!ToSet
<1> QED
  BY <1>1, <1>2 DEF E!OfKind

LEMMA ShasOf ==
    ASSUME NEW S, NEW s \in Seq(S), NEW sha
    PROVE  /\ \A e : e \in E!ToSet(E!OfSha(s, sha)) <=> e \in E!ToSet(s) /\ e.sha = sha
           /\ Len(E!OfSha(s, sha)) = Cardinality({i \in DOMAIN s : s[i].sha = sha})
<1> DEFINE places == {i \in DOMAIN s : s[i].sha = sha}
<1>1. /\ E!ToSet(E!Pick(s, places)) = {s[i] : i \in places}
      /\ Len(E!Pick(s, places)) = Cardinality(places)
  BY KeptOf
<1>2. E!ToSet(s) = {s[i] : i \in DOMAIN s}
  BY DEF E!ToSet
<1> QED
  BY <1>1, <1>2 DEF E!OfSha

(* A control is in the profiles of its execution that have its hash, and   *)
(* in no other.                                                            *)
LEMMA Kept ==
    ASSUME NEW S, NEW s \in Seq(S) PROVE E!EventsKept(s)
<1> SUFFICES ASSUME NEW e \in E!ToSet(s), e.subtype = "control"
             PROVE  LET homes == E!Homes(E!Consolidated(s), e)
                        own == E!OfSha(E!OfKind(s, e.guid, "profile"), e.sha) IN
                       /\ E!Cardinality(homes) = Len(own)
                       /\ \A h \in homes : h[1] = e.guid
  BY DEF E!EventsKept
<1> DEFINE all == E!Consolidated(s)
           profiles(g) == E!OfKind(s, g, "profile")
           places == {p \in DOMAIN profiles(e.guid) : profiles(e.guid)[p].sha = e.sha}
           homes == {<<e.guid, p>> : p \in places}
<1>1. e.guid \in E!Guids(s)
  BY DEF E!Guids, E!ToSet
<1>2. ASSUME NEW g \in E!Guids(s)
      PROVE  /\ DOMAIN all[g] = DOMAIN profiles(g)
             /\ \A p \in DOMAIN profiles(g) :
                   e \in E!ToSet(all[g][p].controls) <=>
                      g = e.guid /\ profiles(g)[p].sha = e.sha
  <2>1. all[g] = [p \in DOMAIN profiles(g) |->
                    [sha |-> profiles(g)[p].sha,
                     controls |-> E!ControlsIn(s, g, profiles(g)[p].sha)]]
    BY DEF E!Consolidated
  <2>2. E!OfKind(s, g, "control") \in Seq(S)
        /\ (e \in E!ToSet(E!OfKind(s, g, "control")) <=> e.guid = g)
    BY KindsOf
  <2> HIDE DEF all, profiles
  <2>3. ASSUME NEW sha PROVE e \in E!ToSet(E!ControlsIn(s, g, sha)) <=> g = e.guid /\ sha = e.sha
    BY <2>2, ShasOf DEF E!ControlsIn
  <2> QED
    BY <2>1, <2>3
<1>3. DOMAIN all = E!Guids(s)
  BY DEF E!Consolidated
<1>4. E!Homes(all, e) = homes
  <2> DEFINE Local(g) ==
               {<<g, p>> : p \in {q \in DOMAIN all[g] : e \in E!ToSet(all[g][q].controls)}}
  <2>1. E!Homes(all, e) = UNION {Local(g) : g \in E!Guids(s)}
    BY <1>3 DEF E!Homes
  <2>2. ASSUME NEW g \in E!Guids(s) PROVE Local(g) = IF g = e.guid THEN homes ELSE {}
    <3> HIDE DEF all, profiles
    <3> QED
      BY <1>2
  <2> HIDE DEF Local, homes
  <2> QED
    BY <1>1, <2>1, <2>2
<1>5. profiles(e.guid) \in Seq(S)
  BY KindsOf
<1>6. Cardinality(homes) = Cardinality(places)
  <2> HIDE DEF profiles
  <2>1. DOMAIN profiles(e.guid) = 1..Len(profiles(e.guid)) /\ Len(profiles(e.guid)) \in Nat
    BY <1>5
  <2>2. IsFiniteSet(places)
    <3>1. IsFiniteSet(1..Len(profiles(e.guid)))
      BY <2>1, FS_Interval
    <3> QED
      BY <2>1, <3>1, FS_Subset
  <2> HIDE DEF places
  <2> DEFINE f == [p \in places |-> <<e.guid, p>>]
  <2>3. f \in Bijection(places, homes)
    BY DEF Bijection, Injection, Surjection, IsInjective
  <2>4. ExistsBijection(places, homes)
    <3> HIDE DEF f
    <3> QED
      BY <2>3 DEF ExistsBijection
  <2> HIDE DEF homes
  <2> QED
    BY <2>2, <2>4, FS_Bijection
<1>7. Len(E!OfSha(profiles(e.guid), e.sha)) = Cardinality(places)
  BY <1>5, ShasOf
<1>8. E!Cardinality(homes) = Cardinality(homes)
  BY DEF E!Cardinality, Cardinality
<1> HIDE DEF places
<1> QED
  BY <1>4, <1>6, <1>7, <1>8

-----------------------------------------------------------------------------
(* Lists in any order.                                                     *)

LEMMA OrderIs ==
    ASSUME NEW elements, IsFiniteSet(elements), NEW s \in Orders(elements)
    PROVE  s \in Seq(elements)
<1>1. PICK X \in SUBSET elements : s \in SetToSeqs(X)
  BY DEF Orders
<1> DEFINE n == Cardinality(X)
<1>2. n \in Nat
  BY FS_Subset, FS_CardinalityType
<1>3. s \in [1..n -> X]
  BY <1>1 DEF SetToSeqs
<1> HIDE DEF n
<1> QED
  BY <1>2, <1>3, IsASeq

(* Whatever the families, the controls that are listed, how often, and the *)
(* events, and whatever their order: every control whose ancestors are     *)
(* listed is one node of the hierarchy, with the controls it is the parent *)
(* of under it as the list names them, and every control of Splunk is in   *)
(* the profiles it is of (nist.ts, splunk_util.ts).                        *)
THEOREM OrderMattersNot == PartsSpec => []OrderNeverMatters
<1>1. PartsInit => OrderNeverMatters
  <2> SUFFICES ASSUME PartsInit PROVE OrderNeverMatters
    OBVIOUS
  <2>1. CASE part = "hierarchy"
    <3>1. input \in SeqOf(ControlNumbers, MaxListed)
      BY <2>1 DEF PartsInit
    <3>2. input \in Seq(ControlNumbers)
      <4>1. PICK n \in 0..MaxListed : input \in [1..n -> ControlNumbers]
        BY <3>1 DEF SeqOf
      <4> QED
        BY <4>1, InputsAssumption, IsASeq
    <3>3. IsList(input)
      <4>1. \A i \in 1..Len(input) : input[i] \in ControlNumbers
        BY <3>2
      <4>2. \A c \in ControlNumbers : c \in Specifiers /\ Len(c) >= 2
        BY InputsAssumption DEF Specifiers
      <4>3. input \in Seq(Specifiers)
        BY <3>2, <4>2, SeqMonotonic
      <4> QED
        BY <4>1, <4>2, <4>3 DEF IsList
    <3>4. IsFamilies(Families)
      BY InputsAssumption DEF IsFamilies
    <3> QED
      BY <2>1, <3>3, <3>4, Whole DEF OrderNeverMatters
  <2>2. CASE part = "events"
    <3>1. input \in Orders(Events)
      BY <2>2 DEF PartsInit
    <3>2. input \in Seq(Events)
      BY <3>1, OrderIs, InputsAssumption
    <3> QED
      BY <2>2, <3>2, Kept DEF OrderNeverMatters
  <2>3. CASE part \notin {"hierarchy", "events"}
    BY <2>3 DEF OrderNeverMatters
  <2> QED
    BY <2>1, <2>2, <2>3
<1>2. OrderNeverMatters /\ [PartsNext]_partsVars => OrderNeverMatters'
  <2> SUFFICES ASSUME OrderNeverMatters, [PartsNext]_partsVars PROVE OrderNeverMatters'
    OBVIOUS
  <2>1. UNCHANGED <<part, input>>
    BY DEF PartsNext, partsVars, otherVars, SessionStep, SplunkStep
  <2> QED
    BY <2>1 DEF OrderNeverMatters
<1> QED
  BY <1>1, <1>2, PTL DEF PartsSpec
=============================================================================
