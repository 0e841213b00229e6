------------------------------ MODULE Session -------------------------------
(***************************************************************************)
(* Who is signed in on a page of the client: store/server.ts, the guard of *)
(* the router and the response interceptor of main.ts.  Local storage is   *)
(* shared with other tabs; a cookie carries what the callback of an        *)
(* identity provider left.  Code between two answers is not interrupted.   *)
(***************************************************************************)
EXTENDS ClientAccounts, FiniteSets

VARIABLES
    storage,   \* local storage: whose token and whose id it holds
    cookie,    \* the account a provider's callback signed in
    valid,     \* the accounts whose tokens the server accepts
    token,     \* the account of the token the page uses
    user,      \* userInfo: its id, and the account whose data it holds
    loading,   \* CheckForServer has not finished on this page
    at,        \* the route that is shown
    pending,   \* the route whose guard waits; a later navigation replaces it
    calls,     \* the calls of this page that are not answered
    leaving,   \* location.reload() was called
    switched,  \* two accounts were signed in on this page
    turns      \* what was started so far

page == <<token, user, loading, at, pending, calls, leaving, switched>>
outside == <<storage, cookie, valid>>
vars == <<storage, cookie, valid, token, user, loading, at, pending, calls,
          leaving, switched, turns>>

Known == Account \cup {Nobody}
Routes == {"login", "home", "admin"}
Waiting == Routes \cup {"none"}

(* as: whose token the call carries; to: the route whose guard waits for   *)
(* it, "none" for other calls.                                             *)
Call(kind, id, as, to) == [kind |-> kind, id |-> id, as |-> as, to |-> to]

TypeOK ==
    /\ storage \in [token : Known, id : Known] /\ cookie \in Known
    /\ valid \subseteq Account /\ token \in Known
    /\ user \in [id : Known, data : Known]
    /\ loading \in BOOLEAN /\ leaving \in BOOLEAN /\ switched \in BOOLEAN
    /\ at \in Waiting /\ pending \in Waiting
    /\ calls \subseteq [kind : {"server", "user", "login", "other"},
                        id : Known, as : Known, to : Waiting]
    /\ turns \in 0..MaxTurns

-----------------------------------------------------------------------------

Init ==
    /\ \E a \in Known : storage = [token |-> a, id |-> a]
    /\ cookie \in Known /\ valid \in SUBSET Account
    /\ token = Nobody /\ user = [id |-> Nobody, data |-> Nobody]
    /\ loading = TRUE /\ at = "none" /\ leaving = FALSE /\ switched = FALSE
    /\ pending \in Routes /\ calls = {Call("server", Nobody, Nobody, pending)}
    /\ turns = 0

Turn == turns < MaxTurns /\ turns' = turns + 1

(* Mutant of Allowed: the administration is open to whoever is signed in.  *)
AllowedSignedIn(r, t, data) == IF t = Nobody THEN "login" ELSE r

(* beforeEach, for a client in server mode.  The login page sends whoever   *)
(* has a token to the home page.                                           *)
Allowed(r, t, data) ==
    IF t = Nobody THEN "login"
    ELSE IF r = "login" \/ (r = "admin" /\ data \notin AdminAccount) THEN "home" ELSE r

(* A login page that is shown already is not mounted again.                *)
Enter(r) ==
    /\ at' = IF r = "login" /\ at = "login" THEN at ELSE Allowed(r, token', user'.data)
    /\ pending' = "none"

Navigate ==
    /\ Turn
    /\ UNCHANGED <<outside, token, user, loading, leaving, switched>>
    /\ \E r \in Routes :
          IF loading
          THEN /\ pending' = r /\ at' = at
               /\ calls' = calls \cup {Call("server", Nobody, token, r)}
          ELSE Enter(r) /\ calls' = calls

(* Each login form disables its own button only, until its answer.         *)
Login ==
    /\ Turn /\ at = "login"
    /\ \E a \in Account : calls' = calls \cup {Call("login", a, token, "none")}
    /\ UNCHANGED <<outside, token, user, loading, at, pending, leaving, switched>>

(* Any other call the page makes in the name of who is signed in.          *)
Use ==
    /\ Turn /\ token # Nobody
    /\ calls' = calls \cup {Call("other", token, token, "none")}
    /\ UNCHANGED <<outside, token, user, loading, at, pending, leaving, switched>>

(* Mutant of ClearStorage: the user id stays.                              *)
ClearTokenOnly == storage' = [storage EXCEPT !.token = Nobody]

ClearStorage == storage' = [token |-> Nobody, id |-> Nobody]

(* Logout forgets the stored session and asks for a reload; what the page  *)
(* holds in memory stays until then.                                       *)
Logout == ClearStorage /\ leaving' = TRUE

ClickLogout ==
    /\ Turn /\ at \in {"home", "admin"} /\ token # Nobody
    /\ Logout
    /\ UNCHANGED <<cookie, valid, token, user, loading, at, pending, calls, switched>>

StartPage(r) ==
    /\ token' = Nobody /\ user' = [id |-> Nobody, data |-> Nobody]
    /\ loading' = TRUE /\ at' = "none" /\ leaving' = FALSE /\ switched' = FALSE
    /\ pending' = r /\ calls' = {Call("server", Nobody, Nobody, r)}

Shown == IF at = "none" THEN pending ELSE at

(* The reload that Logout asked for.                                       *)
Leave ==
    /\ leaving /\ StartPage(Shown)
    /\ UNCHANGED <<outside, turns>>

(* The user loads the page anew, or goes through an identity provider,     *)
(* whose callback sets the cookie and comes back to the home page.         *)
Load ==
    /\ Turn
    /\ \/ StartPage(Shown) /\ UNCHANGED <<cookie, valid>>
       \/ /\ at = "login" /\ StartPage("home")
          /\ cookie' \in Account /\ valid' = valid \cup {cookie'}
    /\ storage' = storage

(* Another tab signs in or out.                                            *)
OtherTab ==
    /\ Turn
    /\ \E a \in Known : /\ storage' = [token |-> a, id |-> a]
                        /\ valid' = valid \cup ({a} \ {Nobody})
    /\ UNCHANGED <<cookie, page>>

(* A token expires, or its account is removed.                             *)
Expire ==
    /\ Turn
    /\ \E a \in valid : valid' = valid \ {a}
    /\ UNCHANGED <<storage, cookie, page>>

-----------------------------------------------------------------------------
(* Answers.                                                                *)

Or(a, b) == IF a # Nobody THEN a ELSE b

Switches(a) == switched' = (switched \/ (a # Nobody /\ token \notin {a, Nobody}))

(* Mutant of StoredToken: a cookie goes before what is stored.             *)
CookieFirst == Or(cookie, storage.token)

StoredToken == Or(storage.token, cookie)

(* Mutant of Settle: the page stays on loading.                            *)
SettleLoading(c) ==
    /\ loading' = loading
    /\ IF c.to = pending THEN Enter(c.to) ELSE UNCHANGED <<at, pending>>

(* CheckForServer is over; its guard goes on, if it is still wanted.       *)
Settle(c) ==
    /\ loading' = FALSE
    /\ IF c.to = pending THEN Enter(c.to) ELSE UNCHANGED <<at, pending>>

(* The answer of /server: what is stored, or else what the cookie brings.  *)
(* GetUserInfo follows where an id is known.                               *)
AnswerServer(c) ==
    /\ c.kind = "server"
    /\ storage' = [token |-> StoredToken, id |-> Or(storage.id, cookie)]
    /\ token' = Or(storage'.token, token)
    /\ user' = [user EXCEPT !.id = Or(storage'.id, user.id)]
    /\ Switches(storage'.token)
    /\ cookie' = Nobody
    /\ IF user'.id # Nobody
       THEN /\ calls' = (calls \ {c}) \cup {Call("user", user'.id, token', c.to)}
            /\ UNCHANGED <<loading, at, pending>>
       ELSE calls' = calls \ {c} /\ Settle(c)
    /\ UNCHANGED <<valid, leaving, turns>>

(* The answer of /users/id ends a GetUserInfo, and the CheckForServer that *)
(* waits for it.  A refusal is a Logout.                                   *)
AnswerUser(c) ==
    /\ c.kind = "user"
    /\ IF c.as \in valid
       THEN user' = [id |-> c.id, data |-> c.id] /\ UNCHANGED <<storage, leaving>>
       ELSE Logout /\ user' = user
    /\ token' = token
    /\ IF c.to = "none" THEN UNCHANGED <<loading, at, pending>> ELSE Settle(c)
    /\ calls' = calls \ {c}
    /\ UNCHANGED <<cookie, valid, switched, turns>>

(* handleLogin does not wait for GetUserInfo; the form goes home at once.  *)
(* A refused sign-in is any 401 to the interceptor: a page that has a      *)
(* token is signed out.                                                    *)
AnswerLogin(c) ==
    /\ c.kind = "login"
    /\ \/ /\ storage' = [token |-> c.id, id |-> c.id]
          /\ token' = c.id /\ user' = [user EXCEPT !.id = c.id]
          /\ Switches(c.id)
          /\ valid' = valid \cup {c.id}
          /\ calls' = (calls \ {c}) \cup {Call("user", c.id, c.id, "none")}
          /\ Enter("home")
          /\ leaving' = leaving
       \/ /\ calls' = calls \ {c}
          /\ IF token # Nobody THEN Logout ELSE UNCHANGED <<storage, leaving>>
          /\ UNCHANGED <<token, user, valid, at, pending, switched>>
    /\ UNCHANGED <<cookie, loading, turns>>

(* The interceptor: a 401 signs the page out.                              *)
AnswerOther(c) ==
    /\ c.kind = "other"
    /\ IF c.as \notin valid THEN Logout ELSE UNCHANGED <<storage, leaving>>
    /\ calls' = calls \ {c}
    /\ UNCHANGED <<cookie, valid, token, user, loading, at, pending, switched, turns>>

AnswerOf(k) ==
    \E c \in calls :
        c.kind = k /\ (AnswerServer(c) \/ AnswerUser(c) \/ AnswerLogin(c) \/ AnswerOther(c))

Answer == \E k \in {"server", "user", "login", "other"} : AnswerOf(k)

Next ==
    \/ Navigate \/ Login \/ Use \/ ClickLogout \/ Load \/ OtherTab \/ Expire
    \/ Leave \/ Answer

(* Calls are answered and a page that was told to reload does; people and  *)
(* other tabs owe nothing.                                                 *)
Fairness ==
    WF_vars(Leave) /\ \A k \in {"server", "user", "login", "other"} : WF_vars(AnswerOf(k))

Spec == Init /\ [][Next]_vars /\ Fairness

-----------------------------------------------------------------------------

(* A stored token and a stored id are of one account, whichever tabs and   *)
(* callbacks wrote them: nobody acts with the token of one account on the  *)
(* profile of another after a reload.                                      *)
StoredPair == storage.token = storage.id

(* On a page that only one account used, what it shows and the id it asks  *)
(* for are those of the token, whatever answers are late.                  *)
UserIsSignedIn ==
    ~switched => user.id \in {token, Nobody} /\ user.data \in {token, Nobody}

(* Such a page shows the administration to administrators only.            *)
AdminSeesAdmin == ~switched /\ at = "admin" => token \in AdminAccount

(* What the three say together: late answers, other tabs and refused       *)
(* tokens never mix two accounts where only one was used.                  *)
SessionHonest == StoredPair /\ UserIsSignedIn /\ AdminSeesAdmin

(* A page that starts is shown at last, also where a stored token is no    *)
(* longer accepted and the page reloads itself.                            *)
PageShown == loading ~> ~loading /\ at # "none"

(* A stored session the server refuses does not keep the page reloading.   *)
ReloadsEnd == <>[](~leaving)
=============================================================================
