--------------------------- MODULE UserManagement ----------------------------
(***************************************************************************)
(* The administrator's table of accounts (admin/UserManagement.vue) with   *)
(* the form of each row and that of the profile menu (UserModal.vue), and  *)
(* the registration of new accounts from it (RegistrationModal.vue).  A    *)
(* form copies its account when it is made, not when it is opened.  The    *)
(* server is as Accounts has it, with one administrator at work.           *)
(***************************************************************************)
EXTENDS Naturals, FiniteSets

CONSTANTS
    Person,      \* the accounts there may be
    Me,          \* that of the administrator
    Info,        \* what an account says: names, e-mail, role
    NoPerson,    \* no account, no form
    MaxChanges,  \* bound on registrations, edits and deletions
    MaxOpen      \* bound on the calls under way

VARIABLES
    accounts,      \* the accounts on the server
    known,         \* ids the server has given, none of them twice
    members,       \* the rows of the table: users of the component
    editedUser,    \* whom the delete dialog is about while it is open
    forms,         \* userInfo of the form in each row
    mine,          \* ServerModule.userInfo
    edited,        \* the forms the user changed and has not saved since
    open,          \* the calls under way
    done,          \* how many changes were asked for
    apart          \* no call was served while an older answer was awaited, none failed

vars == <<accounts, known, members, editedUser, forms, mine, edited, open, done, apart>>

page == <<members, editedUser, forms, mine, edited>>

Lists == UNION {[P -> Info] : P \in SUBSET Person}

(* form: the row whose form sent it, NoPerson that of the profile.         *)
Call(kind, who, form, info, n) ==
    [kind |-> kind, who |-> who, form |-> form, info |-> info, n |-> n, served |-> FALSE,
     refused |-> FALSE, got |-> <<>>]

Calls(kinds, whos, from, lists) ==
    [kind : kinds, who : whos, form : from, info : Info, n : 0..done, served : BOOLEAN,
     refused : BOOLEAN, got : lists]

TypeOK ==
    /\ accounts \in Lists /\ DOMAIN accounts \subseteq known /\ members \in Lists /\ forms \in Lists
    /\ DOMAIN forms = DOMAIN members
    /\ editedUser \in Person \cup {NoPerson} /\ mine \in Info
    /\ edited \subseteq Person /\ done \in 0..MaxChanges /\ apart \in BOOLEAN
    /\ open \subseteq Calls({"list"}, {NoPerson}, {NoPerson}, Lists) \cup
                      Calls({"register", "delete"}, Person, {NoPerson}, {<<>>}) \cup
                      Calls({"update"}, Person, Person \cup {NoPerson}, {<<>>})

-----------------------------------------------------------------------------

NobodyInfo == CHOOSE i \in Info : TRUE

GetUsers == Call("list", NoPerson, NoPerson, NobodyInfo, done')

Start(c) ==
    /\ done < MaxChanges /\ done' = done + 1
    /\ Cardinality(open) < MaxOpen
    /\ open' = open \cup {c}

(* The page is mounted by somebody who is signed in.                       *)
Init ==
    /\ accounts \in {a \in Lists : Me \in DOMAIN a}
    /\ known = DOMAIN accounts
    /\ members = <<>> /\ forms = <<>> /\ editedUser = NoPerson
    /\ mine = accounts[Me] /\ edited = {}
    /\ done = 0 /\ apart = TRUE
    /\ open = {Call("list", NoPerson, NoPerson, NobodyInfo, 0)}

(* deleteUserDialog, closeDeleteDialog, and a click beside the dialog.     *)
OpenDelete(u) ==
    /\ editedUser' = u
    /\ UNCHANGED <<accounts, known, members, forms, mine, edited, open, done, apart>>

CloseDelete ==
    /\ editedUser # NoPerson /\ editedUser' = NoPerson
    /\ UNCHANGED <<accounts, known, members, forms, mine, edited, open, done, apart>>

DeleteUserConfirm ==
    /\ editedUser # NoPerson
    /\ Start(Call("delete", editedUser, NoPerson, NobodyInfo, done'))
    /\ UNCHANGED <<accounts, known, page, apart>>

Register(u, i) ==
    /\ Start(Call("register", u, NoPerson, i, done'))
    /\ UNCHANGED <<accounts, known, page, apart>>

(* The bound on changes ends typing, too.                                  *)
Type(u, i) ==
    /\ done < MaxChanges /\ forms[u] # i
    /\ forms' = [forms EXCEPT ![u] = i] /\ edited' = edited \cup {u}
    /\ UNCHANGED <<accounts, known, members, editedUser, mine, open, done, apart>>

(* updateUserInfo of a form: its button waits for the answer.              *)
Waits(form) == \E c \in open : c.kind = "update" /\ c.form = form

SaveForm(u) ==
    /\ ~Waits(u) /\ Start(Call("update", u, u, forms[u], done')) /\ edited' = edited \ {u}
    /\ UNCHANGED <<accounts, known, members, editedUser, forms, mine, apart>>

(* That of the profile menu, whatever it copied and was typed into it.     *)
SaveProfile(i) ==
    /\ ~Waits(NoPerson) /\ Start(Call("update", Me, NoPerson, i, done'))
    /\ UNCHANGED <<accounts, known, page, apart>>

-----------------------------------------------------------------------------

Answered(c, answer) == open' = (open \ {c}) \cup {answer}

(* A list, or an edit of the same account, that was served before and is   *)
(* still awaited.                                                          *)
Overtaken(c) ==
    \E d \in open : d.served /\ (d.kind = "list" \/ (d.kind = "update" /\ d.who = c.who))

Serve(c) ==
    /\ ~c.served /\ Me \in DOMAIN accounts
    /\ CASE c.kind = "list" ->
              Answered(c, [c EXCEPT !.served = TRUE, !.got = accounts])
              /\ UNCHANGED <<accounts, apart>>
         [] c.kind = "register" /\ c.who \notin known ->
              /\ accounts' = [u \in DOMAIN accounts \cup {c.who} |->
                                 IF u = c.who THEN c.info ELSE accounts[u]]
              /\ Answered(c, [c EXCEPT !.served = TRUE]) /\ apart' = (apart /\ ~Overtaken(c))
         [] c.kind = "update" /\ c.who \in DOMAIN accounts ->
              /\ accounts' = [accounts EXCEPT ![c.who] = c.info]
              /\ Answered(c, [c EXCEPT !.served = TRUE]) /\ apart' = (apart /\ ~Overtaken(c))
         [] c.kind = "delete" /\ c.who \in DOMAIN accounts ->
              /\ accounts' = [u \in DOMAIN accounts \ {c.who} |-> accounts[u]]
              /\ Answered(c, [c EXCEPT !.served = TRUE])
              /\ apart' = (apart /\ ~\E d \in open : d.served /\ d.kind = "list")
         [] OTHER -> FALSE
    /\ known' = known \cup DOMAIN accounts'
    /\ UNCHANGED <<page, done>>

Refuse(c) ==
    /\ ~c.served
    /\ Answered(c, [c EXCEPT !.served = TRUE, !.refused = TRUE])
    /\ apart' = (apart /\ c.kind \in {"delete", "register"})
    /\ UNCHANGED <<accounts, known, page, done>>

(* Rows keep their forms as long as they are there.                        *)
AnswerList(c) ==
    /\ c.kind = "list" /\ c.served /\ open' = open \ {c}
    /\ IF c.refused THEN UNCHANGED <<members, forms, edited>>
       ELSE /\ members' = c.got
            /\ forms' = [u \in DOMAIN c.got |->
                            IF u \in DOMAIN forms THEN forms[u] ELSE c.got[u]]
            /\ edited' = edited \cap DOMAIN c.got
    /\ UNCHANGED <<accounts, known, editedUser, mine, done, apart>>

(* Mutant of UpdateUser: a row that is gone comes back.                    *)
UpdateAnyUser(u, i) ==
    /\ members' = [v \in DOMAIN members \cup {u} |-> IF v = u THEN i ELSE members[v]]
    /\ forms' = [v \in DOMAIN members' |-> IF v \in DOMAIN forms THEN forms[v] ELSE i]

UpdateUser(u, i) ==
    /\ members' = [v \in DOMAIN members |-> IF v = u THEN i ELSE members[v]]
    /\ forms' = forms

(* An answer to the profile's form changes no row of the table.            *)
AnswerUpdate(c) ==
    /\ c.kind = "update" /\ c.served /\ open' = open \ {c}
    /\ mine' = IF ~c.refused /\ c.who = Me THEN c.info ELSE mine
    /\ IF c.refused \/ c.form = NoPerson THEN UNCHANGED <<members, forms>>
       ELSE UpdateUser(c.who, c.info)
    /\ UNCHANGED <<accounts, known, editedUser, edited, done, apart>>

AnswerRegister(c) ==
    /\ c.kind = "register" /\ c.served /\ UNCHANGED done
    /\ open' = (open \ {c}) \cup (IF c.refused THEN {} ELSE {[GetUsers EXCEPT !.n = c.n]})
    /\ UNCHANGED <<accounts, known, page, apart>>

(* Mutant of AnswerDelete: the list is not fetched again.                  *)
AnswerDeleteOnly(c) ==
    /\ c.kind = "delete" /\ c.served /\ UNCHANGED done
    /\ open' = open \ {c} /\ editedUser' = NoPerson
    /\ UNCHANGED <<accounts, known, members, forms, mine, edited, apart>>

(* deleteUserConfirm, in the end: whichever dialog is open is closed.      *)
AnswerDelete(c) ==
    /\ c.kind = "delete" /\ c.served /\ UNCHANGED done
    /\ open' = (open \ {c}) \cup {[GetUsers EXCEPT !.n = c.n]}
    /\ editedUser' = NoPerson
    /\ UNCHANGED <<accounts, known, members, forms, mine, edited, apart>>

Next ==
    \/ CloseDelete \/ DeleteUserConfirm
    \/ \E u \in Person \ known, i \in Info : Register(u, i)
    \/ \E u \in DOMAIN members : OpenDelete(u) \/ SaveForm(u)
    \/ \E u \in DOMAIN members, i \in Info : Type(u, i)
    \/ \E i \in Info : SaveProfile(i)
    \/ \E c \in open :
          \/ Serve(c) \/ Refuse(c)
          \/ AnswerList(c) \/ AnswerUpdate(c) \/ AnswerRegister(c) \/ AnswerDelete(c)

Spec == Init /\ [][Next]_vars

-----------------------------------------------------------------------------

(* At rest, if no answer was overtaken and none was an error, the table is *)
(* that of the server and a form nobody types in shows what its row shows: *)
(* no answer to an edit brings back a deleted account, whatever was asked  *)
(* for meanwhile, and saving a form again changes nothing.  The row of the *)
(* administrator itself may lag: it has two forms that do not know each    *)
(* other; what the page takes it for is right.                             *)
TableRight ==
    apart /\ open = {} =>
        /\ DOMAIN members = DOMAIN accounts /\ mine = accounts[Me]
        /\ \A u \in DOMAIN members \ {Me} :
              members[u] = accounts[u] /\ (u \notin edited => forms[u] = members[u])
=============================================================================
