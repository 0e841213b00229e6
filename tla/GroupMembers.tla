---------------------------- MODULE GroupMembers -----------------------------
(***************************************************************************)
(* The members of a group, as an owner edits them in the dialog of its row *)
(* (GroupModal.vue with Users.vue), while another owner may change them    *)
(* elsewhere.  The form copies the row when it is made and keeps that      *)
(* copy; the row is read anew after each save.  What is added and removed  *)
(* is the difference between form and row when the edit of the group       *)
(* itself has been answered.                                               *)
(***************************************************************************)
EXTENDS FiniteSets, Naturals

CONSTANTS
    Person,      \* the accounts
    Me,          \* the owner at work, the only one this dialog shows as such
    MaxSaves,    \* bound on the saves
    MaxElsewhere \* bound on the changes made elsewhere

VARIABLES
    belongs,     \* the members on the server
    row,         \* group.users
    form,        \* groupInfo.users, which stays when the dialog is closed
    shown,       \* the dialog is open
    memberCalls, \* the calls under way; n: the save they are of
    saves, elsewhere,
    flips,       \* whom the user put in or took out since the last save
    wanted,      \* the members by what was saved here and done elsewhere
    calm         \* no save was answered amid the calls of another, none of its
                 \* calls met another owner's change of the same account, no
                 \* call failed, and no save came when the row had shown what
                 \* the form does not know, or still showed as done what the
                 \* other owner had undone

vars == <<belongs, row, form, shown, memberCalls, saves, elsewhere, flips, wanted, calm>>

Call(kind, u, n) == [kind |-> kind, u |-> u, n |-> n, served |-> FALSE, got |-> {}]

Changes == {"add", "remove"}

TypeOK ==
    /\ belongs \cup row \cup form \cup flips \cup wanted \subseteq Person
    /\ Me \in belongs \cap row /\ shown \in BOOLEAN /\ calm \in BOOLEAN
    /\ saves \in 0..MaxSaves /\ elsewhere \in 0..MaxElsewhere
    /\ memberCalls \subseteq
          [kind : Changes, u : Person, n : 0..saves, served : {FALSE}, got : {{}}] \cup
          [kind : {"put", "get"}, u : {Me}, n : 0..saves, served : BOOLEAN, got : SUBSET Person]

Init ==
    /\ belongs \in {B \in SUBSET Person : Me \in B}
    /\ row = belongs /\ form = belongs /\ wanted = belongs
    /\ shown = FALSE /\ memberCalls = {} /\ flips = {}
    /\ saves = 0 /\ elsewhere = 0 /\ calm = TRUE

Toggled(S, u) == IF u \in S THEN S \ {u} ELSE S \cup {u}

-----------------------------------------------------------------------------
(* The dialog.                                                             *)

Open ==
    /\ ~shown /\ shown' = TRUE
    /\ UNCHANGED <<belongs, row, form, memberCalls, saves, elsewhere, flips, wanted, calm>>

Cancel ==
    /\ shown /\ shown' = FALSE
    /\ UNCHANGED <<belongs, row, form, memberCalls, saves, elsewhere, flips, wanted, calm>>

(* addUsers, which does not offer the account itself, and                  *)
(* deleteUserConfirm.  The bound on saves ends editing, too.               *)
Flip(u) ==
    /\ shown /\ saves < MaxSaves
    /\ u = Me => u \in form
    /\ form' = Toggled(form, u) /\ flips' = Toggled(flips, u)
    /\ UNCHANGED <<belongs, row, shown, memberCalls, saves, elsewhere, wanted, calm>>

(* The dialog stays open until all is saved, so this may come twice.       *)
Save ==
    /\ shown /\ saves < MaxSaves
    /\ saves' = saves + 1
    /\ memberCalls' = memberCalls \cup {Call("put", Me, saves')}
    /\ UNCHANGED <<belongs, row, form, shown, elsewhere, flips, wanted, calm>>

-----------------------------------------------------------------------------
(* Another owner.                                                          *)

ChangeElsewhere(u) ==
    /\ elsewhere < MaxElsewhere /\ u # Me
    /\ elsewhere' = elsewhere + 1
    /\ belongs' = Toggled(belongs, u)
    /\ wanted' = IF u \in belongs' THEN wanted \cup {u} ELSE wanted \ {u}
    /\ calm' = (calm /\ ~\E c \in memberCalls : c.kind \in Changes /\ c.u = u)
    /\ UNCHANGED <<row, form, shown, memberCalls, saves, flips>>

-----------------------------------------------------------------------------
(* The calls, served and answered.                                         *)

FinishUnread(n, others) == memberCalls' = others /\ shown' = FALSE

(* GetGroupById, and the dialog closes.                                    *)
Finish(n, others) == memberCalls' = others \cup {Call("get", Me, n)} /\ shown' = FALSE

(* syncUsersWithGroup.                                                     *)
Differences(n) ==
    {Call("add", u, n) : u \in form \ row} \cup {Call("remove", u, n) : u \in row \ form}

AnswerPut(c) ==
    /\ c.kind = "put"
    /\ LET others == memberCalls \ {c} IN
          /\ calm' = /\ calm /\ \A d \in others : d.kind = "put"
                     /\ (form \ row) \cup (row \ form) \subseteq flips
                     /\ \A u \in flips : (u \in form <=> u \in row) => (u \in row <=> u \in belongs)
          /\ IF Differences(c.n) = {} THEN Finish(c.n, others)
             ELSE memberCalls' = others \cup Differences(c.n) /\ shown' = shown
    /\ wanted' = (wanted \ flips) \cup (form \cap flips) /\ flips' = {}
    /\ UNCHANGED <<belongs, row, form, saves, elsewhere>>

(* The only owner is not taken out.  Promise.all: the last answer of a     *)
(* save counts, if none of its calls failed.                               *)
ServeChange(c) ==
    /\ c.kind \in Changes /\ ~(c.kind = "remove" /\ c.u = Me)
    /\ belongs' = IF c.kind = "add" THEN belongs \cup {c.u} ELSE belongs \ {c.u}
    /\ LET others == memberCalls \ {c} IN
          IF c.n # 0 /\ ~\E d \in others : d.n = c.n
          THEN Finish(c.n, others)
          ELSE memberCalls' = others /\ shown' = shown
    /\ UNCHANGED <<row, form, saves, elsewhere, flips, wanted, calm>>

ServeGet(c) ==
    /\ c.kind = "get" /\ ~c.served
    /\ memberCalls' = (memberCalls \ {c}) \cup {[c EXCEPT !.served = TRUE, !.got = belongs]}
    /\ UNCHANGED <<belongs, row, form, shown, saves, elsewhere, flips, wanted, calm>>

AnswerGet(c) ==
    /\ c.kind = "get" /\ c.served
    /\ row' = c.got /\ memberCalls' = memberCalls \ {c}
    /\ UNCHANGED <<belongs, form, shown, saves, elsewhere, flips, wanted, calm>>

(* A save one of whose calls fails is over for the dialog, which stays     *)
(* open; its other calls go on.                                            *)
Fail(c) ==
    /\ ~c.served /\ calm' = FALSE
    /\ memberCalls' = {IF d.n = c.n THEN [d EXCEPT !.n = 0] ELSE d : d \in memberCalls \ {c}}
    /\ UNCHANGED <<belongs, row, form, shown, saves, elsewhere, flips, wanted>>

Next ==
    \/ Open \/ Cancel \/ Save
    \/ \E u \in Person : Flip(u) \/ ChangeElsewhere(u)
    \/ \E c \in memberCalls :
          AnswerPut(c) \/ ServeChange(c) \/ ServeGet(c) \/ AnswerGet(c) \/ Fail(c)

-----------------------------------------------------------------------------

(* At rest the group has the members that were chosen here and elsewhere:  *)
(* two saves of one form do not undo each other, and who was put in or     *)
(* taken out elsewhere stays so until the row has shown it - from then on  *)
(* the form, which keeps its copy, would undo it with the next save.  What *)
(* the user changes to what the row shows already is not sent, and comes   *)
(* true only if the row is not behind the server.                          *)
MembersAsChosen == calm /\ memberCalls = {} => belongs = wanted
=============================================================================
