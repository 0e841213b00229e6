-------------------------- MODULE EvaluationGroups ---------------------------
(***************************************************************************)
(* The groups of an evaluation, as its edit dialog changes them            *)
(* (EditEvaluationModal.vue, opened from LoadFileList.vue or               *)
(* EvaluationInfo.vue): the dialog is made when it is opened and gone when *)
(* it is closed, saves by one call for each group that comes or goes, and  *)
(* waits only for the call that edits the evaluation itself.               *)
(***************************************************************************)
EXTENDS FiniteSets, Naturals

CONSTANTS
    Group,        \* the groups of the account, which the picker offers
    NoDialog,
    MaxUpdates    \* bound on the saves

VARIABLES
    linked,       \* the groups the evaluation is in, on the server
    listed,       \* active.groups: those the row of the list shows
    dialog,       \* originalGroups, and the groups chosen
    groupCalls,   \* the calls under way
    updates,      \* saves so far
    asked,        \* the groups the evaluation should be in by what was saved
    clear         \* no call on a group met another on it, and none failed

vars == <<linked, listed, dialog, groupCalls, updates, asked, clear>>

(* groups holds objects: those of originalGroups that are kept, and those  *)
(* picked from myGroups, which are other objects also for a group that was *)
(* there.                                                                  *)
Dialog == [original : SUBSET Group, kept : SUBSET Group, picked : SUBSET Group]

Call(kind, g, n) == [kind |-> kind, g |-> g, n |-> n, served |-> FALSE, got |-> {}]

AnyGroup == CHOOSE g \in Group : TRUE

Changes == {"link", "unlink"}

TypeOK ==
    /\ linked \subseteq Group /\ listed \subseteq Group /\ asked \subseteq Group
    /\ dialog \in Dialog \cup {NoDialog}
    /\ updates \in 0..MaxUpdates /\ clear \in BOOLEAN
    /\ groupCalls \subseteq
          [kind : Changes, g : Group, n : 1..updates, served : {FALSE}, got : {{}}] \cup
          [kind : {"edit", "read"}, g : {AnyGroup}, n : 1..updates,
           served : BOOLEAN, got : SUBSET Group]

Init ==
    /\ linked \in SUBSET Group /\ listed = linked /\ asked = linked
    /\ dialog = NoDialog /\ groupCalls = {} /\ updates = 0 /\ clear = TRUE

-----------------------------------------------------------------------------

(* editItem, mounted.                                                      *)
Open ==
    /\ dialog = NoDialog
    /\ dialog' = [original |-> listed, kept |-> listed, picked |-> {}]
    /\ UNCHANGED <<linked, listed, groupCalls, updates, asked, clear>>

(* A click on a group in the picker or on its chip.                        *)
Toggle(g) ==
    /\ dialog # NoDialog /\ updates < MaxUpdates
    /\ dialog' = IF g \in dialog.kept THEN [dialog EXCEPT !.kept = @ \ {g}]
                 ELSE IF g \in dialog.picked THEN [dialog EXCEPT !.picked = @ \ {g}]
                 ELSE [dialog EXCEPT !.picked = @ \cup {g}]
    /\ UNCHANGED <<linked, listed, groupCalls, updates, asked, clear>>

Cancel ==
    /\ dialog # NoDialog /\ dialog' = NoDialog
    /\ UNCHANGED <<linked, listed, groupCalls, updates, asked, clear>>

RemovedUnpicked(d) == d.original \ d.picked

Removed(d) == d.original \ d.kept

(* No two calls on one group are under way.                                *)
Apart(calls) ==
    \A c, d \in calls : c.kind \in Changes /\ d.kind \in Changes /\ c.g = d.g => c = d

(* update and updateGroups, which compares objects.                        *)
UpdateEvaluation ==
    /\ dialog # NoDialog /\ updates < MaxUpdates
    /\ updates' = updates + 1
    /\ groupCalls' = groupCalls
          \cup {Call("edit", AnyGroup, updates')}
          \cup {Call("link", g, updates') : g \in dialog.picked}
          \cup {Call("unlink", g, updates') : g \in Removed(dialog)}
    /\ LET chosen == dialog.kept \cup dialog.picked IN
          asked' = (asked \ (dialog.original \ chosen)) \cup (chosen \ dialog.original)
    /\ clear' = (clear /\ Apart(groupCalls'))
    /\ dialog' = NoDialog
    /\ UNCHANGED <<linked, listed>>

-----------------------------------------------------------------------------

(* Nobody waits for the answer to a change.                                *)
ServeChange(c) ==
    /\ c.kind \in Changes
    /\ linked' = IF c.kind = "link" THEN linked \cup {c.g} ELSE linked \ {c.g}
    /\ groupCalls' = groupCalls \ {c}
    /\ UNCHANGED <<listed, dialog, updates, asked, clear>>

(* The answer to an edit comes without the groups; they are read then.     *)
AnswerEdit(c) ==
    /\ c.kind = "edit" /\ listed' = {}
    /\ groupCalls' = (groupCalls \ {c}) \cup {Call("read", AnyGroup, c.n)}
    /\ UNCHANGED <<linked, dialog, updates, asked, clear>>

ServeRead(c) ==
    /\ c.kind = "read" /\ ~c.served
    /\ groupCalls' = (groupCalls \ {c}) \cup {[c EXCEPT !.served = TRUE, !.got = linked]}
    /\ UNCHANGED <<linked, listed, dialog, updates, asked, clear>>

AnswerRead(c) ==
    /\ c.kind = "read" /\ c.served
    /\ listed' = c.got /\ groupCalls' = groupCalls \ {c}
    /\ UNCHANGED <<linked, dialog, updates, asked, clear>>

(* Nobody looks at what fails.                                             *)
Fail(c) ==
    /\ ~c.served
    /\ groupCalls' = groupCalls \ {c}
    /\ clear' = (clear /\ c.kind \notin Changes)
    /\ UNCHANGED <<linked, listed, dialog, updates, asked>>

Next ==
    \/ Open \/ Cancel \/ UpdateEvaluation
    \/ \E g \in Group : Toggle(g)
    \/ \E c \in groupCalls :
          ServeChange(c) \/ AnswerEdit(c) \/ ServeRead(c) \/ AnswerRead(c) \/ Fail(c)

-----------------------------------------------------------------------------

(* When no change is under way the evaluation is in the groups that were   *)
(* asked for, however late the row of the list is brought up to date and   *)
(* whatever the dialog, opened on an old row, compares with: unless a call *)
(* failed, or met another on the same group.  The calls of one save meet   *)
(* where a group was taken out and picked again.                           *)
GroupsAsChosen ==
    clear /\ (\A c \in groupCalls : c.kind \notin Changes) => linked = asked
=============================================================================
