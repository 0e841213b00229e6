----------------------------- MODULE GroupStore -----------------------------
(***************************************************************************)
(* The group lists of the client (store/groups.ts) and the two dialogs     *)
(* that change them (GroupManagement.vue, GroupModal.vue), for one account *)
(* in one browser page.                                                    *)
(*                                                                         *)
(* A call is sent, served and answered in three steps, and calls are       *)
(* served and answered in any order.  The server answers with what it      *)
(* holds when it serves; ver counts what was changed in a group.           *)
(***************************************************************************)
EXTENDS ClientLists, FiniteSets

CONSTANTS
    Group,     \* ids the server may hand out, used once
    Mine,      \* those this account owns; the others are public
    NoDialog,
    MaxCalls,  \* bound on the calls a page sends
    MaxFlight, \* bound on those in flight at once
    MaxVer     \* bound on the changes of a group

VARIABLES
    there,    \* the groups on the server
    ver,      \* ver[g]: changes of group g, 0 before it is created
    all, my,  \* allGroups and myGroups
    dialog,   \* editedGroup of the delete dialog
    calls,    \* the calls that are not answered
    sent,     \* how many calls were sent
    fetches,  \* how often the lists were asked for
    calm,     \* so far no call met another that it could disturb, no list was
              \* replaced under an open dialog, nothing failed
    deleted   \* a group was deleted from here

server == <<there, ver>>
page == <<all, my, dialog>>
history == <<fetches, calm, deleted>>
vars == <<there, ver, all, my, dialog, calls, sent, fetches, calm, deleted>>

Row == [id : Group, by : 1..MaxCalls, ver : 1..MaxVer]

Kinds == {"all", "my", "one", "save", "sync", "delete"}

Call == [n : 1..MaxCalls, kind : Kinds, id : Group, obj : 0..MaxCalls,
         state : {"sent", "served", "failed"}, got : [Group -> 0..MaxVer]]

TypeOK ==
    /\ there \subseteq Group /\ ver \in [Group -> 0..MaxVer]
    /\ all \in Seq(Row) /\ my \in Seq(Row)
    /\ dialog \in [id : Group, by : 1..MaxCalls] \cup {NoDialog}
    /\ calls \subseteq Call /\ \A c, d \in calls : c.n = d.n => c = d
    /\ sent \in 0..MaxCalls /\ fetches \in 0..MaxCalls
    /\ calm \in BOOLEAN /\ deleted \in BOOLEAN

-----------------------------------------------------------------------------

Nothing == [g \in Group |-> 0]

AnyGroup == CHOOSE g \in Group : TRUE

New(n, kind, g, obj) ==
    [n |-> n, kind |-> kind, id |-> g, obj |-> obj, state |-> "sent", got |-> Nothing]

Reads == {"all", "my", "one"}
Changes == {"save", "sync", "delete"}

(* A call of this kind would be in flight together with one whose effect   *)
(* it may or may not see.                                                  *)
Meets(kind, others) ==
    \E c \in others : \/ kind \in Changes
                      \/ c.kind \in Changes

Send(kind, g, obj, others) ==
    /\ sent < MaxCalls /\ Cardinality(others) < MaxFlight
    /\ sent' = sent + 1
    /\ calls' = others \cup {New(sent + 1, kind, g, obj)}
    /\ calm' = (calm /\ ~Meets(kind, others))

(* A fresh page: the store is empty, the server holds some groups.         *)
Init ==
    /\ there \in SUBSET Group
    /\ ver = [g \in Group |-> IF g \in there THEN 1 ELSE 0]
    /\ all = <<>> /\ my = <<>> /\ dialog = NoDialog
    /\ calls = {} /\ sent = 0
    /\ fetches = 0 /\ calm = TRUE /\ deleted = FALSE

(* FetchGroupData, after the account is known: two calls.                  *)
FetchGroupData ==
    /\ sent + 2 <= MaxCalls /\ Cardinality(calls) + 2 <= MaxFlight
    /\ calls' = calls \cup {New(sent + 1, "all", AnyGroup, 0), New(sent + 2, "my", AnyGroup, 0)}
    /\ sent' = sent + 2
    /\ fetches' = fetches + 1
    /\ calm' = (calm /\ ~Meets("all", calls))
    /\ UNCHANGED <<server, page, deleted>>

-----------------------------------------------------------------------------
(* The dialogs.                                                            *)

(* The trash icon of a row of the list of my groups.                       *)
OpenDelete ==
    /\ \E i \in DOMAIN my : dialog' = [id |-> my[i].id, by |-> my[i].by]
    /\ UNCHANGED <<server, all, my, calls, sent, history>>

CloseDeleteDialog ==
    /\ dialog # NoDialog /\ dialog' = NoDialog
    /\ UNCHANGED <<server, all, my, calls, sent, history>>

(* The dialog stays open until the answer, so confirming twice sends two.  *)
ConfirmDelete ==
    /\ dialog # NoDialog
    /\ Send("delete", dialog.id, dialog.by, calls)
    /\ UNCHANGED <<server, page, fetches, deleted>>

(* GroupModal.save: of a row it shows, or of a group to be created, whose  *)
(* id the server will choose.                                              *)
Save ==
    /\ \E g \in Ids(my) \cup {x \in Mine : ver[x] = 0 /\ ~\E c \in calls : c.id = x} :
          Send("save", g, 0, calls)
    /\ UNCHANGED <<server, page, fetches, deleted>>

-----------------------------------------------------------------------------
(* The server.                                                             *)

Held(G) == [g \in Group |-> IF g \in G THEN ver[g] ELSE 0]

Served(c, got) == calls' = (calls \ {c}) \cup {[c EXCEPT !.state = "served", !.got = got]}

Refused(c) ==
    /\ calls' = (calls \ {c}) \cup {[c EXCEPT !.state = "failed"]}
    /\ calm' = FALSE

ServeRead(c) ==
    /\ c.state = "sent" /\ c.kind \in Reads
    /\ LET asked == CASE c.kind = "all" -> Group [] c.kind = "my" -> Mine
                      [] OTHER -> {c.id} IN
          IF c.kind = "one" /\ c.id \notin there
          THEN Refused(c)
          ELSE Served(c, Held(there \cap asked)) /\ calm' = calm
    /\ UNCHANGED <<server, page, sent, fetches, deleted>>

(* POST or PUT of a group, and the membership changes after it: each is a  *)
(* change of the group; those of a group that is gone are refused.         *)
ServeChange(c) ==
    /\ c.state = "sent" /\ c.kind \in {"save", "sync"}
    /\ \/ /\ c.id \in there \/ ver[c.id] = 0
          /\ ver[c.id] < MaxVer
          /\ ver' = [ver EXCEPT ![c.id] = @ + 1]
          /\ there' = there \cup {c.id}
          /\ Served(c, [Nothing EXCEPT ![c.id] = ver[c.id] + 1])
          /\ calm' = calm
       \/ Refused(c) /\ UNCHANGED server
    /\ UNCHANGED <<page, sent, fetches, deleted>>

ServeDelete(c) ==
    /\ c.state = "sent" /\ c.kind = "delete"
    /\ IF c.id \in there
       THEN there' = there \ {c.id} /\ Served(c, Nothing) /\ calm' = calm
       ELSE Refused(c) /\ there' = there
    /\ UNCHANGED <<ver, page, sent, fetches, deleted>>

(* Another owner deletes a group.                                          *)
OtherDeletes ==
    /\ \E g \in there : there' = there \ {g}
    /\ calm' = FALSE
    /\ UNCHANGED <<ver, page, calls, sent, fetches, deleted>>

-----------------------------------------------------------------------------
(* The answers.                                                            *)

Rows(c) ==
    LET G == SetToSeq({g \in Group : c.got[g] > 0}) IN
       [i \in DOMAIN G |-> [id |-> G[i], by |-> c.n, ver |-> c.got[G[i]]]]

Row1(c) == [id |-> c.id, by |-> c.n, ver |-> c.got[c.id]]

(* Mutant of Put: a row that is there is not brought up to date.           *)
PutNew(s, r) == IF IndexOfId(s, r.id) = 0 THEN Append(s, r) ELSE s

(* Object.assign into the row of that id, or push.                         *)
Put(s, r) ==
    LET i == IndexOfId(s, r.id) IN
       IF i = 0 THEN Append(s, r) ELSE [s EXCEPT ![i].ver = r.ver]

(* UpdateGroup: the one object goes into both lists.                       *)
UpdateGroup(r) == my' = Put(my, r) /\ all' = Put(all, r)

AnswerRead(c) ==
    /\ c.state = "served" /\ c.kind \in Reads
    /\ CASE c.kind = "all" -> all' = Rows(c) /\ my' = my
         [] c.kind = "my"  -> my' = Rows(c) /\ all' = all
         [] OTHER          -> UpdateGroup(Row1(c))
    /\ calls' = calls \ {c}
    /\ calm' = (calm /\ ~(c.kind = "my" /\ dialog # NoDialog))
    /\ UNCHANGED <<server, dialog, sent, fetches, deleted>>

(* save waits for the answer, then for the membership changes (if members  *)
(* were added or removed in the dialog), then reads the group back.        *)
AnswerChange(c) ==
    /\ c.state = "served" /\ c.kind \in {"save", "sync"}
    /\ \E next \in {"sync", "one"} :
          /\ c.kind = "sync" => next = "one"
          /\ Send(next, c.id, 0, calls \ {c})
    /\ UNCHANGED <<server, page, fetches, deleted>>

(* Mutant of AnswerDelete: the row of my groups stays.                     *)
AnswerDeleteKeepsMine(c) ==
    /\ c.state = "served" /\ c.kind = "delete"
    /\ all' = SpliceFound(all, [id |-> c.id, by |-> c.obj])
    /\ calls' = calls \ {c}
    /\ dialog' = NoDialog
    /\ deleted' = TRUE
    /\ UNCHANGED <<server, my, sent, fetches, calm>>

(* DeleteGroup's then and deleteGroupConfirm's finally: the object the     *)
(* dialog was opened on is looked up in both lists.                        *)
AnswerDelete(c) ==
    /\ c.state = "served" /\ c.kind = "delete"
    /\ LET object == [id |-> c.id, by |-> c.obj] IN
          all' = SpliceFound(all, object) /\ my' = SpliceFound(my, object)
    /\ calls' = calls \ {c}
    /\ dialog' = NoDialog
    /\ deleted' = TRUE
    /\ UNCHANGED <<server, sent, fetches, calm>>

(* Only the delete dialog looks at a failure: it closes.                   *)
AnswerFailure(c) ==
    /\ c.state = "failed"
    /\ calls' = calls \ {c}
    /\ dialog' = IF c.kind = "delete" THEN NoDialog ELSE dialog
    /\ UNCHANGED <<server, all, my, sent, history>>

Next ==
    \/ FetchGroupData \/ OpenDelete \/ CloseDeleteDialog \/ ConfirmDelete \/ Save
    \/ OtherDeletes
    \/ \E c \in calls : \/ ServeRead(c) \/ ServeChange(c) \/ ServeDelete(c)
                        \/ AnswerRead(c) \/ AnswerChange(c) \/ AnswerDelete(c)
                        \/ AnswerFailure(c)

Spec == Init /\ [][Next]_vars

-----------------------------------------------------------------------------

Shown(s) == {<<s[i].id, s[i].ver>> : i \in DOMAIN s}

Held2(G) == {<<g, ver[g]>> : g \in there \cap G}

AtRest == calm /\ calls = {} /\ fetches > 0

(* When nothing is under way and no calls overlapped or failed on the way  *)
(* here, the list of my groups shows each group I own once, as the server  *)
(* holds it, whatever was created, edited, shared and deleted, and even    *)
(* though a deletion takes rows out by object while edits merge by id.     *)
OwnListRight ==
    AtRest => Shown(my) = Held2(Mine) /\ Len(my) = Cardinality(Ids(my))

(* The same of the list of all groups, as long as none was deleted here.   *)
AllListRight ==
    AtRest /\ ~deleted => Shown(all) = Held2(Group) /\ Len(all) = Cardinality(Ids(all))
=============================================================================
