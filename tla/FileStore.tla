----------------------------- MODULE FileStore ------------------------------
(***************************************************************************)
(* What one browser page of the client holds of evaluations: the list of   *)
(* those on the server (store/evaluations.ts), the files that are loaded   *)
(* (store/data_store.ts), the selected ones (store/data_filters.ts) and    *)
(* the ids its URL lists (router.ts).                                      *)
(*                                                                         *)
(* A call is sent, served and answered in three steps; calls are served    *)
(* and answered in any order.  A file's from is the evaluation it holds,   *)
(* its db the id it has recorded.                                          *)
(***************************************************************************)
EXTENDS ClientLists, Sublists

CONSTANTS
    Evaluation,  \* ids the server may hand out, used once
    Profile,     \* those whose data is a profile, the others are executions
    None,
    MaxCalls,    \* bound on the calls sent
    MaxFlight,   \* bound on those in flight at once
    MaxFiles     \* bound on the files ever loaded

VARIABLES
    saved, born,   \* the evaluations on the server, and all it ever had
    list, listed,  \* allEvaluations, and whether a whole list was taken up
    dialog,        \* activeItem of the delete dialog
    execs, profs,  \* executionFiles and profileFiles
    selE, selP,    \* selectedEvaluationIds and selectedProfileIds
    saving,        \* the files whose save button is disabled
    shown,         \* a page that shows files, whose URL lists ids
    url, been,     \* the ids in the URL, and the URLs the back button knows
    calls, sent,   \* the calls that are not answered, and how many were sent
    made,          \* how many files were loaded
    twice,         \* ids asked for while they were under way already
    failed,        \* ids whose load failed
    calm           \* so far no call met another that it could disturb, no
                   \* row was replaced under its dialog, nothing failed

server == <<saved, born>>
files == <<execs, profs, made>>
chosen == <<selE, selP>>
route == <<shown, url, been>>
wire == <<calls, sent, twice>>
vars == <<saved, born, list, listed, dialog, execs, profs, selE, selP, saving, shown, url,
          been, calls, sent, made, twice, failed, calm>>

-----------------------------------------------------------------------------
(* The files.                                                              *)

LoadedFile(uid, from, db) == [uid |-> uid, from |-> from, db |-> db, seen |-> TRUE]

Uids(fs) == {fs[i].uid : i \in DOMAIN fs}

All == execs \o profs

(* loadedDatabaseIds.  db is no reactive property of a profile file, so    *)
(* the getter may have missed it; seen says whether it did.                *)
LoadedIds ==
    LET known == Pick(All, {i \in DOMAIN All : All[i].db # None /\ All[i].seen}) IN
       [i \in DOMAIN known |-> known[i].db]

Refreshed(fs) == [i \in DOMAIN fs |-> [fs[i] EXCEPT !.seen = TRUE]]

Without(fs, uid) == Pick(Refreshed(fs), {i \in DOMAIN fs : fs[i].uid # uid})

AddExecution(f) ==
    /\ made < MaxFiles /\ made' = made + 1
    /\ execs' = Append(Refreshed(execs), f) /\ profs' = Refreshed(profs)

AddProfile(f) ==
    /\ made < MaxFiles /\ made' = made + 1
    /\ profs' = Append(Refreshed(profs), f) /\ execs' = Refreshed(execs)

(* loadText: an execution remembers the id it was loaded from, a profile   *)
(* does not.  The new file is toggled, which selects it.                   *)
LoadText(kind, from) ==
    IF kind = "profile"
    THEN AddProfile(LoadedFile(made + 1, from, None))
         /\ selP' = selP \cup {made + 1} /\ selE' = selE
    ELSE AddExecution(LoadedFile(made + 1, from, from))
         /\ selE' = selE \cup {made + 1} /\ selP' = selP

KindOf(e) == IF e \in Profile THEN "profile" ELSE "exec"

-----------------------------------------------------------------------------
(* The calls.                                                              *)

New(n, kind, e, uid, batch, nav) ==
    [n |-> n, kind |-> kind, id |-> e, uid |-> uid, batch |-> batch, nav |-> nav,
     state |-> "sent", got |-> {}]

Changes == {"save", "update", "delete"}

Meets(kind, others) == \E c \in others : kind \in Changes \/ c.kind \in Changes

Send(kind, e, uid, others) ==
    /\ sent < MaxCalls /\ Cardinality(others) < MaxFlight
    /\ sent' = sent + 1
    /\ calls' = others \cup {New(sent + 1, kind, e, uid, 0, FALSE)}
    /\ calm' = (calm /\ ~Meets(kind, others))

(* Ids that are on their way into the files: loads, and saves the server   *)
(* has done.                                                               *)
UnderWay(others) ==
    {c.id : c \in {d \in others : d.kind = "load" \/ (d.kind = "save" /\ d.state = "served")}}

(* Mutant of LoadResults: what is loaded is loaded again.                  *)
LoadResultsAgain(ids, nav, others) ==
    /\ sent + Len(ids) <= MaxCalls
    /\ Cardinality(others) + Len(ids) <= MaxFlight
    /\ sent' = sent + Len(ids)
    /\ calls' = others \cup {New(sent + i, "load", ids[i], 0, sent + 1, nav) : i \in DOMAIN ids}
    /\ twice' = twice \cup (UnderWay(others) \cap {ids[i] : i \in DOMAIN ids})
    /\ calm' = (calm /\ ~(ids # <<>> /\ Meets("load", others)))

(* load_results: one call for every id that is not loaded, all at once.    *)
LoadResults(ids, nav, others) ==
    LET known == LoadedIds'
        new == Pick(ids, {i \in DOMAIN ids : ids[i] \notin ToSet(known)})
        again == {e \in Evaluation : \E i, j \in DOMAIN new : i # j /\ new[i] = e /\ new[j] = e} IN
       /\ sent + Len(new) <= MaxCalls
       /\ Cardinality(others) + Len(new) <= MaxFlight
       /\ sent' = sent + Len(new)
       /\ calls' = others \cup {New(sent + i, "load", new[i], 0, sent + 1, nav) : i \in DOMAIN new}
       /\ twice' = twice \cup again \cup (UnderWay(others) \cap {new[i] : i \in DOMAIN new})
       /\ calm' = (calm /\ ~(new # <<>> /\ Meets("load", others)))

(* Mutant of Visit: the ids the URL lists are not loaded.                  *)
VisitOnly(ids, others) ==
    /\ LoadResults(<<>>, FALSE, others)
    /\ url' = ids /\ shown' = TRUE /\ been' = been \cup {url'}

(* beforeEach for a page that lists ids: the ids of the path are loaded,   *)
(* and the path gives way to the ids that are loaded, if there are any.    *)
Visit(ids, others) ==
    /\ LoadResults(ids, FALSE, others)
    /\ url' = IF LoadedIds' = <<>> THEN ids ELSE LoadedIds'
    /\ shown' = TRUE /\ been' = been \cup {url'}

(* got_files and save_to_database visit the page of what is loaded, which  *)
(* leaves beforeEach nothing to load.                                      *)
GoToLoaded ==
    url' = LoadedIds' /\ shown' = TRUE /\ been' = been \cup {url'}

-----------------------------------------------------------------------------

Init ==
    /\ saved \in SUBSET Evaluation /\ born = saved
    /\ list = <<>> /\ listed = FALSE /\ dialog = None
    /\ execs = <<>> /\ profs = <<>> /\ selE = {} /\ selP = {} /\ saving = {}
    /\ shown = FALSE /\ url = <<>> /\ been = {}
    /\ calls = {} /\ sent = 0 /\ made = 0
    /\ twice = {} /\ failed = {} /\ calm = TRUE

(* A file from disk, from S3 or a sample: loaded and selected.             *)
AddLocal ==
    /\ \E kind \in {"exec", "profile"} : LoadText(kind, None)
    /\ GoToLoaded
    /\ UNCHANGED <<listed, server, list, dialog, saving, wire, failed, calm>>

(* Mutant of RemoveFile: the selection keeps the file.                     *)
RemoveFileKeepsChoice(f) ==
    /\ shown
    /\ execs' = Without(execs, f.uid) /\ profs' = Without(profs, f.uid)
    /\ Visit(<<>>, calls)
    /\ UNCHANGED <<listed, server, list, dialog, saving, made, failed, chosen>>

(* remove_file.                                                            *)
RemoveFile(f) ==
    /\ shown
    /\ selE' = selE \ {f.uid} /\ selP' = selP \ {f.uid}
    /\ execs' = Without(execs, f.uid) /\ profs' = Without(profs, f.uid)
    /\ Visit(<<>>, calls)
    /\ UNCHANGED <<listed, server, list, dialog, saving, made, failed>>

-----------------------------------------------------------------------------
(* The selection.                                                          *)

Toggle(sel, uid) == IF uid \in sel THEN sel \ {uid} ELSE sel \cup {uid}

Trinary(sel, fs) ==
    IF sel = {} THEN "Off" ELSE IF Cardinality(sel) = Len(fs) THEN "On" ELSE "Mixed"

ToggleAll(sel, fs) == IF Trinary(sel, fs) = "On" THEN {} ELSE sel \cup Uids(fs)

SelectFile(f) ==
    /\ shown
    /\ IF f.uid \in Uids(execs)
       THEN selE' \in {Toggle(selE, f.uid), {f.uid}} /\ selP' = selP
       ELSE selP' \in {Toggle(selP, f.uid), {f.uid}} /\ selE' = selE
    /\ UNCHANGED <<listed, server, list, dialog, files, saving, route, wire, failed, calm>>

SelectAll ==
    /\ shown
    /\ \/ selE' = ToggleAll(selE, execs) /\ selP' = selP
       \/ selP' = ToggleAll(selP, profs) /\ selE' = selE
    /\ UNCHANGED <<listed, server, list, dialog, files, saving, route, wire, failed, calm>>

-----------------------------------------------------------------------------
(* Pages.                                                                  *)

(* A link to the results without ids, or the back button.                  *)
ClickResults ==
    /\ UNCHANGED <<listed, server, list, dialog, files, chosen, saving, failed>>
    /\ \E ids \in been \cup {<<>>} : Visit(ids, calls)

(* To a page without files: what belongs to the rows of the left page goes *)
(* with it, the stores stay.                                               *)
GoAway ==
    /\ shown /\ shown' = FALSE
    /\ url' = <<>> /\ saving' = {} /\ dialog' = None
    /\ UNCHANGED <<listed, server, list, files, chosen, been, wire, failed, calm>>

(* The browser loads the page anew: only the URL and the history are left. *)
Reload ==
    /\ shown
    /\ execs' = <<>> /\ profs' = <<>> /\ selE' = {} /\ selP' = {}
    /\ list' = <<>> /\ listed' = FALSE /\ dialog' = None /\ saving' = {}
    /\ Visit(url, {})
    /\ UNCHANGED <<server, made, failed>>

-----------------------------------------------------------------------------
(* The list of evaluations.                                                *)

OpenList ==
    /\ Send("list", None, 0, calls)
    /\ UNCHANGED <<listed, server, list, dialog, files, chosen, saving, route, twice, failed>>

(* The selected rows are loaded; when all answers are in, got-files.       *)
LoadFromList ==
    /\ UNCHANGED <<listed, server, list, dialog, files, chosen, saving, failed>>
    /\ \E S \in SUBSET Ids(list) \ {{}} :
          /\ LoadResults(SetToSeq(S), TRUE, calls)
          /\ IF calls' = calls THEN GoToLoaded ELSE UNCHANGED route

OpenDelete ==
    /\ \E i \in DOMAIN list : dialog' = list[i]
    /\ UNCHANGED <<listed, server, list, files, chosen, saving, route, wire, failed, calm>>

CancelDelete ==
    /\ dialog # None /\ dialog' = None
    /\ UNCHANGED <<listed, server, list, files, chosen, saving, route, wire, failed, calm>>

(* deleteEvaluation takes the row out of the list before it asks.          *)
ConfirmDelete ==
    /\ dialog # None /\ dialog' = None
    /\ list' = SpliceFound(list, dialog)
    /\ sent < MaxCalls /\ Cardinality(calls) < MaxFlight
    /\ sent' = sent + 1
    /\ calls' = calls \cup {New(sent + 1, "delete", dialog.id, 0, 0, FALSE)}
    /\ calm' = (calm /\ ~Meets("delete", calls) /\ IndexOf(list, dialog) # 0)
    /\ UNCHANGED <<listed, server, files, chosen, saving, route, twice, failed>>

Edit ==
    /\ \E i \in DOMAIN list : Send("update", list[i].id, 0, calls)
    /\ UNCHANGED <<listed, server, list, dialog, files, chosen, saving, route, twice, failed>>

SaveFile(f) ==
    /\ shown /\ f.db = None /\ f.uid \notin saving
    /\ Send("save", None, f.uid, calls)
    /\ saving' = saving \cup {f.uid}
    /\ UNCHANGED <<listed, server, list, dialog, files, chosen, route, twice, failed>>

-----------------------------------------------------------------------------
(* The server.                                                             *)

Put(c, d) == calls' = (calls \ {c}) \cup {d}

Served(c) == Put(c, [c EXCEPT !.state = "served"])

Refused(c) == Put(c, [c EXCEPT !.state = "failed"]) /\ calm' = FALSE

KindOfFile(uid) == IF uid \in Uids(profs) THEN "profile" ELSE "exec"

ServeList(c) ==
    /\ c.state = "sent" /\ c.kind = "list"
    /\ Put(c, [c EXCEPT !.state = "served", !.got = saved])
    /\ UNCHANGED <<listed, server, list, dialog, files, chosen, saving, route, sent, twice, failed, calm>>

(* Reading, updating and deleting an evaluation that is gone is refused.   *)
ServeOne(c) ==
    /\ c.state = "sent" /\ c.kind \in {"load", "reread", "update", "delete"}
    /\ IF c.id \in saved THEN Served(c) /\ calm' = calm ELSE Refused(c)
    /\ saved' = IF c.kind = "delete" THEN saved \ {c.id} ELSE saved
    /\ UNCHANGED <<listed, born, list, dialog, files, chosen, saving, route, sent, twice, failed>>

ServeSave(c) ==
    /\ c.state = "sent" /\ c.kind = "save"
    /\ \/ \E e \in Evaluation \ born :
             /\ KindOf(e) = KindOfFile(c.uid)
             /\ saved' = saved \cup {e} /\ born' = born \cup {e}
             /\ Put(c, [c EXCEPT !.state = "served", !.id = e]) /\ calm' = calm
       \/ Refused(c) /\ UNCHANGED server
    /\ UNCHANGED <<list, listed, dialog, files, chosen, saving, route, sent, twice, failed>>

-----------------------------------------------------------------------------
(* The answers.                                                            *)

(* SAVE_EVALUTION: the row of that id is replaced by a new object.         *)
SaveEvaluation(e, n) ==
    LET i == IndexOfId(list, e) IN
       /\ list' = IF i = 0 THEN Append(list, [id |-> e, by |-> n])
                  ELSE [list EXCEPT ![i] = [id |-> e, by |-> n]]

AnswerList(c) ==
    /\ c.state = "served" /\ c.kind = "list"
    /\ listed' = TRUE
    /\ LET ids == SetToSeq(c.got) IN
          list' = [i \in DOMAIN ids |-> [id |-> ids[i], by |-> c.n]]
    /\ calls' = calls \ {c}
    /\ UNCHANGED <<server, dialog, files, chosen, saving, route, sent, twice, failed, calm>>

LastOfBatch(c) == ~\E d \in calls \ {c} : d.batch = c.batch

(* The load that is answered last of those asked for together goes to the  *)
(* page of what is loaded, where they were picked from the list.           *)
AnswerLoad(c) ==
    /\ c.state \in {"served", "failed"} /\ c.kind = "load"
    /\ IF c.state = "served"
       THEN LoadText(KindOf(c.id), c.id) /\ SaveEvaluation(c.id, c.n) /\ failed' = failed
       ELSE UNCHANGED <<files, chosen, list>> /\ failed' = failed \cup {c.id}
    /\ IF c.nav /\ LastOfBatch(c) THEN GoToLoaded ELSE UNCHANGED route
    /\ calls' = calls \ {c}
    /\ UNCHANGED <<listed, server, dialog, saving, sent, twice, calm>>

(* The first answer to an edit is read back once more.                     *)
AnswerOne(c) ==
    /\ c.state = "served" /\ c.kind \in {"update", "reread"}
    /\ SaveEvaluation(c.id, c.n)
    /\ IF c.kind = "update"
       THEN Send("reread", c.id, 0, calls \ {c})
       ELSE calls' = calls \ {c} /\ UNCHANGED <<sent, calm>>
    /\ UNCHANGED <<listed, server, dialog, files, chosen, saving, route, twice, failed>>

AnswerDelete(c) ==
    /\ c.state = "served" /\ c.kind = "delete"
    /\ calls' = calls \ {c}
    /\ UNCHANGED <<listed, server, list, dialog, files, chosen, saving, route, sent, twice, failed, calm>>

Recorded(fs, uid, e, seen) ==
    [i \in DOMAIN fs |-> IF fs[i].uid = uid THEN [fs[i] EXCEPT !.from = e, !.db = e, !.seen = seen]
                         ELSE fs[i]]

(* save_to_database: the file records its id, which the getter may miss    *)
(* for a profile; the list gets the row by reading it back.                *)
AnswerSave(c) ==
    /\ c.state = "served" /\ c.kind = "save"
    /\ \E seen \in BOOLEAN :
          /\ c.uid \in Uids(execs) => seen
          /\ execs' = Recorded(execs, c.uid, c.id, TRUE)
          /\ profs' = Recorded(profs, c.uid, c.id, seen)
    /\ saving' = saving \ {c.uid}
    /\ Send("reread", c.id, 0, calls \ {c})
    /\ IF shown THEN GoToLoaded ELSE UNCHANGED route
    /\ UNCHANGED <<listed, server, list, dialog, chosen, made, twice, failed>>

AnswerFailure(c) ==
    /\ c.state = "failed" /\ c.kind # "load"
    /\ calls' = calls \ {c}
    /\ saving' = IF c.kind = "save" THEN saving \ {c.uid} ELSE saving
    /\ UNCHANGED <<listed, server, list, dialog, files, chosen, route, sent, twice, failed, calm>>

Handle(c) ==
    \/ ServeList(c) \/ ServeOne(c) \/ ServeSave(c)
    \/ AnswerList(c) \/ AnswerLoad(c) \/ AnswerOne(c)
    \/ AnswerDelete(c) \/ AnswerSave(c) \/ AnswerFailure(c)

Next ==
    \/ AddLocal \/ SelectAll \/ ClickResults \/ GoAway \/ Reload
    \/ OpenList \/ LoadFromList \/ OpenDelete \/ CancelDelete \/ ConfirmDelete \/ Edit
    \/ \E i \in DOMAIN All : RemoveFile(All[i]) \/ SelectFile(All[i]) \/ SaveFile(All[i])
    \/ \E c \in calls : Handle(c)

Spec == Init /\ [][Next]_vars

-----------------------------------------------------------------------------

FileRecord ==
    [uid : 1..MaxFiles, from : Evaluation \cup {None}, db : Evaluation \cup {None},
     seen : BOOLEAN]

ListRow == [id : Evaluation, by : 1..MaxCalls]

TypeOK ==
    /\ saved \subseteq born /\ born \subseteq Evaluation
    /\ list \in Seq(ListRow) /\ dialog \in ListRow \cup {None}
    /\ execs \in Seq(FileRecord) /\ profs \in Seq(FileRecord)
    /\ Cardinality(Uids(All)) = Len(All) /\ made \in 0..MaxFiles
    /\ saving \subseteq 1..MaxFiles
    /\ shown \in BOOLEAN /\ url \in Seq(Evaluation) /\ been \subseteq Seq(Evaluation)
    /\ sent \in 0..MaxCalls /\ \A c \in calls : c.n \in 1..sent
    /\ twice \subseteq Evaluation /\ failed \subseteq Evaluation /\ calm \in BOOLEAN

(* A selection names loaded files of its kind only, so that "all selected" *)
(* in the sidebar means that all are, whatever is loaded, removed and      *)
(* selected meanwhile.                                                     *)
SelectionHonest ==
    /\ selE \subseteq Uids(execs) /\ selP \subseteq Uids(profs)
    /\ Trinary(selE, execs) = "On" => selE = Uids(execs)
    /\ Trinary(selP, profs) = "On" => selP = Uids(profs)

(* An execution of the database is loaded twice only where it was asked    *)
(* for while it was under way: what is loaded is looked at before the      *)
(* calls, not when their answers come.                                     *)
LoadedOnce ==
    \A i, j \in DOMAIN execs :
        i # j /\ execs[i].db = execs[j].db => execs[i].db \in twice \cup {None}

(* Each id the URL lists is loaded, or under way, or its load failed.      *)
UrlCovered ==
    \A i \in DOMAIN url :
        \/ url[i] \in failed
        \/ \E j \in DOMAIN All : All[j].from = url[i]
        \/ \E c \in calls : c.kind = "load" /\ c.id = url[i]

(* At rest, and where no calls met and none failed, the list shows the     *)
(* evaluations of the server, each once.                                   *)
ListRight ==
    calm /\ calls = {} /\ listed =>
        Ids(list) = saved /\ Len(list) = Cardinality(Ids(list))

(* The comment in beforeEach, router.ts:102: the URL of a page that lists  *)
(* ids is up to date with the files loaded from the database, if any are.  *)
(* At rest, and where no load failed.                                      *)
UrlUpToDate ==
    shown /\ calls = {} /\ failed = {} /\ LoadedIds # <<>> =>
        ToSet(url) = ToSet(LoadedIds)
=============================================================================
