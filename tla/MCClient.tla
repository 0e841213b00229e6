------------------------------ MODULE MCClient ------------------------------
(***************************************************************************)
(* Five parts of the client that share no state the properties are about,  *)
(* each checked on a small instance of its own: part says which of them a  *)
(* behaviour belongs to, the others stay in an initial state.              *)
(***************************************************************************)
EXTENDS ResultsView

CONSTANTS
    Evaluation, Profile, None, MaxCalls, MaxFlight, MaxFiles,     \* FileStore
    Group, Mine, NoDialog, MaxVer,                                \* GroupStore
    GroupCalls, GroupFlight,
    Loaded, ByTime, ProfileFile,                                  \* CompareView
    Scans                                                         \* Inspec

VARIABLES
    part,
    saved, born, list, listed, dialog, execs, profs, selE, selP, saving, shown, url, been,
    calls, sent, made, twice, failed, calm,
    there, ver, all, my, gdialog, gcalls, gsent, fetches, gcalm, deleted,
    compared, sought, startIndex, changedOnly, narrowed,
    input

fileVars == <<saved, born, list, listed, dialog, execs, profs, selE, selP, saving, shown, url,
              been, calls, sent, made, twice, failed, calm>>
groupVars == <<there, ver, all, my, gdialog, gcalls, gsent, fetches, gcalm, deleted>>
resultVars == vars
compareVars == <<compared, sought, startIndex, changedOnly, narrowed>>
partsVars == <<part, fileVars, groupVars, resultVars, compareVars, input>>

-----------------------------------------------------------------------------
(* Three reports: one profile; a profile with an overlay; two profiles     *)
(* that do not know each other.                                            *)

Result(s) == [status |-> s, backtrace |-> FALSE]

Ctl(id, results, impact, tags) ==
    [id |-> id, results |-> [i \in DOMAIN results |-> Result(results[i])],
     waived |-> FALSE, impact |-> impact, tags |-> tags]

Waive(c) == [c EXCEPT !.waived = TRUE]

Prof(name, parent, controls) == [name |-> name, parent |-> parent, controls |-> controls]

PlainReport == <<
    Prof("base", Orphan, <<
        Ctl("a", <<"passed">>, 7, {<<"AC", "2">>}),
        Ctl("b", <<"passed", "failed">>, 3, {<<"AC", "2", "1">>, <<"SI", "4">>}),
        Ctl("c", <<"passed">>, 0, {<<"SI", "4">>})>>)>>

OverlayReport == <<
    Prof("outer", Orphan, <<Ctl("a", <<>>, 7, {<<"AC", "2">>}), Ctl("c", <<>>, 5, {})>>),
    Prof("inner", "outer", <<
        Ctl("a", <<"failed">>, 7, {<<"AC", "2">>}),
        Waive(Ctl("b", <<"skipped">>, 5, {<<"SI", "4">>})),
        Ctl("c", <<"error">>, 10, {})>>)>>

SiblingReport == <<
    Prof("one", Orphan, <<Ctl("a", <<>>, 7, {<<"ZZ", "9">>})>>),
    Prof("two", Orphan, <<Ctl("a", <<"passed">>, 7, {<<"ZZ", "9">>}),
                          Ctl("b", <<"skipped">>, 5, {})>>)>>

ClientFiles == {"plain", "overlay", "sibling"}

ClientReport ==
    [f \in ClientFiles |->
        CASE f = "plain" -> PlainReport [] f = "overlay" -> OverlayReport
          [] f = "sibling" -> SiblingReport]

PageFiles == {"plain", "overlay"}

ComparedFiles == <<"plain", "overlay", "sibling">>

ComparedByTime == <<"plain", "sibling", "overlay">>

RowsMade == [f \in ClientFiles |-> Context(f, ClientReport[f])]

(* The value of RowsOf: a name for what TLC has computed once.             *)
ClientRows == RowsMade

NistTree ==
    {<<"AC">>, <<"AC", "1">>, <<"AC", "2">>, <<"SI">>, <<"SI", "4">>, <<"UM">>, <<"UM", "1">>}

Terms == {"a", "Failed"}

-----------------------------------------------------------------------------

(* Groups and evaluations are finite, there is a group to ask for, and     *)
(* what stands for no evaluation is none.                                  *)
ASSUME ClientAssumption ==
    /\ MaxVer \in Nat \ {0} /\ GroupCalls \in Nat /\ MaxCalls \in Nat /\ MaxFiles \in Nat
    /\ IsFiniteSet(Group) /\ Group # {} /\ Mine \subseteq Group
    /\ IsFiniteSet(Evaluation) /\ None \notin Evaluation

(* The evaluations that may be compared.                                   *)
Compared == ToSet(Loaded)

(* They are sorted, their rows finite, none of them is a profile alone or  *)
(* has the id that stands for all.                                         *)
ASSUME CompareAssumption ==
    /\ ByTime \in Seq(Compared) /\ ToSet(ByTime) = Compared
    /\ Compared \cap ProfileFile = {} /\ AnyValue \notin Compared
    /\ \A f \in Compared : IsFiniteSet(RowsOf[f])

(* What is read are reports whose profiles overlay each other in no circle *)
(* (the root of such a control would have no end).                         *)
ASSUME ScansAssumption == \A ev \in Scans : Scan(ev)

F == INSTANCE FileStore

G == INSTANCE GroupStore WITH
        dialog <- gdialog, calls <- gcalls, sent <- gsent, calm <- gcalm,
        MaxCalls <- GroupCalls, MaxFlight <- GroupFlight

C == INSTANCE CompareView WITH
        selected <- compared, term <- sought, File <- Compared

-----------------------------------------------------------------------------
(* Inputs of inspecjs: every way three profiles of two requirements can    *)
(* overlay each other; every control of at most two results; counts.       *)

Names == <<"p1", "p2", "p3">>

Held == {"no", "empty", "run"}

ControlsOf(x, y) ==
    LET one(id, h) == IF h = "no" THEN <<>>
                      ELSE <<Ctl(id, IF h = "run" THEN <<"passed">> ELSE <<>>, 5, {})>> IN
       one("x", x) \o one("y", y)

SmallEvaluations ==
    {ev \in {[p \in 1..3 |-> Prof(Names[p], par[p], ControlsOf(x[p], y[p]))] :
                par \in [1..3 -> {Orphan} \cup {Names[i] : i \in 1..3}],
                x \in [1..3 -> Held], y \in [1..3 -> {"no", "run"}]} : Acyclic(ev)}

SmallControls ==
    LET r == [status : {"passed", "failed", "skipped", "error", ""}, backtrace : BOOLEAN] IN
       [id : {"x"}, results : {<<>>} \cup {<<a>> : a \in r} \cup {<<a, b>> : a, b \in r},
        waived : BOOLEAN, impact : {0, 5}, tags : {{}}]

SmallCounts == {<<passed, total>> : passed \in 190..215, total \in 190..215}

-----------------------------------------------------------------------------

FilesIdle == saved = {} /\ F!Init
GroupsIdle == there = {} /\ G!Init
ResultsIdle == selected = {} /\ Init
CompareIdle ==
    compared = {} /\ sought = AnyValue /\ startIndex = 0 /\ changedOnly = TRUE /\ narrowed = FALSE

PartsInit ==
    \/ part = "files" /\ input = <<>> /\ F!Init /\ GroupsIdle /\ ResultsIdle /\ CompareIdle
    \/ part = "groups" /\ input = <<>> /\ FilesIdle /\ G!Init /\ ResultsIdle /\ CompareIdle
    \/ part = "results" /\ input = <<>> /\ FilesIdle /\ GroupsIdle /\ Init /\ CompareIdle
    \/ part = "compare" /\ input = <<>> /\ FilesIdle /\ GroupsIdle /\ ResultsIdle /\ C!Init
    \/ /\ part \in {"overlays", "statuses", "counts"}
       /\ input \in CASE part = "overlays" -> Scans
                      [] part = "statuses" -> SmallControls
                      [] part = "counts"   -> SmallCounts
       /\ FilesIdle /\ GroupsIdle /\ ResultsIdle /\ CompareIdle

PartsNext ==
    /\ UNCHANGED <<part, input>>
    /\ \/ part = "files" /\ F!Next /\ UNCHANGED <<groupVars, resultVars, compareVars>>
       \/ part = "groups" /\ G!Next /\ UNCHANGED <<fileVars, resultVars, compareVars>>
       \/ part = "results" /\ Next /\ UNCHANGED <<fileVars, groupVars, compareVars>>
       \/ /\ part = "compare" /\ C!Next
          /\ UNCHANGED <<fileVars, groupVars, resultVars>>

PartsSpec == PartsInit /\ [][PartsNext]_partsVars

-----------------------------------------------------------------------------
(* What is checked of each part; FileStore, GroupStore, ResultsView,       *)
(* CompareView, Inspec and Reports state the properties.                   *)

(* The types of the stores and of the results page.                        *)
TypesOK == F!TypeOK /\ G!TypeOK /\ (part = "results" => TypeOK)

(* A selection names loaded files of its kind only (data_filters.ts).      *)
SelectionHonest == F!SelectionHonest

(* No execution of the database is loaded twice, but for overlapping loads *)
(* (store/evaluations.ts).                                                 *)
LoadedOnce == F!LoadedOnce

(* What the URL lists is loaded, under way, or failed (router.ts).         *)
UrlCovered == F!UrlCovered

(* At rest the list of evaluations, that of my groups and, if no group was *)
(* deleted here, that of all groups are those of the server                *)
(* (store/evaluations.ts, store/groups.ts).                                *)
ListsRight == F!ListRight /\ G!OwnListRight /\ G!AllListRight

(* The compared columns are those of the headers, in every detail, and     *)
(* "changed only" hides what did not change (Compare.vue).                 *)
ComparisonHonest == part = "compare" => C!ComparisonHonest

(* Every chain of overlays ends at a control of the same id; no results    *)
(* are dropped but those the code documents; a requirement of profiles in  *)
(* one line of overlays is shown once (context.ts).                        *)
OverlaysResolved ==
    part = "overlays" => RootsEnd(input) /\ ResultsShown(input) /\ ShownOnce(input)

(* No control passes with a failed or broken test, full compliance is only *)
(* shown up to rounding, and the two compliance charts agree               *)
(* (compat_inspec_1_0.ts, ComplianceChart.vue, Compare.vue).               *)
NothingOverstated ==
    /\ part = "statuses" => NoFalsePass(input)
    /\ part = "counts" => FullMeansFull(input[1], input[2])
    /\ part = "compare" => C!ChartsAgree
=============================================================================
