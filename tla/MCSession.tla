----------------------------- MODULE MCSession ------------------------------
(***************************************************************************)
(* More parts of the client, and the updates of a group on the server,     *)
(* that share no state, each on a small instance of its own: part says     *)
(* which of them a behaviour belongs to, the others stay in an initial     *)
(* state.                                                                  *)
(***************************************************************************)
EXTENDS Session, Integers, Sequences, SequencesExt

CONSTANTS
    Endpoint, NoEndpoint, MaxLogins,                          \* SplunkReader
    Key, NoRole, MaxFlight, MaxClicks,                        \* S3Reader
    Value, MaxSaves,                                          \* TagEditor
    ReportFile, StatusFilter, MaxExports, MaxChanges,         \* HtmlExport
    Person, Me, Info, NoPerson, MaxEdits, MaxOpen,            \* UserManagement
    Update, Name, Unset,                                      \* GroupUpdates
    Colleague, MaxMemberSaves, MaxElsewhere,                  \* GroupMembers
    Group, NoDialog, MaxUpdates,                              \* EvaluationGroups
    Families, ControlNumbers, MaxListed, Events               \* Nist, SplunkPayloads

(* Files are selected and tags are given from finitely many.               *)
ASSUME PartsAssumption ==
    /\ {MaxLogins, MaxClicks, MaxSaves, MaxExports, MaxChanges, MaxEdits, MaxMemberSaves,
        MaxElsewhere, MaxUpdates} \subseteq Nat
    /\ NoRole \notin Key /\ NoPerson \notin Person /\ Me \in Person \cap Colleague
    /\ IsFiniteSet(Value) /\ IsFiniteSet(ReportFile)

VARIABLES
    part,
    step, splunkState, checking, searches, alreadySearching, due, items, errorCount, logins,
    s3step, assumedRole, listedBy, s3calls, clicks, askedFor, crossed, wentBack,
    stored, shown, tags, tagCalls, saves, ids, flips, wanted, alone,
    filter, statistics, controlSets, fetching, reports, met, exports, changes,
    accounts, known, members, editedUser, forms, mine, edited, open, done, apart,
    life, row, upd,
    belongs, groupRow, groupForm, groupDialog, memberCalls, memberSaves, elsewhere,
    memberFlips, chosen, calm,
    linked, listed, dialog, groupCalls, updates, asked, clear,
    input

sessionVars == vars
splunkVars ==
    <<step, splunkState, checking, searches, alreadySearching, due, items, errorCount, logins>>
s3Vars ==
    <<s3step, assumedRole, listedBy, s3calls, clicks, askedFor, crossed, wentBack>>
tagVars == <<stored, shown, tags, tagCalls, saves, ids, flips, wanted, alone>>
exportVars == <<filter, statistics, controlSets, fetching, reports, met, exports, changes>>
userVars == <<accounts, known, members, editedUser, forms, mine, edited, open, done, apart>>
updateVars == <<life, row, upd>>
memberVars ==
    <<belongs, groupRow, groupForm, groupDialog, memberCalls, memberSaves, elsewhere,
      memberFlips, chosen, calm>>
linkVars == <<linked, listed, dialog, groupCalls, updates, asked, clear>>
groupVars == <<updateVars, memberVars, linkVars>>
otherVars == <<tagVars, exportVars, userVars, groupVars, input>>
partsVars == <<part, sessionVars, splunkVars, s3Vars, otherVars>>

P == INSTANCE SplunkReader
W == INSTANCE S3Reader
T == INSTANCE TagEditor
H == INSTANCE HtmlExport
U == INSTANCE UserManagement WITH MaxChanges <- MaxEdits
G == INSTANCE GroupUpdates
M == INSTANCE GroupMembers
     WITH Person <- Colleague, MaxSaves <- MaxMemberSaves, row <- groupRow,
          form <- groupForm, shown <- groupDialog, saves <- memberSaves,
          flips <- memberFlips, wanted <- chosen
L == INSTANCE EvaluationGroups
N == INSTANCE Nist
E == INSTANCE SplunkPayloads

-----------------------------------------------------------------------------
(* Inputs: every list of at most MaxListed controls of a hierarchy of four *)
(* levels, which may name a control twice as raw_nist.ts does, and every   *)
(* order of the events of two scans that share a profile.                  *)

NistFamilies == <<"AC", "SI">>

NistNumbers ==
    {<<"AC", "2">>, <<"AC", "2", "1">>, <<"AC", "2", "1", "a">>, <<"AC", "2", "b">>,
     <<"SI", "4">>}

Event(subtype, guid, sha, id) == [subtype |-> subtype, guid |-> guid, sha |-> sha, id |-> id]

ScanEvents ==
    {Event("header", "g1", "", ""), Event("profile", "g1", "s1", ""),
     Event("control", "g1", "s1", "x"), Event("control", "g2", "s1", "x"),
     Event("header", "g2", "", ""), Event("profile", "g2", "s1", "")}

(* A family is listed once, and a control has one and a number at least    *)
(* (raw_nist.ts, the expressions of nist.ts); lists are finite.            *)
ASSUME InputsAssumption ==
    /\ MaxListed \in Nat /\ IsFiniteSet(Events)
    /\ Families \in Seq(STRING)
    /\ \A i, j \in DOMAIN Families : Families[i] = Families[j] => i = j
    /\ \A c \in ControlNumbers : c \in Seq(STRING) /\ Len(c) >= 2

(* Every list of some elements of a set, without repetition.               *)
Orders(elements) == UNION {SetToSeqs(X) : X \in SUBSET elements}

-----------------------------------------------------------------------------

SessionIdle == storage = [token |-> Nobody, id |-> Nobody] /\ cookie = Nobody /\ valid = {}
               /\ pending = "home" /\ Init
S3Idle == assumedRole = NoRole /\ W!Init
TagsIdle == stored = {} /\ T!Init
ExportIdle == filter = [files |-> {}, rest |-> CHOOSE r \in StatusFilter : TRUE] /\ H!Init
UsersIdle == accounts = (Me :> (CHOOSE i \in Info : TRUE)) /\ U!Init
MembersIdle == belongs = {Me} /\ M!Init
LinksIdle == linked = {} /\ L!Init
UpdatesIdle == row = [name |-> CHOOSE n \in Name : TRUE, public |-> FALSE] /\ G!Init

PartsInit ==
    /\ part \in {"session", "splunk", "s3", "tags", "export", "users", "updates",
                 "members", "links", "hierarchy", "events"}
    /\ input \in CASE part = "hierarchy" -> SeqOf(ControlNumbers, MaxListed)
                   [] part = "events"    -> Orders(Events)
                   [] OTHER              -> {<<>>}
    /\ IF part = "session" THEN Init ELSE SessionIdle
    /\ P!Init
    /\ IF part = "s3" THEN W!Init ELSE S3Idle
    /\ IF part = "tags" THEN T!Init ELSE TagsIdle
    /\ IF part = "export" THEN H!Init ELSE ExportIdle
    /\ IF part = "users" THEN U!Init ELSE UsersIdle
    /\ IF part = "updates" THEN G!Init ELSE UpdatesIdle
    /\ IF part = "members" THEN M!Init ELSE MembersIdle
    /\ IF part = "links" THEN L!Init ELSE LinksIdle

SessionStep(A) ==
    part = "session" /\ A /\ UNCHANGED <<part, splunkVars, s3Vars, otherVars>>

SplunkStep(A) ==
    part = "splunk" /\ A /\ UNCHANGED <<part, sessionVars, s3Vars, otherVars>>

PartsNext ==
    \/ SessionStep(Next)
    \/ SplunkStep(P!Next)
    \/ /\ part = "s3" /\ W!Next
       /\ UNCHANGED <<part, sessionVars, splunkVars, otherVars>>
    \/ /\ UNCHANGED <<part, sessionVars, splunkVars, s3Vars, input>>
       /\ \/ part = "tags" /\ T!Next /\ UNCHANGED <<exportVars, userVars, groupVars>>
          \/ part = "export" /\ H!Next /\ UNCHANGED <<tagVars, userVars, groupVars>>
          \/ part = "users" /\ U!Next /\ UNCHANGED <<tagVars, exportVars, groupVars>>
          \/ /\ UNCHANGED <<tagVars, exportVars, userVars>>
             /\ \/ part = "updates" /\ G!Next /\ UNCHANGED <<memberVars, linkVars>>
                \/ part = "members" /\ M!Next /\ UNCHANGED <<updateVars, linkVars>>
                \/ part = "links" /\ L!Next /\ UNCHANGED <<updateVars, memberVars>>

(* Calls are answered, a page that was told to reload does, timers run,    *)
(* and Splunk ends its jobs; people owe nothing.                           *)
PartsFairness ==
    /\ WF_partsVars(SessionStep(Leave))
    /\ \A k \in {"server", "user", "login", "other"} : WF_partsVars(SessionStep(AnswerOf(k)))
    /\ WF_partsVars(SplunkStep(P!CheckAnswered)) /\ WF_partsVars(SplunkStep(P!Poll))
    /\ WF_partsVars(SplunkStep(P!TimePasses)) /\ WF_partsVars(SplunkStep(P!SearchMoves))

PartsSpec == PartsInit /\ [][PartsNext]_partsVars /\ PartsFairness

-----------------------------------------------------------------------------
(* What is checked of each part; the modules of the parts state the        *)
(* properties.                                                             *)

(* The types of the parts.                                                 *)
TypesOK ==
    /\ TypeOK /\ P!TypeOK /\ W!TypeOK /\ T!TypeOK /\ H!TypeOK
    /\ part = "users" => U!TypeOK
    /\ part = "updates" => G!TypeOK
    /\ part = "members" => M!TypeOK
    /\ part = "links" => L!TypeOK

(* A page that starts is shown at last, and a session the server refuses   *)
(* does not keep it reloading (router.ts, main.ts).                        *)
PagesSettle == (part = "session" => PageShown) /\ ReloadsEnd

(* At most one search of Splunk is under way (splunk/FileList.vue).        *)
OneSearch == P!OneSearch

(* Who signs in to Splunk gets a list or the form (SplunkReader.vue).      *)
ListComes ==
    \A e \in Endpoint : part = "splunk" /\ splunkState = e ~> P!Listed(e)

(* The credentials held for a bucket are those asked for last, and those   *)
(* its files were listed with (S3Reader.vue).                              *)
CredentialsAsAsked == W!CredentialsAsAsked

(* At rest an evaluation has the tags its user chose and is in the groups *)
(* that were asked for, a group has the members its owners chose, and the  *)
(* table of accounts and its forms show what the server has (TagRow.vue,   *)
(* EditEvaluationModal.vue, GroupModal.vue, UserManagement.vue,            *)
(* UserModal.vue).                                                         *)
EditsArrive ==
    /\ T!TagsAsChosen
    /\ part = "users" => U!TableRight
    /\ part = "members" => M!MembersAsChosen
    /\ part = "links" => L!GroupsAsChosen

(* At rest a group has the name and the visibility of an update no later   *)
(* one replaced (groups.service.ts).                                       *)
LastUpdateStays == part = "updates" => G!LastUpdateStays

(* A report is of one filter (ExportHTMLModal.vue).                        *)
ReportWhole == H!ReportWhole

(* The hierarchy has every control in its place, and events of a search    *)
(* end in the execution they are of, in whichever order they come          *)
(* (nist.ts, splunk_util.ts).                                              *)
OrderNeverMatters ==
    /\ part = "hierarchy" => N!HierarchyWhole(Families, input)
    /\ part = "events" => E!EventsKept(input)
=============================================================================
