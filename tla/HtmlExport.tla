----------------------------- MODULE HtmlExport -----------------------------
(***************************************************************************)
(* The export of the results page as a report (ExportHTMLModal.vue).  The  *)
(* statistics are counted at the click; the cards and the controls are     *)
(* read when the template has come, of the filter as it is by then.        *)
(***************************************************************************)
EXTENDS Naturals, Sequences, SequencesExt, FiniteSets

CONSTANTS
    ReportFile,   \* files that may be selected
    StatusFilter, \* the rest of the filter
    MaxExports,   \* bound on the exports
    MaxChanges    \* bound on the changes of the filter

VARIABLES
    filter,       \* all_filter: [files, rest]
    statistics,   \* the filter outputData.statistics was counted with
    controlSets,  \* outputData.files and controlSets: file and filter of each
    fetching,     \* the exports that wait for the template
    reports,      \* the report that was saved last
    met,          \* the last export met another, or a change of the filter
    exports, changes

vars == <<filter, statistics, controlSets, fetching, reports, met, exports, changes>>

Filter == [files : SUBSET ReportFile, rest : StatusFilter]

TypeOK ==
    /\ filter \in Filter /\ statistics \in Filter
    /\ controlSets \in Seq([file : ReportFile, rest : StatusFilter])
    /\ fetching \subseteq 1..exports /\ met \in BOOLEAN
    /\ exports \in 0..MaxExports /\ changes \in 0..MaxChanges

Init ==
    /\ filter \in Filter /\ statistics = filter
    /\ controlSets = <<>> /\ fetching = {} /\ reports = {}
    /\ met = FALSE /\ exports = 0 /\ changes = 0

ChangeFilter ==
    /\ changes < MaxChanges /\ changes' = changes + 1
    /\ filter' \in Filter \ {filter}
    /\ met' = (met \/ fetching # {})
    /\ UNCHANGED <<statistics, controlSets, fetching, reports, exports>>

(* Mutant of ResetOutputData: the files of the last report stay.           *)
ResetStatistics == statistics' = filter /\ controlSets' = controlSets

ResetOutputData == statistics' = filter /\ controlSets' = <<>>

(* exportHTML, up to its four requests.                                    *)
ExportHtml ==
    /\ exports < MaxExports /\ exports' = exports + 1
    /\ ResetOutputData
    /\ fetching' = IF filter.files = {} THEN fetching ELSE fetching \cup {exports'}
    /\ met' = (fetching # {})
    /\ UNCHANGED <<filter, reports, changes>>

(* The requests are answered: addFiledata for each file, and the report.   *)
Render(n) ==
    /\ fetching' = fetching \ {n}
    /\ LET files == SetToSeq(filter.files) IN
          controlSets' = controlSets \o
             [i \in DOMAIN files |-> [file |-> files[i], rest |-> filter.rest]]
    /\ reports' =
          {[statistics |-> statistics, cards |-> filter, controls |-> controlSets', met |-> met]}
    /\ UNCHANGED <<filter, statistics, met, exports, changes>>

Unanswered(n) ==
    /\ fetching' = fetching \ {n}
    /\ UNCHANGED <<filter, statistics, controlSets, reports, met, exports, changes>>

Next ==
    \/ ChangeFilter \/ ExportHtml
    \/ \E n \in fetching : Render(n) \/ Unanswered(n)

-----------------------------------------------------------------------------

(* A report is of one filter: its numbers, its cards and its controls,     *)
(* with each selected file once, unless its export met another export or a *)
(* change of the filter, however many exports went before.                 *)
ReportWhole ==
    \A r \in reports :
        ~r.met =>
            /\ r.cards = r.statistics
            /\ {c.file : c \in ToSet(r.controls)} = r.statistics.files
            /\ Len(r.controls) = Cardinality(r.statistics.files)
            /\ \A c \in ToSet(r.controls) : c.rest = r.statistics.rest
=============================================================================
