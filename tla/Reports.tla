------------------------------ MODULE Reports -------------------------------
(***************************************************************************)
(* The filters of the client (store/data_filters.ts) and the counts the    *)
(* cards and charts show (store/status_counts.ts, severity_counts.ts).     *)
(* The caches of these getters are keyed by the whole filter and dropped   *)
(* when the data changes, so they are not modelled.                        *)
(***************************************************************************)
EXTENDS Inspec

CONSTANTS
    File,      \* files that are loaded
    RowsOf,    \* RowsOf[f]: Context(f, the evaluation of f), computed on loading
    AnyValue   \* a filter that is not set

(* contains_term looks at the root's id, title, code, severity, status and *)
(* finding details, of which a term here is one.                           *)
ContainsTerm(row, term) ==
    term \in {AnyValue, row.root.id, row.root.severity, row.root.status}

HasStatus(row, status) ==
    CASE status = AnyValue -> TRUE
      [] status = "Waived" -> row.hdf.waived
      [] OTHER             -> row.root.status = status

(* Mutant of InTree: a tag has to be the one selected, not one under it.   *)
InTreeExactly(row, path) == path = <<>> \/ path \in row.root.tags

InTree(row, path) ==
    path = <<>> \/ \E t \in row.root.tags : ContainsTag(path, t)

(* controls: the filters one after the other.                              *)
Controls(filter) ==
    {row \in UNION {RowsOf[f] : f \in filter.files} :
        /\ filter.id \in {AnyValue, row.hdf.id}
        /\ HasStatus(row, filter.status)
        /\ filter.severity \in {AnyValue, row.root.severity}
        /\ filter.omit => row.top
        /\ ContainsTerm(row, filter.term)
        /\ InTree(row, filter.path)}

(* A filter that lets all controls of some files pass.                     *)
FilesOnly(files, omit) ==
    [files |-> files, id |-> AnyValue, status |-> AnyValue, severity |-> AnyValue,
     omit |-> omit, term |-> AnyValue, path |-> <<>>]

-----------------------------------------------------------------------------

(* count_statuses: of the roots.  The status of the filter still counts.   *)
CountOf(filter, status) == Cardinality({row \in Controls(filter) : row.root.status = status})

TestsOf(rows) ==
    FoldSet(LAMBDA row, n : n + row.root.tests, 0, rows)

(* Waived counts tests, where the others count controls.                   *)
WaivedTests(filter) ==
    TestsOf({row \in Controls(filter) :
                row.root.waived /\ row.root.status = "Not Applicable"})

CountSeverity(filter, severity) ==
    Cardinality({row \in Controls(filter) : row.root.severity = severity})

(* Mutant of Percent: rounded up.                                          *)
PercentUp(passed, total) ==
    IF total = 0 THEN 0 ELSE (100 * passed + total - 1) \div total

(* Math.round(100 * passed / total), halves up.                            *)
Percent(passed, total) ==
    IF total = 0 THEN 0 ELSE (200 * passed + total) \div (2 * total)

Counted(filter) ==
    CountOf(filter, "Passed") + CountOf(filter, "Failed")
    + CountOf(filter, "Profile Error") + CountOf(filter, "Not Reviewed")

(* The chart of the results page.                                          *)
Compliance(filter) ==
    Percent(CountOf(filter, "Passed"), Counted(filter) + WaivedTests(filter))

(* Mutant of ComplianceCompared: what does not apply counts, too.          *)
ComplianceOfAll(filter) ==
    Percent(CountOf(filter, "Passed"), Cardinality(Controls(filter)))

(* The chart of the comparison leaves out what is waived.                  *)
ComplianceCompared(filter) == Percent(CountOf(filter, "Passed"), Counted(filter))

(* Full compliance is shown where all that is counted passed, and, because *)
(* it is rounded, also from 200 counted controls on with one that did not. *)
FullMeansFull(passed, total) ==
    passed <= total /\ total > 0 =>
        (Percent(passed, total) = 100 <=> passed = total \/ 200 * (total - passed) <= total)
=============================================================================
