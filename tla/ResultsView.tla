---------------------------- MODULE ResultsView -----------------------------
(***************************************************************************)
(* The results page (views/Results.vue): the files that are selected, the  *)
(* filters its cards, charts, search bar and treemap set, and the rows of  *)
(* the table that are expanded (ControlTable.vue).  The treemap            *)
(* (Treemap.vue, treemap_util.ts) is a tree of NIST controls, two          *)
(* specifiers deep, with the shown controls as leaves.                     *)
(*                                                                         *)
(* Getters that set something while they are computed do so in the action  *)
(* after which they are computed anew.                                     *)
(***************************************************************************)
EXTENDS Reports

CONSTANTS
    Hierarchy,   \* the NIST controls and families, one or two specifiers long
    Term         \* what may be searched for

(* A tree of families and their controls, none of them without one.        *)
ASSUME HierarchyAssumption ==
    \A n \in Hierarchy :
        /\ n \in Seq(STRING) /\ Len(n) \in {1, 2}
        /\ Front(n) \in Hierarchy \cup {<<>>}
        /\ Len(n) = 1 => \E m \in Hierarchy : Len(m) = 2 /\ IsPrefix(n, m)

(* Files are finite, and every control has a tag, be it UM-1.              *)
ASSUME RowsAssumption ==
    /\ IsFiniteSet(UNION {RowsOf[f] : f \in File})
    /\ \A f \in File : \A row \in RowsOf[f] :
          row.root.tags \in (SUBSET Seq(STRING)) \ {{}}

VARIABLES
    selected,      \* selectedEvaluationIds
    severity, status, term,   \* severityFilter, statusFilter, searchTerm
    path,          \* treeFilters, the way down the treemap
    control,       \* controlSelection, the leaf that is picked
    expanded,      \* keys of the expanded rows
    single,        \* singleExpand
    moved          \* the rows changed while some were expanded

filters == <<selected, severity, status, term, path, control>>
vars == <<selected, severity, status, term, path, control, expanded, single, moved>>

-----------------------------------------------------------------------------

TreemapFilter ==
    [files |-> selected, id |-> AnyValue, status |-> status, severity |-> severity,
     omit |-> TRUE, term |-> term, path |-> <<>>]

AllFilter == [TreemapFilter EXCEPT !.id = control, !.path = path]

Items == Controls(AllFilter)

Key(row) == <<row.file, row.profile, row.hdf.id>>

Keys == {Key(row) : row \in Items}

(* Mutant of CanClear: the way down the treemap is no filter.              *)
CanClearNoTree == severity # AnyValue \/ status # AnyValue \/ term # AnyValue

(* can_clear does not look at the picked control.                          *)
CanClear ==
    severity # AnyValue \/ status # AnyValue \/ term # AnyValue \/ path # <<>>

-----------------------------------------------------------------------------
(* The treemap.                                                            *)

(* The leaves of a node: controls with a tag that begins with it.          *)
Leaves(rows, node) ==
    {row \in rows : node \in Hierarchy /\
        \E t \in row.root.tags : SubSeq(t, 1, Min({2, Len(t)})) = node}

Inner(node) == {n \in Hierarchy : Len(n) = Len(node) + 1 /\ IsPrefix(node, n)}

HasChildren(rows, node) == Inner(node) # {} \/ Leaves(rows, node) # {}

(* selected_node goes down as far as there is something to go into, and    *)
(* cuts the path off where there is not.                                   *)
Reached(rows, p) ==
    LET open == {d \in 0..Len(p) :
                    \A k \in 1..d : /\ SubSeq(p, 1, k) \in Hierarchy
                                    /\ HasChildren(rows, SubSeq(p, 1, k))} IN
       SubSeq(p, 1, Max(open))

GoTo(p) == path' = Reached(Controls(TreemapFilter'), p)

(* What comes of the rows that are expanded when others are shown.         *)
TableStays ==
    /\ UNCHANGED <<expanded, single>>
    /\ moved' = (expanded # {} /\ (moved \/ Keys' # Keys))

-----------------------------------------------------------------------------

Init ==
    /\ selected \in SUBSET File
    /\ severity = AnyValue /\ status = AnyValue /\ term = AnyValue
    /\ path = <<>> /\ control = AnyValue
    /\ expanded = {} /\ single = TRUE /\ moved = FALSE

(* The sidebar selects and unselects files; the filters stay.              *)
SelectFiles ==
    /\ selected' \in SUBSET File \ {selected}
    /\ UNCHANGED <<severity, status, term, control>>
    /\ GoTo(path) /\ TableStays

(* onSelect of the status chart, whose slices are the statuses counted     *)
(* under the filter: the status that is selected already is dropped.       *)
PickStatus ==
    /\ \E s \in Statuses :
          /\ CountOf(AllFilter, s) > 0
          /\ status' = IF s = status THEN AnyValue ELSE s
    /\ UNCHANGED <<selected, severity, term, control>>
    /\ GoTo(path) /\ TableStays

(* The buttons of the two cards, which each hide while the other's filter  *)
(* is on.                                                                  *)
ShowErrors ==
    /\ CountOf([AllFilter EXCEPT !.status = AnyValue], "Profile Error") > 0
    /\ status \notin {"Waived", "Profile Error"}
    /\ status' = "Profile Error"
    /\ UNCHANGED <<selected, severity, term, control>>
    /\ GoTo(path) /\ TableStays

ShowWaived ==
    /\ WaivedTests(AllFilter) > 0
    /\ status \notin {"Waived", "Profile Error"}
    /\ status' = "Waived"
    /\ UNCHANGED <<selected, severity, term, control>>
    /\ GoTo(path) /\ TableStays

(* Mutant of PickSeverity: there is a slice for "none".                    *)
PickAnySeverity ==
    /\ \E s \in {"none", "low", "medium", "high", "critical"} :
          /\ CountSeverity(AllFilter, s) > 0
          /\ severity' = IF s = severity THEN AnyValue ELSE s
    /\ UNCHANGED <<selected, status, term, control>>
    /\ GoTo(path) /\ TableStays

(* onSelect of the severity chart, which has no slice for "none".          *)
PickSeverity ==
    /\ \E s \in {"low", "medium", "high", "critical"} :
          /\ CountSeverity(AllFilter, s) > 0
          /\ severity' = IF s = severity THEN AnyValue ELSE s
    /\ UNCHANGED <<selected, status, term, control>>
    /\ GoTo(path) /\ TableStays

Search ==
    /\ term' \in (Term \cup {AnyValue}) \ {term}
    /\ UNCHANGED <<selected, severity, status, control>>
    /\ GoTo(path) /\ TableStays

Clear ==
    /\ CanClear
    /\ severity' = AnyValue /\ status' = AnyValue /\ term' = AnyValue
    /\ path' = <<>> /\ control' = AnyValue
    /\ UNCHANGED selected /\ TableStays

(* select_node: only the children of the node that is shown react.         *)
DiveInto ==
    /\ UNCHANGED <<selected, severity, status, term, control>>
    /\ \E n \in Inner(path) : GoTo(n)
    /\ TableStays

PickLeaf ==
    /\ \E row \in Leaves(Controls(TreemapFilter), path) :
          control' = IF row.hdf.id = control THEN AnyValue ELSE row.hdf.id
    /\ UNCHANGED <<selected, severity, status, term, path>> /\ TableStays

(* Mutant of Up: the picked control stays picked.                          *)
UpKeepsControl ==
    /\ path # <<>>
    /\ UNCHANGED <<selected, severity, status, term, control>>
    /\ GoTo(Front(path)) /\ TableStays

Up ==
    /\ path # <<>>
    /\ control' = AnyValue
    /\ UNCHANGED <<selected, severity, status, term>>
    /\ GoTo(Front(path)) /\ TableStays

-----------------------------------------------------------------------------
(* The table.                                                              *)

(* The switch is on where as many rows are expanded as are shown.          *)
ExpandAllOn == Cardinality(expanded) = Cardinality(Keys)

Expand(keys) == expanded' = keys /\ moved' = (keys # {} /\ moved) /\ UNCHANGED filters

(* Mutant of SwitchExpandAll: rows that are hidden stay expanded.          *)
SwitchExpandAllKeeps ==
    IF ExpandAllOn
    THEN Expand({}) /\ single' = single
    ELSE /\ single' = FALSE /\ expanded' = expanded \cup Keys
         /\ moved' = FALSE /\ UNCHANGED filters

SwitchExpandAll ==
    IF ExpandAllOn
    THEN Expand({}) /\ single' = single
    ELSE /\ single' = FALSE /\ expanded' = Keys
         /\ moved' = FALSE /\ UNCHANGED filters

(* Mutant of SwitchSingle: what is expanded stays expanded.                *)
SwitchSingleKeeps == single' = ~single /\ Expand(expanded)

(* Switching single expand on closes all rows.                             *)
SwitchSingle ==
    /\ single' = ~single
    /\ Expand(IF single' THEN {} ELSE expanded)

Toggle(k) ==
    /\ single' = single
    /\ IF k \in expanded
       THEN Expand(IF single THEN {} ELSE expanded \ {k})
       ELSE /\ expanded' = IF single THEN {k} ELSE expanded \cup {k}
            /\ moved' = (moved /\ ~single)
            /\ UNCHANGED filters

Next ==
    \/ SelectFiles \/ PickStatus \/ ShowErrors \/ ShowWaived \/ PickSeverity \/ Search
    \/ Clear \/ DiveInto \/ PickLeaf \/ Up
    \/ SwitchExpandAll \/ SwitchSingle \/ \E k \in Keys : Toggle(k)

Spec == Init /\ [][Next]_vars

-----------------------------------------------------------------------------

TypeOK ==
    /\ selected \subseteq File /\ term \in Term \cup {AnyValue}
    /\ severity \in {"low", "medium", "high", "critical", AnyValue}
    /\ status \in Statuses \cup {"Waived", AnyValue}
    /\ path \in Hierarchy \cup {<<>>}
    /\ single \in BOOLEAN /\ moved \in BOOLEAN

(* Wherever a filter hides a control of the selected files, the button     *)
(* that clears the filters can be pressed, although it does not look at    *)
(* the picked control and the treemap cuts its path off by itself.         *)
ClearAvailable ==
    Items # Controls(FilesOnly(selected, TRUE)) => CanClear

(* The treemap and the table agree: what is under the node that is shown   *)
(* is in the table, and nothing else is, unless it has a tag the treemap   *)
(* does not know.                                                          *)
MapInTable ==
    LET rows == Controls(TreemapFilter)
        under == UNION {Leaves(rows, n) : n \in {m \in Hierarchy : IsPrefix(path, m)}}
        stray(row) == \E t \in row.root.tags :
                         SubSeq(t, 1, Min({2, Len(t)})) \notin Hierarchy IN
       control = AnyValue =>
          /\ under \subseteq Items
          /\ \A row \in Items \ under : stray(row)

(* What hides a control can be seen and taken back.                        *)
FiltersShown == ClearAvailable /\ MapInTable

(* With single expand on at most one row is expanded, whichever switches   *)
(* and rows were used before.                                              *)
SingleExpandOne == single => Cardinality(expanded) <= 1

(* As long as the rows stay what they were when one was expanded, the      *)
(* switch says that all are expanded exactly when they are.                *)
ExpandAllHonest == ~moved => (ExpandAllOn <=> Keys \subseteq expanded)

(* Both switches over the table tell how its rows are, in any order of     *)
(* clicks on them, on rows and on filters.                                 *)
ExpansionHonest == SingleExpandOne /\ ExpandAllHonest
=============================================================================
