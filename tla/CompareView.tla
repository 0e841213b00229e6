---------------------------- MODULE CompareView -----------------------------
(***************************************************************************)
(* The comparison page (views/Compare.vue, delta_util.ts): the evaluations *)
(* that are selected side by side, two of them in view, and the            *)
(* requirements whose status changed between them.                         *)
(***************************************************************************)
EXTENDS Reports, Sublists

CONSTANTS
    Loaded,      \* the evaluation files in the order they were loaded
    ByTime,      \* the same in the order they were run
    ProfileFile, \* loaded files that hold a profile only
    Term

VARIABLES
    selected,    \* selected_file_ids, of both kinds
    startIndex,
    changedOnly,
    term,        \* searchTerm
    narrowed     \* the selection lost a file while the view was scrolled

vars == <<selected, startIndex, changedOnly, term, narrowed>>

Within(s, S) == Pick(s, {i \in DOMAIN s : s[i] \in S})

(* files, sorted by compare_times.                                         *)
Files == Within(ByTime, selected)

NumShown == Min({2, Len(Files)})

(* The columns: the file each header names, if there is one, and those     *)
(* whose statuses the rows show.                                           *)
HeaderAt(i) ==
    IF i + startIndex \in DOMAIN Files THEN Files[i + startIndex] ELSE AnyValue

VisibleRowIds == SubSeq(Files, startIndex + 1, Min({startIndex + NumShown, Len(Files)}))

-----------------------------------------------------------------------------
(* The pairings: of each id, the control that each file ends with.         *)

TopRows(f) == {row \in RowsOf[f] : row.top}

Before(c, d) == c[1] < d[1] \/ (c[1] = d[1] /\ c[2] < d[2])

HoldersOf(id) == {f \in ToSet(Files) : \E row \in TopRows(f) : row.hdf.id = id}

RowOf(f, id) ==
    CHOOSE row \in TopRows(f) :
        /\ row.hdf.id = id
        /\ \A r \in TopRows(f) : r.hdf.id = id => r = row \/ Before(r.at, row.at)

StatusIn(f, id) == RowOf(f, id).root.status

SearchFilter == [FilesOnly(ToSet(Files), TRUE) EXCEPT !.term = term]

SearchedSets == {row.hdf.id : row \in Controls(SearchFilter)}

(* Mutant of Changed: a requirement that some file lacks has not changed.  *)
ChangedWhereHeld(id) ==
    \E f, g \in HoldersOf(id) : StatusIn(f, id) # StatusIn(g, id)

(* delta_sets: the statuses differ, or there are not as many of them as    *)
(* files of either kind are selected.                                      *)
Changed(id) ==
    \/ \E f, g \in HoldersOf(id) : StatusIn(f, id) # StatusIn(g, id)
    \/ Cardinality(HoldersOf(id)) # Cardinality(selected)

ShowSets == {id \in SearchedSets : changedOnly => Changed(id)}

(* Mutant of DeltaOf: of all files, in view or not.                        *)
DeltaOfAll(id) == Within(Loaded, HoldersOf(id))

(* CompareRow.delta: the controls of the visible files, in the order the   *)
(* files were loaded in; a file without the control has no place in it.    *)
DeltaOf(id) == Within(Loaded, ToSet(VisibleRowIds) \cap HoldersOf(id))

-----------------------------------------------------------------------------

Init ==
    /\ selected \in SUBSET (File \cup ProfileFile)
    /\ startIndex = 0 /\ changedOnly = TRUE /\ term = AnyValue /\ narrowed = FALSE

(* The sidebar, which is part of the page; the view stays scrolled.        *)
SelectFiles ==
    /\ selected' \in SUBSET (File \cup ProfileFile) \ {selected}
    /\ narrowed' = (narrowed \/ (startIndex > 0 /\ ~(selected \subseteq selected')))
    /\ UNCHANGED <<startIndex, changedOnly, term>>

ScrollLeft ==
    /\ Len(Files) > NumShown /\ startIndex # 0
    /\ startIndex' = startIndex - 1
    /\ UNCHANGED <<selected, changedOnly, term, narrowed>>

(* Mutant of ScrollRight: one step too far.                                *)
ScrollRightPast ==
    /\ Len(Files) > NumShown /\ startIndex <= Len(Files) - NumShown
    /\ startIndex' = startIndex + 1
    /\ UNCHANGED <<selected, changedOnly, term, narrowed>>

ScrollRight ==
    /\ Len(Files) > NumShown /\ startIndex < Len(Files) - NumShown
    /\ startIndex' = startIndex + 1
    /\ UNCHANGED <<selected, changedOnly, term, narrowed>>

SwitchChangedOnly ==
    /\ changedOnly' = ~changedOnly
    /\ UNCHANGED <<selected, startIndex, term, narrowed>>

Search ==
    /\ term' \in (Term \cup {AnyValue}) \ {term}
    /\ UNCHANGED <<selected, startIndex, changedOnly, narrowed>>

(* Leaving the page and coming back.                                       *)
Revisit ==
    /\ startIndex' = 0 /\ changedOnly' = TRUE /\ term' = AnyValue /\ narrowed' = FALSE
    /\ UNCHANGED selected

Next ==
    \/ SelectFiles \/ ScrollLeft \/ ScrollRight \/ SwitchChangedOnly \/ Search \/ Revisit

Spec == Init /\ [][Next]_vars

-----------------------------------------------------------------------------

(* Each column has a file, and the rows show the files the headers name,   *)
(* however the view was scrolled and files were selected, unless files     *)
(* were unselected while it was scrolled: nothing brings startIndex back.  *)
WindowInRange ==
    ~narrowed =>
        /\ \A i \in 1..NumShown : HeaderAt(i) # AnyValue
        /\ VisibleRowIds = [i \in 1..NumShown |-> HeaderAt(i)]

(* Of evaluations alone, "changed only" hides exactly those requirements   *)
(* that all of them have with one status.                                  *)
HidesUnchanged ==
    selected \cap ProfileFile = {} /\ changedOnly =>
        SearchedSets \ ShowSets =
            {id \in SearchedSets : \A f, g \in ToSet(Files) :
                f \in HoldersOf(id) /\ StatusIn(f, id) = StatusIn(g, id)}

(* The details of a row list the files in the order of the columns, where  *)
(* the files were loaded in the order they were run and both have it.      *)
DetailsMatchColumns ==
    ~narrowed => \A id \in ShowSets :
        /\ Within(Loaded, ToSet(VisibleRowIds)) = VisibleRowIds
        /\ ToSet(VisibleRowIds) \subseteq HoldersOf(id)
        => DeltaOf(id) = [i \in 1..NumShown |-> HeaderAt(i)]

(* The rows are those of the columns in view, and those asked for.         *)
ComparisonHonest == WindowInRange /\ HidesUnchanged /\ DetailsMatchColumns

(* The two charts of compliance agree on a file without overlays and       *)
(* waivers.                                                                *)
ChartsAgree ==
    \A f \in ToSet(Files) :
        (\A row \in RowsOf[f] : row.top /\ ~row.root.waived) =>
            ComplianceCompared(FilesOnly({f}, FALSE)) = Compliance(FilesOnly({f}, TRUE))
=============================================================================
