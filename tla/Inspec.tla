------------------------------- MODULE Inspec -------------------------------
(***************************************************************************)
(* libs/inspecjs: what the client reads out of the report of a scan.  An   *)
(* evaluation is a sequence of profiles [name, parent, controls], where    *)
(* parent names the profile that overlays it or is Orphan; a control is    *)
(* [id, results, waived, impact, tags].  <<p, i>> is control i of profile  *)
(* p, <<>> none.  Impacts are tenths.                                      *)
(***************************************************************************)
EXTENDS Naturals, Sequences, SequencesExt, FiniteSets

CONSTANT Orphan   \* the parent of a profile that no other overlays

NoControl == <<>>

At(ev, c) == ev[c[1]].controls[c[2]]

(* All controls of an evaluation, and their order: profile by profile.     *)
AllControls(ev) == UNION {{p} \X DOMAIN ev[p].controls : p \in DOMAIN ev}

Ahead(c, d) == c[1] < d[1] \/ (c[1] = d[1] /\ c[2] < d[2])

FirstOf(S) == CHOOSE c \in S : \A d \in S : d = c \/ Ahead(c, d)

-----------------------------------------------------------------------------
(* Statuses.                                                               *)

(* A result with a backtrace is an error, one without a status has none.   *)
SegmentStatus(r) ==
    IF r.backtrace THEN "error" ELSE IF r.status = "" THEN "no_status" ELSE r.status

Segments(c) == [i \in DOMAIN c.results |-> SegmentStatus(c.results[i])]

Has(c, s) == s \in ToSet(Segments(c))

(* Mutant of Status: a test that passed hides those that failed.           *)
StatusPassedFirst(c) ==
    IF Has(c, "error") THEN "Profile Error"
    ELSE IF c.waived \/ c.impact = 0 THEN "Not Applicable"
    ELSE IF c.results = <<>> THEN "Profile Error"
    ELSE IF Has(c, "passed") THEN "Passed"
    ELSE IF Has(c, "failed") THEN "Failed"
    ELSE "Not Reviewed"

(* compute_status.                                                         *)
Status(c) ==
    IF Has(c, "error") THEN "Profile Error"
    ELSE IF c.waived \/ c.impact = 0 THEN "Not Applicable"
    ELSE IF c.results = <<>> THEN "Profile Error"
    ELSE IF Has(c, "failed") THEN "Failed"
    ELSE IF Has(c, "passed") THEN "Passed"
    ELSE IF Has(c, "skipped") THEN "Not Reviewed"
    ELSE "Profile Error"

Statuses ==
    {"Passed", "Failed", "Not Applicable", "Not Reviewed", "Profile Error"}

(* compute_severity.                                                       *)
Severity(c) ==
    CASE c.impact = 0      -> "none"
      [] c.impact \in 1..3 -> "low"
      [] c.impact \in 4..6 -> "medium"
      [] c.impact \in 7..8 -> "high"
      [] OTHER             -> "critical"

-----------------------------------------------------------------------------
(* NIST tags: sequences of specifiers, "AC-2 (1)" is <<"AC", "2", "1">>.   *)

(* compare_lineage # -1: other is this control or an enhancement of it.    *)
ContainsTag(this, other) == IsPrefix(this, other)

(* compute_proper_nist_tags; tags that parse_nist cannot read are left out *)
(* already.                                                                *)
ProperTags(c) == IF c.tags = {} THEN {<<"UM", "1">>} ELSE c.tags

-----------------------------------------------------------------------------
(* Which control overlays which (contextualizeEvaluation).                 *)

(* The first profile of that name, 0 if there is none.                     *)
ParentOf(ev, p) ==
    LET named == {q \in DOMAIN ev : ev[q].name = ev[p].parent} IN
       IF ev[p].parent = Orphan \/ named = {} THEN 0 ELSE Min(named)

ExtendsFrom(ev, p) == {q \in DOMAIN ev : ParentOf(ev, q) = p}

Linked(ev, p) == ExtendsFrom(ev, p) # {} \/ ParentOf(ev, p) # 0

SameId(ev, c) == {d \in AllControls(ev) : At(ev, d).id = At(ev, c).id}

(* Mutant of Ancestor: only the first profile that is extended is searched.*)
AncestorInFirst(ev, c) ==
    LET below == {d \in SameId(ev, c) : /\ ExtendsFrom(ev, c[1]) # {}
                                        /\ d[1] = Min(ExtendsFrom(ev, c[1]))} IN
       IF below = {} THEN NoControl ELSE FirstOf(below)

(* Of a profile that is linked to others: the first control of that id in  *)
(* those it extends, in the order of the file.                             *)
Ancestor(ev, c) ==
    LET below == {d \in SameId(ev, c) : d[1] \in ExtendsFrom(ev, c[1])} IN
       IF below = {} THEN NoControl ELSE FirstOf(below)

(* Mutant of Sibling: the first of that id, whether it was run or not.     *)
SiblingFirst(ev, c) ==
    LET base == FirstOf(SameId(ev, c)) IN IF base = c THEN NoControl ELSE base

(* Mutant of Sibling: a control may extend itself.                         *)
SiblingOrSelf(ev, c) ==
    LET run == {d \in SameId(ev, c) : At(ev, d).results # <<>>} IN
       FirstOf(IF run = {} THEN SameId(ev, c) ELSE run)

(* Of a profile that is linked to none: the first control of that id in    *)
(* the file that has results, or else the first of that id.                *)
Sibling(ev, c) ==
    LET run == {d \in SameId(ev, c) : At(ev, d).results # <<>>}
        base == FirstOf(IF run = {} THEN SameId(ev, c) ELSE run) IN
       IF base = c THEN NoControl ELSE base

(* extendsFrom of every control: it never has more than one member.        *)
Bases(ev) ==
    [c \in AllControls(ev) |->
        IF Linked(ev, c[1]) THEN Ancestor(ev, c) ELSE Sibling(ev, c)]

(* root: down the chain of bases, as many times as there are controls.     *)
Under(bases, c) == IF bases[c] = NoControl THEN c ELSE bases[c]

Chain(bases, c) ==
    LET down[n \in 0..Cardinality(DOMAIN bases)] ==
          IF n = 0 THEN c ELSE Under(bases, down[n - 1]) IN
       down

RootIn(bases, c) == Chain(bases, c)[Cardinality(DOMAIN bases)]

(* extendedBy.length === 0: what is shown when overlayed controls are      *)
(* omitted.                                                                *)
TopIn(bases, c) == \A d \in DOMAIN bases : bases[d] # c

(* What the views use of a control, its hdf wrapper, which is computed     *)
(* once, of its root.                                                      *)
Hdf(c) ==
    [id |-> c.id, status |-> Status(c), severity |-> Severity(c), waived |-> c.waived,
     tags |-> ProperTags(c), tests |-> Len(c.results)]

Row(file, ev, bases, c) ==
    [file |-> file, at |-> c, profile |-> ev[c[1]].name, hdf |-> Hdf(At(ev, c)),
     root |-> Hdf(At(ev, RootIn(bases, c))), rootAt |-> RootIn(bases, c),
     top |-> TopIn(bases, c)]

Context(file, ev) ==
    LET bases == Bases(ev) IN {Row(file, ev, bases, c) : c \in AllControls(ev)}

-----------------------------------------------------------------------------
(* What a reader of the views may rely on, of any evaluation whose         *)
(* profiles do not overlay each other in a circle.                         *)

IsList(s) == s \in Seq(ToSet(s))

Acyclic(ev) ==
    \E depth \in [DOMAIN ev -> DOMAIN ev] :
        \A p \in DOMAIN ev : ParentOf(ev, p) # 0 => depth[ParentOf(ev, p)] < depth[p]

Scan(ev) ==
    /\ IsList(ev) /\ Acyclic(ev)
    /\ \A p \in DOMAIN ev : IsList(ev[p].controls)
    /\ \A c \in AllControls(ev) : IsList(At(ev, c).results)

(* The drill-down to the root ends at a control that extends nothing, of   *)
(* the same id, and no control is overlayed by itself in a circle.         *)
RootsEnd(ev) ==
    LET bases == Bases(ev) IN
       \A c \in AllControls(ev) :
           /\ bases[RootIn(bases, c)] = NoControl
           /\ At(ev, RootIn(bases, c)).id = At(ev, c).id

(* The results of a control that was run are those of a shown row, unless  *)
(* it overlays one of its own id, or its profile is linked to none and     *)
(* another control of the id was run before it in the file.                *)
ResultsShown(ev) ==
    LET rows == Context(0, ev) IN
       \A r \in rows :
           \/ r.hdf.tests = 0
           \/ \E s \in rows : s.top /\ s.rootAt = r.at
           \/ Linked(ev, r.at[1]) /\ Ancestor(ev, r.at) # NoControl
           \/ /\ ~Linked(ev, r.at[1])
              /\ \E s \in rows : s.hdf.id = r.hdf.id /\ s.hdf.tests > 0 /\ Ahead(s.at, r.at)

(* Where the profiles that hold a requirement, each once, overlay each     *)
(* other in one line, down to a bottom, it is shown in one row, and the    *)
(* row has the results of the bottom.                                      *)
ShownOnce(ev) ==
    LET rows == Context(0, ev) IN
       \A id \in {r.hdf.id : r \in rows} :
           LET of == {r \in rows : r.hdf.id = id}
               held == {r.at[1] : r \in of}
               once == \A r, s \in of : r.at[1] = s.at[1] => r = s IN
              once => \A bottom \in held :
                 (\A p \in held : p = bottom \/ held \cap ExtendsFrom(ev, p) # {}) =>
                    \E r \in of : {s \in of : s.top} = {r} /\ r.rootAt[1] = bottom

(* A control passes only with a test that passed, and with none that       *)
(* failed or went wrong.                                                   *)
NoFalsePass(c) ==
    Status(c) = "Passed" => Has(c, "passed") /\ ~Has(c, "failed") /\ ~Has(c, "error")
=============================================================================
