--------------------------- MODULE MCClientProofs ---------------------------
(***************************************************************************)
(* Proofs about the parts of MCClient.  First the results page, for any    *)
(* loaded data, filter and number of clicks.                               *)
(***************************************************************************)
EXTENDS MCClient, ClientLists, ListLemmas

(* Steps that leave the table to TableStays.                               *)
LEMMA Steps ==
    ASSUME [Next]_vars
    PROVE  \/ TableStays
           \/ SwitchExpandAll \/ SwitchSingle \/ \E k \in Keys : Toggle(k)
           \/ UNCHANGED vars
  BY DEF Next, SelectFiles, PickStatus, ShowErrors, ShowWaived, PickSeverity, Search,
         Clear, DiveInto, PickLeaf, Up

AtMostOne == single \in BOOLEAN /\ (single => expanded = {} \/ \E k : expanded = {k})

LEMMA AtMostOneStep ==
    ASSUME AtMostOne, [Next]_vars PROVE AtMostOne'
<1>1. CASE TableStays \/ UNCHANGED vars
  BY <1>1 DEF TableStays, vars, AtMostOne
<1>2. CASE SwitchExpandAll
  BY <1>2 DEF SwitchExpandAll, Expand, AtMostOne
<1>3. CASE SwitchSingle
  BY <1>3 DEF SwitchSingle, Expand, AtMostOne
<1>4. ASSUME NEW k \in Keys, Toggle(k) PROVE AtMostOne'
  BY <1>4 DEF Toggle, Expand, AtMostOne
<1> QED
  BY <1>1, <1>2, <1>3, <1>4, Steps

(* With single expand on no more than one row is open, whichever switches  *)
(* and rows were used before.                                              *)
LEMMA SingleExpandIsSingle == Spec => []SingleExpandOne
<1>1. Init => AtMostOne
  BY DEF Init, AtMostOne
<1>2. AtMostOne /\ [Next]_vars => AtMostOne'
  BY AtMostOneStep
<1>3. AtMostOne => SingleExpandOne
  <2>1. ASSUME expanded = {} PROVE Cardinality(expanded) <= 1
    BY <2>1, FS_EmptySet
  <2>2. ASSUME NEW k, expanded = {k} PROVE Cardinality(expanded) <= 1
    <3>1. Cardinality({k}) = 1
      BY FS_Singleton
    <3> QED
      BY <2>2, <3>1
  <2> QED
    BY <2>1, <2>2 DEF AtMostOne, SingleExpandOne
<1> QED
  BY <1>1, <1>2, <1>3, PTL DEF Spec

-----------------------------------------------------------------------------

(* The open rows are among those shown, as long as these have not moved.   *)
OpenAreShown ==
    /\ selected \subseteq File /\ moved \in BOOLEAN
    /\ ~moved => expanded \subseteq Keys

LEMMA SelectedFiles ==
    ASSUME selected \subseteq File, [Next]_vars PROVE selected' \subseteq File
  BY DEF Next, vars, filters, SelectFiles, PickStatus, ShowErrors, ShowWaived, PickSeverity,
         Search, Clear, DiveInto, PickLeaf, Up, SwitchExpandAll, SwitchSingle, Toggle, Expand

LEMMA KeysStay ==
    ASSUME UNCHANGED filters PROVE Keys' = Keys
  BY DEF filters, Keys, Items, AllFilter, TreemapFilter

LEMMA OpenStep ==
    ASSUME OpenAreShown, [Next]_vars PROVE OpenAreShown'
<1>1. selected' \subseteq File
  BY SelectedFiles DEF OpenAreShown
<1>2. CASE TableStays
  <2>1. expanded' = expanded /\ moved' = (expanded # {} /\ (moved \/ Keys' # Keys))
    BY <1>2 DEF TableStays
  <2>2. moved' \in BOOLEAN
    BY <2>1
  <2>3. ASSUME ~moved' PROVE expanded' \subseteq Keys'
    <3>1. expanded = {} \/ (~moved /\ Keys' = Keys)
      BY <2>1, <2>3
    <3> QED
      BY <2>1, <3>1 DEF OpenAreShown
  <2> QED
    BY <1>1, <2>2, <2>3 DEF OpenAreShown
<1>3. CASE SwitchExpandAll
  BY <1>1, <1>3, KeysStay DEF SwitchExpandAll, Expand, OpenAreShown
<1>4. CASE SwitchSingle
  BY <1>1, <1>4, KeysStay DEF SwitchSingle, Expand, OpenAreShown
<1>5. ASSUME NEW k \in Keys, Toggle(k) PROVE OpenAreShown'
  <2>1. CASE k \in expanded
    BY <1>1, <1>5, <2>1, KeysStay DEF Toggle, Expand, OpenAreShown
  <2>2. CASE k \notin expanded
    <3>1. /\ expanded' = IF single THEN {k} ELSE expanded \cup {k}
          /\ moved' = (moved /\ ~single) /\ Keys' = Keys
      BY <1>5, <2>2, KeysStay DEF Toggle
    <3>2. moved' \in BOOLEAN
      BY <3>1
    <3>3. ASSUME ~moved' PROVE expanded' \subseteq Keys'
      BY <3>1, <3>3 DEF OpenAreShown
    <3> QED
      BY <1>1, <3>2, <3>3 DEF OpenAreShown
  <2> QED
    BY <2>1, <2>2
<1>6. CASE UNCHANGED vars
  <2>1. Keys' = Keys
    BY <1>6, KeysStay DEF vars, filters
  <2> QED
    BY <1>6, <2>1 DEF vars, OpenAreShown
<1> QED
  BY <1>2, <1>3, <1>4, <1>5, <1>6, Steps

LEMMA KeysFinite ==
    ASSUME selected \subseteq File PROVE IsFiniteSet(Keys)
<1>1. Items \subseteq UNION {RowsOf[f] : f \in File}
  BY DEF Items, Controls, AllFilter, TreemapFilter
<1>2. IsFiniteSet(Items)
  BY <1>1, FS_Subset, RowsAssumption
<1> DEFINE K == {Key(row) : row \in Items}
<1>3. [row \in Items |-> Key(row)] \in Surjection(Items, K)
  BY DEF Surjection
<1>4. IsFiniteSet(K)
  BY <1>2, <1>3, FS_Surjection
<1> QED
  BY <1>4 DEF Keys

(* The switch of the table tells whether all rows are open, as long as the *)
(* rows stay those they were when one was opened, for any finite data.     *)
LEMMA SwitchIsHonest ==
    Spec => []ExpandAllHonest
<1>1. Init => OpenAreShown
  BY DEF Init, OpenAreShown
<1>2. OpenAreShown /\ [Next]_vars => OpenAreShown'
  BY OpenStep
<1>3. OpenAreShown => ExpandAllHonest
  <2> SUFFICES ASSUME OpenAreShown, ~moved
               PROVE  ExpandAllOn <=> Keys \subseteq expanded
    BY DEF ExpandAllHonest
  <2>1. IsFiniteSet(Keys) /\ expanded \subseteq Keys
    BY KeysFinite DEF OpenAreShown
  <2>2. ASSUME Keys \subseteq expanded PROVE ExpandAllOn
    BY <2>1, <2>2 DEF ExpandAllOn
  <2>3. ASSUME ExpandAllOn PROVE Keys \subseteq expanded
    <3>1. Cardinality(expanded) = Cardinality(Keys) => expanded = Keys
      BY <2>1, FS_Subset
    <3> QED
      BY <2>3, <3>1 DEF ExpandAllOn
  <2> QED
    BY <2>2, <2>3
<1> QED
  BY <1>1, <1>2, <1>3, PTL DEF Spec

-----------------------------------------------------------------------------
(* The filters and the treemap.                                            *)

LEMMA PrefixIs ==
    ASSUME NEW s \in Seq(STRING), NEW t \in Seq(STRING)
    PROVE  IsPrefix(s, t) <=> Len(s) <= Len(t) /\ \A i \in 1..Len(s) : s[i] = t[i]
<1>1. Len(s) \in Nat /\ Len(t) \in Nat
  BY LenProperties
<1>2. ASSUME Len(s) <= Len(t)
      PROVE  SubSeq(s, 1, Len(s)) = SubSeq(t, 1, Len(s)) <=> \A i \in 1..Len(s) : s[i] = t[i]
  <2> DEFINE a == SubSeq(s, 1, Len(s))
             b == SubSeq(t, 1, Len(s))
  <2>0. /\ \A i \in 1..Len(s) : s[i] \in STRING
        /\ \A i \in 1..Len(s) : t[i] \in STRING
    BY <1>1, <1>2, ElementOfSeq
  <2>1. a \in Seq(STRING) /\ Len(a) = Len(s) /\ \A i \in 1..Len(s) : a[i] = s[i]
    BY <1>1, <2>0, SubSeqProperties
  <2>2. b \in Seq(STRING) /\ Len(b) = Len(s) /\ \A i \in 1..Len(s) : b[i] = t[i]
    BY <1>1, <2>0, SubSeqProperties
  <2> HIDE DEF a, b
  <2>3. a = b <=> \A i \in 1..Len(s) : a[i] = b[i]
    BY <2>1, <2>2, SeqEqual
  <2> QED
    BY <2>1, <2>2, <2>3 DEF a, b
<1> QED
  BY <1>1, <1>2 DEF IsPrefix

(* The first specifiers of a sequence of them.                             *)
LEMMA CutIs ==
    ASSUME NEW t \in Seq(STRING), NEW n \in 0..Len(t)
    PROVE  /\ SubSeq(t, 1, n) \in Seq(STRING) /\ Len(SubSeq(t, 1, n)) = n
           /\ \A i \in 1..n : SubSeq(t, 1, n)[i] = t[i]
<1>1. Len(t) \in Nat /\ \A i \in 1..n : t[i] \in STRING
  BY LenProperties, ElementOfSeq
<1> QED
  BY <1>1, SubSeqProperties

LEMMA NoNodeEmpty == <<>> \notin Hierarchy
<1>1. Len(<<>>) = 0
  BY EmptySeq
<1> QED
  BY <1>1, HierarchyAssumption

Way(p) == p \in Hierarchy \cup {<<>>}

LEMMA WayIs ==
    ASSUME NEW p, Way(p)
    PROVE  /\ p \in Seq(STRING) /\ Len(p) \in 0..2 /\ (p # <<>> => Len(p) \in {1, 2})
           /\ \A d \in 1..Len(p) : SubSeq(p, 1, d) \in Hierarchy
           /\ p # <<>> => \A rows : HasChildren(rows, SubSeq(p, 1, 1))
<1>1. CASE p = <<>>
  BY <1>1
<1>2. CASE p \in Hierarchy
  <2>1. p \in Seq(STRING) /\ Len(p) \in {1, 2}
    BY <1>2, HierarchyAssumption
  <2>2. SubSeq(p, 1, Len(p)) = p
    BY <2>1, SubSeqFull
  <2>3. ASSUME Len(p) = 2 PROVE SubSeq(p, 1, 1) \in Hierarchy
    <3>1. Front(p) = SubSeq(p, 1, 1)
      BY <2>3 DEF Front
    <3>2. SubSeq(p, 1, 1) # <<>>
      BY <2>1, <2>3, CutIs
    <3> QED
      BY <1>2, <3>1, <3>2, HierarchyAssumption
  <2>4. SubSeq(p, 1, 1) \in Hierarchy /\ Len(SubSeq(p, 1, 1)) = 1
    <3>1. Len(p) = 1 => SubSeq(p, 1, 1) \in Hierarchy
      BY <1>2, <2>2
    <3>2. 1 \in 0..Len(p)
      BY <2>1
    <3>3. Len(SubSeq(p, 1, 1)) = 1
      BY <2>1, <3>2, CutIs
    <3> QED
      BY <2>1, <2>3, <3>1, <3>3
  <2>5. \A rows : HasChildren(rows, SubSeq(p, 1, 1))
    <3>1. PICK m \in Hierarchy : Len(m) = 2 /\ IsPrefix(SubSeq(p, 1, 1), m)
      BY <2>4, HierarchyAssumption
    <3>2. m \in Inner(SubSeq(p, 1, 1))
      BY <2>4, <3>1 DEF Inner
    <3> QED
      BY <3>2 DEF HasChildren
  <2>6. \A d \in 1..Len(p) : SubSeq(p, 1, d) \in Hierarchy
    <3>1. \A d \in 1..Len(p) : d = 1 \/ d = Len(p)
      <4> DEFINE n == Len(p)
      <4>1. n = 1 \/ n = 2
        BY <2>1
      <4> HIDE DEF n
      <4>2. \A d \in 1..n : d = 1 \/ d = n
        BY <4>1
      <4> QED
        BY <4>2 DEF n
    <3> QED
      BY <1>2, <2>2, <2>4, <3>1
  <2> QED
    BY <2>1, <2>5, <2>6
<1> QED
  BY <1>1, <1>2 DEF Way

(* Wherever the treemap is sent, it comes to a node of the tree, and never *)
(* back to the top unless it was sent there.                               *)
LEMMA ReachedIs ==
    ASSUME NEW rows, NEW p, Way(p)
    PROVE  Way(Reached(rows, p)) /\ (p # <<>> => Reached(rows, p) # <<>>)
<1> DEFINE open == {d \in 0..Len(p) :
                      \A k \in 1..d : /\ SubSeq(p, 1, k) \in Hierarchy
                                      /\ HasChildren(rows, SubSeq(p, 1, k))}
           m == Max(open)
<1>1. /\ p \in Seq(STRING) /\ Len(p) \in 0..2 /\ (p # <<>> => Len(p) \in {1, 2})
      /\ \A d \in 1..Len(p) : SubSeq(p, 1, d) \in Hierarchy
      /\ p # <<>> => HasChildren(rows, SubSeq(p, 1, 1))
  BY WayIs
<1>2. 0 \in open /\ open \subseteq {0, 1, 2}
  <2>1. open \subseteq 0..Len(p) /\ 0 \in 0..Len(p)
    BY <1>1
  <2>2. \A k \in 1..0 : /\ SubSeq(p, 1, k) \in Hierarchy
                        /\ HasChildren(rows, SubSeq(p, 1, k))
    OBVIOUS
  <2>3. 0 \in open
    BY <2>1, <2>2
  <2>4. 0..Len(p) \subseteq {0, 1, 2}
    <3> DEFINE n == Len(p)
    <3>1. n \in {0, 1, 2}
      BY <1>1
    <3> HIDE DEF n
    <3>2. 0..n \subseteq {0, 1, 2}
      BY <3>1
    <3> QED
      BY <3>2 DEF n
  <2> HIDE DEF open
  <2> QED
    BY <2>1, <2>3, <2>4
<1>3. \E x \in open : \A y \in open : x >= y
  <2>1. CASE 2 \in open
    BY <1>2, <2>1
  <2>2. CASE 2 \notin open /\ 1 \in open
    BY <1>2, <2>2
  <2>3. CASE 2 \notin open /\ 1 \notin open
    BY <1>2, <2>3
  <2> QED
    BY <2>1, <2>2, <2>3
<1>4. m \in open /\ \A y \in open : m >= y
  BY <1>3 DEF Max
<1>5. Reached(rows, p) = SubSeq(p, 1, m)
  BY DEF Reached
<1>6. p # <<>> => 1 \in open
  BY <1>1
<1>7. m \in 0..Len(p)
  BY <1>4
<1> HIDE DEF open, m
<1>8. CASE m = 0
  <2>1. SubSeq(p, 1, 0) = <<>>
    BY SubSeqEmpty
  <2>2. p = <<>>
    BY <1>4, <1>6, <1>8
  <2> QED
    BY <1>5, <1>8, <2>1, <2>2 DEF Way
<1>9. CASE m # 0
  <2>1. m \in 1..Len(p)
    BY <1>1, <1>7, <1>9
  <2>2. SubSeq(p, 1, m) \in Hierarchy
    BY <1>1, <2>1
  <2>3. SubSeq(p, 1, m) # <<>>
    BY <2>2, NoNodeEmpty
  <2> QED
    BY <1>5, <2>2, <2>3 DEF Way
<1> QED
  BY <1>8, <1>9

(* A leaf stays picked under a node only: what is at the top is no leaf.   *)
LeafUnderNode == selected \subseteq File /\ Way(path) /\ (control # AnyValue => path # <<>>)

LEMMA GoToIs ==
    ASSUME NEW p, Way(p), GoTo(p)
    PROVE  Way(path') /\ (p # <<>> => path' # <<>>)
  BY ReachedIs DEF GoTo

LEMMA LeafStep ==
    ASSUME LeafUnderNode, [Next]_vars PROVE LeafUnderNode'
<1>0. selected' \subseteq File
  BY SelectedFiles DEF LeafUnderNode
<1>1. ASSUME GoTo(path), control' = control PROVE LeafUnderNode'
  BY <1>0, <1>1, GoToIs DEF LeafUnderNode, Way
<1>2. CASE SelectFiles \/ PickStatus \/ ShowErrors \/ ShowWaived \/ PickSeverity \/ Search
  BY <1>1, <1>2 DEF SelectFiles, PickStatus, ShowErrors, ShowWaived, PickSeverity, Search
<1>3. CASE Clear
  BY <1>0, <1>3 DEF Clear, LeafUnderNode, Way
<1>4. CASE DiveInto
  <2>1. PICK n \in Inner(path) : GoTo(n)
    BY <1>4 DEF DiveInto
  <2>2. Way(n) /\ n # <<>>
    BY NoNodeEmpty DEF Inner, Way
  <2> QED
    BY <1>0, <1>4, <2>1, <2>2, GoToIs DEF DiveInto, LeafUnderNode, Way
<1>5. CASE PickLeaf
  <2>1. path \in Hierarchy /\ path' = path
    BY <1>5 DEF PickLeaf, Leaves
  <2> QED
    BY <1>0, <2>1, NoNodeEmpty DEF LeafUnderNode, Way
<1>6. CASE Up
  <2>1. path \in Hierarchy
    BY <1>6 DEF Up, LeafUnderNode, Way
  <2>2. Way(Front(path)) /\ control' = AnyValue
    BY <1>6, <2>1, HierarchyAssumption DEF Up, Way
  <2>3. GoTo(Front(path))
    BY <1>6 DEF Up
  <2> QED
    BY <1>0, <2>2, <2>3, GoToIs DEF LeafUnderNode, Way
<1>7. CASE UNCHANGED filters
  BY <1>0, <1>7 DEF filters, LeafUnderNode, Way
<1>8. ASSUME SwitchExpandAll \/ SwitchSingle \/ (\E k \in Keys : Toggle(k)) \/ UNCHANGED vars
      PROVE  UNCHANGED filters
  BY <1>8 DEF SwitchExpandAll, SwitchSingle, Toggle, Expand, vars, filters
<1> QED
  BY <1>2, <1>3, <1>4, <1>5, <1>6, <1>7, <1>8 DEF Next

LEMMA ClearIsAvailable == LeafUnderNode => ClearAvailable
<1> SUFFICES ASSUME LeafUnderNode, ~CanClear
             PROVE  Items = Controls(FilesOnly(selected, TRUE))
  BY DEF ClearAvailable
<1>1. severity = AnyValue /\ status = AnyValue /\ term = AnyValue /\ path = <<>>
  BY DEF CanClear
<1>2. control = AnyValue
  BY <1>1 DEF LeafUnderNode
<1>3. AllFilter = FilesOnly(selected, TRUE)
  <2> DEFINE f == FilesOnly(selected, TRUE)
  <2>1. TreemapFilter = f /\ f.id = control /\ f.path = path
    BY <1>1, <1>2 DEF TreemapFilter, FilesOnly
  <2>2. [f EXCEPT !.id = control, !.path = path] = f
    BY <2>1 DEF FilesOnly
  <2> QED
    BY <2>1, <2>2 DEF AllFilter
<1> QED
  BY <1>3 DEF Items

(* What is shown with no leaf picked: what the treemap is given, under the *)
(* node that is shown.                                                     *)
LEMMA ItemsInTree ==
    ASSUME control = AnyValue
    PROVE  Items = {row \in Controls(TreemapFilter) : InTree(row, path)}
<1> DEFINE f == TreemapFilter
           g == AllFilter
<1>1. /\ f.files = selected /\ f.id = AnyValue /\ f.status = status /\ f.severity = severity
      /\ f.omit = TRUE /\ f.term = term /\ f.path = <<>>
  BY DEF TreemapFilter
<1>2. /\ g.files = selected /\ g.id = AnyValue /\ g.status = status /\ g.severity = severity
      /\ g.omit = TRUE /\ g.term = term /\ g.path = path
  BY DEF TreemapFilter, AllFilter
<1> HIDE DEF f, g
<1>3. \A row : row \in Controls(g) <=> row \in Controls(f) /\ InTree(row, path)
  BY <1>1, <1>2 DEF Controls, InTree
<1> QED
  BY <1>3 DEF Items, f, g

(* A tag is under a node exactly when its first specifiers are.            *)
LEMMA UnderNode ==
    ASSUME NEW t \in Seq(STRING), NEW p, Way(p)
    PROVE  IsPrefix(p, t) <=> IsPrefix(p, SubSeq(t, 1, Min({2, Len(t)})))
<1> DEFINE n == Min({2, Len(t)})
           c == SubSeq(t, 1, n)
<1>1. Len(t) \in Nat /\ p \in Seq(STRING) /\ Len(p) \in 0..2
  BY WayIs, LenProperties
<1>2. n = IF Len(t) < 2 THEN Len(t) ELSE 2
  BY <1>1 DEF Min
<1>3. n \in 0..Len(t) /\ n <= 2 /\ (Len(t) >= 2 => n = 2) /\ (Len(t) < 2 => n = Len(t))
  BY <1>1, <1>2
<1> HIDE DEF n
<1>4. c \in Seq(STRING) /\ Len(c) = n /\ \A i \in 1..n : c[i] = t[i]
  BY <1>3, CutIs
<1> HIDE DEF c
<1>5. Len(p) <= Len(t) <=> Len(p) <= n
  <2> DEFINE a == Len(p)
             b == Len(t)
  <2>1. a \in 0..2 /\ b \in Nat /\ n \in 0..b /\ n <= 2 /\ (b >= 2 => n = 2) /\ (b < 2 => n = b)
    BY <1>1, <1>3
  <2> HIDE DEF a, b
  <2>2. a <= b <=> a <= n
    BY <2>1
  <2> QED
    BY <2>2 DEF a, b
<1>6. IsPrefix(p, t) <=> Len(p) <= Len(t) /\ \A i \in 1..Len(p) : p[i] = t[i]
  BY <1>1, PrefixIs
<1>7. IsPrefix(p, c) <=> Len(p) <= n /\ \A i \in 1..Len(p) : p[i] = c[i]
  BY <1>1, <1>4, PrefixIs
<1>8. Len(p) <= n => \A i \in 1..Len(p) : c[i] = t[i]
  BY <1>1, <1>3, <1>4
<1> QED
  BY <1>5, <1>6, <1>7, <1>8 DEF c, n

LEMMA TableIsUnderMap == LeafUnderNode => MapInTable
<1> DEFINE rows == Controls(TreemapFilter)
           under == UNION {Leaves(rows, n) : n \in {m \in Hierarchy : IsPrefix(path, m)}}
           cut(t) == SubSeq(t, 1, Min({2, Len(t)}))
           stray(row) == \E t \in row.root.tags : cut(t) \notin Hierarchy
<1> SUFFICES ASSUME LeafUnderNode, control = AnyValue
             PROVE  under \subseteq Items /\ \A row \in Items \ under : stray(row)
  BY DEF MapInTable
<1>1. Way(path) /\ Items = {row \in rows : InTree(row, path)}
  BY ItemsInTree DEF LeafUnderNode
<1>2. \A row \in rows : row.root.tags # {} /\ \A t \in row.root.tags : t \in Seq(STRING)
  <2>1. \A row \in rows : \E f \in selected : row \in RowsOf[f]
    BY DEF Controls, TreemapFilter
  <2> QED
    BY <2>1, RowsAssumption DEF LeafUnderNode
<1>3. \A row : row \in under <=>
         row \in rows /\ \E t \in row.root.tags : cut(t) \in Hierarchy /\ IsPrefix(path, cut(t))
  <2>1. \A n : Leaves(rows, n) = {row \in rows : n \in Hierarchy /\ \E t \in row.root.tags : cut(t) = n}
    BY DEF Leaves
  <2> HIDE DEF rows
  <2>2. \A row : row \in under <=> \E n \in Hierarchy : IsPrefix(path, n) /\ row \in Leaves(rows, n)
    OBVIOUS
  <2> HIDE DEF under, cut
  <2> QED
    BY <2>1, <2>2
<1> HIDE DEF rows, under
<1>4. \A row \in rows : InTree(row, path) <=> path = <<>> \/ \E t \in row.root.tags : IsPrefix(path, t)
  BY DEF InTree, ContainsTag
<1>5. \A row \in rows : \A t \in row.root.tags : IsPrefix(path, t) <=> IsPrefix(path, cut(t))
  BY <1>1, <1>2, UnderNode
<1>6. under \subseteq Items
  BY <1>1, <1>3, <1>4, <1>5
<1>7. path = <<>> => \A row \in rows : \A t \in row.root.tags : IsPrefix(path, t)
  <2>1. \A t \in Seq(STRING) : IsPrefix(<<>>, t)
    <3>1. <<>> \in Seq(STRING) /\ Len(<<>>) = 0
      BY EmptySeq
    <3> SUFFICES ASSUME NEW t \in Seq(STRING) PROVE IsPrefix(<<>>, t)
      OBVIOUS
    <3>2. Len(<<>>) <= Len(t)
      BY <3>1, LenProperties
    <3>3. \A i \in 1..Len(<<>>) : <<>>[i] = t[i]
      BY <3>1
    <3> QED
      BY <3>1, <3>2, <3>3, PrefixIs
  <2> QED
    BY <1>2, <2>1
<1>8. ASSUME NEW row \in Items \ under PROVE stray(row)
  <2>1. row \in rows /\ \E t \in row.root.tags : IsPrefix(path, t)
    BY <1>1, <1>2, <1>4, <1>7
  <2>2. PICK t \in row.root.tags : IsPrefix(path, t)
    BY <2>1
  <2>3. cut(t) \notin Hierarchy
    BY <1>3, <1>5, <2>1, <2>2
  <2> QED
    BY <2>3
<1> QED
  BY <1>6, <1>8

(* Single expand is single and the switch tells whether all rows are open, *)
(* for any finite data, filters and clicks (ControlTable.vue).             *)
THEOREM ExpansionStaysHonest == Spec => []ExpansionHonest
<1>1. SingleExpandOne /\ ExpandAllHonest => ExpansionHonest
  BY DEF ExpansionHonest
<1> QED
  BY <1>1, SingleExpandIsSingle, SwitchIsHonest, PTL

(* Whatever hides a control of the selected files can be cleared, and the  *)
(* table shows what is under the node of the treemap (Results.vue,         *)
(* Treemap.vue).                                                           *)
THEOREM FiltersAreShown == Spec => []FiltersShown
<1>1. Init => LeafUnderNode
  BY DEF Init, LeafUnderNode, Way
<1>2. LeafUnderNode /\ [Next]_vars => LeafUnderNode'
  BY LeafStep
<1>3. LeafUnderNode => FiltersShown
  BY ClearIsAvailable, TableIsUnderMap DEF FiltersShown
<1> QED
  BY <1>1, <1>2, <1>3, PTL DEF Spec

-----------------------------------------------------------------------------
(* What the steps of the whole are for one of its parts.                   *)

LEMMA ClientInits == PartsInit => Init /\ F!Init /\ G!Init
  BY DEF PartsInit, FilesIdle, GroupsIdle, ResultsIdle

LEMMA FilesPart == [PartsNext]_partsVars => [F!Next]_(F!vars)
  BY DEF PartsNext, partsVars, fileVars, F!vars

LEMMA GroupsPart == [PartsNext]_partsVars => [G!Next]_(G!vars)
  BY DEF PartsNext, partsVars, groupVars, G!vars

LEMMA ResultsPart == [PartsNext]_partsVars => [Next]_vars
  BY DEF PartsNext, partsVars, resultVars, vars

LEMMA InputStays == [PartsNext]_partsVars => part' = part /\ input' = input
  BY DEF PartsNext, partsVars

(* The results page among the others behaves as on its own.                *)
LEMMA ResultsOfParts == PartsSpec => Spec
  BY ClientInits, ResultsPart, PTL DEF PartsSpec, Spec

-----------------------------------------------------------------------------
(* Statuses and compliance.                                                *)

LEMMA NoFalsePassEver == \A c : NoFalsePass(c)
  BY DEF NoFalsePass, Status

(* Full compliance is what it says, for any two counts.                    *)
LEMMA FullMeansFullEver ==
    ASSUME NEW passed \in Nat, NEW total \in Nat PROVE FullMeansFull(passed, total)
<1> SUFFICES ASSUME passed <= total, total > 0
             PROVE  Percent(passed, total) = 100
                       <=> passed = total \/ 200 * (total - passed) <= total
  BY DEF FullMeansFull
<1> DEFINE a == 200 * passed + total
           b == 2 * total
           q == a \div b
<1>1. a \in Nat /\ b \in Nat /\ b > 0 /\ q \in Int
  OBVIOUS
<1>2. b * q <= a /\ a < b * q + b
  BY <1>1
<1>3. Percent(passed, total) = q
  BY DEF Percent
<1>4. q = 100 => 200 * (total - passed) <= total
  <2> SUFFICES ASSUME q = 100 PROVE 200 * (total - passed) <= total
    OBVIOUS
  <2>1. b * 100 <= a
    BY <1>2
  <2> QED
    BY <2>1
<1>5. ASSUME 200 * (total - passed) <= total PROVE q = 100
  <2>1. b * 100 <= a /\ a < b * 101
    BY <1>5
  <2> HIDE DEF a, b, q
  <2>2. q < 101
    BY <1>1, <1>2, <2>1
  <2>3. q > 99
    BY <1>1, <1>2, <2>1
  <2> QED
    BY <1>1, <2>2, <2>3
<1> QED
  BY <1>3, <1>4, <1>5

(* The sum over no rows.                                                   *)
LEMMA NoTests == C!TestsOf({}) = 0
  BY DEF C!TestsOf, C!FoldSet, C!MapThenFoldSet

-----------------------------------------------------------------------------
(* The comparison page.                                                    *)

(* The operators an instance brings along are the library's.               *)
LEMMA SamePick ==
    /\ \A s, at : C!Pick(s, at) = Pick(s, at)
    /\ \A S : C!Cardinality(S) = Cardinality(S)
    /\ \A q : C!ToSet(q) = ToSet(q)
    /\ \A S : C!Min(S) = Min(S)
  BY DEF C!Pick, Pick, C!Nth, Nth, C!Cardinality, Cardinality, C!ToSet, ToSet, C!Min, Min

LEMMA TimesIs ==
    /\ ByTime \in Seq(Compared) /\ DOMAIN ByTime = 1..Len(ByTime) /\ Len(ByTime) \in Nat
    /\ \A f \in Compared : \E i \in DOMAIN ByTime : ByTime[i] = f
  BY CompareAssumption, LenProperties DEF ToSet

(* The files of a selection, sorted.                                       *)
LEMMA WithinIs ==
    ASSUME NEW T
    PROVE  /\ C!Within(ByTime, T) \in Seq(Compared)
           /\ Len(C!Within(ByTime, T)) = Cardinality({i \in DOMAIN ByTime : ByTime[i] \in T})
           /\ ToSet(C!Within(ByTime, T)) = T \cap Compared
<1> DEFINE at == {i \in DOMAIN ByTime : ByTime[i] \in T}
           q == Pick(ByTime, at)
<1>1. C!Within(ByTime, T) = q
  BY TimesIs, SamePick DEF C!Within
<1>2. at \in SUBSET (DOMAIN ByTime) /\ \A i \in at : ByTime[i] \in T \cap Compared
  BY TimesIs, ElementOfSeq
<1>5. \A f \in T \cap Compared : \E i \in at : ByTime[i] = f
  BY TimesIs
<1> HIDE DEF at
<1>3. /\ q \in Seq(Compared) /\ Len(q) = Cardinality(at) /\ DOMAIN q = 1..Cardinality(at)
      /\ \A k \in 1..Cardinality(at) : Nth(at, k) \in at /\ q[k] = ByTime[Nth(at, k)]
      /\ \A i \in at : \E k \in 1..Cardinality(at) : Nth(at, k) = i /\ q[k] = ByTime[i]
  BY <1>2, TimesIs, PickIs
<1> HIDE DEF q
<1>6. ToSet(q) = T \cap Compared
  BY <1>2, <1>3, <1>5 DEF ToSet
<1> QED
  BY <1>1, <1>3, <1>6 DEF at

LEMMA WithinGrows ==
    ASSUME NEW S, NEW T, S \subseteq T
    PROVE  Len(C!Within(ByTime, S)) <= Len(C!Within(ByTime, T))
<1> DEFINE a == {i \in DOMAIN ByTime : ByTime[i] \in S}
           b == {i \in DOMAIN ByTime : ByTime[i] \in T}
<1>1. IsFiniteSet(DOMAIN ByTime)
  <2>1. 1 \in Int /\ Len(ByTime) \in Int
    BY TimesIs
  <2> QED
    BY <2>1, TimesIs, FS_Interval, Zenon
<1>2. a \subseteq b /\ IsFiniteSet(b)
  BY <1>1, FS_Subset
<1> HIDE DEF a, b
<1>3. Cardinality(a) <= Cardinality(b)
  BY <1>2, FS_Subset
<1> QED
  BY <1>3, WithinIs DEF a, b

LEMMA FilesAre == C!Files = C!Within(ByTime, compared)
  BY DEF C!Files

LEMMA ShownAre ==
    /\ C!Files \in Seq(Compared) /\ Len(C!Files) \in Nat
    /\ C!NumShown = IF Len(C!Files) < 2 THEN Len(C!Files) ELSE 2
<1>1. C!Files \in Seq(Compared) /\ Len(C!Files) \in Nat
  BY FilesAre, WithinIs, LenProperties
<1> DEFINE n == Len(C!Files)
<1> HIDE DEF n
<1>2. n \in Nat => Min({2, n}) = IF n < 2 THEN n ELSE 2
  BY DEF Min
<1> QED
  BY <1>1, <1>2, SamePick DEF C!NumShown, n

(* The view is within the files, unless it lost one while it was scrolled. *)
CompareInv ==
    /\ compared \subseteq Compared \cup ProfileFile /\ startIndex \in Nat
    /\ changedOnly \in BOOLEAN /\ narrowed \in BOOLEAN
    /\ ~narrowed => startIndex + C!NumShown <= Len(C!Files)

LEMMA CompareInit == PartsInit => CompareInv
<1> SUFFICES ASSUME PartsInit PROVE CompareInv
  OBVIOUS
<1>1. /\ compared \subseteq Compared \cup ProfileFile /\ startIndex = 0
      /\ changedOnly = TRUE /\ narrowed = FALSE
  BY DEF PartsInit, CompareIdle, C!Init
<1>2. 0 + C!NumShown <= Len(C!Files) /\ 0 \in Nat
  BY ShownAre
<1> QED
  BY <1>1, <1>2, Zenon DEF CompareInv

LEMMA ComparePart == [PartsNext]_partsVars => [C!Next]_(C!vars)
  BY DEF PartsNext, partsVars, compareVars, C!vars

LEMMA CompareStep ==
    ASSUME CompareInv, [C!Next]_(C!vars) PROVE CompareInv'
<1> DEFINE n == Len(C!Files)
           v == C!NumShown
<1>1. n \in Nat /\ v \in Nat /\ v <= n
  BY ShownAre
<1>2. n' \in Nat /\ v' = IF n' < 2 THEN n' ELSE 2
  <2>1. C!Files' \in Seq(Compared) /\ Len(C!Files') \in Nat
    <3>1. C!Files' = C!Within(ByTime, compared')
      BY DEF C!Files, C!Within, C!Pick, C!Nth
    <3> QED
      BY <3>1, WithinIs, LenProperties
  <2> DEFINE m == Len(C!Files')
  <2> HIDE DEF m
  <2>2. m \in Nat => Min({2, m}) = IF m < 2 THEN m ELSE 2
    BY DEF Min
  <2>3. v' = Min({2, m})
    BY SamePick DEF C!NumShown, m
  <2> QED
    BY <2>1, <2>2, <2>3 DEF m
<1>a. v' \in Nat /\ 0 + v' <= n'
  BY <1>2
<1>3. UNCHANGED compared => n' = n
  BY DEF C!Files
<1>4. v = IF n < 2 THEN n ELSE 2
  BY ShownAre
<1>5. compared \subseteq compared' => n <= n'
  <2>1. C!Files' = C!Within(ByTime, compared')
    BY DEF C!Files, C!Within, C!Pick, C!Nth
  <2> QED
    BY <2>1, FilesAre, WithinGrows
<1>6. CompareInv <=> /\ compared \subseteq Compared \cup ProfileFile /\ startIndex \in Nat
                     /\ changedOnly \in BOOLEAN /\ narrowed \in BOOLEAN
                     /\ ~narrowed => startIndex + v <= n
  BY DEF CompareInv
<1>7. CompareInv' <=> /\ compared' \subseteq Compared \cup ProfileFile /\ startIndex' \in Nat
                      /\ changedOnly' \in BOOLEAN /\ narrowed' \in BOOLEAN
                      /\ ~narrowed' => startIndex' + v' <= n'
  BY DEF CompareInv
<1> HIDE DEF n, v
<1>8. CASE C!SelectFiles
  <2>1. narrowed' \in BOOLEAN /\ startIndex' = startIndex /\ changedOnly' = changedOnly
    BY <1>6, <1>8 DEF C!SelectFiles
  <2>2. ASSUME ~narrowed' PROVE startIndex' + v' <= n'
    <3>1. ~narrowed /\ (startIndex = 0 \/ compared \subseteq compared')
      <4>1. narrowed' = (narrowed \/ (startIndex > 0 /\ ~(compared \subseteq compared')))
        BY <1>8 DEF C!SelectFiles
      <4>2. ~narrowed /\ ~(startIndex > 0 /\ ~(compared \subseteq compared'))
        BY <2>2, <4>1, Zenon
      <4>3. startIndex > 0 \/ startIndex = 0
        BY <1>6
      <4> QED
        BY <4>2, <4>3, Zenon
    <3>2. CASE startIndex = 0
      BY <1>a, <2>1, <3>2, Zenon
    <3>3. CASE compared \subseteq compared'
      BY <1>1, <1>2, <1>4, <1>5, <1>6, <2>1, <3>1, <3>3
    <3> QED
      BY <3>1, <3>2, <3>3
  <2> QED
    BY <1>6, <1>7, <1>8, <2>1, <2>2 DEF C!SelectFiles
<1>9. CASE C!ScrollLeft
  BY <1>1, <1>2, <1>3, <1>4, <1>6, <1>7, <1>9 DEF C!ScrollLeft
<1>10. CASE C!ScrollRight
  <2>1. startIndex < n - v
    BY <1>10 DEF C!ScrollRight, n, v
  <2> QED
    BY <1>1, <1>2, <1>3, <1>4, <1>6, <1>7, <1>10, <2>1 DEF C!ScrollRight
<1>11. CASE C!SwitchChangedOnly \/ C!Search \/ UNCHANGED C!vars
  BY <1>1, <1>2, <1>3, <1>4, <1>6, <1>7, <1>11 DEF C!SwitchChangedOnly, C!Search, C!vars
<1>12. CASE C!Revisit
  <2>1. startIndex' + v' <= n' /\ startIndex' \in Nat
    BY <1>a, <1>12 DEF C!Revisit
  <2> QED
    BY <1>6, <1>7, <1>12, <2>1 DEF C!Revisit
<1> QED
  BY <1>8, <1>9, <1>10, <1>11, <1>12 DEF C!Next

LEMMA WindowRight == ASSUME CompareInv PROVE C!WindowInRange
<1> DEFINE n == Len(C!Files)
           v == C!NumShown
           q == C!Files
           last == C!Min({startIndex + v, n})
           seen == SubSeq(q, startIndex + 1, last)
           head == [i \in 1..v |-> C!HeaderAt(i)]
<1> SUFFICES ASSUME ~narrowed
             PROVE  (\A i \in 1..v : C!HeaderAt(i) # AnyValue) /\ C!VisibleRowIds = head
  BY DEF C!WindowInRange
<1>1. /\ q \in Seq(Compared) /\ n \in Nat /\ v \in Nat /\ startIndex \in Nat
      /\ startIndex + v <= n /\ DOMAIN q = 1..n
  BY ShownAre, LenProperties DEF CompareInv
<1>2. \A i \in 1..v : i + startIndex \in DOMAIN q
  <2> HIDE DEF n, v, q
  <2> QED
    BY <1>1
<1>3. \A i \in 1..v : C!HeaderAt(i) = q[i + startIndex] /\ q[i + startIndex] \in Compared
  BY <1>1, <1>2, ElementOfSeq DEF C!HeaderAt
<1>4. last = startIndex + v
  <2> HIDE DEF n, v
  <2>1. Min({startIndex + v, n}) = startIndex + v
    BY <1>1 DEF Min
  <2> QED
    BY <2>1, SamePick
<1>5. C!VisibleRowIds = seen
  BY DEF C!VisibleRowIds
<1> HIDE DEF n, v, q, last
<1>6. /\ seen \in Seq(Compared) /\ Len(seen) = v
      /\ \A i \in 1..v : seen[i] = q[i + startIndex]
  <2>1. \A i \in (startIndex + 1)..last : q[i] \in Compared
    <3>1. \A i \in (startIndex + 1)..last : i \in 1..n
      BY <1>1, <1>4
    <3> QED
      BY <1>1, <3>1, ElementOfSeq DEF n
  <2>2. startIndex + 1 \in Int /\ last \in Int
    BY <1>1, <1>4
  <2>3. /\ seen \in Seq(Compared)
        /\ Len(seen) = IF startIndex + 1 <= last THEN last - (startIndex + 1) + 1 ELSE 0
        /\ \A i \in 1..(last - (startIndex + 1) + 1) : seen[i] = q[startIndex + 1 + i - 1]
    BY <2>1, <2>2, SubSeqProperties
  <2>4. last - (startIndex + 1) + 1 = v /\ (startIndex + 1 <= last <=> v # 0)
    BY <1>1, <1>4
  <2>5. \A i \in 1..v : startIndex + 1 + i - 1 = i + startIndex
    BY <1>1
  <2> HIDE DEF seen
  <2> QED
    BY <1>1, <2>3, <2>4, <2>5
<1>7. head \in Seq(Compared) /\ Len(head) = v /\ \A i \in 1..v : head[i] = seen[i]
  <2>1. \A i \in 1..v : C!HeaderAt(i) \in Compared
    BY <1>3
  <2>2. head \in Seq(Compared)
    BY <1>1, <2>1, IsASeq
  <2>3. Len(head) = v
    BY <1>1, <2>2, LenProperties
  <2> QED
    BY <1>3, <1>6, <2>2, <2>3
<1> HIDE DEF head, seen
<1>8. seen = head
  BY <1>6, <1>7, SeqEqual
<1> QED
  BY <1>3, <1>5, <1>8, CompareAssumption

LEMMA HoldersAre ==
    ASSUME NEW id
    PROVE  C!HoldersOf(id) \subseteq C!ToSet(C!Files)
  BY DEF C!HoldersOf

LEMMA FilesFinite == IsFiniteSet(Compared)
<1>1. ByTime \in Surjection(DOMAIN ByTime, Compared)
  BY TimesIs, ElementOfSeq DEF Surjection
<1>2. IsFiniteSet(DOMAIN ByTime)
  <2>1. 1 \in Int /\ Len(ByTime) \in Int
    BY TimesIs
  <2> QED
    BY <2>1, TimesIs, FS_Interval, Zenon
<1> QED
  BY <1>1, <1>2, FS_Surjection

LEMMA HidesRight == ASSUME CompareInv PROVE C!HidesUnchanged
<1> DEFINE fs == C!ToSet(C!Files)
<1> SUFFICES ASSUME compared \cap ProfileFile = {}, changedOnly
             PROVE  C!SearchedSets \ C!ShowSets =
                       {id \in C!SearchedSets : \A f, g \in fs :
                           f \in C!HoldersOf(id) /\ C!StatusIn(f, id) = C!StatusIn(g, id)}
  BY DEF C!HidesUnchanged
<1>1. compared \subseteq Compared /\ fs = compared /\ IsFiniteSet(compared)
  <2>1. compared \subseteq Compared
    BY DEF CompareInv
  <2>2. fs = compared
    BY <2>1, FilesAre, WithinIs, SamePick
  <2> QED
    BY <2>1, <2>2, FilesFinite, FS_Subset
<1> HIDE DEF fs
<1>2. ASSUME NEW id
      PROVE  C!Cardinality(C!HoldersOf(id)) = C!Cardinality(compared)
                <=> \A f \in fs : f \in C!HoldersOf(id)
  <2>1. C!HoldersOf(id) \subseteq compared
    BY <1>1, HoldersAre DEF fs
  <2>2. Cardinality(C!HoldersOf(id)) = Cardinality(compared) => C!HoldersOf(id) = compared
    BY <1>1, <2>1, FS_Subset
  <2> QED
    BY <1>1, <2>1, <2>2, SamePick
<1>3. ASSUME NEW id
      PROVE  ~C!Changed(id) <=> \A f, g \in fs :
                f \in C!HoldersOf(id) /\ C!StatusIn(f, id) = C!StatusIn(g, id)
  <2>1. C!HoldersOf(id) \subseteq fs
    BY HoldersAre DEF fs
  <2> QED
    BY <1>2, <2>1 DEF C!Changed
<1> QED
  BY <1>3 DEF C!ShowSets

LEMMA DetailsRight == ASSUME C!WindowInRange PROVE C!DetailsMatchColumns
<1> SUFFICES ASSUME ~narrowed, NEW id,
                    C!Within(Loaded, C!ToSet(C!VisibleRowIds))
                       = C!VisibleRowIds,
                    C!ToSet(C!VisibleRowIds) \subseteq C!HoldersOf(id)
             PROVE  C!DeltaOf(id) = [i \in 1..C!NumShown |-> C!HeaderAt(i)]
  BY DEF C!DetailsMatchColumns
<1>1. C!ToSet(C!VisibleRowIds) \cap C!HoldersOf(id) = C!ToSet(C!VisibleRowIds)
  OBVIOUS
<1>2. C!DeltaOf(id) = C!VisibleRowIds
  BY <1>1 DEF C!DeltaOf
<1> QED
  BY <1>2 DEF C!WindowInRange

(* The two charts count the same where every row is shown and none waived. *)
LEMMA ChartsRight == C!ChartsAgree
<1> SUFFICES ASSUME NEW f \in C!ToSet(C!Files),
                    \A row \in RowsOf[f] : row.top /\ ~row.root.waived
             PROVE  C!ComplianceCompared(C!FilesOnly({f}, FALSE))
                       = C!Compliance(C!FilesOnly({f}, TRUE))
  BY DEF C!ChartsAgree
<1> DEFINE a == C!FilesOnly({f}, FALSE)
           b == C!FilesOnly({f}, TRUE)
<1>1. f \in Compared /\ IsFiniteSet(RowsOf[f])
  BY FilesAre, WithinIs, SamePick, CompareAssumption
<1>2. C!Controls(b) = C!Controls(a) /\ C!Controls(a) \subseteq RowsOf[f]
  <2>1. /\ a.files = {f} /\ a.id = AnyValue /\ a.status = AnyValue /\ a.severity = AnyValue
        /\ a.omit = FALSE /\ a.term = AnyValue /\ a.path = <<>>
    BY DEF C!FilesOnly
  <2>2. /\ b.files = {f} /\ b.id = AnyValue /\ b.status = AnyValue /\ b.severity = AnyValue
        /\ b.omit = TRUE /\ b.term = AnyValue /\ b.path = <<>>
    BY DEF C!FilesOnly
  <2> HIDE DEF a, b
  <2>3. UNION {RowsOf[g] : g \in {f}} = RowsOf[f]
    OBVIOUS
  <2> QED
    BY <2>1, <2>2, <2>3 DEF C!Controls
<1>3. \A s : C!CountOf(b, s) = C!CountOf(a, s) /\ C!CountOf(a, s) \in Nat
  <2> SUFFICES ASSUME NEW s PROVE C!CountOf(b, s) = C!CountOf(a, s) /\ C!CountOf(a, s) \in Nat
    OBVIOUS
  <2> DEFINE S == {row \in C!Controls(a) : row.root.status = s}
  <2>1. IsFiniteSet(S)
    BY <1>1, <1>2, FS_Subset
  <2>2. Cardinality(S) \in Nat
    BY <2>1, FS_CardinalityType
  <2> QED
    BY <1>2, <2>2, SamePick DEF C!CountOf
<1>4. C!WaivedTests(b) = 0
  <2>1. {row \in C!Controls(b) : row.root.waived /\ row.root.status = "Not Applicable"} = {}
    BY <1>2
  <2> QED
    BY <2>1, NoTests DEF C!WaivedTests
<1> HIDE DEF a, b
<1>5. C!Counted(b) = C!Counted(a) /\ C!Counted(b) + 0 = C!Counted(b)
  <2> DEFINE w == C!CountOf(a, "Passed")
             x == C!CountOf(a, "Failed")
             y == C!CountOf(a, "Profile Error")
             z == C!CountOf(a, "Not Reviewed")
  <2>1. /\ w \in Nat /\ x \in Nat /\ y \in Nat /\ z \in Nat
        /\ C!CountOf(b, "Passed") = w /\ C!CountOf(b, "Failed") = x
        /\ C!CountOf(b, "Profile Error") = y /\ C!CountOf(b, "Not Reviewed") = z
    BY <1>3, Zenon
  <2>2. C!Counted(a) = w + x + y + z
    BY DEF C!Counted
  <2>3. C!Counted(b) = w + x + y + z
    BY <2>1, Zenon DEF C!Counted
  <2>4. w + x + y + z + 0 = w + x + y + z
    <3>1. w \in Nat /\ x \in Nat /\ y \in Nat /\ z \in Nat
      BY <2>1
    <3> HIDE DEF w, x, y, z
    <3> QED
      BY <3>1
  <2> HIDE DEF w, x, y, z
  <2> QED
    BY <2>2, <2>3, <2>4, Zenon
<1> QED
  BY <1>3, <1>4, <1>5 DEF C!ComplianceCompared, C!Compliance, a, b

(* The compared columns are those of the headers, in every detail, and     *)
(* "changed only" hides what did not change, for any evaluations and every *)
(* way they are selected and the view is scrolled (Compare.vue).           *)
THEOREM ComparisonStaysHonest == PartsSpec => []ComparisonHonest
<1>1. PartsInit => CompareInv
  BY CompareInit
<1>2. CompareInv /\ [PartsNext]_partsVars => CompareInv'
  BY ComparePart, CompareStep
<1>3. CompareInv => ComparisonHonest
  BY WindowRight, HidesRight, DetailsRight DEF ComparisonHonest, C!ComparisonHonest
<1> QED
  BY <1>1, <1>2, <1>3, PTL DEF PartsSpec

(* The counts that were drawn.                                             *)
CountsDrawn == part = "counts" => input[1] \in Nat /\ input[2] \in Nat

(* No control passes with a failed or broken test, full compliance is only *)
(* shown up to rounding, and the two compliance charts agree.              *)
THEOREM NothingIsOverstated == PartsSpec => []NothingOverstated
<1>1. PartsInit => CountsDrawn
  <2>1. \A x \in SmallCounts : x[1] \in Nat /\ x[2] \in Nat
    BY DEF SmallCounts
  <2>2. PartsInit => (part = "counts" => input \in SmallCounts)
    BY DEF PartsInit
  <2> QED
    BY <2>1, <2>2 DEF CountsDrawn
<1>2. CountsDrawn /\ [PartsNext]_partsVars => CountsDrawn'
  BY InputStays DEF CountsDrawn
<1>3. CountsDrawn => NothingOverstated
  BY NoFalsePassEver, FullMeansFullEver, ChartsRight DEF NothingOverstated, CountsDrawn
<1> QED
  BY <1>1, <1>2, <1>3, PTL DEF PartsSpec

-----------------------------------------------------------------------------
(* The overlays of a report, for any number of profiles and controls.      *)

(* The controls of a report, and the one that comes first among some.      *)
LEMMA ScanIs ==
    ASSUME NEW ev, Scan(ev)
    PROVE  /\ Len(ev) \in Nat /\ DOMAIN ev = 1..Len(ev)
           /\ \A p \in DOMAIN ev : /\ Len(ev[p].controls) \in Nat
                                   /\ DOMAIN ev[p].controls = 1..Len(ev[p].controls)
           /\ \A c \in AllControls(ev) : /\ c = <<c[1], c[2]>> /\ c[1] \in DOMAIN ev
                                         /\ c[2] \in DOMAIN ev[c[1]].controls
                                         /\ c[1] \in Nat /\ c[2] \in Nat
           /\ NoControl \notin AllControls(ev)
           /\ IsFiniteSet(AllControls(ev))
<1>1. Len(ev) \in Nat /\ DOMAIN ev = 1..Len(ev)
  BY LenProperties DEF Scan, IsList
<1>2. ASSUME NEW p \in DOMAIN ev
      PROVE  /\ Len(ev[p].controls) \in Nat
             /\ DOMAIN ev[p].controls = 1..Len(ev[p].controls)
  BY LenProperties DEF Scan, IsList
<1>3. ASSUME NEW c \in AllControls(ev)
      PROVE  /\ c = <<c[1], c[2]>> /\ c[1] \in DOMAIN ev /\ c[2] \in DOMAIN ev[c[1]].controls
             /\ c[1] \in Nat /\ c[2] \in Nat
  <2>1. PICK p \in DOMAIN ev : c \in {p} \X DOMAIN ev[p].controls
    BY DEF AllControls
  <2>2. PICK i \in DOMAIN ev[p].controls : c = <<p, i>>
    BY <2>1
  <2>3. p \in Nat /\ i \in Nat
    BY <1>1, <1>2
  <2> QED
    BY <2>2, <2>3
<1>4. NoControl \notin AllControls(ev)
  BY <1>3 DEF NoControl
<1>5. IsFiniteSet(AllControls(ev))
  <2> DEFINE Of(p) == {p} \X DOMAIN ev[p].controls
  <2>1. ASSUME NEW p \in DOMAIN ev PROVE IsFiniteSet(Of(p))
    <3>1. IsFiniteSet({p})
      BY FS_Singleton
    <3>2. PICK n \in Nat : DOMAIN ev[p].controls = 1..n
      BY <1>2
    <3>3. IsFiniteSet(DOMAIN ev[p].controls)
      BY <3>2, FS_Interval
    <3> QED
      BY <3>1, <3>3, FS_Product
  <2>2. IsFiniteSet(DOMAIN ev)
    BY <1>1, FS_Interval
  <2> DEFINE f == [p \in DOMAIN ev |-> Of(p)]
             Sets == {Of(p) : p \in DOMAIN ev}
  <2>3. IsFiniteSet(Sets)
    <3>1. f \in Surjection(DOMAIN ev, Sets)
      <4> HIDE DEF Of
      <4> QED
        BY DEF Surjection
    <3> HIDE DEF f, Sets
    <3> QED
      BY <2>2, <3>1, FS_Surjection
  <2>4. \A T \in Sets : IsFiniteSet(T)
    <3> HIDE DEF Of
    <3> QED
      BY <2>1
  <2>5. AllControls(ev) = UNION Sets
    BY DEF AllControls
  <2> HIDE DEF Sets
  <2> QED
    BY <2>3, <2>4, <2>5, FS_UNION
<1> QED
  BY <1>1, <1>2, <1>3, <1>4, <1>5

LEMMA FirstIs ==
    ASSUME NEW ev, Scan(ev), NEW S \in SUBSET AllControls(ev), S # {}
    PROVE  FirstOf(S) \in S /\ \A d \in S : d = FirstOf(S) \/ Ahead(FirstOf(S), d)
<1>1. \A c \in S : c = <<c[1], c[2]>> /\ c[1] \in Nat /\ c[2] \in Nat
  BY ScanIs
<1> DEFINE P == {c[1] : c \in S}
<1>2. PICK p \in P : \A q \in P : p <= q
  <2>1. P \in SUBSET Nat /\ P # {}
    BY <1>1
  <2> HIDE DEF P
  <2> QED
    BY <2>1, SmallestIs
<1> DEFINE I == {c[2] : c \in {d \in S : d[1] = p}}
<1>3. PICK i \in I : \A j \in I : i <= j
  <2>1. I \in SUBSET Nat /\ I # {}
    BY <1>1, <1>2
  <2> HIDE DEF I
  <2> QED
    BY <2>1, SmallestIs
<1>4. PICK c \in S : c[1] = p /\ c[2] = i
  BY <1>3
<1>5. ASSUME NEW d \in S PROVE d = c \/ Ahead(c, d)
  <2>1. p <= d[1] /\ p \in Nat /\ d[1] \in Nat /\ i \in Nat /\ d[2] \in Nat
    BY <1>1, <1>2, <1>4
  <2>2. d[1] = p => i <= d[2]
    BY <1>3
  <2>3. p < d[1] \/ (p = d[1] /\ i < d[2]) \/ (p = d[1] /\ i = d[2])
    BY <2>1, <2>2
  <2>4. p = d[1] /\ i = d[2] => d = c
    BY <1>1, <1>4
  <2> QED
    BY <1>4, <2>3, <2>4 DEF Ahead
<1> QED
  BY <1>5 DEF FirstOf

LEMMA ParentIs ==
    ASSUME NEW ev, Scan(ev), NEW p \in DOMAIN ev
    PROVE  ParentOf(ev, p) \in DOMAIN ev \cup {0} /\ 0 \notin DOMAIN ev
<1> DEFINE named == {q \in DOMAIN ev : ev[q].name = ev[p].parent}
<1>1. DOMAIN ev \subseteq Nat /\ 0 \notin DOMAIN ev
  BY ScanIs
<1>2. named # {} => Min(named) \in named
  <2>1. named \in SUBSET Nat
    BY <1>1
  <2> HIDE DEF named
  <2> QED
    BY <2>1, SmallestIs
<1> QED
  BY <1>1, <1>2 DEF ParentOf

-----------------------------------------------------------------------------
(* What a control extends: a control of the same id, of a profile that its *)
(* profile extends if that is linked, and the first that was run if not.   *)
LEMMA SameIdIs ==
    ASSUME NEW ev, NEW c \in AllControls(ev)
    PROVE  /\ SameId(ev, c) \subseteq AllControls(ev) /\ c \in SameId(ev, c)
           /\ \A d \in SameId(ev, c) : At(ev, d).id = At(ev, c).id /\ SameId(ev, d) = SameId(ev, c)
  BY DEF SameId

LEMMA AncestorIs ==
    ASSUME NEW ev, Scan(ev), NEW c \in AllControls(ev)
    PROVE  \/ /\ Ancestor(ev, c) = NoControl
              /\ \A d \in SameId(ev, c) : ParentOf(ev, d[1]) # c[1]
           \/ Ancestor(ev, c) \in SameId(ev, c) /\ ParentOf(ev, Ancestor(ev, c)[1]) = c[1]
<1> DEFINE below == {d \in SameId(ev, c) : d[1] \in ExtendsFrom(ev, c[1])}
<1>1. SameId(ev, c) \subseteq AllControls(ev)
  BY SameIdIs
<1>2. \A d \in AllControls(ev) : d[1] \in DOMAIN ev
  BY ScanIs
<1>3. CASE below = {}
  <2>1. Ancestor(ev, c) = NoControl
    BY <1>3 DEF Ancestor
  <2> QED
    BY <1>1, <1>2, <1>3, <2>1 DEF ExtendsFrom
<1>4. CASE below # {}
  <2>1. FirstOf(below) \in below
    <3> HIDE DEF below
    <3>1. below \in SUBSET AllControls(ev)
      BY <1>1 DEF below
    <3> QED
      BY <1>4, <3>1, FirstIs
  <2>2. Ancestor(ev, c) = FirstOf(below)
    BY <1>4 DEF Ancestor
  <2> QED
    BY <2>1, <2>2 DEF ExtendsFrom
<1> QED
  BY <1>3, <1>4

Run(ev, c) == {d \in SameId(ev, c) : At(ev, d).results # <<>>}

LEMMA SiblingIs ==
    ASSUME NEW ev, Scan(ev), NEW c \in AllControls(ev)
    PROVE  LET S == IF Run(ev, c) = {} THEN SameId(ev, c) ELSE Run(ev, c) IN
              /\ FirstOf(S) \in S /\ S \subseteq SameId(ev, c)
              /\ \A d \in S : d = FirstOf(S) \/ Ahead(FirstOf(S), d)
              /\ Sibling(ev, c) = IF FirstOf(S) = c THEN NoControl ELSE FirstOf(S)
<1> DEFINE S == IF Run(ev, c) = {} THEN SameId(ev, c) ELSE Run(ev, c)
<1>1. S \subseteq SameId(ev, c) /\ SameId(ev, c) \subseteq AllControls(ev) /\ S # {}
  BY SameIdIs DEF Run
<1>2. Sibling(ev, c) = IF FirstOf(S) = c THEN NoControl ELSE FirstOf(S)
  BY DEF Sibling, Run
<1> HIDE DEF S
<1>3. FirstOf(S) \in S /\ \A d \in S : d = FirstOf(S) \/ Ahead(FirstOf(S), d)
  BY <1>1, FirstIs
<1> QED
  BY <1>1, <1>2, <1>3 DEF S

LEMMA BaseIs ==
    ASSUME NEW ev, Scan(ev), NEW c \in AllControls(ev)
    PROVE  /\ Bases(ev)[c] = NoControl \/ Bases(ev)[c] \in SameId(ev, c) \ {c}
           /\ Linked(ev, c[1]) =>
                 /\ Bases(ev)[c] = Ancestor(ev, c)
                 /\ Bases(ev)[c] # NoControl => ParentOf(ev, Bases(ev)[c][1]) = c[1]
           /\ ~Linked(ev, c[1]) /\ Bases(ev)[c] # NoControl =>
                 Linked(ev, Bases(ev)[c][1]) \/ Bases(ev)[Bases(ev)[c]] = NoControl
<1> DEFINE b == Bases(ev)[c]
<1>1. c[1] \in DOMAIN ev /\ NoControl \notin AllControls(ev)
  BY ScanIs
<1>2. SameId(ev, c) \subseteq AllControls(ev)
  BY SameIdIs
<1>3. \A d \in AllControls(ev) :
         Bases(ev)[d] = IF Linked(ev, d[1]) THEN Ancestor(ev, d) ELSE Sibling(ev, d)
  BY DEF Bases
<1>4. CASE Linked(ev, c[1])
  <2>1. b = Ancestor(ev, c)
    BY <1>3, <1>4
  <2>2. b # NoControl => b \in SameId(ev, c) /\ ParentOf(ev, b[1]) = c[1]
    BY <2>1, AncestorIs
  <2>3. ParentOf(ev, c[1]) # c[1]
    <3>1. PICK depth \in [DOMAIN ev -> DOMAIN ev] :
             \A p \in DOMAIN ev : ParentOf(ev, p) # 0 => depth[ParentOf(ev, p)] < depth[p]
      BY DEF Scan, Acyclic
    <3>2. depth[c[1]] \in Nat /\ c[1] # 0
      BY <1>1, ScanIs
    <3> QED
      BY <1>1, <3>1, <3>2
  <2> HIDE DEF b
  <2> QED
    BY <1>4, <2>1, <2>2, <2>3 DEF b
<1>5. CASE ~Linked(ev, c[1])
  <2> DEFINE S == IF Run(ev, c) = {} THEN SameId(ev, c) ELSE Run(ev, c)
  <2>1. FirstOf(S) \in S /\ S \subseteq SameId(ev, c)
    BY SiblingIs
  <2>2. b = IF FirstOf(S) = c THEN NoControl ELSE FirstOf(S)
    BY <1>3, <1>5, SiblingIs
  <2>3. b # NoControl => b \in SameId(ev, c) /\ b # c /\ b = FirstOf(S)
    <3> HIDE DEF S, b
    <3> QED
      BY <2>1, <2>2
  <2>4. ASSUME b # NoControl, ~Linked(ev, b[1]) PROVE Bases(ev)[b] = NoControl
    <3>1. b \in AllControls(ev) /\ SameId(ev, b) = SameId(ev, c)
      BY <1>2, <2>3, <2>4, SameIdIs
    <3>2. (IF Run(ev, b) = {} THEN SameId(ev, b) ELSE Run(ev, b)) = S
      BY <3>1 DEF Run
    <3>3. Bases(ev)[b] = Sibling(ev, b)
      BY <1>3, <2>4, <3>1
    <3> HIDE DEF b, S
    <3>4. Sibling(ev, b) = IF FirstOf(S) = b THEN NoControl ELSE FirstOf(S)
      BY <3>1, <3>2, SiblingIs
    <3> QED
      BY <2>3, <2>4, <3>3, <3>4
  <2> HIDE DEF b, S
  <2> QED
    BY <1>5, <2>3, <2>4 DEF b
<1> QED
  BY <1>4, <1>5

-----------------------------------------------------------------------------
(* Chains of bases that descend end.                                       *)

Descends(bases, rank, bound) ==
    /\ IsFiniteSet(DOMAIN bases) /\ NoControl \notin DOMAIN bases
    /\ bound \in Nat /\ rank \in [DOMAIN bases -> 0..bound]
    /\ \A c \in DOMAIN bases :
          bases[c] # NoControl => bases[c] \in DOMAIN bases /\ rank[bases[c]] < rank[c]

(* The chain is a function: each member is under the one before.           *)
LEMMA ChainIs ==
    ASSUME NEW bases, NEW c, Cardinality(DOMAIN bases) \in Nat
    PROVE  /\ Chain(bases, c)[0] = c
           /\ \A n \in 1..Cardinality(DOMAIN bases) :
                 Chain(bases, c)[n] = Under(bases, Chain(bases, c)[n - 1])
<1> DEFINE k == Cardinality(DOMAIN bases)
           Member(f, n) == IF n = 0 THEN c ELSE Under(bases, f[n - 1])
           Is(f, m) == f = [n \in 0..m |-> Member(f, n)]
           Reach == {m \in Nat : \E f : Is(f, m)}
<1>1. 0 \in Reach
  <2> DEFINE f == [n \in 0..0 |-> c]
  <2>1. f = [n \in 0..0 |-> Member(f, n)]
    OBVIOUS
  <2> QED
    BY <2>1
<1>2. ASSUME NEW m \in Nat, m \in Reach PROVE m + 1 \in Reach
  <2>1. PICK f : Is(f, m)
    BY <1>2
  <2> HIDE DEF Member
  <2> DEFINE g == [n \in 0..(m + 1) |-> IF n <= m THEN f[n] ELSE Member(f, n)]
  <2>2. ASSUME NEW n \in 0..(m + 1) PROVE g[n] = Member(g, n)
    <3>1. Member(g, n) = Member(f, n)
      <4>1. CASE n = 0
        BY <4>1 DEF Member
      <4>2. CASE n # 0
        <5>1. g[n - 1] = f[n - 1]
          BY <4>2
        <5> QED
          BY <5>1, <4>2 DEF Member
      <4> QED
        BY <4>1, <4>2
    <3>2. n <= m => f[n] = Member(f, n)
      BY <2>1
    <3> QED
      BY <3>1, <3>2
  <2>3. g = [n \in 0..(m + 1) |-> Member(g, n)]
    BY <2>2
  <2>4. \E x : Is(x, m + 1)
    <3> HIDE DEF g
    <3> QED
      BY <2>3
  <2> QED
    BY <2>4
<1>3. PICK f : Is(f, k)
  <2>1. Nat \subseteq Reach
    <3> HIDE DEF Reach
    <3> QED
      BY <1>1, <1>2, Induction
  <2> QED
    BY <2>1
<1>4. Is(Chain(bases, c), k)
  BY <1>3 DEF Chain
<1> QED
  BY <1>4

(* Every member of the chain is a control.                                 *)
LEMMA ChainStays ==
    ASSUME NEW bases, NEW rank, NEW bound, Descends(bases, rank, bound), NEW c \in DOMAIN bases
    PROVE  /\ Cardinality(DOMAIN bases) \in Nat \ {0}
           /\ \A n \in 0..Cardinality(DOMAIN bases) : Chain(bases, c)[n] \in DOMAIN bases
<1> DEFINE k == Cardinality(DOMAIN bases)
           Good == {n \in Nat : n <= k => Chain(bases, c)[n] \in DOMAIN bases}
<1>1. k \in Nat /\ k # 0
  BY FS_CardinalityType, FS_EmptySet DEF Descends
<1>2. 0 \in Good
  BY <1>1, ChainIs
<1>3. ASSUME NEW n \in Nat, n \in Good PROVE n + 1 \in Good
  <2> SUFFICES ASSUME n + 1 <= k PROVE Chain(bases, c)[n + 1] \in DOMAIN bases
    OBVIOUS
  <2>1. n + 1 \in 1..k /\ (n + 1) - 1 = n /\ n <= k
    BY <1>1
  <2>2. Chain(bases, c)[n + 1] = Under(bases, Chain(bases, c)[n])
    BY <1>1, <2>1, ChainIs
  <2> QED
    BY <1>3, <2>1, <2>2 DEF Under, Descends
<1>4. Nat \subseteq Good
  <2> HIDE DEF Good
  <2> QED
    BY <1>2, <1>3, Induction
<1> QED
  BY <1>1, <1>4

(* A chain that has ended stays where it is; until then it descends.       *)
LEMMA ChainDescends ==
    ASSUME NEW bases, NEW rank, NEW bound, Descends(bases, rank, bound), NEW c \in DOMAIN bases,
           NEW m \in 0..Cardinality(DOMAIN bases)
    PROVE  \A n \in (m + 1)..Cardinality(DOMAIN bases) :
              \/ bases[Chain(bases, c)[n]] = NoControl
              \/ /\ bases[Chain(bases, c)[m]] # NoControl
                 /\ rank[Chain(bases, c)[n]] < rank[Chain(bases, c)[m]]
<1> DEFINE k == Cardinality(DOMAIN bases)
           at(n) == Chain(bases, c)[n]
           Fine(n) == \/ bases[at(n)] = NoControl
                      \/ bases[at(m)] # NoControl /\ rank[at(n)] < rank[at(m)]
           Good == {n \in Nat : m < n /\ n <= k => Fine(n)}
<1>1. k \in Nat /\ \A n \in 0..k : at(n) \in DOMAIN bases
  BY ChainStays
<1>2. ASSUME NEW n \in Nat, n < k PROVE at(n + 1) = Under(bases, at(n))
  <2>1. n + 1 \in 1..k /\ (n + 1) - 1 = n
    BY <1>1, <1>2
  <2> QED
    BY <1>1, <2>1, ChainIs
<1>3. \A d \in DOMAIN bases : rank[d] \in Nat
  BY DEF Descends
<1>4. 0 \in Good
  BY <1>1
<1>5. ASSUME NEW n \in Nat, n \in Good PROVE n + 1 \in Good
  <2> SUFFICES ASSUME m < n + 1, n + 1 <= k PROVE Fine(n + 1)
    OBVIOUS
  <2>1. n < k /\ n \in 0..k /\ n + 1 \in 0..k /\ m \in 0..k /\ (m = n \/ m < n)
    BY <1>1
  <2>2. at(n + 1) = Under(bases, at(n)) /\ at(n) \in DOMAIN bases /\ at(n + 1) \in DOMAIN bases
        /\ at(m) \in DOMAIN bases
    BY <1>1, <1>2, <2>1
  <2>3. m < n => Fine(n)
    BY <1>5, <2>1
  <2> HIDE DEF at
  <2>4. CASE bases[at(n)] = NoControl
    BY <2>2, <2>4 DEF Under
  <2>5. CASE bases[at(n)] # NoControl
    <3>1. at(n + 1) = bases[at(n)] /\ rank[at(n + 1)] < rank[at(n)]
      BY <2>2, <2>5 DEF Under, Descends
    <3>2. rank[at(n + 1)] \in Nat /\ rank[at(n)] \in Nat /\ rank[at(m)] \in Nat
      BY <1>3, <2>2
    <3> QED
      BY <2>1, <2>3, <2>5, <3>1, <3>2
  <2> QED
    BY <2>4, <2>5
<1>6. Nat \subseteq Good
  <2> HIDE DEF Good
  <2> QED
    BY <1>4, <1>5, Induction
<1>7. ASSUME NEW n \in (m + 1)..k PROVE Fine(n)
  <2>1. n \in Nat /\ m < n /\ n <= k
    BY <1>1
  <2> HIDE DEF Fine
  <2> QED
    BY <1>6, <2>1
<1> QED
  BY <1>7

(* There are no more controls than steps, so that the chain has ended.     *)
LEMMA RootEnds ==
    ASSUME NEW bases, NEW rank, NEW bound, Descends(bases, rank, bound), NEW c \in DOMAIN bases
    PROVE  RootIn(bases, c) \in DOMAIN bases /\ bases[RootIn(bases, c)] = NoControl
<1> DEFINE k == Cardinality(DOMAIN bases)
           at(n) == Chain(bases, c)[n]
           f == [n \in 0..k |-> at(n)]
<1>1. k \in Nat /\ \A n \in 0..k : at(n) \in DOMAIN bases
  BY ChainStays
<1>2. f \in [0..k -> DOMAIN bases]
  BY <1>1
<1>3. \E m, n \in 0..k : m # n /\ f[m] = f[n]
  <2>1. IsFiniteSet(0..k) /\ Cardinality(0..k) = k + 1
    BY <1>1, FS_Interval
  <2>2. k < k + 1 /\ IsFiniteSet(DOMAIN bases)
    BY <1>1 DEF Descends
  <2> HIDE DEF f
  <2> QED
    BY <1>2, <2>1, <2>2, FS_PigeonHole
<1>4. PICK m \in 0..k, n \in 0..k : m < n /\ at(m) = at(n)
  <2>1. PICK a \in 0..k, b \in 0..k : a # b /\ at(a) = at(b)
    BY <1>3
  <2>2. a < b \/ b < a
    BY <2>1
  <2> HIDE DEF at
  <2> QED
    BY <2>1, <2>2
<1>5. bases[at(n)] = NoControl
  <2>1. n \in (m + 1)..k
    BY <1>1, <1>4
  <2>2. \/ bases[at(n)] = NoControl
        \/ rank[at(n)] < rank[at(m)]
    BY <2>1, ChainDescends
  <2>3. rank[at(m)] \in Nat
    BY <1>1 DEF Descends
  <2> HIDE DEF at
  <2> QED
    BY <1>4, <2>2, <2>3
<1>6. bases[at(k)] = NoControl
  <2>1. n = k \/ k \in (n + 1)..k
    BY <1>1
  <2>2. k \in (n + 1)..k => bases[at(k)] = NoControl \/ bases[at(n)] # NoControl
    BY ChainDescends
  <2> HIDE DEF at
  <2> QED
    BY <1>5, <2>1, <2>2
<1>7. at(k) \in DOMAIN bases
  BY <1>1
<1> QED
  BY <1>6, <1>7 DEF RootIn

LEMMA RootOfRoot ==
    ASSUME NEW bases, NEW rank, NEW bound, Descends(bases, rank, bound), NEW c \in DOMAIN bases,
           bases[c] = NoControl
    PROVE  RootIn(bases, c) = c
<1> DEFINE k == Cardinality(DOMAIN bases)
           Good == {n \in Nat : n <= k => Chain(bases, c)[n] = c}
<1>1. k \in Nat
  BY ChainStays
<1>2. 0 \in Good
  BY <1>1, ChainIs
<1>3. ASSUME NEW n \in Nat, n \in Good PROVE n + 1 \in Good
  <2> SUFFICES ASSUME n + 1 <= k PROVE Chain(bases, c)[n + 1] = c
    OBVIOUS
  <2>1. n + 1 \in 1..k /\ (n + 1) - 1 = n /\ n <= k
    BY <1>1
  <2>2. Chain(bases, c)[n + 1] = Under(bases, Chain(bases, c)[n])
    BY <1>1, <2>1, ChainIs
  <2> QED
    BY <1>3, <2>1, <2>2 DEF Under
<1>4. k \in Good
  <2> HIDE DEF Good
  <2> QED
    BY <1>1, <1>2, <1>3, Induction
<1> QED
  BY <1>1, <1>4 DEF RootIn

(* A control that extends another has its root.                            *)
LEMMA RootOver ==
    ASSUME NEW bases, NEW rank, NEW bound, Descends(bases, rank, bound), NEW c \in DOMAIN bases,
           bases[c] # NoControl
    PROVE  bases[c] \in DOMAIN bases /\ RootIn(bases, c) = RootIn(bases, bases[c])
<1> DEFINE k == Cardinality(DOMAIN bases)
           b == bases[c]
           Good == {n \in Nat : n + 1 <= k => Chain(bases, c)[n + 1] = Chain(bases, b)[n]}
<1>1. k \in Nat /\ k # 0 /\ b \in DOMAIN bases
  BY ChainStays DEF Descends
<1>2. ASSUME NEW d, NEW n \in Nat, n + 1 <= k
      PROVE  Chain(bases, d)[n + 1] = Under(bases, Chain(bases, d)[n])
  <2>1. n + 1 \in 1..k /\ (n + 1) - 1 = n
    BY <1>1, <1>2
  <2> QED
    BY <1>1, <2>1, ChainIs
<1>3. Chain(bases, c)[0] = c /\ Chain(bases, b)[0] = b
  BY <1>1, ChainIs
<1> HIDE DEF b
<1>4. 0 \in Good
  <2>1. 0 + 1 <= k => Chain(bases, c)[0 + 1] = Under(bases, Chain(bases, c)[0])
    BY <1>2
  <2> QED
    BY <1>3, <2>1 DEF Under, b
<1>5. ASSUME NEW n \in Nat, n \in Good PROVE n + 1 \in Good
  <2> SUFFICES ASSUME (n + 1) + 1 <= k
               PROVE  Chain(bases, c)[(n + 1) + 1] = Chain(bases, b)[n + 1]
    OBVIOUS
  <2>1. n + 1 <= k /\ n + 1 \in Nat
    BY <1>1
  <2>2. Chain(bases, c)[(n + 1) + 1] = Under(bases, Chain(bases, c)[n + 1])
    BY <1>2, <2>1
  <2>3. Chain(bases, b)[n + 1] = Under(bases, Chain(bases, b)[n])
    BY <1>2, <2>1
  <2> QED
    BY <1>5, <2>1, <2>2, <2>3
<1>6. k - 1 \in Good
  <2>1. k - 1 \in Nat
    BY <1>1
  <2> HIDE DEF Good
  <2> QED
    BY <2>1, <1>4, <1>5, Induction
<1>7. k - 1 \in Nat /\ (k - 1) + 1 = k /\ (k - 1) + 1 <= k
  BY <1>1
<1>8. Chain(bases, c)[k] = Chain(bases, b)[k - 1]
  BY <1>6, <1>7
<1>9. Chain(bases, b)[k] = Under(bases, Chain(bases, b)[k - 1])
  BY <1>2, <1>7
<1>10. bases[Chain(bases, c)[k]] = NoControl
  BY RootEnds DEF RootIn
<1> QED
  BY <1>1, <1>8, <1>9, <1>10 DEF RootIn, Under, b

(* Above a control that extends nothing there is one that nothing extends, *)
(* and it has that root.                                                   *)
LEMMA TopAbove ==
    ASSUME NEW bases, NEW rank, NEW bound, Descends(bases, rank, bound), NEW c \in DOMAIN bases,
           bases[c] = NoControl
    PROVE  \E s \in DOMAIN bases : TopIn(bases, s) /\ RootIn(bases, s) = c
<1> DEFINE Over == {d \in DOMAIN bases : RootIn(bases, d) = c}
           Heights == {bound - rank[d] : d \in Over}
<1>1. bound \in Nat /\ \A d \in DOMAIN bases : rank[d] \in 0..bound
  BY DEF Descends
<1>2. c \in Over
  BY RootOfRoot
<1>3. PICK h \in Heights : \A g \in Heights : h <= g
  <2>1. Heights \in SUBSET Nat /\ Heights # {}
    BY <1>1, <1>2
  <2> HIDE DEF Heights
  <2> QED
    BY <2>1, SmallestIs
<1>4. PICK s \in Over : h = bound - rank[s]
  BY <1>3
<1>5. ASSUME NEW d \in DOMAIN bases, bases[d] = s PROVE FALSE
  <2>1. bases[d] # NoControl /\ s \in DOMAIN bases
    BY <1>4, <1>5 DEF Descends
  <2>2. RootIn(bases, d) = RootIn(bases, s)
    BY <1>5, <2>1, RootOver
  <2>3. d \in Over
    BY <1>4, <2>2
  <2>4. bound - rank[s] <= bound - rank[d]
    BY <1>3, <1>4, <2>3
  <2>5. rank[s] < rank[d]
    BY <1>5, <2>1 DEF Descends
  <2> QED
    BY <1>1, <2>1, <2>4, <2>5
<1>6. TopIn(bases, s)
  BY <1>5 DEF TopIn
<1> QED
  BY <1>4, <1>6

-----------------------------------------------------------------------------
(* The bases of a report descend: down the profiles that are linked, and   *)
(* from a profile that is not to one that is or to a control that extends  *)
(* nothing.                                                                *)
LEMMA BasesDescend ==
    ASSUME NEW ev, Scan(ev)
    PROVE  /\ DOMAIN Bases(ev) = AllControls(ev)
           /\ \E rank, bound : Descends(Bases(ev), rank, bound)
<1> DEFINE bases == Bases(ev)
           l == Len(ev)
<1>1. PICK depth \in [DOMAIN ev -> DOMAIN ev] :
         \A p \in DOMAIN ev : ParentOf(ev, p) # 0 => depth[ParentOf(ev, p)] < depth[p]
  BY DEF Scan, Acyclic
<1> DEFINE rank == [c \in AllControls(ev) |->
                       IF Linked(ev, c[1]) THEN l - depth[c[1]]
                       ELSE IF bases[c] = NoControl THEN 0 ELSE l + 1]
<1>2. /\ l \in Nat /\ DOMAIN ev = 1..l
      /\ IsFiniteSet(AllControls(ev)) /\ NoControl \notin AllControls(ev)
      /\ \A c \in AllControls(ev) : c[1] \in DOMAIN ev
  BY ScanIs
<1>3. DOMAIN bases = AllControls(ev)
  BY DEF Bases
<1>4. \A c \in AllControls(ev) : depth[c[1]] \in 1..l
  BY <1>1, <1>2
<1>5. rank \in [AllControls(ev) -> 0..(l + 1)]
  <2> SUFFICES ASSUME NEW c \in AllControls(ev)
               PROVE  rank[c] \in 0..(l + 1)
    OBVIOUS
  <2>1. l - depth[c[1]] \in 0..(l + 1) /\ 0 \in 0..(l + 1) /\ l + 1 \in 0..(l + 1)
    BY <1>2, <1>4
  <2> QED
    BY <2>1
<1>6. ASSUME NEW c \in AllControls(ev), bases[c] # NoControl
      PROVE  bases[c] \in AllControls(ev) /\ rank[bases[c]] < rank[c]
  <2> DEFINE b == bases[c]
  <2>1. b \in AllControls(ev)
    BY <1>6, BaseIs, SameIdIs
  <2>2. /\ b[1] \in DOMAIN ev /\ c[1] \in DOMAIN ev /\ c[1] # 0
        /\ depth[b[1]] \in 1..l /\ depth[c[1]] \in 1..l
    BY <1>2, <1>4, <2>1
  <2>3. CASE Linked(ev, c[1])
    <3>1. ParentOf(ev, b[1]) = c[1]
      BY <1>6, <2>3, BaseIs
    <3>2. Linked(ev, b[1]) /\ depth[c[1]] < depth[b[1]]
      BY <1>1, <2>2, <3>1 DEF Linked
    <3>3. rank[c] = l - depth[c[1]] /\ rank[b] = l - depth[b[1]]
      BY <2>1, <2>3, <3>2
    <3>4. \A x, y \in 1..l : y < x => l - x < l - y
      BY <1>2
    <3> HIDE DEF b, rank, l
    <3>5. rank[b] < rank[c]
      BY <2>2, <3>2, <3>3, <3>4
    <3> QED
      BY <2>1, <3>5 DEF b
  <2>4. CASE ~Linked(ev, c[1])
    <3>1. rank[c] = l + 1
      BY <1>6, <2>4
    <3>2. Linked(ev, b[1]) \/ bases[b] = NoControl
      BY <1>6, <2>4, BaseIs
    <3>3. rank[b] = l - depth[b[1]] \/ rank[b] = 0
      BY <2>1, <3>2
    <3>4. 0 < l + 1 /\ \A x \in 1..l : l - x < l + 1
      BY <1>2
    <3> HIDE DEF b, rank, l
    <3>5. rank[b] < rank[c]
      BY <2>2, <3>1, <3>3, <3>4
    <3> QED
      BY <2>1, <3>5 DEF b
  <2> QED
    BY <2>3, <2>4
<1>7. Descends(bases, rank, l + 1)
  <2> HIDE DEF bases, rank, l
  <2> QED
    BY <1>2, <1>3, <1>5, <1>6 DEF Descends
<1> HIDE DEF rank
<1> QED
  BY <1>3, <1>7

(* The control, what it extends and its root have one id.                  *)
LEMMA RootIs ==
    ASSUME NEW ev, Scan(ev), NEW c \in AllControls(ev)
    PROVE  /\ RootIn(Bases(ev), c) \in AllControls(ev)
           /\ Bases(ev)[RootIn(Bases(ev), c)] = NoControl
           /\ At(ev, RootIn(Bases(ev), c)).id = At(ev, c).id
<1> DEFINE bases == Bases(ev)
           Wrong == {d \in AllControls(ev) : At(ev, RootIn(bases, d)).id # At(ev, d).id}
<1>1. PICK rank, bound : Descends(bases, rank, bound)
  BY BasesDescend
<1>2. DOMAIN bases = AllControls(ev)
  BY BasesDescend
<1>3. \A d \in AllControls(ev) : rank[d] \in Nat
  BY <1>1, <1>2 DEF Descends
<1>4. Wrong = {}
  <2> SUFFICES ASSUME Wrong # {} PROVE FALSE
    OBVIOUS
  <2> DEFINE Ranks == {rank[d] : d \in Wrong}
  <2>1. PICK r \in Ranks : \A q \in Ranks : r <= q
    <3>1. Ranks \in SUBSET Nat /\ Ranks # {}
      BY <1>3
    <3> HIDE DEF Ranks
    <3> QED
      BY <3>1, SmallestIs
  <2>2. PICK d \in Wrong : r = rank[d]
    BY <2>1
  <2>3. bases[d] # NoControl
    <3> SUFFICES ASSUME bases[d] = NoControl PROVE FALSE
      OBVIOUS
    <3>1. RootIn(bases, d) = d
      BY <1>1, <1>2, RootOfRoot
    <3> QED
      BY <2>2, <3>1
  <2>4. bases[d] \in AllControls(ev) /\ RootIn(bases, d) = RootIn(bases, bases[d])
    BY <1>1, <1>2, <2>3, RootOver
  <2>5. At(ev, bases[d]).id = At(ev, d).id
    BY <2>3, BaseIs, SameIdIs
  <2>6. bases[d] \in Wrong
    BY <2>2, <2>4, <2>5
  <2>7. rank[d] <= rank[bases[d]] /\ rank[bases[d]] < rank[d]
    <3>1. rank[bases[d]] \in Ranks
      BY <2>6
    <3>2. rank[bases[d]] < rank[d]
      BY <1>1, <1>2, <2>2, <2>3 DEF Descends
    <3> QED
      BY <2>1, <2>2, <3>1, <3>2
  <2> QED
    BY <1>3, <2>2, <2>4, <2>7
<1>5. RootIn(bases, c) \in AllControls(ev) /\ bases[RootIn(bases, c)] = NoControl
  BY <1>1, <1>2, RootEnds
<1> QED
  BY <1>4, <1>5

LEMMA RootsAlwaysEnd == ASSUME NEW ev, Scan(ev) PROVE RootsEnd(ev)
  BY RootIs DEF RootsEnd

-----------------------------------------------------------------------------
(* The rows.                                                               *)

LEMMA RowIs ==
    ASSUME NEW ev, NEW c
    PROVE  LET r == Row(0, ev, Bases(ev), c) IN
              /\ r.at = c /\ r.hdf.id = At(ev, c).id /\ r.hdf.tests = Len(At(ev, c).results)
              /\ r.top = TopIn(Bases(ev), c) /\ r.rootAt = RootIn(Bases(ev), c)
  BY DEF Row, Hdf

LEMMA TestsAre ==
    ASSUME NEW ev, Scan(ev), NEW c \in AllControls(ev)
    PROVE  /\ Len(At(ev, c).results) \in Nat
           /\ Len(At(ev, c).results) = 0 <=> At(ev, c).results = <<>>
<1> DEFINE s == At(ev, c).results
<1>1. s \in Seq(ToSet(s))
  BY DEF Scan, IsList
<1> HIDE DEF s
<1>2. Len(s) \in Nat /\ (Len(s) = 0 <=> s = <<>>)
  BY <1>1, EmptySeq, LenProperties
<1> QED
  BY <1>2 DEF s

LEMMA ResultsAlwaysShown == ASSUME NEW ev, Scan(ev) PROVE ResultsShown(ev)
<1> DEFINE bases == Bases(ev)
           row(c) == Row(0, ev, bases, c)
<1>1. Context(0, ev) = {row(c) : c \in AllControls(ev)}
  BY DEF Context
<1>2. \A c : /\ row(c).at = c /\ row(c).hdf.id = At(ev, c).id
             /\ row(c).hdf.tests = Len(At(ev, c).results)
             /\ row(c).top = TopIn(bases, c) /\ row(c).rootAt = RootIn(bases, c)
  BY RowIs
<1>3. PICK rank, bound : Descends(bases, rank, bound)
  BY BasesDescend
<1>4. DOMAIN bases = AllControls(ev)
  BY BasesDescend
<1>5. \A d \in AllControls(ev) :
         bases[d] = IF Linked(ev, d[1]) THEN Ancestor(ev, d) ELSE Sibling(ev, d)
  BY DEF Bases
<1> HIDE DEF row, bases
<1>6. ASSUME NEW c \in AllControls(ev)
      PROVE  \/ Len(At(ev, c).results) = 0
             \/ \E s \in AllControls(ev) : TopIn(bases, s) /\ RootIn(bases, s) = c
             \/ Linked(ev, c[1]) /\ Ancestor(ev, c) # NoControl
             \/ /\ ~Linked(ev, c[1])
                /\ \E s \in AllControls(ev) :
                      /\ At(ev, s).id = At(ev, c).id /\ Len(At(ev, s).results) > 0
                      /\ Ahead(s, c)
  <2>1. CASE bases[c] = NoControl
    BY <1>3, <1>4, <2>1, TopAbove
  <2>2. CASE bases[c] # NoControl /\ Linked(ev, c[1])
    BY <1>5, <2>2
  <2>3. CASE bases[c] # NoControl /\ ~Linked(ev, c[1]) /\ Len(At(ev, c).results) # 0
    <3> DEFINE s == FirstOf(Run(ev, c))
    <3>1. c \in Run(ev, c)
      BY <2>3, SameIdIs, TestsAre DEF Run
    <3>2. /\ s \in Run(ev, c) /\ \A d \in Run(ev, c) : d = s \/ Ahead(s, d)
          /\ Sibling(ev, c) = IF s = c THEN NoControl ELSE s
      BY <3>1, SiblingIs
    <3>3. s # c
      BY <1>5, <2>3, <3>2
    <3>4. Ahead(s, c)
      BY <3>1, <3>2, <3>3
    <3>5. s \in AllControls(ev) /\ At(ev, s).id = At(ev, c).id /\ At(ev, s).results # <<>>
      BY <3>2, SameIdIs DEF Run
    <3>6. Len(At(ev, s).results) > 0
      <4> HIDE DEF s
      <4>1. Len(At(ev, s).results) \in Nat /\ Len(At(ev, s).results) # 0
        BY <3>5, TestsAre
      <4> QED
        BY <4>1
    <3> QED
      BY <2>3, <3>4, <3>5, <3>6
  <2> QED
    BY <2>1, <2>2, <2>3
<1>7. ASSUME NEW r \in Context(0, ev)
      PROVE  \/ r.hdf.tests = 0
             \/ \E s \in Context(0, ev) : s.top /\ s.rootAt = r.at
             \/ Linked(ev, r.at[1]) /\ Ancestor(ev, r.at) # NoControl
             \/ /\ ~Linked(ev, r.at[1])
                /\ \E s \in Context(0, ev) :
                      s.hdf.id = r.hdf.id /\ s.hdf.tests > 0 /\ Ahead(s.at, r.at)
  <2>1. PICK c \in AllControls(ev) : r = row(c)
    BY <1>1
  <2>2. \A d \in AllControls(ev) : row(d) \in Context(0, ev)
    BY <1>1
  <2>3. /\ r.at = c /\ r.hdf.id = At(ev, c).id /\ r.hdf.tests = Len(At(ev, c).results)
    BY <1>2, <2>1
  <2>4. CASE \E s \in AllControls(ev) : TopIn(bases, s) /\ RootIn(bases, s) = c
    BY <1>2, <2>2, <2>3, <2>4
  <2>5. CASE \E s \in AllControls(ev) :
                /\ At(ev, s).id = At(ev, c).id /\ Len(At(ev, s).results) > 0
                /\ Ahead(s, c)
    <3>1. PICK s \in AllControls(ev) :
            /\ At(ev, s).id = At(ev, c).id /\ Len(At(ev, s).results) > 0
            /\ Ahead(s, c)
      BY <2>5
    <3>2. /\ row(s) \in Context(0, ev) /\ row(s).hdf.id = r.hdf.id
          /\ row(s).hdf.tests > 0 /\ Ahead(row(s).at, r.at)
      BY <1>2, <2>2, <2>3, <3>1
    <3>3. \E x \in Context(0, ev) :
             x.hdf.id = r.hdf.id /\ x.hdf.tests > 0 /\ Ahead(x.at, r.at)
      BY <3>2
    <3> QED
      BY <1>6, <2>3, <2>4, <3>3
  <2> QED
    BY <1>6, <2>3, <2>4, <2>5
<1> QED
  BY <1>7 DEF ResultsShown

-----------------------------------------------------------------------------
(* Requirements in one line.                                               *)

(* Of some profiles there is one that overlays none of the others.         *)
LEMMA Deepest ==
    ASSUME NEW ev, Scan(ev), NEW Q \in SUBSET DOMAIN ev, Q # {}
    PROVE  \E p \in Q : \A q \in Q : ParentOf(ev, q) # p
<1>1. PICK depth \in [DOMAIN ev -> DOMAIN ev] :
         \A p \in DOMAIN ev : ParentOf(ev, p) # 0 => depth[ParentOf(ev, p)] < depth[p]
  BY DEF Scan, Acyclic
<1>2. PICK l \in Nat : DOMAIN ev = 1..l
  BY ScanIs
<1> DEFINE Heights == {l - depth[p] : p \in Q}
<1>3. \A p \in Q : depth[p] \in 1..l /\ p # 0
  BY <1>1, <1>2
<1>4. PICK h \in Heights : \A g \in Heights : h <= g
  <2>1. Heights \in SUBSET Nat /\ Heights # {}
    <3>1. \A x \in 1..l : l - x \in Nat
      OBVIOUS
    <3> QED
      BY <1>3, <3>1
  <2> HIDE DEF Heights
  <2> QED
    BY <2>1, SmallestIs
<1>5. PICK p \in Q : h = l - depth[p]
  BY <1>4
<1>6. ASSUME NEW q \in Q, ParentOf(ev, q) = p PROVE FALSE
  <2>1. depth[p] < depth[q]
    BY <1>1, <1>3, <1>5, <1>6
  <2>2. l - depth[p] <= l - depth[q]
    BY <1>4, <1>5
  <2> QED
    BY <1>3, <2>1, <2>2
<1> QED
  BY <1>5, <1>6

LEMMA OneTop ==
    ASSUME NEW ev, Scan(ev), NEW H \in SUBSET AllControls(ev),
           \A c \in H : SameId(ev, c) = H,
           \A c, d \in H : c[1] = d[1] => c = d,
           NEW last \in H,
           \A c \in H : c = last \/ \E d \in H : ParentOf(ev, d[1]) = c[1]
    PROVE  \E s \in H : /\ \A t \in H : TopIn(Bases(ev), t) <=> t = s
                        /\ RootIn(Bases(ev), s) = last
<1> DEFINE bases == Bases(ev)
           held == {c[1] : c \in H}
<1>1. PICK rank, bound : Descends(bases, rank, bound)
  BY BasesDescend
<1>2. DOMAIN bases = AllControls(ev)
  BY BasesDescend
<1>3. /\ NoControl \notin H /\ IsFiniteSet(H)
      /\ \A c \in H : c[1] \in DOMAIN ev /\ c[1] # 0
  BY ScanIs, FS_Subset
<1>4. \A d \in H : ParentOf(ev, d[1]) # last[1]
  <2> SUFFICES ASSUME NEW e \in H, ParentOf(ev, e[1]) = last[1] PROVE FALSE
    OBVIOUS
  <2>1. \A p \in held : \E q \in held : ParentOf(ev, q) = p
    OBVIOUS
  <2>2. held \in SUBSET DOMAIN ev /\ held # {}
    BY <1>3
  <2> HIDE DEF held
  <2> QED
    BY <2>1, <2>2, Deepest
<1>5. bases[last] = NoControl
  <2>1. CASE Linked(ev, last[1])
    <3>1. bases[last] = NoControl \/ (bases[last] \in H /\ ParentOf(ev, bases[last][1]) = last[1])
      BY <2>1, BaseIs
    <3> QED
      BY <1>4, <3>1
  <2>2. CASE ~Linked(ev, last[1])
    <3> DEFINE rest == held \ {last[1]}
    <3>1. rest = {}
      <4> SUFFICES ASSUME rest # {} PROVE FALSE
        OBVIOUS
      <4>1. ParentOf(ev, last[1]) = 0
        BY <2>2 DEF Linked
      <4>2. ASSUME NEW p \in rest PROVE \E q \in rest : ParentOf(ev, q) = p
        <5>1. PICK c \in H : c[1] = p /\ c # last
          BY <4>2
        <5>2. PICK d \in H : ParentOf(ev, d[1]) = c[1]
          BY <5>1
        <5>3. d[1] # last[1]
          BY <1>3, <4>1, <5>2
        <5> QED
          BY <5>1, <5>2, <5>3
      <4>3. rest \in SUBSET DOMAIN ev
        BY <1>3
      <4> HIDE DEF rest
      <4> QED
        BY <4>2, <4>3, Deepest
    <3>2. H = {last}
      BY <3>1
    <3>3. bases[last] = NoControl \/ bases[last] \in H \ {last}
      BY BaseIs
    <3> QED
      BY <3>2, <3>3
  <2> QED
    BY <2>1, <2>2
<1>6. ASSUME NEW c \in H \ {last}
      PROVE  bases[c] \in H /\ ParentOf(ev, bases[c][1]) = c[1]
  <2>1. PICK d \in H : ParentOf(ev, d[1]) = c[1]
    OBVIOUS
  <2>2. Linked(ev, c[1])
    BY <1>3, <2>1 DEF Linked, ExtendsFrom
  <2>3. bases[c] = Ancestor(ev, c)
    BY <2>2, BaseIs
  <2> QED
    BY <2>1, <2>3, AncestorIs
<1>7. PICK s \in AllControls(ev) : TopIn(bases, s) /\ RootIn(bases, s) = last
  BY <1>1, <1>2, <1>5, TopAbove
<1>8. s \in H
  <2>1. At(ev, last).id = At(ev, s).id
    BY <1>7, RootIs
  <2> QED
    BY <2>1 DEF SameId
<1>9. ASSUME NEW t \in H, TopIn(bases, t), t # s PROVE FALSE
  <2> DEFINE f == [c \in H \ {last} |-> bases[c]]
             rest == (H \ {s}) \ {t}
  <2>1. f \in [H \ {last} -> rest]
    <3> SUFFICES ASSUME NEW c \in H \ {last} PROVE bases[c] \in rest
      OBVIOUS
    <3>1. bases[c] # s /\ bases[c] # t
      BY <1>2, <1>7, <1>9 DEF TopIn
    <3> QED
      BY <1>6, <3>1
  <2>2. f \in Injection(H \ {last}, rest)
    <3>1. \A c, d \in H \ {last} : f[c] = f[d] => c = d
      BY <1>6
    <3> HIDE DEF f, rest
    <3> QED
      BY <2>1, <3>1 DEF Injection, IsInjective
  <2>3. IsFiniteSet(H \ {s}) /\ Cardinality(H \ {s}) = Cardinality(H) - 1
    BY <1>3, <1>8, FS_RemoveElement
  <2>4. IsFiniteSet(rest) /\ Cardinality(rest) = Cardinality(H \ {s}) - 1
    BY <2>3, <1>9, FS_RemoveElement
  <2>5. Cardinality(H \ {last}) = Cardinality(H) - 1
    BY <1>3, FS_RemoveElement
  <2>6. Cardinality(H \ {last}) <= Cardinality(rest)
    <3> HIDE DEF f, rest
    <3> QED
      BY <2>2, <2>4, FS_Injection
  <2>7. Cardinality(H) \in Nat
    BY <1>3, FS_CardinalityType
  <2> QED
    BY <2>3, <2>4, <2>5, <2>6, <2>7
<1> QED
  BY <1>7, <1>8, <1>9

LEMMA AlwaysShownOnce == ASSUME NEW ev, Scan(ev) PROVE ShownOnce(ev)
<1> DEFINE bases == Bases(ev)
           row(c) == Row(0, ev, bases, c)
           rows == Context(0, ev)
<1>1. rows = {row(c) : c \in AllControls(ev)}
  BY DEF Context
<1>2. \A c : /\ row(c).at = c /\ row(c).hdf.id = At(ev, c).id
             /\ row(c).top = TopIn(bases, c) /\ row(c).rootAt = RootIn(bases, c)
  BY RowIs
<1> HIDE DEF row, bases, rows
<1> SUFFICES
      ASSUME NEW id,
             LET of == {r \in rows : r.hdf.id = id} IN
                \A r, s \in of : r.at[1] = s.at[1] => r = s,
             NEW bottom \in {r.at[1] : r \in {x \in rows : x.hdf.id = id}},
             \A p \in {r.at[1] : r \in {x \in rows : x.hdf.id = id}} :
                p = bottom \/ {r.at[1] : r \in {x \in rows : x.hdf.id = id}}
                                 \cap ExtendsFrom(ev, p) # {}
      PROVE  \E r \in {x \in rows : x.hdf.id = id} :
                /\ {s \in {x \in rows : x.hdf.id = id} : s.top} = {r}
                /\ r.rootAt[1] = bottom
  BY DEF ShownOnce, rows
<1> DEFINE of == {x \in rows : x.hdf.id = id}
           held == {r.at[1] : r \in of}
           H == {c \in AllControls(ev) : At(ev, c).id = id}
<1>3. of = {row(c) : c \in H}
  BY <1>1, <1>2
<1>4. held = {c[1] : c \in H}
  BY <1>2, <1>3
<1>5. \A c \in H : SameId(ev, c) = H
  BY DEF SameId
<1>6. \A c, d \in H : c[1] = d[1] => c = d
  <2> SUFFICES ASSUME NEW c \in H, NEW d \in H, c[1] = d[1] PROVE c = d
    OBVIOUS
  <2>1. row(c) \in of /\ row(d) \in of /\ row(c).at = c /\ row(d).at = d
    BY <1>2, <1>3
  <2>2. row(c) = row(d)
    BY <2>1
  <2> QED
    BY <2>1, <2>2
<1>7. PICK last \in H : last[1] = bottom
  BY <1>4
<1>8. ASSUME NEW c \in H PROVE c = last \/ \E d \in H : ParentOf(ev, d[1]) = c[1]
  <2>1. c[1] \in held
    BY <1>4
  <2>2. c[1] = bottom \/ \E q \in held : q \in ExtendsFrom(ev, c[1])
    BY <2>1
  <2>3. c[1] = bottom => c = last
    BY <1>6, <1>7
  <2> HIDE DEF held, H, of
  <2>4. \A q \in held : \E d \in H : q = d[1]
    BY <1>4
  <2> QED
    BY <2>2, <2>3, <2>4 DEF ExtendsFrom
<1>9. PICK s \in H : /\ \A t \in H : TopIn(bases, t) <=> t = s
                     /\ RootIn(bases, s) = last
  <2>1. H \in SUBSET AllControls(ev)
    OBVIOUS
  <2> HIDE DEF H
  <2> QED
    BY <1>5, <1>6, <1>8, <2>1, OneTop DEF bases
<1> HIDE DEF H
<1>10. row(s) \in of /\ row(s).rootAt[1] = bottom
  BY <1>2, <1>3, <1>7, <1>9
<1>11. {x \in of : x.top} = {row(s)}
  <2>1. ASSUME NEW x \in of, x.top PROVE x = row(s)
    BY <1>2, <1>3, <1>9, <2>1
  <2>2. row(s).top
    BY <1>2, <1>9
  <2> HIDE DEF of
  <2> QED
    BY <1>10, <2>1, <2>2
<1> QED
  BY <1>10, <1>11

(* In every report whose profiles overlay each other in no circle, each    *)
(* chain of overlays ends at a control of the same id, no results are      *)
(* dropped but those the code documents, and a requirement of profiles in  *)
(* one line is shown once, with the results of the last (context.ts).      *)
THEOREM OverlaysAlwaysResolved == PartsSpec => []OverlaysResolved
<1>1. PartsInit => OverlaysResolved
  <2> SUFFICES ASSUME PartsInit, part = "overlays"
               PROVE  RootsEnd(input) /\ ResultsShown(input) /\ ShownOnce(input)
    BY DEF OverlaysResolved
  <2>1. input \in Scans
    BY DEF PartsInit
  <2>2. Scan(input)
    BY <2>1, ScansAssumption
  <2> QED
    BY <2>2, RootsAlwaysEnd, ResultsAlwaysShown, AlwaysShownOnce
<1>2. OverlaysResolved /\ [PartsNext]_partsVars => OverlaysResolved'
  <2> SUFFICES ASSUME OverlaysResolved, [PartsNext]_partsVars PROVE OverlaysResolved'
    OBVIOUS
  <2>1. UNCHANGED <<part, input>>
    BY DEF PartsNext, partsVars
  <2> QED
    BY <2>1 DEF OverlaysResolved
<1> QED
  BY <1>1, <1>2, PTL DEF PartsSpec

-----------------------------------------------------------------------------
(* The group store, for any number of groups and calls.  First what the    *)
(* lists of rows keep, in any store.                                       *)

(* The rows of a list have ids of their own.                               *)
Once(s) == \A i, j \in DOMAIN s : s[i].id = s[j].id => i = j

LEMMA IndexOfIdIs ==
    ASSUME NEW S, NEW s \in Seq(S), NEW id
    PROVE  /\ IndexOfId(s, id) = 0 => \A i \in DOMAIN s : s[i].id # id
           /\ IndexOfId(s, id) # 0 => IndexOfId(s, id) \in DOMAIN s /\ s[IndexOfId(s, id)].id = id
<1> DEFINE I == {i \in 1..Len(s) : s[i].id = id}
<1>1. Len(s) \in Nat /\ DOMAIN s = 1..Len(s)
  BY LenProperties
<1>2. IndexOfId(s, id) = IF I # {} THEN Min(I) ELSE 0
  BY DEF IndexOfId, SelectInSeq
<1>3. I # {} => Min(I) \in I
  <2>1. I \in SUBSET Nat
    BY <1>1
  <2> HIDE DEF I
  <2> QED
    BY <2>1, SmallestIs
<1>4. 0 \notin I
  BY <1>1
<1>5. \A i \in DOMAIN s : s[i].id = id => i \in I
  BY <1>1
<1>6. \A i \in I : i \in DOMAIN s /\ s[i].id = id
  BY <1>1
<1> HIDE DEF I
<1> QED
  BY <1>2, <1>3, <1>4, <1>5, <1>6

LEMMA IndexOfIs ==
    ASSUME NEW S, NEW s \in Seq(S), NEW x
    PROVE  /\ IndexOf(s, x) = 0 => \A i \in DOMAIN s : ~SameObject(x, s[i])
           /\ IndexOf(s, x) # 0 => IndexOf(s, x) \in DOMAIN s /\ SameObject(x, s[IndexOf(s, x)])
<1> DEFINE I == {i \in 1..Len(s) : SameObject(x, s[i])}
<1>1. Len(s) \in Nat /\ DOMAIN s = 1..Len(s)
  BY LenProperties
<1>2. IndexOf(s, x) = IF I # {} THEN Min(I) ELSE 0
  BY DEF IndexOf, SelectInSeq
<1>3. I # {} => Min(I) \in I
  <2>1. I \in SUBSET Nat
    BY <1>1
  <2> HIDE DEF I
  <2> QED
    BY <2>1, SmallestIs
<1>4. 0 \notin I
  BY <1>1
<1>5. \A i \in DOMAIN s : SameObject(x, s[i]) => i \in I
  BY <1>1
<1>6. \A i \in I : i \in DOMAIN s /\ SameObject(x, s[i])
  BY <1>1
<1> HIDE DEF I
<1> QED
  BY <1>2, <1>3, <1>4, <1>5, <1>6

(* What is left of a list without one of its rows.                         *)
LEMMA RemoveAtIs ==
    ASSUME NEW S, NEW s \in Seq(S), NEW i \in DOMAIN s
    PROVE  /\ RemoveAt(s, i) \in Seq(S) /\ Len(RemoveAt(s, i)) = Len(s) - 1
           /\ \A k \in DOMAIN RemoveAt(s, i) :
                 RemoveAt(s, i)[k] = (IF k < i THEN s[k] ELSE s[k + 1])
<1> DEFINE n == Len(s)
           a == SubSeq(s, 1, i - 1)
           b == SubSeq(s, i + 1, n)
           q == a \o b
<1>1. n \in Nat /\ DOMAIN s = 1..n /\ i \in 1..n
  BY LenProperties
<1>2. /\ a \in Seq(S) /\ Len(a) = i - 1 /\ \A k \in 1..(i - 1) : a[k] = s[k]
  <2>1. \A k \in 1..(i - 1) : s[k] \in S
    BY <1>1, ElementOfSeq
  <2>2. 1 \in Int /\ i - 1 \in Int
    BY <1>1
  <2>3. /\ a \in Seq(S) /\ Len(a) = IF 1 <= i - 1 THEN i - 1 - 1 + 1 ELSE 0
        /\ \A k \in 1..(i - 1 - 1 + 1) : a[k] = s[1 + k - 1]
    BY <2>1, <2>2, SubSeqProperties
  <2> HIDE DEF a, n
  <2>4. i - 1 - 1 + 1 = i - 1 /\ \A k \in 1..(i - 1) : 1 + k - 1 = k
    BY <1>1
  <2> QED
    BY <1>1, <2>3, <2>4
<1>3. /\ b \in Seq(S) /\ Len(b) = n - i /\ \A k \in 1..(n - i) : b[k] = s[i + k]
  <2>1. \A k \in (i + 1)..n : s[k] \in S
    BY <1>1, ElementOfSeq
  <2>2. i + 1 \in Int /\ n \in Int
    BY <1>1
  <2>3. /\ b \in Seq(S) /\ Len(b) = IF i + 1 <= n THEN n - (i + 1) + 1 ELSE 0
        /\ \A k \in 1..(n - (i + 1) + 1) : b[k] = s[i + 1 + k - 1]
    BY <2>1, <2>2, SubSeqProperties
  <2> HIDE DEF b, n
  <2>4. n - (i + 1) + 1 = n - i /\ \A k \in 1..(n - i) : i + 1 + k - 1 = i + k
    BY <1>1
  <2> QED
    BY <1>1, <2>3, <2>4
<1> HIDE DEF a, b, n
<1>4. /\ q \in Seq(S) /\ Len(q) = Len(a) + Len(b)
      /\ \A k \in 1..(Len(a) + Len(b)) : q[k] = IF k <= Len(a) THEN a[k] ELSE b[k - Len(a)]
  BY <1>2, <1>3, ConcatProperties
<1>5. Len(q) = n - 1 /\ DOMAIN q = 1..(n - 1)
  BY <1>1, <1>2, <1>3, <1>4, LenProperties
<1> HIDE DEF q
<1>6. ASSUME NEW k \in 1..(n - 1) PROVE q[k] = (IF k < i THEN s[k] ELSE s[k + 1])
  <2>1. q[k] = IF k <= i - 1 THEN a[k] ELSE b[k - (i - 1)]
    BY <1>1, <1>2, <1>3, <1>4, <1>5
  <2>2. CASE k < i
    BY <1>1, <1>2, <2>1, <2>2
  <2>3. CASE ~(k < i)
    <3>1. k - (i - 1) \in 1..(n - i) /\ i + (k - (i - 1)) = k + 1 /\ ~(k <= i - 1)
      BY <1>1, <2>3
    <3>2. b[k - (i - 1)] = s[i + (k - (i - 1))]
      BY <1>3, <3>1
    <3> QED
      BY <2>1, <2>3, <3>1, <3>2
  <2> QED
    BY <2>2, <2>3
<1>7. RemoveAt(s, i) = q
  BY DEF RemoveAt, q, a, b, n
<1> QED
  BY <1>4, <1>5, <1>6, <1>7 DEF n

LEMMA RemovedRows ==
    ASSUME NEW S, NEW s \in Seq(S), NEW i \in DOMAIN s
    PROVE  /\ RemoveAt(s, i) \in Seq(S)
           /\ \A k \in DOMAIN RemoveAt(s, i) :
                 \E l \in DOMAIN s : l # i /\ RemoveAt(s, i)[k] = s[l]
           /\ \A l \in DOMAIN s :
                 l # i => \E k \in DOMAIN RemoveAt(s, i) : RemoveAt(s, i)[k] = s[l]
           /\ Once(s) => Once(RemoveAt(s, i))
<1> DEFINE q == RemoveAt(s, i)
           n == Len(s)
           at(k) == IF k < i THEN k ELSE k + 1
<1>1. n \in Nat /\ DOMAIN s = 1..n /\ i \in 1..n
  BY LenProperties
<1>2. /\ q \in Seq(S) /\ DOMAIN q = 1..(n - 1)
      /\ \A k \in DOMAIN q : q[k] = IF k < i THEN s[k] ELSE s[k + 1]
  BY <1>1, RemoveAtIs, LenProperties
<1> HIDE DEF q, n
<1>3. \A k \in DOMAIN q : at(k) \in DOMAIN s /\ at(k) # i /\ q[k] = s[at(k)]
  BY <1>1, <1>2
<1>4. \A l \in DOMAIN s : l # i => \E k \in DOMAIN q : at(k) = l
  <2> SUFFICES ASSUME NEW l \in DOMAIN s, l # i PROVE \E k \in DOMAIN q : at(k) = l
    OBVIOUS
  <2>1. CASE l < i
    BY <1>1, <1>2, <2>1
  <2>2. CASE i < l
    <3>1. l - 1 \in 1..(n - 1) /\ at(l - 1) = l
      BY <1>1, <2>2
    <3> QED
      BY <1>2, <3>1
  <2> QED
    BY <1>1, <2>1, <2>2
<1>5. \A k, l \in DOMAIN q : at(k) = at(l) => k = l
  BY <1>1, <1>2
<1> HIDE DEF at
<1>6. Once(s) => Once(q)
  BY <1>3, <1>5 DEF Once
<1> QED
  BY <1>2, <1>3, <1>4, <1>6 DEF q

(* splice takes out a row and adds none; the row it finds, if there is one. *)
LEMMA SpliceIs ==
    ASSUME NEW S, NEW s \in Seq(S), NEW x
    PROVE  /\ SpliceFound(s, x) \in Seq(S)
           /\ \A k \in DOMAIN SpliceFound(s, x) :
                 \E l \in DOMAIN s : SpliceFound(s, x)[k] = s[l]
           /\ Once(s) => Once(SpliceFound(s, x))
<1> DEFINE f == IndexOf(s, x)
           i == IF f = 0 THEN Len(s) ELSE f
           q == SpliceFound(s, x)
<1>1. CASE s = <<>>
  <2>1. q = s /\ DOMAIN s = {}
    BY <1>1 DEF SpliceFound
  <2> HIDE DEF q
  <2> QED
    BY <2>1 DEF q, Once
<1>2. CASE s # <<>>
  <2>1. q = RemoveAt(s, i)
    BY <1>2 DEF SpliceFound
  <2>2. i \in DOMAIN s
    <3>1. Len(s) \in Nat /\ DOMAIN s = 1..Len(s) /\ Len(s) # 0
      BY <1>2, LenProperties, EmptySeq
    <3>2. f # 0 => f \in DOMAIN s
      BY IndexOfIs
    <3> QED
      BY <3>1, <3>2
  <2> HIDE DEF i, q
  <2>3. /\ q \in Seq(S)
        /\ \A k \in DOMAIN q : \E l \in DOMAIN s : l # i /\ q[k] = s[l]
        /\ Once(s) => Once(q)
    BY <2>1, <2>2, RemovedRows
  <2> QED
    BY <2>3 DEF q
<1> QED
  BY <1>1, <1>2

LEMMA SpliceTakes ==
    ASSUME NEW S, NEW s \in Seq(S), Once(s), NEW x, NEW j \in DOMAIN s, SameObject(x, s[j])
    PROVE  /\ \A k \in DOMAIN SpliceFound(s, x) : SpliceFound(s, x)[k].id # x.id
           /\ \A l \in DOMAIN s : s[l].id # x.id =>
                 \E k \in DOMAIN SpliceFound(s, x) : SpliceFound(s, x)[k] = s[l]
<1> DEFINE i == IndexOf(s, x)
           q == RemoveAt(s, i)
<1>1. i # 0
  BY IndexOfIs
<1>2. i \in DOMAIN s /\ SameObject(x, s[i])
  BY <1>1, IndexOfIs
<1>3. SpliceFound(s, x) = q
  BY <1>1, <1>2, LenProperties DEF SpliceFound
<1> HIDE DEF i, q
<1>4. /\ \A k \in DOMAIN q : \E l \in DOMAIN s : l # i /\ q[k] = s[l]
      /\ \A l \in DOMAIN s : l # i => \E k \in DOMAIN q : q[k] = s[l]
  BY <1>2, RemovedRows DEF q
<1>5. s[i].id = x.id /\ \A l \in DOMAIN s : l # i => s[l].id # x.id
  BY <1>2 DEF SameObject, Once
<1> QED
  BY <1>3, <1>4, <1>5

(* A row at the end of a list.                                             *)
LEMMA AppendRows ==
    ASSUME NEW S, NEW s \in Seq(S), NEW r \in S
    PROVE  /\ Append(s, r) \in Seq(S)
           /\ \A k \in DOMAIN Append(s, r) :
                 Append(s, r)[k] = r \/ \E l \in DOMAIN s : l = k /\ Append(s, r)[k] = s[l]
           /\ \A l \in DOMAIN s : l \in DOMAIN Append(s, r) /\ Append(s, r)[l] = s[l]
           /\ \E k \in DOMAIN Append(s, r) : Append(s, r)[k] = r
           /\ Once(s) /\ (\A l \in DOMAIN s : s[l].id # r.id) => Once(Append(s, r))
<1> DEFINE q == Append(s, r)
           n == Len(s)
<1>1. n \in Nat /\ DOMAIN s = 1..n
  BY LenProperties
<1>2. /\ q \in Seq(S) /\ Len(q) = n + 1 /\ (\A i \in 1..n : q[i] = s[i]) /\ q[n + 1] = r
  BY AppendProperties
<1>3. DOMAIN q = 1..(n + 1)
  BY <1>2, LenProperties
<1> HIDE DEF q, n
<1>4. \A k \in DOMAIN q : k = n + 1 \/ k \in DOMAIN s
  BY <1>1, <1>3
<1>5. n + 1 \in DOMAIN q /\ \A l \in DOMAIN s : l \in DOMAIN q
  BY <1>1, <1>3
<1>6. Once(s) /\ (\A l \in DOMAIN s : s[l].id # r.id) => Once(q)
  BY <1>1, <1>2, <1>4 DEF Once
<1> QED
  BY <1>1, <1>2, <1>4, <1>5, <1>6 DEF q

-----------------------------------------------------------------------------
(* The lists of groups.                                                    *)

LEMMA GroupLists ==
    /\ \A s, id : G!IndexOfId(s, id) = IndexOfId(s, id)
    /\ \A s, x : G!SpliceFound(s, x) = SpliceFound(s, x)
    /\ \A s : G!Ids(s) = Ids(s)
    /\ \A S : G!SetToSeq(S) = SetToSeq(S)
    /\ \A S : G!Cardinality(S) = Cardinality(S)
  BY DEF G!IndexOfId, IndexOfId, G!SpliceFound, SpliceFound, G!IndexOf, IndexOf, G!RemoveAt, RemoveAt,
         G!SelectInSeq, SelectInSeq, G!Min, Min, G!SameObject, SameObject, G!Ids, Ids,
         G!SetToSeq, SetToSeq, G!IsInjective, IsInjective, G!Cardinality, Cardinality

(* The elements of a finite set, each once.                                *)
LEMMA EachOnce ==
    ASSUME NEW S, IsFiniteSet(S)
    PROVE  /\ SetToSeq(S) \in [1..Cardinality(S) -> S]
           /\ \A a, b \in 1..Cardinality(S) : SetToSeq(S)[a] = SetToSeq(S)[b] => a = b
           /\ \A x \in S : \E a \in 1..Cardinality(S) : SetToSeq(S)[a] = x
           /\ Cardinality(S) \in Nat
<1> DEFINE n == Cardinality(S)
           q == SetToSeq(S)
<1>1. n \in Nat /\ ExistsBijection(1..n, S)
  BY FS_CardinalityType
<1>2. \E f \in [1..n -> S] : IsInjective(f)
  BY <1>1 DEF ExistsBijection, Bijection, Injection, IsInjective
<1>3. q \in [1..n -> S] /\ IsInjective(q)
  BY <1>2 DEF SetToSeq
<1>4. q \in Injection(1..n, S)
  BY <1>3 DEF Injection, IsInjective
<1>5. Cardinality(1..n) = n
  BY <1>1, FS_Interval
<1>6. q \in Surjection(1..n, S)
  BY <1>4, <1>5, FS_Injection
<1> QED
  BY <1>1, <1>3, <1>6 DEF IsInjective, Surjection

(* What the answer to a list brings.                                       *)
LEMMA RowsAre ==
    ASSUME NEW c, c.got \in [Group -> 0..MaxVer], c.n \in 1..GroupCalls
    PROVE  /\ G!Rows(c) \in Seq(G!Row) /\ Once(G!Rows(c))
           /\ \A k \in DOMAIN G!Rows(c) : LET r == G!Rows(c)[k] IN
                 r.id \in Group /\ c.got[r.id] > 0 /\ r.ver = c.got[r.id] /\ r.by = c.n
           /\ \A g \in Group : c.got[g] > 0 => \E k \in DOMAIN G!Rows(c) : G!Rows(c)[k].id = g
<1> DEFINE H == {g \in Group : c.got[g] > 0}
           n == Cardinality(H)
           q == SetToSeq(H)
           row(g) == [id |-> g, by |-> c.n, ver |-> c.got[g]]
           rows == [i \in 1..n |-> row(q[i])]
<1>1. IsFiniteSet(H)
  BY ClientAssumption, FS_Subset
<1> HIDE DEF H
<1>2. /\ q \in [1..n -> H] /\ n \in Nat
      /\ \A a, b \in 1..n : q[a] = q[b] => a = b
      /\ \A x \in H : \E a \in 1..n : q[a] = x
  BY <1>1, EachOnce
<1>3. G!Rows(c) = rows
  BY <1>2, GroupLists DEF G!Rows, H
<1> HIDE DEF n, q
<1>4. \A g \in H : row(g) \in G!Row /\ g \in Group /\ c.got[g] > 0
  BY DEF H, G!Row
<1>5. rows \in [1..n -> G!Row]
  BY <1>2, <1>4
<1>6. rows \in Seq(G!Row) /\ DOMAIN rows = 1..n
  BY <1>2, <1>5, IsASeq
<1>7. \A i \in 1..n : rows[i].id = q[i] /\ rows[i].by = c.n /\ rows[i].ver = c.got[q[i]] /\ q[i] \in H
  BY <1>2
<1> HIDE DEF rows
<1>8. Once(rows)
  BY <1>2, <1>6, <1>7 DEF Once
<1>9. \A k \in DOMAIN rows :
         rows[k].id \in Group /\ c.got[rows[k].id] > 0 /\ rows[k].ver = c.got[rows[k].id]
         /\ rows[k].by = c.n
  BY <1>4, <1>6, <1>7
<1>10. \A g \in Group : c.got[g] > 0 => \E k \in DOMAIN rows : rows[k].id = g
  <2>1. \A g \in Group : c.got[g] > 0 => g \in H
    BY DEF H
  <2> QED
    BY <1>2, <1>6, <1>7, <2>1
<1> QED
  BY <1>3, <1>6, <1>8, <1>9, <1>10

(* Object.assign into the row of that id, or push.                         *)
LEMMA PutRow ==
    ASSUME NEW s \in Seq(G!Row), NEW r \in G!Row, Once(s)
    PROVE  /\ G!Put(s, r) \in Seq(G!Row) /\ Once(G!Put(s, r))
           /\ \A k \in DOMAIN G!Put(s, r) :
                 \/ G!Put(s, r)[k].id = r.id /\ G!Put(s, r)[k].ver = r.ver
                 \/ G!Put(s, r)[k].id # r.id /\ \E l \in DOMAIN s : G!Put(s, r)[k] = s[l]
           /\ \E k \in DOMAIN G!Put(s, r) : G!Put(s, r)[k].id = r.id
           /\ \A l \in DOMAIN s : \E k \in DOMAIN G!Put(s, r) :
                 /\ G!Put(s, r)[k].id = s[l].id /\ G!Put(s, r)[k].by = s[l].by
                 /\ s[l].id # r.id => G!Put(s, r)[k] = s[l]
<1> DEFINE i == IndexOfId(s, r.id)
           q == G!Put(s, r)
<1>0. DOMAIN s = 1..Len(s) /\ Len(s) \in Nat /\ \A l \in DOMAIN s : s[l] \in G!Row
  BY LenProperties, ElementOfSeq
<1>1. CASE i = 0
  <2>1. q = Append(s, r)
    BY <1>1, GroupLists DEF G!Put
  <2>2. \A l \in DOMAIN s : s[l].id # r.id
    BY <1>1, IndexOfIdIs
  <2> HIDE DEF q
  <2>3. /\ q \in Seq(G!Row)
        /\ \A k \in DOMAIN q : q[k] = r \/ \E l \in DOMAIN s : l = k /\ q[k] = s[l]
        /\ \A l \in DOMAIN s : l \in DOMAIN q /\ q[l] = s[l]
        /\ \E k \in DOMAIN q : q[k] = r
        /\ Once(q)
    BY <2>1, <2>2, AppendRows
  <2>4. \A k \in DOMAIN q : \/ q[k].id = r.id /\ q[k].ver = r.ver
                            \/ q[k].id # r.id /\ \E l \in DOMAIN s : q[k] = s[l]
    BY <2>2, <2>3
  <2> QED
    BY <2>3, <2>4 DEF q
<1>2. CASE i # 0
  <2>1. q = [s EXCEPT ![i].ver = r.ver]
    BY <1>2, GroupLists DEF G!Put
  <2>2. i \in DOMAIN s /\ s[i].id = r.id
    BY <1>2, IndexOfIdIs
  <2> HIDE DEF i
  <2>3. s[i] \in G!Row
    BY <1>0, <2>2
  <2>4. DOMAIN q = DOMAIN s
    BY <2>1
  <2>5. \A k \in DOMAIN s : k # i => q[k] = s[k]
    BY <2>1, <2>2
  <2>6. q[i] = [s[i] EXCEPT !.ver = r.ver]
    BY <2>1, <2>2
  <2> HIDE DEF q
  <2>7. q[i] \in G!Row /\ q[i].id = s[i].id /\ q[i].by = s[i].by /\ q[i].ver = r.ver
    BY <2>3, <2>6 DEF G!Row
  <2>8. q \in Seq(G!Row)
    <3>1. q = [k \in 1..Len(s) |-> q[k]]
      BY <1>0, <2>1, <2>4 DEF q
    <3>2. \A k \in 1..Len(s) : q[k] \in G!Row
      BY <1>0, <2>5, <2>7
    <3> QED
      BY <1>0, <3>1, <3>2, IsASeq
  <2>9. \A k \in DOMAIN s : q[k].id = s[k].id /\ q[k].by = s[k].by
    BY <2>5, <2>7
  <2>10. Once(q)
    BY <2>4, <2>9 DEF Once
  <2>11. \A k \in DOMAIN s : k # i => s[k].id # r.id
    BY <2>2 DEF Once
  <2> QED
    BY <2>2, <2>4, <2>5, <2>7, <2>8, <2>9, <2>10, <2>11 DEF q
<1> QED
  BY <1>1, <1>2

GoodCall(c) ==
    /\ c \in G!Call /\ (c.kind \notin {"all", "my"} => c.id \in Mine)
    /\ c.state = "served" =>
          /\ c.kind = "one" => c.got[c.id] > 0
          /\ c.kind = "my" => \A g \in Group : c.got[g] > 0 => g \in Mine

(* The calls have numbers of their own and are about groups of this        *)
(* account, those of the lists apart.                                      *)
GoodCalls ==
    /\ gsent \in 0..GroupCalls /\ fetches \in 0..gsent
    /\ \A c \in gcalls : GoodCall(c) /\ c.n <= gsent
    /\ \A c, d \in gcalls : c.n = d.n => c = d

GoodLists ==
    /\ all \in Seq(G!Row) /\ Once(all) /\ my \in Seq(G!Row) /\ Once(my)
    /\ \A k \in DOMAIN my : my[k].id \in Mine
    /\ gdialog \in [id : Group, by : 1..GroupCalls] \cup {NoDialog}
    /\ gdialog # NoDialog => gdialog.id \in Mine

GoodServer ==
    /\ there \subseteq Group /\ ver \in [Group -> 0..MaxVer] /\ \A g \in there : ver[g] > 0

GroupsTyped ==
    GoodCalls /\ GoodLists /\ GoodServer /\ gcalm \in BOOLEAN /\ deleted \in BOOLEAN

LEMMA GroupTypes == GroupsTyped => G!TypeOK
<1> SUFFICES ASSUME GroupsTyped PROVE G!TypeOK
  OBVIOUS
<1>1. gsent \in 0..GroupCalls /\ fetches \in 0..GroupCalls
  BY ClientAssumption DEF GroupsTyped, GoodCalls
<1>2. gcalls \subseteq G!Call /\ \A c, d \in gcalls : c.n = d.n => c = d
  BY DEF GroupsTyped, GoodCalls, GoodCall
<1> QED
  BY <1>1, <1>2 DEF GroupsTyped, GoodLists, GoodServer, G!TypeOK

LEMMA NewCallIs ==
    ASSUME NEW n \in 1..GroupCalls, NEW kind \in G!Kinds, NEW g \in Group, NEW o \in 0..GroupCalls,
           kind \notin {"all", "my"} => g \in Mine
    PROVE  LET c == G!New(n, kind, g, o) IN
              /\ GoodCall(c) /\ c.n = n /\ c.kind = kind /\ c.id = g /\ c.obj = o /\ c.state = "sent"
<1> DEFINE c == G!New(n, kind, g, o)
<1>1. G!Nothing \in [Group -> 0..MaxVer]
  BY ClientAssumption DEF G!Nothing
<1>2. c = [n |-> n, kind |-> kind, id |-> g, obj |-> o, state |-> "sent", got |-> G!Nothing]
  BY DEF G!New
<1>3. c \in G!Call
  BY <1>1, <1>2 DEF G!Call
<1> HIDE DEF c
<1> QED
  BY <1>2, <1>3 DEF GoodCall, c

(* One more call, some of the others gone.                                 *)
LEMMA SendIs ==
    ASSUME GoodCalls, NEW kind \in G!Kinds, NEW g \in Group, NEW o \in 0..GroupCalls,
           kind \notin {"all", "my"} => g \in Mine,
           NEW others \in SUBSET gcalls, G!Send(kind, g, o, others), UNCHANGED fetches
    PROVE  /\ GoodCalls'
           /\ \E c : /\ gcalls' = others \cup {c}
                     /\ c.kind = kind /\ c.id = g /\ c.obj = o /\ c.state = "sent"
<1> DEFINE c == G!New(gsent + 1, kind, g, o)
<1>1. /\ gsent < GroupCalls /\ gsent' = gsent + 1 /\ gcalls' = others \cup {c}
  BY DEF G!Send
<1>2. /\ gsent + 1 \in 1..GroupCalls /\ gsent' \in 0..GroupCalls /\ fetches' \in 0..gsent'
      /\ gsent \in Nat
  BY <1>1, ClientAssumption DEF GoodCalls
<1>3. GoodCall(c) /\ c.n = gsent + 1 /\ c.kind = kind /\ c.id = g /\ c.obj = o /\ c.state = "sent"
  BY <1>2, NewCallIs
<1> HIDE DEF c
<1>4. \A d \in others : GoodCall(d) /\ d.n <= gsent /\ d.n \in Nat
  BY DEF GoodCalls, GoodCall, G!Call
<1>5. \A d \in gcalls' : GoodCall(d)' /\ d.n <= gsent'
  <2>1. \A d : GoodCall(d)' <=> GoodCall(d)
    BY DEF GoodCall, G!Call
  <2> QED
    BY <1>1, <1>2, <1>3, <1>4, <2>1
<1>6. \A d, e \in gcalls' : d.n = e.n => d = e
  <2>1. \A d \in others : d.n # c.n
    BY <1>2, <1>3, <1>4
  <2>2. \A d, e \in others : d.n = e.n => d = e
    BY DEF GoodCalls
  <2> QED
    BY <1>1, <2>1, <2>2
<1>7. GoodCalls'
  BY <1>2, <1>5, <1>6 DEF GoodCalls
<1> QED
  BY <1>1, <1>3, <1>7

(* A call gives way to the same one in another state.                      *)
LEMMA ReplacedCalls ==
    ASSUME GoodCalls, NEW c \in gcalls, NEW d, GoodCall(d), d.n = c.n,
           gcalls' = (gcalls \ {c}) \cup {d}, UNCHANGED <<gsent, fetches>>
    PROVE  GoodCalls'
<1>1. \A e : GoodCall(e)' <=> GoodCall(e)
  BY DEF GoodCall, G!Call
<1>2. \A e \in gcalls' : GoodCall(e)' /\ e.n <= gsent'
  BY <1>1 DEF GoodCalls
<1>3. \A e, f \in gcalls' : e.n = f.n => e = f
  BY DEF GoodCalls
<1> QED
  BY <1>2, <1>3 DEF GoodCalls

LEMMA FewerCalls ==
    ASSUME GoodCalls, gcalls' \subseteq gcalls, UNCHANGED <<gsent, fetches>>
    PROVE  GoodCalls'
<1>1. \A e : GoodCall(e)' <=> GoodCall(e)
  BY DEF GoodCall, G!Call
<1> QED
  BY <1>1 DEF GoodCalls

(* The fields of a call that was served.                                   *)
LEMMA ServedCall ==
    ASSUME NEW c, GoodCall(c), NEW got \in [Group -> 0..MaxVer],
           c.kind = "one" => got[c.id] > 0,
           c.kind = "my" => \A g \in Group : got[g] > 0 => g \in Mine
    PROVE  LET d == [c EXCEPT !.state = "served", !.got = got] IN
              /\ GoodCall(d) /\ d.n = c.n /\ d.kind = c.kind /\ d.id = c.id /\ d.obj = c.obj
              /\ d.state = "served" /\ d.got = got
<1> DEFINE d == [c EXCEPT !.state = "served", !.got = got]
<1>1. c \in G!Call
  BY DEF GoodCall
<1>2. d \in G!Call /\ d.n = c.n /\ d.kind = c.kind /\ d.id = c.id /\ d.obj = c.obj
      /\ d.state = "served" /\ d.got = got
  BY <1>1 DEF G!Call
<1> HIDE DEF d
<1> QED
  BY <1>2 DEF GoodCall, d

LEMMA RefusedCall ==
    ASSUME NEW c, GoodCall(c)
    PROVE  LET d == [c EXCEPT !.state = "failed"] IN
              /\ GoodCall(d) /\ d.n = c.n /\ d.kind = c.kind /\ d.id = c.id /\ d.obj = c.obj
              /\ d.state = "failed"
<1> DEFINE d == [c EXCEPT !.state = "failed"]
<1>1. c \in G!Call
  BY DEF GoodCall
<1>2. d \in G!Call /\ d.n = c.n /\ d.kind = c.kind /\ d.id = c.id /\ d.obj = c.obj
      /\ d.state = "failed"
  BY <1>1 DEF G!Call
<1> HIDE DEF d
<1> QED
  BY <1>2 DEF GoodCall, d

-----------------------------------------------------------------------------
(* Types, numbers and owners, step by step.                                *)

LEMMA FetchTyped == ASSUME GroupsTyped, G!FetchGroupData PROVE GroupsTyped'
<1> DEFINE a == G!New(gsent + 1, "all", G!AnyGroup, 0)
           b == G!New(gsent + 2, "my", G!AnyGroup, 0)
<1>1. /\ gsent + 2 <= GroupCalls /\ gsent' = gsent + 2 /\ gcalls' = gcalls \cup {a, b}
      /\ fetches' = fetches + 1 /\ gcalm' = (gcalm /\ ~G!Meets("all", gcalls))
      /\ UNCHANGED <<there, ver, all, my, gdialog, deleted>>
  BY DEF G!FetchGroupData, G!server, G!page
<1>2. /\ gsent \in Nat /\ gsent + 1 \in 1..GroupCalls /\ gsent + 2 \in 1..GroupCalls
      /\ gsent' \in 0..GroupCalls /\ fetches' \in 0..gsent' /\ 0 \in 0..GroupCalls
  BY <1>1, ClientAssumption DEF GroupsTyped, GoodCalls
<1>3. G!AnyGroup \in Group
  BY ClientAssumption DEF G!AnyGroup
<1>4. GoodCall(a) /\ a.n = gsent + 1 /\ GoodCall(b) /\ b.n = gsent + 2
  BY <1>2, <1>3, NewCallIs DEF G!Kinds
<1> HIDE DEF a, b
<1>5. \A d \in gcalls : GoodCall(d) /\ d.n <= gsent /\ d.n \in Nat
  BY DEF GroupsTyped, GoodCalls, GoodCall, G!Call
<1>6. \A d \in gcalls' : GoodCall(d)' /\ d.n <= gsent'
  <2>1. \A d : GoodCall(d)' <=> GoodCall(d)
    BY DEF GoodCall, G!Call
  <2>2. \A d \in gcalls' : GoodCall(d) /\ d.n <= gsent'
    BY <1>1, <1>2, <1>4, <1>5
  <2> QED
    BY <2>1, <2>2
<1>7. \A d, e \in gcalls' : d.n = e.n => d = e
  <2>1. \A d \in gcalls : d.n # a.n /\ d.n # b.n
    BY <1>2, <1>4, <1>5
  <2>2. \A d, e \in gcalls : d.n = e.n => d = e
    BY DEF GroupsTyped, GoodCalls
  <2>3. a.n # b.n
    BY <1>2, <1>4
  <2> QED
    BY <1>1, <2>1, <2>2, <2>3
<1>8. GoodCalls'
  BY <1>2, <1>6, <1>7 DEF GoodCalls
<1>9. gcalm' \in BOOLEAN
  BY <1>1
<1> QED
  BY <1>1, <1>8, <1>9 DEF GroupsTyped, GoodLists, GoodServer

(* What a step leaves of the lists and the server.                         *)
LEMMA ListsKept ==
    ASSUME GoodLists, UNCHANGED <<all, my, gdialog>> PROVE GoodLists'
  BY DEF GoodLists, Once, G!Row

LEMMA ServerKept ==
    ASSUME GoodServer, UNCHANGED <<there, ver>> PROVE GoodServer'
  BY DEF GoodServer

LEMMA DialogTyped ==
    ASSUME GroupsTyped, G!OpenDelete \/ G!CloseDeleteDialog PROVE GroupsTyped'
<1>1. UNCHANGED <<there, ver, all, my, gcalls, gsent, fetches, gcalm, deleted>>
  BY DEF G!OpenDelete, G!CloseDeleteDialog, G!server, G!history
<1>2. GoodCalls'
  BY <1>1, FewerCalls DEF GroupsTyped
<1>3. CASE G!CloseDeleteDialog
  BY <1>1, <1>2, <1>3, ServerKept DEF G!CloseDeleteDialog, GroupsTyped, GoodLists, Once, G!Row
<1>4. CASE G!OpenDelete
  <2>1. PICK i \in DOMAIN my : gdialog' = [id |-> my[i].id, by |-> my[i].by]
    BY <1>4 DEF G!OpenDelete
  <2>2. my[i] \in G!Row /\ my[i].id \in Mine
    BY ElementOfSeq, LenProperties DEF GroupsTyped, GoodLists
  <2>3. gdialog' \in [id : Group, by : 1..GroupCalls] /\ gdialog'.id \in Mine
    BY <2>1, <2>2 DEF G!Row
  <2> QED
    BY <1>1, <1>2, <2>3, ServerKept DEF GroupsTyped, GoodLists, Once
<1> QED
  BY <1>3, <1>4

LEMMA AskTyped ==
    ASSUME GroupsTyped, G!ConfirmDelete \/ G!Save PROVE GroupsTyped'
<1>1. UNCHANGED <<there, ver, all, my, gdialog, fetches, deleted>>
  BY DEF G!ConfirmDelete, G!Save, G!server, G!page
<1>2. \E kind \in {"delete", "save"}, g \in Mine, o \in 0..GroupCalls : G!Send(kind, g, o, gcalls)
  <2>1. CASE G!ConfirmDelete
    <3>1. gdialog # NoDialog /\ G!Send("delete", gdialog.id, gdialog.by, gcalls)
      BY <2>1 DEF G!ConfirmDelete
    <3>2. gdialog.id \in Mine /\ gdialog.by \in 0..GroupCalls
      BY <3>1 DEF GroupsTyped, GoodLists
    <3> QED
      BY <3>1, <3>2
  <2>2. CASE G!Save
    <3>1. PICK g \in G!Ids(my) \cup {x \in Mine : ver[x] = 0 /\ ~\E c \in gcalls : c.id = x} :
             G!Send("save", g, 0, gcalls)
      BY <2>2 DEF G!Save
    <3>2. g \in Mine
      BY DEF GroupsTyped, GoodLists, G!Ids
    <3>3. 0 \in 0..GroupCalls
      BY ClientAssumption
    <3> QED
      BY <3>1, <3>2, <3>3
  <2> QED
    BY <2>1, <2>2
<1>3. PICK kind \in {"delete", "save"}, g \in Mine, o \in 0..GroupCalls : G!Send(kind, g, o, gcalls)
  BY <1>2
<1>4. GoodCalls'
  BY <1>1, <1>3, SendIs, ClientAssumption DEF GroupsTyped, G!Kinds
<1>5. gcalm' \in BOOLEAN
  BY <1>3 DEF G!Send
<1> QED
  BY <1>1, <1>4, <1>5, ListsKept, ServerKept DEF GroupsTyped

LEMMA OtherDeletesTyped == ASSUME GroupsTyped, G!OtherDeletes PROVE GroupsTyped'
<1>1. /\ there' \subseteq there /\ gcalm' = FALSE
      /\ UNCHANGED <<ver, all, my, gdialog, gcalls, gsent, fetches, deleted>>
  BY DEF G!OtherDeletes, G!page
<1>2. GoodServer'
  BY <1>1 DEF GroupsTyped, GoodServer
<1> QED
  BY <1>1, <1>2, ListsKept, FewerCalls DEF GroupsTyped

(* What the server holds of some groups.                                   *)
LEMMA HeldIs ==
    ASSUME GoodServer, NEW S
    PROVE  /\ G!Held(S) \in [Group -> 0..MaxVer]
           /\ \A g \in Group : G!Held(S)[g] = IF g \in S THEN ver[g] ELSE 0
<1>1. 0 \in 0..MaxVer
  BY ClientAssumption
<1> QED
  BY <1>1 DEF G!Held, GoodServer

Asked(c) == CASE c.kind = "all" -> Group [] c.kind = "my" -> Mine [] OTHER -> {c.id}

(* How the server answers a call that changes nothing.                     *)
LEMMA ServeReadIs ==
    ASSUME GroupsTyped, NEW c \in gcalls, G!ServeRead(c)
    PROVE  /\ UNCHANGED <<there, ver, all, my, gdialog, gsent, fetches, deleted>>
           /\ c.state = "sent" /\ c.kind \in G!Reads
           /\ \E d : /\ GoodCall(d) /\ d.n = c.n /\ d.kind = c.kind /\ d.id = c.id /\ d.obj = c.obj
                     /\ gcalls' = (gcalls \ {c}) \cup {d}
                     /\ \/ gcalm' = FALSE
                        \/ /\ gcalm' = gcalm /\ d.state = "served"
                           /\ d.got = G!Held(there \cap Asked(c))
                           /\ c.kind = "one" => c.id \in there
<1>1. /\ UNCHANGED <<there, ver, all, my, gdialog, gsent, fetches, deleted>>
      /\ c.state = "sent" /\ c.kind \in G!Reads
  BY DEF G!ServeRead, G!server, G!page
<1>2. GoodCall(c) /\ c.id \in Group
  BY DEF GroupsTyped, GoodCalls, GoodCall, G!Call
<1>3. CASE G!Refused(c)
  <2> DEFINE d == [c EXCEPT !.state = "failed"]
  <2>1. gcalls' = (gcalls \ {c}) \cup {d} /\ gcalm' = FALSE
    BY <1>3 DEF G!Refused
  <2>2. GoodCall(d) /\ d.n = c.n /\ d.kind = c.kind /\ d.id = c.id /\ d.obj = c.obj
    BY <1>2, RefusedCall
  <2> HIDE DEF d
  <2> QED
    BY <1>1, <2>1, <2>2
<1>4. CASE /\ ~(c.kind = "one" /\ c.id \notin there) /\ gcalm' = gcalm
           /\ G!Served(c, G!Held(there \cap Asked(c)))
  <2> DEFINE got == G!Held(there \cap Asked(c))
             d == [c EXCEPT !.state = "served", !.got = got]
  <2>1. /\ got \in [Group -> 0..MaxVer]
        /\ \A g \in Group : got[g] = IF g \in there \cap Asked(c) THEN ver[g] ELSE 0
    BY HeldIs DEF GroupsTyped
  <2>2. gcalls' = (gcalls \ {c}) \cup {d}
    BY <1>4 DEF G!Served
  <2> HIDE DEF got
  <2>3. c.kind = "one" => got[c.id] > 0
    BY <1>2, <1>4, <2>1 DEF Asked, GroupsTyped, GoodServer
  <2>4. c.kind = "my" => \A g \in Group : got[g] > 0 => g \in Mine
    BY <2>1 DEF Asked
  <2>5. /\ GoodCall(d) /\ d.n = c.n /\ d.kind = c.kind /\ d.id = c.id /\ d.obj = c.obj
        /\ d.state = "served" /\ d.got = got
    BY <1>2, <2>1, <2>3, <2>4, ServedCall
  <2> HIDE DEF d
  <2> QED
    BY <1>1, <1>4, <2>2, <2>5 DEF got
<1> QED
  BY <1>3, <1>4 DEF G!ServeRead, Asked

LEMMA ServeReadTyped ==
    ASSUME GroupsTyped, NEW c \in gcalls, G!ServeRead(c) PROVE GroupsTyped'
<1>1. /\ UNCHANGED <<there, ver, all, my, gdialog, gsent, fetches, deleted>>
      /\ gcalm' \in BOOLEAN
      /\ \E d : GoodCall(d) /\ d.n = c.n /\ gcalls' = (gcalls \ {c}) \cup {d}
  BY ServeReadIs DEF GroupsTyped
<1>2. GoodCalls'
  BY <1>1, ReplacedCalls DEF GroupsTyped
<1> QED
  BY <1>1, <1>2, ListsKept, ServerKept DEF GroupsTyped

(* How the server answers a call that changes a group.                     *)
LEMMA ServeChangeIs ==
    ASSUME GroupsTyped, NEW c \in gcalls, G!ServeChange(c)
    PROVE  /\ UNCHANGED <<all, my, gdialog, gsent, fetches, deleted>>
           /\ c.state = "sent" /\ c.kind \in {"save", "sync"} /\ GoodServer'
           /\ \E d : /\ GoodCall(d) /\ d.n = c.n /\ d.kind = c.kind /\ d.id = c.id /\ d.obj = c.obj
                     /\ gcalls' = (gcalls \ {c}) \cup {d}
                     /\ \/ gcalm' = FALSE
                        \/ /\ gcalm' = gcalm /\ d.state = "served" /\ there' = there \cup {c.id}
                           /\ \A g \in Group : g # c.id => ver'[g] = ver[g]
<1>1. /\ UNCHANGED <<all, my, gdialog, gsent, fetches, deleted>>
      /\ c.state = "sent" /\ c.kind \in {"save", "sync"}
  BY DEF G!ServeChange, G!page
<1>2. GoodCall(c) /\ c.id \in Group /\ ver \in [Group -> 0..MaxVer]
  BY DEF GroupsTyped, GoodServer, GoodCalls, GoodCall, G!Call
<1>3. CASE G!Refused(c) /\ UNCHANGED <<there, ver>>
  <2> DEFINE d == [c EXCEPT !.state = "failed"]
  <2>1. gcalls' = (gcalls \ {c}) \cup {d} /\ gcalm' = FALSE
    BY <1>3 DEF G!Refused
  <2>2. GoodCall(d) /\ d.n = c.n /\ d.kind = c.kind /\ d.id = c.id /\ d.obj = c.obj
    BY <1>2, RefusedCall
  <2>3. GoodServer'
    BY <1>3, ServerKept DEF GroupsTyped
  <2> HIDE DEF d
  <2> QED
    BY <1>1, <2>1, <2>2, <2>3
<1>4. CASE /\ ver[c.id] < MaxVer /\ ver' = [ver EXCEPT ![c.id] = @ + 1]
           /\ there' = there \cup {c.id} /\ gcalm' = gcalm
           /\ G!Served(c, [G!Nothing EXCEPT ![c.id] = ver[c.id] + 1])
  <2> DEFINE got == [G!Nothing EXCEPT ![c.id] = ver[c.id] + 1]
             d == [c EXCEPT !.state = "served", !.got = got]
  <2>1. ver[c.id] + 1 \in 1..MaxVer /\ 0 \in 0..MaxVer
    BY <1>2, <1>4, ClientAssumption
  <2>2. got \in [Group -> 0..MaxVer]
    BY <1>2, <2>1 DEF G!Nothing
  <2>3. gcalls' = (gcalls \ {c}) \cup {d}
    BY <1>4 DEF G!Served
  <2> HIDE DEF got
  <2>4. /\ GoodCall(d) /\ d.n = c.n /\ d.kind = c.kind /\ d.id = c.id /\ d.obj = c.obj
        /\ d.state = "served" /\ d.got = got
    <3>1. c.kind = "one" => got[c.id] > 0
      BY <1>1
    <3>2. c.kind = "my" => \A g \in Group : got[g] > 0 => g \in Mine
      BY <1>1
    <3>3. GoodCall(c)
      BY <1>2
    <3> QED
      BY <2>2, <3>1, <3>2, <3>3, ServedCall, Zenon
  <2>5. ver' \in [Group -> 0..MaxVer] /\ ver'[c.id] = ver[c.id] + 1
        /\ \A g \in Group : g # c.id => ver'[g] = ver[g]
    BY <1>2, <1>4, <2>1
  <2>6. GoodServer'
    BY <1>2, <1>4, <2>1, <2>5 DEF GroupsTyped, GoodServer
  <2> HIDE DEF d
  <2> QED
    BY <1>1, <1>4, <2>3, <2>4, <2>5, <2>6
<1> QED
  BY <1>3, <1>4 DEF G!ServeChange, G!server

LEMMA ServeDeleteIs ==
    ASSUME GroupsTyped, NEW c \in gcalls, G!ServeDelete(c)
    PROVE  /\ UNCHANGED <<ver, all, my, gdialog, gsent, fetches, deleted>>
           /\ c.state = "sent" /\ c.kind = "delete" /\ GoodServer'
           /\ \E d : /\ GoodCall(d) /\ d.n = c.n /\ d.kind = c.kind /\ d.id = c.id /\ d.obj = c.obj
                     /\ gcalls' = (gcalls \ {c}) \cup {d}
                     /\ \/ gcalm' = FALSE
                        \/ gcalm' = gcalm /\ d.state = "served" /\ there' = there \ {c.id}
<1>1. /\ UNCHANGED <<ver, all, my, gdialog, gsent, fetches, deleted>>
      /\ c.state = "sent" /\ c.kind = "delete"
  BY DEF G!ServeDelete, G!page
<1>2. GoodCall(c)
  BY DEF GroupsTyped, GoodCalls
<1>3. CASE G!Refused(c) /\ there' = there
  <2> DEFINE d == [c EXCEPT !.state = "failed"]
  <2>1. gcalls' = (gcalls \ {c}) \cup {d} /\ gcalm' = FALSE
    BY <1>3 DEF G!Refused
  <2>2. GoodCall(d) /\ d.n = c.n /\ d.kind = c.kind /\ d.id = c.id /\ d.obj = c.obj
    BY <1>2, RefusedCall
  <2>3. GoodServer'
    BY <1>1, <1>3, ServerKept DEF GroupsTyped
  <2> HIDE DEF d
  <2> QED
    BY <1>1, <2>1, <2>2, <2>3
<1>4. CASE there' = there \ {c.id} /\ gcalm' = gcalm /\ G!Served(c, G!Nothing)
  <2> DEFINE got == G!Nothing
             d == [c EXCEPT !.state = "served", !.got = got]
  <2>1. got \in [Group -> 0..MaxVer]
    BY ClientAssumption DEF G!Nothing
  <2>2. gcalls' = (gcalls \ {c}) \cup {d}
    BY <1>4 DEF G!Served
  <2> HIDE DEF got
  <2>3. /\ GoodCall(d) /\ d.n = c.n /\ d.kind = c.kind /\ d.id = c.id /\ d.obj = c.obj
        /\ d.state = "served" /\ d.got = got
    <3>1. c.kind = "one" => got[c.id] > 0
      BY <1>1
    <3>2. c.kind = "my" => \A g \in Group : got[g] > 0 => g \in Mine
      BY <1>1
    <3>3. GoodCall(c)
      BY <1>2
    <3> QED
      BY <2>1, <3>1, <3>2, <3>3, ServedCall, Zenon
  <2>4. GoodServer'
    BY <1>1, <1>4 DEF GroupsTyped, GoodServer
  <2> HIDE DEF d
  <2> QED
    BY <1>1, <1>4, <2>2, <2>3, <2>4
<1> QED
  BY <1>3, <1>4 DEF G!ServeDelete

LEMMA ServeTyped ==
    ASSUME GroupsTyped, NEW c \in gcalls, G!ServeChange(c) \/ G!ServeDelete(c) PROVE GroupsTyped'
<1>1. /\ UNCHANGED <<all, my, gdialog, gsent, fetches, deleted>>
      /\ gcalm' \in BOOLEAN /\ GoodServer'
      /\ \E d : GoodCall(d) /\ d.n = c.n /\ gcalls' = (gcalls \ {c}) \cup {d}
  BY ServeChangeIs, ServeDeleteIs DEF GroupsTyped
<1>2. GoodCalls'
  BY <1>1, ReplacedCalls DEF GroupsTyped
<1> QED
  BY <1>1, <1>2, ListsKept DEF GroupsTyped

-----------------------------------------------------------------------------
(* The answers.                                                            *)

(* What an answer to a list or to one group changes in the lists.          *)
LEMMA AnswerReadIs ==
    ASSUME GroupsTyped, NEW c \in gcalls, G!AnswerRead(c)
    PROVE  /\ UNCHANGED <<there, ver, gdialog, gsent, fetches, deleted>>
           /\ c.state = "served" /\ c.kind \in G!Reads /\ gcalls' = gcalls \ {c}
           /\ gcalm' = (gcalm /\ ~(c.kind = "my" /\ gdialog # NoDialog))
           /\ c.kind = "all" => all' = G!Rows(c) /\ my' = my
           /\ c.kind = "my" => my' = G!Rows(c) /\ all' = all
           /\ c.kind = "one" => /\ my' = G!Put(my, G!Row1(c)) /\ all' = G!Put(all, G!Row1(c))
                                /\ G!Row1(c) \in G!Row /\ G!Row1(c).id = c.id
                                /\ G!Row1(c).ver = c.got[c.id] /\ c.id \in Mine
           /\ c.got \in [Group -> 0..MaxVer] /\ c.n \in 1..GroupCalls
           /\ GoodCall(c)
<1>1. /\ UNCHANGED <<there, ver, gdialog, gsent, fetches, deleted>>
      /\ c.state = "served" /\ c.kind \in G!Reads /\ gcalls' = gcalls \ {c}
      /\ gcalm' = (gcalm /\ ~(c.kind = "my" /\ gdialog # NoDialog))
      /\ c.kind = "all" => all' = G!Rows(c) /\ my' = my
      /\ c.kind = "my" => my' = G!Rows(c) /\ all' = all
      /\ c.kind = "one" => my' = G!Put(my, G!Row1(c)) /\ all' = G!Put(all, G!Row1(c))
  BY DEF G!AnswerRead, G!server, G!UpdateGroup, G!Reads
<1>2. GoodCall(c) /\ c \in G!Call
  BY DEF GroupsTyped, GoodCalls, GoodCall
<1>3. c.got \in [Group -> 0..MaxVer] /\ c.n \in 1..GroupCalls /\ c.id \in Group
  BY <1>2 DEF G!Call
<1>4. c.kind = "one" => c.got[c.id] > 0 /\ c.id \in Mine
  BY <1>1, <1>2 DEF GoodCall
<1>5. c.kind = "one" => /\ G!Row1(c) \in G!Row /\ G!Row1(c).id = c.id
                        /\ G!Row1(c).ver = c.got[c.id]
  <2>1. c.kind = "one" => c.got[c.id] \in 1..MaxVer
    BY <1>3, <1>4, ClientAssumption
  <2> QED
    BY <1>3, <2>1 DEF G!Row1, G!Row
<1> QED
  BY <1>1, <1>2, <1>3, <1>4, <1>5

LEMMA AnswerReadTyped ==
    ASSUME GroupsTyped, NEW c \in gcalls, G!AnswerRead(c) PROVE GroupsTyped'
<1>1. /\ UNCHANGED <<there, ver, gdialog, gsent, fetches, deleted>>
      /\ c.state = "served" /\ c.kind \in G!Reads /\ gcalls' = gcalls \ {c}
      /\ gcalm' \in BOOLEAN
      /\ c.got \in [Group -> 0..MaxVer] /\ c.n \in 1..GroupCalls /\ GoodCall(c)
  BY AnswerReadIs DEF GroupsTyped
<1>2. GoodCalls'
  BY <1>1, FewerCalls DEF GroupsTyped
<1>3. /\ G!Rows(c) \in Seq(G!Row) /\ Once(G!Rows(c))
      /\ \A k \in DOMAIN G!Rows(c) : G!Rows(c)[k].id \in Group /\ c.got[G!Rows(c)[k].id] > 0
  BY <1>1, RowsAre
<1>4. my \in Seq(G!Row) /\ Once(my) /\ all \in Seq(G!Row) /\ Once(all)
      /\ \A k \in DOMAIN my : my[k].id \in Mine
  BY DEF GroupsTyped, GoodLists
<1>5. CASE c.kind = "all"
  <2>1. all' = G!Rows(c) /\ my' = my
    BY <1>5, AnswerReadIs
  <2> QED
    BY <1>1, <1>2, <1>3, <1>4, <2>1, ServerKept DEF GroupsTyped, GoodLists
<1>6. CASE c.kind = "my"
  <2>1. my' = G!Rows(c) /\ all' = all
    BY <1>6, AnswerReadIs
  <2>2. \A k \in DOMAIN G!Rows(c) : G!Rows(c)[k].id \in Mine
    BY <1>1, <1>3, <1>6 DEF GoodCall
  <2> QED
    BY <1>1, <1>2, <1>3, <1>4, <2>1, <2>2, ServerKept DEF GroupsTyped, GoodLists
<1>7. CASE c.kind = "one"
  <2> DEFINE r == G!Row1(c)
  <2>1. /\ my' = G!Put(my, r) /\ all' = G!Put(all, r) /\ r \in G!Row /\ r.id \in Mine
    BY <1>7, AnswerReadIs
  <2> HIDE DEF r
  <2>2. /\ G!Put(my, r) \in Seq(G!Row) /\ Once(G!Put(my, r))
        /\ \A k \in DOMAIN G!Put(my, r) :
              \/ G!Put(my, r)[k].id = r.id
              \/ \E l \in DOMAIN my : G!Put(my, r)[k] = my[l]
    <3> DEFINE q == G!Put(my, r)
    <3>1. /\ q \in Seq(G!Row) /\ Once(q)
          /\ \A k \in DOMAIN q : \/ q[k].id = r.id /\ q[k].ver = r.ver
                                 \/ q[k].id # r.id /\ \E l \in DOMAIN my : q[k] = my[l]
      BY <1>4, <2>1, PutRow
    <3> HIDE DEF q
    <3>2. \A k \in DOMAIN q : q[k].id = r.id \/ \E l \in DOMAIN my : q[k] = my[l]
      BY <3>1
    <3> QED
      BY <3>1, <3>2 DEF q
  <2>3. all' \in Seq(G!Row) /\ Once(all')
    BY <1>4, <2>1, PutRow
  <2>4. \A k \in DOMAIN my' : my'[k].id \in Mine
    BY <1>4, <2>1, <2>2
  <2>5. my' \in Seq(G!Row) /\ Once(my')
    BY <2>1, <2>2
  <2>6. GoodLists'
    BY <1>1, <2>3, <2>4, <2>5 DEF GroupsTyped, GoodLists, Once
  <2> QED
    BY <1>1, <1>2, <2>6, ServerKept DEF GroupsTyped
<1> QED
  BY <1>1, <1>5, <1>6, <1>7 DEF G!Reads

(* The answer to a change sends the next call.                             *)
LEMMA AnswerChangeIs ==
    ASSUME GroupsTyped, NEW c \in gcalls, G!AnswerChange(c)
    PROVE  /\ UNCHANGED <<there, ver, all, my, gdialog, fetches, deleted>>
           /\ c.state = "served" /\ c.kind \in {"save", "sync"} /\ GoodCalls'
           /\ gcalm' \in BOOLEAN
           /\ \E d : /\ gcalls' = (gcalls \ {c}) \cup {d} /\ d.state = "sent" /\ d.id = c.id
                     /\ d.kind \in {"sync", "one"}
                     /\ gcalm' => gcalm /\ ~G!Meets(d.kind, gcalls \ {c})
<1>1. /\ UNCHANGED <<there, ver, all, my, gdialog, fetches, deleted>>
      /\ c.state = "served" /\ c.kind \in {"save", "sync"}
  BY DEF G!AnswerChange, G!server, G!page
<1>2. PICK next \in {"sync", "one"} : G!Send(next, c.id, 0, gcalls \ {c})
  BY DEF G!AnswerChange
<1>3. c.id \in Group /\ c.id \in Mine
  BY <1>1 DEF GroupsTyped, GoodCalls, GoodCall, G!Call
<1>4. next \in G!Kinds /\ next \notin {"all", "my"} /\ 0 \in 0..GroupCalls
  BY ClientAssumption DEF G!Kinds
<1>5. /\ GoodCalls'
      /\ \E d : /\ gcalls' = (gcalls \ {c}) \cup {d}
                /\ d.kind = next /\ d.id = c.id /\ d.state = "sent"
  <2>1. GoodCalls /\ gcalls \ {c} \in SUBSET gcalls /\ UNCHANGED fetches
    BY <1>1 DEF GroupsTyped
  <2> QED
    BY <1>2, <1>3, <1>4, <2>1, SendIs
<1>6. gcalm' = (gcalm /\ ~G!Meets(next, gcalls \ {c}))
  BY <1>2 DEF G!Send
<1>7. gcalm \in BOOLEAN
  BY DEF GroupsTyped
<1> QED
  BY <1>1, <1>2, <1>5, <1>6, <1>7

LEMMA AnswerChangeTyped ==
    ASSUME GroupsTyped, NEW c \in gcalls, G!AnswerChange(c) PROVE GroupsTyped'
<1>1. /\ UNCHANGED <<there, ver, all, my, gdialog, fetches, deleted>>
      /\ GoodCalls' /\ gcalm' \in BOOLEAN
  BY AnswerChangeIs
<1> QED
  BY <1>1, ListsKept, ServerKept DEF GroupsTyped

LEMMA AnswerDeleteIs ==
    ASSUME GroupsTyped, NEW c \in gcalls, G!AnswerDelete(c)
    PROVE  /\ UNCHANGED <<there, ver, gsent, fetches, gcalm>>
           /\ c.state = "served" /\ c.kind = "delete"
           /\ gcalls' = gcalls \ {c} /\ gdialog' = NoDialog /\ deleted' = TRUE
           /\ LET object == [id |-> c.id, by |-> c.obj] IN
                 all' = SpliceFound(all, object) /\ my' = SpliceFound(my, object)
<1>1. \A s, x : G!SpliceFound(s, x) = SpliceFound(s, x)
  BY GroupLists
<1> QED
  BY <1>1 DEF G!AnswerDelete, G!server

LEMMA AnswerDeleteTyped ==
    ASSUME GroupsTyped, NEW c \in gcalls, G!AnswerDelete(c) PROVE GroupsTyped'
<1> DEFINE object == [id |-> c.id, by |-> c.obj]
<1>1. /\ UNCHANGED <<there, ver, gsent, fetches, gcalm>>
      /\ gcalls' = gcalls \ {c} /\ gdialog' = NoDialog /\ deleted' = TRUE
      /\ all' = SpliceFound(all, object) /\ my' = SpliceFound(my, object)
  BY AnswerDeleteIs
<1> HIDE DEF object
<1>2. my \in Seq(G!Row) /\ Once(my) /\ all \in Seq(G!Row) /\ Once(all)
      /\ \A k \in DOMAIN my : my[k].id \in Mine
  BY DEF GroupsTyped, GoodLists
<1>3. /\ my' \in Seq(G!Row) /\ Once(my')
      /\ \A k \in DOMAIN my' : \E l \in DOMAIN my : my'[k] = my[l]
  BY <1>1, <1>2, SpliceIs
<1>4. all' \in Seq(G!Row) /\ Once(all')
  BY <1>1, <1>2, SpliceIs
<1>5. \A k \in DOMAIN my' : my'[k].id \in Mine
  BY <1>2, <1>3
<1>6. GoodLists'
  BY <1>1, <1>3, <1>4, <1>5 DEF GoodLists, Once
<1> QED
  BY <1>1, <1>6, ServerKept, FewerCalls DEF GroupsTyped

LEMMA AnswerFailureTyped ==
    ASSUME GroupsTyped, NEW c \in gcalls, G!AnswerFailure(c) PROVE GroupsTyped'
<1>1. /\ UNCHANGED <<there, ver, all, my, gsent, fetches, gcalm, deleted>>
      /\ gcalls' = gcalls \ {c} /\ gdialog' \in {gdialog, NoDialog}
  BY DEF G!AnswerFailure, G!server, G!history
<1>2. GoodLists'
  BY <1>1 DEF GroupsTyped, GoodLists, Once
<1> QED
  BY <1>1, <1>2, ServerKept, FewerCalls DEF GroupsTyped

LEMMA GroupsTypedInit == G!Init => GroupsTyped
<1> SUFFICES ASSUME G!Init PROVE GroupsTyped
  OBVIOUS
<1>1. GoodCalls
  BY ClientAssumption DEF G!Init, GoodCalls
<1>2. GoodLists
  <2>1. <<>> \in Seq(G!Row) /\ DOMAIN <<>> = {}
    BY EmptySeq
  <2> QED
    BY <2>1 DEF G!Init, GoodLists, Once
<1>3. GoodServer
  <2>1. there \subseteq Group /\ ver = [g \in Group |-> IF g \in there THEN 1 ELSE 0]
    BY DEF G!Init
  <2> QED
    BY <2>1, ClientAssumption DEF GoodServer
<1> QED
  BY <1>1, <1>2, <1>3 DEF GroupsTyped, G!Init

LEMMA GroupsTypedStep == ASSUME GroupsTyped, G!Next PROVE GroupsTyped'
  BY FetchTyped, DialogTyped, AskTyped, OtherDeletesTyped, ServeReadTyped, ServeTyped,
     AnswerReadTyped, AnswerChangeTyped, AnswerDeleteTyped, AnswerFailureTyped DEF G!Next

-----------------------------------------------------------------------------
(* What the lists show while no call meets another: what a call under way  *)
(* may have changed is not up to date, the rest agrees with the server.    *)

Waits(kind) == \E c \in gcalls : c.kind = kind

(* A call has changed g and its list has not been told, or will be told.   *)
Stale(g) ==
    \E c \in gcalls : /\ c.id = g
                      /\ \/ c.kind \in {"one", "sync"}
                         \/ c.kind \in {"save", "delete"} /\ c.state = "served"

Agrees(s, S) ==
    \A g \in S : ~Stale(g) =>
        /\ \A i \in DOMAIN s : s[i].id = g => g \in there /\ s[i].ver = ver[g]
        /\ g \in there => \E i \in DOMAIN s : s[i].id = g

HasObject(id, by) == \E i \in DOMAIN my : my[i].id = id /\ my[i].by = by

(* A call that changes something is the only one.                          *)
Alone == \A c \in gcalls : c.state # "failed" /\ (c.kind \in G!Changes => gcalls = {c})

AnswerRight(c) ==
    /\ c.kind \in G!Reads => c.got = G!Held(there \cap Asked(c))
    /\ c.kind = "one" => c.id \in there
    /\ c.kind = "delete" => c.id \notin there

AnswersRight == \A c \in gcalls : c.state = "served" => AnswerRight(c)

(* What is to be deleted is still the object of a row.                     *)
ObjectsHeld ==
    /\ gdialog # NoDialog => HasObject(gdialog.id, gdialog.by)
    /\ \A c \in gcalls : c.kind = "delete" => HasObject(c.id, c.obj)

MyAgrees == fetches > 0 /\ ~Waits("my") => Agrees(my, Mine)

AllAgrees == fetches > 0 /\ ~deleted /\ ~Waits("all") => Agrees(all, Group)

CalmParts == Alone /\ AnswersRight /\ ObjectsHeld /\ MyAgrees /\ AllAgrees

CalmInv == gcalm => CalmParts

(* A list that stays agrees as long as what it shows does.                 *)
LEMMA AgreesKept ==
    ASSUME NEW S,
           \A g \in S : ~Stale(g)' => ~Stale(g) /\ (g \in there' <=> g \in there) /\ ver'[g] = ver[g]
    PROVE  /\ my' = my /\ Agrees(my, S) => Agrees(my, S)'
           /\ all' = all /\ Agrees(all, S) => Agrees(all, S)'
<1>1. ASSUME my' = my, Agrees(my, S) PROVE Agrees(my, S)'
  BY <1>1 DEF Agrees
<1>2. ASSUME all' = all, Agrees(all, S) PROVE Agrees(all, S)'
  BY <1>2 DEF Agrees
<1> QED
  BY <1>1, <1>2

(* If nothing that is stale ceases to be, and neither the lists nor what   *)
(* the rest shows change.                                                  *)
LEMMA ListsAgree ==
    ASSUME CalmParts, UNCHANGED <<my, all>>, fetches' = fetches, deleted' = deleted,
           \A g \in Group :
              ~Stale(g)' => ~Stale(g) /\ (g \in there' <=> g \in there) /\ ver'[g] = ver[g],
           Waits("my") => Waits("my")', Waits("all") => Waits("all")'
    PROVE  MyAgrees' /\ AllAgrees'
<1>1. Agrees(my, Mine) => Agrees(my, Mine)'
  BY AgreesKept, ClientAssumption
<1>2. Agrees(all, Group) => Agrees(all, Group)'
  BY AgreesKept
<1> QED
  BY <1>1, <1>2 DEF CalmParts, MyAgrees, AllAgrees

LEMMA CalmInit == G!Init => CalmInv
<1> SUFFICES ASSUME G!Init PROVE CalmInv
  OBVIOUS
<1>1. gcalls = {} /\ gdialog = NoDialog /\ fetches = 0
  BY DEF G!Init
<1> QED
  BY <1>1 DEF CalmInv, CalmParts, Alone, AnswersRight, ObjectsHeld, MyAgrees, AllAgrees

LEMMA FetchCalm == ASSUME GroupsTyped, CalmInv, G!FetchGroupData PROVE CalmInv'
<1> SUFFICES ASSUME gcalm' PROVE CalmParts'
  BY DEF CalmInv
<1> DEFINE a == G!New(gsent + 1, "all", G!AnyGroup, 0)
           b == G!New(gsent + 2, "my", G!AnyGroup, 0)
<1>1. /\ gcalls' = gcalls \cup {a, b} /\ gcalm' = (gcalm /\ ~G!Meets("all", gcalls))
      /\ UNCHANGED <<there, ver, all, my, gdialog, deleted>>
  BY DEF G!FetchGroupData, G!server, G!page
<1>2. a.kind = "all" /\ a.state = "sent" /\ b.kind = "my" /\ b.state = "sent"
  BY DEF G!New
<1> HIDE DEF a, b
<1>3. CalmParts /\ \A c \in gcalls : c.kind \notin G!Changes
  BY <1>1 DEF CalmInv, G!Meets
<1>4. Alone'
  BY <1>1, <1>2, <1>3 DEF CalmParts, Alone, G!Changes
<1>5. AnswersRight'
  <2>1. \A c : AnswerRight(c) => AnswerRight(c)'
    BY <1>1 DEF AnswerRight, G!Held, Asked, G!Reads
  <2> QED
    BY <1>1, <1>2, <1>3, <2>1 DEF CalmParts, AnswersRight
<1>6. ObjectsHeld'
  BY <1>1, <1>2, <1>3 DEF CalmParts, ObjectsHeld, HasObject
<1>7. Waits("my")' /\ Waits("all")'
  BY <1>1, <1>2 DEF Waits
<1> QED
  BY <1>4, <1>5, <1>6, <1>7 DEF CalmParts, MyAgrees, AllAgrees

LEMMA DialogCalm ==
    ASSUME GroupsTyped, CalmInv, G!OpenDelete \/ G!CloseDeleteDialog PROVE CalmInv'
<1> SUFFICES ASSUME gcalm' PROVE CalmParts'
  BY DEF CalmInv
<1>1. UNCHANGED <<there, ver, all, my, gcalls, gsent, fetches, gcalm, deleted>>
  BY DEF G!OpenDelete, G!CloseDeleteDialog, G!server, G!history
<1>2. CalmParts
  BY <1>1 DEF CalmInv
<1>3. Alone' /\ AnswersRight'
  BY <1>1, <1>2
  DEF CalmParts, Alone, AnswersRight, AnswerRight, Asked, G!Held, G!Reads, G!Changes
<1>4. ObjectsHeld'
  <2>1. gdialog' # NoDialog => HasObject(gdialog.id, gdialog.by)'
    <3>1. CASE G!CloseDeleteDialog
      BY <3>1 DEF G!CloseDeleteDialog
    <3>2. CASE G!OpenDelete
      <4>1. PICK i \in DOMAIN my : gdialog' = [id |-> my[i].id, by |-> my[i].by]
        BY <3>2 DEF G!OpenDelete
      <4> QED
        BY <1>1, <4>1 DEF HasObject
    <3> QED
      BY <3>1, <3>2
  <2> QED
    BY <1>1, <1>2, <2>1 DEF CalmParts, ObjectsHeld, HasObject
<1>5. MyAgrees' /\ AllAgrees'
  <2>1. \A g \in Group : Stale(g)' <=> Stale(g)
    BY <1>1 DEF Stale
  <2>2. (Waits("my") => Waits("my")') /\ (Waits("all") => Waits("all")')
    BY <1>1 DEF Waits
  <2> QED
    BY <1>1, <1>2, <2>1, <2>2, ListsAgree
<1> QED
  BY <1>3, <1>4, <1>5 DEF CalmParts

(* A change is asked for when nothing else is under way.                   *)
LEMMA AskCalm ==
    ASSUME GroupsTyped, CalmInv, G!ConfirmDelete \/ G!Save PROVE CalmInv'
<1> SUFFICES ASSUME gcalm' PROVE CalmParts'
  BY DEF CalmInv
<1>1. UNCHANGED <<there, ver, all, my, gdialog, fetches, deleted>>
  BY DEF G!ConfirmDelete, G!Save, G!server, G!page
<1>2. \E kind \in {"delete", "save"} : \E g, o :
         /\ G!Send(kind, g, o, gcalls)
         /\ kind = "delete" => gdialog # NoDialog /\ g = gdialog.id /\ o = gdialog.by
  BY DEF G!ConfirmDelete, G!Save
<1>3. PICK kind, g, o :
         /\ kind \in {"delete", "save"}
         /\ G!Send(kind, g, o, gcalls)
         /\ kind = "delete" => gdialog # NoDialog /\ g = gdialog.id /\ o = gdialog.by
  BY <1>2
<1> DEFINE d == G!New(gsent + 1, kind, g, o)
<1>4. gcalls' = gcalls \cup {d} /\ gcalm' = (gcalm /\ ~G!Meets(kind, gcalls))
  BY <1>3 DEF G!Send
<1>5. d.kind = kind /\ d.id = g /\ d.obj = o /\ d.state = "sent"
  BY DEF G!New
<1> HIDE DEF d
<1>6. CalmParts /\ gcalls = {}
  BY <1>3, <1>4 DEF CalmInv, G!Meets, G!Changes
<1>7. gcalls' = {d}
  BY <1>4, <1>6
<1>8. Alone' /\ AnswersRight'
  BY <1>5, <1>7 DEF Alone, AnswersRight
<1>9. ObjectsHeld'
  BY <1>1, <1>3, <1>5, <1>6, <1>7 DEF CalmParts, ObjectsHeld, HasObject
<1>10. MyAgrees' /\ AllAgrees'
  <2>1. \A h \in Group : ~Stale(h)
    BY <1>6 DEF Stale
  <2>2. ~Waits("my") /\ ~Waits("all")
    BY <1>6 DEF Waits
  <2> QED
    BY <1>1, <1>6, <2>1, <2>2, ListsAgree
<1> QED
  BY <1>8, <1>9, <1>10 DEF CalmParts

LEMMA ServeReadCalm ==
    ASSUME GroupsTyped, CalmInv, NEW c \in gcalls, G!ServeRead(c) PROVE CalmInv'
<1> SUFFICES ASSUME gcalm' PROVE CalmParts'
  BY DEF CalmInv
<1>1. /\ UNCHANGED <<there, ver, all, my, gdialog, fetches, deleted>>
      /\ c.kind \in G!Reads
  BY ServeReadIs
<1>2. PICK d : /\ d.kind = c.kind /\ d.id = c.id
               /\ gcalls' = (gcalls \ {c}) \cup {d}
               /\ gcalm' = gcalm /\ d.state = "served"
               /\ d.got = G!Held(there \cap Asked(c))
               /\ c.kind = "one" => c.id \in there
  BY ServeReadIs
<1>3. CalmParts
  BY <1>2 DEF CalmInv
<1>4. \A e \in gcalls' : e.kind \notin G!Changes
  BY <1>1, <1>2, <1>3 DEF CalmParts, Alone, G!Changes, G!Reads
<1>5. Alone'
  BY <1>2, <1>3, <1>4 DEF CalmParts, Alone, G!Changes
<1>6. AnswersRight'
  <2>1. \A e : AnswerRight(e) => AnswerRight(e)'
    BY <1>1 DEF AnswerRight, G!Held, Asked, G!Reads
  <2>2. AnswerRight(d)
    BY <1>1, <1>2 DEF AnswerRight, G!Reads, Asked
  <2> QED
    BY <1>2, <1>3, <2>1, <2>2 DEF CalmParts, AnswersRight
<1>7. ObjectsHeld'
  BY <1>1, <1>3, <1>4 DEF CalmParts, ObjectsHeld, HasObject, G!Changes
<1>8. MyAgrees' /\ AllAgrees'
  <2>1. \A g \in Group : Stale(g) => Stale(g)'
    BY <1>1, <1>2 DEF Stale, G!Reads
  <2>2. (Waits("my") => Waits("my")') /\ (Waits("all") => Waits("all")')
    BY <1>2 DEF Waits
  <2> QED
    BY <1>1, <1>3, <2>1, <2>2, ListsAgree
<1> QED
  BY <1>5, <1>6, <1>7, <1>8 DEF CalmParts

(* A change is served alone, and what it changed is stale.                 *)
LEMMA ServeCalm ==
    ASSUME GroupsTyped, CalmInv, NEW c \in gcalls, G!ServeChange(c) \/ G!ServeDelete(c)
    PROVE  CalmInv'
<1> SUFFICES ASSUME gcalm' PROVE CalmParts'
  BY DEF CalmInv
<1>1. /\ UNCHANGED <<all, my, gdialog, fetches, deleted>>
      /\ c.kind \in {"save", "sync", "delete"}
  BY ServeChangeIs, ServeDeleteIs
<1>2. \E d : /\ d.kind = c.kind /\ d.id = c.id /\ d.obj = c.obj
             /\ gcalls' = (gcalls \ {c}) \cup {d}
             /\ gcalm' = gcalm /\ d.state = "served"
             /\ c.kind = "delete" => there' = there \ {c.id}
             /\ \A g \in Group : g # c.id => ver'[g] = ver[g] /\ (g \in there' <=> g \in there)
  <2>1. CASE G!ServeChange(c)
    <3>1. c.kind # "delete"
      BY <2>1, ServeChangeIs
    <3> QED
      BY <2>1, <3>1, ServeChangeIs
  <2>2. CASE G!ServeDelete(c)
    <3>1. ver' = ver
      BY <2>2, ServeDeleteIs
    <3> QED
      BY <2>2, <3>1, ServeDeleteIs
  <2> QED
    BY <2>1, <2>2
<1>3. PICK d : /\ d.kind = c.kind /\ d.id = c.id /\ d.obj = c.obj
               /\ gcalls' = (gcalls \ {c}) \cup {d}
               /\ gcalm' = gcalm /\ d.state = "served"
               /\ c.kind = "delete" => there' = there \ {c.id}
               /\ \A g \in Group : g # c.id => ver'[g] = ver[g] /\ (g \in there' <=> g \in there)
  BY <1>2
<1>4. CalmParts /\ gcalls = {c} /\ gcalls' = {d}
  BY <1>1, <1>3 DEF CalmInv, CalmParts, Alone, G!Changes
<1>5. Alone'
  BY <1>3, <1>4 DEF Alone
<1>6. AnswersRight'
  BY <1>1, <1>3, <1>4 DEF AnswersRight, AnswerRight, G!Reads
<1>7. ObjectsHeld'
  BY <1>1, <1>3, <1>4 DEF CalmParts, ObjectsHeld, HasObject
<1>8. MyAgrees' /\ AllAgrees'
  <2>1. Stale(c.id)'
    BY <1>1, <1>3, <1>4 DEF Stale
  <2>2. \A g \in Group : Stale(g) => g = c.id
    BY <1>4 DEF Stale
  <2>3. \A g \in Group :
           ~Stale(g)' => ~Stale(g) /\ (g \in there' <=> g \in there) /\ ver'[g] = ver[g]
    BY <1>3, <2>1, <2>2
  <2>4. ~Waits("my") /\ ~Waits("all")
    BY <1>1, <1>4 DEF Waits
  <2> QED
    BY <1>1, <1>4, <2>3, <2>4, ListsAgree
<1> QED
  BY <1>5, <1>6, <1>7, <1>8 DEF CalmParts

(* The whole list comes as the server holds it.                            *)
LEMMA RowsAgree ==
    ASSUME GroupsTyped, NEW c, NEW S \in SUBSET Group, c.got \in [Group -> 0..MaxVer],
           c.n \in 1..GroupCalls, c.got = G!Held(there \cap S),
           NEW g \in S
    PROVE  /\ \A i \in DOMAIN G!Rows(c) :
                 G!Rows(c)[i].id = g => g \in there /\ G!Rows(c)[i].ver = ver[g]
           /\ g \in there => \E i \in DOMAIN G!Rows(c) : G!Rows(c)[i].id = g
<1> DEFINE q == G!Rows(c)
<1>1. /\ \A k \in DOMAIN q : c.got[q[k].id] > 0 /\ q[k].ver = c.got[q[k].id]
      /\ \A h \in Group : c.got[h] > 0 => \E k \in DOMAIN q : q[k].id = h
  BY RowsAre
<1> HIDE DEF q
<1>2. \A h \in Group : c.got[h] = IF h \in there \cap S THEN ver[h] ELSE 0
  BY HeldIs DEF GroupsTyped
<1>3. g \in there => ver[g] > 0
  BY DEF GroupsTyped, GoodServer
<1>4. ~(0 > 0)
  OBVIOUS
<1>5. c.got[g] > 0 <=> g \in there
  BY <1>2, <1>3, <1>4
<1>6. g \in there => c.got[g] = ver[g]
  BY <1>2
<1> QED
  BY <1>1, <1>5, <1>6 DEF q

LEMMA AnswerListCalm ==
    ASSUME GroupsTyped, CalmInv, NEW c \in gcalls, G!AnswerRead(c), c.kind \in {"all", "my"}
    PROVE  CalmInv'
<1> SUFFICES ASSUME gcalm' PROVE CalmParts'
  BY DEF CalmInv
<1>1. /\ UNCHANGED <<there, ver, gdialog, fetches, deleted>>
      /\ c.state = "served" /\ gcalls' = gcalls \ {c}
      /\ gcalm /\ ~(c.kind = "my" /\ gdialog # NoDialog)
      /\ c.got \in [Group -> 0..MaxVer] /\ c.n \in 1..GroupCalls
  BY AnswerReadIs
<1>2. CalmParts
  BY <1>1 DEF CalmInv
<1>3. \A e \in gcalls : e.kind \notin G!Changes
  BY <1>2 DEF CalmParts, Alone, G!Changes
<1>4. Alone'
  BY <1>1, <1>2, <1>3 DEF CalmParts, Alone, G!Changes
<1>5. AnswersRight'
  BY <1>1, <1>2 DEF CalmParts, AnswersRight, AnswerRight, G!Held, Asked, G!Reads
<1>6. c.got = G!Held(there \cap Asked(c))
  BY <1>1, <1>2 DEF CalmParts, AnswersRight, AnswerRight, G!Reads
<1>7. \A g \in Group : Stale(g)' <=> Stale(g)
  BY <1>1 DEF Stale
<1>8. CASE c.kind = "all"
  <2>1. all' = G!Rows(c) /\ my' = my
    BY <1>8, AnswerReadIs
  <2>2. c.got = G!Held(there \cap Group)
    BY <1>6, <1>8 DEF Asked
  <2>3. Agrees(all, Group)'
    <3>1. \A g \in Group :
             /\ \A i \in DOMAIN G!Rows(c) :
                   G!Rows(c)[i].id = g => g \in there /\ G!Rows(c)[i].ver = ver[g]
             /\ g \in there => \E i \in DOMAIN G!Rows(c) : G!Rows(c)[i].id = g
      BY <1>1, <2>2, RowsAgree
    <3> QED
      BY <1>1, <2>1, <3>1 DEF Agrees
  <2>4. Agrees(my, Mine) => Agrees(my, Mine)'
    BY <1>1, <1>7, <2>1, AgreesKept, ClientAssumption
  <2>5. Waits("my") => Waits("my")'
    BY <1>1, <1>8 DEF Waits
  <2>6. MyAgrees' /\ AllAgrees'
    BY <1>1, <1>2, <2>3, <2>4, <2>5 DEF CalmParts, MyAgrees, AllAgrees
  <2>7. ObjectsHeld'
    BY <1>1, <1>2, <2>1 DEF CalmParts, ObjectsHeld, HasObject
  <2> QED
    BY <1>4, <1>5, <2>6, <2>7 DEF CalmParts
<1>9. CASE c.kind = "my"
  <2>1. my' = G!Rows(c) /\ all' = all
    BY <1>9, AnswerReadIs
  <2>2. c.got = G!Held(there \cap Mine)
    BY <1>6, <1>9 DEF Asked
  <2>3. Agrees(my, Mine)'
    <3>1. \A g \in Mine :
             /\ \A i \in DOMAIN G!Rows(c) :
                   G!Rows(c)[i].id = g => g \in there /\ G!Rows(c)[i].ver = ver[g]
             /\ g \in there => \E i \in DOMAIN G!Rows(c) : G!Rows(c)[i].id = g
      BY <1>1, <2>2, RowsAgree, ClientAssumption
    <3> QED
      BY <1>1, <2>1, <3>1 DEF Agrees
  <2>4. Agrees(all, Group) => Agrees(all, Group)'
    BY <1>1, <1>7, <2>1, AgreesKept
  <2>5. Waits("all") => Waits("all")'
    BY <1>1, <1>9 DEF Waits
  <2>6. MyAgrees' /\ AllAgrees'
    BY <1>1, <1>2, <2>3, <2>4, <2>5 DEF CalmParts, MyAgrees, AllAgrees
  <2>7. ObjectsHeld'
    BY <1>1, <1>3, <1>9 DEF ObjectsHeld, G!Changes
  <2> QED
    BY <1>4, <1>5, <2>6, <2>7 DEF CalmParts
<1> QED
  BY <1>8, <1>9

(* One group, read back: its row is brought up to date, or added.          *)
LEMMA AnswerOneCalm ==
    ASSUME GroupsTyped, CalmInv, NEW c \in gcalls, G!AnswerRead(c), c.kind = "one"
    PROVE  CalmInv'
<1> SUFFICES ASSUME gcalm' PROVE CalmParts'
  BY DEF CalmInv
<1> DEFINE r == G!Row1(c)
<1>1. /\ UNCHANGED <<there, ver, gdialog, fetches, deleted>>
      /\ c.state = "served" /\ gcalls' = gcalls \ {c} /\ gcalm
      /\ my' = G!Put(my, r) /\ all' = G!Put(all, r)
      /\ r \in G!Row /\ r.id = c.id /\ r.ver = c.got[c.id] /\ c.id \in Mine
  BY AnswerReadIs
<1> HIDE DEF r
<1>2. CalmParts
  BY <1>1 DEF CalmInv
<1>3. \A e \in gcalls : e.kind \notin G!Changes
  BY <1>2 DEF CalmParts, Alone, G!Changes
<1>4. Alone'
  BY <1>1, <1>2, <1>3 DEF CalmParts, Alone, G!Changes
<1>5. AnswersRight'
  BY <1>1, <1>2 DEF CalmParts, AnswersRight, AnswerRight, G!Held, Asked, G!Reads
<1>6. c.id \in there /\ r.ver = ver[c.id]
  <2>1. c.got = G!Held(there \cap {c.id}) /\ c.id \in there
    BY <1>1, <1>2 DEF CalmParts, AnswersRight, AnswerRight, G!Reads, Asked
  <2>2. c.id \in Group
    BY <1>1, ClientAssumption
  <2> QED
    BY <1>1, <2>1, <2>2 DEF G!Held
<1>7. \A g \in Group : g # c.id => (Stale(g) => Stale(g)')
  BY <1>1 DEF Stale
<1>8. ASSUME NEW s \in Seq(G!Row), Once(s), NEW S, Agrees(s, S)
      PROVE  \A g \in S \cap Group : ~Stale(g)' =>
                /\ \A i \in DOMAIN G!Put(s, r) :
                      G!Put(s, r)[i].id = g => g \in there /\ G!Put(s, r)[i].ver = ver[g]
                /\ g \in there => \E i \in DOMAIN G!Put(s, r) : G!Put(s, r)[i].id = g
  <2> DEFINE q == G!Put(s, r)
  <2>1. /\ \A k \in DOMAIN q : \/ q[k].id = r.id /\ q[k].ver = r.ver
                               \/ q[k].id # r.id /\ \E l \in DOMAIN s : q[k] = s[l]
        /\ \E k \in DOMAIN q : q[k].id = r.id
        /\ \A l \in DOMAIN s : \E k \in DOMAIN q :
              /\ q[k].id = s[l].id /\ q[k].by = s[l].by
              /\ s[l].id # r.id => q[k] = s[l]
    BY <1>1, <1>8, PutRow
  <2> HIDE DEF q
  <2> SUFFICES ASSUME NEW g \in S \cap Group, ~Stale(g)'
               PROVE  /\ \A i \in DOMAIN q : q[i].id = g => g \in there /\ q[i].ver = ver[g]
                      /\ g \in there => \E i \in DOMAIN q : q[i].id = g
    BY DEF q
  <2>2. CASE g = c.id
    BY <1>1, <1>6, <2>1, <2>2
  <2>3. CASE g # c.id
    <3>1. /\ \A i \in DOMAIN s : s[i].id = g => g \in there /\ s[i].ver = ver[g]
          /\ g \in there => \E i \in DOMAIN s : s[i].id = g
      BY <1>7, <1>8, <2>3 DEF Agrees
    <3> QED
      BY <1>1, <2>1, <2>3, <3>1
  <2> QED
    BY <2>2, <2>3
<1>9. my \in Seq(G!Row) /\ Once(my) /\ all \in Seq(G!Row) /\ Once(all)
  BY DEF GroupsTyped, GoodLists
<1>10. Agrees(my, Mine) => Agrees(my, Mine)'
  <2> SUFFICES ASSUME Agrees(my, Mine) PROVE Agrees(my, Mine)'
    OBVIOUS
  <2>1. \A g \in Mine : ~Stale(g)' =>
           /\ \A i \in DOMAIN G!Put(my, r) :
                 G!Put(my, r)[i].id = g => g \in there /\ G!Put(my, r)[i].ver = ver[g]
           /\ g \in there => \E i \in DOMAIN G!Put(my, r) : G!Put(my, r)[i].id = g
    BY <1>8, <1>9, ClientAssumption
  <2> QED
    BY <1>1, <2>1 DEF Agrees
<1>11. Agrees(all, Group) => Agrees(all, Group)'
  <2> SUFFICES ASSUME Agrees(all, Group) PROVE Agrees(all, Group)'
    OBVIOUS
  <2>1. \A g \in Group : ~Stale(g)' =>
           /\ \A i \in DOMAIN G!Put(all, r) :
                 G!Put(all, r)[i].id = g => g \in there /\ G!Put(all, r)[i].ver = ver[g]
           /\ g \in there => \E i \in DOMAIN G!Put(all, r) : G!Put(all, r)[i].id = g
    BY <1>8, <1>9
  <2> QED
    BY <1>1, <2>1 DEF Agrees
<1>12. MyAgrees' /\ AllAgrees'
  <2>1. (Waits("my") => Waits("my")') /\ (Waits("all") => Waits("all")')
    BY <1>1 DEF Waits
  <2> QED
    BY <1>1, <1>2, <1>10, <1>11, <2>1 DEF CalmParts, MyAgrees, AllAgrees
<1>13. ObjectsHeld'
  <2>1. \A id, by : HasObject(id, by) => HasObject(id, by)'
    <3>1. \A l \in DOMAIN my : \E k \in DOMAIN G!Put(my, r) :
             /\ G!Put(my, r)[k].id = my[l].id /\ G!Put(my, r)[k].by = my[l].by
             /\ my[l].id # r.id => G!Put(my, r)[k] = my[l]
      BY <1>1, <1>9, PutRow
    <3> QED
      BY <1>1, <3>1 DEF HasObject
  <2> QED
    BY <1>1, <1>2, <2>1 DEF CalmParts, ObjectsHeld
<1> QED
  BY <1>4, <1>5, <1>12, <1>13 DEF CalmParts

LEMMA AnswerChangeCalm ==
    ASSUME GroupsTyped, CalmInv, NEW c \in gcalls, G!AnswerChange(c) PROVE CalmInv'
<1> SUFFICES ASSUME gcalm' PROVE CalmParts'
  BY DEF CalmInv
<1>1. /\ UNCHANGED <<there, ver, all, my, gdialog, fetches, deleted>>
      /\ c.state = "served" /\ c.kind \in {"save", "sync"}
  BY AnswerChangeIs
<1>2. PICK d : /\ gcalls' = (gcalls \ {c}) \cup {d} /\ d.state = "sent" /\ d.id = c.id
               /\ d.kind \in {"sync", "one"}
               /\ gcalm' => gcalm
  BY AnswerChangeIs
<1>3. CalmParts /\ gcalls = {c} /\ gcalls' = {d}
  BY <1>1, <1>2 DEF CalmInv, CalmParts, Alone, G!Changes
<1>4. Alone' /\ AnswersRight' /\ ObjectsHeld'
  BY <1>1, <1>2, <1>3 DEF CalmParts, Alone, AnswersRight, ObjectsHeld, HasObject
<1>5. MyAgrees' /\ AllAgrees'
  <2>1. Stale(c.id)' /\ \A g \in Group : Stale(g) => g = c.id
    BY <1>2, <1>3 DEF Stale
  <2>2. \A g \in Group :
           ~Stale(g)' => ~Stale(g) /\ (g \in there' <=> g \in there) /\ ver'[g] = ver[g]
    BY <1>1, <2>1
  <2>3. ~Waits("my") /\ ~Waits("all")
    BY <1>1, <1>3 DEF Waits
  <2> QED
    BY <1>1, <1>3, <2>2, <2>3, ListsAgree
<1> QED
  BY <1>4, <1>5 DEF CalmParts

(* The row of a deleted group goes, and no other.                          *)
LEMMA AnswerDeleteCalm ==
    ASSUME GroupsTyped, CalmInv, NEW c \in gcalls, G!AnswerDelete(c) PROVE CalmInv'
<1> SUFFICES ASSUME gcalm' PROVE CalmParts'
  BY DEF CalmInv
<1> DEFINE object == [id |-> c.id, by |-> c.obj]
<1>1. /\ UNCHANGED <<there, ver, fetches, gcalm>>
      /\ c.state = "served" /\ c.kind = "delete"
      /\ gcalls' = gcalls \ {c} /\ gdialog' = NoDialog /\ deleted' = TRUE
      /\ my' = SpliceFound(my, object)
  BY AnswerDeleteIs
<1>2. object.id = c.id /\ object.by = c.obj
  OBVIOUS
<1> HIDE DEF object
<1>3. CalmParts /\ gcalls = {c} /\ gcalls' = {}
  BY <1>1 DEF CalmInv, CalmParts, Alone, G!Changes
<1>4. Alone' /\ AnswersRight' /\ ObjectsHeld'
  BY <1>1, <1>3 DEF Alone, AnswersRight, ObjectsHeld
<1>5. c.id \notin there
  BY <1>1, <1>3 DEF CalmParts, AnswersRight, AnswerRight
<1>6. my \in Seq(G!Row) /\ Once(my)
  BY DEF GroupsTyped, GoodLists
<1>7. \E j \in DOMAIN my : SameObject(object, my[j])
  BY <1>1, <1>2, <1>3 DEF CalmParts, ObjectsHeld, HasObject, SameObject
<1>8. /\ \A k \in DOMAIN my' : \E l \in DOMAIN my : my'[k] = my[l]
      /\ \A k \in DOMAIN my' : my'[k].id # c.id
      /\ \A l \in DOMAIN my : my[l].id # c.id => \E k \in DOMAIN my' : my'[k] = my[l]
  <2> DEFINE q == SpliceFound(my, object)
  <2>0. PICK j \in DOMAIN my : SameObject(object, my[j])
    BY <1>7
  <2>1. /\ \A k \in DOMAIN q : \E l \in DOMAIN my : q[k] = my[l]
        /\ \A k \in DOMAIN q : q[k].id # object.id
        /\ \A l \in DOMAIN my : my[l].id # object.id => \E k \in DOMAIN q : q[k] = my[l]
    BY <1>6, <2>0, SpliceIs, SpliceTakes
  <2> HIDE DEF q
  <2>2. my' = q
    BY <1>1 DEF q
  <2> QED
    BY <1>2, <2>1, <2>2
<1>9. fetches > 0 => Agrees(my, Mine)
  BY <1>1, <1>3 DEF CalmParts, MyAgrees, Waits
<1>10. Agrees(my, Mine) => Agrees(my, Mine)'
  <2> SUFFICES ASSUME Agrees(my, Mine), NEW g \in Mine
               PROVE  /\ \A i \in DOMAIN my' : my'[i].id = g => g \in there /\ my'[i].ver = ver[g]
                      /\ g \in there => \E i \in DOMAIN my' : my'[i].id = g
    BY <1>1 DEF Agrees
  <2>1. CASE g = c.id
    BY <1>5, <1>8, <2>1
  <2>2. CASE g # c.id
    <3>1. ~Stale(g)
      BY <1>3, <2>2 DEF Stale
    <3>2. /\ \A i \in DOMAIN my : my[i].id = g => g \in there /\ my[i].ver = ver[g]
          /\ g \in there => \E i \in DOMAIN my : my[i].id = g
      BY <3>1 DEF Agrees
    <3> QED
      BY <1>8, <2>2, <3>2
  <2> QED
    BY <2>1, <2>2
<1>11. MyAgrees' /\ AllAgrees'
  BY <1>1, <1>9, <1>10 DEF MyAgrees, AllAgrees
<1> QED
  BY <1>4, <1>11 DEF CalmParts

LEMMA CalmStep == ASSUME GroupsTyped, CalmInv, G!Next PROVE CalmInv'
<1>1. CASE G!OtherDeletes
  BY <1>1 DEF G!OtherDeletes, CalmInv
<1>2. ASSUME NEW c \in gcalls, G!AnswerRead(c) PROVE CalmInv'
  <2>1. c.kind \in {"all", "my", "one"}
    BY <1>2, AnswerReadIs DEF G!Reads
  <2> QED
    BY <1>2, <2>1, AnswerListCalm, AnswerOneCalm
<1>3. ASSUME NEW c \in gcalls, G!AnswerFailure(c) PROVE CalmInv'
  <2>1. gcalm' = gcalm /\ c.state = "failed"
    BY <1>3 DEF G!AnswerFailure, G!history
  <2> QED
    BY <2>1 DEF CalmInv, CalmParts, Alone
<1> QED
  BY <1>1, <1>2, <1>3, FetchCalm, DialogCalm, AskCalm, ServeReadCalm, ServeCalm,
     AnswerChangeCalm, AnswerDeleteCalm DEF G!Next

(* At rest nothing is stale.                                               *)
LEMMA RestShown ==
    ASSUME GroupsTyped, gcalls = {}, NEW s \in Seq(G!Row), Once(s), NEW S \in SUBSET Group,
           Agrees(s, S), \A i \in DOMAIN s : s[i].id \in S
    PROVE  G!Shown(s) = G!Held2(S) /\ Len(s) = G!Cardinality(G!Ids(s))
<1>1. \A g \in S : /\ \A i \in DOMAIN s : s[i].id = g => g \in there /\ s[i].ver = ver[g]
                   /\ g \in there => \E i \in DOMAIN s : s[i].id = g
  BY DEF Agrees, Stale
<1>2. G!Shown(s) = {<<s[i].id, s[i].ver>> : i \in DOMAIN s}
  BY DEF G!Shown
<1>3. G!Held2(S) = {<<g, ver[g]>> : g \in there \cap S}
  BY DEF G!Held2
<1>4. \A i \in DOMAIN s : s[i].id \in there \cap S /\ s[i].ver = ver[s[i].id]
  BY <1>1
<1>5. \A g \in there \cap S : \E i \in DOMAIN s : s[i].id = g /\ s[i].ver = ver[g]
  BY <1>1
<1>6. G!Shown(s) = G!Held2(S)
  BY <1>2, <1>3, <1>4, <1>5
<1>7. Len(s) = Cardinality(Ids(s))
  <2> DEFINE n == Len(s)
             f == [i \in 1..n |-> s[i].id]
  <2>1. n \in Nat /\ DOMAIN s = 1..n
    BY LenProperties
  <2> HIDE DEF n
  <2>2. Ids(s) = {s[i].id : i \in 1..n}
    BY <2>1 DEF Ids
  <2>3. f \in [1..n -> Ids(s)] /\ \A i \in 1..n : f[i] = s[i].id
    BY <2>2
  <2>4. \A i, j \in 1..n : f[i] = f[j] => i = j
    BY <2>1, <2>3 DEF Once
  <2>5. \A x \in Ids(s) : \E i \in 1..n : f[i] = x
    BY <2>2, <2>3
  <2> HIDE DEF f
  <2>6. f \in Bijection(1..n, Ids(s))
    BY <2>3, <2>4, <2>5 DEF Bijection, Injection, Surjection, IsInjective
  <2>7. ExistsBijection(1..n, Ids(s))
    BY <2>6 DEF ExistsBijection
  <2> QED
    BY <2>1, <2>7, FS_CountingElements DEF n
<1> QED
  BY <1>6, <1>7, GroupLists

LEMMA GroupListsRight == GroupsTyped /\ CalmInv => G!OwnListRight /\ G!AllListRight
<1> SUFFICES ASSUME GroupsTyped, CalmInv PROVE G!OwnListRight /\ G!AllListRight
  OBVIOUS
<1>1. /\ my \in Seq(G!Row) /\ Once(my) /\ (\A i \in DOMAIN my : my[i].id \in Mine)
      /\ all \in Seq(G!Row) /\ Once(all)
  BY DEF GroupsTyped, GoodLists
<1>2. \A i \in DOMAIN all : all[i].id \in Group
  <2>1. \A i \in DOMAIN all : all[i] \in G!Row
    BY <1>1, LenProperties, ElementOfSeq
  <2> QED
    BY <2>1 DEF G!Row
<1>3. G!AtRest => CalmParts /\ gcalls = {} /\ fetches > 0 /\ ~Waits("my") /\ ~Waits("all")
  BY DEF G!AtRest, CalmInv, Waits
<1>4. G!OwnListRight
  <2> SUFFICES ASSUME G!AtRest
               PROVE  G!Shown(my) = G!Held2(Mine) /\ Len(my) = G!Cardinality(G!Ids(my))
    BY DEF G!OwnListRight
  <2>1. Agrees(my, Mine)
    BY <1>3 DEF CalmParts, MyAgrees
  <2> QED
    BY <1>1, <1>3, <2>1, RestShown, ClientAssumption
<1>5. G!AllListRight
  <2> SUFFICES ASSUME G!AtRest, ~deleted
               PROVE  G!Shown(all) = G!Held2(Group) /\ Len(all) = G!Cardinality(G!Ids(all))
    BY DEF G!AllListRight
  <2>1. Agrees(all, Group)
    BY <1>3 DEF CalmParts, AllAgrees
  <2> QED
    BY <1>1, <1>2, <1>3, <2>1, RestShown
<1> QED
  BY <1>4, <1>5

-----------------------------------------------------------------------------

LEMMA GroupsInvariant == PartsSpec => [](GroupsTyped /\ CalmInv)
<1>1. PartsInit => GroupsTyped /\ CalmInv
  BY ClientInits, GroupsTypedInit, CalmInit
<1>2. ASSUME GroupsTyped /\ CalmInv, [PartsNext]_partsVars PROVE (GroupsTyped /\ CalmInv)'
  <2>1. CASE G!Next
    BY <1>2, <2>1, GroupsTypedStep, CalmStep
  <2>2. CASE UNCHANGED G!vars
    <3>1. UNCHANGED <<there, ver, all, my, gdialog, gcalls, gsent, fetches, gcalm, deleted>>
      BY <2>2 DEF G!vars
    <3>2. GroupsTyped'
      BY <1>2, <3>1, ListsKept, ServerKept, FewerCalls DEF GroupsTyped
    <3>3. CalmInv'
      BY <1>2, <3>1 DEF CalmInv, CalmParts, Alone, AnswersRight, AnswerRight, Asked, G!Held,
         G!Reads, G!Changes, ObjectsHeld, HasObject, MyAgrees, AllAgrees, Waits, Agrees, Stale
    <3> QED
      BY <3>2, <3>3
  <2> QED
    BY <1>2, <2>1, <2>2, GroupsPart
<1> QED
  BY <1>1, <1>2, PTL DEF PartsSpec

(* The list of my groups shows each group this account owns once, as the   *)
(* server holds it, and that of all groups every group, as long as none    *)
(* was deleted here: for any number of groups, calls and changes           *)
(* (store/groups.ts).                                                      *)
THEOREM GroupListsStayRight == PartsSpec => [](G!OwnListRight /\ G!AllListRight)
  BY GroupsInvariant, GroupListsRight, PTL
=============================================================================
