-------------------------------- MODULE Nist --------------------------------
(***************************************************************************)
(* libs/inspecjs/src/nist.ts: the hierarchy of NIST controls, built from a *)
(* flat list in any order.  A control is its sequence of specifiers; a     *)
(* node is an object, named by a number, and the map finds nodes by key.   *)
(***************************************************************************)
EXTENDS Naturals, Sequences, SequencesExt, FiniteSets, Sublists

Parent(c) == Front(c)

(* What the loop keeps: the nodes made so far, each with its control and   *)
(* its children, and which node the map has for a key.                     *)
Start(families) ==
    [control |-> [i \in DOMAIN families |-> <<families[i]>>],
     children |-> [i \in DOMAIN families |-> <<>>],
     map |-> [k \in {<<families[i]>> : i \in DOMAIN families} |->
                 CHOOSE i \in DOMAIN families : families[i] = k[1]]]

Made(h, c, kids) ==
    [control |-> Append(h.control, c), children |-> Append(h.children, kids),
     map |-> [k \in DOMAIN h.map \cup {c} |->
                 IF k = c THEN Len(h.control) + 1 ELSE h.map[k]]]

(* Mutant of NodeFor: a node that stands in for a parent is not found.     *)
NodeAnew(h, c) == Made(h, c, <<>>)

(* The node of the map, made where there is none.                          *)
NodeFor(h, c) == IF c \in DOMAIN h.map THEN h ELSE Made(h, c, <<>>)

(* A control hangs under the node of its parent; a stub is made where the  *)
(* parent has not come yet.                                                *)
Hang(h, c) ==
    LET g == NodeFor(h, c)
        n == g.map[c]
        p == Parent(c) IN
       IF p \in DOMAIN g.map
       THEN [g EXCEPT !.children[g.map[p]] = Append(@, n)]
       ELSE Made(g, p, <<n>>)

(* The hierarchy once the first n controls of the list are hung.           *)
Hierarchies(families, controls) ==
    LET hung[n \in 0..Len(controls)] ==
          IF n = 0 THEN Start(families) ELSE Hang(hung[n - 1], controls[n]) IN
       hung

Hierarchy(families, controls) == Hierarchies(families, controls)[Len(controls)]

-----------------------------------------------------------------------------

(* The nodes that hang under those of S, and all that is under the roots,  *)
(* however deep: what is in each set of nodes that is closed downwards.    *)
Below(h, S) == UNION {ToSet(h.children[n]) : n \in S}

Closed(h, roots) ==
    {S \in SUBSET DOMAIN h.control : roots \cup Below(h, S) \subseteq S}

Reached(h, roots) ==
    LET closed == Closed(h, roots) IN
       {n \in DOMAIN h.control : \A S \in closed : n \in S}

(* The controls of the list whose family and ancestors are there too.      *)
Rooted(families, controls) ==
    {c \in ToSet(controls) :
        /\ c[1] \in ToSet(families)
        /\ \A i \in 2..(Len(c) - 1) : SubSeq(c, 1, i) \in ToSet(controls)}

(* The positions of the list that hold a child of a control.               *)
ChildrenAt(controls, c) == {k \in DOMAIN controls : Parent(controls[k]) = c}

(* However the list is ordered, and whatever it repeats: every control     *)
(* whose ancestors are listed, and no other, has a node in the hierarchy,  *)
(* and only one.  Under it are the controls it is the parent of, as often  *)
(* and in the order in which the list names them.                          *)
HierarchyWhole(families, controls) ==
    LET h == Hierarchy(families, controls)
        nodes == Reached(h, DOMAIN families) IN
       /\ {h.control[n] : n \in nodes} =
             Rooted(families, controls) \cup {<<families[i]>> : i \in DOMAIN families}
       /\ \A n, m \in nodes : h.control[n] = h.control[m] => n = m
       /\ \A n \in nodes :
             [i \in DOMAIN h.children[n] |-> h.control[h.children[n][i]]] =
                Pick(controls, ChildrenAt(controls, h.control[n]))
=============================================================================
