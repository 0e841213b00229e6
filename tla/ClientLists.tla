---------------------------- MODULE ClientLists -----------------------------
(***************************************************************************)
(* The lists of rows the client's stores keep.  A row is an object of the  *)
(* browser: by is the answer that brought it, so that two answers bringing *)
(* the same id bring two objects, which indexOf tells apart.               *)
(***************************************************************************)
EXTENDS Naturals, Sequences, SequencesExt

SameObject(x, y) == x.id = y.id /\ x.by = y.by

(* Array.prototype.indexOf, 0 for its -1.                                  *)
IndexOf(s, x) == SelectInSeq(s, LAMBDA y : SameObject(x, y))

(* findIndex by id, 0 for its -1.                                          *)
IndexOfId(s, id) == SelectInSeq(s, LAMBDA y : y.id = id)

(* Mutant of SpliceFound: the object stays.                                *)
SpliceNothing(s, x) == s

(* list.splice(list.indexOf(x), 1): splice counts -1 from the end, so an   *)
(* object that is not found costs the list its last row.                   *)
SpliceFound(s, x) ==
    LET i == IndexOf(s, x) IN
       IF s = <<>> THEN s ELSE RemoveAt(s, IF i = 0 THEN Len(s) ELSE i)

Ids(s) == {s[i].id : i \in DOMAIN s}
=============================================================================
