---------------------------- MODULE GroupUpdates ----------------------------
(***************************************************************************)
(* Updates of the name and the visibility of one group (GroupsController   *)
(* update, GroupsService update).  The group is loaded and checked; the    *)
(* copy then is saved twice, and only the second save is awaited: two      *)
(* UPDATE statements of the fields that differ from what was loaded are    *)
(* under way at once, on different connections.  Who may update is in      *)
(* Groups; here any check may let through or refuse.                       *)
(***************************************************************************)
EXTENDS FiniteSets

CONSTANTS
    Update,    \* the requests, each used once
    Name,      \* names a group may have
    Unset      \* an optional field of CreateGroupDto that was left out

VARIABLES
    life,      \* the row of the group is there
    row,       \* its name and visibility
    upd        \* what each request asks, holds and has under way

vars == <<life, row, upd>>

Fields == {"name", "public"}

Rows == [name : Name, public : BOOLEAN]

Dto == [name : Name, public : BOOLEAN \cup {Unset}]

(* left: the UPDATEs under way, 1 that of update() and 2 that of save();   *)
(* wrote: one of them found the row; before: the requests that had ended,  *)
(* with nothing left under way, when this one loaded the group.            *)
New(pc, dto, had, before) ==
    [pc |-> pc, dto |-> dto, had |-> had, left |-> {}, wrote |-> FALSE, before |-> before]

Request ==
    [pc     : {"unborn", "save", "answered", "refused", "failed"},
     dto    : Dto \cup Rows,
     had    : Rows,
     left   : SUBSET {1, 2},
     wrote  : BOOLEAN,
     before : SUBSET Update]

TypeOK == life \in BOOLEAN /\ row \in Rows /\ upd \in [Update -> Request]

Init ==
    /\ life = TRUE /\ row \in Rows
    /\ upd = [r \in Update |-> New("unborn", row, row, {})]

-----------------------------------------------------------------------------

At(r, pc) == upd[r].pc = pc

Ended(r) == upd[r].pc \in {"answered", "refused", "failed"} /\ upd[r].left = {}

(* Mutant of ChangedFields: the whole copy is written back.                *)
AllFields(q) == IF \E f \in Fields : q.dto[f] \notin {Unset, q.had[f]} THEN Fields ELSE {}

(* A field that is set to the value it had is not changed.                 *)
ChangedFields(q) == {f \in Fields : q.dto[f] \notin {Unset, q.had[f]}}

FieldAfter(q, f) == IF q.dto[f] = Unset THEN q.had[f] ELSE q.dto[f]

(* findByPkBang and the check; with nothing to change save sends nothing.  *)
Load(r, dto) ==
    /\ At(r, "unborn") /\ life
    /\ LET q == New("save", dto, row, {x \in Update : Ended(x)}) IN
          upd' = [upd EXCEPT ![r] =
             IF ChangedFields(q) = {} THEN [q EXCEPT !.pc = "answered"]
             ELSE [q EXCEPT !.left = {1, 2}]]
    /\ UNCHANGED <<life, row>>

Refuse(r) ==
    /\ At(r, "unborn")
    /\ upd' = [upd EXCEPT ![r].pc = "refused"]
    /\ UNCHANGED <<life, row>>

(* One of the two UPDATEs; the answer follows the second.  A row that is   *)
(* gone is not updated, which is no error.                                 *)
Write(r, i) ==
    /\ i \in upd[r].left
    /\ LET q == upd[r] IN
          /\ row' = IF life
                    THEN [f \in Fields |->
                            IF f \in ChangedFields(q) THEN FieldAfter(q, f) ELSE row[f]]
                    ELSE row
          /\ upd' = [upd EXCEPT ![r] =
                [q EXCEPT !.left = q.left \ {i}, !.wrote = q.wrote \/ life,
                          !.pc = IF i = 2 THEN "answered" ELSE q.pc]]
    /\ life' = life

(* An error of the first is nobody's; one of the second is the answer.     *)
WriteFails(r, i) ==
    /\ i \in upd[r].left
    /\ LET q == upd[r] IN
          upd' = [upd EXCEPT ![r] =
             [q EXCEPT !.left = q.left \ {i}, !.pc = IF i = 2 THEN "failed" ELSE q.pc]]
    /\ UNCHANGED <<life, row>>

Destroy == life /\ life' = FALSE /\ UNCHANGED <<row, upd>>

Next ==
    \/ Destroy
    \/ \E r \in Update :
          \/ \E dto \in Dto : Load(r, dto)
          \/ Refuse(r)
          \/ \E i \in {1, 2} : Write(r, i) \/ WriteFails(r, i)

Spec == Init /\ [][Next]_vars

-----------------------------------------------------------------------------

AsksFor(r, f, v) == upd[r].dto[f] = v

(* r was granted what it asked of f.                                       *)
Granted(r, f) == At(r, "answered") /\ upd[r].dto[f] # Unset

(* Some request asked for v and, as far as anybody can tell by what had    *)
(* ended when it loaded the group, none came after it with another value.  *)
Stands(f, v) ==
    \E r \in Update :
       /\ upd[r].pc \in {"answered", "failed"} /\ AsksFor(r, f, v)
       /\ upd[r].wrote \/ At(r, "answered")
       /\ \A x \in Update : r \in upd[x].before => ~Granted(x, f) \/ AsksFor(x, f, v)

(* When nothing is under way the name and the visibility of a group are    *)
(* those of an update no later one replaced: no statement that was late,   *)
(* doubled or lost puts back what an ended request had already replaced,   *)
(* and a request that leaves a field out does not touch it.                *)
LastUpdateStays ==
    life /\ (\A r \in Update : At(r, "unborn") \/ Ended(r)) =>
       \A f \in Fields :
          Stands(f, row[f]) \/ \A r \in Update : ~Granted(r, f)
=============================================================================
