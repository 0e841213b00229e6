----------------------------- MODULE TagEditor ------------------------------
(***************************************************************************)
(* One row of tags of an evaluation (tags/TagRow.vue): chips that can be   *)
(* deleted one by one, and an editor whose choice is saved by one call for *)
(* each tag that is added or removed.  tags keeps the choice of the editor *)
(* between its uses.                                                       *)
(***************************************************************************)
EXTENDS Naturals, FiniteSets, FiniteSetsExt, SequencesExt

CONSTANTS
    Value,       \* what a tag may say
    MaxSaves     \* bound on the saves and deletions

VARIABLES
    stored,    \* the tags of the evaluation on the server
    shown,     \* evaluation.evaluationTags of the row
    tags,      \* the values chosen in the editor
    tagCalls,  \* calls under way; batch: who waits for them, 0 nobody
    saves, ids,
    flips,     \* what the user changed in the editor and has not saved
    wanted,    \* the values the user wants there: saved, and not deleted
    alone      \* no save, deletion or cancel met a call, no call failed

vars == <<stored, shown, tags, tagCalls, saves, ids, flips, wanted, alone>>

Tag == [id : 1..ids, value : Value]

Values(ts) == {t.value : t \in ts}

NoTags == {}

Call(kind, id, value, batch, sync, got) ==
    [kind |-> kind, id |-> id, value |-> value, batch |-> batch, sync |-> sync, got |-> got,
     served |-> FALSE]

Refresh(batch, sync) == Call("list", 0, CHOOSE v \in Value : TRUE, batch, sync, NoTags)

TypeOK ==
    /\ stored \cup shown \subseteq Tag /\ tags \cup flips \cup wanted \subseteq Value
    /\ saves \in 0..MaxSaves /\ ids \in Nat /\ alone \in BOOLEAN
    /\ tagCalls \subseteq
          [kind : {"add", "delete"}, id : 0..ids, value : Value, batch : 0..saves,
           sync : BOOLEAN, got : {NoTags}, served : BOOLEAN] \cup
          [kind : {"list"}, id : {0}, value : {CHOOSE v \in Value : TRUE}, batch : 0..saves,
           sync : BOOLEAN, got : SUBSET Tag, served : BOOLEAN]

Init ==
    /\ \E V \in SUBSET Value :
          stored = {[id |-> i, value |-> SetToSeq(V)[i]] : i \in 1..Cardinality(V)}
    /\ ids = Cardinality(stored)
    /\ shown = stored /\ tags = Values(stored) /\ wanted = tags
    /\ tagCalls = {} /\ saves = 0 /\ flips = {} /\ alone = TRUE

Starts == saves < MaxSaves /\ saves' = saves + 1 /\ alone' = (alone /\ tagCalls = {})

-----------------------------------------------------------------------------

Toggled(S, v) == IF v \in S THEN S \ {v} ELSE S \cup {v}

Choose(v) ==
    /\ tags' = Toggled(tags, v) /\ flips' = Toggled(flips, v)
    /\ UNCHANGED <<stored, shown, tagCalls, saves, ids, wanted, alone>>

(* save: the choice against the tags that are shown.  Its calls are made   *)
(* at once; the list is fetched again when all are answered.               *)
Save ==
    /\ Starts
    /\ LET adds == {Call("add", 0, v, saves', FALSE, NoTags) : v \in tags \ Values(shown)}
           removes == {Call("delete", t.id, t.value, saves', FALSE, NoTags) :
                          t \in {u \in shown : u.value \notin tags}} IN
          tagCalls' = tagCalls \cup
             (IF adds \cup removes = {} THEN {Refresh(saves', FALSE)} ELSE adds \cup removes)
    /\ wanted' = (wanted \ flips) \cup (flips \ wanted) /\ flips' = {}
    /\ UNCHANGED <<stored, shown, tags, ids>>

(* syncEvaluationTags, of the Cancel button.                               *)
Cancel ==
    /\ tags' = Values(shown) /\ flips' = {}
    /\ alone' = (alone /\ tagCalls = {})
    /\ UNCHANGED <<stored, shown, tagCalls, saves, ids, wanted>>

(* Mutant of DeleteTag: the editor keeps the tag.                          *)
DeleteTagNoSync(t) ==
    /\ Starts
    /\ tagCalls' = tagCalls \cup {Call("delete", t.id, t.value, saves', FALSE, NoTags)}
    /\ wanted' = wanted \ {t.value} /\ flips' = flips
    /\ UNCHANGED <<stored, shown, tags, ids>>

(* deleteTagConfirm: the editor takes up the list that follows.            *)
DeleteTag(t) ==
    /\ Starts
    /\ tagCalls' = tagCalls \cup {Call("delete", t.id, t.value, saves', TRUE, NoTags)}
    /\ wanted' = wanted \ {t.value} /\ flips' = flips
    /\ UNCHANGED <<stored, shown, tags, ids>>

-----------------------------------------------------------------------------

Served(c) == (tagCalls \ {c}) \cup {[c EXCEPT !.served = TRUE]}

Serve(c) ==
    /\ ~c.served
    /\ CASE c.kind = "add" ->
              /\ ids' = ids + 1
              /\ stored' = stored \cup {[id |-> ids', value |-> c.value]}
              /\ tagCalls' = Served(c)
         [] c.kind = "delete" ->
              /\ \E t \in stored : t.id = c.id
              /\ stored' = {t \in stored : t.id # c.id}
              /\ tagCalls' = Served(c) /\ ids' = ids
         [] c.kind = "list" ->
              /\ tagCalls' = (tagCalls \ {c}) \cup {[c EXCEPT !.served = TRUE, !.got = stored]}
              /\ UNCHANGED <<stored, ids>>
    /\ UNCHANGED <<shown, tags, saves, flips, wanted, alone>>

(* The list is fetched after the last answer of a save.                    *)
AnswerChange(c) ==
    /\ c.served /\ c.kind # "list"
    /\ tagCalls' = (tagCalls \ {c}) \cup
          IF c.batch # 0 /\ ~\E d \in tagCalls \ {c} : d.batch = c.batch
          THEN {Refresh(c.batch, c.sync)} ELSE {}
    /\ UNCHANGED <<stored, shown, tags, saves, ids, flips, wanted, alone>>

AnswerList(c) ==
    /\ c.served /\ c.kind = "list"
    /\ shown' = c.got /\ tagCalls' = tagCalls \ {c}
    /\ tags' = IF c.sync THEN Values(c.got) ELSE tags
    /\ flips' = IF c.sync THEN {} ELSE flips
    /\ UNCHANGED <<stored, saves, ids, wanted, alone>>

(* The first call of a save that fails ends its wait; a deletion that      *)
(* fails is not followed by the list.                                      *)
Fail(c) ==
    /\ ~c.served /\ alone' = FALSE
    /\ LET left == {IF d.batch = c.batch THEN [d EXCEPT !.batch = 0] ELSE d :
                       d \in tagCalls \ {c}} IN
          tagCalls' = left \cup
             IF c.batch # 0 /\ ~c.sync /\ c.kind # "list" THEN {Refresh(c.batch, FALSE)} ELSE {}
    /\ UNCHANGED <<stored, shown, tags, saves, ids, flips, wanted>>

Next ==
    \/ \E v \in Value : Choose(v)
    \/ Save \/ Cancel
    \/ \E t \in shown : DeleteTag(t)
    \/ \E c \in tagCalls : Serve(c) \/ AnswerChange(c) \/ AnswerList(c) \/ Fail(c)

-----------------------------------------------------------------------------

(* At rest, if the user waited for the answers and none was an error, the  *)
(* evaluation has each value the user saved and did not delete, once, and  *)
(* no other: a deleted tag does not come back with the next save.          *)
TagsAsChosen ==
    alone /\ tagCalls = {} =>
        Values(stored) = wanted /\ Cardinality(stored) = Cardinality(wanted)
=============================================================================
