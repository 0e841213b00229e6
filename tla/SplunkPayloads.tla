--------------------------- MODULE SplunkPayloads ---------------------------
(***************************************************************************)
(* splunk_util.ts: the events of a search, put together again to           *)
(* executions of profiles of controls.  An event is [subtype, guid, sha,   *)
(* id]: the execution it belongs to, the profile it is or is in, and the   *)
(* control it is.                                                          *)
(***************************************************************************)
EXTENDS Naturals, Sequences, SequencesExt, FiniteSets, Sublists

Guids(events) == {events[i].guid : i \in DOMAIN events}

OfKind(events, guid, subtype) ==
    Pick(events, {i \in DOMAIN events : events[i].guid = guid /\ events[i].subtype = subtype})

OfSha(events, sha) == Pick(events, {i \in DOMAIN events : events[i].sha = sha})

(* Mutant of ControlsIn: the controls of a profile are looked for in all   *)
(* the events of the search.                                               *)
ControlsInAll(events, guid, sha) ==
    Pick(events, {i \in DOMAIN events : events[i].subtype = "control" /\ events[i].sha = sha})

ControlsIn(events, guid, sha) == OfSha(OfKind(events, guid, "control"), sha)

(* consolidate_file_payloads throws if there is not one header.            *)
Sound(events) == \A g \in Guids(events) : Len(OfKind(events, g, "header")) = 1

(* consolidate_payloads: for each guid its profiles, each with its         *)
(* controls.                                                               *)
Consolidated(events) ==
    [g \in Guids(events) |->
        LET profiles == OfKind(events, g, "profile") IN
           [p \in DOMAIN profiles |->
               [sha |-> profiles[p].sha,
                controls |-> ControlsIn(events, g, profiles[p].sha)]]]

(* The profiles of the result that hold an event.                          *)
Homes(all, e) ==
    UNION {{<<g, p>> : p \in {q \in DOMAIN all[g] : e \in ToSet(all[g][q].controls)}} :
              g \in DOMAIN all}

(* Events come in any order, and two scans with one profile share its      *)
(* hash: each control is in the execution of its own scan, once for each   *)
(* event of its profile, and lost only where that event is.                *)
EventsKept(events) ==
    Sound(events) =>
        \A e \in ToSet(events) :
            e.subtype = "control" =>
                LET homes == Homes(Consolidated(events), e)
                    own == OfSha(OfKind(events, e.guid, "profile"), e.sha) IN
                   /\ Cardinality(homes) = Len(own)
                   /\ \A h \in homes : h[1] = e.guid
=============================================================================
