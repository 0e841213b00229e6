---------------------------- MODULE SplunkReader ----------------------------
(***************************************************************************)
(* The Splunk tab of the upload dialog: the form (splunk/AuthStep.vue), the*)
(* list of executions with its poller (splunk/FileList.vue), the steps     *)
(* between them (SplunkReader.vue) and a search of splunk_util.ts, which   *)
(* is three calls, the second repeated while the job runs.                 *)
(***************************************************************************)
EXTENDS Integers, FiniteSets

CONSTANTS
    Endpoint,     \* hosts with credentials
    NoEndpoint,
    MaxLogins     \* bound on the uses of the form

VARIABLES
    step,               \* 1: the form, 2: the list
    splunkState,        \* the endpoint the poller searches
    checking,           \* the endpoint of the check_auth under way (loggingIn)
    searches,           \* fetch_execution_list calls under way, their stage
    alreadySearching,
    due,                \* nextSearchTime has passed
    items,              \* the endpoint whose executions are listed
    errorCount,         \* up to 3, where the overlay covers the tab; -1 is help
    logins

vars == <<step, splunkState, checking, searches, alreadySearching, due, items,
          errorCount, logins>>

form == <<checking, logins>>
poller == <<searches, alreadySearching, due>>

Known == Endpoint \cup {NoEndpoint}

Search(e, at) == [of |-> e, at |-> at]

TypeOK ==
    /\ step \in {1, 2} /\ {splunkState, checking, items} \subseteq Known
    /\ searches \subseteq [of : Endpoint, at : {"create", "job", "results"}]
    /\ alreadySearching \in BOOLEAN /\ due \in BOOLEAN
    /\ errorCount \in -1..3 /\ logins \in 0..MaxLogins

Init ==
    /\ step = 1 /\ splunkState = NoEndpoint /\ checking = NoEndpoint
    /\ searches = {} /\ alreadySearching = FALSE /\ due = TRUE
    /\ items = NoEndpoint /\ errorCount = 0 /\ logins = 0

Uncovered == errorCount \in 0..2

-----------------------------------------------------------------------------

(* try_login; its button waits for the answer.                             *)
TryLogin(e) ==
    /\ step = 1 /\ Uncovered /\ checking = NoEndpoint
    /\ logins < MaxLogins /\ logins' = logins + 1
    /\ checking' = e
    /\ UNCHANGED <<step, splunkState, poller, items, errorCount>>

(* handle_error goes back to the form, whoever the error is about, and     *)
(* keeps the endpoint; errors of the network are counted.                  *)
HandleError ==
    /\ step' = 1
    /\ errorCount' \in {errorCount, IF errorCount = 3 THEN 3 ELSE errorCount + 1}

CheckAnswered ==
    /\ checking # NoEndpoint /\ checking' = NoEndpoint
    /\ \/ splunkState' = checking /\ step' = 2 /\ errorCount' = errorCount
       \/ HandleError /\ splunkState' = splunkState
    /\ UNCHANGED <<poller, items, logins>>

(* search_poller, every second.                                            *)
Poll ==
    /\ splunkState # NoEndpoint /\ due /\ ~alreadySearching
    /\ due' = FALSE /\ alreadySearching' = TRUE
    /\ searches' = searches \cup {Search(splunkState, "create")}
    /\ UNCHANGED <<step, splunkState, form, items, errorCount>>

TimePasses ==
    /\ ~due /\ due' = TRUE
    /\ UNCHANGED <<step, splunkState, form, searches, alreadySearching, items, errorCount>>

(* create_search and pend_job, where the job is done at last.              *)
SearchGoesOn(s) ==
    /\ s.at # "results"
    /\ searches' = (searches \ {s}) \cup
                   {Search(s.of, IF s.at = "create" THEN "job" ELSE "results")}
    /\ UNCHANGED <<step, splunkState, form, alreadySearching, due, items, errorCount>>

SearchSucceeds(s) ==
    /\ s.at = "results" /\ searches' = searches \ {s}
    /\ items' = s.of /\ alreadySearching' = FALSE
    /\ UNCHANGED <<step, splunkState, form, due, errorCount>>

(* Mutant of SearchFails: the next search is never due.                    *)
SearchFailsStuck(s) ==
    /\ searches' = searches \ {s}
    /\ items' = NoEndpoint /\ alreadySearching' = alreadySearching
    /\ HandleError
    /\ UNCHANGED <<splunkState, form, due>>

SearchFails(s) ==
    /\ searches' = searches \ {s}
    /\ items' = NoEndpoint /\ alreadySearching' = FALSE
    /\ HandleError
    /\ UNCHANGED <<splunkState, form, due>>

(* Mutant of Logout: the poller starts anew.                               *)
LogoutForgetsSearch ==
    /\ step = 2 /\ Uncovered
    /\ step' = 1 /\ splunkState' = NoEndpoint /\ items' = NoEndpoint
    /\ alreadySearching' = FALSE /\ due' = TRUE
    /\ UNCHANGED <<form, searches, errorCount>>

(* A search under way goes on, and its answer is listed.                   *)
Logout ==
    /\ step = 2 /\ Uncovered
    /\ step' = 1 /\ splunkState' = NoEndpoint /\ items' = NoEndpoint
    /\ UNCHANGED <<form, poller, errorCount>>

(* Mutant of Overlay: its button takes one error back.                     *)
OverlayTakesOneBack ==
    /\ \/ step = 1 /\ Uncovered /\ errorCount' = -1
       \/ ~Uncovered /\ errorCount' = errorCount - 1
    /\ UNCHANGED <<step, splunkState, form, poller, items>>

(* The help button, and the button of the overlay.                         *)
Overlay ==
    /\ \/ step = 1 /\ Uncovered /\ errorCount' = -1
       \/ ~Uncovered /\ errorCount' = 0
    /\ UNCHANGED <<step, splunkState, form, poller, items>>

SearchMoves ==
    \E s \in searches : SearchGoesOn(s) \/ SearchSucceeds(s) \/ SearchFails(s)

Next ==
    \/ \E e \in Endpoint : TryLogin(e)
    \/ CheckAnswered \/ Poll \/ TimePasses \/ SearchMoves \/ Logout \/ Overlay

Spec == Init /\ [][Next]_vars

-----------------------------------------------------------------------------

(* At most one search is under way, and the flag says so, whatever logins, *)
(* logouts and errors it meets: Splunk is not flooded with jobs, and an    *)
(* older answer never replaces a newer one.                                *)
OneSearch ==
    /\ Cardinality(searches) = (IF alreadySearching THEN 1 ELSE 0)

(* Whoever has signed in gets the list of that endpoint, or is back at the *)
(* form or at another endpoint, also after a search of theirs or of an     *)
(* earlier endpoint failed.                                                *)
Listed(e) == items = e \/ splunkState # e \/ step = 1
=============================================================================
