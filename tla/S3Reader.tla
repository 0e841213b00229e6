------------------------------ MODULE S3Reader ------------------------------
(***************************************************************************)
(* The S3 tab of the upload dialog (aws/S3Reader.vue): the form for keys,  *)
(* the form for a second factor, and the list of a bucket.  Buttons are    *)
(* not disabled while a call is under way, and no call is given up.        *)
(***************************************************************************)
EXTENDS Naturals, FiniteSets

CONSTANTS
    Key,         \* pairs of access key and secret
    NoRole,
    MaxFlight,   \* bound on the calls under way
    MaxClicks    \* bound on the calls ever made

VARIABLES
    s3step,        \* 1: keys, 2: second factor, 3: bucket
    assumedRole,   \* whose credentials are held
    listedBy,      \* with whose credentials files was listed
    s3calls,
    clicks,
    askedFor,      \* the keys last sent to be authenticated, or stored
    crossed,       \* one was still unanswered at the next, or at a step back
    wentBack       \* a form or the list was cancelled

history == <<askedFor, crossed, wentBack>>
vars == <<s3step, assumedRole, listedBy, s3calls, clicks, history>>

TypeOK ==
    /\ s3step \in 1..3
    /\ {assumedRole, listedBy, askedFor} \subseteq Key \cup {NoRole}
    /\ s3calls \subseteq [n : 1..MaxClicks, kind : {"basic", "goto", "mfa", "list"}, by : Key]
    /\ clicks \in 0..MaxClicks
    /\ crossed \in BOOLEAN /\ wentBack \in BOOLEAN

(* mounted: credentials may be left in local storage.                      *)
Init ==
    /\ assumedRole \in Key \cup {NoRole}
    /\ s3step = (IF assumedRole = NoRole THEN 1 ELSE 3)
    /\ listedBy = NoRole /\ s3calls = {} /\ clicks = 0
    /\ askedFor = assumedRole /\ crossed = FALSE /\ wentBack = FALSE

Authentications == {c \in s3calls : c.kind # "list"}

Crosses == crossed' = (crossed \/ Authentications # {})

Ask(kind, k) ==
    /\ Cardinality(s3calls) < MaxFlight /\ clicks < MaxClicks
    /\ clicks' = clicks + 1
    /\ s3calls' = s3calls \cup {[n |-> clicks + 1, kind |-> kind, by |-> k]}
    /\ UNCHANGED <<s3step, assumedRole, listedBy, wentBack>>

(* handle_basic, handle_goto_mfa and handle_proceed_mfa use what the form  *)
(* for keys holds.                                                         *)
Authenticate ==
    \E k \in Key :
        /\ \/ s3step = 1 /\ (Ask("basic", k) \/ Ask("goto", k))
           \/ s3step = 2 /\ Ask("mfa", k)
        /\ askedFor' = k /\ Crosses

(* load_bucket takes the credentials as they are at the click; without any *)
(* it throws before it calls.                                              *)
LoadBucket ==
    /\ s3step = 3 /\ assumedRole # NoRole /\ Ask("list", assumedRole)
    /\ UNCHANGED <<askedFor, crossed>>

(* Mutant of CancelMfa: the credentials, cleared "just in case", stay.     *)
CancelMfaKeepsRole ==
    /\ s3step \in {2, 3}
    /\ s3step' = 1
    /\ Crosses /\ wentBack' = TRUE
    /\ UNCHANGED <<assumedRole, listedBy, s3calls, clicks, askedFor>>

(* handle_cancel_mfa, of the second form and of the list; handle_exit_list *)
(* is not used, so the listed files stay.                                  *)
CancelMfa ==
    /\ s3step \in {2, 3}
    /\ s3step' = 1 /\ assumedRole' = NoRole
    /\ Crosses /\ wentBack' = TRUE
    /\ UNCHANGED <<listedBy, s3calls, clicks, askedFor>>

(* STS answers with credentials or without any, which get_session_token    *)
(* turns into null: the list is opened either way.  The answer on the way  *)
(* to the second form is not looked at.                                    *)
Answer(c) ==
    /\ s3calls' = s3calls \ {c} /\ UNCHANGED <<clicks, history>>
    /\ CASE c.kind \in {"basic", "mfa"} ->
              /\ assumedRole' \in {c.by, NoRole}
              /\ s3step' = 3 /\ listedBy' = listedBy
         [] c.kind = "goto" -> s3step' = 2 /\ UNCHANGED <<assumedRole, listedBy>>
         [] c.kind = "list" -> listedBy' = c.by /\ UNCHANGED <<assumedRole, s3step>>

(* handle_error only tells.                                                *)
Fail(c) ==
    /\ s3calls' = s3calls \ {c}
    /\ UNCHANGED <<s3step, assumedRole, listedBy, clicks, history>>

Next ==
    \/ Authenticate \/ LoadBucket \/ CancelMfa
    \/ \E c \in s3calls : Answer(c) \/ Fail(c)

-----------------------------------------------------------------------------

(* Unless an authentication was still unanswered when another one was sent *)
(* or the user went back, the credentials held are those asked for last,   *)
(* none are held where a form is open, and until a form or the list was    *)
(* cancelled the files shown were listed with the credentials that will    *)
(* fetch them.                                                             *)
CredentialsAsAsked ==
    ~crossed =>
       /\ assumedRole \in {askedFor, NoRole}
       /\ s3step # 3 => assumedRole = NoRole
       /\ ~wentBack => listedBy \in {assumedRole, NoRole}
=============================================================================
