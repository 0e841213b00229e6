-------------------------- MODULE AccountAuthority --------------------------
(***************************************************************************)
(* What the backend promises about accounts, without statements, copies of *)
(* rows or counts: an account is changed or removed only by itself, with   *)
(* its password, or by somebody else who was an administrator on arrival;  *)
(* nobody gives a role to himself, and who must change the password must   *)
(* until a write stores a new one; a sign-in counts itself and nothing     *)
(* else; a change lets one write through, however late; and an account is  *)
(* opened as an ordinary one, by who may register or by way of an identity *)
(* provider that knows nobody of that address.                             *)
(***************************************************************************)
EXTENDS Naturals

CONSTANTS Uid, Req, Anon, None, RegistrationAllowed, Start

VARIABLES
    rows,     \* the accounts, None where there is none
    born,     \* the ids handed out so far
    permit    \* what each request asks for and has been let through to

avars == <<rows, born, permit>>

data == <<rows, born>>

NoChange == [c \in {} |-> None]

(* badge: who is an administrator; on: the account a request is about;     *)
(* change: the columns it may write, and with what.                        *)
Nothing ==
    [asks |-> "none", who |-> Anon, badge |-> FALSE, email |-> None, pw |-> None,
     on |-> None, to |-> "nothing", change |-> NoChange]

AInit ==
    /\ rows = Start
    /\ born = {u \in Uid : Start[u] # None}
    /\ permit = [r \in Req |-> Nothing]

Account == {u \in Uid : rows[u] # None}

Admins == {u \in Account : rows[u].role = "admin"}

Addressed(e, by) == \E u \in by \cap Account : rows[u].email = e

Becomes(r, p) == permit' = [permit EXCEPT ![r] = p]

(* The same request, let through to something else.                        *)
Onward(q, u, to, change) ==
    [asks |-> q.asks, who |-> q.who, badge |-> q.badge, email |-> q.email, pw |-> q.pw,
     on |-> u, to |-> to, change |-> change]

-----------------------------------------------------------------------------

(* A request comes, in place of one that ended, and is let through to      *)
(* nothing yet but to register.                                            *)
Arrive(r) ==
    LET p == permit'[r] IN
       /\ Becomes(r, p)
       /\ p.who \in Account \cup {Anon}
       /\ p.badge => p.who \in Admins
       /\ \/ p.to = "nothing"
          \/ /\ p.to = "open" /\ p.asks = "register"
             /\ RegistrationAllowed \/ p.who \in Admins
       /\ p.change = NoChange
       /\ UNCHANGED data

(* Its own account everybody may edit who knows the password, but for the  *)
(* role.  That a forced change is made is not promised: an empty password  *)
(* passes for one, the other edits are made and the force stays.           *)
OwnEdit(q, change) ==
    LET row == rows[q.on] IN
       /\ q.who = q.on /\ q.pw = row.pw
       /\ "role" \notin DOMAIN change

(* No edit writes the count of sign-ins, and to the end of a forced change *)
(* belongs a new password.                                                 *)
LetThrough(r) ==
    LET q == permit[r]
        change == permit'[r].change IN
       /\ q.asks \in {"update", "remove"} /\ q.to = "nothing" /\ q.on \in Account
       /\ Becomes(r, Onward(q, q.on, q.asks, change))
       /\ (q.badge /\ q.who # q.on) \/ OwnEdit(q, change)
       /\ "logins" \notin DOMAIN change
       /\ "force" \in DOMAIN change /\ change["force"] # "true" => "pw" \in DOMAIN change
       /\ UNCHANGED data

SignIn(r, u) ==
    LET q == permit[r] IN
       /\ q.asks \in {"login", "sso"} /\ q.to \in {"nothing", "opened"}
       /\ u \in Account /\ rows[u].email = q.email
       /\ q.asks = "login" => rows[u].pw = q.pw
       /\ Becomes(r, Onward(q, u, "update", [c \in {"logins"} |-> rows[u].logins + 1]))
       /\ UNCHANGED data

(* An identity provider vouches for an address that nobody has.            *)
Vouch(r) ==
    LET q == permit[r] IN
       /\ q.asks = "sso" /\ q.to = "nothing" /\ ~Addressed(q.email, Uid)
       /\ Becomes(r, Onward(q, q.on, "open", NoChange))
       /\ UNCHANGED data

-----------------------------------------------------------------------------

Open(r, u) ==
    LET q == permit[r] IN
       /\ q.to = "open" /\ u \in Uid \ born /\ ~Addressed(q.email, Uid)
       /\ rows' = [rows EXCEPT ![u] = [email |-> q.email, role |-> "user", force |-> "null",
                                       pw |-> q.pw, logins |-> 0]]
       /\ born' = born \cup {u}
       /\ Becomes(r, IF q.asks = "sso" THEN Onward(q, q.on, "opened", NoChange) ELSE Nothing)

(* What was let through to is written over what is there by then.          *)
Write(r) ==
    LET q == permit[r]
        row == rows[q.on] IN
       /\ q.to = "update" /\ q.on \in Account
       /\ "email" \in DOMAIN q.change => ~Addressed(q.change["email"], Uid \ {q.on})
       /\ rows' = [rows EXCEPT ![q.on] =
             [c \in DOMAIN row |-> IF c \in DOMAIN q.change THEN q.change[c] ELSE row[c]]]
       /\ Becomes(r, Nothing)
       /\ UNCHANGED born

Remove(r) ==
    /\ permit[r].to = "remove"
    /\ rows' = [rows EXCEPT ![permit[r].on] = None]
    /\ Becomes(r, Nothing)
    /\ UNCHANGED born

(* A request may end without a change, alone or with all the others.       *)
GiveUp(r) == Becomes(r, Nothing) /\ UNCHANGED data

Restart == permit' = [r \in Req |-> Nothing] /\ UNCHANGED data

ANext ==
    \/ \E r \in Req :
          \/ Arrive(r) \/ LetThrough(r) \/ Vouch(r)
          \/ Write(r) \/ Remove(r) \/ GiveUp(r)
          \/ \E u \in Uid : SignIn(r, u) \/ Open(r, u)
    \/ Restart

ASpec == AInit /\ [][ANext]_avars

=============================================================================
