----------------------------- MODULE MCAccounts -----------------------------
(* Small instances of Accounts for TLC.                                    *)
EXTENDS Accounts, TLC

CONSTANTS u1, u2, u3, e1, e2, e3, p1, p2

Account(e, x, f) ==
    [email |-> e, role |-> x, force |-> f, pw |-> p1, logins |-> 0]

(* Two administrators and a user; the seeder's administrator must change   *)
(* its password.                                                           *)
TwoAdmins ==
    (u1 :> Account(e1, "admin", "null")) @@ (u2 :> Account(e2, "admin", "null"))
    @@ (u3 :> Account(e3, "user", "null"))

SeededAdmin == (u1 :> Account(e1, "admin", "true")) @@ (u2 :> None) @@ (u3 :> None)

LoneAdmin == (u1 :> Account(e1, "admin", "true")) @@ (u2 :> None)

NoEdit == [email |-> None, role |-> None, force |-> FALSE, pw |-> None]

RoleEdits == {[NoEdit EXCEPT !.role = x] : x \in {"user", "admin"}}

AccountEdits ==
    {[NoEdit EXCEPT !.email = e3], [NoEdit EXCEPT !.pw = p2],
     [NoEdit EXCEPT !.force = TRUE], [NoEdit EXCEPT !.role = "admin"],
     [NoEdit EXCEPT !.role = "user"],
     [NoEdit EXCEPT !.email = e3, !.pw = Empty]}

(* Edits that together change everything there is: asked for by someone    *)
(* else with the role, of its own account without; one leaves the password *)
(* empty, one out.                                                         *)
Raise == [NoEdit EXCEPT !.role = "admin", !.email = e2, !.pw = Empty]

Lower == [NoEdit EXCEPT !.role = "user", !.email = e2, !.force = TRUE]

Renew == [NoEdit EXCEPT !.pw = p2]

BroadEdits == {Raise, Lower, Renew}

Symmetry == Permutations(Req)
=============================================================================
