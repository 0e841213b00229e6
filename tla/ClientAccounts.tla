--------------------------- MODULE ClientAccounts ---------------------------
(* The accounts that use a page of the client.                             *)
EXTENDS Naturals

CONSTANTS
    Account, AdminAccount,
    Nobody,
    MaxTurns   \* bound on what users, other tabs and the server start

ASSUME AccountAssumption ==
    /\ AdminAccount \subseteq Account /\ Nobody \notin Account
    /\ MaxTurns \in Nat
=============================================================================
