--------------------------- MODULE MCUserAccounts ---------------------------
(***************************************************************************)
(* Instances of UserAccounts for TLC: two accounts with one password       *)
(* between them, or one account with two.                                  *)
(***************************************************************************)
EXTENDS UserAccounts, TLC

CONSTANTS u1, u2, n1, n2, e1, e2, p1, p2, r1, r2

MCOneUser == {u1}
MCUsers == {u1, u2}
MCNames == {n1, n2}
MCEmails == {e1, e2}
MCOnePassword == {p1}
MCPasswords == {p1, p2}
MCOneRequest == {r1}
MCRequests == {r1, r2}

Symmetry == Permutations(MCUsers) \cup Permutations(MCNames) \cup Permutations(MCEmails)
              \cup Permutations(MCPasswords) \cup Permutations(MCRequests)
=============================================================================
