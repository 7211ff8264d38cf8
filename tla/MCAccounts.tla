----------------------------- MODULE MCAccounts -----------------------------
(***************************************************************************)
(* Instances of the accounts for TLC.                                      *)
(***************************************************************************)
EXTENDS Accounts, TLC

CONSTANTS r1, r2, r3, r4, e1, e2, n1, n2, p1, p2, x1, x2

MCRequests == {r1, r2, r3, r4}
MCEmails == {e1, e2}
MCNames == {n1, n2}
MCPasswords == {p1, p2}
MCDocIds == {x1, x2}

\* Of the products two fit, one is negative, and two wrap, one of them to 0.
MCPaging == {<<1, 2>>, <<2, 1>>, <<0, 1>>, <<3, 2>>, <<-3, 2>>}
Symmetry == Permutations(Requests) \cup Permutations(Emails)
            \cup Permutations(Names) \cup Permutations(Passwords)
            \cup Permutations(DocIds)
=============================================================================
