----------------------------- MODULE MCAccounts -----------------------------
(* Bounds of the TLC run of Accounts. *)
EXTENDS Accounts

Much(redirects, logins, work, logouts, changes, days) ==
  [redirects |-> redirects, logins |-> logins, work |-> work, logouts |-> logouts,
   changes |-> changes, days |-> days]

\* Overlapping logins; overlapping work; and a little of everything.
MCBudgets == {Much(2, 2, 0, 0, 0, 0), Much(0, 3, 0, 0, 1, 0), Much(1, 2, 0, 1, 1, 0), Much(0, 0, 2, 0, 0, 0),
              Much(0, 1, 1, 1, 0, 1)}
=============================================================================
