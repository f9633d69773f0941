----------------------------- MODULE AccountProps ------------------------------
(***************************************************************************)
(* What accounts promise with requests that overlap and stop half way.     *)
(***************************************************************************)
EXTENDS Accounts, FiniteSets

\* Nobody is a user without a store and a main folder, wherever a registration
\* stops: what stays behind of one is a store or a folder nobody owns.
UsersComplete ==
  \A u \in Ids : users[u] # None => u \in stores \cap folders

\* Names are checked before the row is inserted and are no key: an address has
\* several accounts, but never more than registrations run at a time and checks
\* fail, however often its code is used.
NamesBounded ==
  \A e \in Emails : Cardinality(Named(e)) <= Cardinality(Threads) + faults

\* Whatever stale rows are saved and old tokens shown: whoever is, or passes
\* for, an administrator was made exactly that by a super administrator.
AdminsGranted ==
  /\ \A u \in Ids : users[u] # None /\ users[u].status \in Admins
                      => <<u, users[u].status>> \in granted
  /\ \A k \in tokens : k.status \in Admins => <<k.user, k.status>> \in granted
=============================================================================
