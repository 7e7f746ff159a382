--------------------------- MODULE MCAdminAccess ---------------------------
(***************************************************************************)
(* Two handler threads, two usernames, logins of one from two addresses.   *)
(***************************************************************************)
EXTENDS AdminAccess

CONSTANTS t1, t2, alice, bob, p, q, home, away

TwoThreads == {t1, t2}
BothNames == {alice, bob}
TwoPasswords == {p, q}
TwoClients == {<<home, alice>>, <<away, alice>>}
WriteFaults == {"statement", "commit"}
=============================================================================
