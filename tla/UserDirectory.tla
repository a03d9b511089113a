----------------------------- MODULE UserDirectory -----------------------------
(***************************************************************************)
(* What the accounts of the server promise, whatever happens to the        *)
(* database connection: an account is created once and keeps its password, *)
(* a session takes a user's identity only with that user's password, and   *)
(* only a session that has the identity names the user.                    *)
(***************************************************************************)
CONSTANTS
  Sessions,
  Ids,        \* user ids that clients send
  Passwords,
  Names,
  None,       \* no account, no name, no password
  Empty       \* the user id of a session that has not signed in

VARIABLES
  account,    \* Ids -> password and name, or None
  offered,    \* Sessions -> the password of a sign-in under way, or None
  user        \* Sessions -> the user the session acts for

vars == <<account, offered, user>>

Init ==
  /\ account = [u \in Ids |-> None]
  /\ offered = [s \in Sessions |-> None]
  /\ user = [s \in Sessions |-> Empty]

Create(u, p) ==
  /\ account[u] = None
  /\ account' = [account EXCEPT ![u] = [password |-> p, name |-> None]]
  /\ UNCHANGED <<offered, user>>

Offer(s, p) ==
  /\ offered' = [offered EXCEPT ![s] = p]
  /\ UNCHANGED <<account, user>>

SignIn(s, u) ==
  /\ account[u] # None
  /\ account[u].password = offered[s]
  /\ user' = [user EXCEPT ![s] = u]
  /\ offered' = [offered EXCEPT ![s] = None]
  /\ UNCHANGED account

SetName(u, n) ==
  /\ \E s \in Sessions : user[s] = u
  /\ account[u] # None
  /\ account' = [account EXCEPT ![u].name = n]
  /\ UNCHANGED <<offered, user>>

(* Connections end, and the server restarts. *)
SignOut(S) ==
  /\ user' = [s \in Sessions |-> IF s \in S THEN Empty ELSE user[s]]
  /\ offered' = [s \in Sessions |-> IF s \in S THEN None ELSE offered[s]]
  /\ UNCHANGED account

Next ==
  \/ \E u \in Ids, p \in Passwords : Create(u, p)
  \/ \E s \in Sessions, p \in Passwords : Offer(s, p)
  \/ \E s \in Sessions, u \in Ids : SignIn(s, u)
  \/ \E u \in Ids, n \in Names : SetName(u, n)
  \/ \E S \in SUBSET Sessions : SignOut(S)

Spec == Init /\ [][Next]_vars
================================================================================
