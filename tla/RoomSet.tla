-------------------------------- MODULE RoomSet --------------------------------
(***************************************************************************)
(* What the lobby promises of its rooms, without threads, locks, pointers  *)
(* or the map of RoomManager: a room is opened with a limit, sessions come *)
(* and go one at a time and never exceed it, and a room that its last      *)
(* member has left is gone for good.  Lobby implements this specification  *)
(* as long as nothing undefined has happened.                              *)
(***************************************************************************)
EXTENDS Naturals, FiniteSets

CONSTANTS
  Rooms,      \* identities of rooms, never reused
  Sessions,
  Maxes       \* the limits clients ask for

VARIABLES
  phase,      \* of each room: "none", "open", "gone"
  limit,
  members

vars == <<phase, limit, members>>

Init ==
  /\ phase = [r \in Rooms |-> "none"]
  /\ limit = [r \in Rooms |-> 0]
  /\ members = [r \in Rooms |-> {}]

Open(r, n) ==
  /\ phase[r] = "none"
  /\ phase' = [phase EXCEPT ![r] = "open"]
  /\ limit' = [limit EXCEPT ![r] = n]
  /\ UNCHANGED members

Enter(r, s) ==
  /\ phase[r] = "open"
  /\ Cardinality(members[r]) < limit[r]
  /\ members' = [members EXCEPT ![r] = @ \cup {s}]
  /\ UNCHANGED <<phase, limit>>

Leave(r, s) ==
  /\ phase[r] = "open"
  /\ s \in members[r]
  /\ members' = [members EXCEPT ![r] = @ \ {s}]
  /\ phase' = IF members[r] = {s} THEN [phase EXCEPT ![r] = "gone"] ELSE phase
  /\ UNCHANGED limit

Next ==
  \E r \in Rooms :
    \/ \E n \in Maxes : Open(r, n)
    \/ \E s \in Sessions : Enter(r, s) \/ Leave(r, s)

Spec == Init /\ [][Next]_vars
===============================================================================
