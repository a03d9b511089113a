---------------------------- MODULE LobbyRoomProofs ----------------------------
(***************************************************************************)
(* Proofs about Lobby, for any number of threads, sessions, rooms and      *)
(* limits, of the promises that undefined behaviour or a second worker     *)
(* breaks: until something undefined has happened the lobby implements the *)
(* abstract set of rooms; and with all sessions on one worker a room that  *)
(* a handler looked up is still there when the handler uses it, so that    *)
(* the lobby implements it for ever and a room's host is one of its        *)
(* members.                                                                *)
(***************************************************************************)
EXTENDS LobbyProofs

(* A handler runs on the thread of its session. *)
JobOwn == \A t \in Threads : job[t].step # "idle" => owner[job[t].session] = t

(* A session that leaves a room is still in it. *)
LeaveOK ==
  undefined = "no" =>
    \A t \in Threads : job[t].step = "leave" => job[t].session \in members[job[t].room]

(* With one worker: the handler at work has a room that exists.  One that  *)
(* enters a new room is its host's, and one that leaves a room a member's. *)
WorkOK ==
  \A t \in Threads :
    /\ job[t].step # "idle" => object[job[t].room] = "live"
    /\ job[t].step = "create_enter" => host[job[t].room] = job[t].session
    /\ job[t].step = "leave" => job[t].session \in members[job[t].room]

(* RoomIdConsistent, whatever has happened to sessions that vanished. *)
RoomIdOK ==
  \A s \in alive : roomId[s] # NoId =>
    rooms[roomId[s]] # None /\ s \in members[rooms[roomId[s]]]

HostOK == \A r \in Rooms : object[r] = "live" /\ members[r] # {} => host[r] \in members[r]

RInv == IInv /\ JobOwn /\ LeaveOK
OInv == WorkOK /\ RoomIdOK /\ HostOK
SInv == RInv /\ (OneWorker => OInv)

(* The thread that has all the sessions, and so all the work. *)
Alone(t) ==
  /\ \A s \in Sessions : owner[s] = t
  /\ \A u \in Threads : u # t => job[u].step = "idle"

-------------------------------------------------------------------------------
LEMMA InitSInv == Init => SInv
<1> SUFFICES ASSUME Init PROVE SInv
  OBVIOUS
<1>1. JobOwn /\ LeaveOK /\ WorkOK /\ RoomIdOK /\ HostOK
  BY DEF Init, Idle, JobOwn, LeaveOK, WorkOK, RoomIdOK, HostOK
<1> QED
  BY <1>1, InitInv DEF SInv, RInv, OInv

(* A session is given to a worker once. *)
LEMMA OwnerKept ==
  ASSUME [Next]_vars
  PROVE  owner' = owner
BY DEF Next, vars, Request, CreateRoom, JoinRoom, LeaveRoom, BroadcastRoom, GameRequest, Lookup,
       Disconnect, StepOf, CreateEnter, JoinEnter, LeaveErase, LeaveRemove, Broadcast, StartGame

LEMMA OneIsAlone ==
  ASSUME RInv, OneWorker
  PROVE  \E t \in Threads : Alone(t)
BY DEF RInv, IInv, JobOK, JobOwn, OneWorker, Alone

-------------------------------------------------------------------------------
(* A handler stays on its session's thread, and what it leaves it is in:   *)
(* nobody else makes the session leave.                                    *)
LEMMA NextRInv ==
  ASSUME RInv, [Next]_vars
  PROVE  RInv'
<1>1. IInv'
  BY NextInv DEF RInv
<1>2. owner' = owner /\ owner \in [Sessions -> Threads] /\ job \in [Threads -> Jobs]
  BY OwnerKept DEF RInv, IInv, TypeOK
<1>3. ASSUME NEW s \in Sessions, NEW limit \in Maxes, CreateRoom(s, limit) PROVE JobOwn' /\ LeaveOK'
  <2>1. PICK r \in Rooms : Goes(owner[s], "create_enter", s, r)
    BY <1>3 DEF CreateRoom
  <2>2. UNCHANGED <<members, undefined>>
    BY <1>3 DEF CreateRoom
  <2>3. /\ job'[owner[s]] = [step |-> "create_enter", session |-> s, room |-> r]
        /\ \A u \in Threads : u # owner[s] => job'[u] = job[u]
    BY <1>2, <2>1, JobAfterGoes DEF Steps
  <2> QED
    BY <1>2, <2>2, <2>3 DEF RInv, JobOwn, LeaveOK
<1>4. ASSUME NEW s \in Sessions, NEW k, NEW step \in {"join_enter", "leave", "broadcast", "start"},
             Lookup(s, k, step), step = "leave" => k = roomId[s]
      PROVE  JobOwn' /\ LeaveOK'
  <2>1. /\ k \in Keys /\ rooms[k] # None /\ rooms[k] \in Rooms /\ s \in alive
        /\ Goes(owner[s], step, s, rooms[k])
        /\ UNCHANGED <<members, undefined>>
    BY <1>4 DEF Lookup, Takes, RInv, IInv, TypeOK
  <2>2. /\ job'[owner[s]] = [step |-> step, session |-> s, room |-> rooms[k]]
        /\ \A u \in Threads : u # owner[s] => job'[u] = job[u]
    BY <1>2, <2>1, JobAfterGoes DEF Steps
  <2>3. undefined = "no" /\ step = "leave" => s \in members[rooms[k]]
    BY <1>4, <2>1 DEF RInv, IInv, RoomIdConsistent, Keys, NoId
  <2> QED
    BY <1>2, <2>1, <2>2, <2>3 DEF RInv, JobOwn, LeaveOK
<1>5. ASSUME NEW s \in Sessions, Disconnect(s) PROVE JobOwn' /\ LeaveOK'
  BY <1>2, <1>5 DEF Disconnect, RInv, JobOwn, LeaveOK
<1>6. ASSUME NEW t \in Threads, CreateEnter(t) \/ JoinEnter(t) PROVE JobOwn' /\ LeaveOK'
  <2>1. /\ job[t].step # "idle" /\ Enter(job[t].room, job[t].session) /\ Finishes(t)
    BY <1>6 DEF CreateEnter, JoinEnter, Does
  <2>2. job[t].room \in Rooms /\ job[t].session \in Sessions /\ object[job[t].room] # "none"
    BY <2>1 DEF RInv, IInv, JobOK
  <2>3. /\ undefined' = "no" => undefined = "no"
        /\ \A q \in Rooms : members[q] \subseteq members'[q]
    BY <2>1, <2>2, EnterKeeps DEF RInv
  <2>4. job'[t].step = "idle" /\ \A u \in Threads : u # t => job'[u] = job[u]
    BY <1>2, <2>1, JobAfterFinishes
  <2> QED
    BY <1>2, <2>3, <2>4 DEF RInv, IInv, JobOK, JobOwn, LeaveOK
<1>7. ASSUME NEW t \in Threads, LeaveErase(t) PROVE JobOwn' /\ LeaveOK'
  <2> DEFINE r == job[t].room
             s == job[t].session
  <2>1. r \in Rooms /\ s \in Sessions /\ owner[s] = t
    BY <1>7 DEF RInv, IInv, JobOK, JobOwn, LeaveErase, Does
  <2>2. /\ members' = [members EXCEPT ![r] = @ \ {s}]
        /\ undefined' = "no" => undefined = "no"
        /\ Goes(t, "leave_remove", s, r) \/ Finishes(t)
    BY <1>7 DEF LeaveErase, Undefined
  <2> HIDE DEF r, s
  <2>3. /\ \A u \in Threads : u # t => job'[u] = job[u]
        /\ job'[t].step = "idle" \/ (job'[t].step = "leave_remove" /\ job'[t].session = s)
    <3>1. job \in [Threads -> Jobs] /\ "leave_remove" \in Steps
      BY <1>2 DEF Steps
    <3>2. CASE Goes(t, "leave_remove", s, r)
      <4>1. /\ job'[t] = [step |-> "leave_remove", session |-> s, room |-> r]
            /\ \A u \in Threads : u # t => job'[u] = job[u]
        BY <2>1, <3>1, <3>2, JobAfterGoes
      <4> QED
        BY <4>1
    <3>3. CASE Finishes(t)
      BY <3>1, <3>3, JobAfterFinishes
    <3> QED
      BY <2>2, <3>2, <3>3
  <2>4. JobOwn'
    BY <1>2, <2>1, <2>3 DEF RInv, JobOwn
  <2>5. LeaveOK'
    <3> SUFFICES ASSUME undefined' = "no", NEW u \in Threads, job'[u].step = "leave"
                 PROVE  job'[u].session \in members'[job'[u].room]
      BY DEF LeaveOK
    <3>1. u # t /\ job'[u] = job[u]
      BY <2>3
    <3>2. /\ job[u].session \in members[job[u].room] /\ job[u].room \in Rooms
          /\ owner[job[u].session] = u
      BY <2>2, <3>1 DEF RInv, IInv, JobOK, JobOwn, LeaveOK
    <3> QED
      BY <2>1, <2>2, <3>1, <3>2 DEF RInv, IInv, TypeOK
  <2> QED
    BY <2>4, <2>5
<1>8. ASSUME NEW t \in Threads, LeaveRemove(t) \/ Broadcast(t) \/ StartGame(t)
      PROVE  JobOwn' /\ LeaveOK'
  <2>1. Finishes(t) /\ members' = members /\ (undefined' = "no" => undefined = "no")
    BY <1>8 DEF LeaveRemove, Broadcast, StartGame, Undefined
  <2>2. job'[t].step = "idle" /\ \A u \in Threads : u # t => job'[u] = job[u]
    BY <1>2, <2>1, JobAfterFinishes
  <2> QED
    BY <1>2, <2>1, <2>2 DEF RInv, JobOwn, LeaveOK
<1>9. ASSUME UNCHANGED vars PROVE JobOwn' /\ LeaveOK'
  BY <1>9 DEF vars, RInv, JobOwn, LeaveOK
<1>10. ASSUME NEW s \in Sessions, Request(s) PROVE JobOwn' /\ LeaveOK'
  BY <1>3, <1>4, <1>10 DEF Request, JoinRoom, LeaveRoom, BroadcastRoom, GameRequest
<1>11. ASSUME NEW t \in Threads, StepOf(t) PROVE JobOwn' /\ LeaveOK'
  BY <1>6, <1>7, <1>8, <1>11 DEF StepOf
<1>12. JobOwn' /\ LeaveOK'
  BY <1>5, <1>9, <1>10, <1>11 DEF Next
<1> QED
  BY <1>1, <1>12 DEF RInv

-------------------------------------------------------------------------------
(* One lemma for each kind of step of the only thread that works.          *)

LEMMA CreateRoomOInv ==
  ASSUME RInv, OInv, NEW t \in Threads, Alone(t), NEW s \in Sessions, NEW limit \in Maxes,
         CreateRoom(s, limit)
  PROVE  OInv'
<1>1. PICK r \in Rooms, k \in Keys :
        /\ object[r] = "none"
        /\ rooms[k] = None
        /\ rooms' = [rooms EXCEPT ![k] = r]
        /\ object' = [object EXCEPT ![r] = "live"]
        /\ host' = [host EXCEPT ![r] = s]
        /\ Goes(owner[s], "create_enter", s, r)
  BY DEF CreateRoom
<1>2. /\ owner[s] = t
      /\ UNCHANGED <<owner, alive, roomId, members, roomLock, undefined>>
  BY DEF CreateRoom, Alone
<1>3. /\ job'[t] = [step |-> "create_enter", session |-> s, room |-> r]
      /\ \A u \in Threads : u # t => job'[u] = job[u]
  BY <1>1, <1>2, JobAfterGoes DEF RInv, IInv, TypeOK, Steps
<1>4. WorkOK'
  BY <1>1, <1>3 DEF WorkOK, Alone, RInv, IInv, TypeOK
<1>5. RoomIdOK'
  BY <1>1, <1>2 DEF RInv, OInv, IInv, TypeOK, RoomIdOK, NoId
<1>6. HostOK'
  BY <1>1, <1>2 DEF RInv, OInv, IInv, TypeOK, ObjectOK, HostOK
<1> QED
  BY <1>4, <1>5, <1>6 DEF OInv

LEMMA LookupOInv ==
  ASSUME RInv, OInv, NEW t \in Threads, Alone(t), NEW s \in Sessions, NEW k,
         NEW step \in {"join_enter", "leave", "broadcast", "start"}, Lookup(s, k, step),
         step = "leave" => k = roomId[s]
  PROVE  OInv'
<1>1. /\ k \in Keys /\ rooms[k] # None /\ rooms[k] \in Rooms
      /\ owner[s] = t /\ s \in alive
      /\ Goes(t, step, s, rooms[k])
      /\ UNCHANGED <<owner, alive, roomId, rooms, object, id, max, host, members, mgrLock,
                     roomLock, undefined>>
  BY DEF Lookup, Takes, Alone, RInv, IInv, TypeOK
<1>2. /\ job'[t] = [step |-> step, session |-> s, room |-> rooms[k]]
      /\ \A u \in Threads : u # t => job'[u] = job[u]
  BY <1>1, JobAfterGoes DEF RInv, IInv, TypeOK, Steps
<1>3. object[rooms[k]] = "live"
  BY <1>1 DEF RInv, IInv, MapConsistent
<1>4. step = "leave" => s \in members[rooms[k]]
  BY <1>1 DEF OInv, RoomIdOK, Keys, NoId
<1>5. WorkOK'
  BY <1>1, <1>2, <1>3, <1>4 DEF WorkOK, Alone
<1>6. RoomIdOK' /\ HostOK'
  BY <1>1 DEF OInv, RoomIdOK, HostOK
<1> QED
  BY <1>5, <1>6 DEF OInv

(* A session enters an empty room only as the host that has created it:    *)
(* any other empty room is for nobody.                                     *)
LEMMA EnterOInv ==
  ASSUME RInv, OInv, NEW t \in Threads, Alone(t), job[t].step \in {"create_enter", "join_enter"},
         Enter(job[t].room, job[t].session), Finishes(t),
         UNCHANGED <<owner, alive, rooms, object, id, max, host, roomLock>>
  PROVE  OInv'
<1> DEFINE r == job[t].room
           s == job[t].session
<1>1. r \in Rooms /\ s \in Sessions /\ object[r] = "live"
  BY DEF RInv, OInv, IInv, JobOK, WorkOK
<1>2. job[t].step = "create_enter" => host[r] = s
  BY DEF OInv, WorkOK
<1>3. job'[t].step = "idle" /\ \A u \in Threads : u # t => job'[u] = job[u]
  BY JobAfterFinishes DEF RInv, IInv, TypeOK
<1>4. WorkOK'
  BY <1>3 DEF WorkOK, Alone
<1>5. CASE members' = members /\ roomId' = roomId /\ Undefined(Destroyed(r))
  <2>1. RoomIdOK' /\ HostOK'
    BY <1>5 DEF OInv, RoomIdOK, HostOK
  <2> QED
    BY <1>4, <2>1 DEF OInv
<1>6. CASE /\ ~ (Cardinality(members[r]) + 1 > max[r])
           /\ members' = [members EXCEPT ![r] = @ \cup {s}]
           /\ roomId' = [roomId EXCEPT ![s] = id[r]]
           /\ Undefined(Destroyed(r) \/ Dangling(members'[r]))
  <2>1. /\ members' \in [Rooms -> SUBSET Sessions]
        /\ members'[r] = members[r] \cup {s}
        /\ \A q \in Rooms : q # r => members'[q] = members[q]
    BY <1>1, <1>6 DEF RInv, IInv, TypeOK
  <2>2. RoomIdOK'
    <3> SUFFICES ASSUME NEW u \in alive, roomId'[u] # NoId
                 PROVE  rooms[roomId'[u]] # None /\ u \in members'[rooms[roomId'[u]]]
      BY DEF RoomIdOK
    <3>1. u \in Sessions
      BY DEF RInv, IInv, TypeOK
    <3>2. CASE u = s
      BY <1>1, <1>6, <2>1, <3>1, <3>2 DEF RInv, IInv, TypeOK, MapConsistent, Rooms, None
    <3>3. CASE u # s
      <4>1. roomId'[u] = roomId[u]
        BY <1>6, <3>1, <3>3 DEF RInv, IInv, TypeOK
      <4>2. rooms[roomId[u]] # None /\ u \in members[rooms[roomId[u]]]
        BY <4>1 DEF OInv, RoomIdOK
      <4>3. rooms[roomId[u]] \in Rooms
        BY <3>1, <4>1, <4>2 DEF RInv, IInv, TypeOK
      <4> QED
        BY <2>1, <4>1, <4>2, <4>3
    <3> QED
      BY <3>2, <3>3
  <2>3. members[r] # {} \/ host[r] = s
    <3> SUFFICES ASSUME members[r] = {}, job[t].step = "join_enter" PROVE FALSE
      BY <1>2
    <3>1. max[r] \in Nat /\ Cardinality({}) = 0
      <4>1. max \in [Rooms -> Maxes \cup {0}]
        BY DEF RInv, IInv, TypeOK
      <4>2. Maxes \cup {0} \subseteq Nat
        BY LobbyAssumption DEF LobbyAssumption
      <4> QED
        BY <1>1, <4>1, <4>2, FS_EmptySet
    <3>2. max[r] > 0
      BY <1>6, <3>1
    <3>3. PICK u \in Threads : job[u].step \in {"create_enter", "leave_remove"}
      BY <1>1, <3>2 DEF RInv, IInv, EmptyRoomIsTransient
    <3> QED
      BY <3>3 DEF Alone
  <2>4. HostOK'
    <3> SUFFICES ASSUME NEW q \in Rooms, object[q] = "live", members'[q] # {}
                 PROVE  host[q] \in members'[q]
      BY DEF HostOK
    <3> QED
      BY <2>1, <2>3 DEF OInv, HostOK
  <2> QED
    BY <1>4, <2>2, <2>4 DEF OInv
<1> QED
  BY <1>5, <1>6 DEF Enter

LEMMA LeaveEraseOInv ==
  ASSUME RInv, OInv, NEW t \in Threads, Alone(t), LeaveErase(t)
  PROVE  OInv'
<1> DEFINE r == job[t].room
           s == job[t].session
<1>1. /\ r \in Rooms /\ s \in Sessions /\ object[r] = "live"
      /\ s \in members[r]
  BY DEF RInv, OInv, IInv, JobOK, WorkOK, LeaveErase, Does
<1>2. /\ members' = [members EXCEPT ![r] = @ \ {s}]
      /\ roomId' = [roomId EXCEPT ![s] = NoId]
      /\ UNCHANGED <<owner, alive, rooms, object, id, max, mgrLock>>
  BY DEF LeaveErase
<1>3. \/ /\ members'[r] = {}
         /\ Goes(t, "leave_remove", s, r)
         /\ host' = host
      \/ /\ members'[r] # {}
         /\ \E h \in IF s = host[r] THEN members'[r] ELSE {host[r]} : host' = [host EXCEPT ![r] = h]
         /\ Finishes(t)
  BY DEF LeaveErase
<1> HIDE DEF r, s
<1>4. /\ members' \in [Rooms -> SUBSET Sessions]
      /\ members'[r] = members[r] \ {s}
      /\ \A q \in Rooms : q # r => members'[q] = members[q]
  BY <1>1, <1>2 DEF RInv, IInv, TypeOK
<1>5. WorkOK'
  <2>1. job \in [Threads -> Jobs] /\ "leave_remove" \in Steps
    BY DEF RInv, IInv, TypeOK, Steps
  <2>2. /\ \A u \in Threads : u # t => job'[u] = job[u]
        /\ job'[t].step = "idle" \/ (job'[t].step = "leave_remove" /\ job'[t].room = r)
    <3>1. CASE Goes(t, "leave_remove", s, r)
      <4>1. /\ job'[t] = [step |-> "leave_remove", session |-> s, room |-> r]
            /\ \A u \in Threads : u # t => job'[u] = job[u]
        BY <1>1, <2>1, <3>1, JobAfterGoes
      <4> QED
        BY <4>1
    <3>2. CASE Finishes(t)
      BY <2>1, <3>2, JobAfterFinishes
    <3> QED
      BY <1>3, <3>1, <3>2
  <2> QED
    BY <1>1, <1>2, <2>2 DEF WorkOK, Alone
<1>6. RoomIdOK'
  <2> SUFFICES ASSUME NEW u \in alive, roomId'[u] # NoId
               PROVE  rooms[roomId'[u]] # None /\ u \in members'[rooms[roomId'[u]]]
    BY <1>2 DEF RoomIdOK
  <2>1. u \in Sessions /\ u # s /\ roomId'[u] = roomId[u]
    BY <1>1, <1>2 DEF RInv, IInv, TypeOK
  <2>2. rooms[roomId[u]] # None /\ u \in members[rooms[roomId[u]]]
    BY <2>1 DEF OInv, RoomIdOK
  <2>3. rooms[roomId[u]] \in Rooms
    BY <2>1, <2>2 DEF RInv, IInv, TypeOK
  <2> QED
    BY <1>4, <2>1, <2>2, <2>3
<1>7. HostOK'
  <2> SUFFICES ASSUME NEW q \in Rooms, object[q] = "live", members'[q] # {}
               PROVE  host'[q] \in members'[q]
    BY <1>2 DEF HostOK
  <2>1. CASE q # r
    <3>1. host'[q] = host[q]
      BY <1>3, <2>1 DEF RInv, IInv, TypeOK
    <3> QED
      BY <1>4, <2>1, <3>1 DEF OInv, HostOK
  <2>2. CASE q = r
    <3>1. PICK h \in IF s = host[r] THEN members'[r] ELSE {host[r]} : host' = [host EXCEPT ![r] = h]
      BY <1>3, <2>2
    <3>2. host'[r] = h
      BY <1>1, <3>1 DEF RInv, IInv, TypeOK
    <3>3. host[r] \in members[r]
      BY <1>1 DEF OInv, HostOK
    <3> QED
      BY <1>4, <2>2, <3>1, <3>2, <3>3
  <2> QED
    BY <2>1, <2>2
<1> QED
  BY <1>5, <1>6, <1>7 DEF OInv

(* The room that is destroyed is the one that was left: it has no members, *)
(* and no session has its id.                                              *)
LEMMA LeaveRemoveOInv ==
  ASSUME RInv, OInv, NEW t \in Threads, Alone(t), LeaveRemove(t)
  PROVE  OInv'
<1> DEFINE r == job[t].room
           k == id[r]
<1>1. /\ r \in Rooms /\ object[r] = "live" /\ members[r] = {}
      /\ k \in Keys /\ rooms[k] = r
  BY DEF RInv, OInv, IInv, JobOK, WorkOK, RemoveOK, ObjectOK, MapConsistent, LeaveRemove, Does
<1>2. /\ rooms' = [rooms EXCEPT ![k] = None]
      /\ object' = [q \in Rooms |-> IF q = rooms[k] THEN "destroyed" ELSE object[q]]
      /\ Finishes(t)
      /\ UNCHANGED <<owner, alive, roomId, id, max, host, members, mgrLock, undefined>>
  BY DEF LeaveRemove
<1> HIDE DEF r, k
<1>3. WorkOK'
  BY <1>2, JobAfterFinishes DEF RInv, IInv, TypeOK, WorkOK, Alone
<1>4. RoomIdOK'
  <2> SUFFICES ASSUME NEW u \in alive, roomId[u] # NoId
               PROVE  rooms'[roomId[u]] # None /\ u \in members[rooms'[roomId[u]]]
    BY <1>2 DEF RoomIdOK
  <2>1. rooms[roomId[u]] # None /\ u \in members[rooms[roomId[u]]]
    BY DEF OInv, RoomIdOK
  <2>2. roomId[u] # k
    BY <1>1, <2>1
  <2> QED
    BY <1>1, <1>2, <2>1, <2>2 DEF RInv, IInv, TypeOK
<1>5. HostOK'
  BY <1>2 DEF OInv, HostOK
<1> QED
  BY <1>3, <1>4, <1>5 DEF OInv

(* Broadcast and StartGame only read the lobby. *)
LEMMA ReadOInv ==
  ASSUME RInv, OInv, NEW t \in Threads, Alone(t), Finishes(t),
         UNCHANGED <<owner, alive, roomId, rooms, object, id, max, host, members, mgrLock, roomLock>>
  PROVE  OInv'
<1>1. WorkOK'
  BY JobAfterFinishes DEF RInv, IInv, TypeOK, WorkOK, Alone
<1>2. RoomIdOK' /\ HostOK'
  BY DEF OInv, RoomIdOK, HostOK
<1> QED
  BY <1>1, <1>2 DEF OInv

(* The thread is idle: no handler is at work for the session that goes. *)
LEMMA DisconnectOInv ==
  ASSUME RInv, OInv, NEW s \in Sessions, Disconnect(s)
  PROVE  OInv'
<1>1. /\ alive' \subseteq alive
      /\ UNCHANGED <<owner, roomId, rooms, object, id, max, host, members, mgrLock, roomLock, job,
                     undefined>>
  BY DEF Disconnect
<1> QED
  BY <1>1 DEF OInv, WorkOK, RoomIdOK, HostOK

LEMMA NextSInv ==
  ASSUME SInv, [Next]_vars
  PROVE  SInv'
<1>1. RInv /\ RInv'
  BY NextRInv DEF SInv
<1> SUFFICES ASSUME OneWorker' PROVE OInv'
  BY <1>1 DEF SInv
<1>2. OneWorker /\ OInv
  BY OwnerKept DEF OneWorker, SInv
<1>3. PICK t \in Threads : Alone(t)
  BY <1>1, <1>2, OneIsAlone
<1>4. ASSUME NEW s \in Sessions, Request(s) PROVE OInv'
  <2>1. ASSUME NEW limit \in Maxes, CreateRoom(s, limit) PROVE OInv'
    BY <1>1, <1>2, <1>3, <2>1, CreateRoomOInv
  <2>2. ASSUME NEW k, NEW step \in {"join_enter", "leave", "broadcast", "start"}, Lookup(s, k, step),
               step = "leave" => k = roomId[s]
        PROVE  OInv'
    BY <1>1, <1>2, <1>3, <2>2, LookupOInv
  <2> QED
    BY <1>4, <2>1, <2>2 DEF Request, JoinRoom, LeaveRoom, BroadcastRoom, GameRequest
<1>5. ASSUME NEW s \in Sessions, Disconnect(s) PROVE OInv'
  BY <1>1, <1>2, <1>5, DisconnectOInv
<1>6. ASSUME NEW u \in Threads, StepOf(u) PROVE OInv'
  <2>1. u = t
    BY <1>3, <1>6 DEF Alone, StepOf, CreateEnter, JoinEnter, LeaveErase, LeaveRemove, Broadcast,
                      StartGame, Does
  <2>2. CASE CreateEnter(t)
    BY <1>1, <1>2, <1>3, <2>2, EnterOInv DEF CreateEnter, Does
  <2>3. CASE JoinEnter(t)
    BY <1>1, <1>2, <1>3, <2>3, EnterOInv DEF JoinEnter, Does
  <2>4. CASE LeaveErase(t)
    BY <1>1, <1>2, <1>3, <2>4, LeaveEraseOInv
  <2>5. CASE LeaveRemove(t)
    BY <1>1, <1>2, <1>3, <2>5, LeaveRemoveOInv
  <2>6. CASE Broadcast(t) \/ StartGame(t)
    BY <1>1, <1>2, <1>3, <2>6, ReadOInv DEF Broadcast, StartGame
  <2> QED
    BY <1>6, <2>1, <2>2, <2>3, <2>4, <2>5, <2>6 DEF StepOf
<1>7. ASSUME UNCHANGED vars PROVE OInv'
  BY <1>2, <1>7 DEF vars, OInv, WorkOK, RoomIdOK, HostOK
<1> QED
  BY <1>4, <1>5, <1>6, <1>7 DEF Next

-------------------------------------------------------------------------------
(* The strengthened invariant holds in every reachable state of the lobby. *)
THEOREM RoomInvariance == Safety => []SInv
<1>1. Init => SInv
  BY InitSInv
<1>2. SInv /\ [Next]_vars => SInv'
  BY NextSInv
<1> QED
  BY <1>1, <1>2, PTL DEF Safety

(* With all sessions on one worker, info.hostId names a member of every    *)
(* room that has any: over leaves of the host, joins of a second room and  *)
(* sessions that vanish.                                                   *)
THEOREM HostPresent == Safety => []HostIsMember
<1>1. SInv => HostIsMember
  BY DEF SInv, OInv, HostOK, HostIsMember
<1> QED
  BY <1>1, RoomInvariance, PTL

-------------------------------------------------------------------------------
(* The abstract phase of a room, which only three kinds of steps change.   *)
Phase(q) == IF object[q] = "none" THEN "none" ELSE IF Emptied(q) THEN "gone" ELSE "open"
Phases   == [q \in Rooms |-> Phase(q)]

(* Before and after a step that neither registers nor empties nor removes  *)
(* a room.                                                                 *)
LEMMA PhasesKept ==
  ASSUME NEW t \in Threads, object' = object, \A u \in Threads : u # t => job'[u] = job[u],
         job[t].step # "leave_remove", job'[t].step # "leave_remove"
  PROVE  Phases' = Phases
<1>1. ASSUME NEW q \in Rooms PROVE Emptied(q)' <=> Emptied(q)
  BY DEF Emptied, Destroyed
<1>2. ASSUME NEW q \in Rooms PROVE Phase(q)' = Phase(q)
  BY <1>1 DEF Phase
<1> QED
  BY <1>2 DEF Phases

(* A thread that is about to remove a room has it locked: a room that      *)
(* exists and is not locked is open.                                       *)
LEMMA UnlockedIsOpen ==
  ASSUME RInv, NEW r \in Rooms, object[r] = "live", roomLock[r] = None
  PROVE  Phases[r] = "open"
<1>1. ~ Emptied(r)
  BY LobbyAssumption DEF RInv, IInv, RemoveOK, Emptied, Destroyed, LobbyAssumption, None
<1> QED
  BY <1>1 DEF Phases, Phase

LEMMA CreateRoomOpens ==
  ASSUME SInv, NEW s \in Sessions, NEW limit \in Maxes, CreateRoom(s, limit)
  PROVE  \E r \in Rooms : /\ Phases[r] = "none"
                         /\ Phases' = [Phases EXCEPT ![r] = "open"]
                         /\ max' = [max EXCEPT ![r] = limit]
                         /\ UNCHANGED members
<1>1. PICK r \in Rooms :
        /\ object[r] = "none"
        /\ object' = [object EXCEPT ![r] = "live"]
        /\ max' = [max EXCEPT ![r] = limit]
        /\ Goes(owner[s], "create_enter", s, r)
  BY DEF CreateRoom
<1>2. /\ owner[s] \in Threads /\ job[owner[s]].step = "idle" /\ members' = members
      /\ job \in [Threads -> Jobs] /\ "create_enter" \in Steps
  BY DEF CreateRoom, Takes, SInv, RInv, IInv, TypeOK, Steps
<1>3. /\ job'[owner[s]] = [step |-> "create_enter", session |-> s, room |-> r]
      /\ \A u \in Threads : u # owner[s] => job'[u] = job[u]
  BY <1>1, <1>2, JobAfterGoes
<1>4. \A u \in Threads : job'[u].step = "leave_remove" <=> job[u].step = "leave_remove"
  BY <1>2, <1>3
<1>5. \A u \in Threads : job[u].step = "leave_remove" => job'[u] = job[u] /\ job[u].room # r
  BY <1>1, <1>2, <1>3 DEF SInv, RInv, IInv, JobOK
<1>6. ASSUME NEW q \in Rooms
      PROVE  Phase(q)' = IF q = r THEN "open" ELSE Phase(q)
  <2>1. CASE q = r
    <3>1. object'[r] = "live" /\ ~ Emptied(r)'
      BY <1>1, <1>4, <1>5 DEF Emptied, Destroyed, SInv, RInv, IInv, TypeOK
    <3> QED
      BY <2>1, <3>1 DEF Phase
  <2>2. CASE q # r
    <3>1. object'[q] = object[q]
      BY <1>1, <2>2 DEF SInv, RInv, IInv, TypeOK
    <3>2. Emptied(q)' <=> Emptied(q)
      BY <1>4, <1>5, <3>1 DEF Emptied, Destroyed
    <3> QED
      BY <2>2, <3>1, <3>2 DEF Phase
  <2> QED
    BY <2>1, <2>2
<1>7. Phases[r] = "none" /\ Phases' = [Phases EXCEPT ![r] = "open"]
  BY <1>1, <1>6 DEF Phases, Phase
<1> QED
  BY <1>1, <1>2, <1>7

(* A step on a room that was destroyed is undefined, and on one worker the *)
(* room is there.                                                          *)
LEMMA RoomIsThere ==
  ASSUME SInv, NEW t \in Threads, job[t].step # "idle",
         (undefined' = "no" /\ ~ Destroyed(job[t].room)) \/ OneWorker
  PROVE  /\ job[t].room \in Rooms /\ job[t].session \in Sessions
         /\ object[job[t].room] = "live"
BY DEF SInv, RInv, OInv, IInv, TypeOK, JobOK, WorkOK, Destroyed

LEMMA EnterEnters ==
  ASSUME SInv, NEW t \in Threads, job[t].step \in {"create_enter", "join_enter"},
         roomLock[job[t].room] = None, Enter(job[t].room, job[t].session), Finishes(t),
         UNCHANGED <<object, max>>, undefined' = "no" \/ OneWorker
  PROVE  /\ UNCHANGED <<Phases, max>>
         /\ \/ UNCHANGED members
            \/ \E r \in Rooms, s \in Sessions :
                 /\ Phases[r] = "open"
                 /\ Cardinality(members[r]) < max[r]
                 /\ members' = [members EXCEPT ![r] = @ \cup {s}]
<1> DEFINE r == job[t].room
           s == job[t].session
<1>1. r \in Rooms /\ s \in Sessions /\ object[r] = "live"
  <2>1. undefined' = "no" => ~ Destroyed(r)
    BY DEF Enter, Undefined
  <2> QED
    BY <2>1, RoomIsThere
<1>2. job'[t].step = "idle" /\ \A u \in Threads : u # t => job'[u] = job[u]
  BY JobAfterFinishes DEF SInv, RInv, IInv, TypeOK
<1>3. Phases' = Phases
  BY <1>2, PhasesKept
<1>4. Phases[r] = "open"
  BY <1>1, UnlockedIsOpen DEF SInv
<1>5. CASE members' = members
  BY <1>3, <1>5
<1>6. CASE /\ ~ (Cardinality(members[r]) + 1 > max[r])
           /\ members' = [members EXCEPT ![r] = @ \cup {s}]
  <2>1. Cardinality(members[r]) \in Nat
    <3>1. IsFiniteSet(members[r])
      BY <1>1 DEF SInv, RInv, IInv, ObjectOK
    <3> QED
      BY ONLY <3>1, FS_CardinalityType, Zenon
  <2>2. max[r] \in Nat
    <3>1. max \in [Rooms -> Maxes \cup {0}]
      BY DEF SInv, RInv, IInv, TypeOK
    <3>2. Maxes \cup {0} \subseteq Nat
      BY LobbyAssumption DEF LobbyAssumption
    <3> QED
      BY <1>1, <3>1, <3>2
  <2>3. Cardinality(members[r]) < max[r]
    BY <1>6, <2>1, <2>2
  <2> QED
    BY <1>1, <1>3, <1>4, <1>6, <2>3
<1> QED
  BY <1>5, <1>6 DEF Enter

LEMMA LeaveEraseLeaves ==
  ASSUME SInv, NEW t \in Threads, LeaveErase(t), undefined' = "no" \/ OneWorker
  PROVE  \E r \in Rooms, s \in Sessions :
           /\ Phases[r] = "open"
           /\ s \in members[r]
           /\ members' = [members EXCEPT ![r] = @ \ {s}]
           /\ Phases' = IF members[r] = {s} THEN [Phases EXCEPT ![r] = "gone"] ELSE Phases
           /\ UNCHANGED max
<1> DEFINE r == job[t].room
           s == job[t].session
<1>1. /\ r \in Rooms /\ s \in Sessions /\ object[r] = "live"
      /\ s \in members[r] /\ job[t].step = "leave"
  <2>1. job[t].step = "leave" /\ (undefined' = "no" => undefined = "no" /\ ~ Destroyed(r))
    BY DEF LeaveErase, Does, Undefined
  <2>2. s \in members[r]
    BY <2>1 DEF SInv, RInv, OInv, LeaveOK, WorkOK
  <2> QED
    BY <2>1, <2>2, RoomIsThere
<1>2. roomLock[r] = None /\ members' = [members EXCEPT ![r] = @ \ {s}] /\ UNCHANGED <<object, max>>
  BY DEF LeaveErase
<1>3. \/ members'[r] = {} /\ Goes(t, "leave_remove", s, r)
      \/ members'[r] # {} /\ Finishes(t)
  BY DEF LeaveErase
<1> HIDE DEF r, s
<1>4. members'[r] = members[r] \ {s}
  BY <1>1, <1>2 DEF SInv, RInv, IInv, TypeOK
<1>5. Phases[r] = "open"
  BY <1>1, <1>2, UnlockedIsOpen DEF SInv
<1>6. job \in [Threads -> Jobs] /\ "leave_remove" \in Steps
  BY DEF SInv, RInv, IInv, TypeOK, Steps
<1>7. CASE members'[r] = {} /\ Goes(t, "leave_remove", s, r)
  <2>1. /\ job'[t] = [step |-> "leave_remove", session |-> s, room |-> r]
        /\ \A u \in Threads : u # t => job'[u] = job[u]
    BY <1>1, <1>6, <1>7, JobAfterGoes
  <2>2. ASSUME NEW q \in Rooms
        PROVE  Phase(q)' = IF q = r THEN "gone" ELSE Phase(q)
    <3>1. Emptied(q)' <=> q = r \/ Emptied(q)
      BY <1>1, <1>2, <2>1 DEF Emptied, Destroyed
    <3> QED
      BY <1>1, <1>2, <3>1 DEF Phase
  <2>3. Phases' = [Phases EXCEPT ![r] = "gone"]
    BY <2>2 DEF Phases
  <2>4. members[r] = {s}
    BY <1>1, <1>4, <1>7
  <2> QED
    BY <1>1, <1>2, <1>5, <2>3, <2>4
<1>8. CASE members'[r] # {} /\ Finishes(t)
  <2>1. job'[t].step = "idle" /\ \A u \in Threads : u # t => job'[u] = job[u]
    BY <1>6, <1>8, JobAfterFinishes
  <2>2. Phases' = Phases
    BY <1>1, <1>2, <2>1, PhasesKept
  <2>3. members[r] # {s}
    BY <1>4, <1>8
  <2> QED
    BY <1>1, <1>2, <1>5, <2>2, <2>3
<1> QED
  BY <1>3, <1>7, <1>8

(* The room that is removed is the one that was left, and was gone. *)
LEMMA LeaveRemoveStutters ==
  ASSUME SInv, NEW t \in Threads, LeaveRemove(t), undefined' = "no" \/ OneWorker
  PROVE  UNCHANGED <<Phases, max, members>>
<1> DEFINE r == job[t].room
           k == id[r]
<1>1. /\ r \in Rooms /\ object[r] = "live" /\ rooms[k] = r /\ job[t].step = "leave_remove"
  <2>1. job[t].step = "leave_remove" /\ undefined' = undefined
    BY DEF LeaveRemove, Does
  <2>2. undefined = "no" => ~ Destroyed(r)
    BY <2>1 DEF SInv, RInv, IInv, RemoveOK, Destroyed
  <2>3. r \in Rooms /\ object[r] = "live"
    BY <2>1, <2>2, RoomIsThere
  <2> QED
    BY <2>1, <2>3 DEF SInv, RInv, IInv, MapConsistent
<1>2. /\ object' = [q \in Rooms |-> IF q = rooms[k] THEN "destroyed" ELSE object[q]]
      /\ Finishes(t)
      /\ UNCHANGED <<max, members>>
  BY DEF LeaveRemove
<1>3. job'[t].step = "idle" /\ \A u \in Threads : u # t => job'[u] = job[u]
  BY <1>2, JobAfterFinishes DEF SInv, RInv, IInv, TypeOK
<1>4. ASSUME NEW q \in Rooms PROVE Phase(q)' = Phase(q)
  <2>1. CASE q = r
    <3>1. object[q] = "live" /\ object'[q] = "destroyed"
      BY <1>1, <1>2, <2>1
    <3>2. Emptied(q) /\ Emptied(q)'
      BY <1>1, <2>1, <3>1 DEF Emptied, Destroyed
    <3> QED
      BY <3>1, <3>2 DEF Phase
  <2>2. CASE q # r
    <3>1. object'[q] = object[q]
      BY <1>1, <1>2, <2>2
    <3>2. Emptied(q)' <=> Emptied(q)
      BY <1>3, <2>2, <3>1 DEF Emptied, Destroyed
    <3> QED
      BY <3>1, <3>2 DEF Phase
  <2> QED
    BY <2>1, <2>2
<1> QED
  BY <1>2, <1>4 DEF Phases

(* Until something undefined has happened, and with all sessions on one    *)
(* worker for ever, every step of the lobby is one of the abstract set of  *)
(* rooms, or changes nothing of it.                                        *)
THEOREM Refinement == Safety => ImplementsRoomSet
<1>1. Init => Abstract!Init
  BY DEF Init, Abstract!Init
<1>2. SInv /\ [Next]_vars => [undefined' = "no" \/ OneWorker => Abstract!Next]_(Abstract!vars)
  <2> SUFFICES ASSUME SInv, [Next]_vars, undefined' = "no" \/ OneWorker
               PROVE  Abstract!Next \/ UNCHANGED Abstract!vars
    OBVIOUS
  <2>1. Abstract!vars = <<Phases, max, members>>
    BY DEF Abstract!vars, Phases, Phase
  <2>2. (Abstract!vars)' = <<Phases', max', members'>>
    BY DEF Abstract!vars, Phases, Phase
  <2>3. job \in [Threads -> Jobs]
    BY DEF SInv, RInv, IInv, TypeOK
  <2>4. ASSUME NEW s \in Sessions, NEW limit \in Maxes, CreateRoom(s, limit) PROVE Abstract!Next
    <3>1. PICK r \in Rooms : /\ Phases[r] = "none"
                            /\ Phases' = [Phases EXCEPT ![r] = "open"]
                            /\ max' = [max EXCEPT ![r] = limit]
                            /\ UNCHANGED members
      BY <2>4, CreateRoomOpens
    <3>2. Abstract!Open(r, limit)
      BY <3>1 DEF Abstract!Open, Phases, Phase
    <3> QED
      BY <2>4, <3>2 DEF Abstract!Next
  <2>5. ASSUME NEW s \in Sessions, NEW k, NEW step \in {"join_enter", "leave", "broadcast", "start"},
               Lookup(s, k, step)
        PROVE  UNCHANGED Abstract!vars
    <3>1. /\ owner[s] \in Threads /\ job[owner[s]].step = "idle"
          /\ k \in Keys /\ rooms[k] \in Rooms /\ step \in Steps
          /\ Goes(owner[s], step, s, rooms[k])
          /\ UNCHANGED <<object, max, members>>
      BY <2>5 DEF Lookup, Takes, SInv, RInv, IInv, TypeOK, Steps
    <3>2. /\ job'[owner[s]] = [step |-> step, session |-> s, room |-> rooms[k]]
          /\ \A u \in Threads : u # owner[s] => job'[u] = job[u]
      BY <2>3, <3>1, JobAfterGoes
    <3>3. Phases' = Phases
      <4>1. job'[owner[s]].step # "leave_remove"
        BY <3>2
      <4> QED
        BY <3>1, <3>2, <4>1, PhasesKept
    <3> QED
      BY <2>1, <2>2, <3>1, <3>3
  <2>6. ASSUME NEW s \in Sessions, Disconnect(s) PROVE UNCHANGED Abstract!vars
    <3>1. UNCHANGED <<object, job, max, members>>
      BY <2>6 DEF Disconnect
    <3>2. Phases' = Phases
      BY <3>1 DEF Phases, Phase, Emptied, Destroyed
    <3> QED
      BY <2>1, <2>2, <3>1, <3>2
  <2>7. ASSUME NEW t \in Threads, CreateEnter(t) \/ JoinEnter(t)
        PROVE  Abstract!Next \/ UNCHANGED Abstract!vars
    <3>1. /\ UNCHANGED <<Phases, max>>
          /\ \/ UNCHANGED members
             \/ \E r \in Rooms, s \in Sessions :
                  /\ Phases[r] = "open"
                  /\ Cardinality(members[r]) < max[r]
                  /\ members' = [members EXCEPT ![r] = @ \cup {s}]
      BY <2>7, EnterEnters DEF CreateEnter, JoinEnter, Does
    <3>2. CASE UNCHANGED members
      BY <2>1, <2>2, <3>1, <3>2
    <3>3. CASE \E r \in Rooms, s \in Sessions :
                 /\ Phases[r] = "open"
                 /\ Cardinality(members[r]) < max[r]
                 /\ members' = [members EXCEPT ![r] = @ \cup {s}]
      <4>1. PICK r \in Rooms, s \in Sessions :
                 /\ Phases[r] = "open"
                 /\ Cardinality(members[r]) < max[r]
                 /\ members' = [members EXCEPT ![r] = @ \cup {s}]
        BY <3>3
      <4>2. Abstract!Cardinality(members[r]) = Cardinality(members[r])
        BY DEF Abstract!Cardinality, Cardinality
      <4>3. Abstract!Enter(r, s)
        BY <3>1, <4>1, <4>2 DEF Abstract!Enter, Phases, Phase
      <4> QED
        BY <4>3 DEF Abstract!Next
    <3> QED
      BY <3>1, <3>2, <3>3
  <2>8. ASSUME NEW t \in Threads, LeaveErase(t) PROVE Abstract!Next
    BY <2>8, LeaveEraseLeaves DEF Abstract!Next, Abstract!Leave, Phases, Phase
  <2>9. ASSUME NEW t \in Threads, LeaveRemove(t) PROVE UNCHANGED Abstract!vars
    BY <2>1, <2>2, <2>9, LeaveRemoveStutters
  <2>10. ASSUME NEW t \in Threads, Broadcast(t) \/ StartGame(t) PROVE UNCHANGED Abstract!vars
    <3>1. job[t].step \in {"broadcast", "start"} /\ Finishes(t) /\ UNCHANGED <<object, max, members>>
      BY <2>10 DEF Broadcast, StartGame, Does
    <3>2. job'[t].step = "idle" /\ \A u \in Threads : u # t => job'[u] = job[u]
      BY <2>3, <3>1, JobAfterFinishes
    <3>3. Phases' = Phases
      BY <3>1, <3>2, PhasesKept
    <3> QED
      BY <2>1, <2>2, <3>1, <3>3
  <2>11. CASE UNCHANGED vars
    BY <2>11 DEF vars, Abstract!vars, Emptied, Destroyed
  <2>12. ASSUME NEW s \in Sessions, Request(s) PROVE Abstract!Next \/ UNCHANGED Abstract!vars
    BY <2>4, <2>5, <2>12 DEF Request, JoinRoom, LeaveRoom, BroadcastRoom, GameRequest
  <2>13. ASSUME NEW t \in Threads, StepOf(t) PROVE Abstract!Next \/ UNCHANGED Abstract!vars
    BY <2>7, <2>8, <2>9, <2>10, <2>13 DEF StepOf
  <2> QED
    BY <2>6, <2>11, <2>12, <2>13 DEF Next
<1> QED
  BY <1>1, <1>2, RoomInvariance, PTL DEF Safety, ImplementsRoomSet
===============================================================================
