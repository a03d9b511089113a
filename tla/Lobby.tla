--------------------------------- MODULE Lobby ---------------------------------
(***************************************************************************)
(* The lobby: RoomManager's map of rooms, the rooms, and the handlers of   *)
(* PacketHandler that work on them.  A handler runs on the thread of the   *)
(* worker that owns the session whose packet it handles, so handlers of    *)
(* sessions of different workers interleave.                               *)
(*                                                                         *)
(* A handler is cut into steps where it releases or waits for a lock:      *)
(*   CreateRoom  takes RoomManager's lock, registers a room, and holds the *)
(*               lock while it waits for the room's lock in Enter;         *)
(*   GetRoom     looks the room up without a lock; the pointer it returns  *)
(*               is used in a later step;                                  *)
(*   Leave       holds the room's lock while it waits for RoomManager's    *)
(*               lock to remove the room its last member has left.         *)
(* What a step does to a room that was destroyed, or through the pointer   *)
(* of a session that was destroyed, is undefined: the process crashes, or  *)
(* the step works on the memory as it was left.                            *)
(***************************************************************************)
EXTENDS Integers, FiniteSets

CONSTANTS
  Threads,      \* worker threads
  Sessions,     \* connected, logged in sessions; a session stands for its user
  Maxes,        \* values of max_player_count that clients ask for
  MaxRooms,     \* bound: rooms created in a behaviour
  MaxVanished   \* bound: sessions that disconnect in a behaviour

ASSUME LobbyAssumption ==
  /\ Maxes \subseteq Nat
  /\ MaxRooms \in Nat
  /\ MaxVanished \in Nat
  /\ 0 \notin Threads              \* it stands for no thread

Rooms == 1 .. MaxRooms          \* Room objects, in order of creation
None  == 0                      \* no room, no thread
Keys  == 0 .. MaxRooms - 1      \* keys CreateRoom can find
NoId  == -1                     \* _room_id outside rooms
Steps == {"idle", "create_enter", "join_enter", "leave", "leave_remove", "broadcast", "start"}

VARIABLES
  owner,        \* the thread of the worker a session was given to
  alive,        \* the Session objects that exist
  roomId,       \* Session::_room_id
  rooms,        \* RoomManager::_rooms: key -> Room
  object,       \* life of a Room: "none", "live", "destroyed"
  id,           \* info.id
  max,          \* info.max_player_count
  host,         \* info.hostId
  members,      \* Room::_sessions
  mgrLock,      \* holder of RoomManager::_mutex
  roomLock,     \* holder of Room::_mutex
  job,          \* what each thread does next
  undefined     \* "no"; "survived" or "crashed" after undefined behaviour

vars == <<owner, alive, roomId, rooms, object, id, max, host, members, mgrLock, roomLock,
          job, undefined>>

Jobs == [step : Steps, session : Sessions \cup {None}, room : Rooms \cup {None}]
Idle == [step |-> "idle", session |-> None, room |-> None]

TypeOK ==
  /\ owner \in [Sessions -> Threads]
  /\ alive \subseteq Sessions
  /\ roomId \in [Sessions -> Keys \cup {NoId}]
  /\ rooms \in [Keys -> Rooms \cup {None}]
  /\ object \in [Rooms -> {"none", "live", "destroyed"}]
  /\ id \in [Rooms -> Keys \cup {NoId}]
  /\ max \in [Rooms -> Maxes \cup {0}]
  /\ host \in [Rooms -> Sessions \cup {None}]
  /\ members \in [Rooms -> SUBSET Sessions]
  /\ mgrLock \in Threads \cup {None}
  /\ roomLock \in [Rooms -> Threads \cup {None}]
  /\ job \in [Threads -> Jobs]
  /\ undefined \in {"no", "survived", "crashed"}

Init ==
  /\ owner \in [Sessions -> Threads]
  /\ alive = Sessions
  /\ roomId = [s \in Sessions |-> NoId]
  /\ rooms = [k \in Keys |-> None]
  /\ object = [r \in Rooms |-> "none"]
  /\ id = [r \in Rooms |-> NoId]
  /\ max = [r \in Rooms |-> 0]
  /\ host = [r \in Rooms |-> None]
  /\ members = [r \in Rooms |-> {}]
  /\ mgrLock = None
  /\ roomLock = [r \in Rooms |-> None]
  /\ job = [t \in Threads |-> Idle]
  /\ undefined = "no"

-------------------------------------------------------------------------------
Up == undefined # "crashed"

(* Some step is undefined when condition holds. *)
Undefined(condition) ==
  undefined' \in IF condition THEN {"survived", "crashed"} ELSE {undefined}

Destroyed(r) == object[r] = "destroyed"

(* The room reads the user ids of these sessions, or sends to them. *)
Dangling(ss) == ~ (ss \subseteq alive)

(* The thread of session s takes its next packet. *)
Takes(s) == Up /\ s \in alive /\ job[owner[s]].step = "idle"

Does(t, step) == Up /\ job[t].step = step
Goes(t, step, s, r) == job' = [job EXCEPT ![t] = [step |-> step, session |-> s, room |-> r]]
Finishes(t) == job' = [job EXCEPT ![t] = Idle]

-------------------------------------------------------------------------------
(* Operators named Faulty... are variants of the operator that follows them *)
(* with a plausible defect; no specification uses them.                    *)

FaultyEnterLimit(r, s) ==    \* the session that enters is not counted
  IF Cardinality(members[r]) > max[r]
  THEN /\ Undefined(Destroyed(r))
       /\ UNCHANGED <<members, roomId>>
  ELSE /\ members' = [members EXCEPT ![r] = @ \cup {s}]
       /\ roomId' = [roomId EXCEPT ![s] = id[r]]
       /\ Undefined(Destroyed(r) \/ Dangling(members'[r]))

FaultyEnterId(r, s) ==    \* the session remembers a number counted from one
  IF Cardinality(members[r]) + 1 > max[r]
  THEN /\ Undefined(Destroyed(r))
       /\ UNCHANGED <<members, roomId>>
  ELSE /\ members' = [members EXCEPT ![r] = @ \cup {s}]
       /\ roomId' = [roomId EXCEPT ![s] = id[r] + 1]
       /\ Undefined(Destroyed(r) \/ Dangling(members'[r]))

(* Room::Enter for session s, under the room's lock. *)
Enter(r, s) ==
  IF Cardinality(members[r]) + 1 > max[r]
  THEN /\ Undefined(Destroyed(r))
       /\ UNCHANGED <<members, roomId>>
  ELSE /\ members' = [members EXCEPT ![r] = @ \cup {s}]
       /\ roomId' = [roomId EXCEPT ![s] = id[r]]
       /\ Undefined(Destroyed(r) \/ Dangling(members'[r]))

FaultyCreateRoom(s, limit) ==    \* the number of rooms is taken as a free key
  /\ Takes(s)
  /\ mgrLock = None
  /\ \E r \in Rooms, k \in Keys :
       /\ object[r] = "none" /\ \A q \in Rooms : q < r => object[q] # "none"
       /\ k = Cardinality({j \in Keys : rooms[j] # None})
       /\ rooms' = [rooms EXCEPT ![k] = r]
       /\ object' = [object EXCEPT ![r] = "live"]
       /\ id' = [id EXCEPT ![r] = k]
       /\ max' = [max EXCEPT ![r] = limit]
       /\ host' = [host EXCEPT ![r] = s]
       /\ Goes(owner[s], "create_enter", s, r)
  /\ mgrLock' = owner[s]
  /\ UNCHANGED <<owner, alive, roomId, members, roomLock, undefined>>

(* CreateRoomRequest: RoomManager::CreateRoom registers a room under the   *)
(* first free key, ...                                                     *)
CreateRoom(s, limit) ==
  /\ Takes(s)
  /\ mgrLock = None
  /\ \E r \in Rooms, k \in Keys :
       /\ object[r] = "none" /\ \A q \in Rooms : q < r => object[q] # "none"
       /\ rooms[k] = None /\ \A j \in Keys : j < k => rooms[j] # None
       /\ rooms' = [rooms EXCEPT ![k] = r]
       /\ object' = [object EXCEPT ![r] = "live"]
       /\ id' = [id EXCEPT ![r] = k]
       /\ max' = [max EXCEPT ![r] = limit]
       /\ host' = [host EXCEPT ![r] = s]
       /\ Goes(owner[s], "create_enter", s, r)
  /\ mgrLock' = owner[s]
  /\ UNCHANGED <<owner, alive, roomId, members, roomLock, undefined>>

(* ... and its creator enters it, if others have not filled it. *)
CreateEnter(t) ==
  /\ Does(t, "create_enter")
  /\ roomLock[job[t].room] = None
  /\ Enter(job[t].room, job[t].session)
  /\ mgrLock' = None
  /\ Finishes(t)
  /\ UNCHANGED <<owner, alive, rooms, object, id, max, host, roomLock>>

(* RoomManager::GetRoom(int): the lookup is not locked.  Without a room    *)
(* the handlers change nothing.                                            *)
Lookup(s, k, step) ==
  /\ Takes(s)
  /\ k \in Keys /\ rooms[k] # None
  /\ Goes(owner[s], step, s, rooms[k])
  /\ UNCHANGED <<owner, alive, roomId, rooms, object, id, max, host, members, mgrLock,
                 roomLock, undefined>>

JoinRoom(s, k)    == Lookup(s, k, "join_enter")
LeaveRoom(s)      == Lookup(s, roomId[s], "leave")
BroadcastRoom(s)  == Lookup(s, roomId[s], "broadcast")
GameRequest(s)    == Lookup(s, roomId[s], "start")

JoinEnter(t) ==
  /\ Does(t, "join_enter")
  /\ roomLock[job[t].room] = None
  /\ Enter(job[t].room, job[t].session)
  /\ Finishes(t)
  /\ UNCHANGED <<owner, alive, rooms, object, id, max, host, mgrLock, roomLock>>

FaultyLeaveKeepsRoom(t) ==    \* an empty room is not removed
  LET r == job[t].room
      s == job[t].session
  IN
  /\ Does(t, "leave")
  /\ roomLock[r] = None
  /\ members' = [members EXCEPT ![r] = @ \ {s}]
  /\ roomId' = [roomId EXCEPT ![s] = NoId]
  /\ Undefined(Destroyed(r) \/ Dangling(members'[r]))
  /\ Finishes(t)
  /\ UNCHANGED <<owner, alive, rooms, object, id, max, host, mgrLock, roomLock>>

FaultyLeaveKeepsId(t) ==    \* the session keeps its room id
  LET r == job[t].room
      s == job[t].session
  IN
  /\ Does(t, "leave")
  /\ roomLock[r] = None
  /\ members' = [members EXCEPT ![r] = @ \ {s}]
  /\ Undefined(Destroyed(r) \/ Dangling(members'[r]))
  /\ IF members'[r] = {}
     THEN roomLock' = [roomLock EXCEPT ![r] = t] /\ Goes(t, "leave_remove", s, r)
     ELSE roomLock' = roomLock /\ Finishes(t)
  /\ UNCHANGED <<owner, alive, roomId, rooms, object, id, max, host, mgrLock>>

FaultyLeaveKeepsHost(t) ==    \* a leaving host is not replaced
  LET r == job[t].room
      s == job[t].session
  IN
  /\ Does(t, "leave")
  /\ roomLock[r] = None
  /\ members' = [members EXCEPT ![r] = @ \ {s}]
  /\ roomId' = [roomId EXCEPT ![s] = NoId]
  /\ Undefined(Destroyed(r) \/ Dangling(members'[r]))
  /\ IF members'[r] = {}
     THEN roomLock' = [roomLock EXCEPT ![r] = t] /\ Goes(t, "leave_remove", s, r)
     ELSE roomLock' = roomLock /\ Finishes(t)
  /\ UNCHANGED <<owner, alive, rooms, object, id, max, host, mgrLock>>

(* Room::Leave: the session is erased.  The last one keeps the room locked *)
(* and goes on to remove it; otherwise a leaving host is replaced.         *)
LeaveErase(t) ==
  LET r == job[t].room
      s == job[t].session
  IN
  /\ Does(t, "leave")
  /\ roomLock[r] = None
  /\ members' = [members EXCEPT ![r] = @ \ {s}]
  /\ roomId' = [roomId EXCEPT ![s] = NoId]
  /\ Undefined(Destroyed(r) \/ Dangling(members'[r]))
  /\ IF members'[r] = {}
     THEN /\ roomLock' = [roomLock EXCEPT ![r] = t]
          /\ Goes(t, "leave_remove", s, r)
          /\ UNCHANGED host
     ELSE /\ host' \in {[host EXCEPT ![r] = h] :
                         h \in IF s = host[r] THEN members'[r] ELSE {host[r]}}
          /\ Finishes(t)
          /\ UNCHANGED roomLock
  /\ UNCHANGED <<owner, alive, rooms, object, id, max, mgrLock>>

(* RoomManager::RemoveRoom(info.id): the room under that key is destroyed. *)
(* The lock guard of Leave then unlocks the destroyed mutex; that is taken *)
(* to release the threads that wait for it.                                *)
LeaveRemove(t) ==
  LET r == job[t].room
      k == id[r]
  IN
  /\ Does(t, "leave_remove")
  /\ mgrLock = None
  /\ rooms' = [rooms EXCEPT ![k] = None]
  /\ object' = [q \in Rooms |-> IF q = rooms[k] THEN "destroyed" ELSE object[q]]
  /\ roomLock' = [roomLock EXCEPT ![r] = None]
  /\ Finishes(t)
  /\ UNCHANGED <<owner, alive, roomId, id, max, host, members, mgrLock, undefined>>

(* Room::Broadcast sends to every member under the room's lock ... *)
Broadcast(t) ==
  /\ Does(t, "broadcast")
  /\ roomLock[job[t].room] = None
  /\ Undefined(Destroyed(job[t].room) \/ Dangling(members[job[t].room]))
  /\ Finishes(t)
  /\ UNCHANGED <<owner, alive, roomId, rooms, object, id, max, host, members, mgrLock, roomLock>>

(* ... and Room::StartGame to every other member without it. *)
StartGame(t) ==
  /\ Does(t, "start")
  /\ Undefined(Destroyed(job[t].room) \/ Dangling(members[job[t].room] \ {job[t].session}))
  /\ Finishes(t)
  /\ UNCHANGED <<owner, alive, roomId, rooms, object, id, max, host, members, mgrLock, roomLock>>

(* SessionManager::RemoveSession on the session's own thread.  Nothing     *)
(* makes the session leave its room.                                       *)
Disconnect(s) ==
  /\ Takes(s)
  /\ Cardinality(Sessions \ alive) < MaxVanished
  /\ alive' = alive \ {s}
  /\ UNCHANGED <<owner, roomId, rooms, object, id, max, host, members, mgrLock, roomLock, job,
                 undefined>>

StepOf(t) ==
  CreateEnter(t) \/ JoinEnter(t) \/ LeaveErase(t) \/ LeaveRemove(t) \/ Broadcast(t) \/ StartGame(t)

Request(s) ==
  \/ \E limit \in Maxes : CreateRoom(s, limit)
  \/ \E k \in Keys : JoinRoom(s, k)
  \/ LeaveRoom(s) \/ BroadcastRoom(s) \/ GameRequest(s)

Next ==
  \/ \E s \in Sessions : Request(s) \/ Disconnect(s)
  \/ \E t \in Threads : StepOf(t)

(* A thread that has started a handler goes on with it. *)
Fairness == \A t \in Threads : WF_vars(StepOf(t))

Safety == Init /\ [][Next]_vars
Spec   == Safety /\ Fairness

-------------------------------------------------------------------------------
(* A room never has more members than its creator allowed, whichever way   *)
(* creations, joins and leaves interleave.                                 *)
Capacity == \A r \in Rooms : Cardinality(members[r]) <= max[r]

(* RoomManager's map and the rooms agree: what is mapped exists, under the *)
(* key that Enter gives to its members, and what exists is mapped.         *)
MapConsistent ==
  /\ \A k \in Keys : rooms[k] # None => object[rooms[k]] = "live" /\ id[rooms[k]] = k
  /\ \A r \in Rooms : object[r] = "live" => rooms[id[r]] = r

(* An empty room is not left behind in the map: somebody is about to enter *)
(* it or to remove it.  (A room created for no player at all is: nobody    *)
(* can enter it, and only a member that leaves removes a room.)            *)
EmptyRoomIsTransient ==
  \A r \in Rooms : object[r] = "live" /\ members[r] = {} /\ max[r] > 0 =>
    \E t \in Threads : job[t].room = r /\ job[t].step \in {"create_enter", "leave_remove"}

(* Until something undefined has happened, the room id of a session leads  *)
(* to a room that has the session as a member, so that its Leave removes   *)
(* it and its Broadcast reaches it.                                        *)
RoomIdConsistent ==
  undefined = "no" =>
    \A s \in alive : roomId[s] # NoId =>
      rooms[roomId[s]] # None /\ s \in members[rooms[roomId[s]]]

(* All sessions were given to one worker, so that handlers follow one      *)
(* another.                                                                *)
OneWorker == \E t \in Threads : \A s \in Sessions : owner[s] = t

(* The host of a room with members is one of them, over leaves, joins of a *)
(* second room and disconnections.  Sessions of one worker only: with two, *)
(* a room can be filled before its creator enters it.                      *)
HostIsMember ==
  OneWorker =>
    \A r \in Rooms : object[r] = "live" /\ members[r] # {} => host[r] \in members[r]

(* Every request that was started completes ("create and enter lobbies",   *)
(* README.md:15): no thread waits for ever for a lock.                     *)
RequestsComplete ==
  \A t \in Threads : (job[t].step # "idle") ~> (job[t].step = "idle" \/ undefined = "crashed")

(* The refinement mapping: a room is gone once its last member has left,   *)
(* while RemoveRoom is still to come.                                      *)
Emptied(r) ==
  Destroyed(r) \/ \E t \in Threads : job[t].step = "leave_remove" /\ job[t].room = r

Abstract == INSTANCE RoomSet WITH
  phase <- [r \in Rooms |-> IF object[r] = "none" THEN "none"
                            ELSE IF Emptied(r) THEN "gone" ELSE "open"],
  limit <- max

(* The lobby is such a set of rooms, however handlers interleave, until    *)
(* something undefined has happened; with the sessions on one worker, for  *)
(* ever.                                                                   *)
ImplementsRoomSet ==
  Abstract!Init /\ [][undefined' = "no" \/ OneWorker => Abstract!Next]_(Abstract!vars)
===============================================================================
