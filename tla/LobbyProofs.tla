------------------------------ MODULE LobbyProofs ------------------------------
(***************************************************************************)
(* Proofs about Lobby, for any number of worker threads, sessions, rooms   *)
(* and limits: what the two-thread run checks holds whichever way handlers *)
(* interleave, and also after undefined behaviour that does not crash.     *)
(***************************************************************************)
EXTENDS Lobby, FiniteSetTheorems, TLAPS

(* A handler at work has a session, and a room that was registered. *)
JobOK ==
  \A t \in Threads : job[t].step # "idle" =>
    /\ job[t].session \in Sessions
    /\ job[t].room \in Rooms
    /\ object[job[t].room] # "none"

(* A room that was registered has a key; nobody is in one that was not. *)
ObjectOK ==
  \A r \in Rooms :
    /\ object[r] # "none" => id[r] \in Keys
    /\ object[r] = "none" => members[r] = {}
    /\ IsFiniteSet(members[r])

(* A thread that is about to remove a room has it locked, so that it stays *)
(* empty, and is the only one; the room is there, unless it was not when   *)
(* its last member left, which is undefined.                               *)
RemoveOK ==
  \A t \in Threads : job[t].step = "leave_remove" =>
    /\ roomLock[job[t].room] = t
    /\ members[job[t].room] = {}
    /\ undefined = "no" => object[job[t].room] = "live"

IInv ==
  /\ TypeOK /\ JobOK /\ ObjectOK
  /\ Capacity /\ MapConsistent /\ EmptyRoomIsTransient
  /\ RemoveOK /\ RoomIdConsistent

-------------------------------------------------------------------------------
(* Undefined behaviour is remembered. *)
LEMMA UndefinedOf ==
  ASSUME NEW condition \in BOOLEAN, Undefined(condition), undefined \in {"no", "survived", "crashed"}
  PROVE  /\ undefined' \in {"no", "survived", "crashed"}
         /\ undefined' = "no" => ~ condition /\ undefined = "no"
BY DEF Undefined

(* What a thread does next, after Goes and after Finishes. *)
LEMMA JobAfterGoes ==
  ASSUME job \in [Threads -> Jobs], NEW t \in Threads, NEW step \in Steps, NEW s \in Sessions,
         NEW r \in Rooms, Goes(t, step, s, r)
  PROVE  /\ job' \in [Threads -> Jobs]
         /\ job'[t] = [step |-> step, session |-> s, room |-> r]
         /\ \A u \in Threads : u # t => job'[u] = job[u]
BY DEF Goes, Jobs

LEMMA JobAfterFinishes ==
  ASSUME job \in [Threads -> Jobs], NEW t \in Threads, Finishes(t)
  PROVE  /\ job' \in [Threads -> Jobs]
         /\ job'[t].step = "idle"
         /\ \A u \in Threads : u # t => job'[u] = job[u]
BY DEF Finishes, Idle, Jobs, Steps

(* Entering a room that is not locked: it is full, or the session becomes  *)
(* a member.  Capacity holds because the size was tested before.           *)
LEMMA EnterKeeps ==
  ASSUME IInv, NEW r \in Rooms, NEW s \in Sessions, object[r] # "none", Enter(r, s)
  PROVE  /\ members' \in [Rooms -> SUBSET Sessions]
         /\ roomId' \in [Sessions -> Keys \cup {NoId}]
         /\ undefined' \in {"no", "survived", "crashed"}
         /\ undefined' = "no" => undefined = "no" /\ ~ Destroyed(r)
         /\ \A q \in Rooms : q # r => members'[q] = members[q]
         /\ members[r] \subseteq members'[r]
         /\ IsFiniteSet(members'[r]) /\ Cardinality(members'[r]) <= max[r]
         /\ max[r] > 0 => members'[r] # {}
         /\ \A u \in Sessions :
              \/ roomId'[u] = roomId[u]
              \/ u = s /\ roomId'[u] = id[r] /\ s \in members'[r]
<1>1. /\ members \in [Rooms -> SUBSET Sessions] /\ roomId \in [Sessions -> Keys \cup {NoId}]
      /\ id[r] \in Keys /\ IsFiniteSet(members[r]) /\ Cardinality(members[r]) <= max[r]
      /\ undefined \in {"no", "survived", "crashed"}
  BY DEF IInv, TypeOK, ObjectOK, Capacity
<1>2. Cardinality(members[r]) \in Nat /\ max[r] \in Nat
  <2>1. Cardinality(members[r]) \in Nat
    BY ONLY <1>1, FS_CardinalityType, Zenon
  <2>2. max[r] \in Nat
    <3>1. max \in [Rooms -> Maxes \cup {0}]
      BY DEF IInv, TypeOK
    <3>2. Maxes \cup {0} \subseteq Nat
      BY LobbyAssumption DEF LobbyAssumption
    <3> QED
      BY <3>1, <3>2
  <2> QED
    BY <2>1, <2>2
<1>3. CASE Cardinality(members[r]) + 1 > max[r]
  <2>1. members' = members /\ roomId' = roomId /\ Undefined(Destroyed(r))
    BY <1>3 DEF Enter
  <2>2. undefined' \in {"no", "survived", "crashed"}
        /\ (undefined' = "no" => ~ Destroyed(r) /\ undefined = "no")
    BY <1>1, <2>1, UndefinedOf DEF Destroyed
  <2>3. max[r] > 0 => members[r] # {}
    BY <1>2, <1>3, FS_EmptySet
  <2> QED
    BY <1>1, <2>1, <2>2, <2>3
<1>4. CASE ~ (Cardinality(members[r]) + 1 > max[r])
  <2>1. /\ members' = [members EXCEPT ![r] = @ \cup {s}]
        /\ roomId' = [roomId EXCEPT ![s] = id[r]]
        /\ Undefined(Destroyed(r) \/ Dangling(members'[r]))
    BY <1>4 DEF Enter
  <2>2. undefined' \in {"no", "survived", "crashed"}
        /\ (undefined' = "no" => ~ Destroyed(r) /\ undefined = "no")
    BY <1>1, <2>1 DEF Undefined
  <2>3. members'[r] = members[r] \cup {s}
    BY <1>1, <2>1
  <2>4. IsFiniteSet(members'[r])
        /\ (Cardinality(members'[r]) = Cardinality(members[r])
             \/ Cardinality(members'[r]) = Cardinality(members[r]) + 1)
    <3>1. /\ IsFiniteSet(members[r] \cup {s})
          /\ Cardinality(members[r] \cup {s}) =
               IF s \in members[r] THEN Cardinality(members[r]) ELSE Cardinality(members[r]) + 1
      BY ONLY <1>1, FS_AddElement, Zenon
    <3> QED
      BY <2>3, <3>1
  <2>5. Cardinality(members'[r]) <= max[r]
    BY <1>2, <1>4, <2>4
  <2> QED
    BY <1>1, <2>1, <2>2, <2>3, <2>4, <2>5
<1> QED
  BY <1>3, <1>4

-------------------------------------------------------------------------------
LEMMA InitInv == Init => IInv
<1> SUFFICES ASSUME Init PROVE IInv
  OBVIOUS
<1>1. TypeOK
  BY DEF Init, TypeOK, Keys, Jobs, Idle, Steps
<1>2. JobOK /\ RemoveOK
  BY DEF Init, JobOK, RemoveOK, Idle
<1>3. ObjectOK /\ Capacity
  <2>1. \A r \in Rooms : object[r] = "none" /\ members[r] = {} /\ max[r] = 0
    BY DEF Init
  <2>2. IsFiniteSet({}) /\ Cardinality({}) = 0
    BY FS_EmptySet
  <2>3. \A r \in Rooms : IsFiniteSet(members[r]) /\ Cardinality(members[r]) = 0
    BY <2>1, <2>2
  <2>4. ObjectOK
    BY <2>1, <2>3 DEF ObjectOK
  <2>5. Capacity
    BY <2>1, <2>3 DEF Capacity
  <2> QED
    BY <2>4, <2>5
<1>4. MapConsistent /\ EmptyRoomIsTransient /\ RoomIdConsistent
  BY DEF Init, MapConsistent, EmptyRoomIsTransient, RoomIdConsistent
<1> QED
  BY <1>1, <1>2, <1>3, <1>4 DEF IInv

-------------------------------------------------------------------------------
(* One lemma for each kind of step.                                        *)

(* A new room is under a free key, empty, and about to be entered. *)
LEMMA CreateRoomInv ==
  ASSUME IInv, NEW s \in Sessions, NEW limit \in Maxes, CreateRoom(s, limit)
  PROVE  IInv'
<1>1. PICK r \in Rooms, k \in Keys :
        /\ object[r] = "none"
        /\ rooms[k] = None
        /\ rooms' = [rooms EXCEPT ![k] = r]
        /\ object' = [object EXCEPT ![r] = "live"]
        /\ id' = [id EXCEPT ![r] = k]
        /\ max' = [max EXCEPT ![r] = limit]
        /\ host' = [host EXCEPT ![r] = s]
        /\ Goes(owner[s], "create_enter", s, r)
  BY DEF CreateRoom
<1>2. /\ owner[s] \in Threads /\ job[owner[s]].step = "idle"
      /\ mgrLock' = owner[s]
      /\ UNCHANGED <<owner, alive, roomId, members, roomLock, undefined>>
  BY DEF CreateRoom, Takes, IInv, TypeOK
<1>3. /\ job' \in [Threads -> Jobs]
      /\ job'[owner[s]] = [step |-> "create_enter", session |-> s, room |-> r]
      /\ \A u \in Threads : u # owner[s] => job'[u] = job[u]
  BY <1>1, <1>2, JobAfterGoes DEF IInv, TypeOK, Steps
<1>4. TypeOK'
  BY <1>1, <1>2, <1>3 DEF IInv, TypeOK
<1>5. JobOK'
  BY <1>1, <1>2, <1>3 DEF IInv, TypeOK, JobOK
<1>6. ObjectOK'
  BY <1>1, <1>2 DEF IInv, TypeOK, ObjectOK
<1>7. Capacity'
  <2>1. limit \in Nat /\ Cardinality({}) = 0
    BY LobbyAssumption, FS_EmptySet DEF LobbyAssumption
  <2>2. members'[r] = {} /\ max'[r] = limit
    BY <1>1, <1>2 DEF IInv, TypeOK, ObjectOK
  <2>3. \A q \in Rooms : q # r => members'[q] = members[q] /\ max'[q] = max[q]
    BY <1>1, <1>2 DEF IInv, TypeOK
  <2> QED
    BY <2>1, <2>2, <2>3 DEF IInv, Capacity
<1>8. MapConsistent'
  <2>1. ASSUME NEW j \in Keys, rooms'[j] # None
        PROVE  object'[rooms'[j]] = "live" /\ id'[rooms'[j]] = j
    BY <1>1, <2>1 DEF IInv, TypeOK, MapConsistent
  <2>2. ASSUME NEW q \in Rooms, object'[q] = "live"
        PROVE  rooms'[id'[q]] = q
    BY <1>1, <2>2 DEF IInv, TypeOK, MapConsistent, ObjectOK, Rooms, None
  <2> QED
    BY <2>1, <2>2 DEF MapConsistent
<1>9. EmptyRoomIsTransient'
  <2> SUFFICES ASSUME NEW q \in Rooms, object'[q] = "live", members'[q] = {}, max'[q] > 0
               PROVE  \E u \in Threads : job'[u].room = q
                                       /\ job'[u].step \in {"create_enter", "leave_remove"}
    BY DEF EmptyRoomIsTransient
  <2>1. CASE q = r
    BY <1>2, <1>3, <2>1
  <2>2. CASE q # r
    <3>1. object[q] = "live" /\ members[q] = {} /\ max[q] > 0
      BY <1>1, <1>2, <2>2 DEF IInv, TypeOK
    <3>2. PICK u \in Threads : job[u].room = q /\ job[u].step \in {"create_enter", "leave_remove"}
      BY <3>1 DEF IInv, EmptyRoomIsTransient
    <3> QED
      BY <1>2, <1>3, <3>2
  <2> QED
    BY <2>1, <2>2
<1>10. RemoveOK'
  BY <1>1, <1>2, <1>3 DEF IInv, TypeOK, RemoveOK, JobOK
<1>11. RoomIdConsistent'
  BY <1>1, <1>2 DEF IInv, TypeOK, RoomIdConsistent, NoId
<1> QED
  BY <1>4, <1>5, <1>6, <1>7, <1>8, <1>9, <1>10, <1>11 DEF IInv

(* A handler looks up a room that is mapped, and so exists. *)
LEMMA LookupInv ==
  ASSUME IInv, NEW s \in Sessions, NEW k, NEW step \in {"join_enter", "leave", "broadcast", "start"},
         Lookup(s, k, step)
  PROVE  IInv'
<1>1. /\ k \in Keys /\ rooms[k] # None /\ rooms[k] \in Rooms
      /\ owner[s] \in Threads /\ job[owner[s]].step = "idle"
      /\ Goes(owner[s], step, s, rooms[k])
      /\ UNCHANGED <<owner, alive, roomId, rooms, object, id, max, host, members, mgrLock,
                     roomLock, undefined>>
  BY DEF Lookup, Takes, IInv, TypeOK
<1>2. /\ job' \in [Threads -> Jobs]
      /\ job'[owner[s]] = [step |-> step, session |-> s, room |-> rooms[k]]
      /\ \A u \in Threads : u # owner[s] => job'[u] = job[u]
  BY <1>1, JobAfterGoes DEF IInv, TypeOK, Steps
<1>3. object[rooms[k]] = "live"
  BY <1>1 DEF IInv, MapConsistent
<1>4. TypeOK' /\ ObjectOK' /\ Capacity' /\ MapConsistent' /\ RoomIdConsistent'
  BY <1>1, <1>2 DEF IInv, TypeOK, ObjectOK, Capacity, MapConsistent, RoomIdConsistent
<1>5. JobOK' /\ RemoveOK'
  BY <1>1, <1>2, <1>3 DEF IInv, JobOK, RemoveOK
<1>6. EmptyRoomIsTransient'
  BY <1>1, <1>2 DEF IInv, EmptyRoomIsTransient
<1> QED
  BY <1>4, <1>5, <1>6 DEF IInv

(* The thread that removes a room has it locked, so it is not this one. *)
LEMMA EnterInv ==
  ASSUME IInv, NEW t \in Threads, job[t].step \in {"create_enter", "join_enter"},
         roomLock[job[t].room] = None, Enter(job[t].room, job[t].session),
         mgrLock' \in Threads \cup {None}, Finishes(t),
         UNCHANGED <<owner, alive, rooms, object, id, max, host, roomLock>>
  PROVE  IInv'
<1> DEFINE r == job[t].room
           s == job[t].session
<1>1. r \in Rooms /\ s \in Sessions /\ object[r] # "none"
  BY DEF IInv, JobOK
<1> HIDE DEF r, s
<1>2. /\ members' \in [Rooms -> SUBSET Sessions]
      /\ roomId' \in [Sessions -> Keys \cup {NoId}]
      /\ undefined' \in {"no", "survived", "crashed"}
      /\ undefined' = "no" => undefined = "no" /\ ~ Destroyed(r)
      /\ \A q \in Rooms : q # r => members'[q] = members[q]
      /\ members[r] \subseteq members'[r]
      /\ IsFiniteSet(members'[r]) /\ Cardinality(members'[r]) <= max[r]
      /\ max[r] > 0 => members'[r] # {}
      /\ \A u \in Sessions :
           \/ roomId'[u] = roomId[u]
           \/ u = s /\ roomId'[u] = id[r] /\ s \in members'[r]
  <2>1. Enter(r, s)
    BY DEF r, s
  <2> QED
    BY <1>1, <2>1, EnterKeeps
<1>3. /\ job' \in [Threads -> Jobs]
      /\ job'[t].step = "idle"
      /\ \A u \in Threads : u # t => job'[u] = job[u]
  BY JobAfterFinishes DEF IInv, TypeOK
<1>4. TypeOK'
  BY <1>2, <1>3 DEF IInv, TypeOK
<1>5. JobOK'
  BY <1>3 DEF IInv, JobOK
<1>6. ObjectOK'
  BY <1>1, <1>2 DEF IInv, ObjectOK
<1>7. Capacity'
  BY <1>2 DEF IInv, Capacity
<1>8. MapConsistent'
  BY DEF IInv, MapConsistent
<1>9. EmptyRoomIsTransient'
  <2> SUFFICES ASSUME NEW q \in Rooms, object[q] = "live", members'[q] = {}, max[q] > 0
               PROVE  \E u \in Threads : job'[u].room = q
                                       /\ job'[u].step \in {"create_enter", "leave_remove"}
    BY DEF EmptyRoomIsTransient
  <2>1. q # r /\ members[q] = {}
    BY <1>2
  <2>2. PICK u \in Threads : job[u].room = q /\ job[u].step \in {"create_enter", "leave_remove"}
    BY <2>1 DEF IInv, EmptyRoomIsTransient
  <2>3. u # t
    BY <2>1, <2>2 DEF r
  <2> QED
    BY <1>3, <2>2, <2>3
<1>10. RemoveOK'
  <2> SUFFICES ASSUME NEW u \in Threads, job'[u].step = "leave_remove"
               PROVE  /\ roomLock[job'[u].room] = u
                      /\ members'[job'[u].room] = {}
                      /\ undefined' = "no" => object[job'[u].room] = "live"
    BY DEF RemoveOK
  <2>1. u # t /\ job'[u] = job[u]
    BY <1>3
  <2>2. /\ roomLock[job[u].room] = u /\ members[job[u].room] = {} /\ job[u].room \in Rooms
        /\ undefined = "no" => object[job[u].room] = "live"
    BY <2>1 DEF IInv, RemoveOK, JobOK
  <2>3. job[u].room # r
    BY <2>2, LobbyAssumption DEF LobbyAssumption, None, r
  <2> QED
    BY <1>2, <2>1, <2>2, <2>3
<1>11. RoomIdConsistent'
  <2> SUFFICES ASSUME undefined' = "no", NEW u \in alive, roomId'[u] # NoId
               PROVE  rooms[roomId'[u]] # None /\ u \in members'[rooms[roomId'[u]]]
    BY DEF RoomIdConsistent
  <2>1. u \in Sessions /\ undefined = "no" /\ object[r] = "live"
    BY <1>1, <1>2 DEF IInv, TypeOK, Destroyed
  <2>2. CASE roomId'[u] = roomId[u]
    <3>1. rooms[roomId[u]] # None /\ u \in members[rooms[roomId[u]]]
      BY <2>1, <2>2 DEF IInv, RoomIdConsistent
    <3>2. rooms[roomId[u]] \in Rooms
      BY <2>1, <2>2, <3>1 DEF IInv, TypeOK
    <3> QED
      BY <1>2, <2>2, <3>1, <3>2
  <2>3. CASE u = s /\ roomId'[u] = id[r] /\ s \in members'[r]
    BY <1>1, <2>1, <2>3 DEF IInv, MapConsistent, Rooms, None
  <2> QED
    BY <1>2, <2>1, <2>2, <2>3
<1> QED
  BY <1>4, <1>5, <1>6, <1>7, <1>8, <1>9, <1>10, <1>11 DEF IInv

(* The session leaves its room.  The last one goes on to remove the room,  *)
(* which it keeps locked; the room is empty meanwhile.                     *)
LEMMA LeaveEraseInv ==
  ASSUME IInv, NEW t \in Threads, LeaveErase(t)
  PROVE  IInv'
<1> DEFINE r == job[t].room
           s == job[t].session
<1>1. r \in Rooms /\ s \in Sessions /\ object[r] # "none" /\ job[t].step = "leave"
  BY DEF IInv, JobOK, LeaveErase, Does
<1>2. /\ roomLock[r] = None
      /\ members' = [members EXCEPT ![r] = @ \ {s}]
      /\ roomId' = [roomId EXCEPT ![s] = NoId]
      /\ Undefined(Destroyed(r) \/ Dangling(members'[r]))
      /\ UNCHANGED <<owner, alive, rooms, object, id, max, mgrLock>>
  BY DEF LeaveErase
<1>3. \/ /\ members'[r] = {}
         /\ roomLock' = [roomLock EXCEPT ![r] = t]
         /\ Goes(t, "leave_remove", s, r)
         /\ host' = host
      \/ /\ members'[r] # {}
         /\ \E h \in members'[r] \cup {host[r]} : host' = [host EXCEPT ![r] = h]
         /\ Finishes(t)
         /\ roomLock' = roomLock
  BY DEF LeaveErase
<1> HIDE DEF r, s
<1>4. /\ undefined' \in {"no", "survived", "crashed"}
      /\ undefined' = "no" => undefined = "no" /\ ~ Destroyed(r)
  BY <1>2 DEF IInv, TypeOK, Undefined
<1>5. /\ members' \in [Rooms -> SUBSET Sessions]
      /\ members'[r] = members[r] \ {s}
      /\ \A q \in Rooms : q # r => members'[q] = members[q]
  BY <1>1, <1>2 DEF IInv, TypeOK
<1>6. /\ job' \in [Threads -> Jobs]
      /\ \A u \in Threads : u # t => job'[u] = job[u]
      /\ \/ /\ members'[r] = {} /\ roomLock'[r] = t
            /\ job'[t] = [step |-> "leave_remove", session |-> s, room |-> r]
         \/ members'[r] # {} /\ roomLock' = roomLock /\ job'[t].step = "idle"
  <2>1. job \in [Threads -> Jobs] /\ roomLock \in [Rooms -> Threads \cup {None}]
    BY DEF IInv, TypeOK
  <2>2. CASE members'[r] = {} /\ roomLock' = [roomLock EXCEPT ![r] = t]
             /\ Goes(t, "leave_remove", s, r)
    BY <1>1, <2>1, <2>2, JobAfterGoes DEF Steps
  <2>3. CASE members'[r] # {} /\ Finishes(t) /\ roomLock' = roomLock
    BY <2>1, <2>3, JobAfterFinishes
  <2> QED
    BY <1>3, <2>2, <2>3
<1>7. TypeOK'
  <2>1. roomLock' \in [Rooms -> Threads \cup {None}]
    BY <1>3 DEF IInv, TypeOK
  <2>2. host' \in [Rooms -> Sessions \cup {None}]
    BY <1>1, <1>3, <1>5 DEF IInv, TypeOK
  <2>3. roomId' \in [Sessions -> Keys \cup {NoId}]
    BY <1>2 DEF IInv, TypeOK
  <2> QED
    BY <1>2, <1>4, <1>5, <1>6, <2>1, <2>2, <2>3 DEF IInv, TypeOK
<1>8. JobOK'
  BY <1>1, <1>2, <1>6 DEF IInv, JobOK
<1>9. ObjectOK' /\ Capacity'
  <2>1. IsFiniteSet(members[r]) /\ Cardinality(members[r]) <= max[r]
    BY <1>1 DEF IInv, ObjectOK, Capacity
  <2>2. /\ IsFiniteSet(members[r] \ {s})
        /\ Cardinality(members[r] \ {s}) =
             IF s \in members[r] THEN Cardinality(members[r]) - 1 ELSE Cardinality(members[r])
    BY ONLY <2>1, FS_RemoveElement, Zenon
  <2>3. Cardinality(members[r]) \in Nat
    BY ONLY <2>1, FS_CardinalityType, Zenon
  <2>4. max[r] \in Nat
    <3>1. max \in [Rooms -> Maxes \cup {0}]
      BY DEF IInv, TypeOK
    <3>2. Maxes \cup {0} \subseteq Nat
      BY LobbyAssumption DEF LobbyAssumption
    <3> QED
      BY <1>1, <3>1, <3>2
  <2>5. IsFiniteSet(members'[r]) /\ Cardinality(members'[r]) <= max[r]
    BY <1>5, <2>1, <2>2, <2>3, <2>4
  <2>6. ObjectOK'
    BY <1>1, <1>2, <1>5, <2>5 DEF IInv, ObjectOK
  <2>7. Capacity'
    BY <1>2, <1>5, <2>5 DEF IInv, Capacity
  <2> QED
    BY <2>6, <2>7
<1>10. MapConsistent'
  BY <1>2 DEF IInv, MapConsistent
<1>11. EmptyRoomIsTransient'
  <2> SUFFICES ASSUME NEW q \in Rooms, object[q] = "live", members'[q] = {}, max[q] > 0
               PROVE  \E u \in Threads : job'[u].room = q
                                       /\ job'[u].step \in {"create_enter", "leave_remove"}
    BY <1>2 DEF EmptyRoomIsTransient
  <2>1. CASE q = r
    BY <1>6, <2>1
  <2>2. CASE q # r
    <3>1. PICK u \in Threads : job[u].room = q /\ job[u].step \in {"create_enter", "leave_remove"}
      BY <1>5, <2>2 DEF IInv, EmptyRoomIsTransient
    <3> QED
      BY <1>1, <1>6, <3>1
  <2> QED
    BY <2>1, <2>2
<1>12. RemoveOK'
  <2> SUFFICES ASSUME NEW u \in Threads, job'[u].step = "leave_remove"
               PROVE  /\ roomLock'[job'[u].room] = u
                      /\ members'[job'[u].room] = {}
                      /\ undefined' = "no" => object[job'[u].room] = "live"
    BY <1>2 DEF RemoveOK
  <2>1. CASE u = t
    BY <1>1, <1>4, <1>6, <2>1 DEF IInv, TypeOK, Destroyed
  <2>2. CASE u # t
    <3>1. /\ roomLock[job[u].room] = u /\ members[job[u].room] = {} /\ job[u].room \in Rooms
          /\ undefined = "no" => object[job[u].room] = "live"
          /\ job'[u] = job[u]
      BY <1>6, <2>2 DEF IInv, RemoveOK, JobOK
    <3>2. job[u].room # r
      BY <1>2, <3>1, LobbyAssumption DEF LobbyAssumption, None
    <3>3. roomLock'[job[u].room] = roomLock[job[u].room]
      BY <1>3, <3>1, <3>2 DEF IInv, TypeOK
    <3> QED
      BY <1>4, <1>5, <3>1, <3>2, <3>3
  <2> QED
    BY <2>1, <2>2
<1>13. RoomIdConsistent'
  <2> SUFFICES ASSUME undefined' = "no", NEW u \in alive, roomId'[u] # NoId
               PROVE  rooms[roomId'[u]] # None /\ u \in members'[rooms[roomId'[u]]]
    BY <1>2 DEF RoomIdConsistent
  <2>1. u \in Sessions /\ u # s /\ roomId'[u] = roomId[u] /\ undefined = "no"
    BY <1>1, <1>2, <1>4 DEF IInv, TypeOK
  <2>2. rooms[roomId[u]] # None /\ u \in members[rooms[roomId[u]]]
    BY <2>1 DEF IInv, RoomIdConsistent
  <2>3. rooms[roomId[u]] \in Rooms
    BY <2>1, <2>2 DEF IInv, TypeOK
  <2> QED
    BY <1>5, <2>1, <2>2, <2>3
<1> QED
  BY <1>7, <1>8, <1>9, <1>10, <1>11, <1>12, <1>13 DEF IInv

(* The room under the key of the room that was left is destroyed.  If all  *)
(* was defined so far, that is the room itself, and it has no members.     *)
LEMMA LeaveRemoveInv ==
  ASSUME IInv, NEW t \in Threads, LeaveRemove(t)
  PROVE  IInv'
<1> DEFINE r == job[t].room
           k == id[r]
<1>1. r \in Rooms /\ object[r] # "none" /\ k \in Keys /\ job[t].step = "leave_remove"
  BY DEF IInv, JobOK, ObjectOK, LeaveRemove, Does
<1>2. /\ rooms' = [rooms EXCEPT ![k] = None]
      /\ object' = [q \in Rooms |-> IF q = rooms[k] THEN "destroyed" ELSE object[q]]
      /\ roomLock' = [roomLock EXCEPT ![r] = None]
      /\ Finishes(t)
      /\ UNCHANGED <<owner, alive, roomId, id, max, host, members, mgrLock, undefined>>
  BY DEF LeaveRemove
<1> HIDE DEF r, k
<1>3. /\ job' \in [Threads -> Jobs]
      /\ job'[t].step = "idle"
      /\ \A u \in Threads : u # t => job'[u] = job[u]
  BY <1>2, JobAfterFinishes DEF IInv, TypeOK
<1>4. \A q \in Rooms : object'[q] = object[q] \/ (q = rooms[k] /\ object'[q] = "destroyed")
  BY <1>2
<1>5. /\ roomLock[r] = t /\ members[r] = {}
      /\ undefined = "no" => object[r] = "live"
  BY <1>1 DEF IInv, RemoveOK, r
<1>6. object[r] = "live" => rooms[k] = r
  BY <1>1 DEF IInv, MapConsistent, k
<1>7. TypeOK'
  BY <1>1, <1>2, <1>3 DEF IInv, TypeOK
<1>8. JobOK'
  BY <1>3, <1>4 DEF IInv, JobOK
<1>9. ObjectOK' /\ Capacity'
  <2>1. ASSUME NEW q \in Rooms
        PROVE  /\ object'[q] # "none" => object[q] # "none"
               /\ object'[q] = "none" => object[q] = "none"
    <3>1. q = rooms[k] => object[q] # "none"
      BY <1>1 DEF IInv, MapConsistent, Rooms, None
    <3> QED
      BY <1>4, <3>1
  <2> QED
    BY <1>2, <2>1 DEF IInv, ObjectOK, Capacity
<1>10. MapConsistent'
  <2>1. ASSUME NEW j \in Keys, rooms'[j] # None
        PROVE  object'[rooms'[j]] = "live" /\ id'[rooms'[j]] = j
    <3>1. j # k /\ rooms'[j] = rooms[j] /\ rooms[j] \in Rooms
      BY <1>1, <1>2, <2>1 DEF IInv, TypeOK
    <3>2. object[rooms[j]] = "live" /\ id[rooms[j]] = j
      BY <2>1, <3>1 DEF IInv, MapConsistent
    <3>3. rooms[j] # rooms[k]
      BY <1>1, <2>1, <3>1 DEF IInv, MapConsistent
    <3> QED
      BY <1>2, <3>1, <3>2, <3>3
  <2>2. ASSUME NEW q \in Rooms, object'[q] = "live"
        PROVE  rooms'[id'[q]] = q
    <3>1. object[q] = "live" /\ q # rooms[k]
      BY <1>2, <2>2
    <3>2. rooms[id[q]] = q /\ id[q] \in Keys
      BY <3>1 DEF IInv, MapConsistent, ObjectOK
    <3> QED
      BY <1>1, <1>2, <3>1, <3>2 DEF IInv, TypeOK
  <2> QED
    BY <2>1, <2>2 DEF MapConsistent
<1>11. EmptyRoomIsTransient'
  <2> SUFFICES ASSUME NEW q \in Rooms, object'[q] = "live", members[q] = {}, max[q] > 0
               PROVE  \E u \in Threads : job'[u].room = q
                                       /\ job'[u].step \in {"create_enter", "leave_remove"}
    BY <1>2 DEF EmptyRoomIsTransient
  <2>1. object[q] = "live" /\ q # rooms[k]
    BY <1>2
  <2>2. PICK u \in Threads : job[u].room = q /\ job[u].step \in {"create_enter", "leave_remove"}
    BY <2>1 DEF IInv, EmptyRoomIsTransient
  <2>3. u # t
    BY <1>6, <2>1, <2>2 DEF r
  <2> QED
    BY <1>3, <2>2, <2>3
<1>12. RemoveOK'
  <2> SUFFICES ASSUME NEW u \in Threads, job'[u].step = "leave_remove"
               PROVE  /\ roomLock'[job'[u].room] = u
                      /\ members[job'[u].room] = {}
                      /\ undefined = "no" => object'[job'[u].room] = "live"
    BY <1>2 DEF RemoveOK
  <2>1. u # t /\ job'[u] = job[u]
    BY <1>3
  <2>2. /\ roomLock[job[u].room] = u /\ members[job[u].room] = {} /\ job[u].room \in Rooms
        /\ undefined = "no" => object[job[u].room] = "live"
    BY <2>1 DEF IInv, RemoveOK, JobOK
  <2>3. job[u].room # r
    BY <1>5, <2>1, <2>2
  <2>4. roomLock'[job[u].room] = u
    BY <1>2, <2>2, <2>3 DEF IInv, TypeOK
  <2>5. undefined = "no" => object'[job[u].room] = "live"
    BY <1>2, <1>5, <1>6, <2>2, <2>3
  <2> QED
    BY <2>1, <2>2, <2>4, <2>5
<1>13. RoomIdConsistent'
  <2> SUFFICES ASSUME undefined = "no", NEW u \in alive, roomId[u] # NoId
               PROVE  rooms'[roomId[u]] # None /\ u \in members[rooms'[roomId[u]]]
    BY <1>2 DEF RoomIdConsistent
  <2>1. rooms[roomId[u]] # None /\ u \in members[rooms[roomId[u]]]
    BY DEF IInv, RoomIdConsistent
  <2>2. roomId[u] # k
    BY <1>5, <1>6, <2>1
  <2> QED
    BY <1>1, <1>2, <2>1, <2>2 DEF IInv, TypeOK
<1> QED
  BY <1>7, <1>8, <1>9, <1>10, <1>11, <1>12, <1>13 DEF IInv

(* Broadcast and StartGame only read the lobby. *)
LEMMA ReadInv ==
  ASSUME IInv, NEW t \in Threads, job[t].step \in {"broadcast", "start"},
         NEW condition \in BOOLEAN, Undefined(condition), Finishes(t),
         UNCHANGED <<owner, alive, roomId, rooms, object, id, max, host, members, mgrLock, roomLock>>
  PROVE  IInv'
<1>1. /\ undefined' \in {"no", "survived", "crashed"}
      /\ undefined' = "no" => undefined = "no"
  BY UndefinedOf DEF IInv, TypeOK
<1>2. /\ job' \in [Threads -> Jobs]
      /\ job'[t].step = "idle"
      /\ \A u \in Threads : u # t => job'[u] = job[u]
  BY JobAfterFinishes DEF IInv, TypeOK
<1>3. TypeOK' /\ ObjectOK' /\ Capacity' /\ MapConsistent' /\ RoomIdConsistent'
  BY <1>1, <1>2 DEF IInv, TypeOK, ObjectOK, Capacity, MapConsistent, RoomIdConsistent
<1>4. JobOK' /\ RemoveOK'
  BY <1>1, <1>2 DEF IInv, JobOK, RemoveOK
<1>5. EmptyRoomIsTransient'
  BY <1>2 DEF IInv, EmptyRoomIsTransient
<1> QED
  BY <1>3, <1>4, <1>5 DEF IInv

(* A session that vanishes stays a member of its rooms. *)
LEMMA DisconnectInv ==
  ASSUME IInv, NEW s \in Sessions, Disconnect(s)
  PROVE  IInv'
<1>1. /\ alive' \subseteq alive
      /\ UNCHANGED <<owner, roomId, rooms, object, id, max, host, members, mgrLock, roomLock, job,
                     undefined>>
  BY DEF Disconnect
<1>2. TypeOK' /\ RoomIdConsistent'
  BY <1>1 DEF IInv, TypeOK, RoomIdConsistent
<1>3. JobOK' /\ RemoveOK' /\ ObjectOK' /\ Capacity' /\ MapConsistent' /\ EmptyRoomIsTransient'
  BY <1>1 DEF IInv, JobOK, RemoveOK, ObjectOK, Capacity, MapConsistent, EmptyRoomIsTransient
<1> QED
  BY <1>2, <1>3 DEF IInv

LEMMA NextInv == IInv /\ [Next]_vars => IInv'
<1> SUFFICES ASSUME IInv, [Next]_vars PROVE IInv'
  OBVIOUS
<1>1. ASSUME NEW s \in Sessions, Request(s) PROVE IInv'
  <2>1. ASSUME NEW limit \in Maxes, CreateRoom(s, limit) PROVE IInv'
    BY <2>1, CreateRoomInv
  <2>2. ASSUME NEW k, NEW step \in {"join_enter", "leave", "broadcast", "start"}, Lookup(s, k, step)
        PROVE  IInv'
    BY <2>2, LookupInv
  <2> QED
    BY <1>1, <2>1, <2>2 DEF Request, JoinRoom, LeaveRoom, BroadcastRoom, GameRequest
<1>2. ASSUME NEW s \in Sessions, Disconnect(s) PROVE IInv'
  BY <1>2, DisconnectInv
<1>3. ASSUME NEW t \in Threads, StepOf(t) PROVE IInv'
  <2>1. CASE CreateEnter(t)
    BY <2>1, EnterInv DEF CreateEnter, Does
  <2>2. CASE JoinEnter(t)
    <3>1. mgrLock' \in Threads \cup {None}
      BY <2>2 DEF JoinEnter, IInv, TypeOK
    <3> QED
      BY <2>2, <3>1, EnterInv DEF JoinEnter, Does
  <2>3. CASE LeaveErase(t)
    BY <2>3, LeaveEraseInv
  <2>4. CASE LeaveRemove(t)
    BY <2>4, LeaveRemoveInv
  <2>5. CASE Broadcast(t)
    BY <2>5, ReadInv DEF Broadcast, Does, Destroyed, Dangling
  <2>6. CASE StartGame(t)
    BY <2>6, ReadInv DEF StartGame, Does, Destroyed, Dangling
  <2> QED
    BY <1>3, <2>1, <2>2, <2>3, <2>4, <2>5, <2>6 DEF StepOf
<1>4. CASE UNCHANGED vars
  BY <1>4 DEF vars, IInv, TypeOK, JobOK, RemoveOK, ObjectOK, Capacity, MapConsistent,
              EmptyRoomIsTransient, RoomIdConsistent
<1> QED
  BY <1>1, <1>2, <1>3, <1>4 DEF Next

-------------------------------------------------------------------------------
(* The invariant holds in every reachable state of the lobby.              *)
THEOREM Invariance == Safety => []IInv
<1>1. Init => IInv
  BY InitInv
<1>2. IInv /\ [Next]_vars => IInv'
  BY NextInv
<1> QED
  BY <1>1, <1>2, PTL DEF Safety

(* Every variable keeps its type: handlers index rooms, keys and sessions  *)
(* that exist.                                                             *)
THEOREM TypeCorrect == Safety => []TypeOK
<1>1. IInv => TypeOK
  BY DEF IInv
<1> QED
  BY <1>1, Invariance, PTL

(* Room::Enter, however many threads create, join and leave rooms, never   *)
(* lets a room exceed max_player_count.                                    *)
THEOREM CapacityKept == Safety => []Capacity
<1>1. IInv => Capacity
  BY DEF IInv
<1> QED
  BY <1>1, Invariance, PTL

(* RoomManager::_rooms maps a key to the room that has it, and every room  *)
(* that exists is mapped: no key is given twice, no room is leaked.        *)
THEOREM MapAgrees == Safety => []MapConsistent
<1>1. IInv => MapConsistent
  BY DEF IInv
<1> QED
  BY <1>1, Invariance, PTL

(* A room for somebody that is empty is about to be entered by its creator *)
(* or removed by the session that left it last.                            *)
THEOREM NoEmptyRoomLeft == Safety => []EmptyRoomIsTransient
<1>1. IInv => EmptyRoomIsTransient
  BY DEF IInv
<1> QED
  BY <1>1, Invariance, PTL

(* While all was defined, a session's room id leads to a room it is in.    *)
THEOREM RoomIdLeadsHome == Safety => []RoomIdConsistent
<1>1. IInv => RoomIdConsistent
  BY DEF IInv
<1> QED
  BY <1>1, Invariance, PTL
===============================================================================
