-------------------------------- MODULE Worker ---------------------------------
(***************************************************************************)
(* One Worker: its io_uring ring, the thread in Worker::Run (the owner),   *)
(* the sessions of its SessionManager from accept to destruction, the      *)
(* threads of other workers, which send to these sessions when they        *)
(* broadcast in a room, and the main thread that shuts the worker down in  *)
(* ThreadManager::Stop.                                                    *)
(*                                                                         *)
(* The ring is what all of them share: entries are prepared in the         *)
(* submission queue, submitted to the kernel as requests, and the kernel   *)
(* completes requests in any order by appending to the completion queue.   *)
(* A handler of the worker thread is one step, except where another thread *)
(* reads or writes between two of its statements: each send of OnRecv is a *)
(* step, and Session::Close is two, its tests and what it does when they   *)
(* have passed.                                                            *)
(***************************************************************************)
EXTENDS Integers, Sequences, FiniteSets

CONSTANTS
  Fds,          \* file descriptors; a closed one may be reused
  MaxSessions,  \* bound: connections accepted in a behaviour
  SqDepth,      \* entries of the submission queue (256 in Worker::Start)
  CqBound,      \* bound: received data is posted while the queue is shorter
  Talkers,      \* bound: the sessions that exchange data
  Others,       \* the threads of other workers
  OwnAccept     \* TRUE: this worker runs the accept, its ring orders accepts
                \* with its other completions.  FALSE: another worker's thread
                \* calls AddSession on this one.

ASSUME WorkerAssumption ==
  /\ MaxSessions \in Nat
  /\ SqDepth \in Nat \ {0}
  /\ CqBound \in Nat
  /\ Talkers \subseteq 1 .. MaxSessions
  /\ "owner" \notin Others
  /\ OwnAccept \in BOOLEAN

Ids == 1 .. MaxSessions     \* Session objects, in order of accept
None == 0

Owner   == "owner"          \* this worker's thread
Threads == {Owner} \cup Others

VARIABLES
  running,      \* ThreadManager::_running
  mainPc,       \* what the main thread does next
  visited,      \* sessions that SessionManager::Close has iterated over
  target,       \* the session whose canceling StartClose is about to set
  workerPc,     \* "run", "stop" (StopSQE after RemoveSession) or "exited"
  sessions,     \* SessionManager::_sessions: fd -> Session
  fdOf,         \* Session::_fd
  object,       \* life of a Session: "none", "accepted", "live", "freed"
  canceling,    \* sessions with canceling set
  closing,      \* the threads that have set closing; it is false if none has
  about,        \* the session whose Close a thread is in, past its tests
  sending,      \* "idle"; "busy": a send is outstanding; "stuck": _isSending
                \* is set and none is
  sq,           \* requests prepared and not yet submitted
  requests,     \* requests the kernel is working on
  cq,           \* completions not yet handled, oldest first
  socket,       \* the kernel's table: the session whose connection fd is
  crashed       \* a completion for a freed Session brought the process down

vars == <<running, mainPc, visited, target, workerPc, sessions, fdOf, object, canceling,
          closing, about, sending, sq, requests, cq, socket, crashed>>
mainVars    == <<running, mainPc, visited, target>>
sessionVars == <<fdOf, object, canceling, closing, about, sending>>

Request(type, s)   == [type |-> type, session |-> s]
CloseRequest(t, s) == [type |-> "close", session |-> s, by |-> t]
Cqe(type, s, res)  == [type |-> type, session |-> s, res |-> res]

RequestTypes == {"recv", "recv_canceled", "cancel", "cancel_done", "send", "nop"}
Requests     == [type : RequestTypes, session : Ids \cup {None}]
                  \cup [type : {"close"}, session : Ids, by : Threads]
CqeTypes     == {"accept", "recv", "recv_cancel", "send", "session_close", "worker_stop"}
Cqes         == [type : CqeTypes, session : Ids \cup {None}, res : {"ok", "end"}]

TypeOK ==
  /\ running \in BOOLEAN
  /\ mainPc \in {"up", "closed", "close", "iterate", "mark", "submit", "nop", "join", "done"}
  /\ visited \subseteq Ids /\ target \in Ids \cup {None}
  /\ workerPc \in {"run", "stop", "exited"}
  /\ sessions \in [Fds -> Ids \cup {None}]
  /\ fdOf \in [Ids -> Fds \cup {None}]
  /\ object \in [Ids -> {"none", "accepted", "live", "freed"}]
  /\ canceling \subseteq Ids
  /\ closing \in [Ids -> SUBSET Threads]
  /\ about \in [Threads -> Ids \cup {None}]
  /\ sending \in [Ids -> {"idle", "busy", "stuck"}]
  /\ sq \subseteq Requests /\ Cardinality(sq) <= SqDepth
  /\ requests \subseteq Requests
  /\ cq \in Seq(Cqes)
  /\ socket \in [Fds -> Ids \cup {None}]
  /\ crashed \in BOOLEAN

Init ==
  /\ running = TRUE /\ mainPc = "up" /\ visited = {} /\ target = None
  /\ workerPc = "run"
  /\ sessions = [f \in Fds |-> None]
  /\ fdOf = [s \in Ids |-> None]
  /\ object = [s \in Ids |-> "none"]
  /\ canceling = {}
  /\ closing = [s \in Ids |-> {}]
  /\ about = [t \in Threads |-> None]
  /\ sending = [s \in Ids |-> "idle"]
  /\ sq = {} /\ requests = {} /\ cq = <<>>
  /\ socket = [f \in Fds |-> None]
  /\ crashed = FALSE

(* Nothing happens any more after a crash; every action has this guard. *)
Up == ~ crashed

-------------------------------------------------------------------------------
(* The submission queue.  io_uring_get_sqe returns null when it is full.   *)
SqeAvailable == Cardinality(sq) < SqDepth

(* io_uring_submit, after preparing the requests new: everything prepared  *)
(* by any thread goes to the kernel.                                       *)
Submit(new) ==
  /\ requests' = requests \cup sq \cup new
  /\ sq' = {}

MappedSessions == {s \in Ids : \E f \in Fds : sessions[f] = s}
GetSize        == Cardinality(MappedSessions)

(* Operators named Faulty... are variants of the operator that follows them *)
(* with a plausible defect; no specification uses them.                    *)

FaultyStopSQE ==    \* the NOP is prepared and not submitted
  IF running \/ GetSize # 0 \/ ~ SqeAvailable THEN UNCHANGED <<sq, requests>>
  ELSE sq' = sq \cup {Request("nop", None)} /\ requests' = requests

(* Worker::StopSQE *)
StopSQE ==
  IF running \/ GetSize # 0 \/ ~ SqeAvailable THEN UNCHANGED <<sq, requests>>
  ELSE Submit({Request("nop", None)})

-------------------------------------------------------------------------------
(* The kernel.                                                             *)

Post(cqe) == cq' = Append(cq, cqe)

(* A connection arrives; its descriptor is one that is not in use. *)
KernelAccept ==
  /\ Up
  /\ mainPc = "up"
  /\ \E f \in Fds, s \in Ids :
       /\ socket[f] = None
       /\ object[s] = "none" /\ \A t \in Ids : t < s => object[t] # "none"
       /\ socket' = [socket EXCEPT ![f] = s]
       /\ fdOf' = [fdOf EXCEPT ![s] = f]
       /\ object' = [object EXCEPT ![s] = "accepted"]
       /\ cq' = IF OwnAccept THEN Append(cq, Cqe("accept", s, "ok")) ELSE cq
  /\ UNCHANGED <<mainVars, workerPc, sessions, canceling, closing, about, sending, sq,
                 requests, crashed>>

(* The multishot receive posts data and stays armed ... *)
KernelData ==
  /\ Up
  /\ Len(cq) < CqBound
  /\ \E s \in Talkers : Request("recv", s) \in requests /\ Post(Cqe("recv", s, "ok"))
  /\ UNCHANGED <<mainVars, workerPc, sessions, sessionVars, sq, requests, socket, crashed>>

(* ... or ends because the peer has closed or the transfer failed. *)
KernelDisconnect ==
  /\ Up
  /\ \E s \in Ids :
       /\ Request("recv", s) \in requests
       /\ requests' = requests \ {Request("recv", s)}
       /\ Post(Cqe("recv", s, "end"))
  /\ UNCHANGED <<mainVars, workerPc, sessions, sessionVars, sq, socket, crashed>>

KernelSend ==
  /\ Up
  /\ \E s \in Ids, res \in {"ok", "end"} :
       /\ Request("send", s) \in requests
       /\ requests' = requests \ {Request("send", s)}
       /\ Post(Cqe("send", s, res))
  /\ UNCHANGED <<mainVars, workerPc, sessions, sessionVars, sq, socket, crashed>>

(* A cancel request ends the receive, if it is armed.  The receive and the *)
(* cancel then complete, in either order.                                  *)
KernelCancel(s) ==
  /\ Up
  /\ Request("cancel", s) \in requests
  /\ requests' =
       (requests \ {Request("cancel", s), Request("recv", s)})
         \cup {Request("cancel_done", s)}
         \cup (IF Request("recv", s) \in requests THEN {Request("recv_canceled", s)} ELSE {})
  /\ UNCHANGED <<mainVars, workerPc, sessions, sessionVars, sq, cq, socket, crashed>>

Completion(r) ==
  CASE r.type = "recv_canceled" -> Cqe("recv", r.session, "end")
    [] r.type = "cancel_done"   -> Cqe("recv_cancel", r.session, "ok")
    [] r.type = "close"         -> Cqe("session_close", r.session, "ok")
    [] r.type = "nop"           -> Cqe("worker_stop", None, "ok")

(* The remaining requests complete; a close frees the descriptor. *)
KernelComplete(r) ==
  /\ Up
  /\ r \in requests
  /\ r.type \in {"recv_canceled", "cancel_done", "close", "nop"}
  /\ requests' = requests \ {r}
  /\ Post(Completion(r))
  /\ socket' = IF r.type = "close" THEN [socket EXCEPT ![fdOf[r.session]] = None]
               ELSE socket
  /\ UNCHANGED <<mainVars, workerPc, sessions, sessionVars, sq, crashed>>

-------------------------------------------------------------------------------
(* Sessions, as the worker thread calls them.                              *)

(* Worker::AddSession, SessionManager::AddSession, Session::StartRecv: the *)
(* map owns the session, and assigning to a used entry destroys its owner. *)
AddSession(s) ==
  LET f == fdOf[s] IN
  /\ sessions' = [sessions EXCEPT ![f] = s]
  /\ object' = [t \in Ids |-> IF t = s THEN "live"
                              ELSE IF t = sessions[f] THEN "freed" ELSE object[t]]
  /\ Submit({Request("recv", s)})

(* SessionManager::RemoveSession *)
RemoveSession(f) ==
  /\ sessions' = [sessions EXCEPT ![f] = None]
  /\ object' = [t \in Ids |-> IF t = sessions[f] THEN "freed" ELSE object[t]]

FaultyCloses(s, additionalCheck, sendState) ==    \* ignores closing
  additionalCheck => s \in canceling /\ sendState = "idle"

(* Session::Close, called by thread t: the tests, ... *)
Closes(s, additionalCheck, sendState) ==
  /\ closing[s] = {}
  /\ additionalCheck => s \in canceling /\ sendState = "idle"

Close(t, s, additionalCheck, sendState) ==
  about' = IF Closes(s, additionalCheck, sendState) THEN [about EXCEPT ![t] = s] ELSE about

(* ... and what follows them: closing is set, and if the submission queue  *)
(* has an entry the descriptor's close is submitted.  Meanwhile another    *)
(* thread may have passed the tests too, or the session may have been      *)
(* destroyed: then this is done to freed memory, or the process crashes.   *)
(* Bound: the other threads are followed until the worker is joined.       *)
CloseSubmits(t) ==
  /\ Up
  /\ mainPc # "done"
  /\ about[t] # None
  /\ LET s == about[t] IN
       /\ closing' = [closing EXCEPT ![s] = @ \cup {t}]
       /\ IF SqeAvailable THEN Submit({CloseRequest(t, s)}) ELSE UNCHANGED <<sq, requests>>
       /\ crashed' \in IF object[s] = "freed" THEN BOOLEAN ELSE {FALSE}
  /\ about' = [about EXCEPT ![t] = None]
  /\ UNCHANGED <<mainVars, workerPc, sessions, fdOf, object, canceling, sending, cq, socket>>

(* Session::SendInternal with a buffer in the queue *)
SendState == IF SqeAvailable THEN "busy" ELSE "stuck"

Writable == {s \in Talkers : object[s] = "live" /\ sending[s] = "idle"}

(* Session::Send to a session that is not sending, by any thread.  The     *)
(* unlocked test and set of _isSending are module SendRace's.              *)
Send(s) ==
  /\ s \in Writable
  /\ sending' = [sending EXCEPT ![s] = SendState]
  /\ IF SqeAvailable THEN Submit({Request("send", s)}) ELSE UNCHANGED <<sq, requests>>
  /\ UNCHANGED <<closing, about>>

(* Session::Send when SSL_write fails, which closes the session. *)
SendFails(t, s) ==
  /\ s \in Talkers /\ object[s] = "live"
  /\ Closes(s, FALSE, sending[s])
  /\ Close(t, s, FALSE, sending[s])
  /\ UNCHANGED <<closing, sending, sq, requests>>

-------------------------------------------------------------------------------
(* The worker thread: Worker::Run and Worker::HandleCompletion.            *)

FaultyExits == ~ running    \* does not wait for the sessions

(* The test before HandleCompletion, for a completion that carries data.   *)
(* A REQ_TYPE_WORKER_STOP always finds it true: the NOP is posted when it  *)
(* is, and no session is added any more.                                   *)
Exits == ~ running /\ GetSize = 0

Handles(type) ==
  /\ Up
  /\ workerPc = "run" /\ about[Owner] = None
  /\ cq # <<>>
  /\ Head(cq).type = type
  /\ ~ Exits

(* io_uring_cqe_seen, after the completion has been handled.  A handler    *)
(* that ends in Close takes it off the queue with the tests of Close:      *)
(* nobody reads the queue before the owner has returned from there.        *)
Seen == cq' = Tail(cq)

(* The loop ends; the completion's context is deleted. *)
Exit ==
  /\ Up
  /\ workerPc = "run" /\ about[Owner] = None /\ cq # <<>> /\ Exits
  /\ workerPc' = "exited"
  /\ \/ crashed' = crashed
     \/ Head(cq).type = "recv" /\ crashed' = TRUE    \* it belonged to the Session
  /\ UNCHANGED <<mainVars, sessions, sessionVars, sq, requests, cq, socket>>

(* Session::OnRecv on data.  The packets it completes make the session and *)
(* other sessions of the worker send, one after the other; a TLS error     *)
(* closes the session, and a failing SSL_write the one that is sent to.    *)
OnRecv ==
  /\ Handles("recv") /\ Head(cq).res = "ok"
  /\ object[Head(cq).session] = "live"
  /\ \/ (\E s \in Ids : Send(s) \/ SendFails(Owner, s)) /\ UNCHANGED cq
     \/ Seen /\ UNCHANGED <<closing, about, sending, sq, requests>>
  /\ UNCHANGED <<mainVars, workerPc, sessions, fdOf, object, canceling, socket, crashed>>

FaultyOnRecvEndChecks ==    \* asks for the graceful close
  /\ Handles("recv") /\ Head(cq).res = "end"
  /\ object[Head(cq).session] = "live"
  /\ Close(Owner, Head(cq).session, TRUE, sending[Head(cq).session])
  /\ Seen
  /\ UNCHANGED <<mainVars, workerPc, sessions, fdOf, object, canceling, closing, sending, sq,
                 requests, socket, crashed>>

FaultyOnRecvEndRemoves ==    \* destroys the session without waiting for its close
  /\ Handles("recv") /\ Head(cq).res = "end"
  /\ object[Head(cq).session] = "live"
  /\ Close(Owner, Head(cq).session, FALSE, sending[Head(cq).session])
  /\ RemoveSession(fdOf[Head(cq).session])
  /\ Seen
  /\ UNCHANGED <<mainVars, workerPc, fdOf, canceling, closing, sending, sq, requests, socket,
                 crashed>>

(* Session::OnRecv with cqe.res <= 0 *)
OnRecvEnd ==
  /\ Handles("recv") /\ Head(cq).res = "end"
  /\ object[Head(cq).session] = "live"
  /\ Close(Owner, Head(cq).session, FALSE, sending[Head(cq).session])
  /\ Seen
  /\ UNCHANGED <<mainVars, workerPc, sessions, fdOf, object, canceling, closing, sending, sq,
                 requests, socket, crashed>>

OnRecvCancel ==
  /\ Handles("recv_cancel")
  /\ object[Head(cq).session] = "live"
  /\ Close(Owner, Head(cq).session, TRUE, sending[Head(cq).session])
  /\ Seen
  /\ UNCHANGED <<mainVars, workerPc, sessions, fdOf, object, canceling, closing, sending, sq,
                 requests, socket, crashed>>

(* Session::OnSend: the queue is empty and Close(true) may close, ... *)
OnSendDone ==
  /\ Handles("send") /\ Head(cq).res = "ok"
  /\ LET s == Head(cq).session IN
       /\ object[s] = "live"
       /\ sending' = [sending EXCEPT ![s] = "idle"]
       /\ Close(Owner, s, TRUE, "idle")
  /\ Seen
  /\ UNCHANGED <<mainVars, workerPc, sessions, fdOf, object, canceling, closing, sq, requests,
                 socket, crashed>>

(* ... or there is more to send, and Close(true) returns, ... *)
OnSendMore ==
  /\ Handles("send") /\ Head(cq).res = "ok"
  /\ LET s == Head(cq).session IN
       /\ object[s] = "live"
       /\ sending' = [sending EXCEPT ![s] = SendState]
       /\ IF SqeAvailable THEN Submit({Request("send", s)}) ELSE UNCHANGED <<sq, requests>>
  /\ Seen
  /\ UNCHANGED <<mainVars, workerPc, sessions, fdOf, object, canceling, closing, about, socket,
                 crashed>>

(* ... or the send failed. *)
OnSendError ==
  /\ Handles("send") /\ Head(cq).res = "end"
  /\ LET s == Head(cq).session IN
       /\ object[s] = "live"
       /\ sending' = [sending EXCEPT ![s] = "stuck"]
       /\ Close(Owner, s, FALSE, "stuck")
  /\ Seen
  /\ UNCHANGED <<mainVars, workerPc, sessions, fdOf, object, canceling, closing, sq, requests,
                 socket, crashed>>

(* A completion whose Session was destroyed: the handler reads freed       *)
(* memory, and either finds nothing to do there or the process crashes.    *)
Stale ==
  /\ Handles("recv") \/ Handles("recv_cancel") \/ Handles("send")
  /\ object[Head(cq).session] = "freed"
  /\ crashed' \in BOOLEAN
  /\ Seen
  /\ UNCHANGED <<mainVars, workerPc, sessions, sessionVars, sq, requests, socket>>

(* REQ_TYPE_SESSION_CLOSE: RemoveSession with the descriptor, ... *)
OnSessionClose ==
  /\ Handles("session_close")
  /\ RemoveSession(fdOf[Head(cq).session])
  /\ workerPc' = "stop"
  /\ UNCHANGED <<mainVars, fdOf, canceling, closing, about, sending, sq, requests, cq,
                 socket, crashed>>

FaultyAfterRemove ==    \* the last session to go does not wake the loop
  /\ Up
  /\ workerPc = "stop"
  /\ workerPc' = "run"
  /\ Seen
  /\ UNCHANGED <<mainVars, sessions, sessionVars, sq, requests, socket, crashed>>

(* ... then StopSQE. *)
AfterRemove ==
  /\ Up
  /\ workerPc = "stop"
  /\ StopSQE
  /\ workerPc' = "run"
  /\ Seen
  /\ UNCHANGED <<mainVars, sessions, sessionVars, socket, crashed>>

(* Worker::OnAcceptCompleted on this worker, for itself, ... *)
OnAcceptCompleted ==
  /\ Handles("accept")
  /\ AddSession(Head(cq).session)
  /\ Seen
  /\ UNCHANGED <<mainVars, workerPc, fdOf, canceling, closing, about, sending, socket, crashed>>

(* ... or on the worker that accepts, which calls AddSession on this one.  *)
OtherThreadAdds ==
  /\ Up
  /\ \E s \in Ids : object[s] = "accepted" /\ AddSession(s)
  /\ UNCHANGED <<mainVars, workerPc, fdOf, canceling, closing, about, sending, cq, socket,
                 crashed>>

Run ==
  \/ Exit \/ CloseSubmits(Owner)
  \/ OnRecv \/ OnRecvEnd \/ OnRecvCancel
  \/ OnSendDone \/ OnSendMore \/ OnSendError
  \/ Stale
  \/ OnSessionClose \/ AfterRemove

SessionAdded == IF OwnAccept THEN OnAcceptCompleted ELSE OtherThreadAdds

(* The threads of other workers: Room::Broadcast, StartGame and            *)
(* UpdateRoomBroadcast send to members that live here.                     *)
OthersSend(t) ==
  /\ Up
  /\ mainPc # "done"
  /\ about[t] = None
  /\ \E s \in Ids : Send(s) \/ SendFails(t, s)
  /\ UNCHANGED <<mainVars, workerPc, sessions, fdOf, object, canceling, cq, socket, crashed>>

-------------------------------------------------------------------------------
(* The main thread: the end of main() and ThreadManager::Stop.             *)

MainStep(from, to) == Up /\ mainPc = from /\ mainPc' = to

(* The listener is closed: no connection arrives any more, and those that  *)
(* had arrived were handled before its completion.                         *)
ListenerClosed ==
  /\ MainStep("up", "closed")
  /\ UNCHANGED <<running, visited, target, workerPc, sessions, sessionVars, sq, requests, cq,
                 socket, crashed>>

ClearRunning ==
  /\ MainStep("closed", "close")
  /\ \A s \in Ids : object[s] # "accepted"
  /\ running' = FALSE
  /\ UNCHANGED <<visited, target, workerPc, sessions, sessionVars, sq, requests, cq, socket,
                 crashed>>

(* SessionManager::Close: nothing to do for an empty map *)
CloseSessions ==
  /\ MainStep("close", IF MappedSessions = {} THEN "nop" ELSE "iterate")
  /\ UNCHANGED <<running, visited, target, workerPc, sessions, sessionVars, sq, requests, cq,
                 socket, crashed>>

(* Session::StartClose(false) on the next session of the map: prepare the  *)
(* cancel request without submitting it, if there is room, ...             *)
StartClose ==
  /\ Up
  /\ mainPc = "iterate"
  /\ \E s \in MappedSessions \ visited :
       /\ visited' = visited \cup {s}
       /\ IF s \in canceling \/ ~ SqeAvailable
          THEN UNCHANGED <<mainPc, target, sq>>
          ELSE /\ mainPc' = "mark" /\ target' = s
               /\ sq' = sq \cup {Request("cancel", s)}
  /\ UNCHANGED <<running, workerPc, sessions, sessionVars, requests, cq, socket, crashed>>

FaultyMarkCanceling ==    \* the session is forgotten before it is marked
  /\ MainStep("mark", "iterate")
  /\ target' = None
  /\ canceling' = canceling \cup {target'}
  /\ UNCHANGED <<running, visited, workerPc, sessions, fdOf, object, closing, about, sending, sq,
                 requests, cq, socket, crashed>>

(* ... then set canceling.  The worker may have destroyed the session. *)
MarkCanceling ==
  /\ MainStep("mark", "iterate")
  /\ canceling' = canceling \cup {target}
  /\ target' = None
  /\ crashed' \in (IF object[target] = "freed" THEN BOOLEAN ELSE {FALSE})
  /\ UNCHANGED <<running, visited, workerPc, sessions, fdOf, object, closing, about, sending, sq,
                 requests, cq, socket>>

EndOfMap ==
  /\ MainStep("iterate", "submit")
  /\ MappedSessions \subseteq visited
  /\ UNCHANGED <<running, visited, target, workerPc, sessions, sessionVars, sq, requests, cq,
                 socket, crashed>>

SubmitCancels ==
  /\ MainStep("submit", "nop")
  /\ Submit({})
  /\ UNCHANGED <<running, visited, target, workerPc, sessions, sessionVars, cq, socket, crashed>>

(* Worker::Stop: StopSQE *)
Stop ==
  /\ MainStep("nop", "join")
  /\ StopSQE
  /\ UNCHANGED <<running, visited, target, workerPc, sessions, sessionVars, cq, socket, crashed>>

(* Worker::Join: the thread has ended and the ring is torn down. *)
Join ==
  /\ MainStep("join", "done")
  /\ workerPc = "exited"
  /\ sq' = {} /\ requests' = {} /\ cq' = <<>>
  /\ UNCHANGED <<running, visited, target, workerPc, sessions, sessionVars, socket, crashed>>

Main ==
  \/ ClearRunning \/ CloseSessions \/ StartClose \/ MarkCanceling \/ EndOfMap
  \/ SubmitCancels \/ Stop \/ Join

-------------------------------------------------------------------------------
Next ==
  \/ KernelAccept \/ KernelData \/ KernelDisconnect \/ KernelSend
  \/ \E s \in Ids : KernelCancel(s)
  \/ \E r \in requests : KernelComplete(r)
  \/ Run \/ SessionAdded
  \/ \E t \in Others : OthersSend(t) \/ CloseSubmits(t)
  \/ ListenerClosed \/ Main

(* The threads run, and the kernel completes what depends on nobody else.  *)
(* Nothing is promised of the peers: connections, data, disconnections and *)
(* the progress of a send; nor that the server is ever told to stop.       *)
Fairness ==
  /\ WF_vars(Run)
  /\ WF_vars(SessionAdded)
  /\ WF_vars(Main)
  /\ \A t \in Others : WF_vars(CloseSubmits(t))
  /\ \A s \in Ids : WF_vars(KernelCancel(s))
  /\ \A r \in Requests : WF_vars(KernelComplete(r))

Spec == Init /\ [][Next]_vars /\ Fairness

-------------------------------------------------------------------------------
(* A descriptor is closed only for the session whose connection it is, and *)
(* that some thread's Close has asked for: a close frees the connection of *)
(* another session, which has reused the descriptor, only if two threads   *)
(* closed one session of that descriptor, because closing is tested and    *)
(* set without a lock (Session.cpp:245-248).                               *)
Twice(s) == \E t, u \in closing[s] : t # u

ClosesOwnSocket ==
  [][\A f \in Fds :
       socket[f] # None /\ socket'[f] = None =>
         closing[socket[f]] # {} \/ \E s \in Ids : fdOf[s] = f /\ Twice(s)]_vars

(* A Session is destroyed only when its connection has been closed,        *)
(* although SESSION_CLOSE removes whatever session the descriptor maps to  *)
(* and several closes may be under way: with accepts in the worker's own   *)
(* completion queue the completions of a descriptor's accepts and closes   *)
(* are handled in the order in which the kernel did them.                  *)
DestroyedWhenClosed ==
  [][\A s \in Ids : object[s] = "live" /\ object'[s] = "freed" => socket[fdOf[s]] # s]_vars

(* After the join every connection is closed: no session was lost from the *)
(* map and no close was left unsubmitted.                                  *)
NothingOpenAfterJoin ==
  mainPc = "done" => \A f \in Fds : socket[f] = None

(* ThreadManager::Stop returns, whatever the peers do: every session is    *)
(* canceled and closed, and the last one removed, or Stop itself, wakes    *)
(* the thread in io_uring_wait_cqe.                                        *)
ShutdownCompletes == (mainPc = "close") ~> (mainPc = "done" \/ crashed)

(* A session whose receive has ended is destroyed. *)
Disconnected(s) ==
  /\ object[s] = "live"
  /\ \E i \in 1 .. Len(cq) : cq[i] = Cqe("recv", s, "end")

DisconnectedIsRemoved ==
  \A s \in Ids : Disconnected(s) ~> (object[s] = "freed" \/ crashed)
===============================================================================
