---------------------------------- MODULE Server ----------------------------------
(***************************************************************************)
(* The whole process from ThreadManager::Launch to the join: main(), the   *)
(* Listener, whose socket and multishot accept live in the ring of the     *)
(* first worker, that worker's thread (worker 0), which hands every        *)
(* connection to a worker of the vector, and one of the other workers, in  *)
(* full, as module Worker has it.                                          *)
(*                                                                         *)
(* Module Worker assumes of its surroundings that connections come only    *)
(* while main waits for the signal, and that all of them have been added   *)
(* when main stops the workers.  Here main, the listener and worker 0 are  *)
(* the surroundings, and that is a property.                               *)
(***************************************************************************)
EXTENDS Worker

CONSTANTS
  NumWorkers,   \* std::thread::hardware_concurrency(); the last one is modelled
  MaxAccepts    \* bound: connections that arrive

ASSUME ServerAssumption ==
  /\ NumWorkers \in Nat \ {0, 1}
  /\ MaxAccepts \in 0 .. MaxSessions
  /\ ~ OwnAccept

VARIABLES
  phase,            \* main: "starting" or "growing" (the vector) in Launch,
                    \* "running", "waiting" for the listener, "stopping"
  size,             \* ThreadManager::workers.size()
  listenerRunning,  \* Listener::Listener_running
  accept,           \* the multishot accept: "none"; "chain": behind the
                    \* set-up chain; "armed"; "canceled"; "ended"
  slot,             \* the registered file 0 is the listening socket
  stopping,         \* StartStop's link: "no", "cancel", "close" or "done"
  cq0,              \* completions in the ring of worker 0, oldest first
  worker0,          \* the thread of worker 0: "run", "adding" or "exited"
  accepts,          \* connections that have arrived
  early,            \* the signal came before the set-up had been handled
  addedEarly        \* history: the sessions added while the completion of a
                    \* close of their descriptor was still to be handled

mainPhase    == <<phase, size>>
listenerVars == <<accept, slot, stopping, accepts>>
serverVars   == <<mainPhase, listenerVars, listenerRunning, cq0, worker0, early,
                  addedEarly>>
allVars      == <<vars, serverVars>>

NoFd == None

Cqe0(type, res, fd) == [type |-> type, res |-> res, fd |-> fd]
Cqes0 == [type : {"setup", "accept", "accept_cancel", "listener_close"},
          res : {"ok", "end"}, fd : Fds \cup {NoFd}]

ServerTypeOK ==
  /\ TypeOK
  /\ phase \in {"starting", "growing", "running", "waiting", "stopping"}
  /\ size \in 0 .. NumWorkers
  /\ listenerRunning \in BOOLEAN
  /\ accept \in {"none", "chain", "armed", "canceled", "ended"}
  /\ slot \in BOOLEAN
  /\ stopping \in {"no", "cancel", "close", "done"}
  /\ cq0 \in Seq(Cqes0)
  /\ worker0 \in {"run", "adding", "exited"}
  /\ accepts \in 0 .. MaxAccepts
  /\ early \in BOOLEAN
  /\ addedEarly \subseteq Ids

ServerInit ==
  /\ Init
  /\ phase = "starting" /\ size = 0
  /\ listenerRunning = FALSE
  /\ accept = "none" /\ slot = FALSE /\ stopping = "no"
  /\ cq0 = <<>>
  /\ worker0 = "run"
  /\ accepts = 0
  /\ early = FALSE
  /\ addedEarly = {}

(* Bound: after a signal that came before the set-up had been handled no   *)
(* more connections arrive, and main is followed until it stops waiting.   *)
Followed == ~ early

-------------------------------------------------------------------------------
(* main() and ThreadManager::Launch.                                       *)

(* The next worker is created and started; the first one gets the set-up   *)
(* chain and the accept behind it (Listener::StartAccept).                 *)
StartWorker ==
  /\ Up /\ phase = "starting"
  /\ phase' = "growing"
  /\ accept' = IF size = 0 THEN "chain" ELSE accept
  /\ UNCHANGED <<vars, size, slot, stopping, accepts, listenerRunning, cq0, worker0, early, addedEarly>>

FaultyEmplaceBack ==    \* one worker too many
  /\ Up /\ phase = "growing"
  /\ size' = size + 1
  /\ phase' = IF size = NumWorkers THEN "running" ELSE "starting"
  /\ UNCHANGED <<vars, listenerVars, listenerRunning, cq0, worker0, early, addedEarly>>

(* workers.emplace_back returns. *)
EmplaceBack ==
  /\ Up /\ phase = "growing"
  /\ size' = size + 1
  /\ phase' = IF size' = NumWorkers THEN "running" ELSE "starting"
  /\ UNCHANGED <<vars, listenerVars, listenerRunning, cq0, worker0, early, addedEarly>>

(* The signal: ThreadManager::ListenerStop, Listener::StartStop. *)
ListenerStop ==
  /\ Up /\ phase = "running"
  /\ phase' = "waiting"
  /\ stopping' = "cancel"
  /\ early' = ~ listenerRunning
  /\ UNCHANGED <<vars, size, accept, slot, accepts, listenerRunning, cq0, worker0, addedEarly>>

FaultyListenerWaitEnds ==    \* main does not wait for the listener
  /\ phase = "waiting"
  /\ phase' = "stopping"
  /\ ListenerClosed
  /\ UNCHANGED <<size, listenerVars, listenerRunning, cq0, worker0, early, addedEarly>>

(* The loop on GetListenerRunning ends. *)
ListenerWaitEnds ==
  /\ phase = "waiting" /\ ~ listenerRunning
  /\ phase' = "stopping"
  /\ ListenerClosed
  /\ UNCHANGED <<size, listenerVars, listenerRunning, cq0, worker0, early, addedEarly>>

(* ThreadManager::Stop, from its first statement; worker 0 is joined first. *)
StopBegins ==
  /\ MainStep("closed", "close") /\ Followed
  /\ running' = FALSE
  /\ UNCHANGED <<visited, target, workerPc, sessions, sessionVars, sq, requests, cq, socket,
                 crashed>>

JoinAll == worker0 = "exited" /\ Join

ThreadManagerStop ==
  /\ \/ StopBegins
     \/ CloseSessions \/ StartClose \/ MarkCanceling \/ EndOfMap \/ SubmitCancels \/ Stop
     \/ JoinAll
  /\ UNCHANGED serverVars

MainProgram ==
  StartWorker \/ EmplaceBack \/ ListenerWaitEnds \/ ThreadManagerStop

-------------------------------------------------------------------------------
(* The kernel, for the ring of worker 0.                                   *)

(* The chain of socket, setsockopt, bind and listen succeeds and the       *)
(* accept is armed, or it fails at some link, and with it the accept.      *)
SetUp ==
  /\ Up /\ accept = "chain"
  /\ \/ /\ slot' = TRUE /\ accept' = "armed"
        /\ cq0' = Append(cq0, Cqe0("setup", "ok", NoFd))
     \/ /\ slot' \in BOOLEAN /\ accept' = "ended"
        /\ cq0' = cq0 \o <<Cqe0("setup", "end", NoFd), Cqe0("accept", "end", NoFd)>>
  /\ UNCHANGED <<vars, mainPhase, listenerRunning, stopping, worker0, accepts, early, addedEarly>>

PendingFds == {cq0[i].fd : i \in 1 .. Len(cq0)}

(* A connection is accepted; the multishot may end with it. *)
Accept ==
  /\ Up /\ Followed /\ accept = "armed" /\ accepts < MaxAccepts
  /\ accepts' = accepts + 1
  /\ accept' \in {"armed", "ended"}
  /\ \E f \in Fds \ PendingFds :
       socket[f] = None /\ cq0' = Append(cq0, Cqe0("accept", "ok", f))
  /\ UNCHANGED <<vars, mainPhase, listenerRunning, slot, stopping, worker0, early, addedEarly>>

(* The accept fails and ends. *)
AcceptFails ==
  /\ Up /\ accept = "armed"
  /\ accept' = "ended"
  /\ cq0' = Append(cq0, Cqe0("accept", "end", NoFd))
  /\ UNCHANGED <<vars, mainPhase, listenerRunning, slot, stopping, worker0, accepts, early, addedEarly>>

FaultyCancelAccept ==    \* only the socket is closed; the accept holds it
  /\ Up /\ stopping = "cancel" /\ accept # "chain"
  /\ stopping' = "close"
  /\ UNCHANGED <<vars, mainPhase, listenerRunning, accept, cq0, slot, worker0, accepts, early, addedEarly>>

(* StartStop's cancel ends the accept; only its failure is completed.  The *)
(* set-up chain, submitted before, has been executed.                      *)
CancelAccept ==
  /\ Up /\ stopping = "cancel" /\ accept # "chain"
  /\ stopping' = "close"
  /\ IF accept = "armed"
     THEN accept' = "canceled" /\ UNCHANGED cq0
     ELSE cq0' = Append(cq0, Cqe0("accept_cancel", "end", NoFd)) /\ UNCHANGED accept
  /\ UNCHANGED <<vars, mainPhase, listenerRunning, slot, worker0, accepts, early, addedEarly>>

(* The cancelled accept completes, before or after the close. *)
AcceptCanceled ==
  /\ Up /\ accept = "canceled"
  /\ accept' = "ended"
  /\ cq0' = Append(cq0, Cqe0("accept", "end", NoFd))
  /\ UNCHANGED <<vars, mainPhase, listenerRunning, slot, stopping, worker0, accepts, early, addedEarly>>

(* The hard-linked close_direct; it fails if the slot is empty. *)
CloseListener ==
  /\ Up /\ stopping = "close"
  /\ stopping' = "done"
  /\ slot' = FALSE
  /\ cq0' = Append(cq0, Cqe0("listener_close", IF slot THEN "ok" ELSE "end", NoFd))
  /\ UNCHANGED <<vars, mainPhase, listenerRunning, accept, worker0, accepts, early, addedEarly>>

-------------------------------------------------------------------------------
(* The thread of worker 0: Worker::Run and HandleCompletion.               *)

Handles0(type) == Up /\ worker0 = "run" /\ cq0 # <<>> /\ Head(cq0).type = type
Seen0 == cq0' = Tail(cq0)

(* REQ_TYPE_SOCKET_SETUP_CHAIN_START, whatever its result: OnListenerStart. *)
OnListenerStart ==
  /\ Handles0("setup")
  /\ listenerRunning' = TRUE
  /\ Seen0
  /\ UNCHANGED <<vars, mainPhase, listenerVars, worker0, early, addedEarly>>

FaultyOnListenerClosed ==    \* only if the socket was closed
  /\ Handles0("listener_close")
  /\ listenerRunning' = (Head(cq0).res = "ok" => FALSE)
  /\ Seen0
  /\ UNCHANGED <<vars, mainPhase, listenerVars, worker0, early, addedEarly>>

(* REQ_TYPE_LISTENER_CLOSE, whatever its result: OnListenerClosed. *)
OnListenerClosed ==
  /\ Handles0("listener_close")
  /\ listenerRunning' = FALSE
  /\ Seen0
  /\ UNCHANGED <<vars, mainPhase, listenerVars, worker0, early, addedEarly>>

(* An accept that failed is not armed again. *)
OnAcceptEnd ==
  /\ Handles0("accept") \/ Handles0("accept_cancel")
  /\ Head(cq0).res = "end"
  /\ Seen0
  /\ UNCHANGED <<vars, mainPhase, listenerVars, listenerRunning, worker0, early, addedEarly>>

(* OnAcceptCompleted: GetRandomWorker picks a worker of the vector, which  *)
(* is not the modelled one, ...                                            *)
AcceptElsewhere ==
  /\ Handles0("accept") /\ Head(cq0).res = "ok"
  /\ phase # "growing" /\ size > 0
  /\ Seen0
  /\ UNCHANGED <<vars, mainPhase, listenerVars, listenerRunning, worker0, early, addedEarly>>

(* ... or is: the Session is made, ... *)
AcceptHere ==
  /\ Handles0("accept") /\ Head(cq0).res = "ok"
  /\ size = NumWorkers
  /\ LET f == Head(cq0).fd IN
       \E s \in Ids :
         /\ object[s] = "none" /\ \A t \in Ids : t < s => object[t] # "none"
         /\ socket' = [socket EXCEPT ![f] = s]
         /\ fdOf' = [fdOf EXCEPT ![s] = f]
         /\ object' = [object EXCEPT ![s] = "accepted"]
  /\ worker0' = "adding"
  /\ UNCHANGED <<mainVars, workerPc, sessions, canceling, closing, about, sending, sq, requests,
                 cq, crashed, mainPhase, listenerVars, listenerRunning, cq0, early, addedEarly>>

(* REQ_TYPE_SESSION_CLOSE for f waits: it removes what f maps to then. *)
ClosePending(f) ==
  \E i \in 1 .. Len(cq) :
    /\ cq[i].type = "session_close" /\ fdOf[cq[i].session] = f
    /\ i = 1 => workerPc # "stop"

(* ... and added.  From here the session belongs to its worker. *)
AddHere ==
  /\ worker0 = "adding"
  /\ OtherThreadAdds
  /\ addedEarly' = addedEarly \cup {s \in Ids : object[s] = "accepted" /\ ClosePending(fdOf[s])}
  /\ worker0' = "run"
  /\ Seen0
  /\ UNCHANGED <<mainPhase, listenerVars, listenerRunning, early>>

(* The vector is empty, or main is changing it: undefined.  The process    *)
(* crashes, or some worker gets the session.                               *)
AcceptRaces ==
  /\ Handles0("accept") /\ Head(cq0).res = "ok"
  /\ phase = "growing" \/ size = 0
  /\ crashed' \in BOOLEAN
  /\ Seen0
  /\ UNCHANGED <<mainVars, workerPc, sessions, sessionVars, sq, requests, cq, socket,
                 mainPhase, listenerVars, listenerRunning, worker0, early, addedEarly>>

(* The loop ends at a completion that finds running false and the worker   *)
(* without sessions.  That this happens is what Worker shows of a worker   *)
(* that accepts.                                                           *)
Exit0 ==
  /\ Up /\ worker0 = "run" /\ ~ running
  /\ worker0' = "exited"
  /\ UNCHANGED <<vars, mainPhase, listenerVars, listenerRunning, cq0, early, addedEarly>>

Run0 ==
  \/ OnListenerStart \/ OnListenerClosed \/ OnAcceptEnd
  \/ AcceptElsewhere \/ AcceptHere \/ AddHere \/ AcceptRaces

-------------------------------------------------------------------------------
(* The modelled worker, the kernel that serves its ring and the threads of *)
(* other workers, worker 0's among them, as in Worker.                     *)
ThisWorker ==
  /\ \/ KernelData \/ KernelDisconnect \/ KernelSend
     \/ \E s \in Ids : KernelCancel(s)
     \/ \E r \in requests : KernelComplete(r)
     \/ Run
     \/ \E t \in Others : OthersSend(t) \/ CloseSubmits(t)
  /\ UNCHANGED serverVars

ServerNext ==
  \/ ListenerStop \/ MainProgram
  \/ SetUp \/ Accept \/ AcceptFails \/ CancelAccept \/ AcceptCanceled \/ CloseListener
  \/ Run0 \/ Exit0
  \/ ThisWorker

(* The threads run and the kernel completes what it has been given.  The   *)
(* signal and the connections may never come.                              *)
ServerFairness ==
  /\ WF_allVars(MainProgram)
  /\ WF_allVars(SetUp) /\ WF_allVars(CancelAccept) /\ WF_allVars(CloseListener)
  /\ WF_allVars(Run0) /\ WF_allVars(Exit0)
  /\ WF_allVars(Run /\ UNCHANGED serverVars)
  /\ \A t \in Others : WF_allVars(CloseSubmits(t) /\ UNCHANGED serverVars)
  /\ \A s \in Ids : WF_allVars(KernelCancel(s) /\ UNCHANGED serverVars)
  /\ \A r \in Requests : WF_allVars(KernelComplete(r) /\ UNCHANGED serverVars)

ServerSpec == ServerInit /\ [][ServerNext]_allVars /\ ServerFairness

-------------------------------------------------------------------------------
(* Unless the signal comes before the set-up has been handled, or the      *)
(* vector is read while Launch fills it, main, the listener and worker 0   *)
(* give a worker the surroundings that Worker assumes: connections only    *)
(* before main stops waiting, and every one of them added before _running  *)
(* is cleared.                                                             *)
ImplementsWorker == [][early' \/ AcceptRaces \/ Next]_vars

(* No accepted connection is left behind: when the workers are joined no   *)
(* completion of the accept waits, and a connection is open only if its    *)
(* session was added while a REQ_TYPE_SESSION_CLOSE of the same descriptor *)
(* was still to be handled by the worker, which then removes the new       *)
(* session instead (Worker.cpp:185-186).  A reuse after that completion    *)
(* loses nothing.                                                          *)
NoConnectionLeft ==
  mainPc = "done" /\ ~ early =>
    /\ PendingFds \subseteq {NoFd}
    /\ \A f \in Fds : socket[f] = None \/ socket[f] \in addedEarly

(* After the signal the server stops: also when the socket could not be    *)
(* set up, the accept had ended, or connections arrive meanwhile.          *)
ServerStops == (phase = "waiting") ~> (mainPc = "done" \/ crashed \/ early)
===============================================================================
