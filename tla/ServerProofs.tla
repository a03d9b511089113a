------------------------------ MODULE ServerProofs ------------------------------
(***************************************************************************)
(* Proofs about Server, for any number of workers, connections and         *)
(* descriptors: main, the listener and worker 0 give a worker the          *)
(* surroundings that module Worker assumes, so that what WorkerProofs      *)
(* shows of a worker holds in the process, as long as the signal does not  *)
(* come before the set-up has been handled.                                *)
(***************************************************************************)
EXTENDS Server, WorkerProofs

(* The completion of a connection. *)
Connects(c) == c.type = "accept" /\ c.res = "ok"

(* Launch fills the vector, the signal starts the stop of the listener,    *)
(* and its end that of the workers.                                        *)
PhaseInv ==
  /\ phase \in {"starting", "growing"} => size < NumWorkers
  /\ stopping # "no" <=> phase \in {"waiting", "stopping"}
  /\ mainPc = "up" <=> phase # "stopping"
  /\ early => phase \in {"waiting", "stopping"}

(* No connection follows the completion of the listener's close: by then   *)
(* the accept has been cancelled or had ended.                             *)
ListenerInv ==
  /\ stopping \in {"close", "done"} => accept \notin {"chain", "armed"}
  /\ \A i \in 1 .. Len(cq0) : cq0[i].type = "listener_close" =>
       /\ stopping = "done"
       /\ \A j \in 1 .. Len(cq0) : Connects(cq0[j]) => j < i

(* The connections that wait for worker 0 have descriptors of their own,   *)
(* and the one that is being added is the first.                           *)
QueueInv ==
  /\ \A i \in 1 .. Len(cq0) : cq0[i].fd # NoFd => Connects(cq0[i])
  /\ \A i \in 1 .. Len(cq0) : Connects(cq0[i]) =>
       cq0[i].fd \in Fds /\ (socket[cq0[i].fd] = None \/ (i = 1 /\ worker0 = "adding"))
  /\ \A i, j \in 1 .. Len(cq0) :
       Connects(cq0[i]) /\ Connects(cq0[j]) /\ cq0[i].fd = cq0[j].fd => i = j
  /\ worker0 = "adding" => cq0 # <<>> /\ Connects(Head(cq0))
  /\ \A s \in Ids : object[s] = "accepted" => worker0 = "adding"
  /\ \A s, t \in Ids : object[s] = "accepted" /\ object[t] = "accepted" => s = t

(* The listener is closed and no connection waits. *)
AllHandled ==
  stopping = "done" /\ \A i \in 1 .. Len(cq0) : ~ Connects(cq0[i])

(* main stops waiting only then, unless the signal came early. *)
HandledInv ==
  phase = "stopping" \/ (phase = "waiting" /\ ~ listenerRunning) => AllHandled

ServerInv ==
  /\ TypeInv /\ ServerTypeOK
  /\ PhaseInv /\ ListenerInv /\ QueueInv
  /\ ~ early => IInv /\ HandledInv

LEMMA InitServerInv == ServerInit => ServerInv
<1> SUFFICES ASSUME ServerInit PROVE ServerInv
  OBVIOUS
<1>1. IInv
  BY InitIInv DEF ServerInit
<1>2. ServerTypeOK
  <2>1. cq0 \in Seq(Cqes0)
    BY EmptySeq DEF ServerInit
  <2>2. 0 \in 0 .. NumWorkers /\ 0 \in 0 .. MaxAccepts
    BY ServerAssumption, WorkerAssumption DEF ServerAssumption, WorkerAssumption
  <2> QED
    BY <1>1, <2>1, <2>2 DEF ServerInit, ServerTypeOK, IInv, TypeInv
<1>3. PhaseInv /\ ListenerInv /\ QueueInv /\ HandledInv
  BY ServerAssumption DEF ServerInit, Init, ServerAssumption, PhaseInv, ListenerInv, QueueInv, HandledInv
<1> QED
  BY <1>1, <1>2, <1>3 DEF ServerInv, IInv

-------------------------------------------------------------------------------
(* The queue of worker 0: the steps that add to it what is not a           *)
(* connection, ...                                                         *)
Extends(q, r) ==
  /\ Len(q) \in Nat /\ Len(r) \in Nat /\ Len(q) <= Len(r)
  /\ \A i \in 1 .. Len(q) : r[i] = q[i]
  /\ \A i \in Len(q) + 1 .. Len(r) : ~ Connects(r[i]) /\ r[i].fd = NoFd

LEMMA Extend ==
  ASSUME NEW q \in Seq(Cqes0), NEW c \in Cqes0, ~ Connects(c), c.fd = NoFd
  PROVE  Append(q, c) \in Seq(Cqes0) /\ Extends(q, Append(q, c))
BY AppendFacts DEF Extends

LEMMA ExtendTwice ==
  ASSUME NEW q \in Seq(Cqes0), NEW c \in Cqes0, NEW d \in Cqes0,
         ~ Connects(c), c.fd = NoFd, ~ Connects(d), d.fd = NoFd
  PROVE  /\ q \o <<c, d>> \in Seq(Cqes0) /\ Extends(q, q \o <<c, d>>)
         /\ \A i \in Len(q) + 1 .. Len(q \o <<c, d>>) : (q \o <<c, d>>)[i] \in {c, d}
<1>1. /\ Len(q) \in Nat /\ q \o <<c, d>> \in Seq(Cqes0) /\ Len(q \o <<c, d>>) = Len(q) + 2
      /\ \A i \in 1 .. Len(q) : (q \o <<c, d>>)[i] = q[i]
      /\ (q \o <<c, d>>)[Len(q) + 1] = c /\ (q \o <<c, d>>)[Len(q) + 2] = d
  OBVIOUS
<1> QED
  BY <1>1 DEF Extends

(* ... and the head that a handler takes away. *)
LEMMA TailShift ==
  ASSUME NEW q \in Seq(Cqes0), q # <<>>
  PROVE  /\ Len(q) \in Nat \ {0} /\ Head(q) = q[1] /\ Tail(q) \in Seq(Cqes0)
         /\ Len(Tail(q)) = Len(q) - 1
         /\ \A i \in 1 .. Len(Tail(q)) :
              Tail(q)[i] = q[i + 1] /\ i + 1 \in 1 .. Len(q) /\ i + 1 # 1
BY TailFacts

LEMMA NewCqes ==
  /\ \A type \in {"setup", "accept", "accept_cancel", "listener_close"}, res \in {"ok", "end"} :
       /\ Cqe0(type, res, NoFd) \in Cqes0 /\ Cqe0(type, res, NoFd).fd = NoFd
       /\ Cqe0(type, res, NoFd).type = type
       /\ Connects(Cqe0(type, res, NoFd)) <=> type = "accept" /\ res = "ok"
  /\ \A f \in Fds : /\ Cqe0("accept", "ok", f) \in Cqes0 /\ Connects(Cqe0("accept", "ok", f))
                    /\ Cqe0("accept", "ok", f).fd = f /\ Cqe0("accept", "ok", f).type = "accept"
BY DEF Cqe0, Cqes0, NoFd, Connects

(* Steps of main and of this worker leave the listener alone, open no      *)
(* connection and make no Session.                                         *)
WorkerSteps == ThisWorker \/ ThreadManagerStop \/ ListenerWaitEnds

LEMMA WorkerStepEffect ==
  ASSUME TypeOK, WorkerSteps
  PROVE  /\ UNCHANGED <<size, listenerVars, listenerRunning, cq0, worker0, early, addedEarly>>
         /\ \A f \in Fds : socket[f] = None => socket'[f] = None
         /\ \A s \in Ids : object'[s] = "accepted" => object[s] = "accepted"
<1>1. UNCHANGED <<size, listenerVars, listenerRunning, cq0, worker0, early, addedEarly>>
  BY DEF WorkerSteps, ThisWorker, ThreadManagerStop, ListenerWaitEnds, serverVars, mainPhase, listenerVars
<1>2. CASE UNCHANGED <<object, socket>>
  BY <1>1, <1>2
<1>3. CASE OnSessionClose
  BY <1>1, <1>3 DEF OnSessionClose, RemoveSession
<1>4. ASSUME NEW r \in requests, KernelComplete(r)
      PROVE  /\ \A f \in Fds : socket[f] = None => socket'[f] = None
             /\ \A s \in Ids : object'[s] = "accepted" => object[s] = "accepted"
  <2>1. object' = object
    BY <1>4 DEF KernelComplete, sessionVars
  <2>2. socket' = socket \/ socket' = [socket EXCEPT ![fdOf[r.session]] = None]
    BY <1>4 DEF KernelComplete
  <2> QED
    BY <2>1, <2>2 DEF TypeOK
<1>5. ThreadManagerStop \/ ListenerWaitEnds => UNCHANGED <<object, socket>>
  BY DEF ThreadManagerStop, ListenerWaitEnds, ListenerClosed, StopBegins, CloseSessions, StartClose,
         MarkCanceling, EndOfMap, SubmitCancels, Stop, JoinAll, Join, sessionVars
<1>6. KernelData \/ KernelDisconnect \/ KernelSend \/ (\E s \in Ids : KernelCancel(s)) \/ Exit \/ OnRecv
        \/ OnRecvEnd \/ OnRecvCancel \/ OnSendDone \/ OnSendMore \/ OnSendError \/ Stale \/ AfterRemove
        \/ (\E t \in Others : OthersSend(t)) \/ (\E t \in Threads : CloseSubmits(t))
        => UNCHANGED <<object, socket>>
  BY DEF KernelData, KernelDisconnect, KernelSend, KernelCancel, Exit, OnRecv, OnRecvEnd, OnRecvCancel,
         OnSendDone, OnSendMore, OnSendError, Stale, AfterRemove, OthersSend, CloseSubmits, sessionVars
<1> QED
  BY <1>1, <1>2, <1>3, <1>4, <1>5, <1>6 DEF WorkerSteps, ThisWorker, Run, Threads

-------------------------------------------------------------------------------
(* Every step is one that module Worker has.                               *)

LEMMA ConnectionHead ==
  ASSUME ServerInv, cq0 # <<>>, Connects(Head(cq0))
  PROVE  /\ Head(cq0).fd \in Fds
         /\ worker0 # "adding" => socket[Head(cq0).fd] = None
         /\ ~ AllHandled
         /\ ~ early => mainPc = "up"
<1>1. cq0 \in Seq(Cqes0) /\ Len(cq0) \in Nat \ {0} /\ Head(cq0) = cq0[1] /\ 1 \in 1 .. Len(cq0)
  BY TailShift DEF ServerInv, ServerTypeOK
<1>2. Head(cq0).fd \in Fds /\ (worker0 # "adding" => socket[Head(cq0).fd] = None)
  BY <1>1 DEF ServerInv, QueueInv
<1>3. ~ AllHandled
  BY <1>1 DEF AllHandled
<1> QED
  BY <1>2, <1>3 DEF ServerInv, HandledInv, PhaseInv

LEMMA ServerSteps ==
  ASSUME ServerInv, ServerNext
  PROVE  Next \/ UNCHANGED vars \/ AcceptRaces \/ (early /\ AcceptHere)
<1>1. ListenerStop \/ StartWorker \/ EmplaceBack \/ SetUp \/ Accept \/ AcceptFails \/ CancelAccept
        \/ AcceptCanceled \/ CloseListener \/ OnListenerStart \/ OnListenerClosed \/ OnAcceptEnd
        \/ AcceptElsewhere \/ Exit0 => UNCHANGED vars
  BY DEF ListenerStop, StartWorker, EmplaceBack, SetUp, Accept, AcceptFails, CancelAccept, AcceptCanceled,
         CloseListener, OnListenerStart, OnListenerClosed, OnAcceptEnd, AcceptElsewhere, Exit0
<1>2. ListenerWaitEnds \/ ThisWorker => Next
  BY DEF ListenerWaitEnds, ThisWorker, Next
<1>3. CASE ThreadManagerStop
  <2>1. CASE StopBegins
    <3>1. ~ early /\ phase = "stopping"
      BY <2>1 DEF StopBegins, MainStep, Followed, ServerInv, PhaseInv
    <3>2. \A s \in Ids : object[s] # "accepted"
      BY <3>1, ConnectionHead DEF ServerInv, QueueInv, HandledInv
    <3> QED
      BY <2>1, <3>2 DEF StopBegins, ClearRunning, Next, Main
  <2>2. CASE JoinAll
    BY <2>2 DEF JoinAll, Next, Main
  <2> QED
    BY <1>3, <2>1, <2>2 DEF ThreadManagerStop, Next, Main
<1>4. CASE AcceptHere /\ ~ early
  <2>1. PICK f : f = Head(cq0).fd
    OBVIOUS
  <2>2. Up /\ worker0 = "run" /\ cq0 # <<>> /\ Connects(Head(cq0))
    BY <1>4 DEF AcceptHere, Handles0, Connects
  <2>3. f \in Fds /\ socket[f] = None /\ mainPc = "up"
    BY <1>4, <2>1, <2>2, ConnectionHead
  <2>4. ~ OwnAccept
    BY ServerAssumption DEF ServerAssumption
  <2>5. PICK s \in Ids :
          /\ object[s] = "none" /\ \A t \in Ids : t < s => object[t] # "none"
          /\ socket' = [socket EXCEPT ![f] = s]
          /\ fdOf' = [fdOf EXCEPT ![s] = f]
          /\ object' = [object EXCEPT ![s] = "accepted"]
    BY <1>4, <2>1 DEF AcceptHere
  <2>6. UNCHANGED <<mainVars, workerPc, sessions, canceling, closing, about, sending, sq, requests, cq, crashed>>
    BY <1>4 DEF AcceptHere
  <2>7. KernelAccept
    BY <2>2, <2>3, <2>4, <2>5, <2>6 DEF KernelAccept, mainVars
  <2> QED
    BY <2>7 DEF Next
<1>5. AddHere => Next
  BY ServerAssumption DEF ServerAssumption, AddHere, Next, SessionAdded
<1> QED
  BY <1>1, <1>2, <1>3, <1>4, <1>5 DEF ServerNext, MainProgram, Run0

LEMMA NextWorkerInv ==
  ASSUME ServerInv, ServerNext
  PROVE  TypeInv' /\ (~ early => IInv')
<1>1. CASE Next \/ UNCHANGED vars
  BY <1>1, WorkerAssumption, NextTypeInv, NextIInv DEF ServerInv
<1>2. CASE AcceptRaces
  <2>1. UNCHANGED <<mainVars, workerPc, sessions, sessionVars, sq, requests, cq, socket>> /\ crashed' \in BOOLEAN
    BY <1>2 DEF AcceptRaces
  <2>2. TypeInv'
    BY <2>1 DEF ServerInv, TypeInv, TypeOK, RingOK, mainVars, sessionVars
  <2>3. IInv => IInv'
    BY <2>1, <2>2 DEF IInv, LifeInv, CloseInv, Owns, Doubled, Twice, MainInv, mainVars, sessionVars
  <2> QED
    BY <2>2, <2>3 DEF ServerInv
<1>3. CASE early /\ AcceptHere
  <2>1. Head(cq0).fd \in Fds
    BY <1>3, ConnectionHead DEF AcceptHere, Handles0, Connects
  <2>2. PICK s \in Ids :
          /\ socket' = [socket EXCEPT ![Head(cq0).fd] = s]
          /\ fdOf' = [fdOf EXCEPT ![s] = Head(cq0).fd]
          /\ object' = [object EXCEPT ![s] = "accepted"]
    BY <1>3 DEF AcceptHere
  <2>3. UNCHANGED <<mainVars, workerPc, sessions, canceling, closing, about, sending, sq, requests, cq, crashed>>
    BY <1>3 DEF AcceptHere
  <2> QED
    BY <1>3, <2>1, <2>2, <2>3 DEF ServerInv, TypeInv, TypeOK, RingOK, mainVars
<1> QED
  BY <1>1, <1>2, <1>3, ServerSteps

-------------------------------------------------------------------------------
(* The server's own variables.                                             *)

LEMMA NextServerTypes ==
  ASSUME ServerInv, ServerNext
  PROVE  ServerTypeOK'
<1>1. TypeOK' /\ ServerTypeOK /\ cq0 \in Seq(Cqes0)
  BY NextWorkerInv DEF ServerInv, ServerTypeOK, TypeInv
<1> USE DEF mainPhase, listenerVars, serverVars
<1>2. cq0' \in Seq(Cqes0)
  <2>1. CASE cq0' = cq0
    BY <1>1, <2>1
  <2>2. CASE cq0 # <<>> /\ Seen0
    BY <1>1, <2>2, TailShift DEF Seen0
  <2>3. ASSUME NEW c \in Cqes0, cq0' = Append(cq0, c) PROVE cq0' \in Seq(Cqes0)
    BY <1>1, <2>3, AppendFacts
  <2>4. CASE cq0' = cq0 \o <<Cqe0("setup", "end", NoFd), Cqe0("accept", "end", NoFd)>>
    BY <1>1, <2>4, NewCqes, ExtendTwice
  <2>5. SetUp \/ AcceptFails \/ CancelAccept \/ AcceptCanceled \/ CloseListener \/ Accept
        => \/ cq0' = cq0
           \/ \E c \in Cqes0 : cq0' = Append(cq0, c)
           \/ cq0' = cq0 \o <<Cqe0("setup", "end", NoFd), Cqe0("accept", "end", NoFd)>>
    BY NewCqes DEF SetUp, AcceptFails, CancelAccept, AcceptCanceled, CloseListener, Accept
  <2>6. Run0 => (cq0 # <<>> /\ Seen0) \/ cq0' = cq0
    BY DEF Run0, OnListenerStart, OnListenerClosed, OnAcceptEnd, AcceptElsewhere, AcceptHere, AddHere,
           AcceptRaces, Handles0, ServerInv, QueueInv
  <2>7. ListenerStop \/ MainProgram \/ Exit0 \/ ThisWorker => cq0' = cq0
    BY DEF ListenerStop, MainProgram, StartWorker, EmplaceBack, ListenerWaitEnds, ThreadManagerStop, Exit0,
           ThisWorker
  <2> QED
    BY <2>1, <2>2, <2>3, <2>4, <2>5, <2>6, <2>7 DEF ServerNext
<1>3. size' \in 0 .. NumWorkers
  BY <1>1, ServerAssumption
  DEF ServerAssumption, ServerInv, PhaseInv, ServerTypeOK, ServerNext, ListenerStop, MainProgram, StartWorker,
      EmplaceBack, ListenerWaitEnds, ThreadManagerStop, SetUp, Accept, AcceptFails, CancelAccept,
      AcceptCanceled, CloseListener, Run0, OnListenerStart, OnListenerClosed, OnAcceptEnd, AcceptElsewhere,
      AcceptHere, AddHere, AcceptRaces, Exit0, ThisWorker
<1>4. /\ phase' \in {"starting", "growing", "running", "waiting", "stopping"}
      /\ accept' \in {"none", "chain", "armed", "canceled", "ended"}
      /\ slot' \in BOOLEAN
      /\ stopping' \in {"no", "cancel", "close", "done"}
  BY <1>1
  DEF ServerTypeOK, ServerNext, ListenerStop, MainProgram, StartWorker,
      EmplaceBack, ListenerWaitEnds, ThreadManagerStop, SetUp, Accept, AcceptFails, CancelAccept,
      AcceptCanceled, CloseListener, Run0, OnListenerStart, OnListenerClosed, OnAcceptEnd, AcceptElsewhere,
      AcceptHere, AddHere, AcceptRaces, Exit0, ThisWorker
<1>5. listenerRunning' \in BOOLEAN /\ early' \in BOOLEAN /\ worker0' \in {"run", "adding", "exited"}
  BY <1>1
  DEF ServerTypeOK, ServerNext, ListenerStop, MainProgram, StartWorker,
      EmplaceBack, ListenerWaitEnds, ThreadManagerStop, SetUp, Accept, AcceptFails, CancelAccept,
      AcceptCanceled, CloseListener, Run0, OnListenerStart, OnListenerClosed, OnAcceptEnd, AcceptElsewhere,
      AcceptHere, AddHere, AcceptRaces, Exit0, ThisWorker
<1>6. accepts' \in 0 .. MaxAccepts
  <2>1. MaxAccepts \in Nat
    BY ServerAssumption, WorkerAssumption DEF ServerAssumption, WorkerAssumption
  <2>2. accepts' = accepts \/ (accepts < MaxAccepts /\ accepts' = accepts + 1)
    BY DEF ServerNext, ListenerStop, MainProgram, StartWorker,
      EmplaceBack, ListenerWaitEnds, ThreadManagerStop, SetUp, Accept, AcceptFails, CancelAccept,
      AcceptCanceled, CloseListener, Run0, OnListenerStart, OnListenerClosed, OnAcceptEnd, AcceptElsewhere,
      AcceptHere, AddHere, AcceptRaces, Exit0, ThisWorker
  <2> QED
    BY <1>1, <2>1, <2>2 DEF ServerTypeOK
<1>7. addedEarly' \subseteq Ids
  <2>1. addedEarly' = addedEarly \/ AddHere
    BY DEF ServerNext, ListenerStop, MainProgram, StartWorker, EmplaceBack, ListenerWaitEnds,
      ThreadManagerStop, SetUp, Accept, AcceptFails, CancelAccept, AcceptCanceled, CloseListener, Run0,
      OnListenerStart, OnListenerClosed, OnAcceptEnd, AcceptElsewhere, AcceptHere, AcceptRaces, Exit0,
      ThisWorker
  <2> QED
    BY <1>1, <2>1 DEF ServerTypeOK, AddHere
<1> QED
  BY <1>1, <1>2, <1>3, <1>4, <1>5, <1>6, <1>7 DEF ServerTypeOK

LEMMA NextPhaseInv ==
  ASSUME ServerInv, ServerNext
  PROVE  PhaseInv'
<1> USE DEF mainPhase, listenerVars, serverVars, MainStep
<1>1. PhaseInv /\ ServerTypeOK
  BY DEF ServerInv
<1>2. CASE ThisWorker
  <2>1. mainPc' = mainPc /\ UNCHANGED <<phase, size, stopping, early>>
    BY <1>2 DEF ThisWorker, KernelData, KernelDisconnect, KernelSend, KernelCancel, KernelComplete, Run, Exit,
                OnRecv, OnRecvEnd, OnRecvCancel, OnSendDone, OnSendMore, OnSendError, Stale, OnSessionClose,
                AfterRemove, OthersSend, CloseSubmits, mainVars
  <2> QED
    BY <1>1, <2>1 DEF PhaseInv
<1>3. CASE ThreadManagerStop
  <2>1. mainPc # "up" /\ mainPc' # "up" /\ UNCHANGED <<phase, size, stopping, early>>
    BY <1>3 DEF ThreadManagerStop, StopBegins, CloseSessions, StartClose, MarkCanceling, EndOfMap,
                SubmitCancels, Stop, JoinAll, Join
  <2> QED
    BY <1>1, <2>1 DEF PhaseInv
<1>4. CASE ListenerStop \/ StartWorker \/ EmplaceBack \/ ListenerWaitEnds
  BY <1>1, <1>4, ServerAssumption DEF ListenerStop, StartWorker, EmplaceBack, ListenerWaitEnds, ListenerClosed,
     PhaseInv, ServerTypeOK, ServerAssumption, vars
<1>5. CASE Accept \/ AcceptFails \/ SetUp \/ AcceptCanceled \/ Run0 \/ Exit0
  <2>1. UNCHANGED <<mainPc, phase, size, stopping, early>>
    BY <1>5 DEF Accept, AcceptFails, SetUp, AcceptCanceled, Run0, OnListenerStart, OnListenerClosed,
       OnAcceptEnd, AcceptElsewhere, AcceptHere, AddHere, AcceptRaces, Exit0, OtherThreadAdds, vars, mainVars
  <2> QED
    BY <1>1, <2>1 DEF PhaseInv
<1>6. CASE CancelAccept \/ CloseListener
  BY <1>1, <1>6 DEF CancelAccept, CloseListener, PhaseInv, vars
<1> QED
  BY <1>2, <1>3, <1>4, <1>5, <1>6 DEF ServerNext, MainProgram

(* How the steps move the queue of worker 0. *)
LEMMA Queue0Effect ==
  ASSUME ServerInv, ServerNext
  PROVE  \/ /\ Extends(cq0, cq0')
            /\ ~ AcceptHere /\ ~ AddHere
            /\ worker0' = "adding" <=> worker0 = "adding"
            /\ \A f \in Fds : socket[f] = None => socket'[f] = None
            /\ \A s \in Ids : object'[s] = "accepted" => object[s] = "accepted"
            /\ \/ CloseListener
               \/ \A i \in Len(cq0) + 1 .. Len(cq0') : cq0'[i].type # "listener_close"
         \/ Accept
         \/ /\ cq0 # <<>> /\ Seen0 /\ worker0 = "run" /\ worker0' = "run"
            /\ UNCHANGED <<object, socket>>
         \/ AcceptHere
         \/ AddHere
<1>1. TypeOK /\ cq0 \in Seq(Cqes0) /\ Extends(cq0, cq0)
  BY DEF ServerInv, TypeInv, ServerTypeOK, Extends
<1> USE DEF mainPhase, listenerVars, serverVars
<1>2. CASE ThisWorker \/ ThreadManagerStop \/ ListenerWaitEnds
  <2>1. /\ cq0' = cq0 /\ worker0' = worker0
        /\ \A f \in Fds : socket[f] = None => socket'[f] = None
        /\ \A s \in Ids : object'[s] = "accepted" => object[s] = "accepted"
    BY <1>1, <1>2, WorkerStepEffect DEF WorkerSteps
  <2>2. ~ AcceptHere
    BY <1>2, <2>1 DEF AcceptHere, Handles0
  <2>3. ~ AddHere
    BY <2>1 DEF AddHere
  <2> QED
    BY <1>1, <2>1, <2>2, <2>3
<1>3. CASE ListenerStop \/ StartWorker \/ EmplaceBack \/ Exit0
  <2>1. cq0' = cq0 /\ (worker0' = "adding" <=> worker0 = "adding") /\ UNCHANGED <<object, socket>>
        /\ ~ AcceptHere /\ ~ AddHere
    BY <1>3 DEF ListenerStop, StartWorker, EmplaceBack, Exit0, vars, sessionVars, AcceptHere, AddHere, Handles0
  <2> QED
    BY <1>1, <2>1
<1>4. CASE SetUp \/ AcceptFails \/ CancelAccept \/ AcceptCanceled \/ CloseListener
  <2>1. worker0' = worker0 /\ UNCHANGED <<object, socket>> /\ ~ AcceptHere /\ ~ AddHere
    BY <1>4 DEF SetUp, AcceptFails, CancelAccept, AcceptCanceled, CloseListener, vars, AcceptHere, AddHere,
                Handles0
  <2>2. ASSUME NEW c \in Cqes0, cq0' = Append(cq0, c), ~ Connects(c), c.fd = NoFd
        PROVE  /\ Extends(cq0, cq0')
               /\ \A i \in Len(cq0) + 1 .. Len(cq0') : cq0'[i] = c
    <3>1. Len(cq0') = Len(cq0) + 1 /\ Len(cq0) \in Nat /\ cq0'[Len(cq0) + 1] = c
      BY <1>1, <2>2, AppendFacts
    <3> QED
      BY <1>1, <2>2, <3>1, Extend
  <2>3. CASE CloseListener
    <3>1. PICK c \in Cqes0 : cq0' = Append(cq0, c) /\ ~ Connects(c) /\ c.fd = NoFd
      BY <2>3, NewCqes DEF CloseListener
    <3> QED
      BY <2>1, <2>2, <2>3, <3>1
  <2>4. CASE cq0' = cq0
    BY <1>1, <2>1, <2>4
  <2>5. CASE cq0' = cq0 \o <<Cqe0("setup", "end", NoFd), Cqe0("accept", "end", NoFd)>>
    <3>1. PICK c \in Cqes0, d \in Cqes0 :
            /\ c = Cqe0("setup", "end", NoFd) /\ d = Cqe0("accept", "end", NoFd)
            /\ ~ Connects(c) /\ c.fd = NoFd /\ c.type # "listener_close"
            /\ ~ Connects(d) /\ d.fd = NoFd /\ d.type # "listener_close"
      BY NewCqes
    <3>2. /\ Extends(cq0, cq0')
          /\ \A i \in Len(cq0) + 1 .. Len(cq0') : cq0'[i] \in {c, d}
      BY <1>1, <2>5, <3>1, ExtendTwice
    <3> QED
      BY <2>1, <3>1, <3>2
  <2>6. ASSUME NEW c \in Cqes0, cq0' = Append(cq0, c), ~ Connects(c), c.fd = NoFd,
               c.type # "listener_close"
        PROVE  Extends(cq0, cq0') /\ \A i \in Len(cq0) + 1 .. Len(cq0') : cq0'[i].type # "listener_close"
    BY <2>2, <2>6
  <2>7. SetUp \/ AcceptFails \/ CancelAccept \/ AcceptCanceled
        => \/ cq0' = cq0
           \/ \E c \in Cqes0 : /\ cq0' = Append(cq0, c)
                               /\ ~ Connects(c) /\ c.fd = NoFd /\ c.type # "listener_close"
           \/ cq0' = cq0 \o <<Cqe0("setup", "end", NoFd), Cqe0("accept", "end", NoFd)>>
    BY NewCqes DEF SetUp, AcceptFails, CancelAccept, AcceptCanceled
  <2> QED
    BY <1>4, <2>1, <2>3, <2>4, <2>5, <2>6, <2>7
<1>5. CASE OnListenerStart \/ OnListenerClosed \/ OnAcceptEnd \/ AcceptElsewhere \/ AcceptRaces
  BY <1>5 DEF OnListenerStart, OnListenerClosed, OnAcceptEnd, AcceptElsewhere, AcceptRaces, Handles0, vars,
              sessionVars
<1> QED
  BY <1>2, <1>3, <1>4, <1>5 DEF ServerNext, MainProgram, Run0

LEMMA NextListenerInv ==
  ASSUME ServerInv, ServerNext
  PROVE  ListenerInv'
<1>1. PhaseInv /\ ListenerInv /\ ServerTypeOK
  BY DEF ServerInv
<1> USE DEF mainPhase, listenerVars, serverVars
<1>2. /\ stopping' \in {"close", "done"} => accept' \notin {"chain", "armed"}
      /\ stopping = "done" => stopping' = "done"
      /\ Accept => stopping \notin {"close", "done"}
      /\ CloseListener => stopping = "close" /\ stopping' = "done"
  <2>1. UNCHANGED <<stopping, accept>> \/ StartWorker \/ ListenerStop \/ SetUp \/ Accept \/ AcceptFails
          \/ CancelAccept \/ AcceptCanceled \/ CloseListener
    BY DEF ServerNext, MainProgram, EmplaceBack, ListenerWaitEnds, ThreadManagerStop, Run0, OnListenerStart,
           OnListenerClosed, OnAcceptEnd, AcceptElsewhere, AcceptHere, AddHere, AcceptRaces, Exit0, ThisWorker
  <2>2. StartWorker => stopping = "no" /\ stopping' = "no"
    BY <1>1 DEF StartWorker, PhaseInv
  <2>3. ListenerStop => stopping = "no" /\ stopping' = "cancel"
    BY <1>1 DEF ListenerStop, PhaseInv
  <2>4. SetUp \/ Accept \/ AcceptFails => accept \in {"chain", "armed"} /\ stopping' = stopping
    BY DEF SetUp, Accept, AcceptFails
  <2>5. CancelAccept \/ AcceptCanceled =>
          accept' \notin {"chain", "armed"} /\ (stopping = "done" => stopping' = "done")
    BY DEF CancelAccept, AcceptCanceled
  <2>6. CloseListener => accept' = accept /\ stopping = "close" /\ stopping' = "done"
    BY DEF CloseListener
  <2> QED
    BY <1>1, <2>1, <2>2, <2>3, <2>4, <2>5, <2>6 DEF ListenerInv
<1> SUFFICES ASSUME NEW i \in 1 .. Len(cq0'), cq0'[i].type = "listener_close"
             PROVE  /\ stopping' = "done"
                    /\ \A j \in 1 .. Len(cq0') : Connects(cq0'[j]) => j < i
  BY <1>2 DEF ListenerInv
<1>3. CASE /\ Extends(cq0, cq0')
           /\ \/ CloseListener
              \/ \A k \in Len(cq0) + 1 .. Len(cq0') : cq0'[k].type # "listener_close"
  <2>1. \A j \in 1 .. Len(cq0') : Connects(cq0'[j]) => j \in 1 .. Len(cq0) /\ cq0'[j] = cq0[j]
    BY <1>3 DEF Extends
  <2>2. CASE i \in 1 .. Len(cq0)
    BY <1>1, <1>2, <1>3, <2>1, <2>2 DEF Extends, ListenerInv
  <2>3. CASE i \notin 1 .. Len(cq0)
    BY <1>2, <1>3, <2>1, <2>3 DEF Extends
  <2> QED
    BY <2>2, <2>3
<1>4. CASE Accept
  <2>1. PICK f \in Fds : cq0' = Append(cq0, Cqe0("accept", "ok", f))
    BY <1>4 DEF Accept
  <2>2. /\ Len(cq0') = Len(cq0) + 1 /\ Len(cq0) \in Nat /\ cq0'[Len(cq0) + 1].type = "accept"
        /\ \A k \in 1 .. Len(cq0) : cq0'[k] = cq0[k]
    <3>1. PICK c \in Cqes0 : c = Cqe0("accept", "ok", f) /\ c.type = "accept"
      BY NewCqes
    <3> QED
      BY <1>1, <2>1, <3>1, AppendFacts DEF ServerTypeOK
  <2>3. i \in 1 .. Len(cq0) /\ cq0[i].type = "listener_close"
    BY <2>2
  <2> QED
    BY <1>1, <1>2, <1>4, <2>3 DEF ListenerInv
<1>5. CASE cq0 # <<>> /\ Seen0
  <2>1. /\ i + 1 \in 1 .. Len(cq0) /\ cq0[i + 1] = cq0'[i]
        /\ \A j \in 1 .. Len(cq0') : j + 1 \in 1 .. Len(cq0) /\ cq0[j + 1] = cq0'[j]
        /\ Len(cq0') \in Nat
    BY <1>1, <1>5, TailShift DEF ServerTypeOK, Seen0
  <2>2. \A j \in 1 .. Len(cq0') : Connects(cq0'[j]) => j + 1 < i + 1
    BY <1>1, <2>1 DEF ListenerInv
  <2> QED
    BY <1>1, <1>2, <2>1, <2>2 DEF ListenerInv
<1>6. CASE cq0' = cq0
  BY <1>1, <1>2, <1>6 DEF ListenerInv
<1>7. AcceptHere => cq0' = cq0
  BY DEF AcceptHere
<1>8. AddHere => cq0 # <<>> /\ Seen0
  BY DEF AddHere, ServerInv, QueueInv
<1> QED
  BY <1>3, <1>4, <1>5, <1>6, <1>7, <1>8, Queue0Effect

LEMMA NextHandledInv ==
  ASSUME ServerInv, ServerNext, ~ early'
  PROVE  ~ early /\ HandledInv'
<1> USE DEF mainPhase, listenerVars, serverVars
<1>1. PhaseInv /\ ListenerInv /\ QueueInv /\ ServerTypeOK
  BY DEF ServerInv
<1>2. UNCHANGED <<phase, listenerRunning, early>> \/ ListenerStop \/ StartWorker \/ EmplaceBack
        \/ ListenerWaitEnds \/ OnListenerStart \/ OnListenerClosed
  BY DEF ServerNext, MainProgram, ThreadManagerStop, SetUp, Accept, AcceptFails, CancelAccept, AcceptCanceled,
         CloseListener, Run0, OnAcceptEnd, AcceptElsewhere, AcceptHere, AddHere, AcceptRaces, Exit0, ThisWorker
<1>3. ~ early /\ HandledInv
  <2>1. early' = early \/ ListenerStop
    BY <1>2 DEF StartWorker, EmplaceBack, ListenerWaitEnds, OnListenerStart, OnListenerClosed
  <2>2. ListenerStop => ~ early
    BY <1>1 DEF ListenerStop, PhaseInv
  <2> QED
    BY <2>1, <2>2 DEF ServerInv
<1>4. AllHandled => AllHandled'
  <2> SUFFICES ASSUME AllHandled PROVE AllHandled'
    OBVIOUS
  <2>1. stopping' = "done" /\ ~ Accept
    <3>1. \/ UNCHANGED stopping \/ ListenerStop \/ CancelAccept \/ CloseListener
      BY DEF ServerNext, MainProgram, StartWorker, EmplaceBack, ListenerWaitEnds, ThreadManagerStop, SetUp,
         Accept, AcceptFails, AcceptCanceled, Run0, OnListenerStart, OnListenerClosed, OnAcceptEnd,
         AcceptElsewhere, AcceptHere, AddHere, AcceptRaces, Exit0, ThisWorker
    <3> QED
      BY <1>1, <3>1 DEF AllHandled, ListenerStop, CancelAccept, CloseListener, Accept, PhaseInv, ListenerInv
  <2>2. ~ AcceptHere /\ ~ AddHere
    <3>1. cq0 # <<>> => ~ Connects(Head(cq0))
      BY <1>1, TailShift DEF AllHandled, ServerTypeOK
    <3> QED
      BY <1>1, <3>1 DEF AcceptHere, AddHere, Handles0, Connects, QueueInv
  <2>3. CASE Extends(cq0, cq0')
    BY <2>1, <2>3 DEF AllHandled, Extends
  <2>4. CASE cq0 # <<>> /\ Seen0
    BY <1>1, <2>1, <2>4, TailShift DEF AllHandled, Seen0, ServerTypeOK
  <2> QED
    BY <2>1, <2>2, <2>3, <2>4, Queue0Effect
<1>5. CASE ListenerStop
  BY <1>3, <1>5 DEF ListenerStop, HandledInv
<1>6. CASE StartWorker \/ EmplaceBack
  BY <1>3, <1>6 DEF StartWorker, EmplaceBack, HandledInv
<1>7. CASE ListenerWaitEnds
  BY <1>3, <1>4, <1>7 DEF ListenerWaitEnds, HandledInv
<1>8. CASE OnListenerStart
  BY <1>3, <1>4, <1>8 DEF OnListenerStart, HandledInv
<1>9. CASE OnListenerClosed
  <2>1. cq0 # <<>> /\ Head(cq0).type = "listener_close"
    BY <1>9 DEF OnListenerClosed, Handles0
  <2>2. Head(cq0) = cq0[1] /\ 1 \in 1 .. Len(cq0) /\ Len(cq0) \in Nat
    BY <1>1, <2>1, TailShift DEF ServerTypeOK
  <2>3. stopping = "done" /\ \A j \in 1 .. Len(cq0) : Connects(cq0[j]) => j < 1
    BY <1>1, <2>1, <2>2 DEF ListenerInv
  <2>4. AllHandled
    BY <2>2, <2>3 DEF AllHandled
  <2> QED
    BY <1>3, <1>4, <2>4 DEF HandledInv
<1>10. CASE UNCHANGED <<phase, listenerRunning, early>>
  BY <1>3, <1>4, <1>10 DEF HandledInv
<1> QED
  BY <1>2, <1>3, <1>5, <1>6, <1>7, <1>8, <1>9, <1>10

LEMMA ExtendsQueueInv ==
  ASSUME ServerInv, Extends(cq0, cq0'), worker0' = "adding" <=> worker0 = "adding",
         \A f \in Fds : socket[f] = None => socket'[f] = None,
         \A s \in Ids : object'[s] = "accepted" => object[s] = "accepted",
         cq0' \in Seq(Cqes0)
  PROVE  QueueInv'
<1>1. QueueInv /\ cq0 \in Seq(Cqes0)
  BY DEF ServerInv, ServerTypeOK
<1>2. \A i \in 1 .. Len(cq0') :
        cq0'[i].fd # NoFd \/ Connects(cq0'[i]) => i \in 1 .. Len(cq0) /\ cq0'[i] = cq0[i]
  BY DEF Extends
<1>3. worker0' = "adding" => cq0' # <<>> /\ Connects(Head(cq0'))
  <2> SUFFICES ASSUME worker0' = "adding" PROVE cq0' # <<>> /\ Connects(Head(cq0'))
    OBVIOUS
  <2>1. cq0 # <<>> /\ Connects(Head(cq0))
    BY <1>1 DEF QueueInv
  <2>2. Head(cq0) = cq0[1] /\ Len(cq0) \in Nat \ {0}
    BY <1>1, <2>1, TailShift
  <2>3. Len(cq0') \in Nat \ {0} /\ cq0'[1] = cq0[1]
    BY <2>2 DEF Extends
  <2> QED
    BY <2>1, <2>2, <2>3, HeadTailProperties
<1>4. \A i \in 1 .. Len(cq0') : cq0'[i].fd # NoFd => Connects(cq0'[i])
  BY <1>1, <1>2 DEF QueueInv
<1>5. \A i \in 1 .. Len(cq0') : Connects(cq0'[i]) =>
        cq0'[i].fd \in Fds /\ (socket'[cq0'[i].fd] = None \/ (i = 1 /\ worker0' = "adding"))
  BY <1>1, <1>2 DEF QueueInv
<1>6. \A i, j \in 1 .. Len(cq0') :
        Connects(cq0'[i]) /\ Connects(cq0'[j]) /\ cq0'[i].fd = cq0'[j].fd => i = j
  BY <1>1, <1>2 DEF QueueInv
<1>7. \A s \in Ids : object'[s] = "accepted" => worker0' = "adding"
  BY <1>1 DEF QueueInv
<1>8. \A s, t \in Ids : object'[s] = "accepted" /\ object'[t] = "accepted" => s = t
  BY <1>1 DEF QueueInv
<1> QED
  BY <1>3, <1>4, <1>5, <1>6, <1>7, <1>8 DEF QueueInv

LEMMA ArrivalQueueInv ==
  ASSUME ServerInv, Accept
  PROVE  QueueInv'
<1>1. QueueInv /\ cq0 \in Seq(Cqes0)
  BY DEF ServerInv, ServerTypeOK
<1>2. PICK f \in Fds \ PendingFds : socket[f] = None /\ cq0' = Append(cq0, Cqe0("accept", "ok", f))
  BY DEF Accept
<1>3. UNCHANGED <<socket, object, worker0>>
  BY DEF Accept, vars
<1>4. PICK c \in Cqes0 : c = Cqe0("accept", "ok", f) /\ Connects(c) /\ c.fd = f
  BY NewCqes
<1>5. /\ Len(cq0') = Len(cq0) + 1 /\ Len(cq0) \in Nat
      /\ \A i \in 1 .. Len(cq0) : cq0'[i] = cq0[i] /\ cq0[i].fd # f
      /\ cq0'[Len(cq0) + 1] = c
      /\ cq0' \in Seq(Cqes0)
  BY <1>1, <1>2, <1>4, AppendFacts DEF PendingFds
<1>6. worker0' = "adding" => cq0' # <<>> /\ Connects(Head(cq0'))
  BY <1>1, <1>2, <1>3, <1>5, HeadTailAppend DEF QueueInv
<1>7. \A i \in 1 .. Len(cq0') : i = Len(cq0) + 1 \/ i \in 1 .. Len(cq0)
  BY <1>5
<1>8. \A i \in 1 .. Len(cq0') : cq0'[i].fd # NoFd => Connects(cq0'[i])
  BY <1>1, <1>4, <1>5, <1>7 DEF QueueInv
<1>9. \A i \in 1 .. Len(cq0') : Connects(cq0'[i]) =>
        cq0'[i].fd \in Fds /\ (socket'[cq0'[i].fd] = None \/ (i = 1 /\ worker0' = "adding"))
  BY <1>1, <1>2, <1>3, <1>4, <1>5, <1>7 DEF QueueInv
<1>10. \A i, j \in 1 .. Len(cq0') :
        Connects(cq0'[i]) /\ Connects(cq0'[j]) /\ cq0'[i].fd = cq0'[j].fd => i = j
  BY <1>1, <1>4, <1>5, <1>7 DEF QueueInv
<1> QED
  BY <1>1, <1>3, <1>6, <1>8, <1>9, <1>10 DEF QueueInv

(* What is left when the head has been handled. *)
LEMMA TailQueueInv ==
  ASSUME ServerInv, cq0 # <<>>, Seen0, worker0' # "adding", UNCHANGED socket,
         \A s \in Ids : object'[s] # "accepted"
  PROVE  QueueInv'
<1>1. QueueInv /\ cq0 \in Seq(Cqes0)
  BY DEF ServerInv, ServerTypeOK
<1>2. \A i \in 1 .. Len(cq0') : cq0'[i] = cq0[i + 1] /\ i + 1 \in 1 .. Len(cq0) /\ i + 1 # 1
  BY <1>1, TailShift DEF Seen0
<1>3. \A i, j \in 1 .. Len(cq0') : i + 1 = j + 1 => i = j
  <2>1. Len(cq0') \in Nat
    BY <1>1, TailShift DEF Seen0
  <2> QED
    BY <2>1
<1>4. \A i \in 1 .. Len(cq0') : cq0'[i].fd # NoFd => Connects(cq0'[i])
  BY <1>1, <1>2 DEF QueueInv
<1>5. \A i \in 1 .. Len(cq0') : Connects(cq0'[i]) =>
        cq0'[i].fd \in Fds /\ socket'[cq0'[i].fd] = None
  BY <1>1, <1>2 DEF QueueInv
<1>6. \A i, j \in 1 .. Len(cq0') :
        Connects(cq0'[i]) /\ Connects(cq0'[j]) /\ cq0'[i].fd = cq0'[j].fd => i = j
  BY <1>1, <1>2, <1>3 DEF QueueInv
<1> QED
  BY <1>4, <1>5, <1>6 DEF QueueInv

LEMMA MadeQueueInv ==
  ASSUME ServerInv, AcceptHere
  PROVE  QueueInv'
<1>1. QueueInv /\ cq0 \in Seq(Cqes0) /\ TypeOK
  BY DEF ServerInv, ServerTypeOK
<1>2. worker0 = "run" /\ cq0 # <<>> /\ Connects(Head(cq0)) /\ worker0' = "adding" /\ cq0' = cq0
  BY DEF AcceptHere, Handles0, Connects
<1>3. Head(cq0) = cq0[1] /\ 1 \in 1 .. Len(cq0)
  BY <1>1, <1>2, TailShift
<1>4. PICK s \in Ids : /\ socket' = [socket EXCEPT ![Head(cq0).fd] = s]
                       /\ object' = [object EXCEPT ![s] = "accepted"]
  BY DEF AcceptHere
<1>5. \A t \in Ids : object'[t] = "accepted" => t = s
  BY <1>1, <1>2, <1>4 DEF QueueInv, TypeOK
<1>6. \A i \in 1 .. Len(cq0) : Connects(cq0[i]) =>
        cq0[i].fd \in Fds /\ (socket'[cq0[i].fd] = None \/ i = 1)
  <2> SUFFICES ASSUME NEW i \in 1 .. Len(cq0), Connects(cq0[i]), i # 1
               PROVE  cq0[i].fd \in Fds /\ socket'[cq0[i].fd] = None
    BY <1>1 DEF QueueInv
  <2>1. cq0[i].fd \in Fds /\ socket[cq0[i].fd] = None
    BY <1>1, <1>2 DEF QueueInv
  <2>2. cq0[i].fd # Head(cq0).fd
    BY <1>1, <1>2, <1>3 DEF QueueInv
  <2> QED
    BY <1>1, <1>4, <2>1, <2>2 DEF TypeOK
<1> QED
  BY <1>1, <1>2, <1>5, <1>6 DEF QueueInv

LEMMA NextQueueInv ==
  ASSUME ServerInv, ServerNext
  PROVE  QueueInv'
<1>1. QueueInv /\ TypeOK /\ cq0' \in Seq(Cqes0)
  BY NextServerTypes DEF ServerInv, ServerTypeOK
<1>2. CASE AddHere
  <2>1. cq0 # <<>> /\ Seen0 /\ worker0' = "run" /\ OtherThreadAdds
    BY <1>1, <1>2 DEF AddHere, QueueInv
  <2>2. PICK s \in Ids : object[s] = "accepted" /\ AddSession(s)
    BY <2>1 DEF OtherThreadAdds
  <2>3. \A t \in Ids : object'[t] # "accepted"
    BY <1>1, <2>2 DEF AddSession, QueueInv
  <2> QED
    BY <2>1, <2>3, TailQueueInv DEF OtherThreadAdds
<1>3. CASE /\ cq0 # <<>> /\ Seen0 /\ worker0 = "run" /\ worker0' = "run"
           /\ UNCHANGED <<object, socket>>
  <2>1. \A t \in Ids : object'[t] # "accepted"
    BY <1>1, <1>3 DEF QueueInv
  <2> QED
    BY <1>3, <2>1, TailQueueInv
<1> QED
  BY <1>1, <1>2, <1>3, Queue0Effect, ExtendsQueueInv, ArrivalQueueInv, MadeQueueInv

-------------------------------------------------------------------------------
LEMMA NextServerInv == ServerInv /\ [ServerNext]_allVars => ServerInv'
<1> SUFFICES ASSUME ServerInv, [ServerNext]_allVars PROVE ServerInv'
  OBVIOUS
<1>1. CASE ServerNext
  BY <1>1, NextWorkerInv, NextServerTypes, NextPhaseInv, NextListenerInv, NextQueueInv, NextHandledInv
  DEF ServerInv
<1>2. CASE UNCHANGED allVars
  <2>1. [Next]_vars
    BY <1>2 DEF allVars
  <2>2. TypeInv' /\ (~ early => IInv')
    BY <2>1, WorkerAssumption, NextTypeInv, NextIInv DEF ServerInv
  <2>3. ServerTypeOK'
    BY <1>2, <2>2 DEF allVars, serverVars, mainPhase, listenerVars, ServerInv, ServerTypeOK, TypeInv
  <2>4. PhaseInv' /\ ListenerInv' /\ QueueInv' /\ (~ early => HandledInv') /\ early' = early
    BY <1>2 DEF allVars, serverVars, mainPhase, listenerVars, vars, ServerInv, PhaseInv, ListenerInv,
                QueueInv, HandledInv, AllHandled
  <2> QED
    BY <2>2, <2>3, <2>4 DEF ServerInv
<1> QED
  BY <1>1, <1>2

LEMMA ServerInvariance == ServerSpec => []ServerInv
BY InitServerInv, NextServerInv, PTL DEF ServerSpec

(* The whole process keeps its types, whenever the signal comes and        *)
(* wherever the set-up fails (ThreadManager, Listener, main).              *)
THEOREM ServerTypeCorrect == ServerSpec => []ServerTypeOK
<1>1. ServerInv => ServerTypeOK
  BY DEF ServerInv
<1> QED
  BY <1>1, ServerInvariance, PTL

(* main, the listener and the accepting worker are the surroundings that   *)
(* module Worker assumes: a connection comes to the worker only while main *)
(* waits, and every one has been added when ThreadManager::Stop clears     *)
(* _running.                                                               *)
THEOREM Refinement == ServerSpec => ImplementsWorker
<1>1. ServerInv /\ [ServerNext]_allVars => [early' \/ AcceptRaces \/ Next]_vars
  <2> SUFFICES ASSUME ServerInv, ServerNext PROVE [early' \/ AcceptRaces \/ Next]_vars
    BY DEF allVars
  <2>1. AcceptHere => early' = early
    BY DEF AcceptHere
  <2> QED
    BY <2>1, ServerSteps
<1> QED
  BY <1>1, ServerInvariance, PTL DEF ServerSpec, ImplementsWorker

-------------------------------------------------------------------------------
(* Where an open connection's session is.                                  *)

(* A session that was not added early is in the map while its connection   *)
(* is open, and no completion that waits removes it; while it is added,    *)
(* its descriptor is nobody else's.                                        *)
Kept(f) ==
  \/ socket[f] \in addedEarly
  \/ object[socket[f]] = "accepted"
  \/ object[socket[f]] = "live" /\ ~ ClosePending(f)

KeptInv ==
  ~ early =>
    /\ \A f \in Fds : socket[f] # None => Kept(f)
    /\ \A s \in Ids : object[s] = "accepted" => socket[fdOf[s]] \in {None, s}

(* What waits for f after a step waited before. *)
LEMMA PendingBefore ==
  ASSUME RingOK, NEW f \in Fds, ClosePending(f)',
         \A i \in 1 .. Len(cq) : cq[i].type = "session_close" => fdOf'[cq[i].session] = fdOf[cq[i].session],
         \/ cq' = <<>>
         \/ cq # <<>> /\ Seen
         \/ /\ workerPc = "stop" => workerPc' = "stop"
            /\ \/ cq' = cq
               \/ \E c \in SessionCqes : Post(c) /\ (c.type = "session_close" => fdOf'[c.session] # f)
  PROVE  ClosePending(f)
<1>1. PICK i \in 1 .. Len(cq') :
        /\ cq'[i].type = "session_close" /\ fdOf'[cq'[i].session] = f
        /\ i = 1 => workerPc' # "stop"
  BY DEF ClosePending
<1>2. cq' # <<>>
  BY <1>1
<1>3. CASE cq # <<>> /\ Seen
  <2>1. cq'[i] = cq[i + 1] /\ i + 1 \in 1 .. Len(cq) /\ i + 1 # 1
    BY <1>1, <1>3, Taken
  <2> QED
    BY <1>1, <2>1 DEF ClosePending
<1>4. CASE (workerPc = "stop" => workerPc' = "stop") /\ cq' = cq
  BY <1>1, <1>4 DEF ClosePending
<1>5. ASSUME workerPc = "stop" => workerPc' = "stop",
             NEW c \in SessionCqes, Post(c), c.type = "session_close" => fdOf'[c.session] # f
      PROVE  ClosePending(f)
  <2>1. i \in 1 .. Len(cq) /\ cq'[i] = cq[i]
    BY <1>1, <1>5, Posted
  <2> QED
    BY <1>1, <1>5, <2>1 DEF ClosePending
<1> QED
  BY <1>2, <1>3, <1>4, <1>5

(* A step after which f's session is what it was. *)
LEMMA KeptStays ==
  ASSUME NEW f \in Fds, Kept(f), socket'[f] = socket[f], object'[socket[f]] = object[socket[f]],
         addedEarly \subseteq addedEarly', ClosePending(f)' => ClosePending(f)
  PROVE  Kept(f)'
BY DEF Kept

LEMMA MadeKeptInv ==
  ASSUME ServerInv, KeptInv, ~ early, AcceptHere
  PROVE  KeptInv'
<1>1. TypeInv /\ RingOK /\ TypeOK /\ LifeInv /\ QueueInv /\ ~ early'
  BY DEF ServerInv, IInv, TypeInv, AcceptHere
<1>2. Up /\ worker0 = "run" /\ cq0 # <<>> /\ Connects(Head(cq0))
  BY DEF AcceptHere, Handles0, Connects
<1>3. Head(cq0).fd \in Fds
  BY <1>2, ConnectionHead
<1>4. PICK n \in Ids, g \in Fds :
        /\ object[n] = "none"
        /\ socket' = [socket EXCEPT ![g] = n]
        /\ fdOf' = [fdOf EXCEPT ![n] = g]
        /\ object' = [object EXCEPT ![n] = "accepted"]
  BY <1>3 DEF AcceptHere
<1>5. /\ \A t \in Ids : object'[t] = (IF t = n THEN "accepted" ELSE object[t])
      /\ \A t \in Ids : fdOf'[t] = (IF t = n THEN g ELSE fdOf[t])
      /\ \A h \in Fds : socket'[h] = (IF h = g THEN n ELSE socket[h])
  BY <1>1, <1>4 DEF TypeOK
<1>6. cq' = cq /\ workerPc' = workerPc /\ addedEarly' = addedEarly
  BY DEF AcceptHere
<1>7. \A i \in 1 .. Len(cq) : cq[i].type = "session_close" => fdOf'[cq[i].session] = fdOf[cq[i].session]
  <2>1. \A i \in 1 .. Len(cq) : cq[i].type = "session_close" => cq[i].session \in Ids
    BY <1>1 DEF RingOK, SessionCqes
  <2> QED
    BY <1>1, <1>4, <1>5, <2>1 DEF LifeInv, FollowTypes
<1>8. ASSUME NEW f \in Fds, socket'[f] # None PROVE Kept(f)'
  <2>1. CASE f = g
    BY <1>5, <2>1 DEF Kept
  <2>2. CASE f # g
    <3>1. socket'[f] = socket[f] /\ socket[f] # None /\ socket[f] \in Ids
      BY <1>1, <1>5, <1>8, <2>2 DEF TypeOK
    <3>2. object'[socket[f]] = object[socket[f]]
      BY <1>1, <1>4, <1>5, <3>1 DEF LifeInv
    <3>3. ClosePending(f)' => ClosePending(f)
      BY <1>1, <1>6, <1>7, PendingBefore
    <3> QED
      BY <1>6, <3>1, <3>2, <3>3, KeptStays DEF KeptInv
  <2> QED
    BY <2>1, <2>2
<1>9. \A s \in Ids : object'[s] = "accepted" => socket'[fdOf'[s]] \in {None, s}
  BY <1>1, <1>2, <1>5 DEF QueueInv
<1> QED
  BY <1>8, <1>9 DEF KeptInv

LEMMA AddedKeptInv ==
  ASSUME ServerInv, KeptInv, ~ early, AddHere
  PROVE  KeptInv'
<1>1. TypeInv /\ RingOK /\ TypeOK /\ LifeInv /\ QueueInv /\ ~ early'
  BY DEF ServerInv, IInv, TypeInv, AddHere
<1>2. PICK n \in Ids : object[n] = "accepted" /\ AddSession(n)
  BY DEF AddHere, OtherThreadAdds
<1>3. UNCHANGED <<workerPc, fdOf, cq, socket>>
  BY DEF AddHere, OtherThreadAdds
<1>4. addedEarly \subseteq addedEarly' /\ (ClosePending(fdOf[n]) => n \in addedEarly')
  BY <1>2 DEF AddHere
<1> DEFINE g == fdOf[n]
           old == sessions[g]
<1>5. \A t \in Ids : object'[t] = IF t = n THEN "live" ELSE IF t = old THEN "freed" ELSE object[t]
  BY <1>2 DEF AddSession
<1>6. \A f : ClosePending(f)' <=> ClosePending(f)
  BY <1>3 DEF ClosePending
<1>7. g \in Fds /\ (old \in Ids => object[old] = "live" /\ fdOf[old] = g)
  BY <1>1, <1>2 DEF LifeInv, Ids, None
<1>8. ASSUME NEW f \in Fds, socket[f] # None PROVE Kept(f)'
  <2>1. socket[f] \in Ids /\ fdOf[socket[f]] = f
    BY <1>1, <1>8 DEF TypeOK, LifeInv
  <2>2. CASE socket[f] = n
    BY <1>3, <1>4, <1>5, <1>6, <2>1, <2>2 DEF Kept
  <2>3. CASE socket[f] # n
    <3>1. socket[f] # old
      BY <1>2, <1>7, <1>8, <2>1, <2>3 DEF KeptInv
    <3>2. object'[socket[f]] = object[socket[f]]
      BY <1>5, <2>1, <2>3, <3>1
    <3> QED
      BY <1>3, <1>4, <1>6, <1>8, <3>2, KeptStays DEF KeptInv
  <2> QED
    BY <2>2, <2>3
<1>9. \A s \in Ids : object'[s] # "accepted"
  BY <1>1, <1>2, <1>5 DEF QueueInv
<1> QED
  BY <1>3, <1>8, <1>9 DEF KeptInv

(* The steps of main and of this worker. *)
LEMMA WorkerStepKinds ==
  ASSUME TypeInv, WorkerAssumption, WorkerSteps
  PROVE  /\ ClosesDescriptor \/ OnSessionClose \/ QuietStep
         /\ workerPc = "stop" => workerPc' = "stop" \/ (cq # <<>> /\ Seen)
<1>1. StopBegins => QuietStep
  BY DEF StopBegins, QuietStep, sessionVars
<1>2. WorkerSteps => OtherSteps \/ StopBegins
  BY DEF WorkerSteps, ThisWorker, ThreadManagerStop, JoinAll, ListenerWaitEnds, OtherSteps, Main
<1>3. workerPc = "stop" => workerPc' = "stop" \/ (cq # <<>> /\ Seen)
  <2> SUFFICES ASSUME workerPc = "stop", workerPc' # "stop" PROVE cq # <<>> /\ Seen
    OBVIOUS
  <2>1. AfterRemove
    BY <1>2 DEF OtherSteps, Run, Main, KernelData, KernelDisconnect, KernelSend, KernelCancel, KernelComplete,
           Exit, CloseSubmits, OnRecv, OnRecvEnd, OnRecvCancel, OnSendDone, OnSendMore, OnSendError, Stale,
           OnSessionClose, Handles, OthersSend, ListenerClosed, ClearRunning, CloseSessions, StartClose,
           MarkCanceling, EndOfMap, SubmitCancels, Stop, Join, StopBegins
  <2> QED
    BY <2>1 DEF AfterRemove, TypeInv
<1> QED
  BY <1>1, <1>2, <1>3, OtherStepKinds

LEMMA WorkerKeptInv ==
  ASSUME ServerInv, KeptInv, ~ early, WorkerSteps
  PROVE  KeptInv'
<1>1. TypeInv /\ RingOK /\ TypeOK /\ LifeInv /\ CloseInv /\ WorkerAssumption /\ early' = early
      /\ addedEarly' = addedEarly
  BY WorkerAssumption, WorkerStepEffect DEF ServerInv, IInv, TypeInv
<1>2. workerPc = "stop" => workerPc' = "stop" \/ (cq # <<>> /\ Seen)
  BY <1>1, WorkerStepKinds
<1>3. CASE ClosesDescriptor
  <2>1. PICK c \in Ids :
          /\ Post(Cqe("session_close", c, "ok"))
          /\ socket' = [socket EXCEPT ![fdOf[c]] = None]
          /\ UNCHANGED <<workerPc, fdOf, object>>
    BY <1>1, <1>3, ClosedDescriptor DEF sessionVars
  <2>2. \A h \in Fds : socket'[h] = (IF h = fdOf[c] THEN None ELSE socket[h])
    BY <1>1, <2>1 DEF TypeOK
  <2>3. Cqe("session_close", c, "ok") \in SessionCqes /\ Cqe("session_close", c, "ok").session = c
    BY SessionCqe DEF CqeTypes, Cqe
  <2>4. ASSUME NEW f \in Fds, socket'[f] # None PROVE Kept(f)'
    <3>1. socket'[f] = socket[f] /\ f # fdOf[c] /\ socket[f] # None
      BY <2>2, <2>4
    <3>2. ClosePending(f)' => ClosePending(f)
      BY <1>1, <2>1, <2>3, <3>1, PendingBefore
    <3> QED
      BY <1>1, <2>1, <3>1, <3>2, KeptStays DEF KeptInv
  <2>5. \A s \in Ids : object[s] = "accepted" => socket'[fdOf[s]] \in {None, s}
    BY <1>1, <2>2 DEF KeptInv, LifeInv
  <2> QED
    BY <2>1, <2>4, <2>5 DEF KeptInv
<1>4. CASE OnSessionClose
  <2> DEFINE g == fdOf[cq[1].session]
             old == sessions[g]
  <2>1. /\ 1 \in 1 .. Len(cq) /\ cq[1].type = "session_close" /\ g \in Fds
        /\ RemoveSession(g) /\ workerPc = "run" /\ workerPc' = "stop"
        /\ UNCHANGED <<fdOf, socket, cq>>
    BY <1>1, <1>4, ClosedHead DEF OnSessionClose, Handles
  <2>2. \A t \in Ids : object'[t] = IF t = old THEN "freed" ELSE object[t]
    BY <2>1 DEF RemoveSession
  <2>3. old \in Ids => object[old] = "live" /\ fdOf[old] = g
    BY <1>1, <2>1 DEF LifeInv, Ids, None
  <2>4. ASSUME NEW f \in Fds, socket[f] # None PROVE Kept(f)'
    <3>1. socket[f] \in Ids /\ fdOf[socket[f]] = f /\ Kept(f)
      BY <1>1, <2>4 DEF TypeOK, LifeInv, KeptInv
    <3>2. ClosePending(f)' => ClosePending(f)
      BY <1>1, <2>1, PendingBefore
    <3>3. CASE socket[f] = old
      <4>1. ClosePending(f)
        BY <2>1, <2>3, <3>1, <3>3 DEF ClosePending
      <4> QED
        BY <1>1, <2>1, <2>3, <3>1, <3>3, <4>1 DEF Kept
    <3>4. CASE socket[f] # old
      BY <1>1, <2>1, <2>2, <3>1, <3>2, <3>4, KeptStays
    <3> QED
      BY <3>3, <3>4
  <2>5. \A s \in Ids : object'[s] = "accepted" => socket[fdOf[s]] \in {None, s}
    BY <2>2 DEF KeptInv
  <2> QED
    BY <2>1, <2>4, <2>5 DEF KeptInv
<1>5. CASE QuietStep
  <2>1. UNCHANGED <<object, fdOf, socket>>
    BY <1>5 DEF QuietStep
  <2>2. ASSUME NEW f \in Fds PROVE ClosePending(f)' => ClosePending(f)
    BY <1>1, <1>2, <1>5, <2>1, PendingBefore DEF QuietStep, FollowTypes
  <2> QED
    BY <1>1, <2>1, <2>2, KeptStays DEF KeptInv
<1> QED
  BY <1>1, <1>3, <1>4, <1>5, WorkerStepKinds

LEMMA NextKeptInv == ServerInv /\ KeptInv /\ [ServerNext]_allVars => KeptInv'
<1> SUFFICES ASSUME ServerInv, KeptInv, [ServerNext]_allVars, ~ early' PROVE KeptInv'
  BY DEF KeptInv
<1>1. ASSUME UNCHANGED <<workerPc, fdOf, object, cq, socket, addedEarly>>, ~ early PROVE KeptInv'
  BY <1>1 DEF KeptInv, Kept, ClosePending
<1>2. CASE ServerNext
  <2>1. ~ early
    BY <1>2, NextHandledInv
  <2>2. \/ AcceptHere \/ AddHere \/ WorkerSteps
        \/ UNCHANGED <<workerPc, fdOf, object, cq, socket, addedEarly>>
    BY <1>2 DEF ServerNext, MainProgram, Run0, WorkerSteps, ListenerStop, StartWorker, EmplaceBack, SetUp, Accept,
       AcceptFails, CancelAccept, AcceptCanceled, CloseListener, OnListenerStart, OnListenerClosed, OnAcceptEnd,
       AcceptElsewhere, AcceptRaces, Exit0, vars, sessionVars
  <2> QED
    BY <1>1, <2>1, <2>2, MadeKeptInv, AddedKeptInv, WorkerKeptInv
<1>3. CASE UNCHANGED allVars
  BY <1>1, <1>3 DEF allVars, vars, serverVars
<1> QED
  BY <1>2, <1>3

(* When the workers have been joined no connection waits in the ring of    *)
(* the accepting worker, and one is open only if its session was added     *)
(* while a REQ_TYPE_SESSION_CLOSE of the same descriptor was still to be   *)
(* handled, which removed it in its predecessor's place.                   *)
THEOREM NoneLeftBehind == ServerSpec => []NoConnectionLeft
<1>1. ServerInit => KeptInv
  BY DEF ServerInit, Init, KeptInv
<1>2. ServerInv /\ KeptInv => NoConnectionLeft
  <2> SUFFICES ASSUME ServerInv, KeptInv, mainPc = "done", ~ early
               PROVE  PendingFds \subseteq {NoFd} /\ \A f \in Fds : socket[f] = None \/ socket[f] \in addedEarly
    BY DEF NoConnectionLeft
  <2>1. IInv /\ TypeOK /\ LifeInv /\ MainInv /\ HandledInv /\ PhaseInv /\ QueueInv
    BY DEF ServerInv, IInv, TypeInv
  <2>2. AllHandled
    BY <2>1 DEF PhaseInv, HandledInv
  <2>3. PendingFds \subseteq {NoFd}
    BY <2>1, <2>2 DEF PendingFds, AllHandled, QueueInv
  <2>4. ASSUME NEW f \in Fds, socket[f] # None PROVE socket[f] \in addedEarly
    <3>1. socket[f] \in Ids /\ fdOf[socket[f]] = f
      BY <2>1, <2>4 DEF TypeOK, LifeInv
    <3>2. object[socket[f]] # "accepted" /\ sessions[f] = None
      BY <2>1, <3>1 DEF MainInv
    <3>3. object[socket[f]] # "live"
      BY <2>1, <3>1, <3>2 DEF LifeInv, Ids, None
    <3> QED
      BY <2>4, <3>2, <3>3 DEF KeptInv, Kept
  <2> QED
    BY <2>3, <2>4
<1> QED
  BY <1>1, <1>2, NextKeptInv, ServerInvariance, PTL DEF ServerSpec

===============================================================================
