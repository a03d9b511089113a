----------------------------- MODULE WorkerProofs ------------------------------
(***************************************************************************)
(* Proofs about Worker, for any descriptors, any number of sessions and of *)
(* other threads, any depth of the submission queue and any number of      *)
(* completions.  Which descriptor a close frees is proved from what the    *)
(* threads have set and submitted; which session a completion destroys,    *)
(* from the order in which one ring completes accepts and closes, for      *)
(* OwnAccept.                                                              *)
(***************************************************************************)
EXTENDS Worker, SequenceTheorems, FiniteSetTheorems, TLAPS

(* Requests and completions of sessions name a session. *)
SessionRequests == {r \in Requests : r.type = "nop" \/ r.session \in Ids}
SessionCqes     == {c \in Cqes : c.type = "worker_stop" \/ c.session \in Ids}

(* Only cancels wait to be submitted. *)
RingOK ==
  /\ sq \subseteq {Request("cancel", s) : s \in Ids}
  /\ IsFiniteSet(sq) /\ Cardinality(sq) <= SqDepth
  /\ requests \subseteq SessionRequests
  /\ cq \in Seq(SessionCqes)

(* TypeOK, and that the two threads have what their next step uses. *)
TypeInv ==
  /\ TypeOK
  /\ RingOK
  /\ mainPc = "mark" => target \in Ids
  /\ workerPc = "stop" => cq # <<>> /\ Head(cq).type = "session_close"

-------------------------------------------------------------------------------
(* Lemmas about the queues.                                                *)

LEMMA TailFacts ==
  ASSUME NEW S, NEW q \in Seq(S), q # <<>>
  PROVE  /\ Len(q) \in Nat \ {0} /\ Head(q) = q[1] /\ Head(q) \in S
         /\ Tail(q) \in Seq(S) /\ Len(Tail(q)) = Len(q) - 1
         /\ \A i \in 1 .. Len(q) - 1 : Tail(q)[i] = q[i + 1]
BY HeadTailProperties, EmptySeq

LEMMA AppendFacts ==
  ASSUME NEW S, NEW q \in Seq(S), NEW e \in S
  PROVE  /\ Append(q, e) \in Seq(S) /\ Len(Append(q, e)) = Len(q) + 1 /\ Len(q) \in Nat
         /\ \A i \in 1 .. Len(q) : Append(q, e)[i] = q[i]
         /\ Append(q, e)[Len(q) + 1] = e
BY AppendProperties, LenProperties

(* What becomes of the ring's requests: none is lost from their type, the  *)
(* queue does not grow, and the only closes are those that new names.      *)
SubmitsOnly(new) ==
  /\ requests' \subseteq SessionRequests
  /\ sq' \subseteq sq /\ IsFiniteSet(sq') /\ Cardinality(sq') <= SqDepth
  /\ \A r \in requests' : r.type = "close" => r \in requests \cup new

LEMMA SubmitEffect ==
  ASSUME RingOK, WorkerAssumption, NEW new \in SUBSET SessionRequests, Submit(new)
  PROVE  SubmitsOnly(new)
<1>1. requests' = requests \cup sq \cup new /\ sq' = {}
  BY DEF Submit
<1>2. \A r \in sq : r \in SessionRequests /\ r.type = "cancel"
  BY DEF RingOK, SessionRequests, Requests, Request, RequestTypes
<1>3. IsFiniteSet(sq') /\ Cardinality(sq') <= SqDepth
  BY <1>1, FS_EmptySet DEF WorkerAssumption
<1> QED
  BY <1>1, <1>2, <1>3 DEF RingOK, SubmitsOnly

LEMMA SubmitNothing ==
  ASSUME RingOK, UNCHANGED <<sq, requests>>
  PROVE  SubmitsOnly({})
BY DEF RingOK, SubmitsOnly

LEMMA StopEffect ==
  ASSUME RingOK, WorkerAssumption, StopSQE
  PROVE  SubmitsOnly({})
<1>1. CASE UNCHANGED <<sq, requests>>
  BY <1>1, SubmitNothing
<1>2. CASE Submit({Request("nop", None)})
  <2>1. Request("nop", None) \in SessionRequests /\ Request("nop", None).type # "close"
    BY DEF SessionRequests, Requests, Request, RequestTypes
  <2> QED
    BY <1>2, <2>1, SubmitEffect DEF SubmitsOnly
<1> QED
  BY <1>1, <1>2 DEF StopSQE

-------------------------------------------------------------------------------
(* Type correctness.                                                       *)

LEMMA SessionCqe ==
  ASSUME NEW type \in CqeTypes, NEW s \in Ids, NEW res \in {"ok", "end"}
  PROVE  Cqe(type, s, res) \in SessionCqes
BY DEF SessionCqes, Cqes, Cqe

LEMMA SessionRequest ==
  ASSUME NEW type \in RequestTypes, NEW s \in Ids
  PROVE  Request(type, s) \in SessionRequests /\ Request(type, s).type # "close"
BY DEF SessionRequests, Requests, Request, RequestTypes

LEMMA SessionClose ==
  ASSUME NEW t \in Threads, NEW s \in Ids
  PROVE  /\ CloseRequest(t, s) \in SessionRequests
         /\ CloseRequest(t, s).type = "close" /\ CloseRequest(t, s).session = s
         /\ CloseRequest(t, s).by = t
BY DEF SessionRequests, Requests, CloseRequest

LEMMA CloseByThread ==
  ASSUME NEW r \in SessionRequests, r.type = "close"
  PROVE  r.session \in Ids /\ r.by \in Threads /\ r = CloseRequest(r.by, r.session)
BY DEF SessionRequests, Requests, RequestTypes, CloseRequest

(* What the queues contribute to TypeOK follows from RingOK. *)
LEMMA RingTypes ==
  /\ {Request("cancel", s) : s \in Ids} \subseteq Requests
  /\ SessionRequests \subseteq Requests
  /\ \A q \in Seq(SessionCqes) : q \in Seq(Cqes)
<1>1. SessionCqes \subseteq Cqes
  BY DEF SessionCqes
<1>2. \A q \in Seq(SessionCqes) : q \in Seq(Cqes)
  BY <1>1, SeqMonotonic
<1> QED
  BY <1>2 DEF SessionRequests, Requests, Request, RequestTypes

LEMMA PostRing ==
  ASSUME RingOK, NEW c \in SessionCqes, Post(c), sq' = sq, requests' \subseteq SessionRequests
  PROVE  RingOK'
<1>1. cq' \in Seq(SessionCqes)
  BY AppendFacts DEF RingOK, Post
<1> QED
  BY <1>1 DEF RingOK

(* The completion that a handler is called with names a session. *)
LEMMA HeadFacts ==
  ASSUME RingOK, cq # <<>>
  PROVE  /\ Head(cq) \in SessionCqes
         /\ Head(cq).type # "worker_stop" => Head(cq).session \in Ids
         /\ Tail(cq) \in Seq(SessionCqes)
         /\ Head(cq).type \in CqeTypes
<1>1. Head(cq) \in SessionCqes /\ Tail(cq) \in Seq(SessionCqes)
  BY TailFacts DEF RingOK
<1> QED
  BY <1>1 DEF SessionCqes, Cqes

LEMMA HandledSession ==
  ASSUME RingOK, NEW type, Handles(type), type # "worker_stop"
  PROVE  /\ cq # <<>> /\ Head(cq).type = type /\ workerPc = "run"
         /\ Head(cq).session \in Ids
BY HeadFacts DEF Handles

(* Session::Close and Session::Send, by any thread. *)
LEMMA CloseTypes ==
  ASSUME TypeOK, NEW t \in Threads, NEW s \in Ids, NEW a, NEW state, Close(t, s, a, state)
  PROVE  about' \in [Threads -> Ids \cup {None}]
BY DEF Close, TypeOK

LEMMA SendTypes ==
  ASSUME TypeInv, WorkerAssumption, NEW t \in Threads, NEW s \in Ids, Send(s) \/ SendFails(t, s)
  PROVE  /\ SubmitsOnly({})
         /\ closing' = closing
         /\ about' \in [Threads -> Ids \cup {None}]
         /\ sending' \in [Ids -> {"idle", "busy", "stuck"}]
<1>1. RingOK /\ TypeOK
  BY DEF TypeInv
<1>2. CASE Send(s)
  <2>1. SubmitsOnly({})
    <3>1. Request("send", s) \in SessionRequests /\ Request("send", s).type # "close"
      BY SessionRequest DEF RequestTypes
    <3>2. CASE Submit({Request("send", s)})
      BY <1>1, <3>1, <3>2, SubmitEffect DEF SubmitsOnly
    <3>3. CASE UNCHANGED <<sq, requests>>
      BY <1>1, <3>3, SubmitNothing
    <3> QED
      BY <1>2, <3>2, <3>3 DEF Send
  <2> QED
    BY <1>1, <1>2, <2>1 DEF Send, SendState, TypeOK
<1>3. CASE SendFails(t, s)
  BY <1>1, <1>3, CloseTypes, SubmitNothing DEF SendFails, TypeOK
<1> QED
  BY <1>2, <1>3

LEMMA CloseSubmitsTypes ==
  ASSUME TypeInv, WorkerAssumption, NEW t \in Threads, CloseSubmits(t)
  PROVE  /\ about[t] \in Ids
         /\ SubmitsOnly({CloseRequest(t, about[t])})
         /\ closing' = [closing EXCEPT ![about[t]] = @ \cup {t}]
         /\ about' = [about EXCEPT ![t] = None]
         /\ closing' \in [Ids -> SUBSET Threads]
         /\ about' \in [Threads -> Ids \cup {None}]
         /\ crashed' \in BOOLEAN
         /\ UNCHANGED <<mainVars, workerPc, sessions, fdOf, object, canceling, sending, cq, socket>>
<1>1. RingOK /\ TypeOK
  BY DEF TypeInv
<1>2. about[t] \in Ids
  BY <1>1 DEF CloseSubmits, TypeOK
<1>3. SubmitsOnly({CloseRequest(t, about[t])})
  <2>1. {CloseRequest(t, about[t])} \in SUBSET SessionRequests
    BY <1>2, SessionClose
  <2>2. CASE Submit({CloseRequest(t, about[t])})
    BY <1>1, <2>1, <2>2, SubmitEffect
  <2>3. CASE UNCHANGED <<sq, requests>>
    BY <1>1, <2>3, SubmitNothing DEF SubmitsOnly
  <2> QED
    BY <2>2, <2>3 DEF CloseSubmits
<1>4. crashed' \in BOOLEAN
  BY <1>1 DEF CloseSubmits, TypeOK
<1> QED
  BY <1>1, <1>2, <1>3, <1>4 DEF CloseSubmits, TypeOK

LEMMA InitTypeInv == WorkerAssumption /\ Init => TypeInv
<1> SUFFICES ASSUME WorkerAssumption, Init PROVE TypeInv
  OBVIOUS
<1>1. RingOK
  BY FS_EmptySet, EmptySeq DEF Init, RingOK, WorkerAssumption
<1> QED
  BY <1>1, RingTypes DEF Init, RingOK, TypeInv, TypeOK, None, Ids

LEMMA KernelTypeInv ==
  ASSUME TypeInv, WorkerAssumption,
         \/ KernelAccept \/ KernelData \/ KernelDisconnect \/ KernelSend
         \/ \E s \in Ids : KernelCancel(s)
         \/ \E r \in requests : KernelComplete(r)
  PROVE  TypeInv'
<1> USE DEF mainVars, sessionVars
<1>1. RingOK /\ TypeOK
  BY DEF TypeInv
<1>2. ASSUME RingOK', \/ cq' = cq
                      \/ \E c : Post(c),
             UNCHANGED <<mainVars, workerPc>>
      PROVE  (mainPc = "mark" => target \in Ids)'
             /\ (workerPc = "stop" => cq # <<>> /\ Head(cq).type = "session_close")'
  <2>1. ASSUME workerPc' = "stop" PROVE cq' # <<>> /\ Head(cq') = Head(cq)
    <3>1. cq # <<>> /\ cq \in Seq(SessionCqes) /\ cq' \in Seq(SessionCqes)
      BY <1>2, <2>1 DEF TypeInv, RingOK
    <3>2. ASSUME NEW c, Post(c) PROVE cq' # <<>> /\ Head(cq') = Head(cq)
      <4>1. Head(cq') = Head(cq)
        BY <3>1, <3>2, HeadTailAppend DEF Post
      <4>2. cq' # <<>>
        BY <3>1, <3>2 DEF Post
      <4> QED
        BY <4>1, <4>2
    <3> QED
      BY <1>2, <3>1, <3>2
  <2> QED
    BY <1>2, <2>1 DEF TypeInv
<1>3. CASE KernelAccept
  <2>1. PICK f \in Fds, s \in Ids :
          /\ socket' = [socket EXCEPT ![f] = s]
          /\ fdOf' = [fdOf EXCEPT ![s] = f]
          /\ object' = [object EXCEPT ![s] = "accepted"]
          /\ cq' = IF OwnAccept THEN Append(cq, Cqe("accept", s, "ok")) ELSE cq
    BY <1>3 DEF KernelAccept
  <2>2. cq' = cq \/ Post(Cqe("accept", s, "ok"))
    BY <2>1 DEF Post
  <2>3. UNCHANGED <<mainVars, workerPc, sessions, canceling, closing, about, sending, sq, requests,
                   crashed>>
    BY <1>3 DEF KernelAccept
  <2>4. RingOK'
    <3>1. CASE cq' = cq
      BY <1>1, <2>3, <3>1 DEF RingOK
    <3>2. CASE Post(Cqe("accept", s, "ok"))
      BY <1>1, <2>3, <3>2, PostRing, SessionCqe DEF RingOK, CqeTypes
    <3> QED
      BY <2>2, <3>1, <3>2
  <2>5. TypeOK'
    BY <1>1, <2>1, <2>3, <2>4, RingTypes DEF TypeOK, RingOK
  <2> QED
    BY <1>2, <2>2, <2>3, <2>4, <2>5 DEF TypeInv
<1>4. ASSUME UNCHANGED <<mainVars, workerPc, sessions, sessionVars, socket, crashed>>, RingOK'
      PROVE  TypeOK'
  BY <1>1, <1>4, RingTypes DEF TypeOK, RingOK
<1>5. CASE KernelData
  <2>1. PICK s \in Talkers : Post(Cqe("recv", s, "ok"))
    BY <1>5 DEF KernelData
  <2>2. s \in Ids
    BY <2>1 DEF WorkerAssumption, Ids
  <2>3. RingOK'
    BY <1>1, <1>5, <2>1, <2>2, PostRing, SessionCqe DEF RingOK, CqeTypes, KernelData
  <2> QED
    BY <1>2, <1>4, <1>5, <2>1, <2>3 DEF KernelData, TypeInv
<1>6. CASE KernelDisconnect
  <2>1. PICK s \in Ids : Post(Cqe("recv", s, "end")) /\ requests' = requests \ {Request("recv", s)}
    BY <1>6 DEF KernelDisconnect
  <2>2. RingOK'
    BY <1>1, <1>6, <2>1, PostRing, SessionCqe DEF RingOK, CqeTypes, KernelDisconnect
  <2> QED
    BY <1>2, <1>4, <1>6, <2>1, <2>2 DEF KernelDisconnect, TypeInv
<1>7. CASE KernelSend
  <2>1. PICK s \in Ids, res \in {"ok", "end"} :
          Post(Cqe("send", s, res)) /\ requests' = requests \ {Request("send", s)}
    BY <1>7 DEF KernelSend
  <2>2. RingOK'
    BY <1>1, <1>7, <2>1, PostRing, SessionCqe DEF RingOK, CqeTypes, KernelSend
  <2> QED
    BY <1>2, <1>4, <1>7, <2>1, <2>2 DEF KernelSend, TypeInv
<1>8. ASSUME NEW s \in Ids, KernelCancel(s) PROVE TypeInv'
  <2>1. requests' \subseteq SessionRequests
    <3>1. Request("cancel_done", s) \in SessionRequests /\ Request("recv_canceled", s) \in SessionRequests
      BY SessionRequest DEF RequestTypes
    <3> QED
      BY <1>1, <1>8, <3>1 DEF KernelCancel, RingOK
  <2>2. RingOK'
    BY <1>1, <1>8, <2>1 DEF KernelCancel, RingOK
  <2> QED
    BY <1>2, <1>4, <1>8, <2>2 DEF KernelCancel, TypeInv
<1>9. ASSUME NEW r \in requests, KernelComplete(r) PROVE TypeInv'
  <2>1. r \in SessionRequests /\ r.type \in {"recv_canceled", "cancel_done", "close", "nop"}
    BY <1>1, <1>9 DEF RingOK, KernelComplete
  <2>2. Completion(r) \in SessionCqes
    BY <2>1 DEF Completion, SessionRequests, SessionCqes, Cqes, Cqe, CqeTypes, None
  <2>3. /\ Post(Completion(r)) /\ requests' = requests \ {r}
        /\ socket' = IF r.type = "close" THEN [socket EXCEPT ![fdOf[r.session]] = None] ELSE socket
        /\ UNCHANGED <<mainVars, workerPc, sessions, sessionVars, sq, crashed>>
    BY <1>9 DEF KernelComplete
  <2>4. RingOK'
    BY <1>1, <2>2, <2>3, PostRing DEF RingOK
  <2>5. socket' \in [Fds -> Ids \cup {None}]
    BY <1>1, <2>3 DEF TypeOK
  <2>6. TypeOK'
    BY <1>1, <2>3, <2>4, <2>5, RingTypes DEF TypeOK, RingOK
  <2> QED
    BY <1>2, <2>3, <2>4, <2>6 DEF TypeInv
<1> QED
  BY <1>3, <1>5, <1>6, <1>7, <1>8, <1>9

(* The steps that submit, or take a completion off the queue, and change   *)
(* nothing else but what sends and closes change.                          *)
LEMMA StepTypes ==
  ASSUME TypeInv, WorkerAssumption, NEW new, SubmitsOnly(new),
         \/ cq' = cq /\ workerPc' = workerPc
         \/ cq # <<>> /\ Seen /\ workerPc' = "run",
         closing' \in [Ids -> SUBSET Threads],
         about' \in [Threads -> Ids \cup {None}],
         sending' \in [Ids -> {"idle", "busy", "stuck"}],
         crashed' \in BOOLEAN,
         UNCHANGED <<mainVars, sessions, fdOf, object, canceling, socket>>
  PROVE  TypeInv'
<1> USE DEF mainVars
<1>1. RingOK /\ TypeOK
  BY DEF TypeInv
<1>2. RingOK'
  <2>1. cq' \in Seq(SessionCqes)
    BY <1>1, TailFacts DEF RingOK, Seen
  <2> QED
    BY <1>1, <2>1 DEF RingOK, SubmitsOnly
<1>3. TypeOK'
  BY <1>1, <1>2, RingTypes DEF TypeOK, RingOK
<1> QED
  BY <1>2, <1>3 DEF TypeInv

LEMMA ThreadTypeInv ==
  ASSUME TypeInv, WorkerAssumption,
         \/ \E t \in Threads : CloseSubmits(t)
         \/ \E t \in Others : OthersSend(t)
  PROVE  TypeInv'
<1>1. TypeOK
  BY DEF TypeInv
<1>2. ASSUME NEW t \in Threads, CloseSubmits(t) PROVE TypeInv'
  <2>1. /\ about[t] \in Ids
        /\ SubmitsOnly({CloseRequest(t, about[t])})
        /\ closing' \in [Ids -> SUBSET Threads]
        /\ about' \in [Threads -> Ids \cup {None}]
        /\ crashed' \in BOOLEAN
        /\ UNCHANGED <<mainVars, workerPc, sessions, fdOf, object, canceling, sending, cq, socket>>
    BY <1>2, CloseSubmitsTypes
  <2> QED
    BY <1>1, <2>1, StepTypes DEF TypeOK
<1>3. ASSUME NEW t \in Others, OthersSend(t) PROVE TypeInv'
  <2>1. PICK s \in Ids : Send(s) \/ SendFails(t, s)
    BY <1>3 DEF OthersSend
  <2>2. t \in Threads
    BY DEF Threads
  <2>3. UNCHANGED <<mainVars, workerPc, sessions, fdOf, object, canceling, cq, socket, crashed>>
    BY <1>3 DEF OthersSend
  <2> QED
    BY <1>1, <2>1, <2>2, <2>3, SendTypes, StepTypes DEF TypeOK
<1> QED
  BY <1>2, <1>3

LEMMA WorkerTypeInv ==
  ASSUME TypeInv, WorkerAssumption, Run \/ SessionAdded
  PROVE  TypeInv'
<1> USE DEF sessionVars
<1>1. RingOK /\ TypeOK
  BY DEF TypeInv
<1>2. Owner \in Threads
  BY DEF Threads
<1>3. CASE Exit
  <2>1. RingOK' /\ workerPc' = "exited" /\ crashed' \in BOOLEAN
        /\ UNCHANGED <<mainVars, sessions, sessionVars, sq, requests, cq, socket>>
    BY <1>1, <1>3 DEF Exit, RingOK, TypeOK
  <2>2. TypeOK'
    BY <1>1, <2>1, RingTypes DEF TypeOK, RingOK, mainVars
  <2> QED
    BY <2>1, <2>2 DEF TypeInv, mainVars
<1>4. CASE OnRecv
  <2>1. cq # <<>> /\ workerPc = "run"
        /\ UNCHANGED <<mainVars, workerPc, sessions, fdOf, object, canceling, socket, crashed>>
    BY <1>4 DEF OnRecv, Handles
  <2>2. ASSUME NEW s \in Ids, Send(s) \/ SendFails(Owner, s), UNCHANGED cq
        PROVE  TypeInv'
    BY <1>1, <1>2, <2>1, <2>2, SendTypes, StepTypes DEF TypeOK
  <2>3. CASE Seen /\ UNCHANGED <<closing, about, sending, sq, requests>>
    BY <1>1, <2>1, <2>3, SubmitNothing, StepTypes DEF TypeOK
  <2> QED
    BY <1>4, <2>2, <2>3 DEF OnRecv
<1>5. CASE OnRecvEnd \/ OnRecvCancel \/ OnSendDone \/ OnSendError
  <2>1. Head(cq).session \in Ids /\ cq # <<>> /\ workerPc = "run"
    BY <1>1, <1>5, HandledSession DEF OnRecvEnd, OnRecvCancel, OnSendDone, OnSendError
  <2>2. \E a, state : Close(Owner, Head(cq).session, a, state)
    BY <1>5 DEF OnRecvEnd, OnRecvCancel, OnSendDone, OnSendError
  <2>3. about' \in [Threads -> Ids \cup {None}]
    BY <1>1, <1>2, <2>1, <2>2, CloseTypes
  <2>4. /\ Seen
        /\ UNCHANGED <<mainVars, workerPc, sessions, fdOf, object, canceling, closing, sq, requests,
                       socket, crashed>>
        /\ \/ sending' = sending
           \/ \E state \in {"idle", "stuck"} : sending' = [sending EXCEPT ![Head(cq).session] = state]
    BY <1>5 DEF OnRecvEnd, OnRecvCancel, OnSendDone, OnSendError
  <2>5. sending' \in [Ids -> {"idle", "busy", "stuck"}]
    BY <1>1, <2>4 DEF TypeOK
  <2> QED
    BY <1>1, <2>1, <2>3, <2>4, <2>5, SubmitNothing, StepTypes DEF TypeOK
<1>6. CASE OnSendMore
  <2>1. Head(cq).session \in Ids /\ cq # <<>> /\ workerPc = "run"
    BY <1>1, <1>6, HandledSession DEF OnSendMore
  <2>2. Submit({Request("send", Head(cq).session)}) \/ UNCHANGED <<sq, requests>>
    BY <1>6 DEF OnSendMore
  <2>3. \E new : SubmitsOnly(new)
    <3>1. {Request("send", Head(cq).session)} \in SUBSET SessionRequests
      BY <2>1, SessionRequest DEF RequestTypes
    <3> QED
      BY <1>1, <2>2, <3>1, SubmitEffect, SubmitNothing
  <2>4. /\ Seen /\ sending' = [sending EXCEPT ![Head(cq).session] = SendState]
        /\ UNCHANGED <<mainVars, workerPc, sessions, fdOf, object, canceling, closing, about, socket,
                       crashed>>
    BY <1>6 DEF OnSendMore
  <2>5. sending' \in [Ids -> {"idle", "busy", "stuck"}]
    BY <1>1, <2>4 DEF TypeOK, SendState
  <2> QED
    BY <1>1, <2>1, <2>3, <2>4, <2>5, StepTypes DEF TypeOK
<1>7. CASE Stale
  <2>1. cq # <<>> /\ workerPc = "run"
    BY <1>7 DEF Stale, Handles
  <2>2. Seen /\ crashed' \in BOOLEAN
        /\ UNCHANGED <<mainVars, workerPc, sessions, sessionVars, sq, requests, socket>>
    BY <1>7 DEF Stale
  <2> QED
    BY <1>1, <2>1, <2>2, SubmitNothing, StepTypes DEF TypeOK
<1>8. CASE OnSessionClose
  <2>1. cq # <<>> /\ Head(cq).type = "session_close"
    BY <1>8 DEF OnSessionClose, Handles
  <2>2. /\ workerPc' = "stop" /\ RemoveSession(fdOf[Head(cq).session])
        /\ UNCHANGED <<mainVars, fdOf, canceling, closing, about, sending, sq, requests, cq, socket,
                       crashed>>
    BY <1>8 DEF OnSessionClose
  <2>3. RingOK'
    BY <1>1, <2>2 DEF RingOK
  <2>4. TypeOK'
    BY <1>1, <2>2, <2>3, RingTypes DEF TypeOK, RingOK, RemoveSession, mainVars
  <2> QED
    BY <2>1, <2>2, <2>3, <2>4 DEF TypeInv, mainVars
<1>9. CASE AfterRemove
  <2>1. cq # <<>>
    BY <1>9 DEF AfterRemove, TypeInv
  <2>2. /\ StopSQE /\ workerPc' = "run" /\ Seen
        /\ UNCHANGED <<mainVars, sessions, sessionVars, socket, crashed>>
    BY <1>9 DEF AfterRemove
  <2> QED
    BY <1>1, <2>1, <2>2, StopEffect, StepTypes DEF TypeOK
<1>10. CASE SessionAdded
  <2>1. PICK s \in Ids : AddSession(s)
    BY <1>1, <1>10, HandledSession DEF SessionAdded, OnAcceptCompleted, OtherThreadAdds
  <2>2. /\ cq' = cq \/ (cq # <<>> /\ Seen /\ workerPc = "run")
        /\ UNCHANGED <<mainVars, workerPc, fdOf, canceling, closing, about, sending, socket, crashed>>
    BY <1>10 DEF SessionAdded, OnAcceptCompleted, OtherThreadAdds, Handles
  <2>3. SubmitsOnly({Request("recv", s)})
    <3>1. {Request("recv", s)} \in SUBSET SessionRequests
      BY SessionRequest DEF RequestTypes
    <3> QED
      BY <1>1, <2>1, <3>1, SubmitEffect DEF AddSession
  <2>4. RingOK'
    BY <1>1, <2>2, <2>3, TailFacts DEF RingOK, SubmitsOnly, Seen
  <2>5. TypeOK'
    BY <1>1, <2>1, <2>2, <2>4, RingTypes DEF TypeOK, RingOK, AddSession, mainVars
  <2> QED
    BY <2>2, <2>4, <2>5 DEF TypeInv, mainVars
<1>11. CASE CloseSubmits(Owner)
  BY <1>2, <1>11, ThreadTypeInv
<1> QED
  BY <1>3, <1>4, <1>5, <1>6, <1>7, <1>8, <1>9, <1>10, <1>11 DEF Run

LEMMA MainTypeInv ==
  ASSUME TypeInv, WorkerAssumption, ListenerClosed \/ Main
  PROVE  TypeInv'
<1> USE DEF sessionVars, MainStep
<1>1. RingOK /\ TypeOK
  BY DEF TypeInv
<1>2. CASE ListenerClosed \/ ClearRunning \/ CloseSessions \/ EndOfMap
  <2>1. /\ mainPc' \in {"closed", "close", "iterate", "submit", "nop"}
        /\ running' \in BOOLEAN
        /\ UNCHANGED <<visited, target, workerPc, sessions, sessionVars, sq, requests, cq, socket,
                       crashed>>
    BY <1>1, <1>2 DEF ListenerClosed, ClearRunning, CloseSessions, EndOfMap, TypeOK
  <2>2. RingOK'
    BY <1>1, <2>1 DEF RingOK
  <2>3. TypeOK'
    BY <1>1, <2>1, <2>2 DEF TypeOK
  <2> QED
    BY <2>1, <2>2, <2>3 DEF TypeInv
<1>3. CASE StartClose
  <2>1. PICK s \in MappedSessions \ visited :
          /\ visited' = visited \cup {s}
          /\ IF s \in canceling \/ ~ SqeAvailable
             THEN UNCHANGED <<mainPc, target, sq>>
             ELSE /\ mainPc' = "mark" /\ target' = s
                  /\ sq' = sq \cup {Request("cancel", s)}
    BY <1>3 DEF StartClose
  <2>2. mainPc = "iterate"
        /\ UNCHANGED <<running, workerPc, sessions, sessionVars, requests, cq, socket, crashed>>
    BY <1>3 DEF StartClose
  <2>3. s \in Ids
    BY DEF MappedSessions
  <2>4. RingOK'
    <3>1. CASE sq' = sq
      BY <1>1, <2>2, <3>1 DEF RingOK
    <3>2. CASE SqeAvailable /\ sq' = sq \cup {Request("cancel", s)}
      <4>1. IsFiniteSet(sq') /\ Cardinality(sq') <= Cardinality(sq) + 1 /\ Cardinality(sq) \in Nat
        <5>1. IsFiniteSet(sq)
          BY <1>1 DEF RingOK
        <5>2. Cardinality(sq) \in Nat
          BY <5>1, FS_CardinalityType
        <5>3. /\ IsFiniteSet(sq \cup {Request("cancel", s)})
              /\ Cardinality(sq \cup {Request("cancel", s)}) =
                   IF Request("cancel", s) \in sq THEN Cardinality(sq) ELSE Cardinality(sq) + 1
          BY <5>1, FS_AddElement
        <5> QED
          BY <3>2, <5>2, <5>3
      <4>2. Cardinality(sq') <= SqDepth
        <5>1. IsFiniteSet(sq') /\ SqDepth \in Nat
          BY <4>1 DEF WorkerAssumption
        <5>2. Cardinality(sq') \in Nat
          BY <5>1, FS_CardinalityType
        <5> QED
          BY <3>2, <4>1, <5>1, <5>2 DEF SqeAvailable
      <4> QED
        BY <1>1, <2>2, <2>3, <3>2, <4>1, <4>2 DEF RingOK
    <3> QED
      BY <2>1, <3>1, <3>2
  <2>5. TypeOK'
    BY <1>1, <2>1, <2>2, <2>3, <2>4, RingTypes DEF TypeOK, RingOK
  <2> QED
    BY <2>1, <2>2, <2>3, <2>4, <2>5 DEF TypeInv
<1>4. CASE MarkCanceling
  <2>1. /\ mainPc = "mark" /\ mainPc' = "iterate" /\ canceling' = canceling \cup {target}
        /\ target' = None /\ crashed' \in BOOLEAN
        /\ UNCHANGED <<running, visited, workerPc, sessions, fdOf, object, closing, about, sending,
                       sq, requests, cq, socket>>
    BY <1>4 DEF MarkCanceling
  <2>2. RingOK'
    BY <1>1, <2>1 DEF RingOK
  <2>3. target \in Ids
    BY <2>1 DEF TypeInv
  <2>4. TypeOK'
    BY <1>1, <2>1, <2>2, <2>3, RingTypes DEF TypeOK, RingOK
  <2> QED
    BY <2>1, <2>2, <2>4 DEF TypeInv
<1>5. CASE SubmitCancels \/ Stop
  <2>1. Submit({}) \/ StopSQE
    BY <1>5 DEF SubmitCancels, Stop
  <2>2. mainPc' \in {"nop", "join"}
        /\ UNCHANGED <<running, visited, target, workerPc, sessions, sessionVars, cq, socket, crashed>>
    BY <1>5 DEF SubmitCancels, Stop
  <2>3. SubmitsOnly({})
    <3>1. CASE Submit({})
      BY <1>1, <3>1, SubmitEffect
    <3>2. CASE StopSQE
      BY <1>1, <3>2, StopEffect
    <3> QED
      BY <2>1, <3>1, <3>2
  <2>4. RingOK'
    BY <1>1, <2>2, <2>3 DEF RingOK, SubmitsOnly
  <2>5. TypeOK'
    BY <1>1, <2>2, <2>3, <2>4, RingTypes DEF TypeOK, RingOK
  <2> QED
    BY <2>2, <2>4, <2>5 DEF TypeInv
<1>6. CASE Join
  <2>1. /\ workerPc = "exited" /\ mainPc' = "done" /\ sq' = {} /\ requests' = {} /\ cq' = <<>>
        /\ UNCHANGED <<running, visited, target, workerPc, sessions, sessionVars, socket, crashed>>
    BY <1>6 DEF Join
  <2>2. RingOK'
    BY <2>1, FS_EmptySet, EmptySeq DEF RingOK, WorkerAssumption
  <2>3. TypeOK'
    BY <1>1, <2>1, <2>2, RingTypes DEF TypeOK, RingOK
  <2> QED
    BY <2>1, <2>2, <2>3 DEF TypeInv
<1> QED
  BY <1>2, <1>3, <1>4, <1>5, <1>6 DEF Main

LEMMA NextTypeInv == WorkerAssumption /\ TypeInv /\ [Next]_vars => TypeInv'
<1> SUFFICES ASSUME WorkerAssumption, TypeInv, [Next]_vars PROVE TypeInv'
  OBVIOUS
<1>1. CASE UNCHANGED vars
  BY <1>1 DEF vars, TypeInv, TypeOK, RingOK
<1> QED
  BY <1>1, KernelTypeInv, WorkerTypeInv, ThreadTypeInv, MainTypeInv DEF Next, Threads

-------------------------------------------------------------------------------
(* What the steps do, by what the invariants look at.                      *)

ClosesDescriptor == \E r \in requests : r.type = "close" /\ KernelComplete(r)

(* Completions of accepts and closes: those that follow a descriptor. *)
FollowTypes == {"accept", "session_close"}

(* A step that neither makes, adds nor removes a session nor frees a       *)
(* descriptor appends only completions that follow none, and takes no      *)
(* accept off the queue.                                                   *)
QuietStep ==
  /\ UNCHANGED <<object, fdOf, sessions, socket>>
  /\ \/ cq' = cq
     \/ cq' = <<>> /\ workerPc = "exited"
     \/ cq # <<>> /\ Seen /\ Head(cq).type # "accept"
     \/ \E c \in SessionCqes : Post(c) /\ c.type \notin FollowTypes

(* The steps that neither make nor add a session. *)
OtherSteps ==
  \/ KernelData \/ KernelDisconnect \/ KernelSend
  \/ (\E s \in Ids : KernelCancel(s)) \/ (\E r \in requests : KernelComplete(r))
  \/ Run
  \/ \E t \in Others : OthersSend(t) \/ CloseSubmits(t)
  \/ ListenerClosed \/ Main

LEMMA OtherStepKinds ==
  ASSUME TypeInv, WorkerAssumption, OtherSteps
  PROVE  ClosesDescriptor \/ OnSessionClose \/ QuietStep
<1> USE DEF FollowTypes
<1>1. RingOK
  BY DEF TypeInv
<1>2. KernelData => QuietStep
  <2> SUFFICES ASSUME KernelData PROVE QuietStep
    OBVIOUS
  <2>1. PICK s \in Talkers : Post(Cqe("recv", s, "ok"))
    BY DEF KernelData
  <2>2. s \in Ids /\ Cqe("recv", s, "ok").type = "recv"
    BY <2>1 DEF WorkerAssumption, Ids, Cqe
  <2>3. Cqe("recv", s, "ok") \in SessionCqes
    BY <2>2, SessionCqe DEF CqeTypes
  <2> QED
    BY <2>1, <2>2, <2>3 DEF KernelData, QuietStep, sessionVars
<1>3. KernelDisconnect => QuietStep
  <2> SUFFICES ASSUME KernelDisconnect PROVE QuietStep
    OBVIOUS
  <2>1. PICK s \in Ids : Post(Cqe("recv", s, "end"))
    BY DEF KernelDisconnect
  <2>2. Cqe("recv", s, "end") \in SessionCqes /\ Cqe("recv", s, "end").type = "recv"
    BY SessionCqe DEF CqeTypes, Cqe
  <2> QED
    BY <2>1, <2>2 DEF KernelDisconnect, QuietStep, sessionVars
<1>4. KernelSend => QuietStep
  <2> SUFFICES ASSUME KernelSend PROVE QuietStep
    OBVIOUS
  <2>1. PICK s \in Ids, res \in {"ok", "end"} : Post(Cqe("send", s, res))
    BY DEF KernelSend
  <2>2. Cqe("send", s, res) \in SessionCqes /\ Cqe("send", s, res).type = "send"
    BY SessionCqe DEF CqeTypes, Cqe
  <2> QED
    BY <2>1, <2>2 DEF KernelSend, QuietStep, sessionVars
<1>5. (\E s \in Ids : KernelCancel(s)) => QuietStep
  BY DEF KernelCancel, QuietStep, sessionVars
<1>6. ASSUME NEW r \in requests, KernelComplete(r), r.type # "close"
      PROVE  QuietStep
  <2>1. r \in SessionRequests /\ r.type \in {"recv_canceled", "cancel_done", "nop"}
    BY <1>1, <1>6 DEF RingOK, KernelComplete
  <2>2. Completion(r) \in SessionCqes /\ Completion(r).type \notin FollowTypes
    BY <2>1 DEF Completion, SessionRequests, SessionCqes, Cqes, Cqe, CqeTypes, None
  <2> QED
    BY <1>6, <2>2 DEF KernelComplete, QuietStep, sessionVars
<1>7. Exit \/ OnRecv \/ (\E t \in Threads : CloseSubmits(t)) \/ (\E t \in Others : OthersSend(t)) => QuietStep
  BY DEF Exit, OnRecv, CloseSubmits, OthersSend, QuietStep, sessionVars, Handles
<1>8. OnRecvEnd \/ OnRecvCancel \/ OnSendDone \/ OnSendMore \/ OnSendError => QuietStep
  BY DEF OnRecvEnd, OnRecvCancel, OnSendDone, OnSendMore, OnSendError, QuietStep, Handles
<1>9. Stale => QuietStep
  BY DEF Stale, QuietStep, Handles, sessionVars
<1>10. AfterRemove => QuietStep
  BY DEF AfterRemove, QuietStep, sessionVars, TypeInv
<1>11. ListenerClosed \/ Main => QuietStep
  BY DEF ListenerClosed, Main, ClearRunning, CloseSessions, StartClose, MarkCanceling, EndOfMap,
         SubmitCancels, Stop, Join, sessionVars, QuietStep
<1> QED
  BY <1>2, <1>3, <1>4, <1>5, <1>6, <1>7, <1>8, <1>9, <1>10, <1>11
  DEF OtherSteps, Run, ClosesDescriptor, Threads

LEMMA StepKinds ==
  ASSUME TypeInv, WorkerAssumption, Next
  PROVE  KernelAccept \/ ClosesDescriptor \/ SessionAdded \/ OnSessionClose \/ QuietStep
BY OtherStepKinds DEF Next, OtherSteps

(* Closes begin with a live session that nobody has closed, and only the   *)
(* second part of Close sets closing and requests the close.               *)
NoNewClose == \A r \in requests' : r.type = "close" => r \in requests

Begins(t) ==
  \E s \in Ids : object[s] = "live" /\ closing[s] = {} /\ about' = [about EXCEPT ![t] = s]

LEMMA CloseSteps ==
  ASSUME TypeInv, WorkerAssumption, Next
  PROVE  \/ \E t \in Threads : CloseSubmits(t)
         \/ /\ closing' = closing /\ NoNewClose
            /\ about' = about \/ \E t \in Threads : Begins(t)
<1>1. RingOK /\ TypeOK /\ Owner \in Threads
  BY DEF TypeInv, Threads
<1> DEFINE Quiet == /\ closing' = closing /\ NoNewClose
                    /\ about' = about \/ \E t \in Threads : Begins(t)
<1>2. \A new : SubmitsOnly(new) /\ (\A r \in new : r.type # "close") => NoNewClose
  BY DEF SubmitsOnly, NoNewClose
<1>3. ASSUME UNCHANGED <<sq, requests>> PROVE NoNewClose
  BY <1>3 DEF NoNewClose
<1>4. ASSUME NEW t \in Threads, NEW s \in Ids, NEW a, NEW state, object[s] = "live", Close(t, s, a, state)
      PROVE  about' = about \/ \E u \in Threads : Begins(u)
  BY <1>4 DEF Close, Closes, Begins
<1>5. ASSUME NEW t \in Threads, NEW s \in Ids, Send(s) \/ SendFails(t, s)
      PROVE  Quiet
  <2>1. closing' = closing /\ NoNewClose
    BY <1>2, <1>5, SendTypes
  <2>2. about' = about \/ \E u \in Threads : Begins(u)
    BY <1>4, <1>5 DEF Send, SendFails
  <2> QED
    BY <2>1, <2>2
<1>6. OnRecv => Quiet
  BY <1>1, <1>3, <1>5 DEF OnRecv
<1>7. ASSUME NEW t \in Others, OthersSend(t) PROVE Quiet
  BY <1>5, <1>7 DEF OthersSend, Threads
<1>8. OnRecvEnd \/ OnRecvCancel \/ OnSendDone \/ OnSendError => Quiet
  <2> SUFFICES ASSUME OnRecvEnd \/ OnRecvCancel \/ OnSendDone \/ OnSendError PROVE Quiet
    OBVIOUS
  <2>1. Head(cq).session \in Ids /\ object[Head(cq).session] = "live"
    BY <1>1, HandledSession DEF OnRecvEnd, OnRecvCancel, OnSendDone, OnSendError
  <2>2. \E a, state : Close(Owner, Head(cq).session, a, state)
    BY DEF OnRecvEnd, OnRecvCancel, OnSendDone, OnSendError
  <2>3. UNCHANGED <<closing, sq, requests>>
    BY DEF OnRecvEnd, OnRecvCancel, OnSendDone, OnSendError
  <2> QED
    BY <1>1, <1>3, <1>4, <2>1, <2>2, <2>3
<1>9. OnSendMore => Quiet
  <2> SUFFICES ASSUME OnSendMore PROVE Quiet
    OBVIOUS
  <2>1. Head(cq).session \in Ids /\ UNCHANGED <<closing, about>>
    BY <1>1, HandledSession DEF OnSendMore
  <2>2. {Request("send", Head(cq).session)} \in SUBSET SessionRequests
        /\ Request("send", Head(cq).session).type # "close"
    BY <2>1, SessionRequest DEF RequestTypes
  <2>3. Submit({Request("send", Head(cq).session)}) \/ UNCHANGED <<sq, requests>>
    BY DEF OnSendMore
  <2>4. NoNewClose
    BY <1>1, <1>2, <1>3, <2>2, <2>3, SubmitEffect
  <2> QED
    BY <2>1, <2>4
<1>10. SessionAdded => Quiet
  <2> SUFFICES ASSUME SessionAdded PROVE Quiet
    OBVIOUS
  <2>1. PICK s \in Ids : AddSession(s)
    BY <1>1, HandledSession DEF SessionAdded, OnAcceptCompleted, OtherThreadAdds
  <2>2. {Request("recv", s)} \in SUBSET SessionRequests /\ Request("recv", s).type # "close"
    BY SessionRequest DEF RequestTypes
  <2>3. NoNewClose
    BY <1>1, <1>2, <2>1, <2>2, SubmitEffect DEF AddSession
  <2>4. UNCHANGED <<closing, about>>
    BY DEF SessionAdded, OnAcceptCompleted, OtherThreadAdds
  <2> QED
    BY <2>3, <2>4
<1>11. AfterRemove \/ SubmitCancels \/ Stop => Quiet
  <2> SUFFICES ASSUME AfterRemove \/ SubmitCancels \/ Stop PROVE Quiet
    OBVIOUS
  <2>1. SubmitsOnly({})
    BY <1>1, StopEffect, SubmitEffect DEF AfterRemove, SubmitCancels, Stop
  <2> QED
    BY <1>2, <2>1 DEF AfterRemove, SubmitCancels, Stop, sessionVars
<1>12. ASSUME NEW s \in Ids, KernelCancel(s) PROVE Quiet
  <2>1. NoNewClose
    BY <1>12, SessionRequest DEF KernelCancel, NoNewClose, Request
  <2> QED
    BY <1>12, <2>1 DEF KernelCancel, sessionVars
<1>13. KernelDisconnect \/ KernelSend \/ (\E r \in requests : KernelComplete(r)) \/ Join => Quiet
  BY DEF KernelDisconnect, KernelSend, KernelComplete, Join, NoNewClose, sessionVars
<1>14. KernelAccept \/ KernelData \/ Exit \/ Stale \/ OnSessionClose \/ ListenerClosed \/ ClearRunning
         \/ CloseSessions \/ StartClose \/ MarkCanceling \/ EndOfMap => Quiet
  <2>1. KernelAccept \/ KernelData \/ Exit \/ Stale \/ OnSessionClose \/ ListenerClosed \/ ClearRunning
         \/ CloseSessions \/ StartClose \/ MarkCanceling \/ EndOfMap => UNCHANGED <<requests, closing, about>>
    BY DEF KernelAccept, KernelData, Exit, Stale, OnSessionClose, ListenerClosed, ClearRunning,
           CloseSessions, StartClose, MarkCanceling, EndOfMap, sessionVars
  <2> QED
    BY <2>1 DEF NoNewClose
<1> HIDE DEF Quiet
<1>15. (\E t \in Threads : CloseSubmits(t)) \/ Quiet
  BY <1>6, <1>7, <1>8, <1>9, <1>10, <1>11, <1>12, <1>13, <1>14 DEF Next, Run, Main, Threads
<1> QED
  BY <1>15 DEF Quiet

-------------------------------------------------------------------------------
(* The life of sessions and descriptors.                                   *)

(* The map holds the live sessions, each at its descriptor; the kernel's   *)
(* table holds sessions at theirs; accepts and closes complete for         *)
(* sessions that have been accepted.                                       *)
LifeInv ==
  /\ \A s \in Ids : object[s] # "none" => fdOf[s] \in Fds
  /\ \A s \in Ids : object[s] = "live" => sessions[fdOf[s]] = s
  /\ \A f \in Fds : sessions[f] # None => fdOf[sessions[f]] = f /\ object[sessions[f]] = "live"
  /\ \A f \in Fds : socket[f] # None => fdOf[socket[f]] = f /\ object[socket[f]] # "none"
  /\ \A i \in 1 .. Len(cq) : cq[i].type \in FollowTypes => object[cq[i].session] # "none"

(* A descriptor on which two threads have closed one session. *)
Doubled(f) == \E s \in Ids : fdOf[s] = f /\ Twice(s)

(* A session has its connection until its close is done, except where the  *)
(* second close of another session may have taken it.                      *)
Owns(s) == socket[fdOf[s]] = s \/ Doubled(fdOf[s])

CloseInv ==
  \A s \in Ids, t \in Threads :
    /\ t \in closing[s] \/ about[t] = s => object[s] # "none"
    /\ about[t] = s => t \notin closing[s]
    /\ CloseRequest(t, s) \in requests => t \in closing[s] /\ Owns(s)
    /\ object[s] # "none" /\ closing[s] = {} => Owns(s)

LEMMA InitLifeInv == Init => LifeInv /\ CloseInv
<1> SUFFICES ASSUME Init PROVE LifeInv /\ CloseInv
  OBVIOUS
<1>1. LifeInv
  BY DEF Init, LifeInv
<1>2. CloseInv
  <2>1. \A s \in Ids, t \in Threads : object[s] = "none" /\ closing[s] = {} /\ about[t] # s
    BY DEF Init, Ids, None
  <2> QED
    BY <2>1 DEF Init, CloseInv
<1> QED
  BY <1>1, <1>2

(* The session whose close frees a descriptor, and the completion. *)
LEMMA ClosedDescriptor ==
  ASSUME TypeInv, CloseInv, ClosesDescriptor
  PROVE  \E s \in Ids, t \in Threads :
           /\ CloseRequest(t, s) \in requests
           /\ requests' = requests \ {CloseRequest(t, s)}
           /\ Post(Cqe("session_close", s, "ok"))
           /\ socket' = [socket EXCEPT ![fdOf[s]] = None]
           /\ object[s] # "none"
           /\ UNCHANGED <<mainVars, workerPc, sessions, sessionVars, sq, crashed>>
<1>1. PICK r \in requests : r.type = "close" /\ KernelComplete(r)
  BY DEF ClosesDescriptor
<1>2. r.session \in Ids /\ r.by \in Threads /\ r = CloseRequest(r.by, r.session)
  BY <1>1, CloseByThread DEF TypeInv, RingOK
<1>3. Completion(r) = Cqe("session_close", r.session, "ok")
  BY <1>1 DEF Completion
<1>4. object[r.session] # "none"
  BY <1>2 DEF CloseInv
<1>5. /\ CloseRequest(r.by, r.session) \in requests
      /\ requests' = requests \ {CloseRequest(r.by, r.session)}
      /\ Post(Cqe("session_close", r.session, "ok"))
      /\ socket' = [socket EXCEPT ![fdOf[r.session]] = None]
      /\ UNCHANGED <<mainVars, workerPc, sessions, sessionVars, sq, crashed>>
  BY <1>1, <1>2, <1>3 DEF KernelComplete
<1> QED
  BY <1>2, <1>4, <1>5

(* What a completion at the end of the queue, or one less at its head,     *)
(* means for the others.                                                   *)
LEMMA Posted ==
  ASSUME RingOK, NEW c \in SessionCqes, Post(c)
  PROVE  /\ Len(cq) \in Nat /\ Len(cq') = Len(cq) + 1
         /\ \A i \in 1 .. Len(cq) : cq'[i] = cq[i]
         /\ cq'[Len(cq) + 1] = c
         /\ \A i \in 1 .. Len(cq') : i \in 1 .. Len(cq) \/ i = Len(cq) + 1
BY AppendFacts DEF RingOK, Post

LEMMA Taken ==
  ASSUME RingOK, cq # <<>>, Seen
  PROVE  /\ Len(cq) \in Nat \ {0} /\ Head(cq) = cq[1] /\ Len(cq') = Len(cq) - 1
         /\ \A i \in 1 .. Len(cq') : cq'[i] = cq[i + 1] /\ i + 1 \in 1 .. Len(cq) /\ i + 1 # 1
         /\ \A i \in 1 .. Len(cq) : i = 1 \/ (i - 1 \in 1 .. Len(cq') /\ cq'[i - 1] = cq[i])
<1>1. /\ Len(cq) \in Nat \ {0} /\ Head(cq) = cq[1] /\ Len(cq') = Len(cq) - 1
      /\ \A i \in 1 .. Len(cq) - 1 : cq'[i] = cq[i + 1]
  BY TailFacts DEF RingOK, Seen
<1> QED
  BY <1>1

(* A connection arrives for a new session. *)
LEMMA AcceptedSession ==
  ASSUME TypeInv, KernelAccept
  PROVE  \E f \in Fds, s \in Ids :
           /\ socket[f] = None /\ object[s] = "none"
           /\ socket' = [socket EXCEPT ![f] = s]
           /\ fdOf' = [fdOf EXCEPT ![s] = f]
           /\ object' = [object EXCEPT ![s] = "accepted"]
           /\ (OwnAccept /\ Post(Cqe("accept", s, "ok"))) \/ (~ OwnAccept /\ cq' = cq)
           /\ Cqe("accept", s, "ok") \in SessionCqes
           /\ mainPc = "up"
           /\ UNCHANGED <<mainVars, workerPc, sessions, canceling, closing, about, sending, sq,
                          requests, crashed>>
BY SessionCqe DEF KernelAccept, Post, CqeTypes

LEMMA AcceptLifeInv ==
  ASSUME TypeInv, LifeInv, WorkerAssumption, KernelAccept
  PROVE  LifeInv'
<1>1. RingOK /\ TypeOK
  BY DEF TypeInv
<1>2. PICK f \in Fds, s \in Ids :
        /\ socket[f] = None /\ object[s] = "none"
        /\ socket' = [socket EXCEPT ![f] = s]
        /\ fdOf' = [fdOf EXCEPT ![s] = f]
        /\ object' = [object EXCEPT ![s] = "accepted"]
        /\ Post(Cqe("accept", s, "ok")) \/ cq' = cq
        /\ Cqe("accept", s, "ok") \in SessionCqes
        /\ sessions' = sessions
  BY AcceptedSession
<1>3. \A t \in Ids : /\ object'[t] = IF t = s THEN "accepted" ELSE object[t]
                     /\ fdOf'[t] = IF t = s THEN f ELSE fdOf[t]
  BY <1>1, <1>2 DEF TypeOK
<1>4. \A g \in Fds : socket'[g] = IF g = f THEN s ELSE socket[g]
  BY <1>1, <1>2 DEF TypeOK
<1>5. \A g \in Fds : sessions[g] \in Ids \cup {None} /\ socket[g] \in Ids \cup {None}
  BY <1>1 DEF TypeOK
<1>6. \A t \in Ids : object'[t] # "none" => fdOf'[t] \in Fds
  BY <1>3 DEF LifeInv
<1>7. \A t \in Ids : object'[t] = "live" => sessions'[fdOf'[t]] = t
  BY <1>2, <1>3 DEF LifeInv
<1>8. \A g \in Fds : sessions'[g] # None => fdOf'[sessions'[g]] = g /\ object'[sessions'[g]] = "live"
  BY <1>2, <1>3, <1>5 DEF LifeInv
<1>9. \A g \in Fds : socket'[g] # None => fdOf'[socket'[g]] = g /\ object'[socket'[g]] # "none"
  BY <1>2, <1>3, <1>4, <1>5 DEF LifeInv
<1>10. ASSUME NEW i \in 1 .. Len(cq'), cq'[i].type \in FollowTypes PROVE object'[cq'[i].session] # "none"
  <2>1. \A t : object[t] # "none" => object'[t] # "none"
    BY <1>1, <1>2 DEF TypeOK
  <2>2. CASE Post(Cqe("accept", s, "ok"))
    <3>1. CASE i \in 1 .. Len(cq)
      BY <1>1, <1>2, <1>10, <2>1, <2>2, <3>1, Posted DEF LifeInv
    <3>2. CASE cq'[i] = Cqe("accept", s, "ok")
      BY <1>3, <3>2 DEF Cqe
    <3> QED
      BY <1>1, <1>2, <2>2, <3>1, <3>2, Posted
  <2> QED
    BY <1>2, <1>10, <2>1, <2>2 DEF LifeInv
<1> QED
  BY <1>6, <1>7, <1>8, <1>9, <1>10 DEF LifeInv

LEMMA DescriptorLifeInv ==
  ASSUME TypeInv, LifeInv, CloseInv, ClosesDescriptor
  PROVE  LifeInv'
<1>1. RingOK /\ TypeOK
  BY DEF TypeInv
<1>2. PICK s \in Ids :
        /\ Post(Cqe("session_close", s, "ok"))
        /\ socket' = [socket EXCEPT ![fdOf[s]] = None]
        /\ object[s] # "none"
        /\ UNCHANGED <<sessions, fdOf, object>>
  BY ClosedDescriptor DEF sessionVars
<1>3. \A g \in Fds : socket'[g] # None => socket'[g] = socket[g]
  BY <1>1, <1>2 DEF TypeOK
<1>4. Cqe("session_close", s, "ok") \in SessionCqes /\ Cqe("session_close", s, "ok").session = s
  BY SessionCqe DEF CqeTypes, Cqe
<1>5. \A i \in 1 .. Len(cq') : cq'[i].type \in FollowTypes => object[cq'[i].session] # "none"
  BY <1>1, <1>2, <1>4, Posted DEF LifeInv
<1> QED
  BY <1>2, <1>3, <1>5 DEF LifeInv

(* A session enters the map at its descriptor: the entry's owner is freed. *)
LEMMA AddedSession ==
  ASSUME TypeInv, LifeInv, SessionAdded
  PROVE  \E s \in Ids :
           /\ AddSession(s)
           /\ object[s] # "none" /\ fdOf[s] \in Fds
           /\ \/ OwnAccept /\ cq # <<>> /\ Seen /\ Head(cq).type = "accept" /\ Head(cq).session = s
                 /\ workerPc = "run"
              \/ ~ OwnAccept /\ cq' = cq /\ object[s] = "accepted"
           /\ UNCHANGED <<mainVars, workerPc, fdOf, canceling, closing, about, sending, socket, crashed>>
<1>1. CASE OwnAccept
  <2>1. OnAcceptCompleted
    BY <1>1 DEF SessionAdded
  <2>2. cq # <<>> /\ Head(cq).type = "accept" /\ Head(cq).session \in Ids /\ workerPc = "run"
    BY <2>1, HandledSession DEF OnAcceptCompleted, TypeInv
  <2>3. Head(cq) = cq[1] /\ 1 \in 1 .. Len(cq)
    BY <2>2, TailFacts DEF TypeInv, RingOK
  <2>4. object[Head(cq).session] # "none"
    BY <2>2, <2>3 DEF LifeInv, FollowTypes
  <2> QED
    BY <1>1, <2>1, <2>2, <2>4 DEF OnAcceptCompleted, LifeInv
<1>2. CASE ~ OwnAccept
  BY <1>2 DEF SessionAdded, OtherThreadAdds, LifeInv
<1> QED
  BY <1>1, <1>2

LEMMA AddedLifeInv ==
  ASSUME TypeInv, LifeInv, SessionAdded
  PROVE  LifeInv'
<1>1. RingOK /\ TypeOK
  BY DEF TypeInv
<1>2. PICK s \in Ids :
        /\ AddSession(s)
        /\ object[s] # "none" /\ fdOf[s] \in Fds
        /\ cq' = cq \/ (cq # <<>> /\ Seen)
        /\ UNCHANGED <<fdOf, socket>>
  BY AddedSession
<1> DEFINE f == fdOf[s]
           old == sessions[f]
<1>3. \A t \in Ids : object'[t] = IF t = s THEN "live" ELSE IF t = old THEN "freed" ELSE object[t]
  BY <1>2 DEF AddSession
<1>4. \A g \in Fds : sessions'[g] = IF g = f THEN s ELSE sessions[g]
  BY <1>1, <1>2 DEF AddSession, TypeOK
<1>5. \A t \in Ids : object[t] # "none" <=> object'[t] # "none"
  <2>1. old \in Ids => object[old] = "live"
    BY <1>2 DEF LifeInv, Ids, None
  <2> QED
    BY <1>2, <1>3, <2>1
<1>6. \A t \in Ids : object'[t] = "live" => sessions'[fdOf[t]] = t
  <2> SUFFICES ASSUME NEW t \in Ids, object'[t] = "live", t # s PROVE sessions'[fdOf[t]] = t
    BY <1>2, <1>4
  <2>1. object[t] = "live" /\ t # old
    BY <1>3
  <2>2. sessions[fdOf[t]] = t /\ fdOf[t] \in Fds
    BY <2>1 DEF LifeInv
  <2> QED
    BY <1>4, <2>1, <2>2
<1>7. \A g \in Fds : sessions'[g] # None => fdOf[sessions'[g]] = g /\ object'[sessions'[g]] = "live"
  <2> SUFFICES ASSUME NEW g \in Fds, sessions'[g] # None, g # f
               PROVE  fdOf[sessions'[g]] = g /\ object'[sessions'[g]] = "live"
    BY <1>2, <1>3, <1>4
  <2>1. sessions'[g] = sessions[g] /\ sessions[g] \in Ids
    BY <1>1, <1>4 DEF TypeOK
  <2>2. fdOf[sessions[g]] = g /\ object[sessions[g]] = "live"
    BY <2>1 DEF LifeInv
  <2>3. sessions[g] # old
    BY <1>2, <2>1, <2>2 DEF LifeInv
  <2> QED
    BY <1>3, <2>1, <2>2, <2>3
<1>8. \A g \in Fds : socket[g] # None => fdOf[socket[g]] = g /\ object'[socket[g]] # "none"
  BY <1>1, <1>5 DEF LifeInv, TypeOK
<1>9. \A i \in 1 .. Len(cq') : cq'[i].type \in FollowTypes => object'[cq'[i].session] # "none"
  <2>1. \A i \in 1 .. Len(cq) : cq[i].type \in FollowTypes => cq[i].session \in Ids
    BY <1>1 DEF RingOK, SessionCqes, FollowTypes
  <2>2. \A i \in 1 .. Len(cq) : cq[i].type \in FollowTypes => object'[cq[i].session] # "none"
    BY <1>5, <2>1 DEF LifeInv
  <2> QED
    BY <1>1, <1>2, <2>2, Taken
<1> QED
  BY <1>2, <1>5, <1>6, <1>7, <1>8, <1>9 DEF LifeInv

(* SESSION_CLOSE is handled for a session that had been accepted. *)
LEMMA ClosedHead ==
  ASSUME TypeInv, LifeInv, OnSessionClose
  PROVE  /\ cq # <<>> /\ Head(cq) = cq[1] /\ 1 \in 1 .. Len(cq)
         /\ cq[1].type = "session_close" /\ cq[1].session \in Ids
         /\ object[cq[1].session] # "none" /\ fdOf[cq[1].session] \in Fds
         /\ RemoveSession(fdOf[cq[1].session])
<1>1. cq # <<>> /\ Head(cq).type = "session_close" /\ Head(cq).session \in Ids
  BY HandledSession DEF OnSessionClose, TypeInv
<1>2. Head(cq) = cq[1] /\ 1 \in 1 .. Len(cq)
  BY <1>1, TailFacts DEF TypeInv, RingOK
<1>3. object[cq[1].session] # "none"
  BY <1>1, <1>2 DEF LifeInv, FollowTypes
<1> QED
  BY <1>1, <1>2, <1>3 DEF OnSessionClose, LifeInv

LEMMA RemovedLifeInv ==
  ASSUME TypeInv, LifeInv, OnSessionClose
  PROVE  LifeInv'
<1>1. RingOK /\ TypeOK
  BY DEF TypeInv
<1> DEFINE f == fdOf[cq[1].session]
           old == sessions[f]
<1>2. f \in Fds /\ RemoveSession(f)
  BY ClosedHead
<1>3. /\ \A t \in Ids : object'[t] = IF t = old THEN "freed" ELSE object[t]
      /\ \A g \in Fds : sessions'[g] = IF g = f THEN None ELSE sessions[g]
      /\ UNCHANGED <<fdOf, socket, cq>>
  BY <1>1, <1>2 DEF OnSessionClose, RemoveSession, TypeOK
<1>4. \A t \in Ids : object[t] # "none" <=> object'[t] # "none"
  <2>1. old \in Ids => object[old] = "live"
    BY <1>2 DEF LifeInv, Ids, None
  <2> QED
    BY <1>3, <2>1
<1>5. \A t \in Ids : object'[t] = "live" => sessions'[fdOf[t]] = t
  <2> SUFFICES ASSUME NEW t \in Ids, object'[t] = "live" PROVE sessions'[fdOf[t]] = t
    OBVIOUS
  <2>1. object[t] = "live" /\ t # old
    BY <1>3
  <2>2. sessions[fdOf[t]] = t /\ fdOf[t] \in Fds
    BY <2>1 DEF LifeInv
  <2> QED
    BY <1>3, <2>1, <2>2
<1>6. \A g \in Fds : sessions'[g] # None => fdOf[sessions'[g]] = g /\ object'[sessions'[g]] = "live"
  <2> SUFFICES ASSUME NEW g \in Fds, sessions'[g] # None
               PROVE  fdOf[sessions'[g]] = g /\ object'[sessions'[g]] = "live"
    OBVIOUS
  <2>1. g # f /\ sessions'[g] = sessions[g] /\ sessions[g] \in Ids
    BY <1>1, <1>3 DEF TypeOK
  <2>2. fdOf[sessions[g]] = g /\ object[sessions[g]] = "live"
    BY <2>1 DEF LifeInv
  <2>3. sessions[g] # old
    BY <1>2, <2>1, <2>2 DEF LifeInv
  <2> QED
    BY <1>3, <2>1, <2>2, <2>3
<1>7. \A g \in Fds : socket[g] # None => fdOf[socket[g]] = g /\ object'[socket[g]] # "none"
  BY <1>1, <1>4 DEF LifeInv, TypeOK
<1>8. \A i \in 1 .. Len(cq) : cq[i].type \in FollowTypes => object'[cq[i].session] # "none"
  <2>1. \A i \in 1 .. Len(cq) : cq[i].type \in FollowTypes => cq[i].session \in Ids
    BY <1>1 DEF RingOK, SessionCqes, FollowTypes
  <2> QED
    BY <1>4, <2>1 DEF LifeInv
<1> QED
  BY <1>3, <1>4, <1>5, <1>6, <1>7, <1>8 DEF LifeInv

LEMMA QuietLifeInv ==
  ASSUME TypeInv, LifeInv, QuietStep
  PROVE  LifeInv'
<1>1. \A i \in 1 .. Len(cq') : cq'[i].type \in FollowTypes => object[cq'[i].session] # "none"
  <2>1. CASE cq' = <<>>
    BY <2>1
  <2>2. CASE cq # <<>> /\ Seen
    BY <2>2, Taken DEF LifeInv, TypeInv
  <2>3. ASSUME NEW c \in SessionCqes, Post(c), c.type \notin FollowTypes
        PROVE  \A i \in 1 .. Len(cq') : cq'[i].type \in FollowTypes => object[cq'[i].session] # "none"
    BY <2>3, Posted DEF LifeInv, TypeInv
  <2> QED
    BY <2>1, <2>2, <2>3 DEF QuietStep, LifeInv
<1> QED
  BY <1>1 DEF QuietStep, LifeInv

LEMMA NextLifeInv ==
  ASSUME TypeInv, LifeInv, CloseInv, WorkerAssumption, Next
  PROVE  LifeInv'
BY StepKinds, AcceptLifeInv, DescriptorLifeInv, AddedLifeInv, RemovedLifeInv, QuietLifeInv

(* What the other steps leave alone. *)
LEMMA LifeSteps ==
  ASSUME TypeInv, LifeInv, WorkerAssumption, Next
  PROVE  \/ KernelAccept \/ ClosesDescriptor
         \/ /\ UNCHANGED <<fdOf, socket>>
            /\ \A s \in Ids : object'[s] = "none" <=> object[s] = "none"
<1> DEFINE Same == /\ UNCHANGED <<fdOf, socket>>
                   /\ \A s \in Ids : object'[s] = "none" <=> object[s] = "none"
<1>1. TypeOK
  BY DEF TypeInv
<1>2. SessionAdded => Same
  <2> SUFFICES ASSUME SessionAdded PROVE Same
    OBVIOUS
  <2>1. PICK s \in Ids :
          /\ AddSession(s)
          /\ object[s] # "none" /\ fdOf[s] \in Fds
          /\ UNCHANGED <<fdOf, socket>>
    BY AddedSession
  <2>2. \A t \in Ids : object'[t] = IF t = s THEN "live"
                                    ELSE IF t = sessions[fdOf[s]] THEN "freed" ELSE object[t]
    BY <2>1 DEF AddSession
  <2>3. \A t \in Ids : t = sessions[fdOf[s]] => object[t] = "live"
    BY <2>1 DEF LifeInv, Ids, None
  <2> QED
    BY <2>1, <2>2, <2>3
<1>3. OnSessionClose => Same
  <2> SUFFICES ASSUME OnSessionClose PROVE Same
    OBVIOUS
  <2>1. fdOf[cq[1].session] \in Fds /\ RemoveSession(fdOf[cq[1].session])
    BY ClosedHead
  <2>2. \A t \in Ids : t = sessions[fdOf[cq[1].session]] => object[t] = "live"
    BY <2>1 DEF LifeInv, Ids, None
  <2>3. UNCHANGED <<fdOf, socket>>
    BY DEF OnSessionClose
  <2> QED
    BY <2>1, <2>2, <2>3 DEF RemoveSession
<1>4. QuietStep => Same
  BY DEF QuietStep
<1> QED
  BY <1>2, <1>3, <1>4, StepKinds

LEMMA AcceptCloseInv ==
  ASSUME TypeInv, LifeInv, CloseInv, WorkerAssumption, KernelAccept
  PROVE  CloseInv'
<1>1. TypeOK
  BY DEF TypeInv
<1>2. PICK f \in Fds, n \in Ids :
        /\ socket[f] = None /\ object[n] = "none"
        /\ socket' = [socket EXCEPT ![f] = n]
        /\ fdOf' = [fdOf EXCEPT ![n] = f]
        /\ object' = [object EXCEPT ![n] = "accepted"]
        /\ UNCHANGED <<closing, about, requests>>
  BY AcceptedSession
<1>3. /\ \A t \in Ids : object'[t] = (IF t = n THEN "accepted" ELSE object[t])
      /\ \A t \in Ids : fdOf'[t] = (IF t = n THEN f ELSE fdOf[t])
      /\ \A g \in Fds : socket'[g] = (IF g = f THEN n ELSE socket[g])
  BY <1>1, <1>2 DEF TypeOK
<1>4. closing[n] = {} /\ \A t \in Threads : about[t] # n
  BY <1>1, <1>2 DEF CloseInv, TypeOK
<1>5. \A g : Doubled(g) => Doubled(g)'
  BY <1>2, <1>3, <1>4 DEF Doubled, Twice
<1>6. ASSUME NEW s \in Ids, s # n, object[s] # "none", Owns(s) PROVE Owns(s)'
  <2>1. fdOf'[s] = fdOf[s] /\ fdOf[s] \in Fds
    BY <1>3, <1>6 DEF LifeInv
  <2>2. socket[fdOf[s]] = s => socket'[fdOf[s]] = s
    BY <1>2, <1>3, <2>1 DEF Ids, None
  <2> QED
    BY <1>5, <1>6, <2>1, <2>2 DEF Owns
<1>7. Owns(n)'
  BY <1>3 DEF Owns
<1> SUFFICES ASSUME NEW s \in Ids, NEW t \in Threads
             PROVE  /\ t \in closing[s] \/ about[t] = s => object'[s] # "none"
                    /\ about[t] = s => t \notin closing[s]
                    /\ CloseRequest(t, s) \in requests => t \in closing[s] /\ Owns(s)'
                    /\ object'[s] # "none" /\ closing[s] = {} => Owns(s)'
  BY <1>2 DEF CloseInv
<1>8. CASE s = n
  BY <1>3, <1>4, <1>7, <1>8 DEF CloseInv
<1>9. CASE s # n
  <2>1. object'[s] = object[s]
    BY <1>3, <1>9
  <2>2. CloseRequest(t, s) \in requests => object[s] # "none"
    BY DEF CloseInv
  <2> QED
    BY <1>6, <1>9, <2>1, <2>2 DEF CloseInv
<1> QED
  BY <1>8, <1>9

LEMMA DescriptorCloseInv ==
  ASSUME TypeInv, LifeInv, CloseInv, ClosesDescriptor
  PROVE  CloseInv'
<1>1. TypeOK
  BY DEF TypeInv
<1>2. PICK c \in Ids, u \in Threads :
        /\ CloseRequest(u, c) \in requests
        /\ requests' = requests \ {CloseRequest(u, c)}
        /\ socket' = [socket EXCEPT ![fdOf[c]] = None]
        /\ object[c] # "none"
        /\ UNCHANGED <<fdOf, object, closing, about>>
  BY ClosedDescriptor DEF sessionVars
<1>3. \A g \in Fds : socket'[g] = (IF g = fdOf[c] THEN None ELSE socket[g])
  BY <1>1, <1>2 DEF TypeOK
<1>4. \A g : Doubled(g)' <=> Doubled(g)
  BY <1>2 DEF Doubled, Twice
<1>5. u \in closing[c] /\ Owns(c)
  BY <1>2 DEF CloseInv
<1>6. ASSUME NEW s \in Ids, s # c, object[s] # "none", Owns(s) PROVE Owns(s)'
  <2>1. fdOf[s] \in Fds /\ fdOf[c] \in Fds
    BY <1>2, <1>6 DEF LifeInv
  <2>2. CASE fdOf[s] = fdOf[c]
    BY <1>2, <1>4, <1>5, <1>6, <2>2 DEF Owns
  <2>3. CASE fdOf[s] # fdOf[c]
    BY <1>2, <1>3, <1>4, <1>6, <2>1, <2>3 DEF Owns
  <2> QED
    BY <2>2, <2>3
<1>7. ASSUME NEW t \in Threads, t # u, t \in closing[c] PROVE Owns(c)'
  <2>1. Twice(c) /\ Doubled(fdOf[c])
    BY <1>5, <1>7 DEF Twice, Doubled
  <2> QED
    BY <1>2, <1>4, <2>1 DEF Owns
<1> SUFFICES ASSUME NEW s \in Ids, NEW t \in Threads
             PROVE  /\ CloseRequest(t, s) \in requests' => t \in closing[s] /\ Owns(s)'
                    /\ object[s] # "none" /\ closing[s] = {} => Owns(s)'
  BY <1>2 DEF CloseInv
<1>8. CloseRequest(t, s) \in requests' =>
        t \in closing[s] /\ Owns(s) /\ object[s] # "none" /\ (s = c => t # u)
  BY <1>2 DEF CloseInv
<1>9. CASE s = c
  BY <1>5, <1>7, <1>8, <1>9
<1>10. CASE s # c
  BY <1>6, <1>8, <1>10 DEF CloseInv
<1> QED
  BY <1>9, <1>10

LEMMA NextCloseInv ==
  ASSUME TypeInv, LifeInv, CloseInv, WorkerAssumption, Next
  PROVE  CloseInv'
<1>1. TypeOK
  BY DEF TypeInv
<1>2. ASSUME UNCHANGED <<fdOf, socket>>, \A s \in Ids : object'[s] = "none" <=> object[s] = "none"
      PROVE  CloseInv'
  <2>1. ASSUME NEW t \in Threads, CloseSubmits(t) PROVE CloseInv'
    <3>1. PICK c \in Ids :
          /\ c = about[t] /\ SubmitsOnly({CloseRequest(t, c)})
          /\ closing' = [closing EXCEPT ![c] = @ \cup {t}]
          /\ about' = [about EXCEPT ![t] = None]
      BY <2>1, CloseSubmitsTypes
    <3>2. /\ \A s \in Ids : closing'[s] = (IF s = c THEN closing[s] \cup {t} ELSE closing[s])
          /\ \A u \in Threads : about'[u] = (IF u = t THEN None ELSE about[u])
      BY <1>1, <3>1 DEF TypeOK
    <3>3. \A g : Doubled(g) => Doubled(g)'
      <4>1. \A s \in Ids : Twice(s) => Twice(s)'
        BY <3>2 DEF Twice
      <4> QED
        BY <1>2, <4>1 DEF Doubled
    <3>4. \A s \in Ids : Owns(s) => Owns(s)'
      BY <1>2, <3>3 DEF Owns
    <3>5. object[c] # "none" /\ t \notin closing[c]
      BY <3>1 DEF CloseInv
    <3>6. Owns(c)'
      <4>1. CASE closing[c] = {}
        BY <2>1, <3>1, <3>4, <3>5, <4>1 DEF CloseInv
      <4>2. CASE closing[c] # {}
        <5>1. PICK u : u \in closing[c]
          BY <4>2
        <5>2. Twice(c)'
          BY <3>1, <3>2, <3>5, <5>1 DEF Twice
        <5> QED
          BY <1>2, <3>1, <5>2 DEF Doubled, Owns
      <4> QED
        BY <4>1, <4>2
    <3> SUFFICES ASSUME NEW s \in Ids, NEW u \in Threads
                 PROVE  /\ u \in closing'[s] \/ about'[u] = s => object'[s] # "none"
                        /\ about'[u] = s => u \notin closing'[s]
                        /\ CloseRequest(u, s) \in requests' => u \in closing'[s] /\ Owns(s)'
                        /\ object'[s] # "none" /\ closing'[s] = {} => Owns(s)'
      BY DEF CloseInv
    <3>7. u \in closing'[s] => u \in closing[s] \/ (u = t /\ s = c)
      BY <3>2
    <3>8. about'[u] = s => about[u] = s /\ u # t
      BY <3>2 DEF Ids, None
    <3>9. CloseRequest(u, s) \in requests' =>
            CloseRequest(u, s) \in requests \/ (u = t /\ s = c)
      BY <3>1, SessionClose DEF SubmitsOnly
    <3>10. (u \in closing[s] => u \in closing'[s]) /\ t \in closing'[c]
      BY <3>1, <3>2
    <3>11. u \in closing'[s] \/ about'[u] = s => object'[s] # "none"
      BY <1>2, <3>5, <3>7, <3>8 DEF CloseInv
    <3>12. about'[u] = s => u \notin closing'[s]
      BY <3>7, <3>8 DEF CloseInv
    <3>13. CloseRequest(u, s) \in requests' => u \in closing'[s] /\ Owns(s)'
      BY <3>4, <3>6, <3>9, <3>10 DEF CloseInv
    <3>14. object'[s] # "none" /\ closing'[s] = {} => Owns(s)'
      BY <1>2, <3>2, <3>4, <3>6 DEF CloseInv
    <3> QED
      BY <3>11, <3>12, <3>13, <3>14
  <2>2. ASSUME closing' = closing, NoNewClose, about' = about \/ \E t \in Threads : Begins(t)
        PROVE  CloseInv'
    <3>1. \A s \in Ids : Owns(s)' <=> Owns(s)
      BY <1>2, <2>2 DEF Owns, Doubled, Twice
    <3>2. \A s \in Ids, t \in Threads : about'[t] = s =>
            about[t] = s \/ (object[s] # "none" /\ closing[s] = {})
      BY <1>1, <2>2 DEF Begins, TypeOK
    <3>3. \A s \in Ids, t \in Threads : CloseRequest(t, s) \in requests' => CloseRequest(t, s) \in requests
      BY <2>2, SessionClose DEF NoNewClose
    <3> SUFFICES ASSUME NEW s \in Ids, NEW t \in Threads
                 PROVE  /\ t \in closing[s] \/ about'[t] = s => object'[s] # "none"
                        /\ about'[t] = s => t \notin closing[s]
                        /\ CloseRequest(t, s) \in requests' => t \in closing[s] /\ Owns(s)'
                        /\ object'[s] # "none" /\ closing[s] = {} => Owns(s)'
      BY <2>2 DEF CloseInv
    <3> QED
      BY <1>2, <3>1, <3>2, <3>3 DEF CloseInv
  <2> QED
    BY <2>1, <2>2, CloseSteps
<1> QED
  BY <1>2, LifeSteps, AcceptCloseInv, DescriptorCloseInv

(* When main clears _running every connection has been added; the thread   *)
(* exits when the map is empty, and main ends after the thread.            *)
MainInv ==
  /\ running <=> mainPc \in {"up", "closed"}
  /\ ~ running => \A s \in Ids : object[s] # "accepted"
  /\ workerPc = "exited" => ~ running /\ \A f \in Fds : sessions[f] = None
  /\ mainPc = "done" => workerPc = "exited"

LEMMA InitMainInv == Init => MainInv
BY DEF Init, MainInv

LEMMA EmptyMap ==
  ASSUME TypeOK, GetSize = 0
  PROVE  \A f \in Fds : sessions[f] = None
<1>1. IsFiniteSet(Ids)
  <2>1. MaxSessions \in Int
    BY WorkerAssumption DEF WorkerAssumption
  <2> QED
    BY <2>1, FS_Interval DEF Ids
<1>2. IsFiniteSet(MappedSessions)
  BY <1>1, FS_Subset DEF MappedSessions
<1>3. MappedSessions = {}
  BY <1>2, FS_EmptySet DEF GetSize
<1> QED
  BY <1>3 DEF MappedSessions, TypeOK

LEMMA NextMainInv ==
  ASSUME TypeInv, LifeInv, MainInv, WorkerAssumption, Next
  PROVE  MainInv'
<1>1. RingOK /\ TypeOK
  BY DEF TypeInv
<1> USE DEF mainVars, sessionVars, MainStep
<1>2. CASE KernelAccept
  <2>1. mainPc = "up" /\ UNCHANGED <<running, mainPc, workerPc, sessions>>
    BY <1>2 DEF KernelAccept
  <2> QED
    BY <2>1 DEF MainInv
<1>3. CASE \/ KernelData \/ KernelDisconnect \/ KernelSend \/ (\E s \in Ids : KernelCancel(s))
           \/ (\E r \in requests : KernelComplete(r)) \/ OnRecv \/ OnRecvEnd \/ OnRecvCancel
           \/ OnSendDone \/ OnSendMore \/ OnSendError \/ Stale
           \/ (\E t \in Threads : CloseSubmits(t)) \/ (\E t \in Others : OthersSend(t))
  <2>1. UNCHANGED <<running, mainPc, workerPc, sessions, object>>
    BY <1>3 DEF KernelData, KernelDisconnect, KernelSend, KernelCancel, KernelComplete, OnRecv, OnRecvEnd,
                OnRecvCancel, OnSendDone, OnSendMore, OnSendError, Stale, CloseSubmits, OthersSend
  <2> QED
    BY <2>1 DEF MainInv
<1>4. CASE Exit
  <2>1. ~ running /\ GetSize = 0 /\ workerPc' = "exited" /\ UNCHANGED <<running, mainPc, sessions, object>>
    BY <1>4 DEF Exit, Exits
  <2> QED
    BY <1>1, <2>1, EmptyMap DEF MainInv
<1>5. CASE OnSessionClose
  <2>1. workerPc = "run" /\ workerPc' = "stop" /\ UNCHANGED <<running, mainPc>>
    BY <1>5 DEF OnSessionClose, Handles
  <2>2. \A s \in Ids : object'[s] = "accepted" => object[s] = "accepted"
    BY <1>5 DEF OnSessionClose, RemoveSession
  <2> QED
    BY <2>1, <2>2 DEF MainInv
<1>6. CASE AfterRemove
  <2>1. workerPc = "stop" /\ workerPc' = "run" /\ UNCHANGED <<running, mainPc, sessions, object>>
    BY <1>6 DEF AfterRemove
  <2> QED
    BY <2>1 DEF MainInv
<1>7. CASE SessionAdded
  <2>1. workerPc' = workerPc /\ UNCHANGED <<running, mainPc>>
    BY <1>7 DEF SessionAdded, OnAcceptCompleted, OtherThreadAdds
  <2>2. workerPc = "run" \/ \E s \in Ids : object[s] = "accepted"
    BY <1>7 DEF SessionAdded, OnAcceptCompleted, OtherThreadAdds, Handles
  <2>3. \A s \in Ids : object'[s] = "accepted" => object[s] = "accepted"
    BY <1>7 DEF SessionAdded, OnAcceptCompleted, OtherThreadAdds, AddSession
  <2> QED
    BY <2>1, <2>2, <2>3 DEF MainInv
<1>8. CASE ListenerClosed \/ ClearRunning
  BY <1>8 DEF ListenerClosed, ClearRunning, MainInv
<1>9. CASE CloseSessions \/ StartClose \/ MarkCanceling \/ EndOfMap \/ SubmitCancels \/ Stop \/ Join
  <2>1. UNCHANGED <<running, workerPc, sessions, object>>
    BY <1>9 DEF CloseSessions, StartClose, MarkCanceling, EndOfMap, SubmitCancels, Stop, Join
  <2>2. /\ mainPc \notin {"up", "closed"} /\ mainPc' \notin {"up", "closed"}
        /\ mainPc' = "done" => mainPc = "done" \/ workerPc = "exited"
    BY <1>9 DEF CloseSessions, StartClose, MarkCanceling, EndOfMap, SubmitCancels, Stop, Join
  <2> QED
    BY <2>1, <2>2 DEF MainInv
<1> QED
  BY <1>2, <1>3, <1>4, <1>5, <1>6, <1>7, <1>8, <1>9 DEF Next, Run, Main, Threads

-------------------------------------------------------------------------------
(* The inductive invariant, whichever worker accepts. *)
IInv == TypeInv /\ LifeInv /\ CloseInv /\ MainInv

LEMMA InitIInv == Init => IInv
BY WorkerAssumption, InitTypeInv, InitLifeInv, InitMainInv DEF IInv

LEMMA NextIInv == IInv /\ [Next]_vars => IInv'
<1> SUFFICES ASSUME IInv, [Next]_vars PROVE IInv'
  OBVIOUS
<1>1. TypeInv'
  BY WorkerAssumption, NextTypeInv DEF IInv
<1>2. CASE Next
  BY <1>1, <1>2, WorkerAssumption, NextLifeInv, NextCloseInv, NextMainInv DEF IInv
<1>3. CASE UNCHANGED vars
  BY <1>1, <1>3 DEF vars, IInv, LifeInv, CloseInv, Owns, Doubled, Twice, MainInv
<1> QED
  BY <1>2, <1>3

THEOREM Invariance == Spec => []IInv
BY InitIInv, NextIInv, PTL DEF Spec

(* A worker's variables keep their types for any number of sessions, and   *)
(* the submission queue never holds more than its depth, whatever the      *)
(* threads prepare and submit (Worker.cpp, Session.cpp).                   *)
THEOREM WorkerTypeCorrect == Spec => []TypeOK
<1>1. IInv => TypeOK
  BY DEF IInv, TypeInv
<1> QED
  BY <1>1, Invariance, PTL

(* A close that the kernel executes frees the descriptor of a session that *)
(* a thread has asked to close; another session's, which has reused the    *)
(* descriptor, only if two threads have closed one session (Session::Close *)
(* on the worker's thread and, through Session::Send, on others').         *)
THEOREM OwnSocketClosed == Spec => ClosesOwnSocket
<1> DEFINE Own == \A f \in Fds : socket[f] # None /\ socket'[f] = None =>
                    closing[socket[f]] # {} \/ \E s \in Ids : fdOf[s] = f /\ Twice(s)
<1>1. IInv /\ Next => Own
  <2> SUFFICES ASSUME IInv, Next, NEW f \in Fds, socket[f] # None, socket'[f] = None
               PROVE  closing[socket[f]] # {} \/ Doubled(f)
    BY DEF Doubled
  <2>1. TypeInv /\ TypeOK /\ LifeInv /\ CloseInv /\ WorkerAssumption
    BY WorkerAssumption DEF IInv, TypeInv
  <2>2. ~ KernelAccept
    <3> SUFFICES ASSUME KernelAccept PROVE FALSE
      OBVIOUS
    <3>1. PICK g \in Fds, s \in Ids : socket' = [socket EXCEPT ![g] = s]
      BY DEF KernelAccept
    <3> QED
      BY <2>1, <3>1 DEF TypeOK, Ids, None
  <2>3. CASE ClosesDescriptor
    <3>1. PICK s \in Ids, t \in Threads :
            /\ CloseRequest(t, s) \in requests
            /\ socket' = [socket EXCEPT ![fdOf[s]] = None]
      BY <2>1, <2>3, ClosedDescriptor
    <3>2. t \in closing[s] /\ Owns(s)
      BY <2>1, <3>1 DEF CloseInv
    <3>3. f = fdOf[s]
      BY <2>1, <3>1 DEF TypeOK
    <3> QED
      BY <3>2, <3>3 DEF Owns
  <2> QED
    BY <2>1, <2>2, <2>3, LifeSteps
<1>2. IInv /\ [Next]_vars => [Own]_vars
  BY <1>1
<1> QED
  BY <1>2, Invariance, PTL DEF Spec, ClosesOwnSocket

-------------------------------------------------------------------------------
(* When the worker runs the accept itself.                                 *)

(* The i-th completion adds or removes a session at f. *)
Concerns(i, f) == cq[i].type \in FollowTypes /\ fdOf[cq[i].session] = f

(* A session with a connection is in the map and nothing that waits to be  *)
(* handled removes it; or its accept still waits, behind everything else   *)
(* that concerns its descriptor.                                           *)
InMap(f) ==
  /\ object[socket[f]] = "live"
  /\ \A i \in 1 .. Len(cq) : ~ Concerns(i, f)

Waits(f) ==
  /\ object[socket[f]] = "accepted"
  /\ \E i \in 1 .. Len(cq) :
       /\ cq[i].type = "accept" /\ cq[i].session = socket[f]
       /\ \A j \in 1 .. Len(cq) : j # i /\ Concerns(j, f) =>
            j < i /\ ~ (cq[j].type = "accept" /\ cq[j].session = socket[f])

OpenInv == \A f \in Fds : socket[f] # None => InMap(f) \/ Waits(f)

(* A step that leaves f's session and what concerns f as they are. *)
LEMMA OpenKept ==
  ASSUME RingOK, NEW f \in Fds, socket[f] # None, InMap(f) \/ Waits(f),
         socket'[f] = socket[f], object'[socket[f]] = object[socket[f]],
         \/ cq' = cq
         \/ cq # <<>> /\ Seen /\ ~ (Head(cq).type = "accept" /\ Head(cq).session = socket[f])
         \/ \E c \in SessionCqes : Post(c) /\ ~ (c.type \in FollowTypes /\ fdOf'[c.session] = f),
         \A i \in 1 .. Len(cq) : cq[i].type \in FollowTypes => fdOf'[cq[i].session] = fdOf[cq[i].session]
  PROVE  InMap(f)' \/ Waits(f)'
<1>1. CASE cq' = cq
  BY <1>1 DEF InMap, Waits, Concerns
<1>2. CASE cq # <<>> /\ Seen /\ ~ (Head(cq).type = "accept" /\ Head(cq).session = socket[f])
  <2>1. /\ Len(cq) \in Nat \ {0} /\ Head(cq) = cq[1] /\ Len(cq') = Len(cq) - 1
        /\ \A i \in 1 .. Len(cq') : cq'[i] = cq[i + 1] /\ i + 1 \in 1 .. Len(cq) /\ i + 1 # 1
        /\ \A i \in 1 .. Len(cq) : i = 1 \/ (i - 1 \in 1 .. Len(cq') /\ cq'[i - 1] = cq[i])
    BY <1>2, Taken
  <2>2. \A i \in 1 .. Len(cq') : Concerns(i, f)' <=> Concerns(i + 1, f)
    BY <2>1 DEF Concerns
  <2>3. CASE InMap(f)
    BY <2>1, <2>2, <2>3 DEF InMap
  <2>4. CASE Waits(f)
    <3>1. PICK i \in 1 .. Len(cq) :
            /\ cq[i].type = "accept" /\ cq[i].session = socket[f]
            /\ \A j \in 1 .. Len(cq) : j # i /\ Concerns(j, f) =>
                 j < i /\ ~ (cq[j].type = "accept" /\ cq[j].session = socket[f])
      BY <2>4 DEF Waits
    <3>2. i # 1 /\ i - 1 \in 1 .. Len(cq') /\ cq'[i - 1] = cq[i]
      BY <1>2, <2>1, <3>1
    <3>3. \A j \in 1 .. Len(cq') : j # i - 1 /\ Concerns(j, f)' =>
            j < i - 1 /\ ~ (cq'[j].type = "accept" /\ cq'[j].session = socket[f])
      <4> SUFFICES ASSUME NEW j \in 1 .. Len(cq'), j # i - 1, Concerns(j, f)'
                   PROVE  j < i - 1 /\ ~ (cq'[j].type = "accept" /\ cq'[j].session = socket[f])
        OBVIOUS
      <4>1. j + 1 \in 1 .. Len(cq) /\ j + 1 # i /\ Concerns(j + 1, f) /\ cq'[j] = cq[j + 1]
        BY <2>1, <2>2, <3>2
      <4> QED
        BY <3>1, <4>1
    <3> QED
      BY <2>4, <3>1, <3>2, <3>3 DEF Waits
  <2> QED
    BY <2>3, <2>4
<1>3. ASSUME NEW c \in SessionCqes, Post(c), ~ (c.type \in FollowTypes /\ fdOf'[c.session] = f)
      PROVE  InMap(f)' \/ Waits(f)'
  <2>1. /\ Len(cq) \in Nat /\ Len(cq') = Len(cq) + 1
        /\ \A i \in 1 .. Len(cq) : cq'[i] = cq[i]
        /\ cq'[Len(cq) + 1] = c
        /\ \A i \in 1 .. Len(cq') : i \in 1 .. Len(cq) \/ i = Len(cq) + 1
    BY <1>3, Posted
  <2>2. \A i \in 1 .. Len(cq') : Concerns(i, f)' => i \in 1 .. Len(cq) /\ Concerns(i, f)
    BY <1>3, <2>1 DEF Concerns
  <2>3. CASE InMap(f)
    BY <2>2, <2>3 DEF InMap
  <2>4. CASE Waits(f)
    <3>1. PICK i \in 1 .. Len(cq) :
            /\ cq[i].type = "accept" /\ cq[i].session = socket[f]
            /\ \A j \in 1 .. Len(cq) : j # i /\ Concerns(j, f) =>
                 j < i /\ ~ (cq[j].type = "accept" /\ cq[j].session = socket[f])
      BY <2>4 DEF Waits
    <3>2. i \in 1 .. Len(cq') /\ cq'[i] = cq[i]
      BY <2>1
    <3>3. \A j \in 1 .. Len(cq') : j # i /\ Concerns(j, f)' =>
            j < i /\ ~ (cq'[j].type = "accept" /\ cq'[j].session = socket[f])
      BY <2>1, <2>2, <3>1
    <3> QED
      BY <2>4, <3>1, <3>2, <3>3 DEF Waits
  <2> QED
    BY <2>3, <2>4
<1> QED
  BY <1>1, <1>2, <1>3

LEMMA InitOpenInv == Init => OpenInv
BY DEF Init, OpenInv

LEMMA AcceptOpenInv ==
  ASSUME OwnAccept, TypeInv, LifeInv, OpenInv, WorkerAssumption, KernelAccept
  PROVE  OpenInv'
<1>1. RingOK /\ TypeOK
  BY DEF TypeInv
<1>2. PICK g \in Fds, n \in Ids :
        /\ socket[g] = None /\ object[n] = "none"
        /\ socket' = [socket EXCEPT ![g] = n]
        /\ fdOf' = [fdOf EXCEPT ![n] = g]
        /\ object' = [object EXCEPT ![n] = "accepted"]
        /\ Post(Cqe("accept", n, "ok"))
        /\ Cqe("accept", n, "ok") \in SessionCqes
  BY AcceptedSession
<1>3. /\ \A t \in Ids : object'[t] = (IF t = n THEN "accepted" ELSE object[t])
      /\ \A t \in Ids : fdOf'[t] = (IF t = n THEN g ELSE fdOf[t])
      /\ \A h \in Fds : socket'[h] = (IF h = g THEN n ELSE socket[h])
  BY <1>1, <1>2 DEF TypeOK
<1>4. \A i \in 1 .. Len(cq) : cq[i].type \in FollowTypes => cq[i].session \in Ids /\ cq[i].session # n
  <2>1. \A i \in 1 .. Len(cq) : cq[i].type \in FollowTypes => cq[i].session \in Ids
    BY <1>1 DEF RingOK, SessionCqes, FollowTypes
  <2> QED
    BY <1>2, <2>1 DEF LifeInv
<1>5. Cqe("accept", n, "ok").type = "accept" /\ Cqe("accept", n, "ok").session = n
  BY DEF Cqe
<1> SUFFICES ASSUME NEW f \in Fds, socket'[f] # None PROVE InMap(f)' \/ Waits(f)'
  BY DEF OpenInv
<1>6. CASE f = g
  <2>1. /\ Len(cq) \in Nat /\ Len(cq') = Len(cq) + 1
        /\ \A i \in 1 .. Len(cq) : cq'[i] = cq[i]
        /\ cq'[Len(cq) + 1] = Cqe("accept", n, "ok")
        /\ \A i \in 1 .. Len(cq') : i \in 1 .. Len(cq) \/ i = Len(cq) + 1
    BY <1>1, <1>2, Posted
  <2>2. socket'[f] = n /\ object'[n] = "accepted"
    BY <1>3, <1>6
  <2>3. Len(cq) + 1 \in 1 .. Len(cq')
    BY <2>1
  <2>4. \A j \in 1 .. Len(cq') : j # Len(cq) + 1 /\ Concerns(j, f)' =>
          j < Len(cq) + 1 /\ ~ (cq'[j].type = "accept" /\ cq'[j].session = n)
    BY <1>4, <2>1 DEF Concerns
  <2> QED
    BY <1>5, <2>1, <2>2, <2>3, <2>4 DEF Waits
<1>7. CASE f # g
  <2>1. socket'[f] = socket[f] /\ socket[f] # None /\ socket[f] \in Ids
    BY <1>1, <1>3, <1>7 DEF TypeOK
  <2>2. object'[socket[f]] = object[socket[f]]
    BY <1>2, <1>3, <2>1 DEF LifeInv
  <2>3. \A i \in 1 .. Len(cq) : cq[i].type \in FollowTypes => fdOf'[cq[i].session] = fdOf[cq[i].session]
    BY <1>3, <1>4
  <2>4. fdOf'[Cqe("accept", n, "ok").session] # f
    BY <1>3, <1>5, <1>7
  <2> QED
    BY <1>1, <1>2, <2>1, <2>2, <2>3, <2>4, OpenKept DEF OpenInv
<1> QED
  BY <1>6, <1>7

LEMMA DescriptorOpenInv ==
  ASSUME TypeInv, LifeInv, CloseInv, OpenInv, ClosesDescriptor
  PROVE  OpenInv'
<1>1. RingOK /\ TypeOK
  BY DEF TypeInv
<1>2. PICK c \in Ids :
        /\ Post(Cqe("session_close", c, "ok"))
        /\ socket' = [socket EXCEPT ![fdOf[c]] = None]
        /\ object[c] # "none"
        /\ UNCHANGED <<fdOf, object>>
  BY ClosedDescriptor DEF sessionVars
<1>3. Cqe("session_close", c, "ok") \in SessionCqes /\ Cqe("session_close", c, "ok").session = c
  BY SessionCqe DEF CqeTypes, Cqe
<1> SUFFICES ASSUME NEW f \in Fds, socket'[f] # None PROVE InMap(f)' \/ Waits(f)'
  BY DEF OpenInv
<1>4. socket'[f] = socket[f] /\ f # fdOf[c] /\ socket[f] # None
  BY <1>1, <1>2 DEF TypeOK
<1> QED
  BY <1>1, <1>2, <1>3, <1>4, OpenKept DEF OpenInv

LEMMA AddedOpenInv ==
  ASSUME OwnAccept, TypeInv, LifeInv, OpenInv, SessionAdded
  PROVE  OpenInv'
<1>1. RingOK /\ TypeOK
  BY DEF TypeInv
<1>2. PICK n \in Ids :
        /\ AddSession(n)
        /\ object[n] # "none" /\ fdOf[n] \in Fds
        /\ cq # <<>> /\ Seen /\ Head(cq).type = "accept" /\ Head(cq).session = n
        /\ UNCHANGED <<fdOf, socket>>
  BY AddedSession
<1> DEFINE g == fdOf[n]
           old == sessions[g]
<1>3. \A t \in Ids : object'[t] = IF t = n THEN "live" ELSE IF t = old THEN "freed" ELSE object[t]
  BY <1>2 DEF AddSession
<1>4. /\ Len(cq) \in Nat \ {0} /\ Head(cq) = cq[1] /\ Len(cq') = Len(cq) - 1
      /\ \A i \in 1 .. Len(cq') : cq'[i] = cq[i + 1] /\ i + 1 \in 1 .. Len(cq) /\ i + 1 # 1
  BY <1>1, <1>2, Taken
<1> SUFFICES ASSUME NEW f \in Fds, socket[f] # None PROVE InMap(f)' \/ Waits(f)'
  BY <1>2 DEF OpenInv
<1>5. socket[f] \in Ids /\ fdOf[socket[f]] = f
  BY <1>1 DEF TypeOK, LifeInv
<1>6. old \in Ids => object[old] = "live" /\ fdOf[old] = g
  BY <1>2 DEF LifeInv, Ids, None
<1>7. CASE socket[f] = n
  <2>1. f = g /\ Concerns(1, f) /\ 1 \in 1 .. Len(cq)
    BY <1>2, <1>4, <1>5, <1>7 DEF Concerns, FollowTypes
  <2>2. Waits(f)
    BY <2>1 DEF OpenInv, InMap
  <2>3. PICK i \in 1 .. Len(cq) :
          \A j \in 1 .. Len(cq) : j # i /\ Concerns(j, f) =>
            j < i /\ ~ (cq[j].type = "accept" /\ cq[j].session = socket[f])
    BY <2>2 DEF Waits
  <2>4. i = 1
    BY <1>2, <1>4, <1>7, <2>1, <2>3
  <2>5. \A j \in 1 .. Len(cq) : j # 1 => ~ Concerns(j, f)
    BY <1>4, <2>3, <2>4
  <2>6. \A j \in 1 .. Len(cq') : ~ Concerns(j, f)'
    BY <1>2, <1>4, <2>5 DEF Concerns
  <2> QED
    BY <1>2, <1>3, <1>5, <1>7, <2>6 DEF InMap
<1>8. CASE socket[f] # n
  <2>1. socket[f] # old
    <3>1. CASE f = g
      <4>1. Concerns(1, f) /\ 1 \in 1 .. Len(cq)
        BY <1>2, <1>4, <3>1 DEF Concerns, FollowTypes
      <4> QED
        BY <1>5, <1>6, <4>1 DEF OpenInv, InMap, Waits
    <3>2. CASE f # g
      BY <1>5, <1>6, <3>2
    <3> QED
      BY <3>1, <3>2
  <2>2. object'[socket[f]] = object[socket[f]]
    BY <1>3, <1>5, <1>8, <2>1
  <2> QED
    BY <1>1, <1>2, <1>8, <2>2, OpenKept DEF OpenInv
<1> QED
  BY <1>7, <1>8

LEMMA RemovedOpenInv ==
  ASSUME TypeInv, LifeInv, OpenInv, OnSessionClose
  PROVE  OpenInv'
<1>1. RingOK /\ TypeOK
  BY DEF TypeInv
<1> DEFINE g == fdOf[cq[1].session]
           old == sessions[g]
<1>2. /\ 1 \in 1 .. Len(cq) /\ cq[1].type = "session_close" /\ g \in Fds
      /\ RemoveSession(g)
  BY ClosedHead
<1>3. /\ \A t \in Ids : object'[t] = IF t = old THEN "freed" ELSE object[t]
      /\ UNCHANGED <<fdOf, socket, cq>>
  BY <1>2 DEF OnSessionClose, RemoveSession
<1> SUFFICES ASSUME NEW f \in Fds, socket[f] # None PROVE InMap(f)' \/ Waits(f)'
  BY <1>3 DEF OpenInv
<1>4. socket[f] \in Ids /\ fdOf[socket[f]] = f
  BY <1>1 DEF TypeOK, LifeInv
<1>5. old \in Ids => object[old] = "live" /\ fdOf[old] = g
  BY <1>2 DEF LifeInv, Ids, None
<1>6. socket[f] # old
  <2>1. CASE f = g
    <3>1. Concerns(1, f)
      BY <1>2, <2>1 DEF Concerns, FollowTypes
    <3> QED
      BY <1>2, <1>4, <1>5, <3>1 DEF OpenInv, InMap, Waits
  <2>2. CASE f # g
    BY <1>4, <1>5, <2>2
  <2> QED
    BY <2>1, <2>2
<1>7. object'[socket[f]] = object[socket[f]]
  BY <1>3, <1>4, <1>6
<1> QED
  BY <1>1, <1>3, <1>7, OpenKept DEF OpenInv

LEMMA QuietOpenInv ==
  ASSUME TypeInv, LifeInv, MainInv, OpenInv, QuietStep
  PROVE  OpenInv'
<1>1. RingOK /\ TypeOK
  BY DEF TypeInv
<1> SUFFICES ASSUME NEW f \in Fds, socket[f] # None PROVE InMap(f)' \/ Waits(f)'
  BY DEF OpenInv, QuietStep
<1>2. CASE cq' = <<>> /\ workerPc = "exited"
  <2>1. ~ Waits(f)
    BY <1>1, <1>2 DEF Waits, MainInv, TypeOK
  <2> QED
    BY <1>2, <2>1 DEF OpenInv, InMap, QuietStep
<1>3. CASE ~ (cq' = <<>> /\ workerPc = "exited")
  BY <1>1, <1>3, OpenKept DEF OpenInv, QuietStep
<1> QED
  BY <1>2, <1>3

LEMMA NextOpenInv ==
  ASSUME OwnAccept, IInv, OpenInv, [Next]_vars
  PROVE  OpenInv'
<1>1. TypeInv /\ LifeInv /\ CloseInv /\ MainInv /\ WorkerAssumption
  BY WorkerAssumption DEF IInv
<1>2. CASE Next
  BY <1>1, <1>2, StepKinds, AcceptOpenInv, DescriptorOpenInv, AddedOpenInv, RemovedOpenInv, QuietOpenInv
<1>3. CASE UNCHANGED vars
  BY <1>3 DEF vars, OpenInv, InMap, Waits, Concerns
<1> QED
  BY <1>2, <1>3

LEMMA OpenInvariance ==
  ASSUME OwnAccept
  PROVE  Spec => []OpenInv
<1>1. Init => OpenInv
  BY InitOpenInv
<1>2. IInv /\ OpenInv /\ [Next]_vars => OpenInv'
  BY NextOpenInv
<1> QED
  BY <1>1, <1>2, Invariance, PTL DEF Spec

(* The worker that accepts its own connections destroys a Session only     *)
(* when its connection has been closed, even if two closes of one session  *)
(* have been submitted (Worker::HandleCompletion, SessionManager).         *)
THEOREM DestroyedOnlyClosed ==
  ASSUME OwnAccept
  PROVE  Spec => DestroyedWhenClosed
<1> DEFINE Closed == \A s \in Ids : object[s] = "live" /\ object'[s] = "freed" => socket[fdOf[s]] # s
<1>1. IInv /\ OpenInv /\ Next => Closed
  <2> SUFFICES ASSUME IInv, OpenInv, Next, NEW s \in Ids,
                      object[s] = "live", object'[s] = "freed", socket[fdOf[s]] = s
               PROVE  FALSE
    OBVIOUS
  <2>1. TypeInv /\ RingOK /\ TypeOK /\ LifeInv /\ CloseInv /\ WorkerAssumption
    BY WorkerAssumption DEF IInv, TypeInv
  <2>2. fdOf[s] \in Fds /\ \A i \in 1 .. Len(cq) : ~ Concerns(i, fdOf[s])
    BY <2>1 DEF LifeInv, OpenInv, InMap, Waits, Ids, None
  <2>3. ASSUME NEW f, s = sessions[f], f \in Fds PROVE f = fdOf[s]
    BY <2>1, <2>3 DEF LifeInv, Ids, None
  <2>4. CASE KernelAccept
    <3>1. PICK n \in Ids : object' = [object EXCEPT ![n] = "accepted"]
      BY <2>1, <2>4, AcceptedSession
    <3> QED
      BY <2>1, <3>1 DEF TypeOK
  <2>5. CASE ClosesDescriptor
    BY <2>1, <2>5, ClosedDescriptor DEF sessionVars
  <2>6. CASE SessionAdded
    <3>1. PICK n \in Ids :
            /\ AddSession(n) /\ fdOf[n] \in Fds
            /\ cq # <<>> /\ Seen /\ Head(cq).type = "accept" /\ Head(cq).session = n
      BY <2>1, <2>6, AddedSession
    <3>2. s = sessions[fdOf[n]]
      BY <3>1 DEF AddSession
    <3>3. fdOf[n] = fdOf[s]
      BY <2>3, <3>1, <3>2
    <3>4. 1 \in 1 .. Len(cq) /\ Head(cq) = cq[1]
      BY <2>1, <3>1, Taken
    <3> QED
      BY <2>2, <3>1, <3>3, <3>4 DEF Concerns, FollowTypes
  <2>7. CASE OnSessionClose
    <3>1. /\ 1 \in 1 .. Len(cq) /\ cq[1].type = "session_close" /\ fdOf[cq[1].session] \in Fds
          /\ RemoveSession(fdOf[cq[1].session])
      BY <2>1, <2>7, ClosedHead
    <3>2. s = sessions[fdOf[cq[1].session]]
      BY <3>1 DEF RemoveSession
    <3>3. fdOf[cq[1].session] = fdOf[s]
      BY <2>3, <3>1, <3>2
    <3> QED
      BY <2>2, <3>1, <3>3 DEF Concerns, FollowTypes
  <2>8. CASE QuietStep
    BY <2>8 DEF QuietStep
  <2> QED
    BY <2>1, <2>4, <2>5, <2>6, <2>7, <2>8, StepKinds
<1>2. IInv /\ OpenInv /\ [Next]_vars => [Closed]_vars
  BY <1>1
<1> QED
  BY <1>2, Invariance, OpenInvariance, PTL DEF Spec, DestroyedWhenClosed

(* The worker that accepts its own connections leaves none open when its   *)
(* thread has been joined: the thread exits only with an empty map, and a  *)
(* session leaves the map only after its close (Worker::Run, Join).        *)
THEOREM AllClosedAfterJoin ==
  ASSUME OwnAccept
  PROVE  Spec => []NothingOpenAfterJoin
<1>1. IInv /\ OpenInv => NothingOpenAfterJoin
  <2> SUFFICES ASSUME IInv, OpenInv, mainPc = "done", NEW f \in Fds, socket[f] # None PROVE FALSE
    BY DEF NothingOpenAfterJoin
  <2>1. TypeOK /\ LifeInv /\ MainInv
    BY DEF IInv, TypeInv
  <2>2. ~ running /\ sessions[f] = None
    BY <2>1 DEF MainInv
  <2>3. socket[f] \in Ids /\ fdOf[socket[f]] = f /\ object[socket[f]] # "accepted"
    BY <2>1, <2>2 DEF TypeOK, LifeInv, MainInv
  <2>4. object[socket[f]] = "live"
    BY <2>3 DEF OpenInv, InMap, Waits
  <2> QED
    BY <2>1, <2>2, <2>3, <2>4 DEF LifeInv, Ids, None
<1> QED
  BY <1>1, Invariance, OpenInvariance, PTL

-------------------------------------------------------------------------------
(* A submission queue that is deeper than the sessions at shutdown are many. *)

(* An accept waits to be handled once, for a session not yet added. *)
AcceptInv ==
  \A i \in 1 .. Len(cq) : cq[i].type = "accept" =>
    /\ OwnAccept /\ object[cq[i].session] = "accepted"
    /\ \A j \in 1 .. Len(cq) : cq[j].type = "accept" /\ cq[j].session = cq[i].session => j = i

LEMMA NextAcceptInv ==
  ASSUME IInv, AcceptInv, Next
  PROVE  AcceptInv'
<1>1. TypeInv /\ RingOK /\ TypeOK /\ LifeInv /\ CloseInv /\ WorkerAssumption
  BY WorkerAssumption DEF IInv, TypeInv
<1>2. \A i \in 1 .. Len(cq) : cq[i].type = "accept" => cq[i].session \in Ids
  BY <1>1 DEF RingOK, SessionCqes
<1>3. ASSUME NEW c \in SessionCqes, Post(c), c.type # "accept",
             \A i \in 1 .. Len(cq) : cq[i].type = "accept" => object'[cq[i].session] = object[cq[i].session]
      PROVE  AcceptInv'
  BY <1>1, <1>3, Posted DEF AcceptInv
<1>4. ASSUME cq # <<>>, Seen,
             \A i \in 1 .. Len(cq) : i # 1 /\ cq[i].type = "accept" =>
               object'[cq[i].session] = object[cq[i].session]
      PROVE  AcceptInv'
  <2>1. \A i \in 1 .. Len(cq') : cq'[i] = cq[i + 1] /\ i + 1 \in 1 .. Len(cq) /\ i + 1 # 1
    BY <1>1, <1>4, Taken
  <2> SUFFICES ASSUME NEW i \in 1 .. Len(cq'), cq'[i].type = "accept"
               PROVE  /\ OwnAccept /\ object'[cq'[i].session] = "accepted"
                      /\ \A j \in 1 .. Len(cq') : cq'[j].type = "accept" /\ cq'[j].session = cq'[i].session => j = i
    BY DEF AcceptInv
  <2>2. OwnAccept /\ object'[cq'[i].session] = "accepted"
    BY <1>4, <2>1 DEF AcceptInv
  <2>3. ASSUME NEW j \in 1 .. Len(cq'), cq'[j].type = "accept", cq'[j].session = cq'[i].session PROVE j = i
    <3>1. i + 1 = j + 1
      BY <2>1, <2>3 DEF AcceptInv
    <3> QED
      BY <3>1
  <2> QED
    BY <2>2, <2>3
<1>5. CASE KernelAccept
  <2>1. PICK n \in Ids :
          /\ object[n] = "none"
          /\ object' = [object EXCEPT ![n] = "accepted"]
          /\ (OwnAccept /\ Post(Cqe("accept", n, "ok"))) \/ (~ OwnAccept /\ cq' = cq)
          /\ Cqe("accept", n, "ok") \in SessionCqes
    BY <1>1, <1>5, AcceptedSession
  <2>2. \A t \in Ids : object'[t] = (IF t = n THEN "accepted" ELSE object[t])
    BY <1>1, <2>1 DEF TypeOK
  <2>3. \A i \in 1 .. Len(cq) : cq[i].type = "accept" =>
          cq[i].session # n /\ object'[cq[i].session] = "accepted"
    BY <1>2, <2>1, <2>2 DEF AcceptInv
  <2>4. CASE ~ OwnAccept /\ cq' = cq
    BY <2>3, <2>4 DEF AcceptInv
  <2>5. CASE OwnAccept /\ Post(Cqe("accept", n, "ok"))
    <3>1. /\ Len(cq) \in Nat /\ Len(cq') = Len(cq) + 1
          /\ \A i \in 1 .. Len(cq) : cq'[i] = cq[i]
          /\ cq'[Len(cq) + 1] = Cqe("accept", n, "ok")
          /\ \A i \in 1 .. Len(cq') : i \in 1 .. Len(cq) \/ i = Len(cq) + 1
      BY <1>1, <2>1, <2>5, Posted
    <3>2. Cqe("accept", n, "ok").session = n
      BY DEF Cqe
    <3>3. \A i \in 1 .. Len(cq') : cq'[i].type = "accept" => object'[cq'[i].session] = "accepted"
      BY <2>2, <2>3, <3>1, <3>2
    <3>4. \A i, j \in 1 .. Len(cq') :
            cq'[i].type = "accept" /\ cq'[j].type = "accept" /\ cq'[j].session = cq'[i].session => j = i
      <4> SUFFICES ASSUME NEW i \in 1 .. Len(cq'), NEW j \in 1 .. Len(cq'),
                          cq'[i].type = "accept", cq'[j].type = "accept", cq'[j].session = cq'[i].session
                   PROVE  j = i
        OBVIOUS
      <4>1. CASE i = Len(cq) + 1 \/ j = Len(cq) + 1
        BY <2>3, <3>1, <3>2, <4>1
      <4>2. CASE i \in 1 .. Len(cq) /\ j \in 1 .. Len(cq)
        BY <3>1, <4>2 DEF AcceptInv
      <4> QED
        BY <3>1, <4>1, <4>2
    <3> QED
      BY <2>5, <3>3, <3>4 DEF AcceptInv
  <2> QED
    BY <2>1, <2>4, <2>5
<1>6. CASE ClosesDescriptor
  <2>1. PICK c \in Ids : Post(Cqe("session_close", c, "ok")) /\ object' = object
    BY <1>1, <1>6, ClosedDescriptor DEF sessionVars
  <2>2. Cqe("session_close", c, "ok") \in SessionCqes /\ Cqe("session_close", c, "ok").type # "accept"
    BY SessionCqe DEF CqeTypes, Cqe
  <2> QED
    BY <1>3, <2>1, <2>2
<1>7. CASE SessionAdded
  <2>1. PICK n \in Ids :
          /\ AddSession(n)
          /\ object[n] # "none" /\ fdOf[n] \in Fds
          /\ \/ OwnAccept /\ cq # <<>> /\ Seen /\ Head(cq).type = "accept" /\ Head(cq).session = n
             \/ ~ OwnAccept /\ cq' = cq
    BY <1>1, <1>7, AddedSession
  <2>2. \A t \in Ids : object'[t] = IF t = n THEN "live" ELSE IF t = sessions[fdOf[n]] THEN "freed" ELSE object[t]
    BY <2>1 DEF AddSession
  <2>3. \A t \in Ids : t = sessions[fdOf[n]] => object[t] = "live"
    BY <1>1, <2>1 DEF LifeInv, Ids, None
  <2>4. CASE ~ OwnAccept /\ cq' = cq
    BY <2>4 DEF AcceptInv
  <2>5. CASE OwnAccept /\ cq # <<>> /\ Seen /\ Head(cq).type = "accept" /\ Head(cq).session = n
    <3>1. Head(cq) = cq[1] /\ 1 \in 1 .. Len(cq)
      BY <1>1, <2>5, Taken
    <3>2. \A i \in 1 .. Len(cq) : i # 1 /\ cq[i].type = "accept" =>
            cq[i].session # n /\ object[cq[i].session] = "accepted"
      BY <2>5, <3>1 DEF AcceptInv
    <3>3. \A i \in 1 .. Len(cq) : i # 1 /\ cq[i].type = "accept" => object'[cq[i].session] = object[cq[i].session]
      BY <1>2, <2>2, <2>3, <3>2
    <3> QED
      BY <1>4, <2>5, <3>3
  <2> QED
    BY <2>1, <2>4, <2>5
<1>8. CASE OnSessionClose
  <2>1. fdOf[cq[1].session] \in Fds /\ RemoveSession(fdOf[cq[1].session])
    BY <1>1, <1>8, ClosedHead
  <2>2. \A t \in Ids : t = sessions[fdOf[cq[1].session]] => object[t] = "live"
    BY <1>1, <2>1 DEF LifeInv, Ids, None
  <2>3. \A t \in Ids : object[t] = "accepted" => object'[t] = "accepted"
    BY <2>1, <2>2 DEF RemoveSession
  <2>4. cq' = cq
    BY <1>8 DEF OnSessionClose
  <2> QED
    BY <1>2, <2>3, <2>4 DEF AcceptInv
<1>9. CASE QuietStep
  <2>1. object' = object
    BY <1>9 DEF QuietStep
  <2>2. CASE cq' = cq
    BY <2>1, <2>2 DEF AcceptInv
  <2>3. CASE cq' = <<>>
    BY <2>3 DEF AcceptInv
  <2>4. CASE cq # <<>> /\ Seen
    BY <1>4, <2>1, <2>4
  <2>5. ASSUME NEW c \in SessionCqes, Post(c), c.type \notin FollowTypes PROVE AcceptInv'
    BY <1>3, <2>1, <2>5 DEF FollowTypes
  <2> QED
    BY <1>9, <2>2, <2>3, <2>4, <2>5 DEF QuietStep
<1> QED
  BY <1>1, <1>5, <1>6, <1>7, <1>8, <1>9, StepKinds

(* Only the cancels of SessionManager::Close wait in the queue, one for a  *)
(* session that was mapped when it started.                                *)
Before == {"up", "closed", "close"}

SqInv ==
  /\ mainPc \in Before => sq = {} /\ visited = {}
  /\ sq \subseteq {Request("cancel", s) : s \in visited}
  /\ mainPc \notin Before => Cardinality(visited \cup MappedSessions) < SqDepth

Fits == mainPc = "close" => GetSize < SqDepth

LEMMA FiniteSessions == \A S \in SUBSET Ids : IsFiniteSet(S) /\ Cardinality(S) \in Nat
<1>1. IsFiniteSet(Ids)
  BY WorkerAssumption, FS_Interval DEF WorkerAssumption, Ids
<1> QED
  BY <1>1, FS_Subset, FS_CardinalityType

LEMMA SqSteps ==
  ASSUME Next
  PROVE  StartClose \/ (sq' \subseteq sq /\ visited' = visited)
<1>1. \A new : Submit(new) => sq' \subseteq sq
  BY DEF Submit
<1>2. StopSQE => sq' \subseteq sq
  BY <1>1 DEF StopSQE
<1> USE DEF mainVars, sessionVars
<1>3. \A t, s : Send(s) \/ SendFails(t, s) => sq' \subseteq sq
  BY <1>1 DEF Send, SendFails
<1>4. OnRecv \/ (\E t \in Others : OthersSend(t)) => sq' \subseteq sq /\ visited' = visited
  BY <1>3 DEF OnRecv, OthersSend
<1>5. OnSendMore \/ SessionAdded \/ (\E t \in Threads : CloseSubmits(t)) \/ SubmitCancels
        => sq' \subseteq sq /\ visited' = visited
  BY <1>1 DEF OnSendMore, SessionAdded, OnAcceptCompleted, OtherThreadAdds, AddSession, CloseSubmits, SubmitCancels
<1>6. AfterRemove \/ Stop \/ Join => sq' \subseteq sq /\ visited' = visited
  BY <1>2 DEF AfterRemove, Stop, Join
<1>7. \/ KernelAccept \/ KernelData \/ KernelDisconnect \/ KernelSend \/ (\E s \in Ids : KernelCancel(s))
      \/ (\E r \in requests : KernelComplete(r)) \/ Exit \/ OnRecvEnd \/ OnRecvCancel \/ OnSendDone
      \/ OnSendError \/ Stale \/ OnSessionClose \/ ListenerClosed \/ ClearRunning \/ CloseSessions
      \/ MarkCanceling \/ EndOfMap
      => sq' = sq /\ visited' = visited
  BY DEF KernelAccept, KernelData, KernelDisconnect, KernelSend, KernelCancel, KernelComplete, Exit, OnRecvEnd,
         OnRecvCancel, OnSendDone, OnSendError, Stale, OnSessionClose, ListenerClosed, ClearRunning,
         CloseSessions, MarkCanceling, EndOfMap
<1> QED
  BY <1>4, <1>5, <1>6, <1>7 DEF Next, Run, Main, Threads

LEMMA SqAvailable ==
  ASSUME TypeInv, WorkerAssumption, SqInv
  PROVE  SqeAvailable
<1> DEFINE cancel == [s \in visited |-> Request("cancel", s)]
           Cancels == {Request("cancel", s) : s \in visited}
<1>1. SqDepth \in Nat \ {0} /\ visited \in SUBSET Ids /\ MappedSessions \in SUBSET Ids
  BY DEF TypeInv, TypeOK, WorkerAssumption, MappedSessions
<1>2. CASE mainPc \in Before
  BY <1>1, <1>2, FS_EmptySet DEF SqInv, SqeAvailable
<1>3. CASE mainPc \notin Before
  <2>1. cancel \in Surjection(visited, Cancels)
    BY DEF Surjection
  <2>2. IsFiniteSet(visited) /\ Cardinality(visited) \in Nat
    BY <1>1, FiniteSessions
  <2>3. IsFiniteSet(Cancels) /\ Cardinality(Cancels) <= Cardinality(visited) /\ Cardinality(Cancels) \in Nat
    <3> HIDE DEF Cancels, cancel
    <3> QED
      BY <2>1, <2>2, FS_Surjection, FS_CardinalityType
  <2>4. Cardinality(sq) <= Cardinality(Cancels) /\ Cardinality(sq) \in Nat
    <3>1. sq \in SUBSET Cancels
      BY DEF SqInv
    <3> HIDE DEF Cancels
    <3> QED
      BY <2>3, <3>1, FS_Subset, FS_CardinalityType
  <2>5. /\ Cardinality(visited) <= Cardinality(visited \cup MappedSessions)
        /\ Cardinality(visited \cup MappedSessions) \in Nat
    <3>1. visited \cup MappedSessions \in SUBSET Ids
      BY <1>1
    <3>2. IsFiniteSet(visited \cup MappedSessions) /\ Cardinality(visited \cup MappedSessions) \in Nat
      BY <3>1, FiniteSessions
    <3>3. visited \in SUBSET (visited \cup MappedSessions)
      OBVIOUS
    <3> QED
      BY <3>2, <3>3, FS_Subset
  <2>6. Cardinality(visited \cup MappedSessions) < SqDepth
    BY <1>3 DEF SqInv
  <2> HIDE DEF Cancels
  <2> QED
    BY <1>1, <2>2, <2>3, <2>4, <2>5, <2>6 DEF SqeAvailable
<1> QED
  BY <1>2, <1>3

LEMMA NextSqInv ==
  ASSUME IInv, AcceptInv, SqInv, Fits, Next
  PROVE  SqInv'
<1>1. TypeInv /\ RingOK /\ TypeOK /\ LifeInv /\ CloseInv /\ MainInv /\ WorkerAssumption
  BY WorkerAssumption DEF IInv, TypeInv
<1>2. /\ mainPc' \in Before => mainPc \in Before
      /\ mainPc \in Before /\ mainPc' \notin Before => CloseSessions
  BY DEF Next, Run, Main, Before, MainStep, mainVars, KernelAccept, KernelData, KernelDisconnect, KernelSend,
         KernelCancel, KernelComplete, Exit, CloseSubmits, OnRecv, OnRecvEnd, OnRecvCancel, OnSendDone,
         OnSendMore, OnSendError, Stale, OnSessionClose, AfterRemove, SessionAdded, OnAcceptCompleted,
         OtherThreadAdds, OthersSend, ListenerClosed, ClearRunning, CloseSessions, StartClose,
         MarkCanceling, EndOfMap, SubmitCancels, Stop, Join
<1>3. StartClose => mainPc \notin Before
  BY DEF StartClose, Before
<1>4. mainPc' \in Before => sq' = {} /\ visited' = {}
  BY <1>2, <1>3, SqSteps DEF SqInv
<1>5. sq' \subseteq {Request("cancel", s) : s \in visited'}
  <2>1. CASE StartClose
    <3>1. PICK s \in MappedSessions \ visited :
            visited' = visited \cup {s} /\ (sq' = sq \/ sq' = sq \cup {Request("cancel", s)})
      BY <2>1 DEF StartClose
    <3> QED
      BY <3>1 DEF SqInv
  <2> QED
    BY <2>1, SqSteps DEF SqInv
<1>6. ASSUME mainPc \notin Before
      PROVE  /\ visited' \cup MappedSessions' \subseteq visited \cup MappedSessions
             /\ visited \cup MappedSessions \subseteq Ids
  <2>1. ~ running /\ \A s \in Ids : object[s] # "accepted"
    BY <1>1, <1>6 DEF MainInv, Before
  <2>2. ~ SessionAdded
    <3>1. CASE OwnAccept
      <4> SUFFICES ASSUME OnAcceptCompleted PROVE FALSE
        BY <3>1 DEF SessionAdded
      <4>1. cq # <<>> /\ Head(cq).type = "accept" /\ Head(cq).session \in Ids
        BY <1>1, HandledSession DEF OnAcceptCompleted
      <4>2. Head(cq) = cq[1] /\ 1 \in 1 .. Len(cq)
        BY <1>1, <4>1, TailFacts DEF RingOK
      <4> QED
        BY <2>1, <4>1, <4>2 DEF AcceptInv
    <3>2. CASE ~ OwnAccept
      BY <2>1, <3>2 DEF SessionAdded, OtherThreadAdds
    <3> QED
      BY <3>1, <3>2
  <2>3. MappedSessions' \subseteq MappedSessions
    <3>1. CASE OnSessionClose
      <4>1. PICK f : sessions' = [sessions EXCEPT ![f] = None]
        BY <3>1 DEF OnSessionClose, RemoveSession
      <4>2. \A g \in Fds : sessions'[g] = sessions[g] \/ sessions'[g] = None
        BY <1>1, <4>1 DEF TypeOK
      <4> QED
        BY <4>2 DEF MappedSessions, Ids, None
    <3>2. CASE sessions' = sessions
      BY <3>2 DEF MappedSessions
    <3> QED
      BY <1>1, <2>2, <3>1, <3>2, StepKinds, AcceptedSession, ClosedDescriptor DEF QuietStep
  <2>4. visited' \subseteq visited \cup MappedSessions
    BY SqSteps DEF StartClose
  <2> QED
    BY <1>1, <2>3, <2>4 DEF MappedSessions, TypeOK
<1>7. mainPc' \notin Before => Cardinality(visited' \cup MappedSessions') < SqDepth
  <2>1. CASE mainPc \notin Before
    <3> DEFINE S == visited \cup MappedSessions
               T == visited' \cup MappedSessions'
    <3>1. T \subseteq S /\ S \in SUBSET Ids /\ T \in SUBSET Ids
      BY <1>6, <2>1
    <3>2. Cardinality(S) < SqDepth
      BY <2>1 DEF SqInv
    <3> HIDE DEF S, T
    <3>3. Cardinality(T) <= Cardinality(S) /\ Cardinality(T) \in Nat /\ Cardinality(S) \in Nat
      BY <3>1, FiniteSessions, FS_Subset
    <3>4. Cardinality(T) < SqDepth
      BY <1>1, <3>2, <3>3 DEF WorkerAssumption
    <3> QED
      BY <3>4 DEF T
  <2>2. CASE CloseSessions
    <3>1. mainPc = "close" /\ visited' = visited /\ sessions' = sessions
      BY <2>2 DEF CloseSessions, MainStep
    <3>2. visited = {} /\ GetSize < SqDepth
      BY <3>1 DEF SqInv, Fits, Before
    <3>3. visited' \cup MappedSessions' = MappedSessions
      BY <3>1, <3>2 DEF MappedSessions
    <3> QED
      BY <3>2, <3>3 DEF GetSize
  <2> QED
    BY <1>2, <2>1, <2>2
<1> QED
  BY <1>4, <1>5, <1>7 DEF SqInv

(* With fewer sessions than entries when SessionManager::Close starts,     *)
(* io_uring_get_sqe never returns null: whatever connected before, and     *)
(* whatever the threads submit meanwhile.                                  *)
THEOREM QueueNeverFull == Spec /\ [](mainPc = "close" => GetSize < SqDepth) => []SqeAvailable
<1>1. Init => AcceptInv /\ SqInv
  BY DEF Init, AcceptInv, SqInv, Before
<1>2. IInv /\ AcceptInv /\ SqInv /\ Fits /\ [Next]_vars => AcceptInv' /\ SqInv'
  <2> SUFFICES ASSUME IInv, AcceptInv, SqInv, Fits, [Next]_vars PROVE AcceptInv' /\ SqInv'
    OBVIOUS
  <2>1. CASE UNCHANGED vars
    BY <2>1 DEF vars, AcceptInv, SqInv, MappedSessions
  <2> QED
    BY <2>1, NextAcceptInv, NextSqInv
<1>3. IInv /\ SqInv => SqeAvailable
  BY WorkerAssumption, SqAvailable DEF IInv
<1>4. (mainPc = "close" => GetSize < SqDepth) <=> Fits
  BY DEF Fits
<1> QED
  BY <1>1, <1>2, <1>3, <1>4, Invariance, PTL DEF Spec

(* A thread that sets closing submits the close of the descriptor in the   *)
(* same call: it is not lost for want of an entry.                         *)
CloseIsSubmitted ==
  [][\A s \in Ids, t \in Threads :
       t \notin closing[s] /\ t \in closing'[s] => CloseRequest(t, s) \in requests']_vars

(* So no session is left marked as closing with its descriptor open and no *)
(* close requested, which is how a full queue makes ThreadManager::Stop    *)
(* wait forever (Session::Close sets closing before it asks for an entry). *)
THEOREM ClosesAreSubmitted == Spec /\ [](mainPc = "close" => GetSize < SqDepth) => CloseIsSubmitted
<1> DEFINE Submitted == \A s \in Ids, t \in Threads :
                          t \notin closing[s] /\ t \in closing'[s] => CloseRequest(t, s) \in requests'
<1>1. SqeAvailable /\ IInv /\ Next => Submitted
  <2> SUFFICES ASSUME SqeAvailable, IInv, Next, NEW s \in Ids, NEW t \in Threads,
                      t \notin closing[s], t \in closing'[s]
               PROVE  CloseRequest(t, s) \in requests'
    OBVIOUS
  <2>1. TypeInv /\ TypeOK /\ WorkerAssumption
    BY WorkerAssumption DEF IInv, TypeInv
  <2>2. PICK u \in Threads : CloseSubmits(u)
    BY <2>1, CloseSteps
  <2>3. closing' = [closing EXCEPT ![about[u]] = @ \cup {u}]
    BY <2>1, <2>2, CloseSubmitsTypes
  <2>4. s = about[u] /\ t = u
    BY <2>1, <2>3 DEF TypeOK
  <2> QED
    BY <2>2, <2>4 DEF CloseSubmits, Submit
<1>2. SqeAvailable /\ IInv /\ [Next]_vars => [Submitted]_vars
  BY <1>1
<1> QED
  BY <1>2, Invariance, QueueNeverFull, PTL DEF Spec, CloseIsSubmitted

===============================================================================
