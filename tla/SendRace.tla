------------------------------- MODULE SendRace --------------------------------
(***************************************************************************)
(* The send path of one Session when several worker threads call           *)
(* Session::Send on it: Room::Broadcast, StartGame and UpdateRoomBroadcast *)
(* run on the thread of the member that made the request and send to every *)
(* member, whichever worker owns it.  Nothing in Session is locked, so the *)
(* statements of FlushTLSWriteBuffer and of OnSend interleave.             *)
(*                                                                         *)
(* A statement is one step.  SSL_write and each operation of std::queue    *)
(* are taken as atomic, which the code does not guarantee either; failures *)
(* and closing are in SessionSend.                                         *)
(***************************************************************************)
EXTENDS Naturals, Sequences

CONSTANTS
  Owner,        \* the worker thread that runs OnSend for the session
  Others,       \* other worker threads that broadcast to it
  MaxWritten    \* bound: buffers' worth of ciphertext produced

Threads == Others \cup {Owner}

VARIABLES
  written,      \* buffers 1 .. written have been cut from the write BIO
  sendQueue,    \* _sendQueue: the numbers of the buffers
  isSending,    \* _isSending
  ring,         \* sends in the kernel
  cq,           \* number of completions the owner has not handled
  wire,         \* buffers on the socket
  pc,           \* the statement each thread is about to execute
  buf           \* the buffer a thread has cut and not yet pushed

vars == <<written, sendQueue, isSending, ring, cq, wire, pc, buf>>

FlushSteps  == {"push", "test", "set", "submit"}
OnSendSteps == {"pop", "clear", "resend"}

TypeOK ==
  /\ written \in 0 .. MaxWritten
  /\ sendQueue \in Seq(1 .. MaxWritten)
  /\ isSending \in BOOLEAN
  /\ ring \in Seq(1 .. MaxWritten)
  /\ cq \in Nat
  /\ wire \in Seq(1 .. MaxWritten)
  /\ pc \in [Threads -> {"idle"} \cup FlushSteps \cup OnSendSteps]
  /\ buf \in [Threads -> 0 .. MaxWritten]

Init ==
  /\ written = 0 /\ sendQueue = <<>> /\ isSending = FALSE
  /\ ring = <<>> /\ cq = 0 /\ wire = <<>>
  /\ pc = [t \in Threads |-> "idle"]
  /\ buf = [t \in Threads |-> 0]

Goto(t, from, to) == pc[t] = from /\ pc' = [pc EXCEPT ![t] = to]

-------------------------------------------------------------------------------
(* Session::Send: SSL_write, then GetSecretText into a new SendBuffer. *)
Encrypt(t) ==
  /\ written < MaxWritten
  /\ Goto(t, "idle", "push")
  /\ written' = written + 1
  /\ buf' = [buf EXCEPT ![t] = written + 1]
  /\ UNCHANGED <<sendQueue, isSending, ring, cq, wire>>

(* FlushTLSWriteBuffer: _sendQueue.push *)
Push(t) ==
  /\ Goto(t, "push", "test")
  /\ sendQueue' = Append(sendQueue, buf[t])
  /\ buf' = [buf EXCEPT ![t] = 0]
  /\ UNCHANGED <<written, isSending, ring, cq, wire>>

(* FlushTLSWriteBuffer: if (!_isSending) *)
Test(t) ==
  /\ Goto(t, "test", IF isSending THEN "idle" ELSE "set")
  /\ UNCHANGED <<written, sendQueue, isSending, ring, cq, wire, buf>>

(* FlushTLSWriteBuffer: _isSending = true *)
Set(t) ==
  /\ Goto(t, "set", "submit")
  /\ isSending' = TRUE
  /\ UNCHANGED <<written, sendQueue, ring, cq, wire, buf>>

(* SendInternal: submit a copy of the front buffer, if there is one *)
SendInternal(t, from) ==
  /\ Goto(t, from, "idle")
  /\ ring' = IF sendQueue = <<>> THEN ring ELSE Append(ring, Head(sendQueue))
  /\ UNCHANGED <<written, sendQueue, isSending, cq, wire, buf>>

Submit(t) == SendInternal(t, "submit")

KernelSend ==
  /\ ring # <<>>
  /\ wire' = Append(wire, Head(ring))
  /\ ring' = Tail(ring)
  /\ cq' = cq + 1
  /\ UNCHANGED <<written, sendQueue, isSending, pc, buf>>

(* OnSend: the completed buffer is read to its end and popped *)
Complete ==
  /\ cq > 0
  /\ Goto(Owner, "idle", "pop")
  /\ cq' = cq - 1
  /\ UNCHANGED <<written, sendQueue, isSending, ring, wire, buf>>

(* OnSend: if the queue is not empty, pop it and test it for emptiness *)
Pop ==
  /\ Goto(Owner, "pop", IF Len(sendQueue) = 1 THEN "clear" ELSE "resend")
  /\ sendQueue' = IF sendQueue = <<>> THEN <<>> ELSE Tail(sendQueue)
  /\ UNCHANGED <<written, isSending, ring, cq, wire, buf>>

(* OnSend: _isSending = false *)
Clear ==
  /\ Goto(Owner, "clear", "resend")
  /\ isSending' = FALSE
  /\ UNCHANGED <<written, sendQueue, ring, cq, wire, buf>>

Resend == SendInternal(Owner, "resend")

Next ==
  \/ \E t \in Threads : Encrypt(t) \/ Push(t) \/ Test(t) \/ Set(t) \/ Submit(t)
  \/ KernelSend
  \/ Complete \/ Pop \/ Clear \/ Resend

Spec == Init /\ [][Next]_vars

-------------------------------------------------------------------------------
(* The comment at Session.cpp:169: the next SendInternal() is called from  *)
(* OnSend().  So no send is submitted while one is outstanding, and once   *)
(* every thread has finished its call a queued buffer has a send           *)
(* outstanding, whose OnSend will go on with the queue.                    *)
(*                                                                         *)
(* With the owner alone this holds.  With a second thread, both can pass   *)
(* the test of _isSending and submit; and the owner's OnSend can transfer  *)
(* the other thread's buffer between its test and its assignment, so that  *)
(* the flag is set for good with nothing outstanding.                      *)
NextSendFromOnSend ==
  /\ Len(ring) + cq <= 1
  /\ (sendQueue # <<>> /\ \A t \in Threads : pc[t] = "idle") => Len(ring) + cq = 1
===============================================================================
