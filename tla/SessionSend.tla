----------------------------- MODULE SessionSend ------------------------------
(***************************************************************************)
(* The outgoing half of one Session (Session.cpp, TLS.cpp, Buffer.cpp),    *)
(* driven by the thread of the Worker that owns it: Session::Send encrypts *)
(* into the write BIO, FlushTLSWriteBuffer cuts the ciphertext into        *)
(* SendBuffers, SendInternal has one io_uring send in flight, OnSend       *)
(* accounts for its completion, and Close ends the session.                *)
(*                                                                         *)
(* The data are the numbers of the ciphertext units in the order in which  *)
(* OpenSSL produced them; a buffer holds a contiguous interval of them.    *)
(***************************************************************************)
EXTENDS Integers, Sequences

CONSTANTS
  BufSize,      \* capacity of a SendBuffer (4096 bytes in the code)
  MaxRecord,    \* most ciphertext one Session::Send produces
  MaxWritten    \* bound: units produced in a whole behaviour

ASSUME SendAssumption ==
  /\ BufSize \in Nat \ {0}
  /\ MaxRecord \in Nat
  /\ MaxWritten \in Nat

VARIABLES
  handshaking,  \* TLS::handshaking
  written,      \* units 1 .. written have been produced by SSL_write
  flushed,      \* units 1 .. flushed left the write BIO; the rest is in it
  sendQueue,    \* _sendQueue: intervals still to be acknowledged
  SendCount,    \* SendCount, uint16_t: sends submitted and not completed
  isSending,    \* _isSending
  canceling,    \* canceling
  closing,      \* closing: "no", "forced" by Close(false), "checked" by Close(true)
  cancelSent,   \* the RECV_CANCEL request of StartClose is outstanding
  ring,         \* sends the kernel is working on, oldest first
  cq,           \* results of completed sends that OnSend has not seen
  wire,         \* units the kernel put on the socket
  sendFailed    \* history: a send completed with an error

vars == <<handshaking, written, flushed, sendQueue, SendCount, isSending, canceling,
          closing, cancelSent, ring, cq, wire, sendFailed>>

Uint16 == 65536
Error  == -1

Buffers  == [from : 1 .. MaxWritten, to : 1 .. MaxWritten]
Requests == [from : 1 .. MaxWritten, to : 1 .. MaxWritten, open : BOOLEAN]

TypeOK ==
  /\ handshaking \in BOOLEAN
  /\ written \in 0 .. MaxWritten
  /\ flushed \in 0 .. written
  /\ sendQueue \in Seq(Buffers)
  /\ SendCount \in 0 .. Uint16 - 1
  /\ isSending \in BOOLEAN
  /\ canceling \in BOOLEAN
  /\ closing \in {"no", "forced", "checked"}
  /\ cancelSent \in BOOLEAN
  /\ ring \in Seq(Requests)
  /\ cq \in Seq(Int)
  /\ wire \in Seq(Nat)
  /\ sendFailed \in BOOLEAN

Init ==
  /\ handshaking = TRUE /\ written = 0 /\ flushed = 0
  /\ sendQueue = <<>> /\ SendCount = 0 /\ isSending = FALSE
  /\ canceling = FALSE /\ closing = "no" /\ cancelSent = FALSE
  /\ ring = <<>> /\ cq = <<>> /\ wire = <<>>
  /\ sendFailed = FALSE

-------------------------------------------------------------------------------
(* Operators named Faulty... are variants of the operator that follows them *)
(* with a plausible defect; no specification uses them.                    *)

FaultySecretText(pending) == BufSize    \* a short read of the BIO is not noticed

(* TLS::GetSecretText: drain the write BIO until it is empty or the buffer *)
(* is full.                                                                *)
SecretText(pending) == IF pending < BufSize THEN pending ELSE BufSize

(* Session::SendInternal: copy the front buffer into a context and submit  *)
(* it.  A send submitted after the fd was closed can only fail.            *)
(* There is room in the submission queue, as every call on this thread     *)
(* submits at once; Worker has the queue that the main thread fills.       *)
SendInternal(queue, count) ==
  IF queue = <<>>
  THEN ring' = ring /\ SendCount' = count
  ELSE /\ ring' = Append(ring, [from |-> Head(queue).from, to |-> Head(queue).to,
                                open |-> closing = "no"])
       /\ SendCount' = (count + 1) % Uint16

FaultyFlushResends(total) ==    \* submits although a send is outstanding
  LET n == SecretText(total - flushed) IN
  IF n <= 0
  THEN UNCHANGED <<flushed, sendQueue, isSending, ring, SendCount>>
  ELSE /\ flushed' = flushed + n
       /\ sendQueue' = Append(sendQueue, [from |-> flushed + 1, to |-> flushed + n])
       /\ isSending' = TRUE
       /\ SendInternal(sendQueue', SendCount)

(* Session::FlushTLSWriteBuffer, with the BIO holding flushed + 1 .. total. *)
FlushTLSWriteBuffer(total) ==
  LET n == SecretText(total - flushed) IN
  IF n <= 0
  THEN UNCHANGED <<flushed, sendQueue, isSending, ring, SendCount>>
  ELSE /\ flushed' = flushed + n
       /\ sendQueue' = Append(sendQueue, [from |-> flushed + 1, to |-> flushed + n])
       /\ isSending' = TRUE
       /\ IF isSending THEN UNCHANGED <<ring, SendCount>>
          ELSE SendInternal(sendQueue', SendCount)

FaultyClose(additionalCheck, sending, count) ==    \* closes with sends outstanding
  IF closing # "no" \/ (additionalCheck /\ ~ canceling)
  THEN closing' = closing
  ELSE closing' = IF additionalCheck THEN "checked" ELSE "forced"

(* Session::Close(AdditionalCheck), given the flags it reads. *)
Close(additionalCheck, sending, count) ==
  IF \/ closing # "no"
     \/ additionalCheck /\ (~ canceling \/ sending \/ count > 0)
  THEN closing' = closing
  ELSE closing' = IF additionalCheck THEN "checked" ELSE "forced"

-------------------------------------------------------------------------------
(* Session::TLSHandshake: SSL_do_handshake produces n units, which are      *)
(* flushed; then it has succeeded, waits for the peer, or has failed.      *)
TLSHandshake(n) ==
  /\ handshaking
  /\ written + n <= MaxWritten
  /\ written' = written + n
  /\ FlushTLSWriteBuffer(written + n)
  /\ \/ handshaking' = FALSE /\ closing' = closing
     \/ UNCHANGED <<handshaking, closing>>
     \/ handshaking' = handshaking /\ Close(FALSE, isSending', SendCount')
  /\ UNCHANGED <<canceling, cancelSent, cq, wire, sendFailed>>

(* Session::Send: SSL_write produces n units (none when it wants more      *)
(* input) and the write BIO is flushed.                                    *)
Send(n) ==
  /\ ~ handshaking
  /\ written + n <= MaxWritten
  /\ written' = written + n
  /\ FlushTLSWriteBuffer(written + n)
  /\ UNCHANGED <<handshaking, canceling, closing, cancelSent, cq, wire, sendFailed>>

(* SSL_write fails: the session is closed and nothing is flushed. *)
SendFails ==
  /\ ~ handshaking
  /\ Close(FALSE, isSending, SendCount)
  /\ UNCHANGED <<handshaking, written, flushed, sendQueue, SendCount, isSending, canceling,
                 cancelSent, ring, cq, wire, sendFailed>>

(* The kernel transfers a prefix of the oldest request, or fails it. *)
KernelSend ==
  /\ ring # <<>>
  /\ Head(ring).open
  /\ \E n \in 1 .. Head(ring).to - Head(ring).from + 1 :
       /\ wire' = wire \o [i \in 1 .. n |-> Head(ring).from + i - 1]
       /\ cq' = Append(cq, n)
  /\ ring' = Tail(ring)
  /\ UNCHANGED <<handshaking, written, flushed, sendQueue, SendCount, isSending, canceling,
                 closing, cancelSent, sendFailed>>

KernelSendError ==
  /\ ring # <<>>
  /\ cq' = Append(cq, Error)
  /\ ring' = Tail(ring)
  /\ sendFailed' = TRUE
  /\ UNCHANGED <<handshaking, written, flushed, sendQueue, SendCount, isSending, canceling,
                 closing, cancelSent, wire>>

FaultyAfterRead(queue, bytes) ==    \* forgets the rest of a partial transfer
  IF queue = <<>> THEN queue ELSE Tail(queue)

(* Buffer::OnRead on the front buffer, and its pop when nothing is left. *)
AfterRead(queue, bytes) ==
  IF queue = <<>> THEN queue
  ELSE IF Head(queue).from + bytes > Head(queue).to THEN Tail(queue)
  ELSE [queue EXCEPT ![1].from = @ + bytes]

FaultyOnSendStops ==    \* goes on with the queue only after a whole buffer
  /\ cq # <<>> /\ Head(cq) > 0
  /\ LET queue == AfterRead(sendQueue, Head(cq)) IN
       /\ sendQueue' = queue
       /\ isSending' = (isSending /\ queue # <<>>)
       /\ SendInternal(IF Len(queue) = Len(sendQueue) THEN <<>> ELSE queue, SendCount - 1)
  /\ Close(TRUE, isSending', SendCount')
  /\ cq' = Tail(cq)
  /\ UNCHANGED <<handshaking, written, flushed, canceling, cancelSent, wire, sendFailed>>

FaultyOnSendKeepsFlag ==    \* _isSending is not cleared when the queue empties
  /\ cq # <<>> /\ Head(cq) > 0
  /\ LET queue == AfterRead(sendQueue, Head(cq)) IN
       /\ sendQueue' = queue
       /\ isSending' = isSending
       /\ SendInternal(queue, (SendCount - 1) % Uint16)
  /\ Close(TRUE, isSending', SendCount')
  /\ cq' = Tail(cq)
  /\ UNCHANGED <<handshaking, written, flushed, canceling, cancelSent, wire, sendFailed>>

(* Session::OnSend(bytes) with bytes > 0. *)
OnSend ==
  /\ cq # <<>> /\ Head(cq) > 0
  /\ LET queue == AfterRead(sendQueue, Head(cq)) IN
       /\ sendQueue' = queue
       /\ isSending' = (isSending /\ (queue # <<>> \/ sendQueue = <<>>))
       /\ SendInternal(queue, (SendCount - 1) % Uint16)
  /\ Close(TRUE, isSending', SendCount')
  /\ cq' = Tail(cq)
  /\ UNCHANGED <<handshaking, written, flushed, canceling, cancelSent, wire, sendFailed>>

FaultyOnSendRetries ==    \* submits the front buffer again after an error
  /\ cq # <<>> /\ Head(cq) <= 0
  /\ SendInternal(sendQueue, (SendCount - 1) % Uint16)
  /\ Close(FALSE, isSending, SendCount)
  /\ cq' = Tail(cq)
  /\ UNCHANGED <<handshaking, written, flushed, sendQueue, isSending, canceling, cancelSent,
                 wire, sendFailed>>

(* Session::OnSend(bytes) with bytes <= 0: _isSending stays set. *)
OnSendError ==
  /\ cq # <<>> /\ Head(cq) <= 0
  /\ SendCount' = (SendCount - 1) % Uint16
  /\ Close(FALSE, isSending, SendCount)
  /\ cq' = Tail(cq)
  /\ UNCHANGED <<handshaking, written, flushed, sendQueue, isSending, canceling, cancelSent,
                 ring, wire, sendFailed>>

(* OnRecv with cqe.res <= 0, a BIO_write or SSL_read error, a handshake    *)
(* failure: Close(false).                                                  *)
OnRecvError ==
  /\ Close(FALSE, isSending, SendCount)
  /\ UNCHANGED <<handshaking, written, flushed, sendQueue, SendCount, isSending, canceling,
                 cancelSent, ring, cq, wire, sendFailed>>

(* Session::StartClose, at shutdown, and the completion of its request. *)
StartClose ==
  /\ ~ canceling
  /\ canceling' = TRUE
  /\ cancelSent' = TRUE
  /\ UNCHANGED <<handshaking, written, flushed, sendQueue, SendCount, isSending, closing,
                 ring, cq, wire, sendFailed>>

OnRecvCancel ==
  /\ cancelSent
  /\ cancelSent' = FALSE
  /\ Close(TRUE, isSending, SendCount)
  /\ UNCHANGED <<handshaking, written, flushed, sendQueue, SendCount, isSending, canceling,
                 ring, cq, wire, sendFailed>>

Next ==
  \/ \E n \in 0 .. MaxRecord : TLSHandshake(n) \/ Send(n)
  \/ SendFails
  \/ KernelSend \/ KernelSendError
  \/ OnSend \/ OnSendError
  \/ OnRecvError
  \/ StartClose \/ OnRecvCancel

(* The worker's loop handles every completion, and the peer reads.  That a *)
(* send fails, that the peer leaves and that the server stops is not       *)
(* promised.                                                               *)
Fairness == WF_vars(KernelSend) /\ WF_vars(OnSend)

Safety == Init /\ [][Next]_vars
Spec   == Safety /\ Fairness

-------------------------------------------------------------------------------
(* At most one send of a session is outstanding, and SendCount counts it:  *)
(* partial sends, a full queue and failures never lead to a second one.    *)
OneSendOutstanding ==
  /\ SendCount = Len(ring) + Len(cq)
  /\ SendCount <= 1

(* The socket carries the units in order, each once, without a gap, over   *)
(* any sequence of partial sends and queued buffers.                       *)
StreamInOrder == \A i \in 1 .. Len(wire) : wire[i] = i

(* A buffer waiting in _sendQueue has a completion to come that will send  *)
(* it, unless a send failed and the session is being closed.               *)
NeverStalled ==
  sendQueue # <<>> => SendCount = 1 \/ (sendFailed /\ closing # "no")

(* What piled up in the write BIO is flushed (the comment at               *)
(* Session.cpp:312): when no send is outstanding, and the session is not   *)
(* closing and saw no failure, every unit produced is on the socket.  True *)
(* while no record is larger than a SendBuffer (MaxRecord <= BufSize); but *)
(* the flush takes one buffer only and OnSend does not look at the BIO, so *)
(* a larger record leaves its tail behind until something else is sent.    *)
NothingLeftBehind ==
  (SendCount = 0 /\ closing = "no" /\ ~ sendFailed) => Len(wire) = written

(* After a failed send the session puts nothing more on the socket.        *)
QuietAfterFailure == [][sendFailed => wire' = wire]_vars

(* Close(true), the graceful path, closes only a session whose queued      *)
(* data has all been transferred.                                          *)
GracefulCloseDrains ==
  [][closing = "no" /\ closing' = "checked" => Len(wire') = flushed']_vars

(* Every unit that left the write BIO reaches the socket, unless the       *)
(* session closes or a send fails.                                         *)
EverythingIsSent ==
  \A k \in 1 .. MaxWritten :
    (flushed >= k) ~> (Len(wire) >= k \/ closing # "no" \/ sendFailed)

(* The refinement mapping to the abstract stream, which accepts a unit     *)
(* when the unit leaves the write BIO.                                     *)
Stream == INSTANCE ByteStream WITH
            accepted <- flushed, out <- wire,
            ended <- closing # "no", broken <- sendFailed

ImplementsStream == Stream!Safety
===============================================================================
