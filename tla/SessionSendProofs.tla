--------------------------- MODULE SessionSendProofs ---------------------------
(***************************************************************************)
(* Proofs about SessionSend, for every capacity of a SendBuffer, size of a *)
(* record and number of units.                                             *)
(*                                                                         *)
(* The safety properties are not inductive by themselves.  IInv adds what  *)
(* ties the four places where data can be: the queue is a chain of         *)
(* intervals that ends at flushed; the one send outstanding, in the ring   *)
(* or as a completion, is about the front of the queue, which starts right *)
(* after what is on the socket; and without one everything flushed is on   *)
(* the socket.                                                             *)
(***************************************************************************)
EXTENDS SessionSend, SequenceTheorems, TLAPS

(* Non-empty intervals, one after the other, the last of which ends at end. *)
Chain(queue, end) ==
  /\ \A i \in 1 .. Len(queue) : queue[i].from <= queue[i].to /\ queue[i].to <= end
  /\ \A i \in 1 .. Len(queue) - 1 : queue[i + 1].from = queue[i].to + 1
  /\ queue # <<>> => queue[Len(queue)].to = end

(* _sendQueue ends where the write BIO begins; _isSending says whether it  *)
(* holds anything.                                                         *)
QueueOK ==
  /\ isSending <=> sendQueue # <<>>
  /\ Chain(sendQueue, flushed)

(* The send in the ring is the front buffer, of which nothing is out yet. *)
RingOK ==
  ring # <<>> =>
    /\ sendQueue # <<>>
    /\ ring[1].from = sendQueue[1].from /\ ring[1].to = sendQueue[1].to
    /\ Len(wire) = sendQueue[1].from - 1

(* A completion says how much of the front buffer is out. *)
CompletionOK ==
  cq # <<>> =>
    IF cq[1] > 0
    THEN /\ sendQueue # <<>>
         /\ Len(wire) = sendQueue[1].from - 1 + cq[1]
         /\ Len(wire) <= sendQueue[1].to
    ELSE sendFailed

QuietOK == SendCount = 0 /\ ~ sendFailed => sendQueue = <<>> /\ Len(wire) = flushed

FailedOK ==
  sendFailed => /\ ring = <<>> /\ sendQueue # <<>>
                /\ cq # <<>> => cq[1] <= 0
                /\ cq = <<>> => closing # "no"

IInv ==
  /\ TypeOK
  /\ OneSendOutstanding
  /\ StreamInOrder
  /\ QueueOK /\ RingOK /\ CompletionOK /\ QuietOK /\ FailedOK

-------------------------------------------------------------------------------
(* What the operations on _sendQueue keep.                                 *)

(* The ends of a buffer are numbers of units. *)
LEMMA BufferBounds ==
  ASSUME NEW q \in Seq(Buffers), NEW i \in 1 .. Len(q)
  PROVE  /\ q[i] \in Buffers
         /\ q[i].from \in 1 .. MaxWritten
         /\ q[i].to \in 1 .. MaxWritten
<1>1. q[i] \in Buffers
  BY ElementOfSeq
<1>2. QED
  BY <1>1 DEF Buffers

(* Pushing the next buffer keeps the chain. *)
LEMMA ChainAppend ==
  ASSUME NEW q \in Seq(Buffers), NEW end \in 0 .. MaxWritten, NEW n \in Nat \ {0},
         end + n <= MaxWritten, Chain(q, end)
  PROVE  LET b == [from |-> end + 1, to |-> end + n]
         IN  /\ b \in Buffers
             /\ Append(q, b) \in Seq(Buffers)
             /\ Append(q, b) # <<>>
             /\ Chain(Append(q, b), end + n)
             /\ Append(q, b)[1] = IF q = <<>> THEN b ELSE q[1]
<1> DEFINE b == [from |-> end + 1, to |-> end + n]
           r == Append(q, b)
<1>0. MaxWritten \in Nat
  BY SendAssumption
<1>1. b \in Buffers
  BY <1>0 DEF Buffers
<1> HIDE DEF b
<1>2. /\ r \in Seq(Buffers)
      /\ Len(r) = Len(q) + 1
      /\ \A i \in 1 .. Len(q) : r[i] = q[i]
      /\ r[Len(q) + 1] = b
  BY <1>1, AppendProperties
<1>3. r # <<>>
  BY <1>1
<1>4. b.from = end + 1 /\ b.to = end + n
  BY DEF b
<1> HIDE DEF r
<1>5. Len(q) \in Nat /\ (q # <<>> => Len(q) >= 1)
  BY EmptySeq
<1>6. \A i \in 1 .. Len(q) : q[i].from \in Nat /\ q[i].to \in Nat
  BY <1>0, BufferBounds
<1>7. \A i \in 1 .. Len(r) : r[i].from <= r[i].to /\ r[i].to <= end + n
  <2> SUFFICES ASSUME NEW i \in 1 .. Len(r) PROVE r[i].from <= r[i].to /\ r[i].to <= end + n
    OBVIOUS
  <2>1. CASE i \in 1 .. Len(q)
    <3>1. q[i].from <= q[i].to /\ q[i].to <= end
      BY <2>1 DEF Chain
    <3>2. QED
      BY <1>0, <1>2, <1>6, <2>1, <3>1
  <2>2. CASE i = Len(q) + 1
    BY <1>0, <1>2, <1>4, <2>2
  <2>3. QED
    BY <1>2, <1>5, <2>1, <2>2
<1>8. \A i \in 1 .. Len(r) - 1 : r[i + 1].from = r[i].to + 1
  <2> SUFFICES ASSUME NEW i \in 1 .. Len(q) PROVE r[i + 1].from = r[i].to + 1
    BY <1>2, <1>5
  <2>1. CASE i < Len(q)
    <3>1. q[i + 1].from = q[i].to + 1
      BY <1>5, <2>1 DEF Chain
    <3>2. i + 1 \in 1 .. Len(q)
      BY <1>5, <2>1
    <3>3. QED
      BY <1>2, <3>1, <3>2
  <2>2. CASE i = Len(q)
    <3>1. q[Len(q)].to = end
      BY <1>5 DEF Chain
    <3>2. QED
      BY <1>2, <1>4, <2>2, <3>1
  <2>3. QED
    BY <1>5, <2>1, <2>2
<1>9. r[Len(r)].to = end + n
  BY <1>2, <1>4, <1>5
<1>10. r[1] = IF q = <<>> THEN b ELSE q[1]
  <2>1. CASE q = <<>>
    BY <1>2, <2>1
  <2>2. CASE q # <<>>
    BY <1>2, <1>5, <2>2
  <2>3. QED
    BY <2>1, <2>2
<1>11. QED
  BY <1>1, <1>2, <1>3, <1>7, <1>8, <1>9, <1>10 DEF Chain, r, b

(* Popping the front buffer keeps the chain; the next one begins where the *)
(* front buffer ends, which is at the end of the chain if it was the last. *)
LEMMA ChainTail ==
  ASSUME NEW q \in Seq(Buffers), NEW end \in Nat, q # <<>>, Chain(q, end)
  PROVE  /\ Tail(q) \in Seq(Buffers)
         /\ Chain(Tail(q), end)
         /\ Tail(q) = <<>> => q[1].to = end
         /\ Tail(q) # <<>> => Tail(q)[1].from = q[1].to + 1
<1>1. /\ Len(q) \in Nat \ {0}
      /\ Tail(q) \in Seq(Buffers)
      /\ Len(Tail(q)) = Len(q) - 1
      /\ \A i \in 1 .. Len(Tail(q)) : Tail(q)[i] = q[i + 1]
  BY HeadTailProperties, EmptySeq
<1>2. Tail(q) = <<>> => Len(q) = 1
  <2>1. Tail(q) = <<>> <=> Len(Tail(q)) = 0
    BY <1>1, EmptySeq
  <2>2. QED
    BY <1>1, <2>1
<1>3. Tail(q) # <<>> => Len(Tail(q)) >= 1
  BY <1>1, EmptySeq
<1>4. \A i \in 1 .. Len(Tail(q)) :
        Tail(q)[i].from <= Tail(q)[i].to /\ Tail(q)[i].to <= end
  BY <1>1 DEF Chain
<1>5. \A i \in 1 .. Len(Tail(q)) - 1 : Tail(q)[i + 1].from = Tail(q)[i].to + 1
  BY <1>1 DEF Chain
<1>6. Tail(q) # <<>> => Tail(q)[Len(Tail(q))].to = end
  BY <1>1, <1>3 DEF Chain
<1>7. Tail(q) = <<>> => q[1].to = end
  BY <1>2 DEF Chain
<1>8. Tail(q) # <<>> => Tail(q)[1].from = q[1].to + 1
  BY <1>1, <1>3 DEF Chain
<1>9. QED
  BY <1>1, <1>4, <1>5, <1>6, <1>7, <1>8 DEF Chain

(* Consuming a part of the front buffer keeps the chain. *)
LEMMA ChainAdvance ==
  ASSUME NEW q \in Seq(Buffers), NEW end \in Nat, NEW n \in Nat \ {0},
         q # <<>>, Chain(q, end), q[1].from + n <= q[1].to
  PROVE  LET r == [q EXCEPT ![1].from = @ + n]
         IN  /\ r \in Seq(Buffers)
             /\ r # <<>>
             /\ Chain(r, end)
             /\ r[1].from = q[1].from + n
             /\ r[1].to = q[1].to
<1> DEFINE b == [q[1] EXCEPT !.from = @ + n]
           r == [q EXCEPT ![1].from = @ + n]
<1>1. Len(q) \in Nat \ {0}
  BY EmptySeq
<1>2. /\ q[1] \in Buffers
      /\ q[1].from \in 1 .. MaxWritten
      /\ q[1].to \in 1 .. MaxWritten
  BY <1>1, BufferBounds
<1>3. b \in Buffers /\ b.from = q[1].from + n /\ b.to = q[1].to
  <2>1. q[1].from + n \in 1 .. MaxWritten
    BY <1>2, SendAssumption
  <2>2. b.from = q[1].from + n /\ b.to = q[1].to
    BY <1>2 DEF Buffers
  <2>3. b \in Buffers
    BY <1>2, <2>1 DEF Buffers
  <2>4. QED
    BY <2>2, <2>3
<1>4. r = [q EXCEPT ![1] = b]
  OBVIOUS
<1> HIDE DEF b, r
<1>5. /\ r \in Seq(Buffers)
      /\ Len(r) = Len(q)
      /\ \A i \in 1 .. Len(q) : r[i] = IF i = 1 THEN b ELSE q[i]
  BY <1>1, <1>3, <1>4, ExceptSeq
<1>6. \A i \in 1 .. Len(q) : r[i].to = q[i].to
  BY <1>3, <1>5
<1>7. \A i \in 2 .. Len(q) : r[i].from = q[i].from
  BY <1>1, <1>5
<1>8. r[1].from = q[1].from + n /\ r[1].to = q[1].to
  BY <1>1, <1>3, <1>5
<1>9. \A i \in 1 .. Len(r) : r[i].from <= r[i].to /\ r[i].to <= end
  BY <1>1, <1>5, <1>6, <1>7, <1>8 DEF Chain
<1>10. \A i \in 1 .. Len(r) - 1 : r[i + 1].from = r[i].to + 1
  BY <1>1, <1>5, <1>6, <1>7 DEF Chain
<1>11. r[Len(r)].to = end
  BY <1>1, <1>5, <1>6 DEF Chain
<1>12. r # <<>>
  BY <1>1, <1>5, EmptySeq
<1>13. QED
  BY <1>5, <1>8, <1>9, <1>10, <1>11, <1>12 DEF Chain, r

-------------------------------------------------------------------------------
(* The parts of the session's operations.                                  *)

(* The counter does not wrap between zero and one. *)
LEMMA Count == (0 + 1) % Uint16 = 1 /\ (1 - 1) % Uint16 = 0
  BY DEF Uint16

(* SendInternal, when no send is outstanding, submits the front buffer. *)
LEMMA Submit ==
  ASSUME NEW q \in Seq(Buffers), q # <<>>, ring = <<>>, SendInternal(q, 0)
  PROVE  /\ SendCount' = 1
         /\ ring' \in Seq(Requests)
         /\ Len(ring') = 1
         /\ ring'[1].from = q[1].from
         /\ ring'[1].to = q[1].to
<1> DEFINE r == [from |-> Head(q).from, to |-> Head(q).to, open |-> closing = "no"]
<1>1. Head(q) \in Buffers /\ Head(q) = q[1]
  OBVIOUS
<1>2. r \in Requests
  BY <1>1 DEF Buffers, Requests
<1>3. SendCount' = 1 /\ ring' = Append(<<>>, r)
  BY Count DEF SendInternal
<1>4. ring' \in Seq(Requests) /\ Len(ring') = 1 /\ ring'[1] = r
  BY <1>2, <1>3
<1>5. QED
  BY <1>1, <1>3, <1>4

(* What the invariant says of the outgoing data, apart from the flags. *)
Data ==
  /\ flushed \in 0 .. MaxWritten
  /\ sendQueue \in Seq(Buffers)
  /\ ring \in Seq(Requests)
  /\ SendCount \in 0 .. 1
  /\ OneSendOutstanding
  /\ QueueOK /\ RingOK /\ CompletionOK /\ QuietOK
  /\ sendFailed => ring = <<>> /\ sendQueue # <<>>

(* FlushTLSWriteBuffer keeps the data in order. *)
LEMMA Flush ==
  ASSUME IInv, NEW total \in flushed .. MaxWritten, FlushTLSWriteBuffer(total),
         UNCHANGED <<cq, wire, sendFailed>>
  PROVE  Data' /\ flushed' \in flushed .. total
<1> DEFINE n == SecretText(total - flushed)
           b == [from |-> flushed + 1, to |-> flushed + n]
<1>0. /\ MaxWritten \in Nat
      /\ flushed \in 0 .. MaxWritten
      /\ SendCount \in 0 .. 1
      /\ Len(ring) \in Nat /\ Len(cq) \in Nat /\ Len(wire) \in Nat
      /\ sendQueue \in Seq(Buffers) /\ ring \in Seq(Requests) /\ cq \in Seq(Int)
  BY SendAssumption DEF IInv, TypeOK, OneSendOutstanding
<1>1. n \in 0 .. total - flushed
  BY <1>0, SendAssumption DEF SecretText
<1> HIDE DEF n
<1>2. CASE n <= 0
  <2>1. UNCHANGED <<flushed, sendQueue, isSending, ring, SendCount>>
    BY <1>2 DEF FlushTLSWriteBuffer, n
  <2>2. QED
    BY <1>0, <2>1 DEF IInv, Data, OneSendOutstanding, QueueOK, RingOK, CompletionOK, QuietOK,
       FailedOK
<1>3. CASE n > 0
  <2>1. /\ flushed' = flushed + n
        /\ sendQueue' = Append(sendQueue, b)
        /\ isSending' = TRUE
        /\ IF isSending THEN UNCHANGED <<ring, SendCount>>
           ELSE SendInternal(sendQueue', SendCount)
    BY <1>1, <1>3 DEF FlushTLSWriteBuffer, n
  <2>2. /\ flushed' \in 0 .. MaxWritten
        /\ n \in Nat \ {0}
    BY <1>0, <1>1, <1>3, <2>1
  <2>3. /\ b \in Buffers
        /\ sendQueue' \in Seq(Buffers)
        /\ sendQueue' # <<>>
        /\ Chain(sendQueue', flushed')
        /\ sendQueue'[1] = IF sendQueue = <<>> THEN b ELSE sendQueue[1]
    <3>1. Chain(sendQueue, flushed) /\ flushed + n <= MaxWritten
      BY <1>0, <2>1, <2>2 DEF IInv, QueueOK
    <3>2. /\ b \in Buffers
          /\ Append(sendQueue, b) \in Seq(Buffers)
          /\ Append(sendQueue, b) # <<>>
          /\ Chain(Append(sendQueue, b), flushed + n)
          /\ Append(sendQueue, b)[1] = IF sendQueue = <<>> THEN b ELSE sendQueue[1]
      BY <1>0, <2>2, <3>1, ChainAppend
    <3>3. QED
      BY <2>1, <3>2
  <2>4. QueueOK'
    BY <2>1, <2>3 DEF QueueOK
  <2>5. CASE isSending
    <3>1. UNCHANGED <<ring, SendCount>> /\ sendQueue # <<>> /\ sendQueue'[1] = sendQueue[1]
      BY <2>1, <2>3, <2>5 DEF IInv, QueueOK
    <3>2. QED
      BY <1>0, <1>1, <2>1, <2>2, <2>3, <2>4, <3>1
      DEF IInv, Data, OneSendOutstanding, RingOK, CompletionOK, QuietOK, FailedOK
  <2>6. CASE ~ isSending
    <3>1. sendQueue = <<>>
      BY <2>6 DEF IInv, QueueOK
    <3>2. ring = <<>> /\ cq = <<>> /\ ~ sendFailed
      BY <3>1 DEF IInv, RingOK, CompletionOK, FailedOK
    <3>3. SendCount = 0
      BY <3>2 DEF IInv, OneSendOutstanding
    <3>4. Len(wire) = flushed
      BY <3>1, <3>2, <3>3 DEF IInv, QuietOK
    <3>5. sendQueue'[1] = b
      BY <2>3, <3>1
    <3>6. /\ SendCount' = 1
          /\ ring' \in Seq(Requests) /\ Len(ring') = 1
          /\ ring'[1].from = sendQueue'[1].from /\ ring'[1].to = sendQueue'[1].to
      BY <2>1, <2>3, <2>6, <3>2, <3>3, Submit
    <3>7. cq' = <<>> /\ Len(wire') = flushed /\ b.from = flushed + 1
      BY <3>2, <3>4
    <3>8. OneSendOutstanding'
      BY <3>6, <3>7 DEF OneSendOutstanding
    <3>9. Len(wire') = b.from - 1 /\ RingOK'
      BY <1>0, <2>3, <3>5, <3>6, <3>7 DEF RingOK
    <3>10. CompletionOK' /\ QuietOK'
      BY <3>6, <3>7 DEF CompletionOK, QuietOK
    <3>11. SendCount' \in 0 .. 1 /\ ~ sendFailed'
      BY <3>2, <3>6
    <3>12. flushed' \in flushed .. total
      BY <1>0, <1>1, <2>1
    <3>13. QED
      BY <2>2, <2>3, <2>4, <3>6, <3>8, <3>9, <3>10, <3>11, <3>12 DEF Data
  <2>7. QED
    BY <2>5, <2>6
<1>4. QED
  BY <1>0, <1>1, <1>2, <1>3

(* Close: what it does to closing. *)
LEMMA Closers ==
  ASSUME closing \in {"no", "forced", "checked"}, NEW check \in BOOLEAN, NEW sending, NEW count,
         Close(check, sending, count)
  PROVE  /\ closing' \in {"no", "forced", "checked"}
         /\ closing # "no" => closing' = closing
         /\ ~ check => closing' # "no"
         /\ closing = "no" /\ closing' = "checked" => ~ sending /\ ~ (count > 0)
BY DEF Close

(* Buffer::OnRead after a completion of n units: what is left of the queue *)
(* begins with the first unit that is not on the socket.                   *)
LEMMA Read ==
  ASSUME IInv, cq # <<>>, cq[1] > 0
  PROVE  LET queue == AfterRead(sendQueue, cq[1])
         IN  /\ queue \in Seq(Buffers)
             /\ Chain(queue, flushed)
             /\ queue = <<>> => Len(wire) = flushed
             /\ queue # <<>> => queue[1].from = Len(wire) + 1
<1> DEFINE n == cq[1]
<1>0. /\ sendQueue \in Seq(Buffers)
      /\ flushed \in Nat
      /\ Len(cq) \in Nat \ {0}
      /\ n \in Nat \ {0}
      /\ Chain(sendQueue, flushed)
  BY SendAssumption, EmptySeq DEF IInv, TypeOK, QueueOK
<1>1. /\ sendQueue # <<>>
      /\ Len(wire) = sendQueue[1].from - 1 + n
      /\ Len(wire) <= sendQueue[1].to
  BY DEF IInv, CompletionOK
<1>2. /\ sendQueue[1].from \in 1 .. MaxWritten
      /\ sendQueue[1].to \in 1 .. MaxWritten
  <2>1. 1 \in 1 .. Len(sendQueue)
    BY <1>0, <1>1, EmptySeq
  <2>2. QED
    BY <1>0, <2>1, BufferBounds
<1>3. Head(sendQueue) = sendQueue[1]
  BY <1>0, <1>1
<1> HIDE DEF n
<1>4. CASE sendQueue[1].from + n > sendQueue[1].to
  <2>1. AfterRead(sendQueue, n) = Tail(sendQueue)
    BY <1>1, <1>3, <1>4 DEF AfterRead
  <2>2. Len(wire) = sendQueue[1].to
    BY <1>0, <1>1, <1>2, <1>4
  <2>3. QED
    BY <1>0, <1>1, <2>1, <2>2, ChainTail DEF n
<1>5. CASE ~ (sendQueue[1].from + n > sendQueue[1].to)
  <2>1. AfterRead(sendQueue, n) = [sendQueue EXCEPT ![1].from = @ + n]
    BY <1>1, <1>3, <1>5 DEF AfterRead
  <2>2. sendQueue[1].from + n <= sendQueue[1].to
    BY <1>0, <1>2, <1>5
  <2>3. sendQueue[1].from + n = Len(wire) + 1
    BY <1>0, <1>1, <1>2
  <2>4. QED
    BY <1>0, <1>1, <2>1, <2>2, <2>3, ChainAdvance DEF n
<1>6. QED
  BY <1>4, <1>5

-------------------------------------------------------------------------------
(* The invariant.                                                          *)

(* The initial state satisfies it. *)
LEMMA InitInv == Init => IInv
<1> SUFFICES ASSUME Init PROVE IInv
  OBVIOUS
<1>1. TypeOK
  <2>1. /\ sendQueue \in Seq(Buffers) /\ ring \in Seq(Requests)
        /\ cq \in Seq(Int) /\ wire \in Seq(Nat)
    BY DEF Init
  <2>2. written \in 0 .. MaxWritten /\ flushed \in 0 .. written /\ SendCount \in 0 .. Uint16 - 1
    BY SendAssumption DEF Init, Uint16
  <2>3. closing \in {"no", "forced", "checked"}
    BY DEF Init
  <2>4. /\ handshaking \in BOOLEAN /\ isSending \in BOOLEAN /\ canceling \in BOOLEAN
        /\ cancelSent \in BOOLEAN /\ sendFailed \in BOOLEAN
    BY DEF Init
  <2>5. QED
    BY <2>1, <2>2, <2>3, <2>4 DEF TypeOK
<1>2. OneSendOutstanding /\ StreamInOrder
  BY DEF Init, OneSendOutstanding, StreamInOrder
<1>3. QueueOK
  BY DEF Init, QueueOK, Chain
<1>4. RingOK /\ CompletionOK /\ QuietOK /\ FailedOK
  BY DEF Init, RingOK, CompletionOK, QuietOK, FailedOK
<1>5. QED
  BY <1>1, <1>2, <1>3, <1>4 DEF IInv

(* A step that moves no data and does not take closing back keeps it. *)
LEMMA DataUnmoved ==
  ASSUME IInv,
         UNCHANGED <<written, flushed, sendQueue, SendCount, isSending, ring, cq, wire,
                     sendFailed>>,
         handshaking' \in BOOLEAN, canceling' \in BOOLEAN, cancelSent' \in BOOLEAN,
         closing' \in {"no", "forced", "checked"}, closing # "no" => closing' # "no"
  PROVE  IInv'
<1>1. TypeOK'
  BY DEF IInv, TypeOK
<1>2. OneSendOutstanding' /\ StreamInOrder' /\ QueueOK' /\ RingOK' /\ CompletionOK' /\ QuietOK'
  BY DEF IInv, OneSendOutstanding, StreamInOrder, QueueOK, RingOK, CompletionOK, QuietOK
<1>3. FailedOK'
  BY DEF IInv, FailedOK
<1>4. QED
  BY <1>1, <1>2, <1>3 DEF IInv

(* So does a step that flushes what SSL produced. *)
LEMMA DataFlushed ==
  ASSUME IInv, NEW n \in 0 .. MaxRecord, written + n <= MaxWritten,
         written' = written + n, FlushTLSWriteBuffer(written + n),
         handshaking' \in BOOLEAN,
         closing' \in {"no", "forced", "checked"}, closing # "no" => closing' # "no",
         UNCHANGED <<canceling, cancelSent, cq, wire, sendFailed>>
  PROVE  IInv'
<1>0. /\ written \in 0 .. MaxWritten /\ flushed \in 0 .. written
      /\ written' \in 0 .. MaxWritten /\ written + n \in flushed .. MaxWritten
  BY SendAssumption DEF IInv, TypeOK
<1>1. Data' /\ flushed' \in flushed .. written + n
  BY <1>0, Flush
<1>2. TypeOK'
  <2>1. /\ flushed' \in 0 .. written'
        /\ SendCount' \in 0 .. Uint16 - 1
    BY <1>0, <1>1 DEF Data, Uint16
  <2>2. isSending' \in BOOLEAN
    BY DEF IInv, TypeOK, FlushTLSWriteBuffer
  <2>3. QED
    BY <1>0, <1>1, <2>1, <2>2 DEF IInv, TypeOK, Data
<1>3. StreamInOrder'
  BY DEF IInv, StreamInOrder
<1>4. FailedOK'
  BY <1>1 DEF IInv, FailedOK, Data
<1>5. QED
  BY <1>1, <1>2, <1>3, <1>4 DEF IInv, Data

(* Two counts that add up to at most one. *)
LEMMA OneOfTwo ==
  ASSUME NEW m \in Nat, NEW n \in Nat, m + n <= 1, m # 0
  PROVE  m = 1 /\ n = 0
OBVIOUS

(* One send is outstanding, either in the ring or as a completion. *)
LEMMA OneInRing ==
  ASSUME IInv, ring # <<>>
  PROVE  SendCount = 1 /\ Len(ring) = 1 /\ Tail(ring) = <<>> /\ cq = <<>>
<1>1. ring \in Seq(Requests) /\ cq \in Seq(Int)
  BY DEF IInv, TypeOK
<1>2. Len(ring) \in Nat /\ Len(cq) \in Nat /\ Len(ring) # 0
  BY <1>1, EmptySeq
<1>3. SendCount = Len(ring) + Len(cq) /\ Len(ring) + Len(cq) <= 1
  BY DEF IInv, OneSendOutstanding
<1>4. Len(ring) = 1 /\ Len(cq) = 0
  BY <1>2, <1>3, OneOfTwo
<1>5. SendCount = 1
  BY <1>3, <1>4
<1>6. cq = <<>>
  BY <1>1, <1>4, EmptySeq
<1>7. Tail(ring) = <<>>
  <2>1. Tail(ring) \in Seq(Requests) /\ Len(Tail(ring)) = 0
    BY <1>1, <1>4
  <2>2. QED
    BY <2>1, EmptySeq
<1>8. QED
  BY <1>4, <1>5, <1>6, <1>7

(* ... and the other way round. *)
LEMMA OneInCq ==
  ASSUME IInv, cq # <<>>
  PROVE  SendCount = 1 /\ Len(cq) = 1 /\ Tail(cq) = <<>> /\ Head(cq) = cq[1] /\ ring = <<>>
<1>1. ring \in Seq(Requests) /\ cq \in Seq(Int)
  BY DEF IInv, TypeOK
<1>2. Len(ring) \in Nat /\ Len(cq) \in Nat /\ Len(cq) # 0
  BY <1>1, EmptySeq
<1>3. SendCount = Len(ring) + Len(cq) /\ Len(ring) + Len(cq) <= 1
  BY DEF IInv, OneSendOutstanding
<1>4. Len(cq) = 1 /\ Len(ring) = 0
  <2>1. Len(cq) + Len(ring) <= 1
    BY <1>2, <1>3
  <2>2. QED
    BY <1>2, <2>1, OneOfTwo
<1>5. SendCount = 1
  BY <1>3, <1>4
<1>6. ring = <<>>
  BY <1>1, <1>4, EmptySeq
<1>7. Tail(cq) = <<>> /\ Head(cq) = cq[1]
  <2>1. Tail(cq) \in Seq(Int) /\ Len(Tail(cq)) = 0
    BY <1>1, <1>4
  <2>2. Tail(cq) = <<>>
    BY <2>1, EmptySeq
  <2>3. QED
    BY <1>1, <2>2
<1>8. QED
  BY <1>4, <1>5, <1>6, <1>7

(* The kernel transfers a prefix of the front buffer. *)
LEMMA KernelSendInv == IInv /\ KernelSend => IInv'
<1> SUFFICES ASSUME IInv, KernelSend PROVE IInv'
  OBVIOUS
<1>0. /\ ring \in Seq(Requests) /\ cq \in Seq(Int) /\ wire \in Seq(Nat)
      /\ Len(ring) \in Nat \ {0} /\ Len(cq) \in Nat /\ Len(wire) \in Nat
      /\ Head(ring) = ring[1]
  BY EmptySeq DEF IInv, TypeOK, KernelSend
<1>1. SendCount = 1 /\ Len(ring) = 1 /\ Len(cq) = 0
  BY OneInRing DEF KernelSend
<1>2. cq = <<>> /\ ring' = <<>>
  BY OneInRing DEF KernelSend
<1>3. /\ sendQueue # <<>>
      /\ ring[1].from = sendQueue[1].from /\ ring[1].to = sendQueue[1].to
      /\ Len(wire) = sendQueue[1].from - 1
  BY DEF IInv, RingOK, KernelSend
<1>4. sendQueue[1].from \in 1 .. MaxWritten /\ sendQueue[1].to \in 1 .. MaxWritten
  <2>1. sendQueue \in Seq(Buffers) /\ 1 \in 1 .. Len(sendQueue)
    BY <1>3, EmptySeq DEF IInv, TypeOK
  <2>2. QED
    BY <2>1, BufferBounds
<1>5. PICK n \in 1 .. sendQueue[1].to - sendQueue[1].from + 1 :
        /\ wire' = wire \o [i \in 1 .. n |-> sendQueue[1].from + i - 1]
        /\ cq' = Append(cq, n)
  BY <1>0, <1>3 DEF KernelSend
<1>6. n \in Nat \ {0}
  BY <1>4
<1>7. cq' \in Seq(Int) /\ Len(cq') = 1 /\ cq'[1] = n
  BY <1>2, <1>5, <1>6
<1>8. /\ wire' \in Seq(Nat)
      /\ Len(wire') = Len(wire) + n
      /\ \A i \in 1 .. Len(wire') : wire'[i] = i
  <2> DEFINE w == [i \in 1 .. n |-> sendQueue[1].from + i - 1]
  <2>1. w \in Seq(Nat) /\ Len(w) = n /\ \A i \in 1 .. n : w[i] = Len(wire) + i
    <3>1. w \in [1 .. n -> Nat]
      BY <1>4, <1>6
    <3>2. \A i \in 1 .. n : w[i] = Len(wire) + i
      <4> SUFFICES ASSUME NEW i \in 1 .. n PROVE w[i] = Len(wire) + i
        OBVIOUS
      <4>1. w[i] = sendQueue[1].from + i - 1
        OBVIOUS
      <4> HIDE DEF w
      <4>2. i \in Nat /\ sendQueue[1].from \in Nat
        BY <1>4, <1>6
      <4>3. QED
        BY <1>3, <4>1, <4>2
    <3> HIDE DEF w
    <3>3. w \in Seq(Nat)
      BY <1>6, <3>1, SeqDef
    <3>4. DOMAIN w = 1 .. Len(w) /\ Len(w) \in Nat /\ DOMAIN w = 1 .. n
      BY <3>1, <3>3, LenProperties
    <3>5. Len(w) = n
      BY <1>6, <3>4
    <3>6. QED
      BY <3>2, <3>3, <3>5
  <2> HIDE DEF w
  <2>2. /\ wire \o w \in Seq(Nat)
        /\ Len(wire \o w) = Len(wire) + n
        /\ \A i \in 1 .. Len(wire) + n :
             (wire \o w)[i] = IF i <= Len(wire) THEN wire[i] ELSE w[i - Len(wire)]
    BY <1>0, <2>1, ConcatProperties
  <2>3. \A i \in 1 .. Len(wire) + n : (wire \o w)[i] = i
    <3> SUFFICES ASSUME NEW i \in 1 .. Len(wire) + n PROVE (wire \o w)[i] = i
      OBVIOUS
    <3>1. CASE i <= Len(wire)
      BY <1>0, <2>2, <3>1 DEF IInv, StreamInOrder
    <3>2. CASE i > Len(wire)
      <4>1. i - Len(wire) \in 1 .. n
        BY <1>0, <1>6, <3>2
      <4>2. QED
        BY <1>0, <1>6, <2>1, <2>2, <3>2, <4>1
    <3>3. i <= Len(wire) \/ i > Len(wire)
      BY <1>0, <1>6
    <3>4. QED
      BY <3>1, <3>2, <3>3
  <2>4. wire' = wire \o w
    BY <1>5 DEF w
  <2>5. QED
    BY <2>2, <2>3, <2>4
<1>9. UNCHANGED <<handshaking, written, flushed, sendQueue, SendCount, isSending, canceling,
                  closing, cancelSent, sendFailed>>
  BY DEF KernelSend
<1>10. ~ sendFailed
  BY DEF IInv, FailedOK, KernelSend
<1>11. TypeOK'
  BY <1>2, <1>7, <1>8, <1>9 DEF IInv, TypeOK
<1>12. OneSendOutstanding' /\ StreamInOrder' /\ QueueOK'
  BY <1>1, <1>2, <1>7, <1>8, <1>9 DEF IInv, OneSendOutstanding, StreamInOrder, QueueOK
<1>13. RingOK' /\ QuietOK' /\ FailedOK'
  BY <1>1, <1>2, <1>9, <1>10 DEF RingOK, QuietOK, FailedOK
<1>14. CompletionOK'
  BY <1>3, <1>4, <1>6, <1>7, <1>8, <1>9 DEF CompletionOK
<1>15. QED
  BY <1>11, <1>12, <1>13, <1>14 DEF IInv

(* The kernel fails the send. *)
LEMMA KernelSendErrorInv == IInv /\ KernelSendError => IInv'
<1> SUFFICES ASSUME IInv, KernelSendError PROVE IInv'
  OBVIOUS
<1>0. /\ ring \in Seq(Requests) /\ cq \in Seq(Int)
      /\ Len(ring) \in Nat \ {0} /\ Len(cq) \in Nat
  BY EmptySeq DEF IInv, TypeOK, KernelSendError
<1>1. SendCount = 1 /\ Len(ring) = 1 /\ Len(cq) = 0
  BY OneInRing DEF KernelSendError
<1>2. cq = <<>> /\ ring' = <<>>
  BY OneInRing DEF KernelSendError
<1>3. cq' \in Seq(Int) /\ Len(cq') = 1 /\ cq'[1] = - 1
  BY <1>2 DEF KernelSendError, Error
<1>4. /\ sendFailed' = TRUE
      /\ UNCHANGED <<handshaking, written, flushed, sendQueue, SendCount, isSending, canceling,
                      closing, cancelSent, wire>>
  BY DEF KernelSendError
<1>5. sendQueue # <<>>
  BY DEF IInv, RingOK, KernelSendError
<1>6. TypeOK'
  BY <1>2, <1>3, <1>4 DEF IInv, TypeOK
<1>7. OneSendOutstanding' /\ StreamInOrder' /\ QueueOK'
  BY <1>1, <1>2, <1>3, <1>4 DEF IInv, OneSendOutstanding, StreamInOrder, QueueOK
<1>8. RingOK' /\ CompletionOK' /\ QuietOK' /\ FailedOK'
  BY <1>1, <1>2, <1>3, <1>4, <1>5 DEF RingOK, CompletionOK, QuietOK, FailedOK
<1>9. QED
  BY <1>6, <1>7, <1>8 DEF IInv

(* OnSend goes on with the queue. *)
LEMMA OnSendInv == IInv /\ OnSend => IInv'
<1> SUFFICES ASSUME IInv, OnSend PROVE IInv'
  OBVIOUS
<1> DEFINE queue == AfterRead(sendQueue, cq[1])
<1>0. /\ cq # <<>> /\ SendCount = 1 /\ Len(cq) = 1 /\ Tail(cq) = <<>> /\ Head(cq) = cq[1]
      /\ ring = <<>>
  BY OneInCq DEF OnSend
<1>1. cq[1] > 0 /\ sendQueue # <<>> /\ isSending
  BY <1>0 DEF OnSend, IInv, CompletionOK, QueueOK
<1>2. /\ queue \in Seq(Buffers)
      /\ Chain(queue, flushed)
      /\ queue = <<>> => Len(wire) = flushed
      /\ queue # <<>> => queue[1].from = Len(wire) + 1
  BY <1>0, <1>1, Read
<1> HIDE DEF queue
<1>3. /\ sendQueue' = queue
      /\ isSending' = (isSending /\ (queue # <<>> \/ sendQueue = <<>>))
      /\ SendInternal(queue, (SendCount - 1) % Uint16)
      /\ Close(TRUE, isSending', SendCount')
      /\ cq' = <<>>
      /\ UNCHANGED <<handshaking, written, flushed, canceling, cancelSent, wire, sendFailed>>
  BY <1>0 DEF OnSend, queue
<1>4. SendInternal(queue, 0)
  BY <1>0, <1>3, Count
<1>5. isSending' \in BOOLEAN /\ (isSending' <=> queue # <<>>)
  BY <1>1, <1>3
<1>6. ~ sendFailed
  <2>1. ~ (cq[1] <= 0)
    <3>1. cq[1] \in Int
      BY <1>0 DEF IInv, TypeOK
    <3>2. QED
      BY <1>1, <3>1
  <2>2. QED
    BY <1>0, <2>1 DEF IInv, FailedOK
<1>7. closing' \in {"no", "forced", "checked"}
  <2>1. closing \in {"no", "forced", "checked"}
    BY DEF IInv, TypeOK
  <2>2. QED
    BY <1>3, <2>1, Closers
<1>8. ring' \in Seq(Requests) /\ SendCount' \in 0 .. 1 /\ SendCount' = Len(ring') + Len(cq')
  <2>1. CASE queue = <<>>
    BY <1>0, <1>3, <1>4, <2>1 DEF SendInternal
  <2>2. CASE queue # <<>>
    <3>1. SendCount' = 1 /\ ring' \in Seq(Requests) /\ Len(ring') = 1
      BY <1>0, <1>2, <1>4, <2>2, Submit
    <3>2. QED
      BY <1>3, <3>1
  <2>3. QED
    BY <2>1, <2>2
<1>9. TypeOK'
  <2>1. SendCount' \in 0 .. Uint16 - 1
    BY <1>8 DEF Uint16
  <2>2. cq' \in Seq(Int)
    BY <1>3
  <2>3. QED
    BY <1>2, <1>3, <1>5, <1>7, <1>8, <2>1, <2>2 DEF IInv, TypeOK
<1>10. OneSendOutstanding'
  BY <1>8 DEF OneSendOutstanding
<1>11. StreamInOrder' /\ QueueOK' /\ CompletionOK' /\ FailedOK'
  BY <1>2, <1>3, <1>5, <1>6 DEF IInv, StreamInOrder, QueueOK, CompletionOK, FailedOK
<1>12. RingOK' /\ QuietOK'
  <2>0. Len(wire) \in Nat
    BY DEF IInv, TypeOK
  <2>1. CASE queue = <<>>
    BY <1>0, <1>2, <1>3, <1>4, <2>1 DEF SendInternal, RingOK, QuietOK
  <2>2. CASE queue # <<>>
    <3>1. /\ SendCount' = 1
          /\ ring'[1].from = queue[1].from /\ ring'[1].to = queue[1].to
      BY <1>0, <1>2, <1>4, <2>2, Submit
    <3>2. QED
      BY <1>2, <1>3, <2>0, <2>2, <3>1 DEF RingOK, QuietOK
  <2>3. QED
    BY <2>1, <2>2
<1>13. QED
  BY <1>9, <1>10, <1>11, <1>12 DEF IInv

(* After a failed send nothing is outstanding and the session closes. *)
LEMMA OnSendErrorInv == IInv /\ OnSendError => IInv'
<1> SUFFICES ASSUME IInv, OnSendError PROVE IInv'
  OBVIOUS
<1>0. /\ cq # <<>> /\ SendCount = 1 /\ Len(cq) = 1 /\ Tail(cq) = <<>> /\ Head(cq) = cq[1]
      /\ ring = <<>>
  BY OneInCq DEF OnSendError
<1>1. /\ SendCount' = 0
      /\ cq' = <<>>
      /\ Close(FALSE, isSending, SendCount)
      /\ UNCHANGED <<handshaking, written, flushed, sendQueue, isSending, canceling, cancelSent,
                      ring, wire, sendFailed>>
  BY <1>0, Count DEF OnSendError
<1>2. sendFailed
  <2>1. cq[1] \in Int /\ cq[1] <= 0
    BY <1>0 DEF OnSendError, IInv, TypeOK
  <2>2. ~ (cq[1] > 0)
    BY <2>1
  <2>3. QED
    BY <1>0, <2>2 DEF IInv, CompletionOK
<1>3. closing' \in {"no", "forced", "checked"} /\ closing' # "no"
  <2>1. closing \in {"no", "forced", "checked"}
    BY DEF IInv, TypeOK
  <2>2. QED
    BY <1>1, <2>1, Closers
<1>4. TypeOK'
  <2>1. SendCount' \in 0 .. Uint16 - 1 /\ cq' \in Seq(Int)
    BY <1>1 DEF Uint16
  <2>2. QED
    BY <1>1, <1>3, <2>1 DEF IInv, TypeOK
<1>5. OneSendOutstanding' /\ StreamInOrder' /\ QueueOK'
  BY <1>0, <1>1 DEF IInv, OneSendOutstanding, StreamInOrder, QueueOK
<1>6. RingOK' /\ CompletionOK' /\ QuietOK' /\ FailedOK'
  BY <1>0, <1>1, <1>2, <1>3 DEF IInv, RingOK, CompletionOK, QuietOK, FailedOK
<1>7. QED
  BY <1>4, <1>5, <1>6 DEF IInv

(* Every step keeps the invariant. *)
LEMMA NextInv == IInv /\ [Next]_vars => IInv'
<1> SUFFICES ASSUME IInv, [Next]_vars PROVE IInv'
  OBVIOUS
<1>0. closing \in {"no", "forced", "checked"} /\ handshaking \in BOOLEAN
      /\ canceling \in BOOLEAN /\ cancelSent \in BOOLEAN
  BY DEF IInv, TypeOK
<1>1. ASSUME NEW n \in 0 .. MaxRecord, TLSHandshake(n) PROVE IInv'
  <2>1. /\ handshaking' \in BOOLEAN
        /\ closing' \in {"no", "forced", "checked"}
        /\ closing # "no" => closing' # "no"
    BY <1>0, <1>1, Closers DEF TLSHandshake
  <2>2. QED
    BY <1>1, <2>1, DataFlushed DEF TLSHandshake
<1>2. ASSUME NEW n \in 0 .. MaxRecord, Send(n) PROVE IInv'
  BY <1>0, <1>2, DataFlushed DEF Send
<1>3. CASE SendFails
  BY <1>0, <1>3, Closers, DataUnmoved DEF SendFails
<1>4. CASE OnRecvError
  BY <1>0, <1>4, Closers, DataUnmoved DEF OnRecvError
<1>5. CASE StartClose
  BY <1>0, <1>5, DataUnmoved DEF StartClose
<1>6. CASE OnRecvCancel
  BY <1>0, <1>6, Closers, DataUnmoved DEF OnRecvCancel
<1>7. CASE UNCHANGED vars
  BY <1>0, <1>7, DataUnmoved DEF vars
<1>8. QED
  BY <1>1, <1>2, <1>3, <1>4, <1>5, <1>6, <1>7,
     KernelSendInv, KernelSendErrorInv, OnSendInv, OnSendErrorInv DEF Next

(* IInv holds of every behaviour. *)
THEOREM Invariance == Safety => []IInv
  BY InitInv, NextInv, PTL DEF Safety

-------------------------------------------------------------------------------
(* The theorems.                                                           *)

(* SessionSend is type correct: in particular the number of units flushed  *)
(* stays below the number written, and buffers hold units that exist.      *)
THEOREM TypeCorrect == Safety => []TypeOK
<1>1. IInv => TypeOK
  BY DEF IInv
<1>2. QED
  BY <1>1, Invariance, PTL

(* At most one send of a session is outstanding, and SendCount counts it.  *)
THEOREM OneSend == Safety => []OneSendOutstanding
<1>1. IInv => OneSendOutstanding
  BY DEF IInv
<1>2. QED
  BY <1>1, Invariance, PTL

(* The socket carries the ciphertext in order, each unit once.             *)
THEOREM InOrder == Safety => []StreamInOrder
<1>1. IInv => StreamInOrder
  BY DEF IInv
<1>2. QED
  BY <1>1, Invariance, PTL

(* A queued buffer always has a completion to come that will send it,      *)
(* unless a send failed and the session closes.                            *)
THEOREM Unstalled == Safety => []NeverStalled
<1>1. IInv => NeverStalled
  <2> SUFFICES ASSUME IInv, sendQueue # <<>>, SendCount # 1
               PROVE  sendFailed /\ closing # "no"
    BY DEF NeverStalled
  <2>1. ring = <<>> /\ cq = <<>>
    BY OneInRing, OneInCq
  <2>2. SendCount = 0
    BY <2>1 DEF IInv, OneSendOutstanding
  <2>3. sendFailed
    BY <2>2 DEF IInv, QuietOK
  <2>4. QED
    BY <2>1, <2>3 DEF IInv, FailedOK
<1>2. QED
  BY <1>1, Invariance, PTL

(* After a failed send the session puts nothing more on the socket: the    *)
(* one action that does needs a request in the ring.                       *)
THEOREM Quiet == Safety => QuietAfterFailure
<1>1. IInv /\ [Next]_vars => [sendFailed => wire' = wire]_vars
  <2> SUFFICES ASSUME IInv, Next, sendFailed PROVE wire' = wire
    OBVIOUS
  <2>1. ~ KernelSend
    BY DEF IInv, FailedOK, KernelSend
  <2>2. QED
    BY <2>1 DEF Next, TLSHandshake, Send, SendFails, KernelSendError, OnSend, OnSendError,
       OnRecvError, StartClose, OnRecvCancel
<1>2. QED
  BY <1>1, Invariance, PTL DEF Safety, QuietAfterFailure

(* The graceful close happens only when all that was queued is out.        *)
THEOREM GracefulClose == Safety => GracefulCloseDrains
<1>1. IInv /\ IInv' /\ [Next]_vars =>
        [closing = "no" /\ closing' = "checked" => Len(wire') = flushed']_vars
  <2> SUFFICES ASSUME IInv, IInv', Next, closing = "no", closing' = "checked"
               PROVE  Len(wire') = flushed'
    OBVIOUS
  <2>1. OnSend \/ OnRecvCancel
    BY DEF Next, TLSHandshake, Send, SendFails, KernelSend, KernelSendError, OnSendError,
       OnRecvError, StartClose, Close
  <2>2. ~ isSending' /\ ~ (SendCount' > 0)
    BY <2>1 DEF OnSend, OnRecvCancel, Close
  <2>3. sendQueue' = <<>>
    BY <2>2 DEF IInv, QueueOK
  <2>4. ~ sendFailed'
    BY <2>3 DEF IInv, FailedOK
  <2>5. SendCount' = 0
    <3>1. SendCount' \in 0 .. Uint16 - 1
      BY DEF IInv, TypeOK
    <3>2. SendCount' \in Nat
      BY <3>1 DEF Uint16
    <3>3. QED
      BY <2>2, <3>2
  <2>6. QED
    BY <2>4, <2>5 DEF IInv, QuietOK
<1>2. QED
  BY <1>1, Invariance, PTL DEF Safety, GracefulCloseDrains

(* A step of the kernel delivers the next units of the abstract stream.    *)
LEMMA Delivers == IInv /\ KernelSend => Stream!Deliver
<1> SUFFICES ASSUME IInv, KernelSend PROVE Stream!Deliver
  OBVIOUS
<1>1. /\ ring \in Seq(Requests) /\ Head(ring) = ring[1]
      /\ Len(wire) \in Nat /\ flushed \in Nat
      /\ sendQueue \in Seq(Buffers)
  BY SendAssumption, EmptySeq DEF IInv, TypeOK, KernelSend
<1>2. /\ sendQueue # <<>>
      /\ ring[1].from = sendQueue[1].from /\ ring[1].to = sendQueue[1].to
      /\ Len(wire) = sendQueue[1].from - 1
  BY DEF IInv, RingOK, KernelSend
<1>3. /\ 1 \in 1 .. Len(sendQueue)
      /\ sendQueue[1].from \in 1 .. MaxWritten /\ sendQueue[1].to \in 1 .. MaxWritten
  <2>1. 1 \in 1 .. Len(sendQueue)
    BY <1>1, <1>2, EmptySeq
  <2>2. QED
    BY <1>1, <2>1, BufferBounds
<1>4. sendQueue[1].to <= flushed
  BY <1>3 DEF IInv, QueueOK, Chain
<1>5. PICK n \in 1 .. sendQueue[1].to - sendQueue[1].from + 1 :
        wire' = wire \o [i \in 1 .. n |-> sendQueue[1].from + i - 1]
  BY <1>1, <1>2 DEF KernelSend
<1>6. n \in 1 .. flushed - Len(wire)
  BY <1>1, <1>2, <1>3, <1>4
<1>7. [i \in 1 .. n |-> sendQueue[1].from + i - 1] = [i \in 1 .. n |-> Len(wire) + i]
  <2>1. \A i \in 1 .. n : sendQueue[1].from + i - 1 = Len(wire) + i
    <3>1. n \in Nat /\ sendQueue[1].from \in Nat
      BY <1>1, <1>3, <1>6
    <3>2. \A i \in 1 .. n : i \in Nat
      BY <3>1
    <3>3. QED
      BY <1>2, <3>1, <3>2
  <2>2. QED
    BY <2>1
<1>8. wire' = wire \o Stream!NextUnits(n)
  BY <1>5, <1>7 DEF Stream!NextUnits
<1>9. ~ sendFailed
  BY DEF IInv, FailedOK, KernelSend
<1>10. UNCHANGED <<flushed, closing, sendFailed>>
  BY DEF KernelSend
<1>11. QED
  BY <1>6, <1>8, <1>9, <1>10 DEF Stream!Deliver

(* The session implements the abstract byte stream.                        *)
THEOREM Refinement == Safety => ImplementsStream
<1>1. Init => Stream!Init
  BY DEF Init, Stream!Init
<1>2. IInv /\ IInv' /\ [Next]_vars => [Stream!Next]_Stream!vars
  <2> SUFFICES ASSUME IInv, IInv', [Next]_vars PROVE [Stream!Next]_Stream!vars
    OBVIOUS
  <2>0. /\ closing \in {"no", "forced", "checked"}
        /\ MaxWritten \in Nat
        /\ written \in 0 .. MaxWritten /\ flushed \in 0 .. written
    BY SendAssumption DEF IInv, TypeOK
  <2>1. ASSUME NEW n \in 0 .. MaxRecord, TLSHandshake(n) \/ Send(n) PROVE Stream!Accept
    <3>1. /\ written + n <= MaxWritten
          /\ FlushTLSWriteBuffer(written + n)
          /\ UNCHANGED <<cq, wire, sendFailed>>
      BY <2>1 DEF TLSHandshake, Send
    <3>2. written + n \in flushed .. MaxWritten
      BY <2>0, <3>1, SendAssumption
    <3>3. flushed' \in flushed .. written + n
      BY <3>1, <3>2, Flush
    <3>4. flushed' \in flushed .. MaxWritten
      BY <2>0, <3>2, <3>3
    <3>5. closing # "no" => closing' # "no"
      BY <2>0, <2>1, Closers DEF TLSHandshake, Send
    <3>6. (closing' # "no") \in {closing # "no", TRUE}
      BY <3>5
    <3>7. QED
      BY <3>1, <3>4, <3>6 DEF Stream!Accept
  <2>2. CASE SendFails \/ OnRecvError \/ OnSendError
    <3>1. closing' # "no" /\ UNCHANGED <<flushed, wire, sendFailed>>
      BY <2>0, <2>2, Closers DEF SendFails, OnRecvError, OnSendError
    <3>2. QED
      BY <3>1 DEF Stream!Next, Stream!End
  <2>3. CASE OnSend \/ OnRecvCancel
    <3>1. closing # "no" => closing' = closing
      BY <2>0, <2>3, Closers DEF OnSend, OnRecvCancel
    <3>2. UNCHANGED <<flushed, wire, sendFailed>>
      BY <2>3 DEF OnSend, OnRecvCancel
    <3>3. CASE closing' = closing
      BY <3>2, <3>3 DEF Stream!vars
    <3>4. CASE closing' # closing
      <4>1. closing' # "no"
        BY <3>1, <3>4
      <4>2. QED
        BY <3>2, <4>1 DEF Stream!Next, Stream!End
    <3>5. QED
      BY <3>3, <3>4
  <2>4. CASE KernelSend
    BY <2>4, Delivers DEF Stream!Next
  <2>5. CASE KernelSendError
    BY <2>5 DEF KernelSendError, Stream!Next, Stream!Break
  <2>6. CASE StartClose \/ UNCHANGED vars
    BY <2>6 DEF StartClose, vars, Stream!vars
  <2>7. QED
    BY <2>1, <2>2, <2>3, <2>4, <2>5, <2>6 DEF Next, Stream!Next
<1>3. QED
  BY <1>1, <1>2, Invariance, PTL DEF Safety, ImplementsStream, Stream!Safety
===============================================================================
