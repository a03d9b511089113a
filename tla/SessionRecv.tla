------------------------------ MODULE SessionRecv ------------------------------
(***************************************************************************)
(* The incoming half of the Sessions of one Worker (Session.cpp, TLS.cpp,  *)
(* Buffer.cpp, Worker.cpp), on the worker's thread.  The kernel takes a    *)
(* buffer from the ring that all sessions of the worker share and fills    *)
(* it; OnRecv hands the ciphertext to OpenSSL, puts the decrypted text     *)
(* back into the buffer, handles the packets that are complete, and either *)
(* returns the buffer to the ring or keeps it as _pendingRecvBufId, with   *)
(* the packet that was cut.                                                *)
(*                                                                         *)
(* A peer's stream is a sequence of numbered units: the handshake, then    *)
(* packets of two units of length prefix and a body.                       *)
(***************************************************************************)
EXTENDS Integers, Sequences, FiniteSets, FiniteSetsExt

CONSTANTS
  Sessions,     \* connections the worker was given
  BufCount,     \* buffers in the ring (128 in the code)
  TextSize,     \* text that one GetRecvText can return (4096 bytes)
  Handshake,    \* units of the peer's side of the handshake
  MaxUnits,     \* bound: units in a stream
  Streams,      \* the streams a session's peer may send, as sets of last units
  Garbage       \* what an uninitialised _pendingRecvBufId may hold

ASSUME RecvAssumption ==
  /\ BufCount \in Nat \ {0}
  /\ TextSize \in Nat \ {0}
  /\ Handshake \in Nat \ {0}
  /\ MaxUnits \in Nat
  /\ Garbage \subseteq Int
  /\ \A s \in Sessions : \A C \in Streams[s] :
       /\ C \subseteq Handshake + 2 .. MaxUnits /\ C # {}
       /\ \A c, d \in C : c < d => d - c >= 2

BufIds == 0 .. BufCount - 1
NoBuf  == -1
Units  == 1 .. MaxUnits
Text   == [session : Sessions, from : Units, to : 0 .. MaxUnits]

(* Completions of the multishot receive: data in a buffer, or its end.     *)
Cqes == [session : Sessions, buf : BufIds, units : Units]
        \cup [session : Sessions, buf : {NoBuf}, units : {0}]

VARIABLES
  cuts,         \* the last units of the packets of a stream
  armed,        \* the multishot receive is armed
  handshaking,  \* TLS::handshaking
  received,     \* units 1 .. received were put into buffers
  bio,          \* units 1 .. bio were written to the read BIO
  ready,        \* units up to ready have been decrypted: whole TLS records
  read,         \* units up to read were returned by SSL_read, or are handshake
  pending,      \* _pendingRecvBufId
  closing,      \* closing
  alive,        \* the Session exists
  text,         \* what a buffer that holds a cut packet holds
  bufRing,      \* buffers provided to the kernel, next one first
  cq,           \* completions the worker has not handled
  handled,      \* packets given to HandlePacket: <<first unit, last unit>>
  undefined     \* "no"; "survived" or "crashed" after an append to a buffer that
                \* does not hold the session's cut packet

tlsVars == <<handshaking, bio, ready, read>>
vars    == <<cuts, armed, received, tlsVars, pending, closing, alive, text, bufRing, cq, handled,
             undefined>>

Last(s) == Max(cuts[s])    \* the last unit of the stream

TypeOK ==
  /\ cuts \in [Sessions -> SUBSET Units]
  /\ armed \in [Sessions -> BOOLEAN]
  /\ handshaking \in [Sessions -> BOOLEAN]
  /\ \A s \in Sessions :
       /\ received[s] \in 0 .. Last(s) /\ bio[s] \in 0 .. received[s]
       /\ ready[s] \in Handshake .. Last(s) /\ read[s] \in Handshake .. ready[s]
  /\ pending \in [Sessions -> BufIds \cup {NoBuf} \cup Garbage]
  /\ closing \in [Sessions -> BOOLEAN]
  /\ alive \in [Sessions -> BOOLEAN]
  /\ \A b \in BufIds : text[b] = <<>> \/ text[b] \in Text
  /\ bufRing \in Seq(BufIds)
  /\ cq \in Seq(Cqes)
  /\ handled \in [Sessions -> Seq(Units \X Units)]
  /\ undefined \in {"no", "survived", "crashed"}

(* Worker::RegisterBufRing provides every buffer; a Session is constructed *)
(* and StartRecv arms its receive.                                         *)
Init ==
  /\ cuts \in {C \in [Sessions -> SUBSET Units] : \A s \in Sessions : C[s] \in Streams[s]}
  /\ armed = [s \in Sessions |-> TRUE]
  /\ received = [s \in Sessions |-> 0]
  /\ bio = [s \in Sessions |-> 0]
  /\ handshaking = [s \in Sessions |-> TRUE]
  /\ ready = [s \in Sessions |-> Handshake]
  /\ read = [s \in Sessions |-> Handshake]
  /\ pending \in [Sessions -> Garbage]
  /\ closing = [s \in Sessions |-> FALSE]
  /\ alive = [s \in Sessions |-> TRUE]
  /\ text = [b \in BufIds |-> <<>>]
  /\ bufRing = [i \in 1 .. BufCount |-> i - 1]
  /\ cq = <<>>
  /\ handled = [s \in Sessions |-> <<>>]
  /\ undefined = "no"

-------------------------------------------------------------------------------
(* The kernel and the peer.                                                *)

(* A multishot receive puts what has arrived into the next buffer. *)
KernelRecv(s) ==
  /\ armed[s]
  /\ bufRing # <<>>
  /\ \E n \in 1 .. Last(s) - received[s] :
       /\ received' = [received EXCEPT ![s] = @ + n]
       /\ cq' = Append(cq, [session |-> s, buf |-> Head(bufRing), units |-> n])
  /\ bufRing' = Tail(bufRing)
  /\ UNCHANGED <<cuts, armed, tlsVars, pending, closing, alive, text, handled, undefined>>

(* It ends: the peer has gone, or no buffer is left for what has arrived. *)
KernelRecvEnds(s) ==
  /\ armed[s]
  /\ armed' = [armed EXCEPT ![s] = FALSE]
  /\ cq' = Append(cq, [session |-> s, buf |-> NoBuf, units |-> 0])
  /\ UNCHANGED <<cuts, received, tlsVars, pending, closing, alive, text, bufRing, handled,
                 undefined>>

-------------------------------------------------------------------------------
(* Operators named Faulty... are variants of the operator that follows them *)
(* with a plausible defect; no specification uses them.                    *)

(* io_uring_buf_ring_add and io_uring_buf_ring_advance *)
Provide(bufs) == bufRing' = bufRing \o bufs

(* The end of the packet at unit i, which its length prefix tells. *)
PacketEnd(s, i) == Min({c \in cuts[s] : c >= i + 1})

FaultyPackets(s, from, to) ==    \* one packet per call
  IF from + 1 > to \/ PacketEnd(s, from) > to THEN <<>> ELSE << <<from, PacketEnd(s, from)>> >>

(* Session::ProcessPacket, its loop: the packets that lie within a buffer  *)
(* that holds the units from .. to.                                        *)
Packets(s, from, to) ==
  LET loop[i \in from .. to + 1] ==
        IF i + 1 > to THEN <<>>                          \* no length prefix
        ELSE IF PacketEnd(s, i) > to THEN <<>>           \* incomplete packet
        ELSE << <<i, PacketEnd(s, i)>> >> \o loop[PacketEnd(s, i) + 1]
  IN  loop[from]

FaultyRest(from, packets) == from    \* what was handled stays in the buffer

(* ... and PreserveFrom: the first unit that was not handled. *)
Rest(from, packets) == IF packets = <<>> THEN from ELSE packets[Len(packets)][2] + 1

FaultyGetRecvText(s, decrypted) == TextSize    \* a short read is not noticed

(* TLS::GetRecvText: SSL_read until there is no more, or the buffer is full. *)
GetRecvText(s, decrypted) ==
  IF decrypted - read[s] < TextSize THEN decrypted - read[s] ELSE TextSize

(* The completion at hand is for session s and has data. *)
Handles(s) ==
  /\ undefined = "no"
  /\ cq # <<>>
  /\ s = Head(cq).session
  /\ alive[s]
  /\ cq' = Tail(cq)

Data == cq # <<>> /\ Head(cq).buf # NoBuf
Buf  == Head(cq).buf
InBio(s) == bio[s] + Head(cq).units

(* Session::OnRecv with cqe.res <= 0. *)
OnRecvEnd(s) ==
  /\ ~ Data
  /\ Handles(s)
  /\ closing' = [closing EXCEPT ![s] = TRUE]
  /\ UNCHANGED <<cuts, armed, received, tlsVars, pending, alive, text, bufRing, handled,
                 undefined>>

(* BIO_write fails: the session is closed, the buffer is not returned. *)
OnRecvBioFails(s) ==
  /\ Data
  /\ Handles(s)
  /\ closing' = [closing EXCEPT ![s] = TRUE]
  /\ UNCHANGED <<cuts, armed, received, tlsVars, pending, alive, text, bufRing, handled,
                 undefined>>

(* TLSHandshake needs more or has failed: the buffer goes back. *)
OnRecvHandshake(s) ==
  /\ Data
  /\ Handles(s)
  /\ handshaking[s]
  /\ bio' = [bio EXCEPT ![s] = InBio(s)]
  /\ \/ InBio(s) < Handshake /\ UNCHANGED closing
     \/ closing' = [closing EXCEPT ![s] = TRUE]
  /\ Provide(<<Buf>>)
  /\ UNCHANGED <<cuts, armed, received, handshaking, ready, read, pending, alive, text, handled,
                 undefined>>

(* Otherwise the text of the whole records that are in is decrypted; some  *)
(* of it is returned.  If that does not fill the text buffer, SSL_read was *)
(* called once more and may have reported an error.                        *)
Decrypts(s, decrypted) ==
  /\ Data
  /\ Handles(s)
  /\ InBio(s) >= Handshake
  /\ decrypted \in ready[s] .. InBio(s)
  /\ InBio(s) = Last(s) => decrypted = Last(s)
  /\ handshaking' = [handshaking EXCEPT ![s] = FALSE]
  /\ bio' = [bio EXCEPT ![s] = InBio(s)]
  /\ ready' = [ready EXCEPT ![s] = decrypted]
  /\ read' = [read EXCEPT ![s] = @ + GetRecvText(s, decrypted)]
  /\ \/ UNCHANGED closing
     \/ GetRecvText(s, decrypted) < TextSize /\ closing' = [closing EXCEPT ![s] = TRUE]
  /\ UNCHANGED <<cuts, armed, received, alive>>

(* No text came: the buffer is neither returned nor kept. *)
OnRecvNoText(s) ==
  \E decrypted \in Units :
    /\ Decrypts(s, decrypted)
    /\ GetRecvText(s, decrypted) <= 0
    /\ UNCHANGED <<pending, text, bufRing, handled, undefined>>

(* Nothing is pending: the buffer returns, or is kept with a cut packet. *)
OnRecvText(s) ==
  \E decrypted \in Units :
    LET from    == read[s] + 1
        to      == read[s] + GetRecvText(s, decrypted)
        packets == Packets(s, from, to)
        rest    == Rest(from, packets)
    IN
    /\ Decrypts(s, decrypted)
    /\ to >= from
    /\ pending[s] = NoBuf
    /\ handled' = [handled EXCEPT ![s] = @ \o packets]
    /\ IF rest > to
       THEN Provide(<<Buf>>) /\ UNCHANGED <<pending, text>>
       ELSE /\ pending' = [pending EXCEPT ![s] = Buf]
            /\ text' = [text EXCEPT ![Buf] = [session |-> s, from |-> rest, to |-> to]]
            /\ UNCHANGED bufRing
    /\ UNCHANGED undefined

HoldsCutPacket(s) ==
  pending[s] \in BufIds /\ text[pending[s]] # <<>> /\ text[pending[s]].session = s

FaultyOnRecvAppends(s) ==    \* the pending buffer is not returned
  \E decrypted \in Units :
    LET cut     == text[pending[s]]
        to      == read[s] + GetRecvText(s, decrypted)
        packets == Packets(s, cut.from, to)
        rest    == Rest(cut.from, packets)
    IN
    /\ Decrypts(s, decrypted)
    /\ to > read[s]
    /\ HoldsCutPacket(s)
    /\ handled' = [handled EXCEPT ![s] = @ \o packets]
    /\ Provide(<<Buf>>)
    /\ IF rest > to
       THEN /\ pending' = [pending EXCEPT ![s] = NoBuf]
            /\ text' = [text EXCEPT ![pending[s]] = <<>>]
       ELSE /\ pending' = pending
            /\ text' = [text EXCEPT ![pending[s]] = [cut EXCEPT !.from = rest, !.to = to]]
    /\ UNCHANGED undefined

FaultyOnRecvKeepsId(s) ==    \* _pendingRecvBufId is not reset
  \E decrypted \in Units :
    LET cut     == text[pending[s]]
        to      == read[s] + GetRecvText(s, decrypted)
        packets == Packets(s, cut.from, to)
        rest    == Rest(cut.from, packets)
    IN
    /\ Decrypts(s, decrypted)
    /\ to > read[s]
    /\ HoldsCutPacket(s)
    /\ handled' = [handled EXCEPT ![s] = @ \o packets]
    /\ Provide(IF rest > to THEN <<Buf, pending[s]>> ELSE <<Buf>>)
    /\ text' = [text EXCEPT ![pending[s]] = [cut EXCEPT !.from = rest, !.to = to]]
    /\ UNCHANGED <<pending, undefined>>

(* A cut packet is pending: the text is appended to it and the buffer      *)
(* returns; the pending buffer returns when nothing is left in it.         *)
OnRecvAppends(s) ==
  \E decrypted \in Units :
    LET cut     == text[pending[s]]
        to      == read[s] + GetRecvText(s, decrypted)
        packets == Packets(s, cut.from, to)
        rest    == Rest(cut.from, packets)
    IN
    /\ Decrypts(s, decrypted)
    /\ to > read[s]
    /\ HoldsCutPacket(s)
    /\ handled' = [handled EXCEPT ![s] = @ \o packets]
    /\ IF rest > to
       THEN /\ Provide(<<Buf, pending[s]>>)
            /\ pending' = [pending EXCEPT ![s] = NoBuf]
            /\ text' = [text EXCEPT ![pending[s]] = <<>>]
       ELSE /\ Provide(<<Buf>>)
            /\ pending' = pending
            /\ text' = [text EXCEPT ![pending[s]] = [cut EXCEPT !.from = rest, !.to = to]]
    /\ UNCHANGED undefined

(* _pendingRecvBufId was never set.  If it names another buffer, the text  *)
(* is appended to what that buffer holds or is being filled with: nobody   *)
(* knows which packets ProcessPacket then finds.  The buffer is provided,  *)
(* whoever has it, or kept.                                                *)
AppendsBlindly(s) ==
  /\ pending[s] \in BufIds \ {Buf}
  /\ \/ /\ Provide(<<Buf, pending[s]>>)
        /\ pending' = [pending EXCEPT ![s] = NoBuf]
        /\ text' = [text EXCEPT ![pending[s]] = <<>>]
     \/ /\ Provide(<<Buf>>)
        /\ text' = [text EXCEPT ![pending[s]] = [session |-> s, from |-> read[s], to |-> read[s]]]
        /\ UNCHANGED pending
  /\ undefined' = "survived"

(* The buffer at hand cannot be appended to itself, since Append holds its *)
(* lock, and other ids lie beyond the pool.                                *)
AppendsNowhere(s) ==
  /\ pending[s] \notin (BufIds \ {Buf}) \cup {NoBuf}
  /\ undefined' = "crashed"
  /\ UNCHANGED <<pending, text, bufRing>>

OnRecvGarbage(s) ==
  \E decrypted \in Units :
    /\ Decrypts(s, decrypted)
    /\ GetRecvText(s, decrypted) > 0
    /\ ~ HoldsCutPacket(s)
    /\ AppendsBlindly(s) \/ AppendsNowhere(s)
    /\ UNCHANGED handled

(* From then on two receives can be in one buffer, so what is in it, and   *)
(* which way OnRecv takes, is not known; what it does with the buffers is. *)
OnRecvSurvived(s) ==
  /\ undefined = "survived"
  /\ cq # <<>> /\ s = Head(cq).session /\ alive[s]
  /\ cq' = Tail(cq)
  /\ closing' \in {closing, [closing EXCEPT ![s] = TRUE]}
  /\ \/ UNCHANGED <<pending, text, bufRing, undefined>>
     \/ Data /\ Provide(<<Buf>>) /\ UNCHANGED <<pending, text, undefined>>
     \/ /\ Data /\ pending[s] = NoBuf
        /\ pending' = [pending EXCEPT ![s] = Buf]
        /\ text' = [text EXCEPT ![Buf] = [session |-> s, from |-> read[s], to |-> read[s]]]
        /\ UNCHANGED <<bufRing, undefined>>
     \/ Data /\ (AppendsBlindly(s) \/ AppendsNowhere(s))
  /\ UNCHANGED <<cuts, armed, received, tlsVars, alive, handled>>

(* SessionManager::RemoveSession, once the close has completed.  The       *)
(* Session has no destructor that returns a pending buffer.                *)
RemoveSession(s) ==
  /\ alive[s] /\ closing[s]
  /\ alive' = [alive EXCEPT ![s] = FALSE]
  /\ UNCHANGED <<cuts, armed, received, tlsVars, pending, closing, text, bufRing, cq, handled,
                 undefined>>

(* A completion of a Session that was destroyed: nothing happens, or the   *)
(* process crashes and the behaviour ends.                                 *)
Stale ==
  /\ cq # <<>> /\ ~ alive[Head(cq).session]
  /\ cq' = Tail(cq)
  /\ UNCHANGED <<cuts, armed, received, tlsVars, pending, closing, alive, text, bufRing, handled,
                 undefined>>

OnRecv(s) ==
  \/ OnRecvEnd(s) \/ OnRecvBioFails(s) \/ OnRecvHandshake(s)
  \/ OnRecvNoText(s) \/ OnRecvText(s) \/ OnRecvAppends(s) \/ OnRecvGarbage(s)
  \/ OnRecvSurvived(s)

Next ==
  /\ undefined # "crashed"
  /\ \/ \E s \in Sessions : KernelRecv(s) \/ KernelRecvEnds(s) \/ OnRecv(s) \/ RemoveSession(s)
     \/ Stale

Safety == Init /\ [][Next]_vars

-------------------------------------------------------------------------------
(* Until a text is appended to a buffer that a garbage _pendingRecvBufId   *)
(* names, a buffer is in one place at most: once in the ring, or in one    *)
(* completion, or pending for one session.  A buffer provided twice would  *)
(* be filled with the data of two receives.                                *)
OneOwner ==
  undefined = "no" => \A b \in BufIds :
    Cardinality({i \in DOMAIN bufRing : bufRing[i] = b}) + Cardinality({i \in DOMAIN cq : cq[i].buf = b})
      + Cardinality({s \in Sessions : pending[s] = b /\ HoldsCutPacket(s)}) <= 1

(* Until then the packets given to HandlePacket are the peer's, each once  *)
(* and in order, however the stream was cut into records, receives and     *)
(* reads.                                                                  *)
PacketsInOrder ==
  undefined = "no" => \A s \in Sessions : \A i \in DOMAIN handled[s] :
    /\ handled[s][i][1] = (IF i = 1 THEN Handshake ELSE handled[s][i - 1][2]) + 1
    /\ handled[s][i][2] = Min({c \in cuts[s] : c >= handled[s][i][1]})

(* Until then every packet whose text was read has been handled: what is   *)
(* left is pending, starts with a packet and does not hold all of it.      *)
HandledTo(s) == IF handled[s] = <<>> THEN Handshake ELSE handled[s][Len(handled[s])][2]

NothingHeldBack ==
  undefined = "no" => \A s \in Sessions :
    IF HoldsCutPacket(s)
    THEN /\ text[pending[s]] = [session |-> s, from |-> HandledTo(s) + 1, to |-> read[s]]
         /\ \A c \in cuts[s] : c > HandledTo(s) => c > read[s]
    ELSE HandledTo(s) = read[s]

(* A receive that yields text loses no buffer: all buffers it works with   *)
(* are returned or kept.  (One that yields none, such as the one that ends *)
(* the handshake, loses its buffer, and so does a destroyed Session.)      *)
Lost == {b \in BufIds : /\ \A i \in DOMAIN bufRing : bufRing[i] # b
                        /\ \A i \in DOMAIN cq : cq[i].buf # b
                        /\ \A s \in Sessions : alive[s] /\ HoldsCutPacket(s) => pending[s] # b}

TextLosesNoBuffer == [][read' # read /\ undefined' = "no" => Lost' \subseteq Lost]_vars

(* The text of a packet that was cut is kept ("cut data is preserved",     *)
(* Session.cpp:359): until its session reads more, nothing changes the     *)
(* buffer that holds it.  False when the first text of another session is  *)
(* appended to the buffer that its uninitialised id names.                 *)
CutDataPreserved ==
  [][\A s \in Sessions :
       HoldsCutPacket(s) /\ text'[pending[s]] # text[pending[s]] => read'[s] # read[s]]_vars

(* A session that holds a cut packet can receive the rest ("still cut,     *)
(* wait for the next receive", Session.cpp:353): a buffer is in the ring,  *)
(* or on its way back.  False when other receives have lost the buffers.   *)
CutPacketContinues ==
  \A s \in Sessions : HoldsCutPacket(s) /\ alive[s] /\ ~ closing[s] => bufRing # <<>> \/ Data
===============================================================================
