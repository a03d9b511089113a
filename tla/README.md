# Verification of YuwiboServer

TLA+ models of YuwiboServer, a lobby server for a game (C++, io_uring, OpenSSL
memory BIOs, Protocol Buffers, MySQL), the TLC runs that check them, and TLAPS
proofs of the safety properties of every component. Every definition is translated from the C++ sources;
`PROJECT.json` ("map") gives the lines each one stands for. OpenSSL, liburing and
the kernel are modelled only as the sources use them.

## 1. The system

The server has one thread per core (a *worker*) and the main thread. Each worker
owns an io_uring ring, a pool of 128 receive buffers and the sessions assigned to
it; worker 0 also runs the multishot accept. After start-up a worker only reacts to
completions of its ring: a completion carries a heap-allocated *context* whose type
says which handler it is for.

| Component (sources) | State | Operations | Modelled in |
|---|---|---|---|
| `Session`, outgoing; `TLS`, `SendBuffer` | write BIO, `_sendQueue`, `SendCount`, `_isSending`, `canceling`, `closing` | `Send`, `TLSHandshake`, `FlushTLSWriteBuffer`, `SendInternal`, `OnSend`, `StartClose`, `Close` | `SessionSend`, `SendRace`, `ByteStream` |
| `Session`, incoming; `TLS`, `Buffer`, `RecvBuffer` | read BIO, decrypted text, `_pendingRecvBufId`, the worker's buffer ring | `OnRecv`, `GetRecvText`, `ProcessPacket`, `RegisterBufRing` | `SessionRecv` |
| `Worker`, `SessionManager` | submission and completion queue, `_sessions`, life of the `Session` objects | `Run`, `HandleCompletion`, `AddSession`, `RemoveSession`, `StopSQE`, `Stop`, `Join` | `Worker` |
| `ThreadManager`, `main` | `_running`, the vector of workers | `Launch`, `ListenerStop`, `GetRandomWorker`, `Stop`, the wait of `main` | `Server`; the shutdown of one worker also in `Worker` |
| `RoomManager`, `Room` | `_rooms`, `info`, `_sessions` of a room, two levels of mutexes | `CreateRoom`, `GetRoom`, `RemoveRoom`, `Enter`, `Leave`, `Broadcast`, `StartGame` | `Lobby`, `RoomSet` |
| `PacketHandler` | table of handlers, filled at start-up | room requests, account requests, ping | `Lobby` (rooms), `Accounts` (accounts) |
| `Listener` | listening socket, accept, `Listener_running` | set-up chain, accept, cancel, close | `Server` |
| `DatabaseManager`, `Hash`; `Session::_user_id` | the table of users, one connection, four statements | `Connect`, `CreateSTMT`, `Login`, `JoinMembership`, `UserNameRegister`, `GetUserInfo`, `Disconnect` | `Accounts`, `UserDirectory` |
| `SslContextManager`, generated messages | nothing that changes | start-up, serialisation | not modelled |

How they interact:

* kernel to worker: completions of accept, multishot receive, send, cancel, close, NOP;
* worker to session: `OnRecv`, `OnSend`, `Close`; a session submits requests to its worker's ring;
* session to lobby: a decrypted packet goes through `PacketHandler`, *on the thread of the
  session's worker*, into `RoomManager` and `Room`;
* lobby to sessions: `Broadcast` and `StartGame` call `Session::Send` on every member,
  *whichever worker owns it*, and `Send` calls `Close` when `SSL_write` fails (Session.cpp:72). This is
  the only place where a session is used by a thread that does not own it, apart from shutdown and accept;
* main to worker: `Stop` clears `_running`, prepares cancels in the worker's ring, and posts a NOP;
* worker 0 to another worker: `AddSession` from `OnAcceptCompleted`;
* main to worker 0: the set-up chain and the accept at `Launch`, the cancel and the close at the end;
  worker 0 to main: `Listener_running`, which main polls before it stops the workers;
* handlers and rooms to the database: every function of `DatabaseManager` holds its mutex, a handler
  calls several of them, and all threads share one connection, on which a result that was not read to its
  end blocks the other statements.

The hard behaviours: partial sends and cut packets; six paths into `Close`, two of them
conditional and one of them from other threads, with a flag that is tested and set without a lock; descriptors reused while completions that name them are on their way; the wake-up
of a blocking `io_uring_wait_cqe` at shutdown; rooms used from several threads through raw
pointers and two locks; a shared pool of receive buffers; sessions that vanish from under a room;
start-up and shutdown of the listener while connections arrive; a database that loses answers, and
a process that stops between any two of its steps.
`PROJECT.json` ("hazards") lists them line by line, with the properties that cover each one.

### What makes each component correct

* **Outgoing**: the ciphertext goes out in order, each byte once; one send at a time; whatever is
  queued is sent; nothing follows a failed send; a graceful close waits for the queue.
* **Incoming**: packets are handled once and in order however the stream is cut; nothing complete
  is held back; a buffer is in one place; no buffer is lost.
* **Worker**: a close hits the connection it is for; a session is destroyed only when its
  connection has been closed; a disconnected session is destroyed; after the join nothing is open; shutdown terminates.
* **Server**: whatever the listener's completions and the signal do, a worker gets connections only
  while it may; none is left behind; after the signal the server stops.
* **Accounts**: what a client was told stays true across failures and restarts; identities are taken with
  the password only, names given to the session's own user only.
* **Lobby**: capacity, agreement of map, rooms and room ids; empty rooms disappear; the host is a
  member; every request completes.

## 2. The modules

`ByteStream`, `RoomSet`, `UserDirectory` - **abstract specifications.** A stream accepts units, delivers them in
order, ends or breaks (then delivers nothing more). A set of rooms is opened, entered up to its
limit, left, and gone with its last member. A user directory creates accounts,
lets a session act for a user whose password it has offered, lets it name that user, and signs sessions
out. `SessionSend`, `Lobby` and `Accounts` are shown to implement
them by the refinement mappings at their ends. The stream accepts a unit when it leaves the write
BIO; a room is gone when its last member has left, although `RemoveRoom` is still to come.

`SessionSend` - **one session's outgoing path on its own thread.** Data are numbered units of
ciphertext; a `SendBuffer` is an interval of them. `ring` and `cq` are the kernel's sends and
completions. One action per entry point: `TLSHandshake`, `Send`, `SendFails` (`SSL_write` error),
`OnSend`, `OnSendError`, `OnRecvError` (every other `Close(false)`), `StartClose`, `OnRecvCancel`,
and the kernel's `KernelSend` (any prefix of a request) and `KernelSendError`. Each action is a
whole handler, including the `Close(true)` at the end of `OnSend`. `SendCount` is a `uint16_t`,
hence `% 65536`. `io_uring_get_sqe` always finds an entry here, because everybody on this thread
submits at once; the full queue is in `Worker` (`sending = "stuck"`).

`SendRace` - **the same path, statement by statement, with several threads.** A broadcast from
another worker interleaves with the owner's `OnSend`. `SSL_write` and the queue's operations are
taken as atomic, so that what goes wrong is the logic and not a torn container.

`SessionRecv` - **the incoming path of the sessions that share a worker's buffer ring.** A stream
is a sequence of units: the handshake, then packets of two length units and a body. The kernel
cuts it anywhere into buffers, TLS anywhere into records, `GetRecvText` returns at most `TextSize`.
One action per way through `OnRecv`: end, `BIO_write` failure, unfinished handshake, no text,
text with nothing pending, text appended to a cut packet, text appended to garbage.
`_pendingRecvBufId` starts with any value of `Garbage`, since no constructor sets it; appending to
a buffer that holds no cut packet of the session is undefined behaviour, recorded in `undefined`. If the id
names another buffer of the pool, the code goes on (Session.cpp:336-351, `AppendsBlindly`): that buffer is provided,
perhaps a second time, or the id is kept for the next text. If it names the buffer at hand, whose lock `Append`
holds already, or none at all, it does not (`AppendsNowhere`). After an append that was survived the contents of buffers are
unknown; `OnRecvSurvived` follows what the handlers then do with the buffers. The properties about packets and owners
speak of the time before the first such append; that it can damage another session's cut packet is the run `recv_garbage`.

`Worker` - **the completion loop, the sessions' lives and shutdown.** The main thread's statements
interleave with the worker's handlers, and with the threads of other workers (`Others`), which send to the
sessions and close them when that fails (`OthersSend`). A handler is one step except where another thread reads or
writes in between: `RemoveSession` and then `StopSQE`; each send of `OnRecv`; and `Close`, which any thread may be in, in
two steps, its tests (`about` says whose) and then, in `CloseSubmits`, `closing = true` and the request. `closing` is a
boolean in the code; the set of the threads that have set it says as well when two have. The kernel completes
requests in any order and may reuse a descriptor as soon as it is closed. A completion for a freed `Session` either finds
nothing to do or crashes the process (`crashed`). Data only matters as whether a send is
outstanding; its order is `SessionSend`'s subject, and the race of two threads for `_isSending`, and with
it for the queue that `Close` tests, is `SendRace`'s. The memory of a destroyed `Session` is not used again in the model. `OwnAccept` selects whether accepts come
through this worker's own completions (worker 0, assigning to itself) or from another thread.

`Server` - **the process from `Launch` to the join.** It extends `Worker`, whose module assumes that
connections come only until main stops waiting and that all of them have been added when main clears
`_running`. Here those surroundings are modelled: main (`StartWorker`, `EmplaceBack`, `ListenerStop`,
`ListenerWaitEnds`, `ThreadManagerStop`), the listener's requests in the kernel (`SetUp`, which may fail at
any link, `Accept`, `AcceptFails`, `CancelAccept`, `AcceptCanceled`, `CloseListener`), and the thread of
worker 0 with its completions `cq0` in order (`OnListenerStart`, `OnListenerClosed`, `OnAcceptEnd`,
`AcceptElsewhere`, `AcceptHere`, `AddHere`, `Exit0`). One worker of the vector, the last to be created, is
modelled in full; sessions that go to another one leave the model. `GetRandomWorker` reads the vector
without a lock: while it is empty or `emplace_back` is under way the step is `AcceptRaces`, undefined.
`early` says that the signal came before the set-up completion was handled, so that main does not wait;
`addedEarly` is a history variable, the sessions that were added while a `SESSION_CLOSE` completion of the same
descriptor was still to be handled by their worker (`ClosePending`).

`Accounts` - **the database connection and the handlers that use it.** Each function of
`DatabaseManager` is one step, because it holds the mutex; `signing` is the moment between `Login`
and `SuccessLogin`, when the handler does not. `conn` and `stmts` are the client library's view:
`CreateSTMT` may have stopped half-way (the rest is null, and binding a null statement crashes); a statement
may fail, with or without the loss of the connection, before or after the server has executed it; a
`Login` that leaves its row unread makes the connection `"pending"`. The table `users` survives `Stops`,
a stop or crash at any moment, and `Connect`, the next start. A hash is a record, different
from the password it is made of. `told` is a history variable, the answers ever sent that say what the table holds. What a client is shown of a
name is left out. `MCAccounts` adds symmetry.

`Lobby` - **rooms and the handlers that use them, on several threads.** A handler is cut where it
waits for a lock or uses a pointer it looked up before. `owner` says which thread serves a
session. Use of a destroyed room or session is undefined: the process crashes or goes on
(`undefined`). At most `MaxVanished` sessions, whichever, disconnect without leaving their room. `OneWorker` says that
one worker was given all the sessions, the case in which handlers follow one another. `max_player_count` comes from the client (`Maxes`). `MCLobby` adds symmetry.

`SessionSendProofs`, `SessionRecvProofs`, `WorkerProofs`, `ServerProofs`, `LobbyProofs`,
`LobbyRoomProofs`, `AccountsProofs` - **the proofs** (section 5).

Operators named `Faulty...` are variants with a plausible defect: the mutants of `PROJECT.json`,
which show for each property that it can fail. No specification uses them.

## 3. The runs

| Run | Instance | What it shows |
|---|---|---|
| `send` | buffer of 2 units, records of up to 3, 6 units in all | one send at a time, order, no stall, quiet after a failure, graceful close drains, everything flushed is sent, `ByteStream` is implemented |
| `send_residue` | the same | **violation** of `NothingLeftBehind` |
| `race_two` | two threads, 3 buffers | **violation** of `NextSendFromOnSend` |
| `recv` | 2 sessions, 2 buffers, text of 3 units, streams of up to 5 units, ids -1 or 0 in fresh memory | packets once and in order, nothing held back, a buffer in one place, text loses no buffer, all up to an append to a garbage id's buffer; the behaviours go on after it |
| `recv_garbage` | the same | **violation** of `CutDataPreserved` |
| `recv_pool` | one session, 2 buffers | **violation** of `CutPacketContinues` |
| `worker_reuse` | 1 descriptor, 2 sessions one after the other, the first with data and another worker's thread that sends to it | only two closes of one session can hit another connection, a session is destroyed only when its connection is closed, nothing stays open, disconnected sessions go, shutdown terminates |
| `worker_full` | 2 sessions, submission queue of 1 entry | **violation** of `ShutdownCompletes` |
| `server` | 2 workers, 2 descriptors, 2 connections, 3 entries in the submission queue | main, the listener and worker 0 are the surroundings `Worker` assumes, no connection is left behind, the server stops after the signal |
| `lobby_two` | 2 threads, 3 sessions in every distribution, 3 rooms of size 2, one session may vanish | capacity, map, room ids and removal of empty rooms under every interleaving; the abstract rooms are implemented until something undefined has happened, and on one worker for ever, where the host is a member |
| `lobby_locks` | 2 threads, 2 sessions, 1 room | **violation** of `RequestsComplete` |
| `accounts` | 2 sessions, 2 user ids (one empty), 2 passwords, 2 names (one over 50 bytes) | answers stay true, `UserDirectory` is implemented |

**Why the bounds are enough.** Each constant is the smallest at which its case occurs. A record of
3 with a buffer of 2 overflows a `SendBuffer`; a buffer of 2 can be sent in parts; 6 units fill
three buffers, so there is a front, a middle and a last one. In `recv` a packet can span
several reads, one read can complete two packets, a packet can be a bare prefix, and the second session
competes for the ring. In `recv` the id 0 of fresh memory can name the buffer at hand, the other session's or the kernel's. One descriptor forces its
reuse; two sessions let one be last; `SqDepth` is 256 in the code, and 1, 2 or 3 puts the limit
within or out of reach. `CqBound` bounds only the data completions a talking session may have
unhandled. Three rooms in `lobby_two` let the key of a removed room be
used again while a later one is still open, the third session finds a room of two full, and the sessions are on
one worker or on two. `MaxVanished` is 1, for whichever session. (With all three vanishing, 7.9 million states, or with
rooms of size 0 as well, `lobby_two` passes too, close to the time a run should take.) Bounds on totals (`MaxWritten`, `MaxUnits`, `MaxSessions`, `MaxAccepts`, `MaxRooms`)
end a behaviour's supply of new work, never work in progress; `Talkers` are the sessions that exchange data, and
other threads are followed until main has joined the worker. In `server` both sessions can be on the modelled
worker at a time, so that one is cancelled while the other closes, and a descriptor can be used again; data
and other threads that send are left to `worker_reuse` and to the theorem `NoneLeftBehind`, which has both (with one
descriptor and such a thread, 9.5 million states, TLC agrees). A behaviour whose signal came early is followed until main stops waiting
(`Followed`). In `accounts` two sessions sign in as, or name, the same user, and the two passwords let one be
wrong; the number of restarts is not bounded. Symmetry is used in `lobby_two` and `accounts`,
which check safety properties only.

**Deadlock.** `CHECK_DEADLOCK FALSE` where the system may really stop: all bounded work done, the
process exited or crashed. `send`, `send_residue` and `accounts` check deadlock.

**Fairness.** `SessionSend`: the kernel completes a send and the worker handles it, since the loop
never stops while sessions exist. A failure, a leaving peer or a shutdown is never promised.
`Worker`: both threads run (`WF` on `Run` and on `Main`), the accepting worker finishes an
`AddSession` it began, another worker's thread that has passed the tests of `Close` finishes it (`CloseSubmits`), and the kernel
completes cancels, closes and NOPs, which depend on nobody else. Connections, data, disconnections, broadcasts, the progress of sends and the request to stop are not
promised. `Server`: the same, and main, worker 0 and the kernel's set-up, cancel and close go on; the
signal and the connections may never come. That worker 0 leaves its loop is taken over from what `worker_reuse` shows of a
worker that accepts. `Accounts` has no liveness: neither the database nor a client promises anything. `Lobby`: a thread that started a handler goes on (`WF` on its steps); mutexes are not
assumed fair, and no request ever has to come.

**Limits of what holds.** Each property names the cases in which the code does not keep it:

* `ClosesOwnSocket`: if two threads have closed one session (`Twice`), the second close may hit the connection that
  has reused the descriptor. Nothing else makes a close hit the wrong connection.
* `DestroyedWhenClosed` and `NothingOpenAfterJoin` hold for `OwnAccept = TRUE`, where one queue orders a
  descriptor's accepts and closes. When another thread accepts, a session can be mapped while the completion of a close of its
  descriptor waits, and is then destroyed by it while its connection stays open.
  `NoConnectionLeft` says that no connection is left open except such a one (`addedEarly`). A descriptor that is used again after
  that completion was handled is no exception.
* `GracefulCloseDrains` is about the owner's thread: another thread's `Send` can come between the tests of `Close` and
  `closing = true`.
* `HostIsMember` holds for the sessions of one worker: with two, a room can be filled before its creator enters.
* `ImplementsRoomSet` holds until something undefined has happened: with two workers a room can be destroyed between
  lookup and use. With one worker it holds for ever.
* `EmptyRoomIsTransient` leaves out rooms created for zero players, which nobody can enter or remove.
* `ImplementsWorker` and `NoConnectionLeft` leave out behaviours with an early signal, and `ImplementsWorker` the steps that
  read the vector of workers while it is empty or growing.
* `OneOwner`, `PacketsInOrder`, `NothingHeldBack` and `TextLosesNoBuffer` end with the first append to a buffer that
  a garbage id names. `TextLosesNoBuffer` is about receives that yield text; the ones that yield none do lose their buffer.

## 4. What the violations show

* `send_residue` (Session.cpp:107): a flush moves at most one `SendBuffer` out of the write BIO and
  nobody comes back for the rest of a larger record until the session sends something else.
* `race_two` (Session.cpp:115): test and set of `_isSending` are separate, so a broadcast can submit a
  second send, and ciphertext goes out twice. By the same window the flag can stay set with nothing
  outstanding: a lost wake-up.
* `recv_pool` (Session.cpp:324): a receive without text keeps its buffer for ever. The receive that
  completes the handshake is normally one, so 128 connections drain a worker.
* `recv_garbage` (Session.h:40): `_pendingRecvBufId` is never initialised, and a session's first text is appended to the
  buffer it happens to name, though another session keeps a cut packet there; the comment at Session.cpp:359 says
  "잘린 데이터 보존" (preserve the cut data). The buffer may then be provided twice, and two receives share it.
* `worker_full` (Session.cpp:215): with more sessions than queue entries, `StartClose` silently skips
  a session, or `Close` has set `closing` before it found the queue full. `Join` never returns. Both
  mechanisms exist; TLC shows one.
* `lobby_locks` (RoomManager.cpp:21): `CreateRoom` takes manager then room, `Leave` room then manager.

Also seen while modelling: the cancelled receive ends with an error and so calls `Close(false)`,
which usually bypasses the graceful `Close(true)`; a session's multishot receive may complete after
the session was destroyed; a session can be destroyed in place of
the previous owner of its descriptor (Worker.cpp:186, `addedEarly`, reached in `server`); worker 0 can accept while `Launch` fills
the vector of workers (`AcceptRaces`). And three that are not findings of a run, for nothing in the repository promises the opposite outright:

* *Double close.* `Session::Send` on a broadcaster's thread calls `Close(false)` when `SSL_write` fails (Session.cpp:72) while the
  owner closes too; both can pass the test of `closing` (245) before either sets it (248). The second `close` frees
  whatever connection has reused the descriptor: `Twice`, reached in `worker_reuse`, where without that
  exception `ClosesOwnSocket` is false.
* *Lock-out.* `UserNameRegister` accepts a name of more than 50 bytes. The fetch of `Login` then reports truncation, and
  `Login` returns without freeing the result (DatabaseManager.cpp:150), although it does not need the name (the comment at
  137: "name값 자체는 필요 없으므로 버퍼를 비움", the name itself is not needed, so the buffer is left empty). That
  user can never sign in, and the server's other statements fail until the next `Login` (`"pending"`).
* *Another member's name.* For a user without a name `GetUserInfo` makes a string of a stack buffer that this call has not
  written, with a length that was not set (DatabaseManager.cpp:341; the comment at 340: "userInfo.name에 'name' 값이 저장됨",
  the value of 'name' is stored in userInfo.name). Usually it still holds the name of the member looked up before.
  What is shown is not modelled, only that the copy may crash (`GetUserInfoCrashes`).

## 5. The proofs

`SessionSendProofs` proves, for every `BufSize`, `MaxRecord` and `MaxWritten` that satisfy
`SendAssumption` (natural numbers, a buffer not empty), that `Safety` implies

| Theorem | Property |
|---|---|
| `TypeCorrect`, `OneSend`, `InOrder`, `Unstalled` | `[]TypeOK`, `[]OneSendOutstanding`, `[]StreamInOrder`, `[]NeverStalled` |
| `Quiet`, `GracefulClose` | `QuietAfterFailure`, `GracefulCloseDrains` |
| `Refinement` | `ImplementsStream`: every step is a step of `ByteStream` or stutters |

None of the properties is inductive: that `wire` stays in order says nothing about what the next
send will add. The invariant `IInv` ties together the four places where data can be:

1. `QueueOK`: the queue is a chain of adjacent non-empty intervals that ends at `flushed`, where the
   BIO begins, and `_isSending` says whether it is empty;
2. `RingOK`: a send in the ring is exactly the front buffer, and starts right after what is on the wire;
3. `CompletionOK`: a completion says how much of the front buffer is on the wire;
4. `QuietOK`: with no send outstanding and no failure, all that was flushed is on the wire;
5. `FailedOK`: after a failure nothing is in the ring, and the session is closing as soon as the
   completion has been handled.

Lemmas about the queue (`ChainAppend`, `ChainTail`, `ChainAdvance`) and about the operators
(`Submit`, `Flush`, `Closers`, `Read`) carry the arithmetic; there is then one lemma for each action
that moves data, and `DataUnmoved` and `DataFlushed` for the others. `Invariance` combines them, and the
theorems follow from it.

`LobbyProofs` proves what `lobby_two` checks for any number of threads, sessions, rooms and limits
that satisfy `LobbyAssumption` (limits are natural numbers, no thread is called 0, which stands for
nobody): `TypeCorrect`, `CapacityKept`, `MapAgrees`, `NoEmptyRoomLeft`, `RoomIdLeadsHome`, for
`[]TypeOK`, `[]Capacity`, `[]MapConsistent`, `[]EmptyRoomIsTransient`, `[]RoomIdConsistent`. They
also hold after undefined behaviour that the process survived, except the last, which says so. The
invariant adds:

1. `JobOK`: a handler at work has a session and a room that was registered;
2. `ObjectOK`: a registered room has a key, members are finite in number, an unregistered room has none;
3. `RemoveOK`: a thread between `Leave`'s test for emptiness and `RemoveRoom` holds the room's lock, so
   the room is still empty when it is removed. Without it a member could be in a room whose key leads
   nowhere (`RoomIdConsistent`), or a second thread could remove the room (`MapConsistent`).

`LobbyRoomProofs` proves the other two promises of `lobby_two`, again for any number of threads, sessions, rooms and
limits: `HostPresent` (`[]HostIsMember`) and `Refinement` (`ImplementsRoomSet`). Its invariant has two parts. On any
number of workers, `JobOwn`, a handler runs on its session's thread, and `LeaveOK`, until something undefined has
happened a leaving session is a member of the room it leaves. If `OneWorker`, moreover, `WorkOK`: the
room of a handler at work is still there, a creator enters a room whose host it is, a leaving
session is a member; `RoomIdOK`, which is `RoomIdConsistent` whatever happened to sessions that
vanished; and `HostOK`. `WorkOK` is what two workers break, between the lookup of a room and its use; that one
worker keeps it rests on `Alone`, no other thread has a handler at work.

`AccountsProofs` proves all that `accounts` checks, for any sets of sessions, ids, passwords and names that
satisfy `AccountsAssumption` (overlong names are names, and the model values differ from each other):
`TypeCorrect`, `AnswersStayTrue` and `Refinement`. What was told stays true
only because the table never forgets: `TableGrows` says of every step, restarts included, that no row goes away,
no password changes and no name becomes null. The invariant adds `SignInsHold`, the same for a sign-in that
`Login` has let through and whose answer is still to be sent. Without it `SuccessLogin` could announce what is no longer so.

`SessionRecvProofs` proves all that `recv` checks, for any sessions, streams, number of buffers, `TextSize`
and values of `Garbage` that satisfy `RecvAssumption` (a ring and a text that are not empty; a packet has a
length prefix of two units):

| Theorem | Property |
|---|---|
| `RecvTypeCorrect`, `BufferHasOneOwner`, `PacketsHandledInOrder`, `ReadTextIsHandled` | `[]TypeOK`, `[]OneOwner`, `[]PacketsInOrder`, `[]NothingHeldBack` |
| `TextReturnsBuffers` | `TextLosesNoBuffer` |
| `OnlyGarbageUndefined` | `[](undefined = "no")`, if `Garbage \subseteq {NoBuf}` |

The properties speak of the time before the first append to a buffer that a garbage id names. The last theorem says that
nothing but the missing initialisation of `_pendingRecvBufId` ever leads to one: with -1 in fresh memory the others hold for good.

The proof has two parts. The first says what `ProcessPacket`'s loop computes: `Packets` is a recursive function, and
`PacketsFacts` shows that it exists and returns adjacent packets from the first unit on, each of which ends where
its length prefix says, and stops only where the next one does not end in the text. The library's induction
theorems cannot be used, so the proof takes the *least* `k` for which the loop that starts `k` units before the
end is wrong; that there is a least one (`LeastElement`) follows from the library's theorem on well-founded
relations, which is first-order. The second part is the inductive invariant `RecvInv`:

1. `TypeInv`: each counter of a stream is behind the one before it (received, written to the BIO; decrypted, read);
2. `UnitsInv`: the completions of a session are of consecutive units, which all have been received. Without
   it `bio` could overtake `received`;
3. `OwnerInv`: the ids in the ring and in the completions are all different, and a buffer that holds a cut packet
   is in neither of them and is pending for the session whose packet it holds;
4. `TextInv`: a session's handled packets are in order, what was read and not handled is exactly what its pending
   buffer holds, and once there has been text `_pendingRecvBufId` is -1 or names that buffer.

`OwnerInv` gives `OneOwner` without counting: each of the three sets has at most one element, and at most one of
them has any. `EndFacts` supplies what `TextInv` needs of a packet's end: the next packet cannot end one unit on,
since its prefix alone is two.

`WorkerProofs` proves, for any number of descriptors, sessions and other threads and any depth of the submission queue that
satisfy `WorkerAssumption`,

| Theorem | Property | Assumes |
|---|---|---|
| `WorkerTypeCorrect`, `OwnSocketClosed` | `[]TypeOK`, `ClosesOwnSocket` | nothing more: whoever accepts, and sends |
| `DestroyedOnlyClosed`, `AllClosedAfterJoin` | `DestroyedWhenClosed`, `[]NothingOpenAfterJoin` | `OwnAccept` |
| `QueueNeverFull`, `ClosesAreSubmitted` | `[]SqeAvailable`, `CloseIsSubmitted` | `[](mainPc = "close" => GetSize < SqDepth)` |

The last two say where the violation of `worker_full` ends: only the cancels that `SessionManager::Close` prepares
wait in the queue, at most one for a session in the map when it starts. With fewer sessions in the map at that moment
than the queue has entries (256 in the code), however many came and went before, no call is refused an entry and a session
marked as closing always has its close requested. Two threads that write one entry at
the same time remain outside the model (section 6).

The invariant `IInv` holds whoever accepts: `TypeInv` (only cancels wait for submission, and never more than
the queue is deep), `LifeInv` (the map holds the live sessions, each at its descriptor, and the kernel's table sessions at
theirs), `CloseInv` (a close under way was asked for by a thread that has set `closing`, and until it is executed the
session has its connection, or two threads have closed a session of that descriptor: `Owns`, `Doubled`) and `MainInv` (how
far main and the thread are in the shutdown). `OwnSocketClosed` follows from `CloseInv`: between the request to
close and its execution nobody else gets the descriptor, unless the second of two closes frees it.

`OpenInv` adds what depends on the completions coming through one queue: an open connection is either in the map and
*nothing* that waits in the queue concerns its descriptor (`InMap`), or its accept still waits, *behind* everything else
that concerns it (`Waits`). So a second close of one session may come when its successor has the descriptor, but its
completion then comes after the successor's accept has been handled and the successor's connection closed, and destroys
nothing that is open. With another thread accepting that order is lost, and both theorems fail; the assumption
`OwnAccept` is a case of the code (worker 0 assigning to itself), and `worker_reuse` runs with it. For the
queue theorems, `AcceptInv` says that an accept waits once, for a session not yet added, and `SqInv` that the cancels
in the queue are of sessions already visited, which together with those in the map never become more than they were when
`SessionManager::Close` started.

`ServerProofs` proves `ServerTypeCorrect` (`[]ServerTypeOK`), `Refinement` (`ImplementsWorker`) and
`NoneLeftBehind` (`[]NoConnectionLeft`) for any number of workers, descriptors and connections. `Worker` takes
for granted that connections come only until main stops waiting and that all have been added by then; `Refinement`
shows that the process keeps to that unless the signal was early or an accept read the growing vector. The
invariant `ServerInv` says why: `ListenerInv`, no connection is behind the listener's close in
worker 0's queue, because the close is hard-linked to the cancel; `HandledInv`, so none waits once `Listener_running`
is false; `QueueInv`, the connections that wait have descriptors of their own and at most the first is being
added; `PhaseInv`, how main's progress agrees with `Worker`'s `mainPc`. Since the steps of `Server` keep `Worker`'s `IInv` as
well (it is a part of `ServerInv`), `NoneLeftBehind` rests on both, and on `KeptInv`: an open connection belongs to a session that
is still to be added, or is in the map with no completion of a close of its descriptor waiting, or is in
`addedEarly`. It holds with other workers' threads sending to the sessions and closing them, twice if it happens so.

Model-checked only: liveness (`EverythingIsSent`, `ShutdownCompletes`, `DisconnectedIsRemoved`, `ServerStops`,
`RequestsComplete`) and everything that needs `ENABLED`, which the prover does not handle. Every invariant,
safety action property and refinement that a passing run checks is also a theorem.

## 6. Not modelled, and why

* Data races inside containers and inside liburing's submission queue, which several threads use
  without a lock: the outcomes depend on library internals. Each call is taken as atomic. (The unlocked test and set of
  `closing` and of `_isSending` are modelled, in `Worker` and in `SendRace`.)
* Message contents, serialisation, logging, certificates. Of hashing, only that a hash is not the password
  and is verified by it; of the names and ids, only whether they are empty or too long for a buffer; not what a client is
  shown of a name.
* A host that signs in as another user while in a room: `Lobby` identifies a session with its user.
* `FindRoom` and `Ping`, which read and reply; `GetRandomRing` and `GetConnection`, which nobody calls.
* What OpenSSL writes to the BIO while it reads (alerts, key updates), which no code flushes except
  after `WANT_WRITE`, a result that a memory BIO does not give.
* Failures of set-up calls (`io_uring_queue_init`, `SSL_new`, registration), after which the code does
  not continue in a defined way.
* `Buffer::Resize`, which would deadlock on its own mutex but cannot be reached: `GetRecvText` never
  returns more than a buffer's size.

## 7. Plan

Done, in this order: `ByteStream`, `SessionSend`, its proofs, `SendRace`, `Worker`, `RoomSet`, `Lobby`,
`SessionRecv`, `LobbyProofs`, `UserDirectory`, `Accounts`, `AccountsProofs`, `Server`,
`WorkerProofs`, `ServerProofs`, `SessionRecvProofs`, the threads of other workers in `Worker`, `LobbyRoomProofs`. Next:

1. In `Server`, worker 0 in full as well, so that its exit is shown and not taken over.
2. In `Lobby`, users apart from sessions: a host that signs in as somebody else while in a room.
3. In `Accounts`, the names that a room's members are shown, with the buffer that `GetUserInfo` leaves from call to call.
