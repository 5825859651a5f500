# TLA+ models of C-Socket-Programming

The repository is a collection of small Windows programs: echo, chat, web and
calculator servers in the styles that Winsock offers (one client after the
other, `select`, a thread per client, overlapped I/O with completion routines,
I/O completion ports), their clients, and examples of threads and of their
synchronisation. There is no common library. What the programs share is the
kind of mistake they can make: a buffer in use by two operations, a handle used
after it was closed, a client nobody serves, a message taken for two or two for
one, threads that wait for each other.

Each program, or each pair of server and client, has one module here. The two
overlapped echo servers, `IocpEcho` and `ComplRoutineEcho`, are also checked
against one abstract specification, `EchoService`.

Contents: 1 inventory, 2 modules, 3 runs and bounds, 4 fairness, 5 proofs, 6 what
the models show about the code, 7 what is abstracted, 8 plan.

## 1. Inventory

### Echo servers

| program | state | operations | hard behaviour | correct when |
|---|---|---|---|---|
| IOCP server, `Completion Routine/IOCPEchoServ_win` | a `PER_HANDLE_DATA` per connection (the completion key), a `PER_IO_DATA` per operation, the port | `main`: accept, associate, first `WSARecv`; `EchoThreadMain`: dequeue, send back, new receive, close, free | several workers take completions of one connection in any order; keys and blocks are freed while operations are under way | one receive per connection; no use of a closed socket; echo complete and in order; memory given back |
| Completion routine server, `Completion Routine/Completion Routine Echo Server` | one `OVERLAPPED` and `PER_IO_DATA` per client, used for life | non-blocking accept, `SleepEx`, `ReadCompRoutine`, `WriteCompRoutine` | routines run only in the alertable wait; the buffer length is reused for the next receive; a reset before or after each step | exactly one activity per connection; window never zero; everything answered before the close |
| `IOCompletionPort` class, `IOCP_Practice/Tutorial1` | client slots, each with one receive and one send structure; the count of clients | `AccepterThread`, `WorkerThread`, `BindRecv`, `SendMsg`, `CloseSocket`, `DestoryThread` | a slot is reused while completions for its last connection are still in the port; a send structure is overwritten while in use | a slot belongs to one connection; only leavers are closed; the class can be stopped |
| `select` server, `echo_selectserv_win` | `reads`, its copy, the index of the pass | select, accept, echo, hang up | the arrays of a Windows `fd_set` are packed, entries move during a pass, capacity `FD_SETSIZE` | the listener survives; whoever is here is watched and answered; only leavers are closed |
| iterative server, `Echo/Echo_server_window`, with the simple and the stable client | the connection being served | accept, recv, send, close; the clients' rounds | echoes in pieces; a client that leaves with an unread echo resets the connection | clients one after the other; whole echoes; the server ends |

### Other servers and clients

| program | state | operations | hard behaviour | correct when |
|---|---|---|---|---|
| chat, `thread_window/chat_serv_win`, `chat_clnt_win` | the table `clntSocks`, `hMutex`, `main`'s one socket variable, the numbers of the sockets | accept and start a handler, broadcast under the mutex, take a leaver out of the table, close | the handler reads its socket through a pointer to that variable; a closed number is given out again while the table or a second handler still has it; a blocking send holds the mutex | everyone in the room sees the same lines once; only leavers are closed; where that fails, it is for one of these reasons |
| web server, `web/webserv_win` | socket handles, streams opened | accept, one handler thread per request, `SendData`, `SendErrorMSG` | a handle closed twice belongs to somebody else in between; streams are never closed | each client gets its own answer |
| calculator, `Calculator` | the request buffer, its fill level | collect a request from the stream, calculate, answer | pieces of any size; the buffer is not cleared | the operands of this client, all of them and nothing else |

### Threads

| program | state | operations | hard behaviour | correct when |
|---|---|---|---|---|
| prime search, `prime_number_multithreaded` | the next number, the vector, two mutexes | take, test, append, join | workers race for the numbers | every prime once |
| semaphore hand-over, `thread_window/SyncSema_win` | two semaphores, one number | read, add | a semaphore at its maximum; input that is no number | each number added once, both threads end |
| counters, `thread_window/SyncMutex_win`, `SyncCS_win` | one number, one lock | add and subtract in loops | lost updates, overflow | exact at every moment the lock is free |
| lock order, `Deadlock-Example` | two ints, two sections | lock both, in opposite orders | deadlock | it keeps looping (it does not) |
| event, `thread_window/SyncEvent_window` | a string, a manual-reset event | two readers start on one event | order of store and event; lines cut off or without newline | both see the whole line |
| prime search without locks, `prime_number/Prime_number_errorneous` | the next number, the vector | the same as with locks | `num++` races and throws the counter back; two `push_back` at once | it still ends, and never falls back behind what all have passed |
| counters without a lock, `thread_window/thread_win3` | one 64-bit number, which the x86 build reads and writes in two halves | add and subtract in loops | lost updates; halves of different stores | updates may be lost, but not made up: of the number in x64 builds, of each half in x86 builds |

### One connection, or none

| program | state | operations | hard behaviour | correct when |
|---|---|---|---|---|
| half-close file transfer, `Half_close` | how much of the file is sent and stored | send blocks, shut down the output, thank | the client waits for an end, then the server for the client; neither looks at a failed `recv` | a thank-you only for the whole file; nobody waits for ever |
| overlapped pair, `Overladpped IO`, `OverlappedRecv_win`, `Completion Routine/CmplRoutinesRecv_win` | one `OVERLAPPED` and one buffer on each side, variables of `main` or global | post, wait by event or in an alertable wait, print | done at once, later, with an error, or refused | no frame is left while the system may write to it |
| out-of-band pair, `oob_win` | the stream, and the one urgent byte TCP keeps | four sends; `select` for reading and exceptions | urgent data overtake, replace each other, and come late | the last urgent byte is printed as such, nothing twice |
| multicast news, `multicast_win` | the file, cut by `fgets` | a datagram per piece, join, receive | loss, doubling, overtaking; `feof` | pieces without gaps, that fit the receivers |

### Not modelled

| program | why |
|---|---|
| thread start examples, `thread_win1`, `thread_win2` | one thread that prints; nothing is shared |
| C++ socket wrapper, `C++_TcpSocket` | a class library no program uses, which does not compile as it stands (`socketlen_t`, `static_cat`, members named differently in header and source): it has no behaviour to be faithful to. `IOCompletionPort.h` does not compile either, but for names only (section 7), and is modelled |
| hello world, `Hello_socket` | one message, in a straight line |
| name lookup and socket options, `gethost_window`, `buffer_win` | print what the system returns |
| prime search with one thread | a plain loop over the test that `PrimeWorkers` contains |

### How parts interact

Servers and clients meet only through TCP connections, which the models contain
as counters or sequences of bytes. The threads of one program share variables,
handles and kernel objects; an interleaving point lies between any two steps
that touch them. Completions reach a program through a port (any worker, first
come) or as routines in an alertable wait (the thread itself, in order).

## 2. Modules

| module | models | actions and what they are in the code |
|---|---|---|
| `EchoService` | the promise | `Ask`, `Leave` and `Abort` of a client, `Echo` and `Drop` of the server: replies are a prefix of what was asked, only a client that has left is dropped, and the rest of the echo follows. With `MayHalt` the server's process may end (`Halt`), and every connection with it |
| `IocpEcho` | IOCP server | `Accept` is the body of the accept loop; a worker's pass through `EchoThreadMain` is `Dequeue` and one action per access to shared memory or sockets (`Deref`, `PostSend`, `PostRecv`, `CloseSock`, `FreeBoth`, `FreeIo`); `RecvData`, `RecvEnd`, `SendDone`, `SendAbort` are the kernel |
| `ComplRoutineEcho` | routine server | `RunApc` runs one queued routine (`ReadCompRoutine`, `WriteCompRoutine`), `Wake` leaves `SleepEx`, `Accept`, `AcceptNone` and `AcceptError` are the outcomes of the non-blocking accept. The routines are one action each, because nothing else runs meanwhile in this process |
| `IocpPort` | `IOCompletionPort` | `FindSlot`, `Accept`, `PostFirst` of the accepter; `Dequeue`, `SendMsg`, `BindRecv`, `HangUp`, `ClearSlot` of a worker, each of which re-reads `m_socketClient` as the code does, but for `HangUp`, which is `shutdown`, `setsockopt` and `closesocket` on one reading of it (section 7); `StopWorkers`, `StopAccepter`, `Destroyed` are the phases of `DestoryThread`. A client in `Quitters` may leave before it has its echo, one in `Resetters` may reset; `Burst` is how far a client sends ahead |
| `SelectServer` | `select` server | `Select` packs the ready sockets into the copy; `ScanSkip`, `Accept`, `Echo`, `HangUp` and `RecvFails` treat one index of the pass each, and `HangUp` takes the entry at an index out of `reads`, as the macro `FD_CLR` does |
| `IterativeEcho` | iterative server, both clients | one action per call that can wait; `AcceptFails` ends the process (`Exit`) |
| `ChatServer` | chat server and client | `Accept` (any free number), `AcceptFails`, `Register`, `Spawn` of `main`; `Start` (which reads the pointer), `Recv`, `Lock`, `SendOne`, `Unlock`, `Deregister`, `CloseSock` (which frees the number) of a handler. `Register` and `Deregister` hold the mutex for one action, since nothing in them waits. Handlers are numbered by the calls of accept, not by clients; `own` and `heirs` are history: what accept returned for each handler, and who was given a number that the table still listed |
| `WebServer` | web server | `Accept` of `main`; `Recv`, `Open`, `SendPiece`, `ErrClose`, `Close` of a handler: one action per use of the handle, each single `send` of a header, of a line of the file or of the error text included (`todo` is what is left to send), so that another accept can come between any two of them. `Crash` is the file name without an extension |
| `Calculator` | calculator | `RecvCount`, `RecvBody`, `Reply`, `AcceptFails` (nobody looks, and the server is trapped); the client's request as one send, `Abandon` and `Negative` for a client that never sends it |
| `PrimeWorkers`, `SyncSema`, `DeadlockExample` | thread examples | one action per locked body or per kernel call; loads and stores apart where the lock is the question |
| `SyncCounter` | the counting threads, with the lock (`Next`) and without it (`RaceInit`, `RaceNext`), the latter as x64 builds run them | load, store, lock and unlock apart |
| `TornCounter` | the counting threads without the lock as the x86 build runs them | load and store of each 32-bit half apart, in any order but that the carry comes before the high half is stored |
| `SyncEvent` | event example | `Main` reads the line, sets the event, waits and resets; each reader's wait, loop and printf |
| `RacyPrimes` | prime search without locks | `num++` is `Load` and `Store`, the copy to `n` a `Read` of its own; a `Push` that another overlaps may crash or leave any part of the vector |
| `HalfClose` | file transfer | `Accept`, `SendBlock`, `Shutdown`, `RecvThanks`; `Connect`, `RecvBlock`, `RecvEnd`, `RecvFails`, `Thank`; `Break` is the network |
| `OverlappedOnce` | the overlapped pair | `PostSend`, `WaitSend`, `CloseSend`; `PostRecv`, `WaitRecv`, `ShowBuf` for both receivers, told apart by `waits`; `SendCompletes`, `RecvCompletes` are the kernel |
| `OobData` | the out-of-band pair | `Send`, `Close`; `Arrive` is TCP with its urgent pointer; `Select`, `Except`, `Read` |
| `News` | multicast news | `Fgets`, `Sendto`; `Join`, `Recvfrom`, which may find any datagram ever sent, any number of times |

`MCChatServer` and `MCWebServer` add the symmetry and the requests of a small
instance. `ThreadSuite` and `SocketSuite` put programs that are small side by
side, seven and six, with a variable `program` that says which of them runs. It
is chosen in the initial state and never changes, the state of the others does
not change either, and the fairness of a program is assumed when it is the one
that runs; so a run of the suite is a run of each of its programs.
`ThreadSuite` has `SyncSema`, `SyncCounter` with and without its lock,
`TornCounter`, `DeadlockExample`, `SyncEvent` and `RacyPrimes`; `SocketSuite` has
`IterativeEcho`, `Calculator`, `HalfClose`, `OverlappedOnce`, `OobData` and
`News`. Properties of an instanced program are restated there in its name, and
those about ends are one property for the suite (`ThreadsEnd`, `AllServed`).
Both suites are for any values of the constants; `MCThreads` and `MCSockets`
add the values of a small instance.

`IocpEchoProofs`, `ComplRoutineEchoProofs`, `IocpPortProofs`, `ChatServerProofs`,
`WebServerProofs`, `SelectServerProofs`, `ThreadSuiteProofs` (which also has the
theorems about `PrimeWorkers`) and `SocketSuiteProofs` hold theorems.
Definitions named `X_y`, with the comment "Mutated form", are not part of the
models: they are variants of `X` with a plausible bug, one for each property,
which violate it when they replace `X`.

Byte `i` of a stream is the number `i` (or the pair of connection and number
where streams of several clients could mix), so lost, doubled, reordered and
foreign bytes can all be seen, and a buffer is an interval or a sequence of
such bytes.

## 3. Runs and bounds

Runs that pass:

| run | question | bounds, and why they are enough |
|---|---|---|
| `iocp` | ownership of connections and blocks, conservation of echo data, `EchoService` implemented, leavers cost nothing in the end | 2 clients, one of which may reset, 2 bytes, 2 workers: two workers are the fewest that can hold two completions of one connection; the theorems of section 5 lift the safety part to all sizes |
| `compl` | one activity per connection, with a receive window that never closes; use of freed blocks; `EchoService` up to the end of the process; leavers answered and cleaned up | 2 clients, both of which may reset at any time, also before they are accepted (which ends the process), 3 bytes, buffer 2: the window shrinks once and then has to serve again |
| `ioport` | a slot's buffer used by one receive, echo faithful, only leavers closed, clients served to the end: all until a client has been rude; `DestoryThread` ends and leaves no thread: always | 2 connections that can use one slot one after the other, 2 slots, 2 workers; one client may leave early or reset, and the class may be destroyed at any moment |
| `chat_safety` | one conversation, no line twice, only leavers closed, with numbers that are given out again | 3 clients, 2 of which may leave or reset, 3 numbers, 3 calls of accept (`MaxAccepts`), which may fail, a line each: removal in front of, at and behind another entry of the table, a number given out again while it is listed or while a second handler has it; 10.8 million states |
| `chat_fair` | delivery | 2 clients, both of which may leave, 2 numbers, 2 calls of accept, a line each and room for one, so that a send can block; 79,000 states |
| `select` | the listener, watching, what the index mix-up can reach, whole and faithful answers | 3 clients of which two may leave and one may reset, a set with room for the listener and 2 of them, so that one is accepted when it is full; what is safety here is proved for all sizes |
| `prime` | each prime once, no number missed | 3 workers, numbers below 10, so that each worker can be given several and the first odd composite, 9, is there |
| `threads` | semaphore hand-over; exact counts under the lock, and what a race can do to them; the event's readers; how far racing searchers fall back; that all of it ends, and in which one way the opposite lock orders stop | the code's 5 rounds for the semaphores; 2 threads up, 1 down, rounds that add 0, 1 and 2 (the two halves: 1 up, 1 down, a low half of 8 values, so that sums borrow and carry); ints modulo 4 for the locks; lines up to 3 characters, with a newline and without, for a string of 4; 2 racing searchers below 4, enough for a store to throw the counter back |
| `sockets` | echo: whole echoes, turns; calculator: framing and result; file, overlapped and out-of-band pair, news: what section 1 says of them; that each serves or ends | echo: a simple and 2 stable clients for a server of 2, messages up to 2 bytes in pieces; calculator: 2 users, the second finds the first one's bytes in the buffer, operands of 2 bytes, so that a piece can end inside one, an int of 3 bits, so that results wrap; files of 0 to 5 bytes in blocks of 2; the code's own four urgent and ordinary sends; news of up to 4 characters with newlines anywhere, in pieces of up to 2 |
| `web` | where the harm of a double close can come from; every request answered while no harm is possible | 3 clients over 2 handles, so that a handle is used again while its former thread still runs; one stream, so that they run out; requests for files there and not there, with another method, without HTTP, and without an extension. A header is two sends instead of four (`HeaderLines`) and the file one line, so that an answer is three sends, any two of which another thread can come between |

`ioport_echo` and `select_closed` are runs in which TLC finds a violation; they
are described in section 6.

The three properties of `chat_safety` say how far two mistakes of the code reach,
and both mistakes are in reach of the instance: without the exception for a
number that was still listed `NoDoubleDelivery` is violated, and without the one
for a number taken by another's handler `OnlyLeaversClosed` is. `Agreement`
needs its exception, too, but a client listed twice and two more who can
tell take four calls of accept, which is beyond TLC. The theorems of section 5
are about any number of calls.

"Rude" in `IocpPort` is a client that resets, or leaves before it has all its
echo. After that a completion of its connection may meet the next user of the
slot, and most of what the class does can go wrong (section 6); the run shows
that nothing else is needed for the class to work, and that `DestoryThread` ends
in any case.

`TypeOK` in a module states what values its variables take. No run keeps it among
its properties, because others say more; it is proved where there are proofs
(section 5).

In `WebServer` a request can do harm when its thread closes a handle twice: no
HTTP, or a method other than GET. `GetsAnswered` is about behaviours without one;
`HarmByHandle` is about all of them, and says from which thread harm comes.

`CHECK_DEADLOCK FALSE` is set in all of them because every model may stop: the
clients are finitely many and send finitely much, and what must not stop is
stated as a liveness property.

Symmetry is used in `chat_safety` only, for interchangeable clients and socket
numbers, and not with
liveness properties, for which it is not sound.

## 4. Fairness

Clients are never forced to send or to leave, and in `ChatServer` not even to
read (`Delivery` names a client that stops reading for good, `Held`, as its
only exception), except where a property is about
those who do (`IterativeEcho`: a user has a last message and enters q; a
user of `WebServer` sends a request or leaves; the senders of `HalfClose`,
`OverlappedOnce`, `OobData` and `News` are programs without a user, and run). Assumed is, per module:

* Threads run: weak fairness of each thread's step. In `IocpEcho` a completion
  in the port is taken by some worker, not by each.
* The kernel finishes what it has begun: a receive for which there are bytes, or
  an end, or a send to a client that is there; in `OverlappedOnce` a pending
  operation completes, with an error if the connection has broken.
* TCP delivers what was sent on a connection that does not break (`Calculator`,
  `OobData`). Nothing is assumed of the datagrams of `News`.
* The stable client receives
  what it waits for (`IterativeEcho`), users answer the questions asked
  (`Calculator`, `WebServer`).
* Strong fairness only for `hMutex` in the chat server, and for `main`, which
  takes the same mutex: a Windows mutex is handed to its waiters in order of
  arrival, so a thread that keeps asking gets it, even if it is free only now
  and then. With weak fairness the handlers of clients that have reset, which
  take and release it for ever, could keep all others out.

No fairness is assumed of resets and breaks, of early ends (`Abandon`, a `Fin` before the
echo is complete), or of clients that merely may leave.

## 5. Proofs

For every value of the constants within their named assumptions, checked by
TLAPS. Every invariant and every action property of a passing run is among what
is proved; the inductive invariants were first checked by TLC on the instances of
section 3.

**`IocpEchoProofs`**: `TypeOK`, `OneReceive`, `NoUseAfterClose` and
`DanglingOnlySends` are invariants for any set of clients and of workers, any
number of bytes and any buffer size. None of them is inductive. The argument is
that the receive of a connection is a token which is in exactly one place, with
the kernel, in the port, or with one worker between its dequeue and the next
`WSARecv`, and that the token's place is what keeps socket and
`PER_HANDLE_DATA` alive. `IInv` therefore adds: a worker holds the block its
place in the code calls for, in the right mode (`WorkerHolds`); no two workers
hold one block (`HoldersDistinct`); pending sends are distinct `WRITE` blocks
(`SendsQueued`); a receive in flight, or about to be posted, finds its socket open and its
key live, up to the two steps that end the connection (`ReceiveAlive`); and
nothing is allocated before accept (`NothingBeforeAccept`). `DanglingOnlySends`
then says which completions may meet a freed key: those of sends only.

On top of this stands what happens to the bytes: `EchoConserved`, and
`ImplementsEchoSafely`, that every step is one of `EchoService` or none. The
stream of a client that has not reset is, in this order, what it got back, the
pending sends, each beginning where the one before it ends (`Row`), and the
block of the completed receive, which ends where reading has come to (`Front`).
There is at most one such block, because the receive is a token: that is why
workers cannot reorder an echo, however many there are. `AInv` adds what a
worker knows after its branch on the length (`Branch`), that no receive is
posted on a block that was sent (`Posted`), that no more is read than was sent,
and that only sockets whose client has gone are closed. One lemma per action shows that the
account is kept; the step simulation then follows, because only the delivery of
a send and the close of a socket change what `EchoService` sees of a server.

**`ComplRoutineEchoProofs`**: `TypeOK`, `OneActivity`, `NoUseAfterFree`, for any
clients, bytes and buffer size. Here, too, a connection has one token, its
operation or its routine in the queue. `IInv` says that queued routines are of
different clients and none of them has an operation besides (`Distinct`), that
whoever has a token has an open socket, its block, and a window that is not
zero (`Waits`, `Works`), that every connection not reset has a token (`Alive`),
and that the length of the last receive is among what has been read
(`LastRead`). The window never closes because it is never set to anything but
the length of a receive that was not empty.

`ImplementsEchoSafely` is the step simulation of `EchoService`. It needs to know
how many bytes are out at each place of the token: in a receive, as many as have
been read (`Counted`); in a send or in a routine of a receive, all but those of
this receive (`Carried`); and that who is disconnected has left (`Ends`).

**`IocpPortProofs`**: `OneReceive`, `EchoFaithful` and `OnlyLeaversClosed`, for
any connections, slots, workers, bytes and buffers. All three hold until some
client has been rude, and so does most of the invariant: `IInv` is `TypeOK`, the
lengths at hand (`Shape`), and `Rude \/ Polite`. Once `Rude` is true it stays
so; what has to be shown is that without it every step keeps `Polite`. That is
again an account of a token, this time of a slot: it is with the accepter,
which is posting its first receive, with the kernel, in the port, or with a
worker (`OneToken`). Whoever has it knows how far the connection in the slot
is (`Known`): at a receive all that was read is echoed or under way (`Caught`),
in front of a send the buffer holds what comes next (`Full`), at a hang-up the
client has left with all its echo (`Over`). The connection cannot change
meanwhile, because only the holder of the token empties a slot. `Lives` says that
the pending sends of a connection follow one another without a gap (`Row`), that
a closed connection had an end, and that no two slots have the same connection.
`EchoFaithful` is about bytes in
buffers that are overwritten, and has the hypothesis `Burst <= 1`: `EInv` adds
that no client is ahead of its echo by more than a byte, and therefore no send
buffer is written while the kernel still has it (`Untouched`). That the
hypothesis cannot go is what the run `ioport_echo` shows.

**`ChatServerProofs`**: `TypeOK`, `NoDoubleDelivery`, `OnlyLeaversClosed`, for
any set of clients and of socket numbers, any number of lines and of calls of
accept. What the removal loop takes out may be the wrong entry, the number it
keeps may be given out again, and two handlers may have one number; `IInv` shows
what survives that. `Room` counts: the table has one entry for each handler that
has not taken one out, so `clntCnt` is never negative although it is decremented
whether or not the loop has found its number. `Numbers`: an open number leads to
the client it was given to. `Table`: a client whose number was not listed when
accept gave it out is listed once at most, because the loop copies entries down
and never makes two of one, and not before `main` enters it. `Lines`: a line is
with one handler only, and in no inbox of such a client that this handler still
has to come to; that two handlers may serve one client does no harm, since each
`recv` takes lines away. `Leaving` is about a number `n` that no handler has
taken in place of its own (`Tainted`): one handler at most is there for it, it is
not free as long as that handler is there, and the handler leaves its loop only
if the client has quit (`Sole`). A handler that has taken a number stays in the
account for good, so the exception of `OnlyLeaversClosed` never has to be taken
back.

`Agreement`, that all in the room have one conversation, is about inboxes that
a broadcast under way has reached or not. `Talk` counts what a member has
together with what the handler that holds the mutex still has to give it
(`ToHave`), and says that these end alike for any two members (`SameTalk`); a
newcomer has nothing (`Newcomers`). A broadcast gives a line to all members at
its beginning, in this account, and its single sends change nothing: a member
that is no heir of a listed number is in the table once. The removal loop does
no harm to it: it runs while nobody broadcasts, when what a member is to have
is its inbox, and it only makes the members fewer.

**`WebServerProofs`**: `TypeOK` and `HarmByHandle`, for any clients, requests,
handles, streams and files, and any length of the headers. A thread owns its
handle from accept to its first close
(`Own`: the socket is that of its client, and no other thread that is still to
use its handle has the same one), and what the client has and what the thread
is still to send make up the answer, at every send (`Progress`). `Alone` says this of every client but
those for which a thread with a bad request has run on the same number. It is
inductive because a handle that accept finds free is that of no owner: whoever
still runs on it has a bad request, or was harmed by one that has.

**`SelectServerProofs`**: `TypeOK`, `ListenerSurvives`, `Watched` and
`CutOffNeedsCrowd`, for any finite set of clients and any `FD_SETSIZE`. The
hang-up removes an entry of `reads` and closes the entry at that index in the
copy, so that the invariant is about two arrays and one index. `Watching`: the
listener is the first of `reads`, and no socket is in there twice. `Copied`: it
can only be the first of the copy, too, because `select` packs what is ready
without changing the order; the index of a client is never the first, and so
the listener is never the one that is closed. `Within`: whatever is in both
arrays stands in `reads` at an index that the copy has as well, also after
entries have been taken out in front of it. `Paired`: as long as `select` has
reported only one client, the client has the same index in both. The first
form of `CutOffNeedsCrowd` said that the listener was not ready, which is true
of a set of three and false of larger ones: the proof failed where TLC, given
four clients, then found why. `Select` is written with the increasing
enumeration of the ready positions because the prover has no definition of
`SelectSeq` to expand.

**`ThreadSuiteProofs`** and **`SocketSuiteProofs`** rest on `SuiteSteps`: a step
of a suite is a step of one program, and no step of the others. What all steps
of a program keep is then kept by the suite.

* Semaphores (`HandedOver`, `NoLostRelease`, `ResultExact`; any number of rounds,
  any inputs): one baton passes between the threads, and `SemaInv` states for each
  of its six places what the sum, the number and the loop counters are.
* Counting threads (`Counts`; any threads and rounds). Under the lock `num` is
  what the threads that are through have made of it, plus the rounds of the
  lock's owner (`LockInv`). Without it `num`, and every value that a thread has
  loaded, is between minus what the one group has made and plus what the other
  has (`RaceInv`). With two halves (`TornInv`; any size of the low one that holds
  what a round adds) the low half, and what a thread has in its register for it,
  are those of a number within such bounds, and the high half is within the
  carries and borrows of the stores so far; the numbers that the halves make up
  together are not bounded, since 0 - 1 shows 4294967295 for a while. That
  takes sums over sets; their laws are proved here from
  the fold that defines them.
* Two locks: who is between its Enter and its Exit owns the section
  (`LocksInv`). Both threads are kept out at once only in one state
  (`OneWayToStop`), which is never left (`StuckForGood`): the safety part of
  what `ThreadsEnd` says of them.
* Event (`CountsOfLine`; any line, any `STR_LEN`): each reader's count is that of
  the characters it has passed (`EventInv`), and there is one newline at most.
* Prime search without locks (`NeverFurtherBack`; any threads and bound): a
  value stored to `num` is one more than one that was loaded, and no value
  loaded was below the bound.
* Prime search with locks (`TypeOK`, `FoundOnce`, `NothingMissed` of
  `PrimeWorkers`): `PrimesInv` accounts for every number. Those given out
  and accepted by the test are in the vector or with exactly one worker (`Held`,
  `Sound`, `Covered`), and a worker ends only when all have been given out
  (`Over`). `NothingMissed` is about primes, not about what the test says:
  `TestIsPrimality` shows that the code's trial division accepts the primes and
  nothing else.
* File transfer (`ThanksMeanStored`; any lengths): the end of the stream stands
  for the whole file (`WholeAtEnd`), garbage is written only where there will be
  no end (`GarbageLate`), and a client through its loop has seen the end
  (`Through`).
* Overlapped pair (`FramesOutliveOperations`): a program with an operation
  pending is at the wait for it (`OverInv`).
* Urgent data (`LastUrgentSeen`): what is printed was sent, once and in one of
  the two ways (`Printed`), and what `select` found is still so when the results
  are used (`Found`).
* Iterative echo server (`StableComplete`, `OneAtATime`; any clients and
  messages): had, sent back, received and sent follow one another (`Streams`),
  and a stable client waits for as much as it does not have (`Waits`).
* News (`NewsInOrder`; any file that is not empty): each piece begins where the
  one before it ends, but for the last, which may be sent twice (`Read`).
* Calculator (`CalcRight`; any users, operands and width of an int). `Serving`
  says that the bytes received of the client being served are the count and what
  is in front of `recvLen`, however they were cut. The result is the exact one
  wrapped once, although the code wraps at every step: `WrapOnce` and the
  lemmas before it show by induction over the operands that the two differ by a
  multiple of the width.

Induction over data is not in the prover's reach as a library theorem, which
takes its property as an operator. Where a proof needs it (sums, folds over
operands, prefixes of a sequence) it takes a least counterexample instead,
which `Least` provides from the library's fact that strict inclusion of finite
sets is well-founded.

Only model-checked: what is promised under fairness. These are
`LeaversCleanedUp`, `ServedToTheEnd`, `DestroyEnds`, `Delivery`, `Answered`,
`GetsAnswered`, `ThreadsEnd`, `AllServed` and the fair part of `EchoService`. TLAPS
does not reason about `ENABLED`, on which fairness is defined. `OneWayToStop`,
`NoLostRelease`, `ResultExact` and the type invariants are only proved.

## 6. What the models show about the code

| run | what happens |
|---|---|
| `ioport_echo` | a second echo overwrites the send buffer of the first, which is still under way, and the client gets the second message twice. A client that has sent two messages ahead is enough: `Burst` is 1 in `ioport` and 2 here |
| `select_closed` | when two clients are ready and one is at its end, the other one is closed, and the next `select` fails on it and ends the server |

The passing runs show how far the trouble reaches: `CutOffNeedsCrowd` that the
`select` server cuts off a healthy client only after one `select` has reported
several clients, and `ListenerSurvives` that the listener is never the
one; `HarmByHandle` that a GET never harms anybody in the web server;
`Agreement` and `NoDoubleDelivery` that the chat's removal loop spoils the
conversation, or doubles a line, only for a client that accept gives a number
the loop has left in the table; `OnlyLeaversClosed` that a chat client is cut off
only on a number that another's handler has taken;
`ThreadsEnd` that the two locks have one way to stop, each thread in its first
section; `NeverFurtherBack` that the racing prime search does not throw itself
back for ever.

Reachable in the models, and the reason why properties are stated up to them:

* `IocpPort`: `mClientCnt` counts the connections ever made, not those that are
  up; a failed send of a client that has gone closes the next client of its slot
  (line 307); a reset that makes `BindRecv` fail (line 321) leaves the slot
  occupied for ever; the accepter ends when all slots are in use (line 347), and
  freed slots are never filled again.
* `ChatServer`: two clients accepted in quick succession share the later one's
  socket (lines 57, 63 and 72), and the earlier one is not served. Both handlers
  close it in the end (line 95), and the second may hit a client that was
  given the number meanwhile. When one of three clients leaves, the loop of line
  86 takes another one out of the table and keeps the leaver; the next client
  accepted on that number is listed twice and sent every line twice (line 104).
  A handler that a `send` keeps waiting holds `hMutex` for as long (`Held`).
  `clntCnt` is not compared with `MAX_CLNT` (line 60): the table of the model has
  room for all clients.
* `WebServer`: a handler closes a handle again (line 80), or answers on it again
  (line 92), after it has become another client's; nothing else goes wrong
  with a connection (`HarmByHandle`). A file name without an
  extension ends the process. A file with the extension `htm` is answered as
  plain text, because line 152 copies where it means to compare.
* `DeadlockExample`: each thread in its first section, for ever; the comment at
  line 89 says that the program loops for ever.
* `IocpEcho`: a client that resets leaks a block; a completion of a send may
  read a freed `PER_HANDLE_DATA`, and `DanglingOnlySends` bounds it to sends.
* `OverlappedOnce`: the receiver with the routine does not look at what `WSARecv`
  returns (line 70 of `CmplRoutinesRecv_win.cpp`). When it fails no routine will
  come, and the alertable wait has no end.
* `HalfClose`: a `recv` that returns -1 does not end the client's loop (line 42),
  which then goes round for ever and hands -1 to `fwrite` as a size.
* `OobData`: of two urgent bytes only the later is sure to be printed as urgent. A
  failed `recv` makes the receiver write in front of its buffer.
* `News`: the last piece is sent twice when its newline, or the end of the buffer,
  comes before `feof` can know (line 45); an empty file sends a buffer that nothing
  was ever written to.
* `SyncEvent`: the count of other characters is one too low for a line without a
  newline (line 57).
* `RacyPrimes`: numbers are tested again or skipped, primes are lost from the
  vector, and two overlapping `push_back` may crash it. `NoneBelow` does not look
  at threads that have ended or crashed.
* `SyncCounter`, `TornCounter`: without the lock updates are lost; in the x86
  build the halves of the number may be of different stores besides.
* `Calculator`: the server is trapped by a client that ends before it has sent
  its request, or never sends one because a count below 0 was entered (line 64 of
  `Op_client_win.cpp`), and by an accept that fails. `IterativeEcho`: it is trapped by one that resets.

## 7. What is abstracted

* Starting Winsock, creating, binding and listening: a straight line to `exit`
  on failure. Every model begins with a listening server.
* Text, and the printing of it. A line or message is an index, and the split of
  lines longer than a buffer is left out in `ChatServer`.
* `IOCompletionPort.h` does not compile as it stands: `CreateClient` is called and
  `Createclient` defined (lines 114 and 163), and `stOVerlappedEx` and
  `m_stSendOVerlappedEx` (lines 38 and 248) differ by a letter's case from what is
  declared. The model takes these for the names that are meant. The class of
  `C++_TcpSocket` is left out instead because there nothing shows what is meant.
* `HangUp` of `IocpPort` is `shutdown`, `setsockopt` and `closesocket` (lines 396-402),
  each of which reads the socket of the slot again. Only the holder of the
  slot's token empties the slot, so the three agree until somebody is rude;
  afterwards they might be on two connections, of which the model has one.
* Clients of the chat connect once; a client that comes again is another one.
* A blocking `send` puts its data into the socket buffers at once or waits for
  room for all of it. In `SelectServer` clients read what they are sent.
* In `SelectServer` the part of the copied `fd_set` behind its count is as
  `select` of Winsock leaves it, unchanged.
* A request of the web server is what its first `recv` returns. What `strstr`
  would find behind the end of those bytes is taken to be nothing.
* Undefined behaviour is a choice where the outcomes are few (a send completed
  on a freed key, the simple client that writes its terminator in front of the
  buffer, a calculation without operands). Where it is a race, a load
  and a store are steps of their own (`SyncCounter`, `RacyPrimes`), and two
  overlapping `push_back` of a `std::vector` either crash the process or leave
  any part of what it held.
* `HalfClose` counts bytes and does not look at them, `News` has positions in the
  file instead of text, and `OverlappedOnce` the length of what was received.
* In the calculator: operand counts above 255, which fit neither the count byte
  nor the buffers; input that is no number, with which count and operands are
  what the variables held before; what a count below 0 writes in front of the
  client's buffer; and that a `recv` which keeps failing takes 1 from `recvLen` each
  time, which would wrap around after two thousand million calls.

## 8. Plan

Done, in this order: `EchoService`, `IocpEcho` with proofs,
`ComplRoutineEcho`, `IocpPort`, `ChatServer`, `SelectServer`, `PrimeWorkers`
and `SyncSema` with proofs, `SyncCounter`, `DeadlockExample`, `IterativeEcho`,
`Calculator`, `WebServer`; then `HalfClose`, `OverlappedOnce`, `OobData`,
`News`, `SyncEvent`, `RacyPrimes` and the race of `SyncCounter`, and proofs for
`ComplRoutineEcho`, `ChatServer`, `WebServer`, `HalfClose` and `RacyPrimes`; then
the account of the bytes and the step simulation of `EchoService` by the two
overlapped servers; last the socket numbers of `ChatServer`, the single sends of
`WebServer` and `TornCounter`.
Every program whose state two parties share has its module now; those left
out, and why, are in section 1.

Proofs came last for `IocpPort`, `Agreement` of the chat, `SelectServer`, and all
that the two suites state. What remains is liveness (section 5), which is out of
the prover's reach, and the step simulation of `EchoService` for the other echo
servers, which state their promise themselves (`EchoFaithful`, `StableComplete`).

## Running

    tlc -config IocpEcho.cfg IocpEcho.tla
    tlc -config Sockets.cfg MCSockets.tla
    tlapm IocpEchoProofs.tla

The longest run, `chat_safety`, takes two to three minutes; `iocp`, `ioport`, `sockets`
and `web` take about a minute each.
The proofs of `IocpEcho`, `IocpPort`, `ChatServer` and `SocketSuite` take a few
minutes each, the others one or less.
