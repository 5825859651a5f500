------------------------------- MODULE IocpEcho -------------------------------
(***************************************************************************)
(* The I/O completion port echo server (IOCPEchoServ_win.cpp).             *)
(*                                                                         *)
(* main accepts clients and posts one overlapped WSARecv for each; a pool  *)
(* of worker threads takes completions from the port.  A completed receive *)
(* is turned into a WSASend of the same PER_IO_DATA and a new WSARecv with *)
(* a fresh PER_IO_DATA; a receive of zero bytes closes the connection; a   *)
(* completed send frees its PER_IO_DATA.                                   *)
(*                                                                         *)
(* Every worker step that touches shared state is an action of its own, so *)
(* the workers interleave with each other, with the kernel and with the    *)
(* clients.  Memory is explicit: handle[c] is the PER_HANDLE_DATA of       *)
(* client c (the completion key) and io[c][n] the n-th PER_IO_DATA         *)
(* allocated for c, so that freed memory and leaks are visible.  Byte i of *)
(* a client's stream is the number i; a buffer is the interval (lo, hi].   *)
(***************************************************************************)
EXTENDS Naturals, Sequences

CONSTANTS
    Clients,    \* the clients that may connect
    Resetters,  \* the clients that may break off with a reset
    Workers,    \* the worker threads, one per processor
    MaxBytes,   \* bound: bytes a client sends
    BufSize     \* BUF_SIZE

ASSUME IocpAssumption ==
    /\ Resetters \subseteq Clients
    /\ MaxBytes \in Nat
    /\ BufSize \in Nat \ {0}

VARIABLES
    sent,    \* sent[c]: bytes client c has sent
    peer,    \* peer[c]: what the client's end of the connection has done
    read,    \* read[c]: bytes handed over by completed receives
    sock,    \* sock[c]: the server's socket for c
    handle,  \* handle[c]: the PER_HANDLE_DATA of c
    io,      \* io[c]: the PER_IO_DATA blocks of c, in order of allocation
    sendq,   \* sendq[c]: blocks with a pending WSASend, oldest first
    out,     \* out[c]: the bytes delivered back to c
    pc,      \* pc[w]: where worker w is in EchoThreadMain
    job      \* job[w]: the <<client, block>> worker w has dequeued

clientVars == <<sent, peer>>
connVars   == <<sock, handle>>
dataVars   == <<read, sendq, out>>
workerVars == <<pc, job>>
vars == <<clientVars, connVars, dataVars, io, workerVars>>

NoJob == <<>>

\* Where a PER_IO_DATA is: with the kernel (recv, send), in the completion
\* port (done), in the hands of a worker (held), freed, or lost: allocated,
\* but no completion will ever report it.
Places == {"recv", "send", "done", "held", "freed", "lost"}

Block == [at : Places, mode : {"READ", "WRITE"}, lo : Nat, hi : Nat]

PCs == {"idle", "deref", "send", "recv", "close", "free", "freeio"}

TypeOK ==
    /\ sent   \in [Clients -> Nat]
    /\ peer   \in [Clients -> {"idle", "up", "fin", "rst"}]
    /\ read   \in [Clients -> Nat]
    /\ sock   \in [Clients -> {"none", "bad", "open", "closed"}]
    /\ handle \in [Clients -> {"none", "live", "freed"}]
    /\ io     \in [Clients -> Seq(Block)]
    /\ sendq  \in [Clients -> Seq(Nat)]
    /\ out    \in [Clients -> Seq(Nat)]
    /\ pc     \in [Workers -> PCs]
    /\ job    \in [Workers -> {NoJob} \cup (Clients \X Nat)]

Bytes(from, to) == [i \in 1 .. (to - from) |-> from + i]

NewRecv(place) == [at |-> place, mode |-> "READ", lo |-> 0, hi |-> 0]

Init ==
    /\ sent   = [c \in Clients |-> 0]
    /\ peer   = [c \in Clients |-> "idle"]
    /\ read   = [c \in Clients |-> 0]
    /\ sock   = [c \in Clients |-> "none"]
    /\ handle = [c \in Clients |-> "none"]
    /\ io     = [c \in Clients |-> <<>>]
    /\ sendq  = [c \in Clients |-> <<>>]
    /\ out    = [c \in Clients |-> <<>>]
    /\ pc     = [w \in Workers |-> "idle"]
    /\ job    = [w \in Workers |-> NoJob]

-----------------------------------------------------------------------------
(* The clients. *)

Connect(c) ==
    /\ peer[c] = "idle"
    /\ peer' = [peer EXCEPT ![c] = "up"]
    /\ UNCHANGED <<sent, connVars, dataVars, io, workerVars>>

Write(c) ==
    /\ peer[c] = "up"
    /\ sent[c] < MaxBytes
    /\ sent' = [sent EXCEPT ![c] = @ + 1]
    /\ UNCHANGED <<peer, connVars, dataVars, io, workerVars>>

Fin(c) ==
    /\ peer[c] = "up"
    /\ peer' = [peer EXCEPT ![c] = "fin"]
    /\ UNCHANGED <<sent, connVars, dataVars, io, workerVars>>

Reset(c) ==
    /\ c \in Resetters
    /\ peer[c] \in {"up", "fin"}
    /\ peer' = [peer EXCEPT ![c] = "rst"]
    /\ UNCHANGED <<sent, connVars, dataVars, io, workerVars>>

-----------------------------------------------------------------------------
(* main: accept a client, associate its socket, post the first receive.    *)
(* Neither accept's nor WSARecv's result is looked at.                     *)

Accept(c) ==
    /\ sock[c] = "none" /\ handle[c] = "none"
    /\ \/ /\ peer[c] \in {"up", "fin"}
          /\ sock' = [sock EXCEPT ![c] = "open"]
          /\ io'   = [io EXCEPT ![c] = Append(@, NewRecv("recv"))]
       \/ /\ peer[c] = "rst"
          /\ \E s \in {"bad", "open"} : sock' = [sock EXCEPT ![c] = s]
          /\ io'   = [io EXCEPT ![c] = Append(@, NewRecv("lost"))]
    /\ handle' = [handle EXCEPT ![c] = "live"]
    /\ UNCHANGED <<clientVars, dataVars, workerVars>>

-----------------------------------------------------------------------------
(* The kernel completes overlapped operations. *)

Complete(c, n, lo, hi) ==
    io' = [io EXCEPT ![c][n].at = "done", ![c][n].lo = lo, ![c][n].hi = hi]

RecvData(c) ==
    /\ sock[c] = "open" /\ peer[c] \in {"up", "fin"}
    /\ \E n \in DOMAIN io[c], k \in 1 .. BufSize :
          /\ io[c][n].at = "recv"
          /\ read[c] + k <= sent[c]
          /\ Complete(c, n, read[c], read[c] + k)
          /\ read' = [read EXCEPT ![c] = @ + k]
    /\ UNCHANGED <<clientVars, connVars, sendq, out, workerVars>>

\* End of stream, a reset, or a closed socket: zero bytes.
RecvEnd(c) ==
    /\ \/ peer[c] = "fin" /\ read[c] = sent[c]
       \/ peer[c] = "rst"
       \/ sock[c] = "closed"
    /\ \E n \in DOMAIN io[c] :
          /\ io[c][n].at = "recv"
          /\ Complete(c, n, read[c], read[c])
    /\ UNCHANGED <<clientVars, connVars, dataVars, workerVars>>

\* The oldest pending send is delivered; bytes handed over before a
\* closesocket may still go out after it.
SendDone(c) ==
    /\ sendq[c] # <<>>
    /\ peer[c] # "rst"
    /\ LET n == Head(sendq[c]) IN
          /\ io'  = [io EXCEPT ![c][n].at = "done"]
          /\ out' = [out EXCEPT ![c] = @ \o Bytes(io[c][n].lo, io[c][n].hi)]
    /\ sendq' = [sendq EXCEPT ![c] = Tail(@)]
    /\ UNCHANGED <<clientVars, connVars, read, workerVars>>

\* After a reset or a closesocket every pending send completes with an error.
SendAbort(c) ==
    /\ sendq[c] # <<>>
    /\ peer[c] = "rst" \/ sock[c] = "closed"
    /\ io' = [io EXCEPT ![c] = [n \in DOMAIN @ |->
                 IF @[n].at = "send" THEN [@[n] EXCEPT !.at = "done"] ELSE @[n]]]
    /\ sendq' = [sendq EXCEPT ![c] = <<>>]
    /\ UNCHANGED <<clientVars, connVars, read, out, workerVars>>

-----------------------------------------------------------------------------
(* The workers: EchoThreadMain. *)

Conn(w) == job[w][1]
Blk(w)  == job[w][2]
Held(w) == io[Conn(w)][Blk(w)]

\* GetQueuedCompletionStatus hands any finished block to any idle worker.
Dequeue(w) ==
    /\ pc[w] = "idle"
    /\ \E c \in Clients : \E n \in DOMAIN io[c] :
          /\ io[c][n].at = "done"
          /\ io'  = [io EXCEPT ![c][n].at = "held"]
          /\ job' = [job EXCEPT ![w] = <<c, n>>]
    /\ pc' = [pc EXCEPT ![w] = "deref"]
    /\ UNCHANGED <<clientVars, connVars, dataVars>>

\* sock = handleInfo->hClntSock, whatever the state of *handleInfo, and then
\* the branch on rwMode and bytesTrans.
Deref(w) ==
    /\ pc[w] = "deref"
    /\ pc' = [pc EXCEPT ![w] =
                 IF Held(w).mode = "WRITE" THEN "freeio"
                 ELSE IF Held(w).lo = Held(w).hi THEN "close" ELSE "send"]
    /\ UNCHANGED <<clientVars, connVars, dataVars, io, job>>

\* Mutated form: rwMode stays READ (line 113 missing).
PostSend_sameMode(w) ==
    /\ pc[w] = "send"
    /\ io'    = [io EXCEPT ![Conn(w)][Blk(w)].at = "send"]
    /\ sendq' = [sendq EXCEPT ![Conn(w)] = Append(@, Blk(w))]
    /\ pc'    = [pc EXCEPT ![w] = "recv"]
    /\ UNCHANGED <<clientVars, connVars, read, out, job>>

\* Mutated form: wsaBuf.len keeps BUF_SIZE (line 112 missing).
PostSend_fullBuffer(w) ==
    /\ pc[w] = "send"
    /\ io'    = [io EXCEPT ![Conn(w)][Blk(w)].at = "send",
                           ![Conn(w)][Blk(w)].mode = "WRITE",
                           ![Conn(w)][Blk(w)].hi = Held(w).lo + BufSize]
    /\ sendq' = [sendq EXCEPT ![Conn(w)] = Append(@, Blk(w))]
    /\ pc'    = [pc EXCEPT ![w] = "recv"]
    /\ UNCHANGED <<clientVars, connVars, read, out, job>>

\* The block that was received into is sent; WSASend on a reset connection
\* fails at once and no completion follows.
PostSend(w) ==
    /\ pc[w] = "send"
    /\ \/ /\ peer[Conn(w)] # "rst"
          /\ io' = [io EXCEPT ![Conn(w)][Blk(w)].at = "send",
                              ![Conn(w)][Blk(w)].mode = "WRITE"]
          /\ sendq' = [sendq EXCEPT ![Conn(w)] = Append(@, Blk(w))]
       \/ /\ peer[Conn(w)] = "rst"
          /\ io' = [io EXCEPT ![Conn(w)][Blk(w)].at = "lost",
                              ![Conn(w)][Blk(w)].mode = "WRITE"]
          /\ UNCHANGED sendq
    /\ pc' = [pc EXCEPT ![w] = "recv"]
    /\ UNCHANGED <<clientVars, connVars, read, out, job>>

\* Mutated form: no new receive is posted (lines 116-121 missing).
PostRecv_none(w) ==
    /\ pc[w] = "recv"
    /\ pc'  = [pc EXCEPT ![w] = "idle"]
    /\ job' = [job EXCEPT ![w] = NoJob]
    /\ UNCHANGED <<clientVars, connVars, dataVars, io>>

\* A new block for the next receive; on a reset connection WSARecv fails.
PostRecv(w) ==
    /\ pc[w] = "recv"
    /\ LET place == IF peer[Conn(w)] = "rst" THEN "lost" ELSE "recv"
       IN  io' = [io EXCEPT ![Conn(w)] = Append(@, NewRecv(place))]
    /\ pc'  = [pc EXCEPT ![w] = "idle"]
    /\ job' = [job EXCEPT ![w] = NoJob]
    /\ UNCHANGED <<clientVars, connVars, dataVars>>

CloseSock(w) ==
    /\ pc[w] = "close"
    /\ sock' = [sock EXCEPT ![Conn(w)] = "closed"]
    /\ pc'   = [pc EXCEPT ![w] = "free"]
    /\ UNCHANGED <<clientVars, handle, dataVars, io, job>>

\* Mutated form: the continue of line 108 is missing.
FreeBoth_fallThrough(w) ==
    /\ pc[w] = "free"
    /\ handle' = [handle EXCEPT ![Conn(w)] = "freed"]
    /\ io'  = [io EXCEPT ![Conn(w)][Blk(w)].at = "freed"]
    /\ pc'  = [pc EXCEPT ![w] = "send"]
    /\ UNCHANGED <<clientVars, sock, dataVars, job>>

FreeBoth(w) ==
    /\ pc[w] = "free"
    /\ handle' = [handle EXCEPT ![Conn(w)] = "freed"]
    /\ io'  = [io EXCEPT ![Conn(w)][Blk(w)].at = "freed"]
    /\ pc'  = [pc EXCEPT ![w] = "idle"]
    /\ job' = [job EXCEPT ![w] = NoJob]
    /\ UNCHANGED <<clientVars, sock, dataVars>>

\* Mutated form: the block of a completed send is not freed (line 126).
FreeIo_leak(w) ==
    /\ pc[w] = "freeio"
    /\ pc'  = [pc EXCEPT ![w] = "idle"]
    /\ job' = [job EXCEPT ![w] = NoJob]
    /\ UNCHANGED <<clientVars, connVars, dataVars, io>>

FreeIo(w) ==
    /\ pc[w] = "freeio"
    /\ io'  = [io EXCEPT ![Conn(w)][Blk(w)].at = "freed"]
    /\ pc'  = [pc EXCEPT ![w] = "idle"]
    /\ job' = [job EXCEPT ![w] = NoJob]
    /\ UNCHANGED <<clientVars, connVars, dataVars>>

-----------------------------------------------------------------------------

Client(c) == Connect(c) \/ Write(c) \/ Fin(c) \/ Reset(c)

Kernel(c) == RecvData(c) \/ RecvEnd(c) \/ SendDone(c) \/ SendAbort(c)

Work(w) ==
    \/ Deref(w) \/ PostSend(w) \/ PostRecv(w)
    \/ CloseSock(w) \/ FreeBoth(w) \/ FreeIo(w)

Next ==
    \/ \E c \in Clients : Client(c) \/ Accept(c) \/ Kernel(c)
    \/ \E w \in Workers : Dequeue(w) \/ Work(w)

Spec == Init /\ [][Next]_vars

\* The main thread, every worker and the kernel keep running; a client that
\* is connected reads what it is sent (SendDone) but need not send or leave.
Fairness ==
    /\ \A c \in Clients : /\ WF_vars(Accept(c))
                           /\ WF_vars(RecvData(c) \/ RecvEnd(c))
                           /\ WF_vars(SendDone(c) \/ SendAbort(c))
    /\ WF_vars(\E w \in Workers : Dequeue(w))
    /\ \A w \in Workers : WF_vars(Work(w))

FairSpec == Spec /\ Fairness

-----------------------------------------------------------------------------
(* Properties. *)

\* A connection has its receive at most once: no two READ blocks of it are
\* with the kernel, in the port or with a worker, and none is while a worker
\* still has to post the next one.  This is what makes one worker at a time
\* the owner of a connection although any worker may serve it (lines 97-121).
InFlight(c, n) == io[c][n].mode = "READ" /\ io[c][n].at \in {"recv", "done", "held"}

Reposting(w, c) == pc[w] = "recv" /\ Conn(w) = c

OneReceive ==
    \A c \in Clients :
       /\ \A m, n \in DOMAIN io[c] : InFlight(c, m) /\ InFlight(c, n) => m = n
       /\ \A w \in Workers : Reposting(w, c) =>
             /\ \A n \in DOMAIN io[c] : ~InFlight(c, n)
             /\ \A v \in Workers : Reposting(v, c) => v = w

\* A worker that is about to send, receive or close on the socket it read
\* from the PER_HANDLE_DATA (lines 105, 114, 121) uses an open socket, and
\* one about to free the PER_HANDLE_DATA (line 106) is the first to do so.
NoUseAfterClose ==
    \A w \in Workers :
       /\ pc[w] \in {"send", "recv", "close"} => sock[Conn(w)] = "open"
       /\ pc[w] = "free" => handle[Conn(w)] = "live"

\* Line 98 reads *handleInfo before it looks at rwMode.  Only the completion
\* of a send can find it freed: no receive is dispatched on a stale key.
DanglingOnlySends ==
    \A w \in Workers :
       pc[w] = "deref" /\ handle[Conn(w)] = "freed" => Held(w).mode = "WRITE"

\* Echo data is conserved: the replies are the beginning of the stream, each
\* pending send goes on where the one before it ends, and a completed receive
\* goes on where the sends end, up to all that has been read; one of no bytes
\* reports that the client has left.  So however the workers take turns they
\* never reorder, repeat or lose a message (lines 97-126).

\* The block of the i-th pending send.
Sending(c, i) == io[c][sendq[c][i]]

Row(c) ==
    \A i \in 1 .. Len(sendq[c]) :
       /\ Sending(c, i).lo = IF i = 1 THEN Len(out[c]) ELSE Sending(c, i - 1).hi
       /\ Sending(c, i).lo < Sending(c, i).hi
       /\ Sending(c, i).hi <= read[c]

\* Where the pending sends end.
RowEnd(c) == IF sendq[c] = <<>> THEN Len(out[c]) ELSE Sending(c, Len(sendq[c])).hi

\* The completed receives that have not been turned into a send.
Ready(c) == {n \in DOMAIN io[c] : InFlight(c, n) /\ io[c][n].at # "recv"}

Front(c) ==
    /\ \A n \in Ready(c) :
          /\ io[c][n].lo = RowEnd(c) /\ io[c][n].hi = read[c]
          /\ RowEnd(c) <= read[c]
          /\ RowEnd(c) = read[c] => peer[c] = "fin"
    /\ Ready(c) = {} => RowEnd(c) = read[c]

EchoConserved ==
    \A c \in Clients : peer[c] # "rst" =>
       /\ out[c] = Bytes(0, Len(out[c]))
       /\ Row(c)
       /\ sock[c] # "closed" => Front(c)

\* With the mapping below the server implements EchoService.
Phase(c) ==
    IF peer[c] = "rst" \/ sock[c] = "closed" THEN "gone"
    ELSE IF peer[c] = "fin" THEN "left" ELSE "here"

Echo == INSTANCE EchoService WITH
            MayHalt <- FALSE,
            asked <- sent, reply <- out, phase <- [c \in Clients |-> Phase(c)]

\* The server implements EchoService: replies are in order and complete while
\* the client is there, and only a client that has left is dropped.
ImplementsEcho == Echo!Spec

\* A client that leaves in good order costs the server nothing in the end:
\* its socket is closed and every block allocated for it is freed (lines
\* 103-109 and 126), whichever worker got which completion.  A reset client
\* is excluded: WSASend and WSARecv failures are ignored and leak.
CleanedUp(c) ==
    /\ sock[c] = "closed" /\ handle[c] = "freed"
    /\ \A n \in DOMAIN io[c] : io[c][n].at = "freed"

LeaversCleanedUp ==
    \A c \in Clients : peer[c] = "fin" ~> CleanedUp(c) \/ peer[c] = "rst"
=============================================================================
