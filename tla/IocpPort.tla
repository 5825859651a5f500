------------------------------- MODULE IocpPort -------------------------------
(***************************************************************************)
(* The IOCompletionPort class (IOCP_Practice/Tutorial1).                   *)
(*                                                                         *)
(* An accepter thread puts each new connection into an empty client slot   *)
(* and posts its first receive; worker threads take completions from the   *)
(* port.  A slot (stClientInfo) has one receive and one send structure,    *)
(* each with its own buffer, and is at once the completion key and the     *)
(* record of the socket: workers and the accepter re-read                  *)
(* m_socketClient at every use, so they may find another connection there  *)
(* than the one their completion belongs to.                               *)
(*                                                                         *)
(* Byte i of connection c is <<c, i>>; a buffer is a sequence of bytes.    *)
(***************************************************************************)
EXTENDS Integers, Sequences, FiniteSets

CONSTANTS
    Conns,      \* the connections that clients may open
    NoConn,     \* INVALID_SOCKET
    Resetters,  \* the connections whose client may reset
    Quitters,   \* those whose client may leave before it has all its echo
    Burst,      \* bytes a client may send ahead of the echo
    MaxBytes,   \* bound: bytes a client sends
    NSlots,     \* maxClientCount
    BufSize,    \* MAX_SOCKBUF
    Workers,    \* the worker threads (MAX_WORKERTHREAD of them)
    MayStop     \* may DestoryThread be called?

Slots == 1 .. NSlots

ASSUME IocpPortAssumption ==
    /\ NoConn \notin Conns
    /\ Resetters \subseteq Conns
    /\ Quitters \subseteq Conns /\ MayStop \in BOOLEAN
    /\ Burst \in Nat /\ MaxBytes \in Nat /\ NSlots \in Nat
    /\ BufSize \in Nat \ {0}

VARIABLES
    sent,     \* sent[c]: bytes the client of c has sent
    peer,     \* peer[c]: what the client's end of c has done
    out,      \* out[c]: the bytes delivered back to the client
    sock,     \* sock[c]: the server's end of c
    read,     \* read[c]: bytes of c handed over by completed receives
    rq,       \* rq[c]: slots with a pending receive on c, oldest first
    sq,       \* sq[c]: pending sends on c, oldest first
    slot,     \* slot[s]: m_socketClient
    recvBuf,  \* recvBuf[s]: m_stRecvOverlappedEx.m_szBuf
    sendBuf,  \* sendBuf[s]: m_stSendOverlappedEx.m_szBuf
    port,     \* the queue of completion packets
    pc,       \* pc[w]: where worker w is in WorkerThread
    pkt,      \* pkt[w]: the slot and byte count w got from the port
    acc,      \* the accepter: where it is, and the slot it fills
    cnt,      \* mClientCnt
    ctl       \* how far DestoryThread has come

clientVars == <<sent, peer>>
kernelVars == <<out, read, rq, sq>>
slotVars   == <<slot, recvBuf, sendBuf>>
workerVars == <<pc, pkt>>
ownerVars  == <<acc, cnt, ctl>>
vars == <<clientVars, kernelVars, sock, slotVars, port, workerVars, ownerVars>>

Byte == Conns \X (1 .. MaxBytes)

NoPkt == [s |-> 0, n |-> 0]

TypeOK ==
    /\ sent \in [Conns -> 0 .. MaxBytes]
    /\ peer \in [Conns -> {"idle", "up", "fin", "quit", "rst"}]
    /\ out  \in [Conns -> Seq(Byte)]
    /\ sock \in [Conns -> {"none", "open", "closed"}]
    /\ read \in [Conns -> 0 .. MaxBytes]
    /\ rq   \in [Conns -> Seq(Slots)]
    /\ sq   \in [Conns -> Seq([s : Slots, data : Seq(Byte)])]
    /\ slot \in [Slots -> Conns \cup {NoConn}]
    /\ recvBuf \in [Slots -> Seq(Byte)]
    /\ sendBuf \in [Slots -> Seq(Byte)]
    /\ port \in Seq([s : Slots, op : {"RECV", "SEND"}, n : Nat, ok : BOOLEAN])
    /\ pc   \in [Workers -> {"run", "send", "recv", "hang", "clear", "exit"}]
    /\ pkt  \in [Workers -> [s : Slots, n : Nat] \cup {NoPkt}]
    /\ acc  \in [pc : {"find", "wait", "post", "exit"}, s : Slots \cup {0}]
    /\ cnt  \in Nat
    /\ ctl  \in {"up", "joinWorkers", "joinAccepter", "done"}

Stream(c, from, to) == [i \in 1 .. (to - from) |-> <<c, from + i>>]

\* What copying data to the start of a buffer leaves in it.
Overlay(data, old) == data \o SubSeq(old, Len(data) + 1, Len(old))

Init ==
    /\ sent = [c \in Conns |-> 0]
    /\ peer = [c \in Conns |-> "idle"]
    /\ out  = [c \in Conns |-> <<>>]
    /\ sock = [c \in Conns |-> "none"]
    /\ read = [c \in Conns |-> 0]
    /\ rq   = [c \in Conns |-> <<>>]
    /\ sq   = [c \in Conns |-> <<>>]
    /\ slot = [s \in Slots |-> NoConn]
    /\ recvBuf = [s \in Slots |-> <<>>]
    /\ sendBuf = [s \in Slots |-> <<>>]
    /\ port = <<>>
    /\ pc   = [w \in Workers |-> "run"]
    /\ pkt  = [w \in Workers |-> NoPkt]
    /\ acc  = [pc |-> "find", s |-> 0]
    /\ cnt  = 0
    /\ ctl  = "up"

-----------------------------------------------------------------------------
(* The clients. *)

ServerState == <<kernelVars, sock, slotVars, port, workerVars, ownerVars>>

Connect(c) ==
    /\ peer[c] = "idle"
    /\ peer' = [peer EXCEPT ![c] = "up"]
    /\ UNCHANGED <<sent, ServerState>>

Write(c) ==
    /\ peer[c] = "up"
    /\ sent[c] < MaxBytes /\ sent[c] - Len(out[c]) < Burst
    /\ sent' = [sent EXCEPT ![c] = @ + 1]
    /\ UNCHANGED <<peer, ServerState>>

\* The client closes its end, early ("quit") or with all its echo received.
Fin(c) ==
    /\ peer[c] = "up"
    /\ \/ Len(out[c]) = sent[c] /\ peer' = [peer EXCEPT ![c] = "fin"]
       \/ Len(out[c]) < sent[c] /\ c \in Quitters /\ peer' = [peer EXCEPT ![c] = "quit"]
    /\ UNCHANGED <<sent, ServerState>>

Reset(c) ==
    /\ c \in Resetters
    /\ peer[c] \in {"up", "fin", "quit"}
    /\ peer' = [peer EXCEPT ![c] = "rst"]
    /\ UNCHANGED <<sent, ServerState>>

-----------------------------------------------------------------------------
(* The kernel. *)

Packet(s, op, n, ok) == [s |-> s, op |-> op, n |-> n, ok |-> ok]

RecvData(c) ==
    /\ rq[c] # <<>> /\ sock[c] = "open" /\ peer[c] \in {"up", "fin", "quit"}
    /\ \E k \in 1 .. BufSize :
          /\ read[c] + k <= sent[c]
          /\ LET s == Head(rq[c]) IN
                /\ recvBuf' = [recvBuf EXCEPT ![s] = Overlay(Stream(c, read[c], read[c] + k), @)]
                /\ port' = Append(port, Packet(s, "RECV", k, TRUE))
          /\ read' = [read EXCEPT ![c] = @ + k]
    /\ rq' = [rq EXCEPT ![c] = Tail(@)]
    /\ UNCHANGED <<clientVars, out, sq, sock, slot, sendBuf, workerVars, ownerVars>>

\* End of stream succeeds with zero bytes; a reset or a closed socket fails.
RecvEnd(c) ==
    /\ rq[c] # <<>>
    /\ LET broken == peer[c] = "rst" \/ sock[c] = "closed" IN
          /\ broken \/ (peer[c] \in {"fin", "quit"} /\ read[c] = sent[c])
          /\ port' = Append(port, Packet(Head(rq[c]), "RECV", 0, ~broken))
    /\ rq' = [rq EXCEPT ![c] = Tail(@)]
    /\ UNCHANGED <<clientVars, out, read, sq, sock, slotVars, workerVars, ownerVars>>

\* The kernel reads a send buffer some time between WSASend and completion:
\* it delivers what was there at the one time or what is there at the other.
SendDone(c) ==
    /\ sq[c] # <<>> /\ peer[c] # "rst"
    /\ LET op == Head(sq[c]) IN
          /\ \E data \in {op.data, SubSeq(sendBuf[op.s], 1, Len(op.data))} :
                out' = [out EXCEPT ![c] = @ \o data]
          /\ port' = Append(port, Packet(op.s, "SEND", Len(op.data), TRUE))
    /\ sq' = [sq EXCEPT ![c] = Tail(@)]
    /\ UNCHANGED <<clientVars, read, rq, sock, slotVars, workerVars, ownerVars>>

SendAbort(c) ==
    /\ sq[c] # <<>>
    /\ peer[c] = "rst" \/ sock[c] = "closed"
    /\ port' = port \o [i \in DOMAIN sq[c] |-> Packet(sq[c][i].s, "SEND", 0, FALSE)]
    /\ sq' = [sq EXCEPT ![c] = <<>>]
    /\ UNCHANGED <<clientVars, out, read, rq, sock, slotVars, workerVars, ownerVars>>

-----------------------------------------------------------------------------
(* The workers: WorkerThread. *)

Usable(c) == c # NoConn /\ sock[c] = "open" /\ peer[c] # "rst"

Handle(w, p, next) ==
    /\ pc'   = [pc EXCEPT ![w] = next]
    /\ pkt'  = [pkt EXCEPT ![w] = IF next = "run" THEN NoPkt ELSE [s |-> p.s, n |-> p.n]]
    /\ port' = Tail(port)
    /\ UNCHANGED <<clientVars, kernelVars, sock, slotVars, ownerVars>>

\* Mutated form: a finished send also posts a receive.
Dequeue_recvAfterSend(w) ==
    /\ pc[w] = "run" /\ ctl = "up" /\ port # <<>>
    /\ LET p == Head(port)
       IN  Handle(w, p, IF ~p.ok \/ p.n = 0 THEN "hang" ELSE IF p.op = "RECV" THEN "send" ELSE "recv")

\* Mutated form: a short receive is taken for the end of the connection.
Dequeue_shortIsEnd(w) ==
    /\ pc[w] = "run" /\ ctl = "up" /\ port # <<>>
    /\ LET p == Head(port)
       IN  Handle(w, p, IF ~p.ok \/ p.n < BufSize THEN "hang" ELSE IF p.op = "RECV" THEN "send" ELSE "run")

\* GetQueuedCompletionStatus, and the branch on its outcome.
Dequeue(w) ==
    /\ pc[w] = "run" /\ ctl = "up" /\ port # <<>>
    /\ LET p == Head(port)
       IN  Handle(w, p, IF ~p.ok \/ p.n = 0 THEN "hang" ELSE IF p.op = "RECV" THEN "send" ELSE "run")

\* SendMsg: the message is copied to the send buffer of the slot and sent on
\* the socket now in the slot; a failed WSASend is ignored.
SendMsg(w) ==
    /\ pc[w] = "send"
    /\ LET s == pkt[w].s
           c == slot[s]
           data == SubSeq(recvBuf[s], 1, pkt[w].n)
       IN  /\ sendBuf' = [sendBuf EXCEPT ![s] = Overlay(data, @)]
           /\ sq' = IF Usable(c) THEN [sq EXCEPT ![c] = Append(@, [s |-> s, data |-> data])] ELSE sq
    /\ pc' = [pc EXCEPT ![w] = "recv"]
    /\ UNCHANGED <<clientVars, out, read, rq, sock, slot, recvBuf, port, pkt, ownerVars>>

\* BindRecv: the worker ignores its result.
BindRecv(w) ==
    /\ pc[w] = "recv"
    /\ LET c == slot[pkt[w].s]
       IN  rq' = IF Usable(c) THEN [rq EXCEPT ![c] = Append(@, pkt[w].s)] ELSE rq
    /\ pc'  = [pc EXCEPT ![w] = "run"]
    /\ pkt' = [pkt EXCEPT ![w] = NoPkt]
    /\ UNCHANGED <<clientVars, out, read, sq, sock, slotVars, port, ownerVars>>

\* CloseSocket: shutdown, setsockopt and closesocket on whatever socket is in the
\* slot; each reads it again, but it cannot change in between before somebody is
\* rude ...
HangUp(w) ==
    /\ pc[w] = "hang"
    /\ LET c == slot[pkt[w].s]
       IN  sock' = IF c = NoConn THEN sock ELSE [sock EXCEPT ![c] = "closed"]
    /\ pc' = [pc EXCEPT ![w] = "clear"]
    /\ UNCHANGED <<clientVars, kernelVars, slotVars, port, pkt, ownerVars>>

\* Mutated form: the slot is not marked empty (line 404 missing).
ClearSlot_none(w) ==
    /\ pc[w] = "clear"
    /\ pc'  = [pc EXCEPT ![w] = "run"]
    /\ pkt' = [pkt EXCEPT ![w] = NoPkt]
    /\ UNCHANGED <<clientVars, kernelVars, sock, slotVars, port, ownerVars>>

\* ... and then the slot is marked empty.
ClearSlot(w) ==
    /\ pc[w] = "clear"
    /\ slot' = [slot EXCEPT ![pkt[w].s] = NoConn]
    /\ pc'   = [pc EXCEPT ![w] = "run"]
    /\ pkt'  = [pkt EXCEPT ![w] = NoPkt]
    /\ UNCHANGED <<clientVars, kernelVars, sock, recvBuf, sendBuf, port, ownerVars>>

\* The port is closed: GetQueuedCompletionStatus fails without an OVERLAPPED,
\* and the loop ends because mIsWorkerRun is false.
WorkerExit(w) ==
    /\ pc[w] = "run" /\ ctl # "up"
    /\ pc' = [pc EXCEPT ![w] = "exit"]
    /\ UNCHANGED <<clientVars, kernelVars, sock, slotVars, port, pkt, ownerVars>>

-----------------------------------------------------------------------------
(* The accepter: AccepterThread. *)

Empty == {s \in Slots : slot[s] = NoConn}

Listening == ctl \in {"up", "joinWorkers"}

\* Mutated form: the test of line 200 is missing, the first slot is returned.
FindSlot_first ==
    /\ acc.pc = "find"
    /\ acc' = IF Listening THEN [pc |-> "wait", s |-> 1] ELSE [pc |-> "exit", s |-> 0]
    /\ UNCHANGED <<clientVars, kernelVars, sock, slotVars, port, workerVars, cnt, ctl>>

\* GetEmptyClientInfo: the first empty slot; when there is none, or when
\* mIsAccepterRun is false, the thread ends.
FindSlot ==
    /\ acc.pc = "find"
    /\ \/ /\ Listening /\ Empty # {}
          /\ acc' = [pc |-> "wait", s |-> CHOOSE s \in Empty : \A t \in Empty : s <= t]
       \/ /\ ~Listening \/ Empty = {}
          /\ acc' = [pc |-> "exit", s |-> 0]
    /\ UNCHANGED <<clientVars, kernelVars, sock, slotVars, port, workerVars, cnt, ctl>>

\* accept returns a connection, and the slot gets its socket.
Accept(c) ==
    /\ acc.pc = "wait" /\ Listening
    /\ sock[c] = "none" /\ peer[c] \in {"up", "fin", "quit"}
    /\ sock' = [sock EXCEPT ![c] = "open"]
    /\ slot' = [slot EXCEPT ![acc.s] = c]
    /\ acc'  = [acc EXCEPT !.pc = "post"]
    /\ UNCHANGED <<clientVars, kernelVars, recvBuf, sendBuf, port, workerVars, cnt, ctl>>

\* Mutated form: the listener is not closed (line 155 missing).
AcceptFails_blocked ==
    /\ acc.pc = "wait"
    /\ \E c \in Conns : /\ sock[c] = "none" /\ peer[c] = "rst"
                       /\ sock' = [sock EXCEPT ![c] = "closed"]
    /\ acc' = [pc |-> "find", s |-> 0]
    /\ UNCHANGED <<clientVars, kernelVars, slotVars, port, workerVars, cnt, ctl>>

\* accept fails: the waiting client has reset, or the listener is closed.
AcceptFails ==
    /\ acc.pc = "wait"
    /\ \/ /\ ~Listening
          /\ UNCHANGED sock
       \/ \E c \in Conns : /\ sock[c] = "none" /\ peer[c] = "rst"
                           /\ sock' = [sock EXCEPT ![c] = "closed"]
    /\ acc' = [pc |-> "find", s |-> 0]
    /\ UNCHANGED <<clientVars, kernelVars, slotVars, port, workerVars, cnt, ctl>>

\* BindIOCompletionPort, which reports success whatever happens, the first
\* BindRecv, whose failure ends the thread, and the count.
PostFirst ==
    /\ acc.pc = "post"
    /\ LET c == slot[acc.s]
       IN  \/ /\ Usable(c)
              /\ rq'  = [rq EXCEPT ![c] = Append(@, acc.s)]
              /\ cnt' = cnt + 1
              /\ acc' = [pc |-> "find", s |-> 0]
           \/ /\ ~Usable(c)
              /\ acc' = [pc |-> "exit", s |-> 0]
              /\ UNCHANGED <<rq, cnt>>
    /\ UNCHANGED <<clientVars, out, read, sq, sock, slotVars, port, workerVars, ctl>>

-----------------------------------------------------------------------------
(* DestoryThread. *)

\* mIsWorkerRun = false and CloseHandle.
StopWorkers ==
    /\ MayStop /\ ctl = "up"
    /\ ctl' = "joinWorkers"
    /\ UNCHANGED <<clientVars, kernelVars, sock, slotVars, port, workerVars, acc, cnt>>

\* All workers joined; mIsAccepterRun = false and closesocket of the listener.
StopAccepter ==
    /\ ctl = "joinWorkers"
    /\ \A w \in Workers : pc[w] = "exit"
    /\ ctl' = "joinAccepter"
    /\ UNCHANGED <<clientVars, kernelVars, sock, slotVars, port, workerVars, acc, cnt>>

Destroyed ==
    /\ ctl = "joinAccepter"
    /\ acc.pc = "exit"
    /\ ctl' = "done"
    /\ UNCHANGED <<clientVars, kernelVars, sock, slotVars, port, workerVars, acc, cnt>>

-----------------------------------------------------------------------------

Client(c) == Connect(c) \/ Write(c) \/ Fin(c) \/ Reset(c)

Kernel(c) == RecvData(c) \/ RecvEnd(c) \/ SendDone(c) \/ SendAbort(c)

Work(w) ==
    Dequeue(w) \/ SendMsg(w) \/ BindRecv(w) \/ HangUp(w) \/ ClearSlot(w) \/ WorkerExit(w)

Accepter == FindSlot \/ AcceptFails \/ PostFirst \/ \E c \in Conns : Accept(c)

Owner == StopWorkers \/ StopAccepter \/ Destroyed

Next ==
    \/ \E c \in Conns : Client(c) \/ Kernel(c)
    \/ \E w \in Workers : Work(w)
    \/ Accepter
    \/ Owner

Spec == Init /\ [][Next]_vars

\* The threads run, the kernel completes operations, and a DestoryThread once
\* begun goes on; clients need do nothing.
Fairness ==
    /\ \A c \in Conns : WF_vars(RecvData(c) \/ RecvEnd(c)) /\ WF_vars(SendDone(c) \/ SendAbort(c))
    /\ \A w \in Workers : WF_vars(Work(w))
    /\ WF_vars(Accepter)
    /\ WF_vars(StopAccepter \/ Destroyed)

FairSpec == Spec /\ Fairness

-----------------------------------------------------------------------------
(* Properties.  A completion names its slot, not its connection, and after a  *)
(* hang-up some may still be under way.  The first four hold as long as no    *)
(* client has been rude, and a rude one is needed to break each of them.      *)

\* A client that has reset, or left before it had the echo of all it sent.
Rude == \E c \in Conns : peer[c] \in {"quit", "rst"}

Receives(s) ==
    {<<"kernel", c, i>> : c \in {d \in Conns : \E i \in DOMAIN rq[d] : rq[d][i] = s}, i \in {0}}
    \cup {<<"port", NoConn, i>> : i \in {j \in DOMAIN port : port[j].s = s /\ port[j].op = "RECV"}}
    \cup {<<"worker", w, 0>> : w \in {v \in Workers : pkt[v].s = s /\ pc[v] \in {"send", "recv"}}}

\* A slot's one receive structure is used by one receive at a time, be it
\* with the kernel, in the port or with a worker: a second WSARecv on it
\* would let two messages overwrite each other in m_szBuf (lines 231, 316).
OneReceive ==
    Rude \/ \A s \in Slots :
       /\ Cardinality(Receives(s)) <= 1
       /\ \A c \in Conns : Cardinality({i \in DOMAIN rq[c] : rq[c][i] = s}) <= 1

\* What a client gets back is what it sent, in order, and nothing of another
\* client: the server "echoes the client message" (comment at line 319).
EchoFaithful ==
    Rude \/ \A c \in Conns : out[c] = Stream(c, 0, Len(out[c])) /\ Len(out[c]) <= sent[c]

\* CloseSocket is reached for connections "that the client has broken"
\* (comment at line 303): the server closes no other.
OnlyLeaversClosed ==
    Rude \/ \A c \in Conns : sock[c] = "closed" => peer[c] = "fin"

Released(c) == sock[c] = "closed" /\ \A s \in Slots : slot[s] # c

\* An accepted client is served to the end, unless the class is destroyed:
\* each of its messages is echoed (lines 316-321), and once it has left its
\* connection is given up and its slot is free again (lines 385-405).
ServedToTheEnd ==
    \A c \in Conns :
       /\ sock[c] = "open" /\ Len(out[c]) < sent[c] ~> Len(out[c]) = sent[c] \/ Rude \/ ctl # "up"
       /\ peer[c] = "fin" /\ sock[c] # "none" ~> Released(c) \/ Rude \/ ctl # "up"

\* DestoryThread returns, whatever the workers and the accepter were doing
\* when it was called, and then none of them ever runs again (lines 139-161).
AllEnded == ctl = "done" /\ acc.pc = "exit" /\ \A w \in Workers : pc[w] = "exit"

DestroyEnds == ctl # "up" ~> []AllEnded
=============================================================================
