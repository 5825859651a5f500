--------------------------- MODULE ComplRoutineEcho ---------------------------
(***************************************************************************)
(* The completion routine echo server (CmplRouchoSErv_win.cpp).            *)
(*                                                                         *)
(* One thread alternates between SleepEx, an alertable wait in which the   *)
(* kernel runs the completion routines of finished operations, and a       *)
(* non-blocking accept.  Each client has one OVERLAPPED and one            *)
(* PER_IO_DATA for its whole life: a finished receive (ReadCompRoutine)    *)
(* starts the send of what was received, a finished send                   *)
(* (WriteCompRoutine) starts the next receive.  wsaBuf.len is set to the   *)
(* number of bytes to send and never set back to BUF_SIZE, so the window   *)
(* of the receives only shrinks.                                           *)
(*                                                                         *)
(* Byte i of a client's stream is the number i.                            *)
(***************************************************************************)
EXTENDS Naturals, Sequences

CONSTANTS
    Clients,     \* the clients that may connect
    Resetters,   \* the clients that may break off with a reset
    EarlyReset,  \* may they do so before they are accepted?
    MaxBytes,    \* bound: bytes a client sends
    BufSize      \* BUF_SIZE

ASSUME ComplRoutineAssumption ==
    /\ Resetters \subseteq Clients
    /\ EarlyReset \in BOOLEAN
    /\ MaxBytes \in Nat
    /\ BufSize \in Nat \ {0}

VARIABLES
    sent,   \* sent[c]: bytes client c has sent
    peer,   \* peer[c]: what the client's end of the connection has done
    read,   \* read[c]: bytes handed over by completed receives
    sock,   \* sock[c]: the server's socket for c
    blk,    \* blk[c]: the OVERLAPPED and PER_IO_DATA of c
    op,     \* op[c]: the overlapped operation in progress on c
    win,    \* win[c]: wsaBuf.len
    bytes,  \* bytes[c]: byte count of the last finished receive
    apcs,   \* finished operations whose routine has not run, oldest first
    out,    \* out[c]: the bytes delivered back to c
    main    \* where the thread is: in SleepEx, about to accept, or gone

clientVars == <<sent, peer>>
connVars   == <<sock, blk, op, win>>
vars == <<clientVars, connVars, read, bytes, apcs, out, main>>

Apc == [c : Clients, routine : {"Read", "Write"}, bytes : Nat]

TypeOK ==
    /\ sent  \in [Clients -> Nat]
    /\ peer  \in [Clients -> {"idle", "up", "fin", "rst"}]
    /\ read  \in [Clients -> Nat]
    /\ sock  \in [Clients -> {"none", "open", "closed"}]
    /\ blk   \in [Clients -> {"none", "live", "freed"}]
    /\ op    \in [Clients -> {"none", "recv", "send"}]
    /\ win   \in [Clients -> Nat]
    /\ bytes \in [Clients -> Nat]
    /\ apcs  \in Seq(Apc)
    /\ out   \in [Clients -> Seq(Nat)]
    /\ main  \in {"sleep", "accept", "exited"}

Bytes(from, to) == [i \in 1 .. (to - from) |-> from + i]

Init ==
    /\ sent  = [c \in Clients |-> 0]
    /\ peer  = [c \in Clients |-> "idle"]
    /\ read  = [c \in Clients |-> 0]
    /\ sock  = [c \in Clients |-> "none"]
    /\ blk   = [c \in Clients |-> "none"]
    /\ op    = [c \in Clients |-> "none"]
    /\ win   = [c \in Clients |-> 0]
    /\ bytes = [c \in Clients |-> 0]
    /\ apcs  = <<>>
    /\ out   = [c \in Clients |-> <<>>]
    /\ main  = "sleep"

-----------------------------------------------------------------------------
(* The clients. *)

Connect(c) ==
    /\ peer[c] = "idle"
    /\ peer' = [peer EXCEPT ![c] = "up"]
    /\ UNCHANGED <<sent, connVars, read, bytes, apcs, out, main>>

Write(c) ==
    /\ peer[c] = "up"
    /\ sent[c] < MaxBytes
    /\ sent' = [sent EXCEPT ![c] = @ + 1]
    /\ UNCHANGED <<peer, connVars, read, bytes, apcs, out, main>>

Fin(c) ==
    /\ peer[c] = "up"
    /\ peer' = [peer EXCEPT ![c] = "fin"]
    /\ UNCHANGED <<sent, connVars, read, bytes, apcs, out, main>>

Reset(c) ==
    /\ c \in Resetters
    /\ peer[c] \in {"up", "fin"}
    /\ EarlyReset \/ sock[c] # "none"
    /\ peer' = [peer EXCEPT ![c] = "rst"]
    /\ UNCHANGED <<sent, connVars, read, bytes, apcs, out, main>>

-----------------------------------------------------------------------------
(* The kernel finishes overlapped operations and queues their routines.    *)

Finish(c, routine, n) ==
    /\ op'   = [op EXCEPT ![c] = "none"]
    /\ apcs' = Append(apcs, [c |-> c, routine |-> routine, bytes |-> n])
    /\ UNCHANGED <<clientVars, sock, blk, win, main>>

\* A receive of at most wsaBuf.len bytes; asked for none, it returns none.
RecvData(c) ==
    /\ main # "exited"
    /\ op[c] = "recv" /\ peer[c] \in {"up", "fin"}
    /\ \E k \in 0 .. win[c] :
          /\ read[c] + k <= sent[c]
          /\ k = 0 => win[c] = 0
          /\ Finish(c, "Read", k)
          /\ read'  = [read EXCEPT ![c] = @ + k]
          /\ bytes' = [bytes EXCEPT ![c] = k]
    /\ UNCHANGED out

\* End of stream or a reset: zero bytes.
RecvEnd(c) ==
    /\ main # "exited"
    /\ op[c] = "recv"
    /\ \/ peer[c] = "fin" /\ read[c] = sent[c]
       \/ peer[c] = "rst"
    /\ Finish(c, "Read", 0)
    /\ UNCHANGED <<read, bytes, out>>

\* A send of wsaBuf.len bytes: the bytes just received sit in the buffer.
SendDone(c) ==
    /\ main # "exited"
    /\ op[c] = "send" /\ peer[c] # "rst"
    /\ Finish(c, "Write", win[c])
    /\ out' = [out EXCEPT ![c] = @ \o Bytes(read[c] - bytes[c], read[c] - bytes[c] + win[c])]
    /\ UNCHANGED <<read, bytes>>

SendAbort(c) ==
    /\ main # "exited"
    /\ op[c] = "send" /\ peer[c] = "rst"
    /\ Finish(c, "Write", 0)
    /\ UNCHANGED <<read, bytes, out>>

-----------------------------------------------------------------------------
(* The thread. *)

\* WSARecv and WSASend fail at once on a reset connection; their results are
\* ignored and no routine will ever run for it.
Start(c, kind) == op' = [op EXCEPT ![c] = IF peer[c] = "rst" THEN "none" ELSE kind]

\* Mutated form: closesocket (line 101) is missing.
ReadCompRoutine_noClose(c, n) ==
    /\ IF n = 0
         THEN /\ blk' = [blk EXCEPT ![c] = "freed"]
              /\ UNCHANGED <<sock, win, op>>
         ELSE /\ win' = [win EXCEPT ![c] = n]
              /\ Start(c, "send")
              /\ UNCHANGED <<sock, blk>>

\* Mutated form: the socket is closed once the reply is under way.
ReadCompRoutine_closeEarly(c, n) ==
    /\ sock' = [sock EXCEPT ![c] = "closed"]
    /\ win'  = [win EXCEPT ![c] = n]
    /\ Start(c, "send")
    /\ UNCHANGED blk

ReadCompRoutine(c, n) ==
    \/ /\ n = 0
       /\ sock' = [sock EXCEPT ![c] = "closed"]
       /\ blk'  = [blk EXCEPT ![c] = "freed"]
       /\ UNCHANGED <<win, op>>
    \/ /\ n > 0
       /\ win' = [win EXCEPT ![c] = n]
       /\ Start(c, "send")
       /\ UNCHANGED <<sock, blk>>

\* Mutated form: no further receive is started (line 119).
WriteCompRoutine_stop(c) == UNCHANGED <<op, sock, blk, win>>

\* The next receive, with wsaBuf.len as the send left it.
WriteCompRoutine(c) == Start(c, "recv") /\ UNCHANGED <<sock, blk, win>>

\* SleepEx runs the oldest queued routine.
RunApc ==
    /\ main = "sleep" /\ apcs # <<>>
    /\ LET a == Head(apcs)
       IN  \/ a.routine = "Read"  /\ ReadCompRoutine(a.c, a.bytes)
           \/ a.routine = "Write" /\ WriteCompRoutine(a.c)
    /\ apcs' = Tail(apcs)
    /\ UNCHANGED <<clientVars, read, bytes, out, main>>

\* SleepEx returns once no routine is waiting: 100 ms have passed or it has
\* run some.
Wake ==
    /\ main = "sleep" /\ apcs = <<>>
    /\ main' = "accept"
    /\ UNCHANGED <<clientVars, connVars, read, bytes, apcs, out>>

\* accept finds no client: WSAEWOULDBLOCK.
AcceptNone ==
    /\ main = "accept"
    /\ \A c \in Clients : sock[c] = "none" => peer[c] = "idle"
    /\ main' = "sleep"
    /\ UNCHANGED <<clientVars, connVars, read, bytes, apcs, out>>

\* A client is accepted and its first receive started.
Accept(c) ==
    /\ main = "accept"
    /\ sock[c] = "none" /\ peer[c] # "idle"
    /\ sock' = [sock EXCEPT ![c] = "open"]
    /\ blk'  = [blk EXCEPT ![c] = "live"]
    /\ win'  = [win EXCEPT ![c] = BufSize]
    /\ Start(c, "recv")
    /\ main' = "sleep"
    /\ UNCHANGED <<clientVars, read, bytes, apcs, out>>

\* accept fails because a waiting client has reset: ErrorHandling exits.
AcceptError ==
    /\ main = "accept"
    /\ \E c \in Clients : sock[c] = "none" /\ peer[c] = "rst"
    /\ main' = "exited"
    /\ UNCHANGED <<clientVars, connVars, read, bytes, apcs, out>>

-----------------------------------------------------------------------------

Client(c) == Connect(c) \/ Write(c) \/ Fin(c) \/ Reset(c)

Kernel(c) == RecvData(c) \/ RecvEnd(c) \/ SendDone(c) \/ SendAbort(c)

Thread == RunApc \/ Wake \/ AcceptNone \/ AcceptError \/ \E c \in Clients : Accept(c)

\* When the process ends every connection and every attempt at one breaks.
Next == main # "exited" /\ (Thread \/ \E c \in Clients : Client(c) \/ Kernel(c))

Spec == Init /\ [][Next]_vars

\* The thread keeps running, and the kernel finishes what it was asked for.
Fairness ==
    WF_vars(Thread) /\ \A c \in Clients : WF_vars(main # "exited" /\ Kernel(c))

FairSpec == Spec /\ Fairness

-----------------------------------------------------------------------------
(* Properties. *)

\* An open connection that the client has not reset has exactly one thing
\* going on: an operation in progress or a routine waiting to run.  None
\* would freeze it, two would share its only buffer.  And a receive has a
\* window, although every reply may shrink it (lines 107 and 119): one of zero
\* bytes would be taken for the end of the stream.
Queued(c) == {i \in DOMAIN apcs : apcs[i].c = c}

OneActivity ==
    \A c \in Clients :
       /\ \A i, j \in Queued(c) : i = j
       /\ op[c] # "none" => Queued(c) = {}
       /\ sock[c] = "open" /\ peer[c] # "rst" => op[c] # "none" \/ Queued(c) # {}
       /\ op[c] = "recv" => win[c] \in 1 .. BufSize

\* The blocks that the kernel or a waiting routine refers to are allocated
\* and their socket is open (lines 94-95, 101-102, 114-115).
NoUseAfterFree ==
    \A c \in Clients :
       op[c] # "none" \/ Queued(c) # {} => blk[c] = "live" /\ sock[c] = "open"

Phase(c) ==
    IF peer[c] = "rst" \/ sock[c] = "closed" \/ main = "exited" THEN "gone"
    ELSE IF peer[c] = "fin" THEN "left" ELSE "here"

Echo == INSTANCE EchoService WITH
            MayHalt <- EarlyReset,
            asked <- sent, reply <- out, phase <- [c \in Clients |-> Phase(c)]

\* The server implements EchoService; its process may end only if clients may
\* reset before they are accepted.
ImplementsEcho == Echo!Spec

\* A client that leaves in good order has received the echo of all it sent by
\* the time it is disconnected, and it is disconnected and its memory freed
\* (lines 97-110): unlike the IOCP server this one has no send under way then.
LeaversCleanedUp ==
    \A c \in Clients :
       peer[c] = "fin" ~>
          \/ sock[c] = "closed" /\ blk[c] = "freed" /\ out[c] = Bytes(0, sent[c])
          \/ peer[c] = "rst" \/ main = "exited"
=============================================================================
