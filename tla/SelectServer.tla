----------------------------- MODULE SelectServer -----------------------------
(***************************************************************************)
(* The select echo server (echo_selectserv_win.cpp): one thread, select    *)
(* over all sockets, then one pass over the set.                           *)
(*                                                                         *)
(* A Windows fd_set is an array with a count.  reads is the set watched;   *)
(* select packs the ready sockets into the front of its copy and leaves    *)
(* the rest of the array as it was: cpy is that array and nReady its       *)
(* count.  Indices are 1-based here.  Byte i of a client is the number i.  *)
(* Clients read what they are sent, so send does not block.                *)
(***************************************************************************)
EXTENDS Integers, Sequences, SequencesExt, FiniteSets

CONSTANTS
    Clients,    \* the clients
    Leavers,    \* those that may close their end
    Resetters,  \* those that may reset
    ServSock,   \* the listening socket
    NoSock,     \* INVALID_SOCKET
    MaxBytes,   \* bound: bytes a client sends
    BufSize,    \* bytes one recv returns at most (BUF_SIZE - 1)
    FdSetSize   \* FD_SETSIZE

ASSUME SelectAssumption ==
    /\ Leavers \subseteq Clients /\ Resetters \subseteq Clients
    /\ ServSock \notin Clients /\ NoSock \notin Clients /\ ServSock # NoSock
    /\ MaxBytes \in Nat /\ BufSize \in Nat \ {0} /\ FdSetSize \in Nat \ {0}

VARIABLES
    sent,     \* sent[c]: bytes client c has sent
    peer,     \* peer[c]: what the client's end has done
    out,      \* out[c]: the bytes delivered back to the client
    got,      \* got[c]: bytes of c the server has received
    sock,     \* sock[s]: the server's socket for s, s a client or ServSock
    reads,    \* the fd_set reads
    cpy,      \* the array of cpyReads
    nReady,   \* its fd_count
    i,        \* the index of the pass
    pc        \* "select", "scan", or "exit"

clientVars == <<sent, peer>>
setVars    == <<reads, cpy, nReady>>
vars == <<clientVars, out, got, sock, setVars, i, pc>>

Sockets == Clients \cup {ServSock, NoSock}

TypeOK ==
    /\ sent  \in [Clients -> 0 .. MaxBytes]
    /\ peer  \in [Clients -> {"idle", "up", "fin", "rst"}]
    /\ out   \in [Clients -> Seq(1 .. MaxBytes)]
    /\ got   \in [Clients -> 0 .. MaxBytes]
    /\ sock  \in [Clients \cup {ServSock} -> {"none", "open", "closed"}]
    /\ reads \in Seq(Sockets) /\ Len(reads) \in 1 .. FdSetSize
    /\ cpy   \in Seq(Sockets)
    /\ nReady \in 0 .. Len(cpy)
    /\ i     \in 1 .. FdSetSize + 1
    /\ pc    \in {"select", "scan", "exit"}

Init ==
    /\ sent = [c \in Clients |-> 0]
    /\ peer = [c \in Clients |-> "idle"]
    /\ out  = [c \in Clients |-> <<>>]
    /\ got  = [c \in Clients |-> 0]
    /\ sock = [s \in Clients \cup {ServSock} |-> IF s = ServSock THEN "open" ELSE "none"]
    /\ reads = <<ServSock>>
    /\ cpy  = <<>>
    /\ nReady = 0
    /\ i    = 1
    /\ pc   = "select"

-----------------------------------------------------------------------------
(* The clients. *)

ServerState == <<out, got, sock, setVars, i, pc>>

Connect(c) ==
    /\ peer[c] = "idle"
    /\ peer' = [peer EXCEPT ![c] = "up"]
    /\ UNCHANGED <<sent, ServerState>>

Write(c) ==
    /\ peer[c] = "up" /\ sent[c] < MaxBytes
    /\ sent' = [sent EXCEPT ![c] = @ + 1]
    /\ UNCHANGED <<peer, ServerState>>

Fin(c) ==
    /\ c \in Leavers /\ peer[c] = "up"
    /\ peer' = [peer EXCEPT ![c] = "fin"]
    /\ UNCHANGED <<sent, ServerState>>

Reset(c) ==
    /\ c \in Resetters /\ peer[c] \in {"up", "fin"}
    /\ peer' = [peer EXCEPT ![c] = "rst"]
    /\ UNCHANGED <<sent, ServerState>>

-----------------------------------------------------------------------------
(* The server. *)

Waiting == {c \in Clients : sock[c] = "none" /\ peer[c] # "idle"}

Ready(s) == IF s = ServSock THEN Waiting # {} ELSE got[s] < sent[s] \/ peer[s] \in {"fin", "rst"}

Invalid(s) == s \notin {t \in DOMAIN sock : sock[t] # "closed"}

\* select refuses the set; the loop ends, and with the process every socket.
SelectFails ==
    /\ pc = "select"
    /\ \E s \in Range(reads) : Invalid(s)
    /\ pc' = "exit"
    /\ sock' = [s \in DOMAIN sock |-> "closed"]
    /\ UNCHANGED <<clientVars, out, got, setVars, i>>

\* select returns the ready sockets; a timeout changes nothing.
Select ==
    /\ pc = "select"
    /\ ~\E s \in Range(reads) : Invalid(s)
    /\ LET ready == {k \in DOMAIN reads : Ready(reads[k])}
           count == Cardinality(ready)
       IN  /\ ready # {}
           /\ \E at \in [1 .. count -> ready] :
                 /\ \A j, k \in 1 .. count : j < k => at[j] < at[k]
                 /\ cpy' = [k \in 1 .. Len(reads) |-> reads[IF k <= count THEN at[k] ELSE k]]
           /\ nReady' = count
    /\ i' = 1
    /\ pc' = "scan"
    /\ UNCHANGED <<clientVars, out, got, sock, reads>>

IsSet(s) == \E k \in 1 .. nReady : cpy[k] = s

\* FD_SET: no duplicates, and nothing once the array is full.
FdSet(s, set) == IF s \in Range(set) \/ Len(set) >= FdSetSize THEN set ELSE Append(set, s)

\* The pass is at an entry that select reported.
At(s) == pc = "scan" /\ i <= Len(reads) /\ reads[i] = s /\ IsSet(s)

ScanSkip ==
    /\ pc = "scan" /\ i <= Len(reads) /\ ~IsSet(reads[i])
    /\ i' = i + 1
    /\ UNCHANGED <<clientVars, out, got, sock, setVars, pc>>

ScanEnd ==
    /\ pc = "scan" /\ i > Len(reads)
    /\ pc' = "select"
    /\ UNCHANGED <<clientVars, out, got, sock, setVars, i>>

\* accept fails for a client that has reset; its result is used all the same.
Accept ==
    /\ At(ServSock)
    /\ \E c \in Waiting :
          LET broken == peer[c] = "rst"
          IN  /\ sock' = [sock EXCEPT ![c] = IF broken THEN "closed" ELSE "open"]
              /\ reads' = FdSet(IF broken THEN NoSock ELSE c, reads)
    /\ i' = i + 1
    /\ UNCHANGED <<clientVars, out, got, cpy, nReady, pc>>

\* recv returns data, which send returns to the client.
Echo(c) ==
    /\ At(c) /\ ~Invalid(c) /\ peer[c] # "rst"
    /\ \E k \in 1 .. BufSize :
          /\ got[c] + k <= sent[c]
          /\ got' = [got EXCEPT ![c] = @ + k]
          /\ out' = [out EXCEPT ![c] = @ \o [j \in 1 .. k |-> got[c] + j]]
    /\ i' = i + 1
    /\ UNCHANGED <<clientVars, sock, setVars, pc>>

\* Mutated form: the index into cpyReads is off by one.
HangUp_before(c) ==
    /\ At(c) /\ ~Invalid(c) /\ peer[c] = "fin" /\ got[c] = sent[c]
    /\ reads' = RemoveAt(reads, i)
    /\ sock' = [sock EXCEPT ![cpy[i - 1]] = "closed"]
    /\ i' = i + 1
    /\ UNCHANGED <<clientVars, out, got, cpy, nReady, pc>>

\* Mutated form: the last entry is taken out of reads, not the one at i.
HangUp_last(c) ==
    /\ At(c) /\ ~Invalid(c) /\ peer[c] = "fin" /\ got[c] = sent[c]
    /\ reads' = Front(reads)
    /\ sock' = [sock EXCEPT ![cpy[i]] = "closed"]
    /\ i' = i + 1
    /\ UNCHANGED <<clientVars, out, got, cpy, nReady, pc>>

\* Mutated form: both lines use reads.fd_array[i], which FD_CLR has shifted.
HangUp_shifted(c) ==
    /\ At(c) /\ ~Invalid(c) /\ peer[c] = "fin" /\ got[c] = sent[c]
    /\ reads' = RemoveAt(reads, i)
    /\ sock' = [sock EXCEPT ![IF i < Len(reads) THEN reads[i + 1] ELSE c] = "closed"]
    /\ i' = i + 1
    /\ UNCHANGED <<clientVars, out, got, cpy, nReady, pc>>

\* recv returns 0: the client is taken out of reads, where FD_CLR finds it at i
\* as no socket is there twice, and the socket at the same index of the other
\* array is closed.
HangUp(c) ==
    /\ At(c) /\ ~Invalid(c) /\ peer[c] = "fin" /\ got[c] = sent[c]
    /\ reads' = RemoveAt(reads, i)
    /\ sock' = [sock EXCEPT ![cpy[i]] = "closed"]
    /\ i' = i + 1
    /\ UNCHANGED <<clientVars, out, got, cpy, nReady, pc>>

\* Mutated form: a failed recv is retried at once.
RecvFails_retry(c) ==
    /\ At(c) /\ (Invalid(c) \/ peer[c] = "rst")
    /\ UNCHANGED vars

\* recv returns -1, and send refuses that as a length.
RecvFails(c) ==
    /\ At(c) /\ (Invalid(c) \/ peer[c] = "rst")
    /\ i' = i + 1
    /\ UNCHANGED <<clientVars, out, got, sock, setVars, pc>>

-----------------------------------------------------------------------------

Server ==
    \/ SelectFails \/ Select \/ ScanSkip \/ ScanEnd \/ Accept
    \/ \E c \in Clients : Echo(c) \/ HangUp(c) \/ RecvFails(c)

Next == Server \/ \E c \in Clients : Connect(c) \/ Write(c) \/ Fin(c) \/ Reset(c)

Spec == Init /\ [][Next]_vars

\* The thread runs.
FairSpec == Spec /\ WF_vars(Server)

-----------------------------------------------------------------------------
(* Properties. *)

\* The index mix-up of line 84 never reaches the listener: as long as the
\* server runs it is open and watched, so that clients can still connect.
ListenerSurvives == pc # "exit" => sock[ServSock] = "open" /\ reads[1] = ServSock

\* A client that is here stays watched: taking others out of reads during a
\* pass never loses it (lines 67-83), and FD_SET does so at its accept only
\* when the set is full (line 75).
Watched ==
    [][\A c \in Clients : sock'[c] = "open" /\ c \notin Range(reads') =>
          \/ peer[c] = "fin"
          \/ sock[c] = "open" /\ c \notin Range(reads)
          \/ sock[c] # "open" /\ Len(reads) = FdSetSize]_vars

\* A client is cut off without having left only if one select has reported
\* several clients: a hang-up that it reports alone, or with a connection
\* request, closes the right socket (line 84).
CutOff(c) == sock[c] = "open" /\ sock'[c] = "closed" /\ peer[c] = "up" /\ pc' # "exit"

Crowd == \E c, d \in Clients : c # d /\ IsSet(c) /\ IsSet(d)

CutOffNeedsCrowd == [][\A c \in Clients : CutOff(c) => Crowd]_vars

\* While the server runs a client that is watched gets back all that it sent,
\* in order, though clients that have reset stay ready for ever (line 80) and
\* entries are skipped after a removal (line 83).
Owed(c) == sock[c] = "open" /\ peer[c] = "up" /\ out[c] # [k \in 1 .. sent[c] |-> k]

Answered == \A c \in Clients : Owed(c) ~> (~Owed(c) \/ pc = "exit" \/ c \notin Range(reads))

\* The socket that is closed is the one of the client that closed (the message
\* "closed client" of line 85).
ClosedAreLeavers == pc # "exit" => \A c \in Clients : sock[c] = "closed" => peer[c] \in {"fin", "rst"}
=============================================================================
