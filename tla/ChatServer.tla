------------------------------ MODULE ChatServer ------------------------------
(***************************************************************************)
(* The multi-threaded chat server (chat_serv_win.cpp) with its clients     *)
(* (chat_clnt_win.cpp).                                                    *)
(*                                                                         *)
(* main accepts clients, enters each into clntSocks under hMutex and       *)
(* starts a HandleClnt thread with the ADDRESS of its one hClntSock        *)
(* variable.  A handler passes every message it receives to all entries of *)
(* the table, again under hMutex, and at the end of the stream takes its   *)
(* client out of the table.                                                *)
(*                                                                         *)
(* A socket is a number: accept may return any number that is free, also   *)
(* one that a handler still holds or that the table still lists, and what  *)
(* is done through a number reaches whoever has it by then.                *)
(*                                                                         *)
(* The i-th line that client c sends is <<c, i>>; one recv of the server   *)
(* may return several.  Bodies that run under hMutex without waiting for   *)
(* anything else are one action; the broadcast is not, because send blocks *)
(* on a client that does not read.  Handlers are numbered in the order     *)
(* they are started.  own and heirs record what has happened and decide    *)
(* nothing.                                                                *)
(***************************************************************************)
EXTENDS Integers, Sequences, SequencesExt, FiniteSets

CONSTANTS
    Clients,   \* the clients that may connect
    Leavers,   \* those that may quit
    Handles,   \* the socket numbers
    NoSock,    \* INVALID_SOCKET, and a number or a client that is not there
    MaxAccepts, \* bound: calls of accept
    MaxMsgs,   \* bound: lines a client sends
    BufSize,   \* lines that fit the buffer of a handler
    Capacity   \* unread lines that fit the socket buffers of a client

ASSUME ChatAssumption ==
    /\ Leavers \subseteq Clients /\ NoSock \notin Clients \cup Handles
    /\ MaxAccepts \in Nat
    /\ MaxMsgs \in Nat /\ BufSize \in Nat \ {0}
    /\ Capacity \in Nat /\ Capacity >= BufSize

Handlers == 1 .. MaxAccepts

VARIABLES
    peer,      \* peer[c]: what the client's end of the connection has done
    sent,      \* sent[c]: lines client c has sent
    taken,     \* taken[c]: how many of them handlers have received
    inbox,     \* inbox[c]: the lines delivered to c, in order
    nread,     \* nread[c]: how many of them c has read
    sock,      \* sock[n]: the client that socket number n leads to, NoSock when free
    hnd,       \* hnd[c]: the number accept returned for c
    hClntSock, \* main's variable, which every handler is pointed at
    clntSocks, \* the table, 1-based here, with one entry to spare
    clntCnt,   \* the number of entries in use
    mainPc,    \* where main is
    started,   \* number of handlers started
    mutex,     \* the handler that owns hMutex, 0 for none
    pc,        \* pc[h]: where handler h is
    mySock,    \* mySock[h]: its copy of the socket
    msg,       \* msg[h]: the lines it has received
    idx,       \* idx[h]: its loop index in SendMsg
    own,       \* own[h]: history, what accept returned before h was started
    heirs      \* history, the clients given a number that the table still listed

clientVars == <<peer, sent, inbox, nread>>
socketVars == <<taken, sock, hnd>>
tableVars  == <<clntSocks, clntCnt>>
mainVars   == <<hClntSock, mainPc, started>>
threadVars == <<pc, mySock, msg, idx>>
history == <<own, heirs>>
vars == <<clientVars, socketVars, tableVars, mainVars, mutex, threadVars, history>>

Line == Clients \X (1 .. MaxMsgs)

Entries == 1 .. MaxAccepts + 1

Number == Handles \cup {NoSock}

TypeOK ==
    /\ peer   \in [Clients -> {"idle", "up", "fin", "rst"}]
    /\ sent   \in [Clients -> 0 .. MaxMsgs]
    /\ taken  \in [Clients -> 0 .. MaxMsgs]
    /\ inbox  \in [Clients -> Seq(Line)]
    /\ nread  \in [Clients -> Nat]
    /\ sock   \in [Handles -> Clients \cup {NoSock}]
    /\ hnd    \in [Clients -> Number]
    /\ hClntSock \in Number
    /\ clntSocks \in [Entries -> Number]
    /\ clntCnt \in 0 .. MaxAccepts
    /\ mainPc  \in {"accept", "store", "spawn"}
    /\ started \in 0 .. MaxAccepts
    /\ mutex   \in Handlers \cup {0}
    /\ pc      \in [Handlers -> {"none", "start", "recv", "lock", "send", "leave", "close", "done"}]
    /\ mySock  \in [Handlers -> Number]
    /\ msg     \in [Handlers -> Seq(Line)]
    /\ idx     \in [Handlers -> 0 .. MaxAccepts + 1]
    /\ own     \in [Handlers -> Number]
    /\ heirs \subseteq Clients

Init ==
    /\ peer   = [c \in Clients |-> "idle"]
    /\ sent   = [c \in Clients |-> 0]
    /\ taken  = [c \in Clients |-> 0]
    /\ inbox  = [c \in Clients |-> <<>>]
    /\ nread  = [c \in Clients |-> 0]
    /\ sock   = [n \in Handles |-> NoSock]
    /\ hnd    = [c \in Clients |-> NoSock]
    /\ hClntSock = NoSock
    /\ clntSocks = [i \in Entries |-> NoSock]
    /\ clntCnt = 0
    /\ mainPc  = "accept"
    /\ started = 0
    /\ mutex   = 0
    /\ pc      = [h \in Handlers |-> "none"]
    /\ mySock  = [h \in Handlers |-> NoSock]
    /\ msg     = [h \in Handlers |-> <<>>]
    /\ idx     = [h \in Handlers |-> 0]
    /\ own     = [h \in Handlers |-> NoSock]
    /\ heirs   = {}

-----------------------------------------------------------------------------
(* The clients: chat_clnt_win.cpp. *)

Connect(c) ==
    /\ peer[c] = "idle"
    /\ peer' = [peer EXCEPT ![c] = "up"]
    /\ UNCHANGED <<sent, inbox, nread, socketVars, tableVars, mainVars, mutex, threadVars, history>>

\* The send thread.
ClientSend(c) ==
    /\ peer[c] = "up" /\ sent[c] < MaxMsgs
    /\ sent' = [sent EXCEPT ![c] = @ + 1]
    /\ UNCHANGED <<peer, inbox, nread, socketVars, tableVars, mainVars, mutex, threadVars, history>>

\* The read thread: recv returns what there is.
ClientRead(c) ==
    /\ peer[c] = "up" /\ nread[c] < Len(inbox[c])
    /\ nread' = [nread EXCEPT ![c] = Len(inbox[c])]
    /\ UNCHANGED <<peer, sent, inbox, socketVars, tableVars, mainVars, mutex, threadVars, history>>

\* "q": the send thread closes the socket and ends the process.  Closing it
\* with lines unread resets the connection.
ClientQuit(c) ==
    /\ c \in Leavers /\ peer[c] = "up"
    /\ peer' = [peer EXCEPT ![c] = IF nread[c] < Len(inbox[c]) THEN "rst" ELSE "fin"]
    /\ UNCHANGED <<sent, inbox, nread, socketVars, tableVars, mainVars, mutex, threadVars, history>>

-----------------------------------------------------------------------------
(* main *)

Listed == {clntSocks[i] : i \in 1 .. clntCnt}

\* accept takes any connected client, in any free number.
Accept(c) ==
    /\ mainPc = "accept" /\ started < MaxAccepts
    /\ peer[c] # "idle" /\ hnd[c] = NoSock
    /\ \E n \in Handles :
          /\ sock[n] = NoSock
          /\ sock' = [sock EXCEPT ![n] = c]
          /\ hnd' = [hnd EXCEPT ![c] = n]
          /\ hClntSock' = n
          /\ own' = [own EXCEPT ![started + 1] = n]
          /\ heirs' = IF n \in Listed THEN heirs \cup {c} ELSE heirs
    /\ mainPc' = "store"
    /\ UNCHANGED <<clientVars, taken, tableVars, started, mutex, threadVars>>

\* accept fails, which main does not look at.
AcceptFails ==
    /\ mainPc = "accept" /\ started < MaxAccepts
    /\ hClntSock' = NoSock
    /\ mainPc' = "store"
    /\ UNCHANGED <<clientVars, socketVars, tableVars, started, mutex, threadVars, history>>

Register ==
    /\ mainPc = "store" /\ mutex = 0
    /\ clntSocks' = [clntSocks EXCEPT ![clntCnt + 1] = hClntSock]
    /\ clntCnt' = clntCnt + 1
    /\ mainPc' = "spawn"
    /\ UNCHANGED <<clientVars, socketVars, hClntSock, started, mutex, threadVars, history>>

\* _beginthreadex(..., &hClntSock, ...): the handler copies the socket later.
Spawn ==
    /\ mainPc = "spawn"
    /\ started' = started + 1
    /\ pc' = [pc EXCEPT ![started + 1] = "start"]
    /\ mainPc' = "accept"
    /\ UNCHANGED <<clientVars, socketVars, tableVars, hClntSock, mutex, mySock, msg, idx, history>>

-----------------------------------------------------------------------------
(* HandleClnt and SendMsg, in handler h. *)

Start(h) ==
    /\ pc[h] = "start"
    /\ mySock' = [mySock EXCEPT ![h] = hClntSock]
    /\ pc' = [pc EXCEPT ![h] = "recv"]
    /\ UNCHANGED <<clientVars, socketVars, tableVars, mainVars, mutex, msg, idx, history>>

\* Number n is a socket of client c that works, or of nobody.
On(n, c) == n \in Handles /\ sock[n] = c /\ peer[c] # "rst"
Broken(n) == \A c \in Clients : ~On(n, c)

\* Mutated form: a failed recv leaves the last length, so the last line goes
\* out again.
Recv_resend(h) ==
    /\ pc[h] = "recv"
    /\ \/ \E c \in Clients :
             /\ On(mySock[h], c) /\ taken[c] < sent[c]
             /\ msg' = [msg EXCEPT ![h] = <<<<c, taken[c] + 1>>>>]
             /\ taken' = [taken EXCEPT ![c] = @ + 1]
       \/ /\ Broken(mySock[h])
          /\ UNCHANGED <<msg, taken>>
    /\ pc' = [pc EXCEPT ![h] = "lock"]
    /\ UNCHANGED <<clientVars, sock, hnd, tableVars, mainVars, mutex, mySock, idx, history>>

\* recv: lines, 0 at the end of the stream, or -1 -- which the loop does not
\* tell from a length: SendMsg is called with it, and every send refuses it.
Recv(h) ==
    /\ pc[h] = "recv"
    /\ \/ \E c \in Clients, k \in 1 .. BufSize :
             /\ On(mySock[h], c) /\ taken[c] + k <= sent[c]
             /\ msg' = [msg EXCEPT ![h] = [i \in 1 .. k |-> <<c, taken[c] + i>>]]
             /\ taken' = [taken EXCEPT ![c] = @ + k]
             /\ pc' = [pc EXCEPT ![h] = "lock"]
       \/ \E c \in Clients :
             /\ On(mySock[h], c) /\ peer[c] = "fin" /\ taken[c] = sent[c]
             /\ pc' = [pc EXCEPT ![h] = "leave"]
             /\ UNCHANGED <<msg, taken>>
       \/ /\ Broken(mySock[h])
          /\ msg' = [msg EXCEPT ![h] = <<>>]
          /\ pc' = [pc EXCEPT ![h] = "lock"]
          /\ UNCHANGED taken
    /\ UNCHANGED <<clientVars, sock, hnd, tableVars, mainVars, mutex, mySock, idx, history>>

\* Mutated form: SendMsg does not wait for hMutex.
Lock_none(h) ==
    /\ pc[h] = "lock"
    /\ mutex' = h
    /\ idx' = [idx EXCEPT ![h] = 1]
    /\ pc' = [pc EXCEPT ![h] = "send"]
    /\ UNCHANGED <<clientVars, socketVars, tableVars, mainVars, mySock, msg, history>>

Lock(h) ==
    /\ pc[h] = "lock" /\ mutex = 0
    /\ mutex' = h
    /\ idx' = [idx EXCEPT ![h] = 1]
    /\ pc' = [pc EXCEPT ![h] = "send"]
    /\ UNCHANGED <<clientVars, socketVars, tableVars, mainVars, mySock, msg, history>>

Fits(d, h) == Len(inbox[d]) - nread[d] + Len(msg[h]) <= Capacity

\* send to one entry.  It waits for room in the buffers of a client that is
\* up, makes one that has quit answer with a reset, and fails on any other.
SendOne(h) ==
    /\ pc[h] = "send" /\ idx[h] <= clntCnt
    /\ \/ \E d \in Clients :
             /\ On(clntSocks[idx[h]], d)
             /\ \/ /\ peer[d] = "up" /\ Fits(d, h)
                   /\ inbox' = [inbox EXCEPT ![d] = @ \o msg[h]]
                   /\ UNCHANGED peer
                \/ /\ peer[d] = "fin"
                   /\ peer' = IF msg[h] = <<>> THEN peer ELSE [peer EXCEPT ![d] = "rst"]
                   /\ UNCHANGED inbox
       \/ /\ Broken(clntSocks[idx[h]])
          /\ UNCHANGED <<peer, inbox>>
    /\ idx' = [idx EXCEPT ![h] = @ + 1]
    /\ UNCHANGED <<sent, nread, socketVars, tableVars, mainVars, mutex, pc, mySock, msg, history>>

\* Mutated form: ReleaseMutex is missing (line 106).
Unlock_none(h) ==
    /\ pc[h] = "send" /\ idx[h] > clntCnt
    /\ pc' = [pc EXCEPT ![h] = "recv"]
    /\ UNCHANGED <<clientVars, socketVars, tableVars, mainVars, mutex, mySock, msg, idx, history>>

Unlock(h) ==
    /\ pc[h] = "send" /\ idx[h] > clntCnt
    /\ mutex' = 0
    /\ pc' = [pc EXCEPT ![h] = "recv"]
    /\ UNCHANGED <<clientVars, socketVars, tableVars, mainVars, mySock, msg, idx, history>>

\* The table after the loop of lines 82-92 has dealt with socket n: while i++
\* has moved past the entry found before the first copy, so the entry AFTER it
\* is overwritten and n stays, in the table unless it was the last.
Removed(n) ==
    [i \in Entries |->
        IF i <= clntCnt /\ (\E j \in 1 .. i - 1 : clntSocks[j] = n)
        THEN clntSocks[i + 1] ELSE clntSocks[i]]

\* The locked part of the end of a handler.
Deregister(h) ==
    /\ pc[h] = "leave" /\ mutex = 0
    /\ clntSocks' = Removed(mySock[h])
    /\ clntCnt' = clntCnt - 1
    /\ pc' = [pc EXCEPT ![h] = "close"]
    /\ UNCHANGED <<clientVars, socketVars, mainVars, mutex, mySock, msg, idx, history>>

\* Mutated form: the socket closed is the one *arg holds by now.
CloseSock_arg(h) ==
    /\ pc[h] = "close"
    /\ sock' = [n \in Handles |-> IF n = hClntSock THEN NoSock ELSE sock[n]]
    /\ pc' = [pc EXCEPT ![h] = "done"]
    /\ UNCHANGED <<clientVars, taken, hnd, tableVars, mainVars, mutex, mySock, msg, idx, history>>

\* Whoever the number leads to by now is disconnected, and the number is free.
CloseSock(h) ==
    /\ pc[h] = "close"
    /\ sock' = [n \in Handles |-> IF n = mySock[h] THEN NoSock ELSE sock[n]]
    /\ pc' = [pc EXCEPT ![h] = "done"]
    /\ UNCHANGED <<clientVars, taken, hnd, tableVars, mainVars, mutex, mySock, msg, idx, history>>

-----------------------------------------------------------------------------

Client(c) == Connect(c) \/ ClientSend(c) \/ ClientRead(c) \/ ClientQuit(c)

Main == Register \/ Spawn \/ AcceptFails \/ \E c \in Clients : Accept(c)

Handler(h) ==
    \/ Start(h) \/ Recv(h) \/ Lock(h) \/ SendOne(h) \/ Unlock(h)
    \/ Deregister(h) \/ CloseSock(h)

Next == (\E c \in Clients : Client(c)) \/ Main \/ (\E h \in Handlers : Handler(h))

Spec == Init /\ [][Next]_vars

\* Threads run, and a wait for hMutex is served in turn, so that even the
\* endless loop of a handler whose recv fails (line 76) cannot keep others from
\* it.  Of the clients nothing is assumed.
Fairness ==
    /\ SF_vars(Main)
    /\ \A h \in Handlers : /\ WF_vars(Handler(h))
                           /\ SF_vars(Lock(h)) /\ SF_vars(Deregister(h))

FairSpec == Spec /\ Fairness

-----------------------------------------------------------------------------
(* Properties. *)

Open(c) == hnd[c] # NoSock /\ sock[hnd[c]] = c

Present(c) == peer[c] = "up" /\ Open(c)

\* Handler h serves another socket than the one it was started for: main's
\* variable had the next one by the time it read it (lines 63, 72).
Lost(h) == pc[h] \notin {"none", "start"} /\ mySock[h] # own[h]

\* Any two clients in the room have seen the same conversation since the later
\* of them came in, in the same order and with nothing left out, whichever
\* handlers broadcast and whoever comes or goes meanwhile (lines 98-107); but
\* for a client whose number was still in the table when accept gave it out.
Agreement ==
    mutex = 0 =>
       \A c, d \in {e \in Clients \ heirs : Present(e) /\ hnd[e] \in Listed} :
          IsSuffix(inbox[c], inbox[d]) \/ IsSuffix(inbox[d], inbox[c])

\* The only way to be sent a line twice is to be given a number that the
\* removal loop has left in the table (lines 57, 82-93), however many handlers
\* serve one client and whoever's socket they have meanwhile.
NoDoubleDelivery ==
    \A c \in Clients \ heirs :
       \A i, j \in DOMAIN inbox[c] : inbox[c][i] = inbox[c][j] => i = j

\* The server closes the socket only of a client that has quit (line 95),
\* unless a handler that was started for another one took its number from
\* main's variable: then two handlers close the number, and the second may hit
\* whoever was given it in between.
OnlyLeaversClosed ==
    \A c \in Clients :
       hnd[c] # NoSock /\ ~Open(c) =>
          peer[c] # "up" \/ \E h \in Handlers : Lost(h) /\ mySock[h] = hnd[c]

\* A send waits, with hMutex held, for a client that does not read.
Held ==
    \E h \in Handlers, d \in Clients :
       /\ pc[h] = "send" /\ idx[h] <= clntCnt
       /\ On(clntSocks[idx[h]], d) /\ peer[d] = "up" /\ ~Fits(d, h)

\* A line that is waiting for a handler is delivered to everyone in the room,
\* even while the handler of a client that has reset loops over its failing
\* recv; until the receiver leaves the room, or the sender resets or is closed.
\* Only one client that stops reading for good can prevent it, for everyone.
Delivery ==
    (\A c, d \in Clients, i \in 1 .. MaxMsgs :
       /\ taken[c] < i /\ i <= sent[c] /\ Open(c)
       /\ \E h \in Handlers : mySock[h] = hnd[c] /\ pc[h] \in {"recv", "lock", "send"}
       /\ Open(d) /\ hnd[d] \in Listed
       ~>
          \/ <<c, i>> \in Range(inbox[d])
          \/ hnd[d] \notin Listed \/ ~Present(d) \/ Broken(hnd[c]))
    \/ <>[]Held
=============================================================================
