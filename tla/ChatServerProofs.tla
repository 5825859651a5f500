--------------------------- MODULE ChatServerProofs ---------------------------
(***************************************************************************)
(* Proofs about ChatServer, for any clients and socket numbers, any number *)
(* of lines and any sizes of the buffers.                                  *)
(*                                                                         *)
(* That the removal loop of lines 82-93 takes the wrong entry out of the   *)
(* table does not matter to a client whose number was not in the table     *)
(* when accept gave it out: the loop never makes an entry appear twice, so *)
(* this client is entered once.  A line that a handler has received is     *)
(* with this handler only, and it is in no inbox that the handler has      *)
(* still to come to.  What each such client in the room has and is still   *)
(* to get from the handler that sends is the same conversation for all.    *)
(* As to closing: as long as no handler has taken number n from main's     *)
(* variable in place of its own, one handler at most is there for n, and n *)
(* is not free before that handler has closed it.                          *)
(***************************************************************************)
EXTENDS ChatServer, FiniteSetTheorems, TLAPS

N == MaxAccepts

\* The handlers whose client has been taken out, and the places of main.
Gone == {h \in Handlers : pc[h] \in {"close", "done"}}

Holding == IF mainPc = "accept" THEN 0 ELSE 1

Entering == IF mainPc = "spawn" THEN 1 ELSE 0

\* Each call of accept is being dealt with or has a handler, and the table has
\* an entry for each handler that has not taken one out.
Room ==
    /\ started + Holding <= N
    /\ clntCnt + Cardinality(Gone) = started + Entering
    /\ \A h \in Handlers : pc[h] = "none" <=> h > started
    /\ \A h \in Handlers : h > started + Holding => own[h] = NoSock

\* The number of an open socket is its client's, and who has not been accepted
\* has been sent nothing.
Numbers ==
    /\ \A n \in Handles : sock[n] # NoSock => hnd[sock[n]] = n
    /\ \A c \in Clients : hnd[c] = NoSock => inbox[c] = <<>>
    /\ \A c \in Clients : hnd[c] # NoSock => peer[c] # "idle"

\* Number n is in the table at most once.
Once(n) == \A i, j \in 1 .. clntCnt : clntSocks[i] = n /\ clntSocks[j] = n => i = j

\* An open socket that was not in the table when accept returned it is there
\* at most once, and not before main enters it.
Table ==
    \A c \in Clients \ heirs : Open(c) =>
       /\ Once(hnd[c])
       /\ mainPc = "store" /\ hClntSock = hnd[c] => \A i \in 1 .. clntCnt : clntSocks[i] # hnd[c]

\* hMutex is with the handler that sends.
Owned ==
    \A h \in Handlers : /\ mutex = h <=> pc[h] = "send"
                        /\ pc[h] = "send" => idx[h] >= 1

\* Handler h is to come or is there.
Live(h) == pc[h] # "done" /\ (h <= started \/ (h = started + 1 /\ mainPc # "accept"))

\* A handler that was started for another number has taken n.
Tainted(n) == \E h \in Handlers : Lost(h) /\ mySock[h] = n

\* Number n is with one handler, which it leads to a client for as long as the
\* handler is there, and which leaves its loop only if that client has quit.
Sole(n) ==
    /\ \A g, h \in Handlers : Live(g) /\ Live(h) /\ own[g] = n /\ own[h] = n => g = h
    /\ \A h \in Handlers : Live(h) /\ own[h] = n => sock[n] # NoSock
    /\ \A h \in Handlers : pc[h] \in {"leave", "close"} /\ mySock[h] = n =>
          sock[n] # NoSock /\ peer[sock[n]] \in {"fin", "rst"}

Leaving ==
    /\ \A n \in Handles : ~Tainted(n) => Sole(n)
    /\ OnlyLeaversClosed

\* Handler h has lines that it is to send, or is sending.
Busy(h) == pc[h] \in {"lock", "send"}

\* h has still to come to client d, if d is in the table at all.
Ahead(h, d) == pc[h] = "lock" \/ \E i \in 1 .. clntCnt : idx[h] <= i /\ clntSocks[i] = hnd[d]

Received(l) == l[2] <= taken[l[1]]

\* Lines with handlers and in inboxes have been received, are with one handler
\* only, and have not been to where that handler has still to bring them.
Lines ==
    /\ \A d \in Clients : \A k \in 1 .. Len(inbox[d]) : Received(inbox[d][k])
    /\ \A h \in Handlers : Busy(h) => \A k \in 1 .. Len(msg[h]) : Received(msg[h][k])
    /\ \A g, h \in Handlers : Busy(g) /\ Busy(h) =>
          \A j \in 1 .. Len(msg[g]), k \in 1 .. Len(msg[h]) :
             msg[g][j] = msg[h][k] => g = h /\ j = k
    /\ \A h \in Handlers, d \in Clients \ heirs : Busy(h) /\ Ahead(h, d) =>
          \A j \in 1 .. Len(msg[h]), k \in 1 .. Len(inbox[d]) : msg[h][j] # inbox[d][k]
    /\ NoDoubleDelivery

TakenSent == \A c \in Clients : taken[c] <= sent[c]

Safe == Room /\ Numbers /\ Table /\ Owned /\ Leaving /\ Lines /\ TakenSent

IInv == TypeOK /\ Safe

LEMMA Sizes == N \in Nat /\ Handlers = 1 .. N /\ Entries = 1 .. N + 1
    BY ChatAssumption DEF N, Handlers, Entries

\* Sets of handlers have a size.
LEMMA Small == \A S \in SUBSET Handlers : IsFiniteSet(S) /\ Cardinality(S) \in 0 .. N
<1>1. IsFiniteSet(Handlers) /\ Cardinality(Handlers) = N
    BY Sizes, FS_Interval
<1> SUFFICES ASSUME NEW S \in SUBSET Handlers PROVE IsFiniteSet(S) /\ Cardinality(S) \in 0 .. N
    OBVIOUS
<1>2. IsFiniteSet(S) /\ Cardinality(S) <= N
    BY <1>1, FS_Subset
<1> QED
    BY <1>2, FS_CardinalityType

\* What is there and what is not.
LEMMA Kinds ==
    /\ NoSock \notin Clients /\ NoSock \notin Handles
    /\ \A c \in Clients : TypeOK /\ Open(c) => hnd[c] \in Handles /\ sock[hnd[c]] = c
    BY ChatAssumption DEF TypeOK, Open, Number

LEMMA Initial == Init => IInv
<1> SUFFICES ASSUME Init PROVE IInv
    OBVIOUS
<1> USE Sizes, Kinds DEF Init
<1>1. TypeOK
    BY ChatAssumption DEF TypeOK, N, Number
<1>2. Room
  <2>1. Gone = {}
      BY DEF Gone
  <2>2. Cardinality({}) = 0
      BY FS_EmptySet
  <2> QED
      BY <2>1, <2>2 DEF Room, Holding, Entering
<1>3. Numbers /\ Table /\ Owned /\ Lines /\ TakenSent
    BY DEF Numbers, Table, Open, Owned, Lines, TakenSent, Busy, NoDoubleDelivery
<1>4. Leaving
    BY DEF Leaving, Sole, Live, OnlyLeaversClosed, Open
<1> QED
    BY <1>1, <1>2, <1>3, <1>4 DEF IInv, Safe

\* How far the counts go: the table has room for the client being entered, and
\* there is a handler for it.
LEMMA Bounds ==
    ASSUME TypeOK, Room
    PROVE  /\ clntCnt \in 0 .. N /\ started \in 0 .. N
           /\ mainPc = "store" => clntCnt + 1 \in 1 .. N
           /\ mainPc = "spawn" => started + 1 \in Handlers
           /\ mainPc = "accept" /\ started < N => started + 1 \in Handlers
           /\ \A h \in Handlers : pc[h] = "leave" => clntCnt > 0
<1>1. Gone \in SUBSET Handlers
    BY DEF Gone
<1>2. Cardinality(Gone) \in 0 .. N
    BY <1>1, Small
<1>3. mainPc \in {"accept", "store", "spawn"} /\ clntCnt \in 0 .. N /\ started \in 0 .. N
    BY Sizes DEF TypeOK, N
<1>4. \A h \in Handlers : pc[h] = "leave" => clntCnt > 0
  <2> SUFFICES ASSUME NEW h \in Handlers, pc[h] = "leave" PROVE clntCnt > 0
      OBVIOUS
  <2>0. \A g \in Gone \cup {h} : g \in Handlers /\ pc[g] # "none"
      BY DEF Gone
  <2>1. h \notin Gone /\ Gone \cup {h} \subseteq 1 .. started
      BY <2>0, <1>3, Sizes DEF Gone, Room
  <2>2. IsFiniteSet(Gone) /\ Cardinality(Gone \cup {h}) = Cardinality(Gone) + 1
      BY <1>1, <2>1, Small, FS_AddElement
  <2>3. IsFiniteSet(1 .. started) /\ Cardinality(1 .. started) = started
      BY <1>3, FS_Interval
  <2>4. Cardinality(Gone \cup {h}) <= started
      BY <2>1, <2>3, FS_Subset
  <2> QED
      BY <2>2, <2>4, <1>2, <1>3 DEF Room, Entering
<1> QED
    BY <1>2, <1>3, <1>4, Sizes DEF Room, Holding, Entering

-----------------------------------------------------------------------------
(* The clients. *)

\* A step that leaves the server alone and takes no client back.
LEMMA Quiet ==
    ASSUME IInv,
           UNCHANGED <<inbox, taken, sock, hnd, tableVars, mainVars, mutex, threadVars, history>>,
           \A c \in Clients : peer[c] # "idle" => peer'[c] # "idle",
           \A c \in Clients : peer'[c] = "up" => peer[c] \in {"idle", "up"},
           \A c \in Clients : peer[c] \in {"fin", "rst"} => peer'[c] \in {"fin", "rst"},
           \A c \in Clients : sent[c] <= sent'[c],
           TypeOK'
    PROVE  IInv'
<1> USE DEF IInv, Safe
<1>1. UNCHANGED <<clntSocks, clntCnt, hClntSock, mainPc, started, pc, mySock, msg, idx, own, heirs>>
    BY DEF tableVars, mainVars, threadVars, history
<1>2. Room' /\ Table' /\ Numbers'
    BY <1>1 DEF Room, Table, Once, Open, Numbers, Gone, Holding, Entering
<1>3. Owned' /\ TakenSent'
    BY <1>1 DEF Owned, TakenSent, TypeOK
<1>4. Leaving'
  <2>1. \A n \in Handles : Tainted(n)' <=> Tainted(n)
      BY <1>1 DEF Tainted, Lost
  <2>2. ASSUME NEW n \in Handles, Sole(n) PROVE Sole(n)'
    <3>1. sock[n] \in Clients \cup {NoSock}
        BY DEF TypeOK
    <3> QED
        BY <1>1, <2>2, <3>1 DEF Sole, Live
  <2>3. OnlyLeaversClosed'
      BY <1>1 DEF Leaving, OnlyLeaversClosed, Open, Lost, Numbers
  <2> QED
      BY <2>1, <2>2, <2>3 DEF Leaving
<1>5. Lines'
    BY <1>1 DEF Lines, Busy, Ahead, Received, NoDoubleDelivery
<1> QED
    BY <1>2, <1>3, <1>4, <1>5

LEMMA ClientStep == ASSUME IInv, NEW c \in Clients, Client(c) PROVE IInv'
<1>0. \A d \in Clients : sent[d] \in Nat /\ sent'[d] \in Nat /\ sent[d] <= sent'[d]
  <2>1. CASE ClientSend(c)
      BY <2>1, ChatAssumption DEF IInv, TypeOK, ClientSend
  <2>2. CASE Connect(c) \/ ClientRead(c) \/ ClientQuit(c)
      BY <2>2, ChatAssumption DEF IInv, TypeOK, Connect, ClientRead, ClientQuit
  <2> QED
      BY <2>1, <2>2 DEF Client
<1>1. TypeOK'
  <2>1. CASE ClientSend(c)
    <3>1. sent' \in [Clients -> 0 .. MaxMsgs]
        BY <2>1, ChatAssumption DEF IInv, TypeOK, ClientSend
    <3> QED
        BY <2>1, <3>1 DEF IInv, TypeOK, ClientSend, socketVars, tableVars, mainVars, threadVars, history, Number
  <2>2. CASE ClientRead(c)
    <3>1. nread' \in [Clients -> Nat]
        BY <2>2 DEF IInv, TypeOK, ClientRead
    <3> QED
        BY <2>2, <3>1 DEF IInv, TypeOK, ClientRead, socketVars, tableVars, mainVars, threadVars, history, Number
  <2>3. CASE Connect(c)
      BY <2>3 DEF IInv, TypeOK, Connect, socketVars, tableVars, mainVars, threadVars, history, Number
  <2>4. CASE ClientQuit(c)
      BY <2>4 DEF IInv, TypeOK, ClientQuit, socketVars, tableVars, mainVars, threadVars, history, Number
  <2> QED
      BY <2>1, <2>2, <2>3, <2>4 DEF Client
<1>2. UNCHANGED <<inbox, taken, sock, hnd, tableVars, mainVars, mutex, threadVars, history>>
    BY DEF Client, Connect, ClientSend, ClientRead, ClientQuit, socketVars
<1>3. \A d \in Clients : /\ peer[d] # "idle" => peer'[d] # "idle"
                         /\ peer'[d] = "up" => peer[d] \in {"idle", "up"}
                         /\ peer[d] \in {"fin", "rst"} => peer'[d] \in {"fin", "rst"}
    BY DEF IInv, TypeOK, Client, Connect, ClientSend, ClientRead, ClientQuit
<1> QED
    BY <1>1, <1>2, <1>3, <1>0, Quiet

-----------------------------------------------------------------------------
(* main *)

LEMMA AcceptStep == ASSUME IInv, NEW c \in Clients, Accept(c) PROVE IInv'
<1> USE DEF IInv, Safe, Accept
<1>1. /\ UNCHANGED <<peer, sent, inbox, nread, taken, clntSocks, clntCnt, started, mutex,
                     pc, mySock, msg, idx>>
      /\ mainPc = "accept" /\ mainPc' = "store" /\ started < N /\ hnd[c] = NoSock /\ peer[c] # "idle"
    BY DEF clientVars, tableVars, threadVars, N
<1>2. PICK n \in Handles :
         /\ sock[n] = NoSock /\ sock' = [sock EXCEPT ![n] = c] /\ hnd' = [hnd EXCEPT ![c] = n]
         /\ hClntSock' = n /\ own' = [own EXCEPT ![started + 1] = n]
         /\ heirs' = IF n \in Listed THEN heirs \cup {c} ELSE heirs
    OBVIOUS
<1> HIDE DEF Accept
<1>3. started + 1 \in Handlers /\ started \in 0 .. N /\ pc[started + 1] = "none" /\ n # NoSock
    BY <1>1, Bounds, Kinds DEF Room
<1>4. /\ sock'[n] = c /\ \A m \in Handles : m # n => sock'[m] = sock[m]
      /\ hnd'[c] = n /\ \A d \in Clients : d # c => hnd'[d] = hnd[d]
      /\ own'[started + 1] = n /\ \A h \in Handlers : h # started + 1 => own'[h] = own[h]
      /\ heirs \subseteq heirs' /\ (c \notin heirs' => \A i \in 1 .. clntCnt : clntSocks[i] # n)
    BY <1>2, <1>3 DEF TypeOK, Listed
<1>5. Gone' = Gone
    BY <1>1 DEF Gone
<1>6. TypeOK'
    BY <1>1, <1>2, <1>3, Sizes DEF TypeOK, Number
<1>7. Room'
    BY <1>1, <1>3, <1>4, <1>5, Sizes DEF Room, Holding, Entering
<1>8. Numbers'
  <2>1. \A m \in Handles : m # n /\ sock[m] # NoSock => sock[m] \in Clients /\ sock[m] # c
      BY <1>1, Kinds DEF Numbers, TypeOK
  <2>2. (\A m \in Handles : sock[m] # NoSock => hnd[sock[m]] = m)'
    <3> SUFFICES ASSUME NEW m \in Handles, sock'[m] # NoSock PROVE hnd'[sock'[m]] = m
        OBVIOUS
    <3>1. CASE m = n
        BY <1>4, <3>1
    <3>2. CASE m # n
        BY <1>4, <2>1, <3>2 DEF Numbers
    <3> QED
        BY <3>1, <3>2
  <2>3. (\A d \in Clients : hnd[d] = NoSock => inbox[d] = <<>>)'
      BY <1>1, <1>3, <1>4 DEF Numbers
  <2>4. (\A d \in Clients : hnd[d] # NoSock => peer[d] # "idle")'
      BY <1>1, <1>4 DEF Numbers
  <2> QED
      BY <2>2, <2>3, <2>4 DEF Numbers
\* The number was free, so who was there has another.
<1>9. \A d \in Clients : d # c => /\ Open(d)' <=> Open(d)
                                  /\ Open(d) => hnd[d] # n
    BY <1>2, <1>4, Kinds DEF Open, TypeOK, Number
<1>10. Table'
    BY <1>1, <1>2, <1>4, <1>9 DEF Table, Once
<1>11. \A h \in Handlers : Lost(h)' <=> Lost(h)
    BY <1>1, <1>3, <1>4 DEF Lost
<1>12. \A h \in Handlers : Live(h)' <=> Live(h) \/ h = started + 1
    BY <1>1, <1>3, Sizes DEF Live
<1>13. ASSUME NEW m \in Handles, ~Tainted(m)' PROVE Sole(m)'
  <2>1. Sole(m)
      BY <1>1, <1>11, <1>13 DEF Leaving, Tainted
  <2>2. CASE m = n
    <3>1. \A h \in Handlers : ~(Live(h) /\ own[h] = n) /\ ~(pc[h] \in {"leave", "close"} /\ mySock[h] = n)
        BY <1>2, <2>1, <2>2 DEF Sole
    <3>2. \A h \in Handlers : Live(h)' /\ own'[h] = n => h = started + 1
        BY <1>4, <1>12, <3>1
    <3> QED
        BY <1>1, <1>3, <1>4, <2>2, <3>1, <3>2, Kinds DEF Sole
  <2>3. CASE m # n
    <3>1. \A h \in Handlers : Live(h)' /\ own'[h] = m => Live(h) /\ own[h] = m
        BY <1>4, <1>12, <2>3
    <3> QED
        BY <1>1, <1>4, <2>1, <2>3, <3>1 DEF Sole
  <2> QED
      BY <2>2, <2>3
<1>14. OnlyLeaversClosed'
  <2>1. Open(c)'
      BY <1>3, <1>4 DEF Open
  <2> QED
      BY <1>1, <1>4, <1>9, <1>11, <2>1 DEF Leaving, OnlyLeaversClosed
<1>15. \A h \in Handlers : (Busy(h)' <=> Busy(h)) /\ \A d \in Clients : d # c => (Ahead(h, d)' <=> Ahead(h, d))
    BY <1>1, <1>4 DEF Busy, Ahead
<1>16. Len(inbox'[c]) = 0
    BY <1>1 DEF Numbers
<1>17. Lines'
  <2>1. NoDoubleDelivery'
      BY <1>1, <1>4 DEF Lines, NoDoubleDelivery
  <2>2. \A h \in Handlers, d \in Clients \ heirs' : Busy(h)' /\ Ahead(h, d)' =>
           \A j \in 1 .. Len(msg'[h]), k \in 1 .. Len(inbox'[d]) : msg'[h][j] # inbox'[d][k]
    <3> SUFFICES ASSUME NEW h \in Handlers, NEW d \in Clients \ heirs', Busy(h)', Ahead(h, d)',
                        NEW j \in 1 .. Len(msg'[h]), NEW k \in 1 .. Len(inbox'[d])
                 PROVE  msg'[h][j] # inbox'[d][k]
        OBVIOUS
    <3>1. CASE d = c
        BY <1>16, <3>1
    <3>2. CASE d # c
        BY <1>1, <1>4, <1>15, <3>2 DEF Lines
    <3> QED
        BY <3>1, <3>2
  <2> QED
      BY <1>1, <1>15, <2>1, <2>2 DEF Lines, Received
<1>18. Owned' /\ TakenSent'
    BY <1>1 DEF Owned, TakenSent
<1> QED
    BY <1>6, <1>7, <1>8, <1>10, <1>13, <1>14, <1>17, <1>18 DEF Leaving

\* Main goes on although accept has returned no socket.
LEMMA AcceptFailsStep == ASSUME IInv, AcceptFails PROVE IInv'
<1> USE DEF IInv, Safe, AcceptFails
<1>1. /\ UNCHANGED <<peer, sent, inbox, nread, taken, sock, hnd, clntSocks, clntCnt, started, mutex,
                     pc, mySock, msg, idx, own, heirs>>
      /\ mainPc = "accept" /\ mainPc' = "store" /\ started < N /\ hClntSock' = NoSock
    BY DEF clientVars, socketVars, tableVars, threadVars, history, N
<1> HIDE DEF AcceptFails
<1>2. started + 1 \in Handlers /\ started \in 0 .. N /\ own[started + 1] = NoSock
    BY <1>1, Bounds DEF Room, Holding
<1>3. Gone' = Gone
    BY <1>1 DEF Gone
<1>4. TypeOK'
    BY <1>1 DEF TypeOK, Number
<1>5. Room'
    BY <1>1, <1>2, <1>3, Sizes DEF Room, Holding, Entering
<1>6. Numbers' /\ Table' /\ Owned' /\ TakenSent'
    BY <1>1 DEF Numbers, Table, Once, Open, Owned, TakenSent
<1>7. \A h \in Handlers : Live(h)' <=> Live(h) \/ (h = started + 1 /\ pc[h] # "done")
    BY <1>1, <1>2, Sizes DEF Live
<1>8. \A h \in Handlers, n \in Handles : Live(h)' /\ own'[h] = n => Live(h) /\ own[h] = n
    BY <1>1, <1>2, <1>7, Kinds
<1>9. ASSUME NEW n \in Handles, Sole(n) PROVE Sole(n)'
    BY <1>1, <1>8, <1>9 DEF Sole
<1>10. Leaving'
    BY <1>1, <1>9 DEF Leaving, Tainted, Lost, OnlyLeaversClosed, Open
<1>11. Lines'
    BY <1>1 DEF Lines, Busy, Ahead, Received, NoDoubleDelivery
<1> QED
    BY <1>4, <1>5, <1>6, <1>10, <1>11

LEMMA RegisterStep == ASSUME IInv, Register PROVE IInv'
<1> USE DEF IInv, Safe, Register
<1>1. UNCHANGED <<peer, sent, inbox, nread, taken, sock, hnd, hClntSock, started, mutex,
                  pc, mySock, msg, idx, own, heirs>>
      /\ mainPc = "store" /\ mainPc' = "spawn" /\ mutex = 0 /\ clntCnt' = clntCnt + 1
      /\ clntSocks' = [clntSocks EXCEPT ![clntCnt + 1] = hClntSock]
    BY DEF clientVars, socketVars, threadVars, history
<1> HIDE DEF Register
<1>2. Gone' = Gone /\ Gone \in SUBSET Handlers
    BY <1>1 DEF Gone
<1>3. clntCnt \in Nat /\ clntCnt + 1 \in 1 .. N /\ started \in Nat
    BY <1>1, Bounds
<1>4. TypeOK'
    BY <1>1, <1>3, Sizes DEF TypeOK, N
<1>5. Cardinality(Gone) \in Nat
    BY <1>2, Small
<1>6. Room'
  <2>1. (clntCnt + Cardinality(Gone) = started + Entering)'
      BY <1>1, <1>2, <1>3, <1>5 DEF Room, Entering
  <2> QED
      BY <1>1, <1>2, <2>1 DEF Room, Holding
<1>7. /\ \A i \in 1 .. clntCnt : clntSocks'[i] = clntSocks[i]
      /\ clntSocks'[clntCnt + 1] = hClntSock
      /\ \A i \in 1 .. clntCnt' : i \in 1 .. clntCnt \/ i = clntCnt + 1
    BY <1>1, <1>3, Sizes DEF TypeOK
<1>8. Table'
  <2> SUFFICES ASSUME NEW c \in Clients \ heirs, Open(c) PROVE Once(hnd[c])'
      BY <1>1 DEF Table, Open
  <2>1. Once(hnd[c]) /\ (hClntSock = hnd[c] => \A i \in 1 .. clntCnt : clntSocks[i] # hnd[c])
      BY <1>1 DEF Table
  <2> SUFFICES ASSUME NEW i \in 1 .. clntCnt', NEW j \in 1 .. clntCnt',
                      clntSocks'[i] = hnd[c], clntSocks'[j] = hnd[c]
               PROVE  i = j
      BY <1>1 DEF Once
  <2> QED
      BY <1>7, <2>1 DEF Once
<1>9. Numbers' /\ Owned' /\ TakenSent'
    BY <1>1 DEF Numbers, Owned, TakenSent
<1>10. \A h \in Handlers : pc[h] # "send"
    BY <1>1, Sizes DEF Owned
<1>11. \A n \in Handles : Sole(n)' <=> Sole(n)
    BY <1>1 DEF Sole, Live
<1>12. Leaving'
    BY <1>1, <1>11 DEF Leaving, Tainted, Lost, OnlyLeaversClosed, Open
<1>13. Lines'
    BY <1>1, <1>10 DEF Lines, Busy, Ahead, Received, NoDoubleDelivery
<1> QED
    BY <1>4, <1>6, <1>8, <1>9, <1>12, <1>13

LEMMA SpawnStep == ASSUME IInv, Spawn PROVE IInv'
<1> USE DEF IInv, Safe, Spawn
<1>1. UNCHANGED <<peer, sent, inbox, nread, taken, sock, hnd, clntSocks, clntCnt, hClntSock,
                  mutex, mySock, msg, idx, own, heirs>>
      /\ mainPc = "spawn" /\ mainPc' = "accept" /\ started' = started + 1
      /\ pc' = [pc EXCEPT ![started + 1] = "start"]
    BY DEF clientVars, socketVars, tableVars, history
<1> HIDE DEF Spawn
<1>2. started + 1 \in Handlers /\ started \in Nat
    BY <1>1, Bounds
<1>3. pc[started + 1] = "none"
    BY <1>2 DEF Room
<1>4. /\ pc'[started + 1] = "start"
      /\ \A h \in Handlers : h # started + 1 => pc'[h] = pc[h]
    BY <1>1, <1>2 DEF TypeOK
<1>5. Gone' = Gone /\ Gone \in SUBSET Handlers
    BY <1>1, <1>3, <1>4 DEF Gone
<1>6. TypeOK'
    BY <1>1, <1>2, Sizes DEF TypeOK, N
<1>7. Cardinality(Gone) \in Nat
    BY <1>5, Small
<1>8. Room'
    BY <1>1, <1>2, <1>4, <1>5, <1>7, Sizes DEF Room, Holding, Entering, TypeOK
<1>9. Numbers' /\ Table' /\ TakenSent'
    BY <1>1 DEF Numbers, Table, Once, Open, TakenSent
<1>10. Owned'
    BY <1>1, <1>3, <1>4 DEF Owned
<1>11. \A h \in Handlers : /\ Live(h)' <=> Live(h)
                           /\ Lost(h)' <=> Lost(h)
                           /\ pc'[h] \in {"leave", "close"} <=> pc[h] \in {"leave", "close"}
    BY <1>1, <1>2, <1>3, <1>4, Sizes DEF Live, Lost
<1>12. Leaving'
    BY <1>1, <1>11 DEF Leaving, Tainted, Sole, OnlyLeaversClosed, Open
<1>13. \A h \in Handlers : (Busy(h)' <=> Busy(h)) /\ \A d \in Clients : Ahead(h, d)' <=> Ahead(h, d)
    BY <1>1, <1>3, <1>4 DEF Busy, Ahead
<1>14. Lines'
    BY <1>1, <1>13 DEF Lines, Received, NoDoubleDelivery
<1> QED
    BY <1>6, <1>8, <1>9, <1>10, <1>12, <1>14

-----------------------------------------------------------------------------
(* The handlers. *)

\* A handler may find the number of another in main's variable, and then spoils
\* that number for good.
LEMMA StartStep == ASSUME IInv, NEW h \in Handlers, Start(h) PROVE IInv'
<1> USE DEF IInv, Safe, Start
<1>1. UNCHANGED <<peer, sent, inbox, nread, taken, sock, hnd, clntSocks, clntCnt, hClntSock,
                  mainPc, started, mutex, msg, idx, own, heirs>>
      /\ pc[h] = "start" /\ pc' = [pc EXCEPT ![h] = "recv"]
      /\ mySock' = [mySock EXCEPT ![h] = hClntSock]
    BY DEF clientVars, socketVars, tableVars, mainVars, history
<1> HIDE DEF Start
<1>2. /\ pc'[h] = "recv" /\ mySock'[h] = hClntSock
      /\ \A g \in Handlers : g # h => pc'[g] = pc[g] /\ mySock'[g] = mySock[g]
    BY <1>1 DEF TypeOK
<1>3. Gone' = Gone
    BY <1>1, <1>2 DEF Gone
<1>5. TypeOK'
    BY <1>1 DEF TypeOK
<1>6. Room'
    BY <1>1, <1>2, <1>3 DEF Room, Holding, Entering
<1>7. Numbers' /\ Table' /\ TakenSent'
    BY <1>1 DEF Numbers, Table, Once, Open, TakenSent
<1>8. Owned'
    BY <1>1, <1>2 DEF Owned
<1>9. \A g \in Handlers : /\ Live(g)' <=> Live(g)
                          /\ Lost(g) => Lost(g)' /\ mySock'[g] = mySock[g]
                          /\ pc'[g] \in {"leave", "close"} =>
                                pc[g] \in {"leave", "close"} /\ mySock'[g] = mySock[g]
    BY <1>1, <1>2 DEF Live, Lost
<1>10. ASSUME NEW n \in Handles, ~Tainted(n)' PROVE Sole(n)'
  <2>1. Sole(n)
      BY <1>9, <1>10 DEF Leaving, Tainted
  <2> QED
      BY <1>1, <1>9, <2>1 DEF Sole
<1>11. OnlyLeaversClosed'
  <2> SUFFICES ASSUME NEW c \in Clients, hnd[c] # NoSock, ~Open(c), peer[c] = "up"
               PROVE  \E g \in Handlers : Lost(g)' /\ mySock'[g] = hnd[c]
      BY <1>1 DEF OnlyLeaversClosed, Open
  <2>1. PICK g \in Handlers : Lost(g) /\ mySock[g] = hnd[c]
      BY DEF Leaving, OnlyLeaversClosed
  <2> QED
      BY <1>9, <2>1
<1>12. \A g \in Handlers : (Busy(g)' <=> Busy(g)) /\ \A d \in Clients : Ahead(g, d)' <=> Ahead(g, d)
    BY <1>1, <1>2 DEF Busy, Ahead
<1>13. Lines'
    BY <1>1, <1>12 DEF Lines, Received, NoDoubleDelivery
<1> QED
    BY <1>5, <1>6, <1>7, <1>8, <1>10, <1>11, <1>13 DEF Leaving

\* A step of handler h in its loop or out of it that frees no socket.
LEMMA Along ==
    ASSUME IInv, NEW h \in Handlers,
           UNCHANGED <<sock, hnd, mySock, own, started, mainPc>>,
           pc[h] \notin {"none", "start", "done"}, pc'[h] \notin {"none", "start", "done"},
           \A g \in Handlers : g # h => pc'[g] = pc[g],
           \A c \in Clients : peer[c] \in {"fin", "rst"} => peer'[c] \in {"fin", "rst"},
           \A c \in Clients : peer'[c] = "up" => peer[c] = "up",
           pc'[h] \in {"leave", "close"} =>
              \/ pc[h] \in {"leave", "close"}
              \/ \E c \in Clients : On(mySock[h], c) /\ peer'[c] \in {"fin", "rst"}
    PROVE  Leaving'
<1> USE DEF IInv, Safe
<1>1. \A g \in Handlers : (Live(g)' <=> Live(g)) /\ (Lost(g)' <=> Lost(g))
    BY DEF Live, Lost
<1>2. ASSUME NEW n \in Handles, ~Tainted(n)' PROVE Sole(n)'
  <2>1. Sole(n) /\ sock[n] \in Clients \cup {NoSock}
      BY <1>1, <1>2 DEF Leaving, Tainted, TypeOK
  <2>2. ASSUME NEW g \in Handlers, pc'[g] \in {"leave", "close"}, mySock[g] = n
        PROVE  sock[n] # NoSock /\ peer'[sock[n]] \in {"fin", "rst"}
    <3>1. CASE pc[g] \in {"leave", "close"}
        BY <2>1, <2>2, <3>1 DEF Sole
    <3>2. CASE pc[g] \notin {"leave", "close"}
      <4>1. PICK c \in Clients : On(n, c) /\ peer'[c] \in {"fin", "rst"}
          BY <2>2, <3>2
      <4> QED
          BY <4>1, Kinds DEF On
    <3> QED
        BY <3>1, <3>2
  <2> QED
      BY <1>1, <2>1, <2>2 DEF Sole
<1>3. OnlyLeaversClosed'
    BY <1>1 DEF Leaving, OnlyLeaversClosed, Open
<1> QED
    BY <1>2, <1>3 DEF Leaving

\* A handler moves on in its loop, with a lock or without.
LEMMA LockStep == ASSUME IInv, NEW h \in Handlers, Lock(h) \/ Unlock(h) PROVE IInv'
<1> USE DEF IInv, Safe, Lock, Unlock
<1>1. /\ UNCHANGED <<peer, sent, inbox, nread, taken, sock, hnd, clntSocks, clntCnt,
                     hClntSock, mainPc, started, mySock, msg, own, heirs>>
      /\ \/ /\ pc[h] = "lock" /\ mutex = 0 /\ mutex' = h
            /\ idx' = [idx EXCEPT ![h] = 1] /\ pc' = [pc EXCEPT ![h] = "send"]
         \/ /\ pc[h] = "send" /\ mutex' = 0
            /\ UNCHANGED idx /\ pc' = [pc EXCEPT ![h] = "recv"]
    BY DEF clientVars, socketVars, tableVars, mainVars, history
<1> HIDE DEF Lock, Unlock
<1>2. /\ pc'[h] \in {"send", "recv"} /\ pc[h] \in {"lock", "send"}
      /\ \A g \in Handlers : g # h => pc'[g] = pc[g] /\ idx'[g] = idx[g]
    BY <1>1 DEF TypeOK
<1>3. Gone' = Gone
    BY <1>1, <1>2 DEF Gone
<1>4. TypeOK'
  <2>0. 1 \in 0 .. MaxAccepts + 1 /\ idx \in [Handlers -> 0 .. MaxAccepts + 1]
      BY ChatAssumption DEF TypeOK
  <2>1. idx' \in [Handlers -> 0 .. MaxAccepts + 1]
      BY <1>1, <2>0
  <2>2. mutex' \in Handlers \cup {0}
      BY <1>1
  <2>3. pc' \in [Handlers -> {"none", "start", "recv", "lock", "send", "leave", "close", "done"}]
      BY <1>1 DEF TypeOK
  <2> QED
      BY <1>1, <2>1, <2>2, <2>3 DEF TypeOK
<1>5. Room'
    BY <1>1, <1>2, <1>3 DEF Room, Holding, Entering
<1>6. Numbers' /\ Table' /\ TakenSent'
    BY <1>1 DEF Numbers, Table, Once, Open, TakenSent
<1>7. Leaving'
    BY <1>1, <1>2, Along
<1>8. Owned'
    BY <1>1, <1>2, Sizes DEF Owned, TypeOK
<1>9. \A g \in Handlers : Busy(g)' => Busy(g) /\ \A d \in Clients : Ahead(g, d)' => Ahead(g, d)
    BY <1>1, <1>2 DEF Busy, Ahead, TypeOK
<1>10. Lines'
    BY <1>1, <1>9 DEF Lines, Received, NoDoubleDelivery
<1> QED
    BY <1>4, <1>5, <1>6, <1>7, <1>8, <1>10

\* Whom the closing hits has quit, or the number has been spoilt.
LEMMA CloseStep == ASSUME IInv, NEW h \in Handlers, CloseSock(h) PROVE IInv'
<1> USE DEF IInv, Safe, CloseSock
<1>1. UNCHANGED <<peer, sent, inbox, nread, taken, hnd, clntSocks, clntCnt, hClntSock,
                  mainPc, started, mutex, mySock, msg, idx, own, heirs>>
      /\ pc[h] = "close" /\ pc' = [pc EXCEPT ![h] = "done"]
      /\ sock' = [n \in Handles |-> IF n = mySock[h] THEN NoSock ELSE sock[n]]
    BY DEF clientVars, tableVars, mainVars, history
<1> HIDE DEF CloseSock
<1>2. pc'[h] = "done" /\ \A g \in Handlers : g # h => pc'[g] = pc[g]
    BY <1>1 DEF TypeOK
<1>3. Gone' = Gone
    BY <1>1, <1>2 DEF Gone
<1>4. \A n \in Handles : sock'[n] = IF n = mySock[h] THEN NoSock ELSE sock[n]
    BY <1>1
<1>5. TypeOK'
    BY <1>1 DEF TypeOK
<1>6. Room'
    BY <1>1, <1>2, <1>3 DEF Room, Holding, Entering
<1>7. \A c \in Clients : Open(c)' => Open(c)
    BY <1>1, <1>4, Kinds DEF Open, TypeOK, Number
<1>8. Numbers' /\ Table' /\ TakenSent'
    BY <1>1, <1>4, <1>7 DEF Numbers, Table, Once, TakenSent
<1>9. Owned'
    BY <1>1, <1>2 DEF Owned
<1>10. \A g \in Handlers : /\ Live(g)' => Live(g) /\ g # h
                           /\ Lost(g)' <=> Lost(g)
                           /\ pc'[g] \in {"leave", "close"} => pc[g] = pc'[g] /\ g # h
    BY <1>1, <1>2 DEF Live, Lost
<1>11. Live(h)
    BY <1>1, Sizes DEF Live, Room, TypeOK
<1>12. ASSUME NEW n \in Handles, ~Tainted(n)' PROVE Sole(n)'
  <2>1. Sole(n) /\ ~Tainted(n)
      BY <1>1, <1>10, <1>12 DEF Leaving, Tainted
  <2>2. CASE mySock[h] # n
      BY <1>1, <1>4, <1>10, <2>1, <2>2 DEF Sole
  <2>3. CASE mySock[h] = n
    <3>1. \A g \in Handlers : pc[g] \in {"leave", "close"} /\ mySock[g] = n => own[g] = n /\ Live(g)
        BY <2>1, Sizes DEF Tainted, Lost, Live, Room, TypeOK
    <3>2. own[h] = n
        BY <1>1, <2>3, <3>1
    <3>3. \A g \in Handlers : Live(g)' => own[g] # n
        BY <1>10, <1>11, <2>1, <3>2 DEF Sole
    <3>4. \A g \in Handlers : pc'[g] \in {"leave", "close"} => mySock[g] # n
        BY <1>10, <1>11, <2>1, <3>1, <3>2 DEF Sole
    <3> QED
        BY <1>1, <3>3, <3>4 DEF Sole
  <2> QED
      BY <2>2, <2>3
<1>13. OnlyLeaversClosed'
  <2> SUFFICES ASSUME NEW c \in Clients, hnd[c] # NoSock, ~Open(c)', peer[c] = "up"
               PROVE  \E g \in Handlers : Lost(g) /\ mySock[g] = hnd[c]
      BY <1>1, <1>10 DEF OnlyLeaversClosed
  <2>1. CASE ~Open(c)
      BY <2>1 DEF Leaving, OnlyLeaversClosed
  <2>2. CASE Open(c)
    <3>1. hnd[c] \in Handles /\ sock[hnd[c]] = c
        BY <2>2, Kinds
    <3>2. mySock[h] = hnd[c]
        BY <1>1, <1>4, <3>1 DEF Open
    <3>3. Tainted(hnd[c])
        BY <1>1, <3>1, <3>2 DEF Leaving, Sole
    <3> QED
        BY <3>3 DEF Tainted
  <2> QED
      BY <2>1, <2>2
<1>14. \A g \in Handlers : (Busy(g)' <=> Busy(g)) /\ \A d \in Clients : Ahead(g, d)' <=> Ahead(g, d)
    BY <1>1, <1>2 DEF Busy, Ahead
<1>15. Lines'
    BY <1>1, <1>14 DEF Lines, Received, NoDoubleDelivery
<1> QED
    BY <1>5, <1>6, <1>8, <1>9, <1>12, <1>13, <1>15 DEF Leaving

\* What the removal loop leaves in use are entries that were, in their order,
\* although not always those of the clients that stay.
LEMMA RemovedTable ==
    ASSUME IInv, NEW n, clntCnt > 0
    PROVE  /\ Removed(n) \in [Entries -> Number]
           /\ \A i \in 1 .. clntCnt - 1 : \E k \in 1 .. clntCnt : Removed(n)[i] = clntSocks[k]
           /\ \A x : Once(x) => \A i, j \in 1 .. clntCnt - 1 :
                 Removed(n)[i] = x /\ Removed(n)[j] = x => i = j
<1> DEFINE behind(i) == \E j \in 1 .. i - 1 : clntSocks[j] = n
           at(i) == IF behind(i) THEN i + 1 ELSE i
<1>1. clntCnt \in 0 .. N /\ clntSocks \in [Entries -> Number]
    BY Bounds DEF IInv, Safe, TypeOK
<1>2. \A i \in Entries : i <= clntCnt => i + 1 \in Entries
    BY <1>1, Sizes
<1>3. Removed(n) \in [Entries -> Number]
    BY <1>1, <1>2 DEF Removed
<1>4. \A i \in 1 .. clntCnt - 1 : Removed(n)[i] = clntSocks[at(i)] /\ at(i) \in 1 .. clntCnt
    BY <1>1, Sizes DEF Removed
<1>5. \A i, j \in 1 .. clntCnt - 1 : i < j /\ behind(i) => behind(j)
    BY <1>1
<1>6. \A i, j \in 1 .. clntCnt - 1 : at(i) = at(j) => i = j
  <2> SUFFICES ASSUME NEW i \in 1 .. clntCnt - 1, NEW j \in 1 .. clntCnt - 1, i < j
               PROVE  at(i) # at(j)
      BY <1>1
  <2>1. at(i) \in {i, i + 1} /\ at(j) \in {j, j + 1} /\ (at(i) = i + 1 => at(j) = j + 1)
      BY <1>1, <1>5
  <2> HIDE DEF at
  <2> QED
      BY <1>1, <2>1
<1> HIDE DEF at
<1> QED
    BY <1>3, <1>4, <1>6 DEF Once

LEMMA DeregisterStep == ASSUME IInv, NEW h \in Handlers, Deregister(h) PROVE IInv'
<1> USE DEF IInv, Safe, Deregister
<1>1. UNCHANGED <<peer, sent, inbox, nread, taken, sock, hnd, hClntSock,
                  mainPc, started, mutex, mySock, msg, idx, own, heirs>>
      /\ pc[h] = "leave" /\ mutex = 0 /\ pc' = [pc EXCEPT ![h] = "close"]
      /\ clntSocks' = Removed(mySock[h]) /\ clntCnt' = clntCnt - 1
    BY DEF clientVars, socketVars, mainVars, history
<1> HIDE DEF Deregister
<1>2. pc'[h] = "close" /\ \A g \in Handlers : g # h => pc'[g] = pc[g]
    BY <1>1 DEF TypeOK
<1>3. Gone' = Gone \cup {h} /\ h \notin Gone
    BY <1>1, <1>2 DEF Gone
<1>4. Cardinality(Gone') = Cardinality(Gone) + 1 /\ Cardinality(Gone) \in Nat
  <2>1. Gone \in SUBSET Handlers
      BY DEF Gone
  <2>2. IsFiniteSet(Gone) /\ Cardinality(Gone) \in Nat
      BY <2>1, Small
  <2> QED
      BY <1>3, <2>2, FS_AddElement
<1>5. clntCnt \in Nat /\ clntCnt > 0 /\ clntCnt <= N
    BY <1>1, Bounds
<1>6. /\ clntSocks' \in [Entries -> Number]
      /\ \A i \in 1 .. clntCnt' : \E k \in 1 .. clntCnt : clntSocks'[i] = clntSocks[k]
      /\ \A x : Once(x) => \A i, j \in 1 .. clntCnt' : clntSocks'[i] = x /\ clntSocks'[j] = x => i = j
    BY <1>1, <1>5, RemovedTable
<1>7. TypeOK'
    BY <1>1, <1>5, <1>6, Sizes DEF TypeOK, N
<1>8. Room'
  <2>1. (clntCnt + Cardinality(Gone) = started + Entering)'
      BY <1>1, <1>4, <1>5 DEF Room, Entering
  <2> QED
      BY <1>1, <1>2, <1>3, <2>1 DEF Room, Holding
<1>9. Table'
  <2> SUFFICES ASSUME NEW c \in Clients \ heirs, Open(c)
               PROVE  /\ Once(hnd[c])'
                      /\ mainPc = "store" /\ hClntSock = hnd[c] =>
                            \A i \in 1 .. clntCnt' : clntSocks'[i] # hnd[c]
      BY <1>1 DEF Table, Open
  <2>1. Once(hnd[c])'
      BY <1>1, <1>6 DEF Table, Once
  <2> QED
      BY <1>6, <2>1 DEF Table
<1>10. Leaving'
    BY <1>1, <1>2, Along
<1>11. Owned' /\ Numbers' /\ TakenSent'
    BY <1>1, <1>2 DEF Owned, Numbers, TakenSent
<1>12. \A g \in Handlers : pc[g] # "send"
    BY <1>1, Sizes DEF Owned
<1>13. \A g \in Handlers : Busy(g)' => Busy(g) /\ pc[g] = "lock"
    BY <1>1, <1>2, <1>12 DEF Busy
<1>14. Lines'
    BY <1>1, <1>13, SMTT(40) DEF Lines, Ahead, Received, NoDoubleDelivery
<1> QED
    BY <1>7, <1>8, <1>9, <1>10, <1>11, <1>14

\* recv: what is new has not been received before, and is so by now.
LEMMA RecvStep == ASSUME IInv, NEW h \in Handlers, Recv(h) PROVE IInv'
<1> USE DEF IInv, Safe, Recv
<1>1. UNCHANGED <<peer, sent, inbox, nread, sock, hnd, clntSocks, clntCnt, hClntSock,
                  mainPc, started, mutex, mySock, idx, own, heirs>>
      /\ pc[h] = "recv"
    BY DEF clientVars, tableVars, mainVars, history
<1>3. \/ \E b \in Clients, k \in 1 .. BufSize :
            /\ taken[b] + k <= sent[b]
            /\ msg' = [msg EXCEPT ![h] = [i \in 1 .. k |-> <<b, taken[b] + i>>]]
            /\ taken' = [taken EXCEPT ![b] = @ + k]
            /\ pc' = [pc EXCEPT ![h] = "lock"]
      \/ /\ \E b \in Clients : On(mySock[h], b) /\ peer[b] = "fin"
         /\ pc' = [pc EXCEPT ![h] = "leave"] /\ UNCHANGED <<msg, taken>>
      \/ msg' = [msg EXCEPT ![h] = <<>>] /\ pc' = [pc EXCEPT ![h] = "lock"] /\ UNCHANGED taken
    OBVIOUS
<1> HIDE DEF Recv
<1>4. /\ pc'[h] \in {"lock", "leave"}
      /\ pc'[h] = "leave" => \E b \in Clients : On(mySock[h], b) /\ peer[b] = "fin"
      /\ \A g \in Handlers : g # h => pc'[g] = pc[g]
    BY <1>3 DEF TypeOK
<1>5. Gone' = Gone
    BY <1>1, <1>4 DEF Gone
<1>6. Room'
    BY <1>1, <1>4, <1>5 DEF Room, Holding, Entering
<1>7. Numbers' /\ Table'
    BY <1>1 DEF Numbers, Table, Once, Open
<1>8. Owned' /\ Leaving'
  <2>1. Owned'
      BY <1>1, <1>4 DEF Owned
  <2>2. Leaving'
      BY <1>1, <1>4, Along
  <2> QED
      BY <2>1, <2>2
<1>9. /\ \A d \in Clients : taken[d] \in 0 .. MaxMsgs
      /\ \A g \in Handlers : msg[g] \in Seq(Line)
    BY DEF TypeOK
\* The three outcomes: lines, the end of the stream, and an error.
<1>10. CASE \E b \in Clients, k \in 1 .. BufSize :
            /\ taken[b] + k <= sent[b]
            /\ msg' = [msg EXCEPT ![h] = [i \in 1 .. k |-> <<b, taken[b] + i>>]]
            /\ taken' = [taken EXCEPT ![b] = @ + k]
            /\ pc' = [pc EXCEPT ![h] = "lock"]
  <2>1. PICK b \in Clients, k \in 1 .. BufSize :
            /\ taken[b] + k <= sent[b]
            /\ msg' = [msg EXCEPT ![h] = [i \in 1 .. k |-> <<b, taken[b] + i>>]]
            /\ taken' = [taken EXCEPT ![b] = @ + k]
            /\ pc' = [pc EXCEPT ![h] = "lock"]
      BY <1>10
  <2> DEFINE new == [i \in 1 .. k |-> <<b, taken[b] + i>>]
  <2>2. k \in Nat /\ taken[b] + k \in 0 .. MaxMsgs /\ taken[b] \in Nat
      BY <2>1, <1>9, ChatAssumption DEF TypeOK
  <2>3. new \in Seq(Line) /\ Len(new) = k
    <3>1. \A i \in 1 .. k : <<b, taken[b] + i>> \in Line
        BY <2>2, ChatAssumption DEF Line
    <3> QED
        BY <2>2, <3>1
  <2>4. /\ \A i \in 1 .. k : new[i][1] = b /\ new[i][2] = taken[b] + i
        /\ msg'[h] = new
        /\ \A g \in Handlers : g # h => msg'[g] = msg[g]
      BY <2>1 DEF TypeOK
  <2>5. msg' \in [Handlers -> Seq(Line)]
      BY <2>1, <2>3 DEF TypeOK
  <2> HIDE DEF new
  <2>6. /\ taken'[b] = taken[b] + k
        /\ \A d \in Clients : d # b => taken'[d] = taken[d]
        /\ taken' \in [Clients -> 0 .. MaxMsgs]
      BY <2>1, <2>2 DEF TypeOK
  <2>7. TypeOK' /\ TakenSent'
      BY <1>1, <2>1, <2>5, <2>6 DEF TypeOK, TakenSent
  <2>8. \A l \in Line : Received(l) => Received(l)' /\ (l[1] = b => l[2] <= taken[b])
      BY <2>2, <2>6, <1>9, ChatAssumption DEF Received, Line
  <2>9. \A d \in Clients : \A j \in 1 .. Len(inbox[d]) : inbox[d][j] \in Line /\ Received(inbox[d][j])
      BY DEF Lines, TypeOK
  <2>10. \A g \in Handlers : Busy(g) => \A j \in 1 .. Len(msg[g]) : msg[g][j] \in Line /\ Received(msg[g][j])
      BY DEF Lines, TypeOK
  <2>11. \A l \in Line, i \in 1 .. k : Received(l) => l # new[i]
      BY <2>2, <2>4, <2>8
  <2>12. /\ \A g \in Handlers : g # h => (Busy(g)' <=> Busy(g))
         /\ \A g \in Handlers : g # h => \A d \in Clients : Ahead(g, d)' <=> Ahead(g, d)
      BY <1>1, <1>4 DEF Busy, Ahead
  <2>13. \A i, j \in 1 .. k : new[i] = new[j] => i = j
      BY <2>2, <2>4
  <2>14. (\A d \in Clients : \A j \in 1 .. Len(inbox[d]) : Received(inbox[d][j]))' /\ NoDoubleDelivery'
      BY <1>1, <2>8, <2>9 DEF Lines, NoDoubleDelivery
  <2>15. ASSUME NEW g \in Handlers, Busy(g)', NEW j \in 1 .. Len(msg'[g])
         PROVE  Received(msg[g][j])'
    <3>1. CASE g = h
        BY <2>2, <2>3, <2>4, <2>6, <2>15, <3>1 DEF Received
    <3>2. CASE g # h
        BY <2>4, <2>8, <2>10, <2>12, <2>15, <3>2
    <3> QED
        BY <3>1, <3>2
  <2>16. ASSUME NEW f \in Handlers, NEW g \in Handlers, Busy(f)', Busy(g)',
                NEW i \in 1 .. Len(msg'[f]), NEW j \in 1 .. Len(msg'[g]), msg'[f][i] = msg'[g][j]
         PROVE  f = g /\ i = j
    <3>1. CASE f = h /\ g = h
        BY <2>3, <2>4, <2>13, <2>16, <3>1
    <3>2. CASE (f = h /\ g # h) \/ (f # h /\ g = h)
        BY <2>3, <2>4, <2>10, <2>11, <2>12, <2>16, <3>2
    <3>3. CASE f # h /\ g # h
        BY <2>4, <2>12, <2>16, <3>3 DEF Lines
    <3> QED
        BY <3>1, <3>2, <3>3
  <2>17. ASSUME NEW g \in Handlers, NEW d \in Clients \ heirs, Busy(g)', Ahead(g, d)',
                NEW i \in 1 .. Len(msg'[g]), NEW j \in 1 .. Len(inbox'[d])
         PROVE  msg'[g][i] # inbox'[d][j]
    <3>1. CASE g = h
        BY <1>1, <2>3, <2>4, <2>9, <2>11, <2>17, <3>1
    <3>2. CASE g # h
        BY <1>1, <2>4, <2>12, <2>17, <3>2 DEF Lines
    <3> QED
        BY <3>1, <3>2
  <2>18. Lines'
      BY <1>1, <2>14, <2>15, <2>16, <2>17 DEF Lines
  <2> QED
      BY <1>6, <1>7, <1>8, <2>7, <2>18
<1>11. CASE pc' = [pc EXCEPT ![h] = "leave"] /\ UNCHANGED <<msg, taken>>
  <2>1. TypeOK' /\ TakenSent'
      BY <1>1, <1>11 DEF TypeOK, TakenSent
  <2>2. \A g \in Handlers : Busy(g)' => Busy(g) /\ \A d \in Clients : Ahead(g, d)' => Ahead(g, d)
      BY <1>1, <1>11 DEF Busy, Ahead, TypeOK
  <2>3. Lines'
      BY <1>1, <1>11, <2>2 DEF Lines, Received, NoDoubleDelivery
  <2> QED
      BY <1>6, <1>7, <1>8, <2>1, <2>3
<1>12. CASE msg' = [msg EXCEPT ![h] = <<>>] /\ pc' = [pc EXCEPT ![h] = "lock"] /\ UNCHANGED taken
  <2>1. TypeOK' /\ TakenSent'
      BY <1>1, <1>12 DEF TypeOK, TakenSent
  <2>2. Len(msg'[h]) = 0 /\ \A g \in Handlers : g # h => msg'[g] = msg[g]
      BY <1>12 DEF TypeOK
  <2>3. \A g \in Handlers : g # h /\ Busy(g)' => Busy(g) /\ \A d \in Clients : Ahead(g, d)' => Ahead(g, d)
      BY <1>1, <1>4 DEF Busy, Ahead
  <2>4. \A g \in Handlers : 1 .. Len(msg'[g]) # {} => g # h
      BY <2>2
  <2>5. Lines'
      BY <1>1, <1>12, <2>2, <2>3, <2>4 DEF Lines, Received, NoDoubleDelivery
  <2> QED
      BY <1>6, <1>7, <1>8, <2>1, <2>5
<1> QED
    BY <1>3, <1>10, <1>11, <1>12

\* send: the client that the handler has come to has none of its lines yet, and
\* the handler does not come to it again.
LEMMA SendStep == ASSUME IInv, NEW h \in Handlers, SendOne(h) PROVE IInv'
<1> USE DEF IInv, Safe, SendOne
<1>1. /\ UNCHANGED <<sent, nread, taken, sock, hnd, clntSocks, clntCnt, hClntSock,
                     mainPc, started, mutex, pc, mySock, msg, own, heirs>>
      /\ pc[h] = "send" /\ idx[h] <= clntCnt /\ idx' = [idx EXCEPT ![h] = @ + 1]
    BY DEF socketVars, tableVars, mainVars, history
<1>2. /\ idx[h] \in 1 .. clntCnt /\ idx[h] \in Nat /\ clntCnt \in 0 .. N
      /\ idx'[h] = idx[h] + 1
      /\ \A g \in Handlers : g # h => idx'[g] = idx[g]
    BY <1>1, Bounds DEF Owned, TypeOK
\* send fails, and the handler goes on to the next entry.
<1>3. ASSUME Broken(clntSocks[idx[h]]) PROVE IInv'
  <2>1. UNCHANGED <<peer, inbox>>
      BY <1>3 DEF Broken
  <2>2. idx' \in [Handlers -> 0 .. MaxAccepts + 1]
      BY <1>1, <1>2, Sizes DEF TypeOK, N
  <2>3. TypeOK'
      BY <1>1, <2>1, <2>2 DEF TypeOK
  <2>4. Gone' = Gone
      BY <1>1 DEF Gone
  <2>5. Room' /\ Numbers' /\ Table' /\ TakenSent'
      BY <1>1, <2>1, <2>4 DEF Room, Holding, Entering, Numbers, Table, Once, Open, TakenSent
  <2>6. Owned'
      BY <1>1, <1>2 DEF Owned
  <2>7. Leaving'
      BY <1>1, <2>1, Along
  <2>8. \A g \in Handlers : Busy(g)' => Busy(g) /\ \A d \in Clients : Ahead(g, d)' => Ahead(g, d)
      BY <1>1, <1>2 DEF Busy, Ahead
  <2>9. Lines'
      BY <1>1, <2>1, <2>8 DEF Lines, Received, NoDoubleDelivery
  <2> QED
      BY <2>3, <2>5, <2>6, <2>7, <2>9
<1> SUFFICES ASSUME ~Broken(clntSocks[idx[h]]) PROVE IInv'
    BY <1>3
<1>4. PICK d \in Clients :
         /\ On(clntSocks[idx[h]], d)
         /\ \/ UNCHANGED peer /\ inbox' = [inbox EXCEPT ![d] = @ \o msg[h]]
            \/ peer[d] = "fin" /\ peer' \in {peer, [peer EXCEPT ![d] = "rst"]} /\ UNCHANGED inbox
    BY Zenon
<1>4a. hnd[d] = clntSocks[idx[h]] /\ Open(d)
    BY <1>4, Kinds DEF On, Open, Numbers
<1> HIDE DEF SendOne
<1>5. /\ peer' \in [Clients -> {"idle", "up", "fin", "rst"}]
      /\ \A e \in Clients : peer[e] # "idle" <=> peer'[e] # "idle"
      /\ \A e \in Clients : peer[e] \in {"fin", "rst"} => peer'[e] \in {"fin", "rst"}
      /\ \A e \in Clients : peer'[e] = "up" => peer[e] = "up"
    BY <1>4 DEF TypeOK
<1>6. /\ msg[h] \in Seq(Line) /\ inbox \in [Clients -> Seq(Line)]
      /\ \A e \in Clients : e # d => inbox'[e] = inbox[e]
      /\ inbox'[d] = inbox[d] \/ inbox'[d] = inbox[d] \o msg[h]
      /\ inbox' \in [Clients -> Seq(Line)]
  <2>1. msg[h] \in Seq(Line) /\ inbox \in [Clients -> Seq(Line)] /\ inbox[d] \in Seq(Line)
      BY DEF TypeOK
  <2>2. CASE inbox' = [inbox EXCEPT ![d] = @ \o msg[h]]
    <3> DEFINE new == inbox[d] \o msg[h]
    <3>1. new \in Seq(Line) /\ inbox' = [inbox EXCEPT ![d] = new]
        BY <2>1, <2>2
    <3> HIDE DEF new
    <3>2. inbox'[d] = new /\ inbox' \in [Clients -> Seq(Line)]
          /\ \A e \in Clients : e # d => inbox'[e] = inbox[e]
        BY <2>1, <3>1
    <3> QED
        BY <2>1, <3>2 DEF new
  <2>3. CASE inbox' = inbox
      BY <2>1, <2>3
  <2> QED
      BY <1>4, <2>2, <2>3
<1>7. TypeOK'
  <2>0. idx[h] + 1 \in 0 .. MaxAccepts + 1 /\ idx \in [Handlers -> 0 .. MaxAccepts + 1]
      BY <1>2, ChatAssumption DEF TypeOK, N
  <2>1. idx' \in [Handlers -> 0 .. MaxAccepts + 1]
      BY <1>1, <2>0
  <2> QED
      BY <1>1, <1>5, <1>6, <2>1 DEF TypeOK
<1>8. Gone' = Gone
    BY <1>1 DEF Gone
<1>9. Room' /\ Numbers'
  <2>1. hnd[d] # NoSock
      BY <1>4a DEF Open
  <2> QED
      BY <1>1, <1>5, <1>6, <1>8, <2>1 DEF Room, Holding, Entering, Numbers
<1>10. Table' /\ TakenSent' /\ Owned'
    BY <1>1, <1>2 DEF Table, Once, Open, TakenSent, Owned
<1>11. Leaving'
    BY <1>1, <1>5, Along
<1>12. Busy(h) /\ Ahead(h, d)
    BY <1>1, <1>2, <1>4a DEF Busy, Ahead
<1>13. /\ \A g \in Handlers : Busy(g)' <=> Busy(g)
       /\ \A g \in Handlers, e \in Clients : Ahead(g, e)' => Ahead(g, e)
       /\ d \notin heirs => ~Ahead(h, d)'
       /\ \A g \in Handlers : Busy(g) /\ g # h => pc[g] = "lock"
  <2>1. \A g \in Handlers, e \in Clients : Ahead(g, e)' => Ahead(g, e)
      BY <1>1, <1>2 DEF Ahead
  <2>2. ASSUME d \notin heirs PROVE ~Ahead(h, d)'
    <3>1. \A i \in 1 .. clntCnt : idx[h] + 1 <= i => clntSocks[i] # hnd[d]
        BY <1>2, <1>4a, <2>2 DEF Table, Once
    <3> QED
        BY <1>1, <1>2, <3>1 DEF Ahead
  <2>3. \A g \in Handlers : Busy(g) /\ g # h => pc[g] = "lock"
      BY <1>1 DEF Busy, Owned
  <2> QED
      BY <1>1, <2>1, <2>2, <2>3 DEF Busy
\* A line in an inbox was there, or is one of h in that of d.
<1>14. ASSUME NEW e \in Clients, NEW k \in 1 .. Len(inbox'[e])
       PROVE  \/ k \in 1 .. Len(inbox[e]) /\ inbox'[e][k] = inbox[e][k]
              \/ /\ e = d
                 /\ k - Len(inbox[d]) \in 1 .. Len(msg[h])
                 /\ inbox'[e][k] = msg[h][k - Len(inbox[d])]
    BY <1>6, <1>14
<1>15. (\A e \in Clients : \A k \in 1 .. Len(inbox[e]) : Received(inbox[e][k]))'
  <2> SUFFICES ASSUME NEW e \in Clients, NEW k \in 1 .. Len(inbox'[e]) PROVE Received(inbox[e][k])'
      OBVIOUS
  <2> QED
      BY <1>1, <1>12, <1>14 DEF Lines, Received
<1>16. ASSUME NEW g \in Handlers, NEW e \in Clients \ heirs, Busy(g), Ahead(g, e)',
              NEW j \in 1 .. Len(msg[g]), NEW k \in 1 .. Len(inbox'[e]), msg[g][j] = inbox'[e][k]
       PROVE  FALSE
  <2>1. Ahead(g, e)
      BY <1>13, <1>16
  <2>2. e = d /\ k - Len(inbox[d]) \in 1 .. Len(msg[h]) /\ msg[g][j] = msg[h][k - Len(inbox[d])]
      BY <1>14, <1>16, <2>1 DEF Lines
  <2>3. g = h
      BY <1>12, <1>16, <2>2 DEF Lines
  <2> QED
      BY <1>13, <1>16, <2>2, <2>3
<1>17. NoDoubleDelivery'
  <2>1. /\ \A e \in Clients : DOMAIN inbox[e] = 1 .. Len(inbox[e]) /\ Len(inbox[e]) \in Nat
        /\ \A e \in Clients : DOMAIN inbox'[e] = 1 .. Len(inbox'[e])
        /\ Len(msg[h]) \in Nat
      BY <1>6
  <2>5. \A e \in Clients \ heirs : \A m, n \in 1 .. Len(inbox[e]) : inbox[e][m] = inbox[e][n] => m = n
      BY <2>1 DEF Lines, NoDoubleDelivery
  <2>6. \A m, n \in 1 .. Len(msg[h]) : msg[h][m] = msg[h][n] => m = n
      BY <1>12 DEF Lines
  <2> SUFFICES ASSUME NEW e \in Clients \ heirs, NEW j \in 1 .. Len(inbox'[e]), NEW k \in 1 .. Len(inbox'[e]),
                      inbox'[e][j] = inbox'[e][k]
               PROVE  j = k
      BY <1>1, <2>1 DEF NoDoubleDelivery
  <2>2. CASE j \in 1 .. Len(inbox[e]) /\ k \in 1 .. Len(inbox[e])
    <3>1. inbox'[e][j] = inbox[e][j] /\ inbox'[e][k] = inbox[e][k]
        BY <1>14, <2>2
    <3> QED
        BY <2>2, <2>5, <3>1
  <2>3. ASSUME NEW m \in 1 .. Len(inbox'[e]), NEW n \in 1 .. Len(inbox'[e]),
               m \in 1 .. Len(inbox[e]), n \notin 1 .. Len(inbox[e])
        PROVE  inbox'[e][m] # inbox'[e][n]
    <3>1. inbox'[e][m] = inbox[e][m]
        BY <1>14, <2>3
    <3>2. e = d /\ n - Len(inbox[d]) \in 1 .. Len(msg[h])
          /\ inbox'[e][n] = msg[h][n - Len(inbox[d])]
        BY <1>14, <2>3
    <3> QED
        BY <1>12, <2>3, <3>1, <3>2 DEF Lines
  <2>4. CASE j \notin 1 .. Len(inbox[e]) /\ k \notin 1 .. Len(inbox[e])
    <3>1. /\ j - Len(inbox[d]) \in 1 .. Len(msg[h]) /\ inbox'[e][j] = msg[h][j - Len(inbox[d])]
          /\ k - Len(inbox[d]) \in 1 .. Len(msg[h]) /\ inbox'[e][k] = msg[h][k - Len(inbox[d])]
        BY <1>14, <2>4
    <3>2. j - Len(inbox[d]) = k - Len(inbox[d])
        BY <2>6, <3>1
    <3> QED
        BY <2>1, <3>2
  <2> QED
      BY <2>2, <2>3, <2>4
<1>18. Lines'
    BY <1>1, <1>13, <1>15, <1>16, <1>17 DEF Lines, Received
<1> QED
    BY <1>7, <1>9, <1>10, <1>11, <1>18

-----------------------------------------------------------------------------

LEMMA Inductive == ASSUME IInv, [Next]_vars PROVE IInv'
<1>1. ASSUME NEW c \in Clients, Client(c) PROVE IInv'
    BY <1>1, ClientStep
<1>2. CASE Main
    BY <1>2, AcceptStep, AcceptFailsStep, RegisterStep, SpawnStep DEF Main
<1>3. ASSUME NEW h \in Handlers, Handler(h) PROVE IInv'
    BY <1>3, StartStep, RecvStep, LockStep, SendStep, DeregisterStep, CloseStep DEF Handler
<1>4. CASE UNCHANGED vars
  <2>1. UNCHANGED <<inbox, taken, sock, hnd, tableVars, mainVars, mutex, threadVars, history, peer, sent, nread>>
      BY <1>4 DEF vars, clientVars, socketVars
  <2>2. TypeOK' /\ \A c \in Clients : sent[c] <= sent'[c]
      BY <2>1, ChatAssumption DEF IInv, TypeOK, tableVars, mainVars, threadVars, history
  <2> QED
      BY <2>1, <2>2, Quiet
<1> QED
    BY <1>1, <1>2, <1>3, <1>4 DEF Next

\* The inductive invariant, from which the others follow.
THEOREM Invariance == Spec => []IInv
<1> QED
    BY Initial, Inductive, PTL DEF Spec

\* The variables take the values that their declarations promise; in
\* particular clntCnt is never negative, although it is decremented whether or
\* not the loop has found its client (lines 82-93).
THEOREM TypeCorrect == Spec => []TypeOK
<1>1. IInv => TypeOK
    BY DEF IInv
<1> QED
    BY Invariance, <1>1, PTL

\* A client that was not given a number the table still listed is sent no line
\* twice (lines 57, 82-107).
THEOREM EachLineOnce == Spec => []NoDoubleDelivery
<1>1. IInv => NoDoubleDelivery
    BY DEF IInv, Safe, Lines
<1> QED
    BY Invariance, <1>1, PTL

\* The server closes the socket of a client that is there only through a number
\* that a handler has taken from main's variable in place of its own (lines 63,
\* 72 and 95).
THEOREM LeaversOnly == Spec => []OnlyLeaversClosed
<1>1. IInv => OnlyLeaversClosed
    BY DEF IInv, Safe, Leaving
<1> QED
    BY Invariance, <1>1, PTL

-----------------------------------------------------------------------------
(* One conversation.  While a handler broadcasts, the clients behind its   *)
(* index have its lines and those before it are to get them; counting what *)
(* they are to get, the inboxes of all who are in the room end alike.      *)

Aligned(s, t) ==
    \A i \in 1 .. Len(s), j \in 1 .. Len(t) : Len(s) - i = Len(t) - j => s[i] = t[j]

Members == {e \in Clients \ heirs : Present(e) /\ hnd[e] \in Listed}

Expects(e) == mutex # 0 /\ \E i \in 1 .. clntCnt : idx[mutex] <= i /\ clntSocks[i] = hnd[e]

ToHave(e) == IF Expects(e) THEN inbox[e] \o msg[mutex] ELSE inbox[e]

\* Who is not yet in the table has not been sent anything.
Newcomers ==
    \A c \in Clients \ heirs :
       mainPc = "store" /\ Open(c) /\ hClntSock = hnd[c] => inbox[c] = <<>>

SameTalk == \A c, d \in Members : Aligned(ToHave(c), ToHave(d))

Talk == IInv /\ Newcomers /\ SameTalk

LEMMA AlignedConcat ==
    ASSUME NEW s \in Seq(Line), NEW t \in Seq(Line), NEW m \in Seq(Line), Aligned(s, t)
    PROVE  Aligned(s \o m, t \o m)
<1>1. PICK a \in Nat, b \in Nat, k \in Nat : a = Len(s) /\ b = Len(t) /\ k = Len(m)
    OBVIOUS
<1>2. Len(s \o m) = a + k /\ Len(t \o m) = b + k
    BY <1>1
<1> SUFFICES ASSUME NEW i \in 1 .. a + k, NEW j \in 1 .. b + k, (a + k) - i = (b + k) - j
             PROVE  (s \o m)[i] = (t \o m)[j]
    BY <1>2 DEF Aligned
<1>3. /\ (s \o m)[i] = IF i <= a THEN s[i] ELSE m[i - a]
      /\ (t \o m)[j] = IF j <= b THEN t[j] ELSE m[j - b]
    BY <1>1
<1>4. i <= a <=> j <= b
    OBVIOUS
<1>5. CASE i <= a
  <2>1. i \in 1 .. Len(s) /\ j \in 1 .. Len(t) /\ Len(s) - i = Len(t) - j
      BY <1>1, <1>4, <1>5
  <2> QED BY <1>3, <1>4, <1>5, <2>1 DEF Aligned
<1>6. CASE ~ (i <= a)
  <2>1. i - a = j - b
      OBVIOUS
  <2> QED BY <1>3, <1>4, <1>6, <2>1
<1> QED
    BY <1>5, <1>6

LEMMA Mirror == ASSUME NEW a \in Nat, NEW i \in 1 .. a PROVE \E m \in 1 .. a : m = (a - i) + 1
<1>1. (a - i) + 1 \in 1 .. a
    OBVIOUS
<1> QED
    BY <1>1

LEMMA AlignedSuffix ==
    ASSUME NEW s \in Seq(Line), NEW t \in Seq(Line), Aligned(s, t), Len(s) <= Len(t)
    PROVE  IsSuffix(s, t)
<1>1. PICK a \in Nat, b \in Nat : a = Len(s) /\ b = Len(t) /\ a <= b
    OBVIOUS
<1> DEFINE x == [i \in 1 .. a |-> s[(a - i) + 1]]
           y == [i \in 1 .. b |-> t[(b - i) + 1]]
<1>2. Reverse(s) = x /\ Reverse(t) = y
    BY <1>1, Zenon DEF Reverse
<1>3. x \in Seq(Line) /\ Len(x) = a
  <2>1. \A k \in 1 .. a : s[k] \in Line
      BY <1>1
  <2>2. \A i \in 1 .. a : (a - i) + 1 \in 1 .. a
      BY ONLY <1>1
  <2>3. \A i \in 1 .. a : s[(a - i) + 1] \in Line
      BY <2>1, <2>2
  <2> QED BY <2>3
<1>4. y \in Seq(Line) /\ Len(y) = b
  <2>1. \A k \in 1 .. b : t[k] \in Line
      BY <1>1
  <2>2. \A i \in 1 .. b : (b - i) + 1 \in 1 .. b
      BY ONLY <1>1
  <2>3. \A i \in 1 .. b : t[(b - i) + 1] \in Line
      BY <2>1, <2>2
  <2> QED BY <2>3
<1>5. \A i \in 1 .. a : x[i] = y[i]
  <2> SUFFICES ASSUME NEW i \in 1 .. a PROVE x[i] = y[i]
      OBVIOUS
  <2>0. i \in 1 .. b
      BY <1>1
  <2>1. PICK m \in 1 .. a : m = (a - i) + 1
      BY Mirror
  <2>2. PICK n \in 1 .. b : n = (b - i) + 1
      BY <2>0, Mirror
  <2>3. s[m] = t[n]
      BY <1>1, <2>1, <2>2, SMTT(40) DEF Aligned
  <2> QED BY <2>0, <2>1, <2>2, <2>3
<1> HIDE DEF x, y
<1>6. SubSeq(x, 1, a) = SubSeq(y, 1, a)
    BY <1>1, <1>3, <1>4, <1>5
<1> QED
    BY <1>1, <1>2, <1>3, <1>4, <1>6 DEF IsSuffix, IsPrefix

\* A step that admits nobody and changes nobody's due.
LEMMA SameDue ==
    ASSUME SameTalk, Members' \subseteq Members,
           \A e \in Members' : ToHave(e)' = ToHave(e)
    PROVE  SameTalk'
<1> SUFFICES ASSUME NEW c \in Members', NEW d \in Members'
             PROVE  Aligned(ToHave(c)', ToHave(d)')
    BY DEF SameTalk
<1>1. c \in Members /\ d \in Members /\ ToHave(c)' = ToHave(c) /\ ToHave(d)' = ToHave(d)
    OBVIOUS
<1> QED
    BY <1>1 DEF SameTalk

LEMMA ClientTalk ==
    ASSUME Talk, NEW c \in Clients, Client(c) PROVE Newcomers' /\ SameTalk'
<1>1. UNCHANGED <<inbox, clntSocks, clntCnt, mutex, idx, msg, sock, hnd, mainPc, hClntSock, heirs>>
    BY DEF Client, Connect, ClientSend, ClientRead, ClientQuit,
           socketVars, tableVars, mainVars, threadVars, history
<1>2. \A e \in Clients : peer'[e] = "up" => peer[e] \in {"up", "idle"}
    BY DEF Talk, IInv, TypeOK, Client, Connect, ClientSend, ClientRead, ClientQuit
<1>3. Members' \subseteq Members
    BY <1>1, <1>2 DEF Members, Listed, Present, Open, Talk, IInv, Safe, Numbers
<1>4. \A e \in Members' : ToHave(e)' = ToHave(e)
    BY <1>1 DEF ToHave, Expects
<1> QED
    BY <1>1, <1>3, <1>4, SameDue DEF Talk, Newcomers, Open

\* A client that accept takes is not in the room before main enters it, unless
\* its number is there.
LEMMA AcceptTalk ==
    ASSUME Talk, NEW c \in Clients, Accept(c) PROVE Newcomers' /\ SameTalk'
<1> USE DEF Talk, IInv, Safe
<1>1. UNCHANGED <<peer, inbox, clntSocks, clntCnt, mutex, idx, msg>> /\ hnd[c] = NoSock
    BY DEF Accept, clientVars, tableVars, threadVars
<1>2. PICK n \in Handles :
         /\ sock[n] = NoSock /\ sock' = [sock EXCEPT ![n] = c] /\ hnd' = [hnd EXCEPT ![c] = n]
         /\ hClntSock' = n
         /\ heirs' = IF n \in Listed THEN heirs \cup {c} ELSE heirs
    BY DEF Accept
<1>3. /\ \A d \in Clients : d # c => hnd'[d] = hnd[d]
      /\ hnd'[c] = n /\ heirs \subseteq heirs' /\ (c \notin heirs' => n \notin Listed)
      /\ inbox[c] = <<>>
    BY <1>1, <1>2 DEF TypeOK, Numbers
<1>4. \A d \in Clients : d # c => /\ Open(d)' => Open(d)
                                  /\ Open(d) => hnd[d] # n
    BY <1>2, <1>3, Kinds DEF Open, TypeOK, Number
<1>5. Members' \subseteq Members
    BY <1>1, <1>3, <1>4 DEF Members, Listed, Present
<1>6. \A e \in Members : e # c
    BY <1>1 DEF Members, Present, Open
<1>7. \A e \in Members' : ToHave(e)' = ToHave(e)
    BY <1>1, <1>3, <1>5, <1>6 DEF ToHave, Expects, Members
<1>8. Newcomers'
    BY <1>1, <1>2, <1>3, <1>4 DEF Newcomers
<1> QED
    BY <1>5, <1>7, <1>8, SameDue

\* Who comes in has nothing yet, which is the end of any conversation.
LEMMA RegisterTalk ==
    ASSUME Talk, Register PROVE Newcomers' /\ SameTalk'
<1>1. UNCHANGED <<peer, inbox, sock, hnd, hClntSock, heirs>>
      /\ mutex = 0 /\ mutex' = 0 /\ mainPc = "store" /\ mainPc' = "spawn" /\ clntCnt' = clntCnt + 1
      /\ clntSocks' = [clntSocks EXCEPT ![clntCnt + 1] = hClntSock]
    BY DEF Register, clientVars, socketVars, history
<1>2. clntCnt \in Nat /\ clntCnt + 1 \in 1 .. N
    BY <1>1, Bounds DEF Talk, IInv, Safe
<1>3. /\ \A i \in 1 .. clntCnt : clntSocks'[i] = clntSocks[i]
      /\ clntSocks'[clntCnt + 1] = hClntSock
      /\ \A i \in 1 .. clntCnt' : i \in 1 .. clntCnt \/ i = clntCnt + 1
    BY <1>1, <1>2, Sizes DEF Talk, IInv, TypeOK
<1>4. \A e \in Members' : e \in Members \/ inbox[e] = <<>>
    BY <1>1, <1>3 DEF Members, Listed, Present, Open, Talk, Newcomers
<1>5. \A e \in Clients : ToHave(e) = inbox[e] /\ ToHave(e)' = inbox[e]
    BY <1>1 DEF ToHave, Expects
<1>6. SameTalk'
  <2> SUFFICES ASSUME NEW c \in Members', NEW d \in Members'
               PROVE  Aligned(ToHave(c)', ToHave(d)')
      BY DEF SameTalk
  <2>1. c \in Clients /\ d \in Clients
      BY DEF Members
  <2>2. CASE inbox[c] = <<>> \/ inbox[d] = <<>>
    <3>1. \/ ToHave(c)' = <<>> \/ ToHave(d)' = <<>>
        BY <1>5, <2>1, <2>2
    <3> QED
        BY <3>1 DEF Aligned
  <2>3. CASE c \in Members /\ d \in Members
      BY <1>5, <2>1, <2>3 DEF Talk, SameTalk
  <2> QED
      BY <1>4, <2>2, <2>3
<1> QED
    BY <1>1, <1>6 DEF Newcomers

\* The steps between the broadcasts, which send nobody anything.
LEMMA OtherTalk ==
    ASSUME Talk,
           \/ AcceptFails \/ Spawn \/ UNCHANGED vars
           \/ \E h \in Handlers : Start(h) \/ CloseSock(h)
    PROVE  Newcomers' /\ SameTalk'
<1>1. /\ UNCHANGED <<peer, inbox, hnd, clntSocks, clntCnt, mutex, msg, idx, heirs>>
      /\ mainPc' = "store" => hClntSock' = NoSock \/ (mainPc = "store" /\ hClntSock' = hClntSock)
    BY DEF AcceptFails, Spawn, Start, CloseSock, vars,
           clientVars, socketVars, tableVars, mainVars, threadVars, history
<1>2. \A n \in Handles : sock'[n] \in {sock[n], NoSock}
    BY DEF AcceptFails, Spawn, Start, CloseSock, vars, socketVars
<1>3. \A e \in Clients : Open(e)' => Open(e)
    BY <1>1, <1>2, Kinds DEF Open, Talk, IInv, TypeOK, Number
<1>4. Members' \subseteq Members
    BY <1>1, <1>3 DEF Members, Listed, Present
<1>5. \A e \in Members' : ToHave(e)' = ToHave(e)
    BY <1>1 DEF ToHave, Expects
<1>6. Newcomers'
    BY <1>1, <1>3 DEF Talk, Newcomers, Open
<1> QED
    BY <1>4, <1>5, <1>6, SameDue DEF Talk

LEMMA RecvTalk ==
    ASSUME Talk, NEW h \in Handlers, Recv(h) PROVE Newcomers' /\ SameTalk'
<1>1. UNCHANGED <<peer, inbox, sock, hnd, clntSocks, clntCnt, hClntSock, mainPc, mutex, idx, heirs>>
      /\ pc[h] = "recv"
    BY DEF Recv, clientVars, tableVars, mainVars, history
<1>2. \A g \in Handlers : g # h => msg'[g] = msg[g]
    BY DEF Recv, Talk, IInv, TypeOK
<1>3. mutex # h /\ mutex \in Handlers \cup {0}
    BY <1>1 DEF Talk, IInv, Safe, Owned, TypeOK
<1>4. mutex # 0 => msg'[mutex] = msg[mutex]
    BY <1>2, <1>3
<1>5. Members' \subseteq Members
    BY <1>1 DEF Members, Listed, Present, Open
<1>6. \A e \in Members' : ToHave(e)' = ToHave(e)
    BY <1>1, <1>4 DEF ToHave, Expects
<1> QED
    BY <1>1, <1>5, <1>6, SameDue DEF Talk, Newcomers, Open

\* A handler that begins to send has its lines for everyone in the table.
LEMMA LockTalk ==
    ASSUME Talk, NEW h \in Handlers, Lock(h) PROVE Newcomers' /\ SameTalk'
<1>1. UNCHANGED <<peer, inbox, sock, hnd, heirs, clntSocks, clntCnt, hClntSock, mainPc, msg>>
      /\ mutex = 0 /\ mutex' = h /\ idx' = [idx EXCEPT ![h] = 1]
    BY DEF Lock, clientVars, socketVars, tableVars, mainVars, history
<1>2. idx'[h] = 1 /\ h # 0
    BY <1>1, Sizes DEF Talk, IInv, TypeOK
<1>3. Members' = Members
    BY <1>1 DEF Members, Listed, Present, Open
<1>4. \A e \in Members : ToHave(e) = inbox[e]
    BY <1>1 DEF ToHave, Expects
<1>5. \A e \in Members : ToHave(e)' = inbox[e] \o msg[h]
  <2> SUFFICES ASSUME NEW e \in Members PROVE ToHave(e)' = inbox[e] \o msg[h]
      OBVIOUS
  <2>1. PICK i \in 1 .. clntCnt : clntSocks[i] = hnd[e]
      BY DEF Members, Listed
  <2>2. Expects(e)'
      BY <1>1, <1>2, <2>1 DEF Expects
  <2> QED
      BY <1>1, <2>2 DEF ToHave
<1>6. msg[h] \in Seq(Line) /\ \A e \in Members : inbox[e] \in Seq(Line)
    BY DEF Members, Talk, IInv, TypeOK
<1>7. SameTalk'
  <2> SUFFICES ASSUME NEW c \in Members, NEW d \in Members
               PROVE  Aligned(ToHave(c)', ToHave(d)')
      BY <1>3 DEF SameTalk
  <2>1. Aligned(inbox[c], inbox[d])
      BY <1>4 DEF Talk, SameTalk
  <2>2. Aligned(inbox[c] \o msg[h], inbox[d] \o msg[h])
      BY <1>6, <2>1, AlignedConcat
  <2> QED
      BY <1>5, <2>2
<1> QED
    BY <1>1, <1>3, <1>7 DEF Talk, Newcomers, Open

LEMMA UnlockTalk ==
    ASSUME Talk, NEW h \in Handlers, Unlock(h) PROVE Newcomers' /\ SameTalk'
<1>1. UNCHANGED <<peer, inbox, sock, hnd, heirs, clntSocks, clntCnt, hClntSock, mainPc, msg, idx>>
      /\ mutex' = 0 /\ pc[h] = "send" /\ idx[h] > clntCnt
    BY DEF Unlock, clientVars, socketVars, tableVars, mainVars, history
<1>2. mutex = h
    BY <1>1 DEF Talk, IInv, Safe, Owned
<1>5. idx[h] \in Nat /\ clntCnt \in Nat
  <2>1. clntCnt \in 0 .. N /\ N \in Nat
      BY Bounds, Sizes DEF Talk, IInv, Safe
  <2>2. idx[h] \in 0 .. N + 1
      BY DEF Talk, IInv, TypeOK, N
  <2> QED
      BY <2>1, <2>2
<1>6. ~ \E i \in 1 .. clntCnt : idx[h] <= i
    BY <1>1, <1>5
<1>3. Members' = Members
    BY <1>1 DEF Members, Listed, Present, Open
<1>4. \A e \in Members' : ToHave(e) = inbox[e] /\ ToHave(e)' = inbox[e]
    BY <1>1, <1>2, <1>6 DEF ToHave, Expects
<1> QED
    BY <1>1, <1>3, <1>4, SameDue DEF Talk, Newcomers, Open

LEMMA DeregisterTalk ==
    ASSUME Talk, NEW h \in Handlers, Deregister(h) PROVE Newcomers' /\ SameTalk'
<1>1. UNCHANGED <<peer, inbox, sock, hnd, heirs, hClntSock, mainPc>>
      /\ mutex = 0 /\ mutex' = 0 /\ pc[h] = "leave"
      /\ clntSocks' = Removed(mySock[h]) /\ clntCnt' = clntCnt - 1
    BY DEF Deregister, clientVars, socketVars, mainVars, history
<1>2. clntCnt > 0
    BY <1>1, Bounds DEF Talk, IInv, Safe
<1>3. \A i \in 1 .. clntCnt' : \E k \in 1 .. clntCnt : clntSocks'[i] = clntSocks[k]
    BY <1>1, <1>2, RemovedTable DEF Talk
<1>4. Members' \subseteq Members
    BY <1>1, <1>3 DEF Members, Listed, Present, Open
<1>5. \A e \in Members' : ToHave(e)' = ToHave(e)
    BY <1>1 DEF ToHave, Expects
<1> QED
    BY <1>1, <1>4, <1>5, SameDue DEF Talk, Newcomers, Open

\* What a member gets is what it was to get.
LEMMA SendTalk ==
    ASSUME Talk, NEW h \in Handlers, SendOne(h) PROVE Newcomers' /\ SameTalk'
<1> USE DEF Talk, IInv, Safe
<1>1. /\ UNCHANGED <<sock, hnd, heirs, clntSocks, clntCnt, hClntSock, mainPc, mutex, msg>>
      /\ pc[h] = "send" /\ idx[h] <= clntCnt /\ idx' = [idx EXCEPT ![h] = @ + 1]
    BY DEF SendOne, socketVars, tableVars, mainVars, history
<1>2. /\ idx[h] \in 1 .. clntCnt /\ idx[h] \in Nat /\ clntCnt \in 0 .. N
      /\ idx'[h] = idx[h] + 1 /\ mutex = h /\ h # 0
    BY <1>1, Bounds, Sizes DEF Owned, TypeOK
<1>3. CASE Broken(clntSocks[idx[h]])
  <2>1. UNCHANGED <<peer, inbox>>
      BY <1>3 DEF SendOne, Broken
  <2>2. Members' \subseteq Members
      BY <1>1, <2>1 DEF Members, Listed, Present, Open
  <2>3. ASSUME NEW e \in Members' PROVE ToHave(e)' = ToHave(e)
    <3>1. clntSocks[idx[h]] # hnd[e] /\ e \in Clients
        BY <1>3, <2>1, <2>2, <2>3, Kinds DEF Members, Present, Broken, On
    <3>2. \A i \in 1 .. clntCnt : i # idx[h] => (idx[h] <= i <=> idx[h] + 1 <= i)
        BY <1>2
    <3>3. Expects(e)' <=> Expects(e)
        BY <1>1, <1>2, <3>1, <3>2 DEF Expects
    <3> QED
        BY <1>1, <1>2, <2>1, <3>3 DEF ToHave
  <2> QED
      BY <1>1, <2>1, <2>2, <2>3, SameDue DEF Newcomers, Open
<1> SUFFICES ASSUME ~Broken(clntSocks[idx[h]]) PROVE Newcomers' /\ SameTalk'
    BY <1>3
<1>4. PICK d \in Clients :
         /\ On(clntSocks[idx[h]], d)
         /\ \/ UNCHANGED peer /\ inbox' = [inbox EXCEPT ![d] = @ \o msg[h]]
            \/ peer[d] = "fin" /\ peer' \in {peer, [peer EXCEPT ![d] = "rst"]} /\ UNCHANGED inbox
    BY Zenon DEF SendOne
<1>4a. hnd[d] = clntSocks[idx[h]] /\ Open(d)
    BY <1>4, Kinds DEF On, Open, Numbers
<1>5. \A e \in Clients : peer'[e] = "up" => peer[e] = "up"
    BY <1>4 DEF TypeOK
<1>6. Members' \subseteq Members
    BY <1>1, <1>5 DEF Members, Listed, Present, Open
<1>8. \A e \in Clients : e # d => inbox'[e] = inbox[e]
    BY <1>4 DEF TypeOK
<1>9. Newcomers'
  <2>1. mainPc = "store" /\ d \notin heirs => hClntSock # hnd[d]
      BY <1>2, <1>4a DEF Table
  <2> QED
      BY <1>1, <1>8, <2>1 DEF Newcomers, Open
<1>10. ASSUME NEW e \in Members' PROVE ToHave(e)' = ToHave(e)
  <2>1. e \in Clients \ heirs /\ e \in Members
      BY <1>1, <1>6, <1>10 DEF Members
  <2>2. CASE e # d
    <3>0. Open(e) /\ hnd[e] # hnd[d]
        BY <1>4a, <2>1, <2>2, Kinds DEF Members, Present, Open
    <3>1. Expects(e)' <=> Expects(e)
      <4>1. \A i \in 1 .. clntCnt : clntSocks[i] = hnd[e] => i # idx[h]
          BY <1>4a, <3>0
      <4>2. \A i \in 1 .. clntCnt : i # idx[h] => (idx[h] <= i <=> idx[h] + 1 <= i)
          BY <1>2
      <4>3. (\E i \in 1 .. clntCnt : idx[h] + 1 <= i /\ clntSocks[i] = hnd[e])
             <=> (\E i \in 1 .. clntCnt : idx[h] <= i /\ clntSocks[i] = hnd[e])
          BY <4>1, <4>2
      <4> QED
          BY <1>1, <1>2, <4>3 DEF Expects
    <3> QED
        BY <1>1, <1>2, <1>8, <2>1, <2>2, <3>1 DEF ToHave
  <2>3. CASE e = d
    <3>1. Expects(e)
        BY <1>2, <1>4a, <2>3 DEF Expects
    <3>2. \A i \in 1 .. clntCnt : clntSocks[i] = hnd[e] => i = idx[h]
        BY <1>2, <1>4a, <2>1, <2>3 DEF Table, Once
    <3>3. ~Expects(e)'
        BY <1>1, <1>2, <3>2 DEF Expects
    <3>4. Present(e) /\ Present(e)'
        BY <1>10, <2>1 DEF Members
    <3>5. inbox' = [inbox EXCEPT ![d] = @ \o msg[h]]
        BY <1>4, <2>3, <3>4 DEF Present
    <3>6. inbox'[d] = inbox[d] \o msg[h]
        BY <3>5 DEF TypeOK
    <3> QED
        BY <1>2, <2>3, <3>1, <3>3, <3>6 DEF ToHave
  <2> QED
      BY <2>2, <2>3
<1> QED
    BY <1>6, <1>9, <1>10, SameDue

LEMMA TalkStep == ASSUME Talk, [Next]_vars PROVE Talk'
<1>1. IInv'
    BY Inductive DEF Talk
<1> SUFFICES Newcomers' /\ SameTalk'
    BY <1>1 DEF Talk
<1>2. ASSUME NEW c \in Clients, Client(c) PROVE Newcomers' /\ SameTalk'
    BY <1>2, ClientTalk
<1>3. ASSUME NEW c \in Clients, Accept(c) PROVE Newcomers' /\ SameTalk'
    BY <1>3, AcceptTalk
<1>4. CASE Register
    BY <1>4, RegisterTalk
<1>5. CASE Spawn \/ AcceptFails \/ UNCHANGED vars
    BY <1>5, OtherTalk
<1>6. ASSUME NEW h \in Handlers, Handler(h) PROVE Newcomers' /\ SameTalk'
    BY <1>6, OtherTalk, RecvTalk, LockTalk, UnlockTalk, SendTalk, DeregisterTalk DEF Handler
<1> QED
    BY <1>2, <1>3, <1>4, <1>5, <1>6 DEF Next, Main

LEMMA TalkBegins == Init => Talk
<1> SUFFICES ASSUME Init PROVE Talk
    OBVIOUS
<1>1. IInv
    BY Initial
<1>2. Newcomers
    BY DEF Init, Newcomers
<1>3. Members = {}
    BY DEF Init, Members, Listed
<1> QED
    BY <1>1, <1>2, <1>3 DEF Talk, SameTalk

LEMMA TalkAgrees == Talk => Agreement
<1> SUFFICES ASSUME Talk, mutex = 0, NEW c \in Members, NEW d \in Members
             PROVE  IsSuffix(inbox[c], inbox[d]) \/ IsSuffix(inbox[d], inbox[c])
    BY Zenon DEF Agreement, Members
<1>1. ToHave(c) = inbox[c] /\ ToHave(d) = inbox[d]
    BY DEF ToHave, Expects
<1>2. Aligned(inbox[c], inbox[d]) /\ Aligned(inbox[d], inbox[c])
    BY <1>1 DEF Talk, SameTalk
<1>3. PICK s \in Seq(Line), t \in Seq(Line) : s = inbox[c] /\ t = inbox[d]
    BY DEF Members, Talk, IInv, TypeOK
<1>4. Len(s) <= Len(t) \/ Len(t) <= Len(s)
    BY <1>3
<1>5. CASE Len(s) <= Len(t)
  <2>1. IsSuffix(s, t)
      BY <1>2, <1>3, <1>5, AlignedSuffix
  <2> QED
      BY <1>3, <2>1
<1>6. CASE Len(t) <= Len(s)
  <2>1. IsSuffix(t, s)
      BY <1>2, <1>3, <1>6, AlignedSuffix
  <2> QED
      BY <1>3, <2>1
<1> QED
    BY <1>4, <1>5, <1>6

\* Between two broadcasts, any two clients in the room have the same
\* conversation behind them, as far back as the later of them has been there
\* (SendMsg, lines 98-107).
THEOREM OneConversation == Spec => []Agreement
<1>1. Spec => []Talk
    BY TalkBegins, TalkStep, PTL DEF Spec
<1> QED
    BY <1>1, TalkAgrees, PTL
=============================================================================
