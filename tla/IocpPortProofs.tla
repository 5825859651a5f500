--------------------------- MODULE IocpPortProofs ---------------------------
(***************************************************************************)
(* Safety of IocpPort for any connections, slots, workers, bytes and any   *)
(* buffer size, as long as no client has been rude.                        *)
(*                                                                         *)
(* A slot that is in use has one token: it is being given its first        *)
(* receive, or its receive is with the kernel, in the port, or with a      *)
(* worker.  Whoever has the token knows how much of its connection has     *)
(* been read and echoed, and the connection cannot change under it,        *)
(* because a slot is only emptied by the worker that has its token.        *)
(***************************************************************************)
EXTENDS IocpPort, SequenceTheorems, FiniteSetTheorems, TLAPS

\* A worker in WorkerThread between a completion and the next.
Busy(w) == pc[w] \in {"send", "recv", "hang", "clear"}

\* Whoever works on a slot knows which, and the lengths at hand are lengths of
\* what is in the buffers.
Shape ==
    /\ \A w \in Workers : Busy(w) => pkt[w].s \in Slots /\ pkt[w].n \in Nat
    /\ \A w \in Workers : pc[w] = "send" => pkt[w].n <= Len(recvBuf[pkt[w].s])
    /\ \A j \in 1 .. Len(port) : port[j].op = "RECV" => port[j].n <= Len(recvBuf[port[j].s])
    /\ \A c \in Conns : \A i \in 1 .. Len(sq[c]) :
          Len(sq[c][i].data) <= Len(sendBuf[sq[c][i].s])
    /\ acc.pc \in {"wait", "post"} => acc.s \in Slots

-----------------------------------------------------------------------------
(* The token of a slot. *)

ArmedOn(s, c) == rq[c] # <<>> /\ rq[c][1] = s
Arrived(s, n) == \E j \in 1 .. Len(port) : port[j].op = "RECV" /\ port[j].s = s /\ port[j].n = n
At(s, n, at)  == \E w \in Workers : pc[w] = at /\ pkt[w].s = s /\ pkt[w].n = n

Armed(s)   == \E c \in Conns : ArmedOn(s, c)
Queued(s)  == \E n \in Nat : Arrived(s, n)
Served(s)  == \E n \in Nat, at \in {"send", "recv", "hang", "clear"} : At(s, n, at)
Posting(s) == acc.pc = "post" /\ acc.s = s

Exclusive(s) ==
    /\ Armed(s) => ~Queued(s) /\ ~Served(s) /\ ~Posting(s)
    /\ Queued(s) => ~Served(s) /\ ~Posting(s)
    /\ Served(s) => ~Posting(s)

OneToken ==
    /\ \A s \in Slots : Exclusive(s)
    /\ \A c \in Conns : Len(rq[c]) <= 1
    /\ \A j, k \in 1 .. Len(port) :
          port[j].op = "RECV" /\ port[k].op = "RECV" /\ port[j].s = port[k].s => j = k
    /\ \A v, w \in Workers : Busy(v) /\ Busy(w) /\ pkt[v].s = pkt[w].s => v = w

\* The pending sends of a connection are of its slot and follow each other
\* without a gap, from what has been delivered.
Lo(c, i) == sq[c][i].data[1][2] - 1
Hi(c, i) == Lo(c, i) + Len(sq[c][i].data)

Row(c) ==
    \A i \in 1 .. Len(sq[c]) :
       /\ slot[sq[c][i].s] = c
       /\ Len(sq[c][i].data) > 0
       /\ \A k \in 1 .. Len(sq[c][i].data) : sq[c][i].data[k] = <<c, Lo(c, i) + k>>
       /\ Lo(c, i) = IF i = 1 THEN Len(out[c]) ELSE Hi(c, i - 1)
       /\ Hi(c, i) <= read[c]

RowEnd(c) == IF sq[c] = <<>> THEN Len(out[c]) ELSE Hi(c, Len(sq[c]))

\* The connection in slot s stands.
Stands(s) == slot[s] \in Conns /\ sock[slot[s]] = "open"

\* All that was read of it is echoed, or on its way back.
Caught(s) == Stands(s) /\ RowEnd(slot[s]) = read[slot[s]]

\* Its client has left, with all its echo.
Over(s) == Caught(s) /\ peer[slot[s]] = "fin" /\ read[slot[s]] = sent[slot[s]]

\* The first n bytes of its receive buffer are the next to be echoed.
Full(s, n) ==
    /\ Stands(s)
    /\ n > 0 /\ RowEnd(slot[s]) + n = read[slot[s]]
    /\ \A k \in 1 .. n : recvBuf[s][k] = <<slot[s], RowEnd(slot[s]) + k>>

\* What the holder of the token knows.
Knows(s) ==
    /\ \A c \in Conns : ArmedOn(s, c) => slot[s] = c /\ Caught(s)
    /\ \A n \in Nat :
          /\ Arrived(s, n) => IF n = 0 THEN Over(s) ELSE Full(s, n)
          /\ At(s, n, "send") => Full(s, n)
          /\ At(s, n, "recv") => Caught(s)
          /\ At(s, n, "hang") => Over(s)
          /\ At(s, n, "clear") => slot[s] \in Conns /\ sock[slot[s]] = "closed"
    /\ Posting(s) => Caught(s)
    /\ acc.pc = "wait" /\ acc.s = s => slot[s] = NoConn

Known ==
    /\ \A s \in Slots : Knows(s)
    /\ \A j \in 1 .. Len(port) : port[j].ok /\ (port[j].op = "SEND" => port[j].n > 0)

\* The life of a connection.
Lives ==
    /\ \A c \in Conns :
          /\ Row(c)
          /\ RowEnd(c) <= read[c] /\ read[c] <= sent[c]
          /\ peer[c] = "fin" => Len(out[c]) = sent[c]
          /\ sock[c] = "closed" => peer[c] = "fin"
          /\ sock[c] = "none" => Len(out[c]) = 0 /\ sq[c] = <<>> /\ read[c] = 0
          /\ sock[c] # "open" => rq[c] = <<>>
    /\ \A s, t \in Slots : slot[s] = slot[t] /\ slot[s] # NoConn => s = t
    /\ \A s \in Slots : slot[s] # NoConn => sock[slot[s]] # "none"

Polite == OneToken /\ Known /\ Lives

IInv == TypeOK /\ Shape /\ (Rude \/ Polite)

\* With one byte ahead of the echo at most, a send buffer is not written while
\* the kernel still has it.
Untouched(c) ==
    \A i \in 1 .. Len(sq[c]) : \A k \in 1 .. Len(sq[c][i].data) :
       sendBuf[sq[c][i].s][k] = sq[c][i].data[k]

Echoed(c) ==
    /\ sent[c] <= Len(out[c]) + 1
    /\ Untouched(c)
    /\ \A k \in 1 .. Len(out[c]) : out[c][k] = <<c, k>>

EInv == Rude \/ \A c \in Conns : Echoed(c)

-----------------------------------------------------------------------------
(* A set of naturals that is not empty has a least element.  The library   *)
(* says so only of properties given as operators; here it follows from the *)
(* fact that strict inclusion is well-founded on finite sets.              *)

LEMMA Least == ASSUME NEW S, S \subseteq Nat, S # {} PROVE \E m \in S : \A k \in S : m <= k
<1> DEFINE T == {1 .. n : n \in S}
           R == StrictSubsetOrdering(Nat)
<1>1. T \subseteq FiniteSubsetsOf(Nat)
  <2> SUFFICES ASSUME NEW n \in S PROVE (1 .. n) \in FiniteSubsetsOf(Nat)
      OBVIOUS
  <2>1. n \in Int /\ 1 \in Int
      OBVIOUS
  <2> QED BY <2>1, FS_Interval DEF FiniteSubsetsOf
<1>2. T # {}
    OBVIOUS
<1>3. IsWellFoundedOn(R, FiniteSubsetsOf(Nat))
    BY FS_StrictSubsetOrderingWellFounded
<1> HIDE DEF T, R
<1>4. \E x \in T : \A y \in T : ~ (<<y, x>> \in R)
    BY <1>1, <1>2, <1>3, WFMin
<1>5. PICK m \in S : \A y \in T : ~ (<<y, 1 .. m>> \in R)
    BY <1>4 DEF T
<1>6. ASSUME NEW k \in S, k < m PROVE FALSE
  <2>1. <<1 .. k, 1 .. m>> \notin R
      BY <1>5 DEF T
  <2>2. (1 .. k) \subseteq (1 .. m) /\ m \in 1 .. m /\ m \notin 1 .. k
      BY <1>6
  <2>3. (1 .. k) \in SUBSET Nat /\ (1 .. m) \in SUBSET Nat
      OBVIOUS
  <2> QED BY <2>1, <2>2, <2>3, Zenon DEF R, StrictSubsetOrdering
<1> QED
    BY <1>6

-----------------------------------------------------------------------------
(* Copying into a buffer. *)

LEMMA OverlayType ==
    ASSUME NEW B, NEW data \in Seq(B), NEW old \in Seq(B)
    PROVE  /\ Overlay(data, old) \in Seq(B)
           /\ Len(Overlay(data, old)) >= Len(data) /\ Len(Overlay(data, old)) >= Len(old)
           /\ \A k \in 1 .. Len(data) : Overlay(data, old)[k] = data[k]
<1> DEFINE rest == SubSeq(old, Len(data) + 1, Len(old))
<1>1. rest \in Seq(B) /\ Len(data) + Len(rest) >= Len(old) /\ Len(data) \in Nat
  <2>1. CASE Len(data) <= Len(old)
      BY <2>1, SubSeqProperties
  <2>2. CASE Len(data) > Len(old)
      BY <2>2
  <2> QED BY <2>1, <2>2
<1> HIDE DEF rest
<1>2. /\ data \o rest \in Seq(B)
      /\ Len(data \o rest) = Len(data) + Len(rest)
      /\ \A k \in 1 .. Len(data) : (data \o rest)[k] = data[k]
    BY <1>1
<1>3. Overlay(data, old) = data \o rest
    BY DEF Overlay, rest
<1> QED
    BY <1>1, <1>2, <1>3

LEMMA StreamType ==
    ASSUME NEW c \in Conns, NEW from \in Nat, NEW to \in Nat, from <= to, to <= MaxBytes
    PROVE  /\ Stream(c, from, to) \in Seq(Byte) /\ Len(Stream(c, from, to)) = to - from
           /\ \A k \in 1 .. to - from : Stream(c, from, to)[k] = <<c, from + k>>
<1>1. \A k \in 1 .. to - from : <<c, from + k>> \in Byte
    BY IocpPortAssumption DEF Byte
<1> QED
    BY <1>1 DEF Stream

\* What a send takes from the front of a buffer.
LEMMA PrefixType ==
    ASSUME NEW B, NEW buf \in Seq(B), NEW n \in Nat, n <= Len(buf)
    PROVE  /\ SubSeq(buf, 1, n) \in Seq(B) /\ Len(SubSeq(buf, 1, n)) = n
           /\ \A k \in 1 .. n : SubSeq(buf, 1, n)[k] = buf[k]
    BY SubSeqProperties

-----------------------------------------------------------------------------
(* The types, whatever the clients do. *)

\* The packets of the port.
Entry == [s : Slots, op : {"RECV", "SEND"}, n : Nat, ok : BOOLEAN]

LEMMA PortType == ASSUME TypeOK PROVE /\ port \in Seq(Entry) /\ Len(port) \in Nat
                                      /\ \A j \in 1 .. Len(port) : port[j] \in Entry
                                      /\ \A j \in 1 .. Len(port) : port[j].s \in Slots /\ port[j].n \in Nat
<1>1. port \in Seq(Entry)
    BY DEF TypeOK, Entry
<1>2. Len(port) \in Nat /\ \A j \in 1 .. Len(port) : port[j] \in Entry
    BY <1>1
<1> QED
    BY <1>1, <1>2 DEF Entry

LEMMA PortAppend ==
    ASSUME TypeOK, NEW s \in Slots, NEW op \in {"RECV", "SEND"}, NEW n \in Nat, NEW ok \in BOOLEAN,
           port' = Append(port, Packet(s, op, n, ok))
    PROVE  /\ port' \in Seq(Entry) /\ Len(port') = Len(port) + 1
           /\ \A j \in 1 .. Len(port') :
                 \/ j \in 1 .. Len(port) /\ port'[j] = port[j]
                 \/ j = Len(port) + 1 /\ port'[j] = Packet(s, op, n, ok)
           /\ \A j \in 1 .. Len(port) : j \in 1 .. Len(port') /\ port'[j] = port[j]
           /\ Len(port) + 1 \in 1 .. Len(port') /\ port'[Len(port) + 1] = Packet(s, op, n, ok)
<1> DEFINE p == Packet(s, op, n, ok)
<1>1. p \in Entry
    BY DEF Packet, Entry
<1> HIDE DEF p
<1>2. port \in Seq(Entry) /\ port' = Append(port, p)
    BY PortType DEF p
<1>3. /\ port' \in Seq(Entry) /\ Len(port') = Len(port) + 1 /\ port'[Len(port) + 1] = p
      /\ \A j \in 1 .. Len(port) : port'[j] = port[j]
    BY <1>1, <1>2
<1> QED
    BY <1>2, <1>3 DEF p

LEMMA InitType == Init => TypeOK /\ Shape
    BY IocpPortAssumption DEF Init, TypeOK, Shape, Busy

LEMMA ClientType ==
    ASSUME TypeOK, Shape, NEW c \in Conns, Client(c)
    PROVE  TypeOK' /\ Shape'
<1>1. sent' \in [Conns -> 0 .. MaxBytes] /\ peer' \in [Conns -> {"idle", "up", "fin", "quit", "rst"}]
  <2>1. CASE Connect(c)  BY <2>1 DEF TypeOK, Connect
  <2>2. CASE Write(c)    BY <2>2, IocpPortAssumption DEF TypeOK, Write
  <2>3. CASE Fin(c)      BY <2>3 DEF TypeOK, Fin
  <2>4. CASE Reset(c)    BY <2>4 DEF TypeOK, Reset
  <2> QED                BY <2>1, <2>2, <2>3, <2>4 DEF Client
<1>2. UNCHANGED ServerState
    BY DEF Client, Connect, Write, Fin, Reset
<1> QED
    BY <1>1, <1>2 DEF ServerState, kernelVars, slotVars, workerVars, ownerVars, TypeOK, Shape, Busy

LEMMA RecvDataType ==
    ASSUME TypeOK, Shape, NEW c \in Conns, RecvData(c)
    PROVE  TypeOK' /\ Shape'
<1>1. PICK k \in 1 .. BufSize :
         /\ read[c] + k <= sent[c]
         /\ recvBuf' = [recvBuf EXCEPT ![Head(rq[c])] =
                           Overlay(Stream(c, read[c], read[c] + k), @)]
         /\ port' = Append(port, Packet(Head(rq[c]), "RECV", k, TRUE))
         /\ read' = [read EXCEPT ![c] = @ + k]
    BY DEF RecvData
<1>2. rq[c] \in Seq(Slots) /\ rq[c] # <<>> /\ rq' = [rq EXCEPT ![c] = Tail(@)]
    BY DEF RecvData, TypeOK
<1>3. UNCHANGED <<sent, peer, out, sq, sock, slot, sendBuf, pc, pkt, acc, cnt, ctl>>
    BY DEF RecvData, clientVars, workerVars, ownerVars
<1> DEFINE s == Head(rq[c])
           data == Stream(c, read[c], read[c] + k)
<1>4. s \in Slots /\ Tail(rq[c]) \in Seq(Slots)
    BY <1>2
<1>5. read[c] \in Nat /\ read[c] + k \in Nat /\ read[c] + k <= MaxBytes /\ k \in Nat
    BY <1>1, IocpPortAssumption DEF TypeOK
<1>6. data \in Seq(Byte) /\ Len(data) = k
  <2>1. read[c] <= read[c] + k /\ (read[c] + k) - read[c] = k
      BY <1>5
  <2> QED BY <1>5, <2>1, StreamType
<1>7. recvBuf[s] \in Seq(Byte)
    BY <1>4 DEF TypeOK
<1>8. /\ Overlay(data, recvBuf[s]) \in Seq(Byte)
      /\ Len(Overlay(data, recvBuf[s])) >= k
      /\ Len(Overlay(data, recvBuf[s])) >= Len(recvBuf[s])
    BY <1>6, <1>7, OverlayType
<1> HIDE DEF data, s
<1>9. recvBuf' = [recvBuf EXCEPT ![s] = Overlay(data, recvBuf[s])]
    BY <1>1 DEF s, data
<1>10. /\ \A t \in Slots : Len(recvBuf'[t]) >= Len(recvBuf[t])
       /\ Len(recvBuf'[s]) >= k
       /\ recvBuf' \in [Slots -> Seq(Byte)]
       /\ \A t \in Slots : Len(recvBuf[t]) \in Nat /\ Len(recvBuf'[t]) \in Nat
    BY <1>4, <1>8, <1>9 DEF TypeOK
<1> DEFINE p == Packet(s, "RECV", k, TRUE)
<1>11. p.n = k /\ p.s = s
    BY DEF Packet
<1>12. port' = Append(port, p)
    BY <1>1 DEF s
<1>13. /\ port' \in Seq(Entry)
       /\ \A j \in 1 .. Len(port') : \/ j \in 1 .. Len(port) /\ port'[j] = port[j]
                                     \/ j = Len(port) + 1 /\ port'[j] = p
    BY <1>4, <1>5, <1>12, PortAppend
<1> HIDE DEF p
<1>14. read' \in [Conns -> 0 .. MaxBytes]
    BY <1>1, <1>5, IocpPortAssumption DEF TypeOK
<1>15. TypeOK'
    BY <1>2, <1>3, <1>4, <1>10, <1>13, <1>14 DEF TypeOK, Entry
<1>16. \A j \in 1 .. Len(port') : port'[j].op = "RECV" => port'[j].n <= Len(recvBuf'[port'[j].s])
  <2> SUFFICES ASSUME NEW j \in 1 .. Len(port'), port'[j].op = "RECV"
               PROVE  port'[j].n <= Len(recvBuf'[port'[j].s])
      OBVIOUS
  <2>1. CASE j = Len(port) + 1 /\ port'[j] = p
      BY <2>1, <1>10, <1>11
  <2>2. CASE j \in 1 .. Len(port) /\ port'[j] = port[j]
    <3>1. port[j].s \in Slots /\ port[j].n \in Nat /\ port[j].n <= Len(recvBuf[port[j].s])
        BY <2>2, PortType DEF Shape
    <3> QED BY <2>2, <3>1, <1>10
  <2> QED BY <2>1, <2>2, <1>13
<1>17. \A w \in Workers : pc[w] = "send" => pkt[w].n <= Len(recvBuf'[pkt[w].s])
  <2> SUFFICES ASSUME NEW w \in Workers, pc[w] = "send" PROVE pkt[w].n <= Len(recvBuf'[pkt[w].s])
      OBVIOUS
  <2>1. pkt[w].s \in Slots /\ pkt[w].n \in Nat /\ pkt[w].n <= Len(recvBuf[pkt[w].s])
      BY DEF Shape, Busy
  <2> QED BY <2>1, <1>10
<1> QED
    BY <1>3, <1>15, <1>16, <1>17 DEF Shape, Busy

LEMMA RecvEndType ==
    ASSUME TypeOK, Shape, NEW c \in Conns, RecvEnd(c)
    PROVE  TypeOK' /\ Shape'
<1>1. PICK ok \in BOOLEAN : port' = Append(port, Packet(Head(rq[c]), "RECV", 0, ok))
    BY DEF RecvEnd
<1>2. rq[c] \in Seq(Slots) /\ rq[c] # <<>> /\ rq' = [rq EXCEPT ![c] = Tail(@)]
    BY DEF RecvEnd, TypeOK
<1>3. UNCHANGED <<sent, peer, out, read, sq, sock, slot, recvBuf, sendBuf, pc, pkt, acc, cnt, ctl>>
    BY DEF RecvEnd, clientVars, slotVars, workerVars, ownerVars
<1>4. Head(rq[c]) \in Slots /\ Tail(rq[c]) \in Seq(Slots)
    BY <1>2
<1>5. /\ port' \in Seq(Entry)
      /\ \A j \in 1 .. Len(port') :
            \/ j \in 1 .. Len(port) /\ port'[j] = port[j]
            \/ j = Len(port) + 1 /\ port'[j] = Packet(Head(rq[c]), "RECV", 0, ok)
    BY <1>1, <1>4, PortAppend
<1>6. TypeOK'
    BY <1>2, <1>3, <1>4, <1>5 DEF TypeOK, Entry
<1>7. Len(recvBuf[Head(rq[c])]) \in Nat
    BY <1>4 DEF TypeOK
<1>8. \A j \in 1 .. Len(port') : port'[j].op = "RECV" => port'[j].n <= Len(recvBuf[port'[j].s])
    BY <1>5, <1>7 DEF Shape, Packet
<1> QED
    BY <1>3, <1>6, <1>8 DEF Shape, Busy

\* The pending sends.
SendOp == [s : Slots, data : Seq(Byte)]

LEMMA SendsType ==
    ASSUME TypeOK, NEW c \in Conns
    PROVE  /\ sq[c] \in Seq(SendOp) /\ Len(sq[c]) \in Nat
           /\ \A i \in 1 .. Len(sq[c]) :
                 /\ sq[c][i] \in SendOp
                 /\ sq[c][i].s \in Slots
                 /\ sq[c][i].data \in Seq(Byte)
                 /\ Len(sq[c][i].data) \in Nat
<1>1. sq[c] \in Seq(SendOp)
    BY DEF TypeOK, SendOp
<1>2. Len(sq[c]) \in Nat /\ \A i \in 1 .. Len(sq[c]) : sq[c][i] \in SendOp
    BY <1>1
<1> HIDE DEF Byte
<1>3. \A i \in 1 .. Len(sq[c]) : sq[c][i].s \in Slots /\ sq[c][i].data \in Seq(Byte)
    BY <1>2 DEF SendOp
<1> QED
    BY <1>1, <1>2, <1>3

\* What completes when the first of them does.
LEMMA FirstSend ==
    ASSUME TypeOK, NEW c \in Conns, sq[c] # <<>>
    PROVE  /\ Head(sq[c]) = sq[c][1] /\ 1 \in 1 .. Len(sq[c])
           /\ Tail(sq[c]) \in Seq(SendOp) /\ Len(Tail(sq[c])) = Len(sq[c]) - 1
           /\ \A i \in 1 .. Len(sq[c]) - 1 : Tail(sq[c])[i] = sq[c][i + 1] /\ i + 1 \in 1 .. Len(sq[c])
<1>1. sq[c] \in Seq(SendOp)
    BY SendsType
<1> QED
    BY <1>1

LEMMA SendDoneType ==
    ASSUME TypeOK, Shape, NEW c \in Conns, SendDone(c)
    PROVE  TypeOK' /\ Shape'
<1> DEFINE op == Head(sq[c])
           now == SubSeq(sendBuf[op.s], 1, Len(op.data))
<1>1. PICK data \in {op.data, now} :
         /\ out' = [out EXCEPT ![c] = @ \o data]
         /\ port' = Append(port, Packet(op.s, "SEND", Len(op.data), TRUE))
    BY DEF SendDone
<1>2. sq[c] # <<>> /\ sq' = [sq EXCEPT ![c] = Tail(@)]
    BY DEF SendDone
<1>3. UNCHANGED <<sent, peer, read, rq, sock, slot, recvBuf, sendBuf, pc, pkt, acc, cnt, ctl>>
    BY DEF SendDone, clientVars, slotVars, workerVars, ownerVars
<1>4. op = sq[c][1] /\ op.s \in Slots /\ op.data \in Seq(Byte) /\ Len(op.data) \in Nat
    BY <1>2, SendsType, FirstSend
<1>5. now \in Seq(Byte)
  <2>1. sendBuf[op.s] \in Seq(Byte) /\ Len(op.data) <= Len(sendBuf[op.s])
      BY <1>2, <1>4, FirstSend DEF TypeOK, Shape
  <2> HIDE DEF op
  <2> QED BY <1>4, <2>1, PrefixType
<1> HIDE DEF op, now
<1>6. out[c] \o data \in Seq(Byte)
    BY <1>1, <1>4, <1>5 DEF TypeOK
<1>7. out' \in [Conns -> Seq(Byte)]
    BY <1>1, <1>6 DEF TypeOK
<1>8. /\ port' \in Seq(Entry)
      /\ \A j \in 1 .. Len(port') :
            \/ j \in 1 .. Len(port) /\ port'[j] = port[j]
            \/ j = Len(port) + 1 /\ port'[j] = Packet(op.s, "SEND", Len(op.data), TRUE)
    BY <1>1, <1>4, PortAppend
<1>9. sq' \in [Conns -> Seq(SendOp)]
    BY <1>2, FirstSend, SendsType DEF TypeOK, SendOp
<1>10. TypeOK'
    BY <1>3, <1>7, <1>8, <1>9 DEF TypeOK, Entry, SendOp
<1>11. \A d \in Conns : \A i \in 1 .. Len(sq'[d]) : Len(sq'[d][i].data) <= Len(sendBuf[sq'[d][i].s])
  <2> SUFFICES ASSUME NEW d \in Conns, NEW i \in 1 .. Len(sq'[d])
               PROVE  Len(sq'[d][i].data) <= Len(sendBuf[sq'[d][i].s])
      OBVIOUS
  <2>1. CASE d # c
      BY <1>2, <2>1 DEF TypeOK, Shape
  <2>2. CASE d = c
    <3>1. sq'[d] = Tail(sq[c])
        BY <1>2, <2>2 DEF TypeOK
    <3>2. i \in 1 .. Len(sq[c]) - 1 /\ i + 1 \in 1 .. Len(sq[c]) /\ Tail(sq[c])[i] = sq[c][i + 1]
        BY <1>2, <2>2, <3>1, FirstSend
    <3> QED BY <2>2, <3>1, <3>2 DEF Shape
  <2> QED BY <2>1, <2>2
<1>12. \A j \in 1 .. Len(port') : port'[j].op = "RECV" => port'[j].n <= Len(recvBuf[port'[j].s])
    BY <1>8 DEF Shape, Packet
<1> QED
    BY <1>3, <1>10, <1>11, <1>12 DEF Shape, Busy

LEMMA SendAbortType ==
    ASSUME TypeOK, Shape, NEW c \in Conns, SendAbort(c)
    PROVE  TypeOK' /\ Shape'
<1> DEFINE failed == [i \in DOMAIN sq[c] |-> Packet(sq[c][i].s, "SEND", 0, FALSE)]
<1>1. port' = port \o failed /\ sq' = [sq EXCEPT ![c] = <<>>]
    BY DEF SendAbort
<1>2. UNCHANGED <<sent, peer, out, read, rq, sock, slot, recvBuf, sendBuf, pc, pkt, acc, cnt, ctl>>
    BY DEF SendAbort, clientVars, slotVars, workerVars, ownerVars
<1>3. \A i \in 1 .. Len(sq[c]) : /\ failed[i] \in Entry
                                 /\ failed[i].op = "SEND"
  <2> SUFFICES ASSUME NEW i \in 1 .. Len(sq[c]) PROVE failed[i] \in Entry /\ failed[i].op = "SEND"
      OBVIOUS
  <2>1. i \in DOMAIN sq[c] /\ sq[c][i].s \in Slots
    <3>1. sq[c] \in Seq(SendOp) /\ sq[c][i].s \in Slots
        BY SendsType
    <3> QED BY <3>1
  <2>2. failed[i] = Packet(sq[c][i].s, "SEND", 0, FALSE)
      BY <2>1
  <2> QED BY <2>1, <2>2 DEF Packet, Entry
<1>4. DOMAIN sq[c] = 1 .. Len(sq[c]) /\ Len(sq[c]) \in Nat
  <2>1. sq[c] \in Seq(SendOp)
      BY SendsType
  <2> QED BY <2>1
<1>5. failed \in Seq(Entry) /\ Len(failed) = Len(sq[c])
  <2>1. DOMAIN failed = 1 .. Len(sq[c])
      BY <1>4
  <2> HIDE DEF failed
  <2>2. failed \in [1 .. Len(sq[c]) -> Entry]
      BY <2>1, <1>3, <1>4 DEF failed
  <2>3. failed \in Seq(Entry)
      BY <2>2, <1>4, SeqDef
  <2> QED BY <2>1, <2>3, <1>4, LenProperties
<1> HIDE DEF failed
<1>6. /\ port' \in Seq(Entry) /\ Len(port') = Len(port) + Len(failed)
      /\ \A j \in 1 .. Len(port') :
            \/ j \in 1 .. Len(port) /\ port'[j] = port[j]
            \/ j - Len(port) \in 1 .. Len(failed) /\ port'[j] = failed[j - Len(port)]
  <2>1. port \in Seq(Entry) /\ port' = port \o failed /\ failed \in Seq(Entry)
      BY <1>1, <1>5, PortType
  <2> QED BY <2>1
<1>7. \A j \in 1 .. Len(port') : port'[j].op = "RECV" => port'[j].n <= Len(recvBuf[port'[j].s])
    BY <1>3, <1>5, <1>6 DEF Shape
<1>8. TypeOK'
  <2>1. sq' \in [Conns -> Seq(SendOp)]
    <3>1. sq \in [Conns -> Seq(SendOp)]
        BY DEF TypeOK, SendOp
    <3>2. <<>> \in Seq(SendOp)
        BY EmptySeq
    <3> QED BY <1>1, <3>1, <3>2
  <2> QED BY <1>2, <1>6, <2>1 DEF TypeOK, Entry, SendOp
<1>9. \A d \in Conns : \A i \in 1 .. Len(sq'[d]) : Len(sq'[d][i].data) <= Len(sendBuf[sq'[d][i].s])
  <2> SUFFICES ASSUME NEW d \in Conns, NEW i \in 1 .. Len(sq'[d])
               PROVE  Len(sq'[d][i].data) <= Len(sendBuf[sq'[d][i].s])
      OBVIOUS
  <2>1. sq'[d] = IF d = c THEN <<>> ELSE sq[d]
      BY <1>1 DEF TypeOK
  <2> QED BY <2>1 DEF Shape
<1> QED
    BY <1>2, <1>7, <1>8, <1>9 DEF Shape, Busy

\* What is left when the first packet is taken out.
LEMMA PortTail ==
    ASSUME TypeOK, port # <<>>, port' = Tail(port)
    PROVE  /\ port' \in Seq(Entry) /\ Len(port') = Len(port) - 1
           /\ Head(port) = port[1] /\ 1 \in 1 .. Len(port)
           /\ \A j \in 1 .. Len(port') : j + 1 \in 1 .. Len(port) /\ port'[j] = port[j + 1]
    BY PortType

LEMMA DequeueType ==
    ASSUME TypeOK, Shape, NEW w \in Workers, Dequeue(w)
    PROVE  TypeOK' /\ Shape'
<1> DEFINE p == Head(port)
<1>1. PICK next \in {"hang", "send", "run"} :
         /\ pc' = [pc EXCEPT ![w] = next]
         /\ pkt' = [pkt EXCEPT ![w] = IF next = "run" THEN NoPkt ELSE [s |-> p.s, n |-> p.n]]
         /\ next = "send" => p.op = "RECV"
    BY DEF Dequeue, Handle
<1>2. port # <<>> /\ port' = Tail(port)
    BY DEF Dequeue, Handle
<1>3. UNCHANGED <<sent, peer, out, read, rq, sq, sock, slot, recvBuf, sendBuf, acc, cnt, ctl>>
    BY DEF Dequeue, Handle, clientVars, kernelVars, slotVars, ownerVars
<1>4. p = port[1] /\ p.s \in Slots /\ p.n \in Nat /\ (p.op = "RECV" => p.n <= Len(recvBuf[p.s]))
    BY <1>2, PortTail, PortType DEF Shape
<1> HIDE DEF p
<1>5. /\ pc' \in [Workers -> {"run", "send", "recv", "hang", "clear", "exit"}]
      /\ pkt' \in [Workers -> [s : Slots, n : Nat] \cup {NoPkt}]
    BY <1>1, <1>4 DEF TypeOK
<1>6. /\ \A v \in Workers : v # w => pc'[v] = pc[v] /\ pkt'[v] = pkt[v]
      /\ pc'[w] = next /\ (next # "run" => pkt'[w] = [s |-> p.s, n |-> p.n])
    BY <1>1 DEF TypeOK
<1>7. TypeOK'
    BY <1>2, <1>3, <1>5, PortTail DEF TypeOK, Entry
<1>8. \A v \in Workers : Busy(v)' => pkt'[v].s \in Slots /\ pkt'[v].n \in Nat
    BY <1>4, <1>6 DEF Shape, Busy
<1>9. \A v \in Workers : pc'[v] = "send" => pkt'[v].n <= Len(recvBuf[pkt'[v].s])
    BY <1>1, <1>4, <1>6 DEF Shape
<1>10. \A j \in 1 .. Len(port') : port'[j].op = "RECV" => port'[j].n <= Len(recvBuf[port'[j].s])
    BY <1>2, PortTail DEF Shape
<1> QED
    BY <1>3, <1>7, <1>8, <1>9, <1>10 DEF Shape

LEMMA SendMsgType ==
    ASSUME TypeOK, Shape, NEW w \in Workers, SendMsg(w)
    PROVE  TypeOK' /\ Shape'
<1> DEFINE s == pkt[w].s
           c == slot[s]
           data == SubSeq(recvBuf[s], 1, pkt[w].n)
           op == [s |-> s, data |-> data]
<1>1. /\ pc[w] = "send" /\ pc' = [pc EXCEPT ![w] = "recv"]
      /\ sendBuf' = [sendBuf EXCEPT ![s] = Overlay(data, sendBuf[s])]
      /\ sq' = IF Usable(c) THEN [sq EXCEPT ![c] = Append(@, op)] ELSE sq
    BY DEF SendMsg
<1>2. UNCHANGED <<sent, peer, out, read, rq, sock, slot, recvBuf, port, pkt, acc, cnt, ctl>>
    BY DEF SendMsg, clientVars, ownerVars
<1>3. s \in Slots /\ pkt[w].n \in Nat /\ pkt[w].n <= Len(recvBuf[s]) /\ recvBuf[s] \in Seq(Byte)
    BY <1>1 DEF Shape, Busy, TypeOK
<1>4. data \in Seq(Byte) /\ Len(data) = pkt[w].n
    BY <1>3, PrefixType
<1>5. sendBuf[s] \in Seq(Byte)
    BY <1>3 DEF TypeOK
<1>6. /\ Overlay(data, sendBuf[s]) \in Seq(Byte)
      /\ Len(Overlay(data, sendBuf[s])) >= Len(data)
      /\ Len(Overlay(data, sendBuf[s])) >= Len(sendBuf[s])
    BY <1>4, <1>5, OverlayType
<1>7. c \in Conns \cup {NoConn}
    BY <1>3 DEF TypeOK
<1>8. op \in SendOp /\ op.s = s /\ op.data = data
    BY <1>3, <1>4 DEF SendOp
<1> HIDE DEF s, c, data, op
<1>9. /\ sendBuf' \in [Slots -> Seq(Byte)]
      /\ Len(sendBuf'[s]) >= Len(data)
      /\ \A t \in Slots : /\ Len(sendBuf'[t]) >= Len(sendBuf[t])
                          /\ Len(sendBuf[t]) \in Nat /\ Len(sendBuf'[t]) \in Nat
    BY <1>1, <1>3, <1>6 DEF TypeOK
<1>10. /\ sq' \in [Conns -> Seq(SendOp)]
       /\ \A d \in Conns : \A i \in 1 .. Len(sq'[d]) :
             (i \in 1 .. Len(sq[d]) /\ sq'[d][i] = sq[d][i]) \/ sq'[d][i] = op
  <2>1. sq \in [Conns -> Seq(SendOp)]
      BY DEF TypeOK, SendOp
  <2>2. \A d \in Conns : /\ Append(sq[d], op) \in Seq(SendOp)
                         /\ Len(Append(sq[d], op)) = Len(sq[d]) + 1
                         /\ \A i \in 1 .. Len(sq[d]) + 1 :
                               Append(sq[d], op)[i] = IF i = Len(sq[d]) + 1 THEN op ELSE sq[d][i]
                         /\ Len(sq[d]) \in Nat
      BY <2>1, <1>8
  <2>3. CASE Usable(c)
    <3>1. c \in Conns /\ sq' = [sq EXCEPT ![c] = Append(sq[c], op)]
        BY <1>1, <1>7, <2>3 DEF Usable
    <3> QED BY <2>1, <2>2, <3>1
  <2>4. CASE ~Usable(c)
      BY <1>1, <2>1, <2>4
  <2> QED BY <2>3, <2>4
<1>11. pc' \in [Workers -> {"run", "send", "recv", "hang", "clear", "exit"}]
    BY <1>1 DEF TypeOK
<1>12. TypeOK'
    BY <1>2, <1>9, <1>10, <1>11 DEF TypeOK, SendOp
<1>13. \A d \in Conns : \A i \in 1 .. Len(sq'[d]) : Len(sq'[d][i].data) <= Len(sendBuf'[sq'[d][i].s])
  <2> SUFFICES ASSUME NEW d \in Conns, NEW i \in 1 .. Len(sq'[d])
               PROVE  Len(sq'[d][i].data) <= Len(sendBuf'[sq'[d][i].s])
      OBVIOUS
  <2>1. CASE i \in 1 .. Len(sq[d]) /\ sq'[d][i] = sq[d][i]
    <3>1. /\ sq[d][i].s \in Slots /\ Len(sq[d][i].data) \in Nat
          /\ Len(sq[d][i].data) <= Len(sendBuf[sq[d][i].s])
        BY <2>1, SendsType DEF Shape
    <3> QED BY <2>1, <3>1, <1>9
  <2>2. CASE sq'[d][i] = op
      BY <2>2, <1>8, <1>9
  <2> QED BY <2>1, <2>2, <1>10
<1>14. \A v \in Workers : pc'[v] \in {"send", "recv", "hang", "clear"} => Busy(v)
    BY <1>1 DEF TypeOK, Busy
<1>15. \A v \in Workers : pc'[v] = "send" => pc[v] = "send"
    BY <1>1 DEF TypeOK
<1> QED
    BY <1>2, <1>12, <1>13, <1>14, <1>15 DEF Shape, Busy

\* The other steps of the server touch neither buffers nor sends nor the port.
LEMMA OtherType ==
    ASSUME TypeOK, Shape,
           \/ \E w \in Workers : BindRecv(w) \/ HangUp(w) \/ ClearSlot(w) \/ WorkerExit(w)
           \/ Accepter \/ Owner
    PROVE  TypeOK' /\ Shape'
<1>1. CASE \E w \in Workers : BindRecv(w) \/ HangUp(w) \/ ClearSlot(w) \/ WorkerExit(w)
  <2>0. PICK w \in Workers : BindRecv(w) \/ HangUp(w) \/ ClearSlot(w) \/ WorkerExit(w)
      BY <1>1
  <2>1. UNCHANGED <<sent, peer, out, read, sq, recvBuf, sendBuf, port, acc, cnt, ctl>>
      BY <2>0 DEF BindRecv, HangUp, ClearSlot, WorkerExit, clientVars, kernelVars, slotVars, ownerVars
  <2>2. /\ pc' \in [Workers -> {"run", "send", "recv", "hang", "clear", "exit"}]
        /\ pkt' \in [Workers -> [s : Slots, n : Nat] \cup {NoPkt}]
        /\ \A v \in Workers : Busy(v)' => Busy(v) /\ pkt'[v] = pkt[v]
        /\ \A v \in Workers : pc'[v] = "send" => pc[v] = "send"
      BY <2>0 DEF BindRecv, HangUp, ClearSlot, WorkerExit, TypeOK, Busy
  <2>3. rq' \in [Conns -> Seq(Slots)]
    <3>1. CASE BindRecv(w)
      <4>1. pkt[w].s \in Slots
          BY <3>1 DEF BindRecv, Shape, Busy
      <4>2. slot[pkt[w].s] \in Conns \cup {NoConn}
          BY <4>1 DEF TypeOK
      <4> QED BY <3>1, <4>1, <4>2 DEF BindRecv, TypeOK, Usable
    <3>2. CASE HangUp(w) \/ ClearSlot(w) \/ WorkerExit(w)
        BY <3>2 DEF HangUp, ClearSlot, WorkerExit, kernelVars, TypeOK
    <3> QED BY <2>0, <3>1, <3>2
  <2>4. sock' \in [Conns -> {"none", "open", "closed"}] /\ slot' \in [Slots -> Conns \cup {NoConn}]
      BY <2>0 DEF BindRecv, HangUp, ClearSlot, WorkerExit, slotVars, TypeOK
  <2>5. TypeOK'
      BY <2>1, <2>2, <2>3, <2>4 DEF TypeOK
  <2> QED
      BY <2>1, <2>2, <2>5 DEF Shape, Busy
<1>2. CASE Accepter
  <2>1. UNCHANGED <<sent, peer, out, read, sq, recvBuf, sendBuf, port, pc, pkt, ctl>>
      BY <1>2 DEF Accepter, FindSlot, AcceptFails, PostFirst, Accept, clientVars, kernelVars, slotVars,
                  workerVars
  <2>2. acc' \in [pc : {"find", "wait", "post", "exit"}, s : Slots \cup {0}]
        /\ (acc'.pc \in {"wait", "post"} => acc'.s \in Slots)
    <3>1. CASE FindSlot
      <4>1. CASE Listening /\ Empty # {} /\ acc' = [pc |-> "wait", s |-> CHOOSE s \in Empty : \A t \in Empty : s <= t]
        <5>1. acc'.s \in Slots
          <6>1. \E s \in Empty : \A t \in Empty : s <= t
            <7>1. Empty \subseteq Nat
                BY IocpPortAssumption DEF Empty, Slots
            <7> QED BY <4>1, <7>1, Least
          <6> QED BY <4>1, <6>1 DEF Empty
        <5> QED BY <4>1, <5>1
      <4>2. CASE acc' = [pc |-> "exit", s |-> 0]
          BY <4>2
      <4> QED BY <3>1, <4>1, <4>2 DEF FindSlot
    <3>2. CASE AcceptFails \/ PostFirst
        BY <3>2 DEF AcceptFails, PostFirst
    <3>3. CASE \E c \in Conns : Accept(c)
        BY <3>3 DEF Accept, TypeOK, Shape
    <3> QED BY <1>2, <3>1, <3>2, <3>3 DEF Accepter
  <2>3. rq' \in [Conns -> Seq(Slots)] /\ cnt' \in Nat
    <3>1. CASE PostFirst
      <4>1. acc.s \in Slots
          BY <3>1 DEF PostFirst, Shape
      <4>2. slot[acc.s] \in Conns \cup {NoConn}
          BY <4>1 DEF TypeOK
      <4>3. rq \in [Conns -> Seq(Slots)] /\ cnt \in Nat
          BY DEF TypeOK
      <4>4. \/ slot[acc.s] \in Conns /\ rq' = [rq EXCEPT ![slot[acc.s]] = Append(@, acc.s)] /\ cnt' = cnt + 1
            \/ rq' = rq /\ cnt' = cnt
          BY <3>1, <4>2 DEF PostFirst, Usable
      <4>5. \A c \in Conns : Append(rq[c], acc.s) \in Seq(Slots)
          BY <4>1, <4>3
      <4>6. CASE rq' = rq /\ cnt' = cnt
          BY <4>3, <4>6
      <4>7. CASE slot[acc.s] \in Conns /\ rq' = [rq EXCEPT ![slot[acc.s]] = Append(@, acc.s)] /\ cnt' = cnt + 1
        <5> DEFINE q == Append(rq[slot[acc.s]], acc.s)
        <5>1. q \in Seq(Slots) /\ rq' = [rq EXCEPT ![slot[acc.s]] = q]
            BY <4>5, <4>7
        <5> HIDE DEF q
        <5> QED BY <4>3, <4>7, <5>1
      <4> QED BY <4>4, <4>6, <4>7
    <3>2. CASE FindSlot \/ AcceptFails \/ \E c \in Conns : Accept(c)
        BY <3>2 DEF FindSlot, AcceptFails, Accept, kernelVars, TypeOK
    <3> QED BY <1>2, <3>1, <3>2 DEF Accepter
  <2>4. sock' \in [Conns -> {"none", "open", "closed"}] /\ slot' \in [Slots -> Conns \cup {NoConn}]
    <3>1. CASE \E c \in Conns : Accept(c)
        BY <3>1 DEF Accept, TypeOK, Shape
    <3>2. CASE FindSlot \/ AcceptFails \/ PostFirst
        BY <3>2 DEF FindSlot, AcceptFails, PostFirst, slotVars, TypeOK
    <3> QED BY <1>2, <3>1, <3>2 DEF Accepter
  <2>5. TypeOK'
      BY <2>1, <2>2, <2>3, <2>4 DEF TypeOK
  <2> QED
      BY <2>1, <2>2, <2>5 DEF Shape, Busy
<1>3. CASE Owner
  <2>1. UNCHANGED <<clientVars, kernelVars, sock, slotVars, port, workerVars, acc, cnt>>
        /\ ctl' \in {"up", "joinWorkers", "joinAccepter", "done"}
      BY <1>3 DEF Owner, StopWorkers, StopAccepter, Destroyed
  <2> QED
      BY <2>1 DEF clientVars, kernelVars, slotVars, workerVars, TypeOK, Shape, Busy
<1> QED
    BY <1>1, <1>2, <1>3

LEMMA TypeStep == TypeOK /\ Shape /\ [Next]_vars => TypeOK' /\ Shape'
<1> SUFFICES ASSUME TypeOK, Shape, [Next]_vars PROVE TypeOK' /\ Shape'
    OBVIOUS
<1>1. CASE \E c \in Conns : Client(c) \/ Kernel(c)
    BY <1>1, ClientType, RecvDataType, RecvEndType, SendDoneType, SendAbortType DEF Kernel
<1>2. CASE \E w \in Workers : Work(w)
    BY <1>2, DequeueType, SendMsgType, OtherType DEF Work
<1>3. CASE Accepter \/ Owner
    BY <1>3, OtherType
<1>4. CASE UNCHANGED vars
    BY <1>4 DEF vars, clientVars, kernelVars, slotVars, workerVars, ownerVars, TypeOK, Shape, Busy
<1> QED
    BY <1>1, <1>2, <1>3, <1>4 DEF Next

\* The types are right, whatever clients, kernel and threads do, and a
\* completion never counts more bytes than its buffer holds.
THEOREM TypeCorrect == Spec => [](TypeOK /\ Shape)
<1>1. Init => TypeOK /\ Shape
    BY InitType
<1> QED
    BY <1>1, TypeStep, PTL DEF Spec

-----------------------------------------------------------------------------
(* What the holder of a slot's token knows stays true while others work. *)

\* Slot t and its connection are as they were.
Kept(t) ==
    /\ slot'[t] = slot[t]
    /\ slot[t] \in Conns =>
          LET c == slot[t]
          IN  /\ sock'[c] = sock[c] /\ RowEnd(c)' = RowEnd(c) /\ read'[c] = read[c]
              /\ recvBuf'[t] = recvBuf[t]
              /\ peer[c] = "fin" => peer'[c] = "fin" /\ sent'[c] = sent[c]

LEMMA KeptKnows ==
    ASSUME NEW t, Kept(t)
    PROVE  /\ Caught(t) => Caught(t)'
           /\ Over(t) => Over(t)'
           /\ \A n : Full(t, n) => Full(t, n)'
           /\ slot[t] \in Conns /\ sock[slot[t]] = "closed" =>
                 slot'[t] \in Conns /\ sock'[slot'[t]] = "closed"
<1>1. CASE slot[t] \in Conns
  <2> DEFINE c == slot[t]
  <2>1. /\ slot'[t] = c /\ sock'[c] = sock[c] /\ RowEnd(c)' = RowEnd(c) /\ read'[c] = read[c]
        /\ recvBuf'[t] = recvBuf[t]
        /\ peer[c] = "fin" => peer'[c] = "fin" /\ sent'[c] = sent[c]
        /\ slot'[t] \in Conns
      BY <1>1 DEF Kept
  <2>2. Stands(t)' = Stands(t)
      BY <2>1, <1>1 DEF Stands
  <2>3. RowEnd(slot[t])' = RowEnd(slot[t])
      BY <2>1 DEF RowEnd, Hi, Lo
  <2>4. Caught(t) => Caught(t)'
      BY <2>1, <2>2, <2>3 DEF Caught
  <2>5. Over(t) => Over(t)'
      BY <2>1, <2>4 DEF Over
  <2>6. ASSUME NEW n, Full(t, n) PROVE Full(t, n)'
      BY <2>1, <2>2, <2>3, <2>6 DEF Full
  <2> QED BY <1>1, <2>1, <2>4, <2>5, <2>6
<1>2. CASE slot[t] \notin Conns
    BY <1>2 DEF Caught, Over, Full, Stands
<1> QED
    BY <1>1, <1>2

LEMMA RowType ==
    ASSUME TypeOK, NEW c \in Conns, Row(c)
    PROVE  /\ Len(out[c]) \in Nat /\ read[c] \in Nat /\ sent[c] \in Nat /\ Len(sq[c]) \in Nat
           /\ \A i \in 1 .. Len(sq[c]) :
                 Lo(c, i) \in Int /\ Hi(c, i) \in Int /\ Len(sq[c][i].data) \in Nat
           /\ RowEnd(c) \in Int
<1>1. Len(out[c]) \in Nat /\ read[c] \in Nat /\ sent[c] \in Nat /\ out[c] \in Seq(Byte)
    BY IocpPortAssumption DEF TypeOK
<1>2. \A i \in 1 .. Len(sq[c]) : Lo(c, i) \in Int /\ Hi(c, i) \in Int /\ Len(sq[c][i].data) \in Nat
  <2> SUFFICES ASSUME NEW i \in 1 .. Len(sq[c])
               PROVE  Lo(c, i) \in Int /\ Hi(c, i) \in Int /\ Len(sq[c][i].data) \in Nat
      OBVIOUS
  <2>1. sq[c][i].data \in Seq(Byte) /\ Len(sq[c][i].data) \in Nat
      BY SendsType
  <2>2. Len(sq[c][i].data) > 0
      BY DEF Row
  <2>3. sq[c][i].data[1] \in Byte
      BY <2>1, <2>2
  <2>4. sq[c][i].data[1][2] \in Nat
      BY <2>3, IocpPortAssumption DEF Byte
  <2> QED BY <2>1, <2>4 DEF Lo, Hi
<1>3. Len(sq[c]) \in Nat /\ (sq[c] # <<>> => Len(sq[c]) \in 1 .. Len(sq[c]))
  <2>1. sq[c] \in Seq(SendOp)
      BY SendsType
  <2> QED BY <2>1
<1> QED
    BY <1>1, <1>2, <1>3 DEF RowEnd

\* Nothing is delivered, or given away, of a connection that is left alone.
LEMMA RowKept ==
    ASSUME TypeOK, NEW c \in Conns, Row(c), sq'[c] = sq[c], out'[c] = out[c],
           read'[c] \in Nat, read[c] <= read'[c],
           \A s \in Slots : slot[s] = c => slot'[s] = c
    PROVE  Row(c)' /\ RowEnd(c)' = RowEnd(c)
<1>1. RowEnd(c)' = RowEnd(c)
    BY DEF RowEnd, Hi, Lo
<1>2. ASSUME NEW i \in 1 .. Len(sq[c])
      PROVE  /\ slot'[sq[c][i].s] = c /\ Len(sq[c][i].data) > 0
             /\ \A k \in 1 .. Len(sq[c][i].data) : sq[c][i].data[k] = <<c, Lo(c, i) + k>>
             /\ Lo(c, i) = IF i = 1 THEN Len(out[c]) ELSE Hi(c, i - 1)
             /\ Hi(c, i) <= read'[c]
  <2>1. Hi(c, i) \in Int /\ read[c] \in Nat
      BY RowType
  <2>2. sq[c][i].s \in Slots
      BY SendsType
  <2> QED BY <2>1, <2>2 DEF Row
<1>3. \A i : Lo(c, i)' = Lo(c, i) /\ Hi(c, i)' = Hi(c, i)
    BY DEF Lo, Hi
<1>4. Row(c)'
    BY <1>2, <1>3 DEF Row
<1> QED
    BY <1>1, <1>4

\* The slot of a token holds a connection.
LEMMA Holders ==
    ASSUME Polite, NEW s \in Slots, Armed(s) \/ Queued(s) \/ Served(s) \/ Posting(s)
    PROVE  slot[s] \in Conns
<1>0. Knows(s)
    BY DEF Polite, Known
<1>1. Caught(s) \/ Over(s) \/ (\E n \in Nat : Full(s, n)) \/ slot[s] \in Conns
    BY <1>0 DEF Knows, Armed, Queued, Served
<1> QED
    BY <1>1 DEF Over, Caught, Full, Stands

\* A connection whose slot is not armed has no pending receive.
LEMMA Unarmed ==
    ASSUME TypeOK, Polite, NEW s \in Slots, slot[s] \in Conns, ~ Armed(s)
    PROVE  rq[slot[s]] = <<>>
<1> SUFFICES ASSUME rq[slot[s]] # <<>> PROVE FALSE
    OBVIOUS
<1>1. rq[slot[s]] \in Seq(Slots)
    BY DEF TypeOK
<1>2. rq[slot[s]][1] \in Slots
    BY <1>1
<1>3. slot[rq[slot[s]][1]] = slot[s]
    BY <1>2 DEF Polite, Known, Knows, ArmedOn
<1>4. rq[slot[s]][1] = s
    BY <1>2, <1>3, IocpPortAssumption DEF Polite, Lives
<1> QED
    BY <1>4 DEF Armed, ArmedOn

\* Slot t has no token it did not have, and is not about to be given one.
Same(t) ==
    /\ \A c \in Conns : ArmedOn(t, c)' => ArmedOn(t, c)
    /\ \A n \in Nat : /\ Arrived(t, n)' => Arrived(t, n)
                      /\ \A at \in {"send", "recv", "hang", "clear"} : At(t, n, at)' => At(t, n, at)
    /\ Posting(t)' => Posting(t)
    /\ acc'.pc = "wait" /\ acc'.s = t => acc.pc = "wait" /\ acc.s = t

LEMMA SameKnows ==
    ASSUME NEW t \in Slots, Kept(t), Same(t), Knows(t), Exclusive(t)
    PROVE  Knows(t)' /\ Exclusive(t)'
<1>1. /\ Caught(t) => Caught(t)'
      /\ Over(t) => Over(t)'
      /\ \A n : Full(t, n) => Full(t, n)'
      /\ slot[t] \in Conns /\ sock[slot[t]] = "closed" =>
            slot'[t] \in Conns /\ sock'[slot'[t]] = "closed"
      /\ slot'[t] = slot[t]
    BY KeptKnows DEF Kept
<1>2. Knows(t)'
    BY <1>1 DEF Knows, Same
<1>3. /\ Armed(t)' => Armed(t)
      /\ Queued(t)' => Queued(t)
      /\ Served(t)' => Served(t)
      /\ Posting(t)' => Posting(t)
    BY DEF Same, Armed, Queued, Served
<1> QED
    BY <1>2, <1>3 DEF Exclusive

LEMMA InitPolite == Init => Polite
<1> SUFFICES ASSUME Init PROVE Polite
    OBVIOUS
<1>1. \A t \in Slots : ~Armed(t) /\ ~Queued(t) /\ ~Served(t) /\ ~Posting(t) /\ acc.pc # "wait"
    BY DEF Init, Armed, ArmedOn, Queued, Arrived, Served, At, Posting
<1>2. OneToken
    BY <1>1 DEF Init, OneToken, Exclusive, Busy
<1>3. Known
    BY <1>1 DEF Init, Known, Knows, Armed, Queued, Served
<1>4. Lives
    BY DEF Init, Lives, Row, RowEnd
<1> QED
    BY <1>2, <1>3, <1>4 DEF Polite

LEMMA ClientPolite ==
    ASSUME TypeOK, Shape, Polite, ~ Rude', NEW c \in Conns, Client(c)
    PROVE  Polite'
<1>1. UNCHANGED <<out, read, rq, sq, sock, slot, recvBuf, sendBuf, port, pc, pkt, acc, cnt, ctl>>
    BY DEF Client, Connect, Write, Fin, Reset, ServerState, kernelVars, slotVars, workerVars, ownerVars
<1>2. \A d \in Conns : /\ peer[d] = "fin" => peer'[d] = "fin" /\ sent'[d] = sent[d]
                       /\ peer'[d] = "fin" => Len(out[d]) = sent'[d]
                       /\ sent[d] <= sent'[d]
  <2>0. \A d \in Conns : sent[d] \in Nat
      BY IocpPortAssumption DEF TypeOK
  <2>1. CASE Connect(c)
      BY <2>0, <2>1 DEF Connect, TypeOK, Polite, Lives
  <2>2. CASE Write(c)
      BY <2>0, <2>2 DEF Write, TypeOK, Polite, Lives
  <2>3. CASE Fin(c)
    <3>1. peer'[c] = "fin" /\ Len(out[c]) = sent[c]
        BY <2>3 DEF Fin, TypeOK, Rude
    <3> QED BY <2>0, <2>3, <3>1 DEF Fin, TypeOK, Polite, Lives
  <2>4. CASE Reset(c)
    <3>1. peer'[c] = "rst"
        BY <2>4 DEF Reset, TypeOK
    <3> QED BY <3>1 DEF Rude
  <2> QED BY <2>1, <2>2, <2>3, <2>4 DEF Client
<1>3. \A d \in Conns : RowEnd(d)' = RowEnd(d) /\ Row(d)' = Row(d)
    BY <1>1 DEF RowEnd, Row, Hi, Lo
<1>4. \A t \in Slots : Kept(t)
    BY <1>1, <1>2, <1>3 DEF Kept
<1>5. \A t \in Slots : Same(t)
    BY <1>1 DEF Same, ArmedOn, Arrived, At, Posting
<1>6. \A t \in Slots : Knows(t)' /\ Exclusive(t)'
    BY <1>4, <1>5, SameKnows DEF Polite, Known, OneToken
<1>7. Known' /\ OneToken'
    BY <1>1, <1>6 DEF Polite, Known, OneToken, Busy
<1>8. Lives'
  <2>1. ASSUME NEW d \in Conns
        PROVE  /\ Row(d)' /\ RowEnd(d)' <= read'[d] /\ read'[d] <= sent'[d]
               /\ peer'[d] = "fin" => Len(out'[d]) = sent'[d]
               /\ sock'[d] = "closed" => peer'[d] = "fin"
               /\ sock'[d] = "none" => Len(out'[d]) = 0 /\ sq'[d] = <<>> /\ read'[d] = 0
               /\ sock'[d] # "open" => rq'[d] = <<>>
    <3>1. read[d] \in Nat /\ sent[d] \in Nat /\ sent'[d] \in Nat
      <4>1. TypeOK'
          BY ClientType
      <4> QED BY <4>1, IocpPortAssumption DEF TypeOK
    <3>2. read[d] <= sent[d] /\ sent[d] <= sent'[d]
        BY <1>2 DEF Polite, Lives
    <3>3. read[d] <= sent'[d]
        BY <3>1, <3>2
    <3> QED BY <1>1, <1>2, <1>3, <3>3 DEF Polite, Lives
  <2> QED BY <1>1, <2>1 DEF Polite, Lives
<1> QED
    BY <1>7, <1>8 DEF Polite

\* The token of a slot goes from the kernel to the port.
LEMMA ToPort ==
    ASSUME TypeOK, Polite, NEW c \in Conns, NEW n \in Nat, rq[c] # <<>>,
           rq' = [rq EXCEPT ![c] = Tail(@)],
           port' = Append(port, Packet(Head(rq[c]), "RECV", n, TRUE)),
           UNCHANGED <<slot, pc, pkt, acc>>
    PROVE  /\ Head(rq[c]) \in Slots /\ slot[Head(rq[c])] = c /\ Caught(Head(rq[c]))
           /\ rq'[c] = <<>> /\ \A d \in Conns : d # c => rq'[d] = rq[d]
           /\ \A t \in Slots : t # Head(rq[c]) => slot[t] # c /\ Same(t)
           /\ \A s \in Slots :
                 /\ s = Head(rq[c])
                 /\ IF n = 0 THEN Over(s)' ELSE Full(s, n)'
                 /\ \A t \in Slots : t # s => Kept(t)
                 => Known' /\ OneToken'
<1>1. PICK s \in Slots : s = Head(rq[c])
    BY DEF TypeOK
<1>2. rq[c] \in Seq(Slots) /\ Len(rq[c]) <= 1
    BY DEF TypeOK, Polite, OneToken
<1>3. rq'[c] = <<>> /\ rq[c][1] = s /\ Len(rq'[c]) <= 1
    BY <1>1, <1>2 DEF TypeOK
<1>4. \A d \in Conns : d # c => rq'[d] = rq[d]
    BY DEF TypeOK
<1>5. ArmedOn(s, c) /\ Armed(s)
    BY <1>3 DEF Armed, ArmedOn
<1>6. slot[s] = c /\ Caught(s) /\ Knows(s)
    BY <1>5 DEF Polite, Known, Knows
<1>7. ~Queued(s) /\ ~Served(s) /\ ~Posting(s)
    BY <1>5 DEF Polite, OneToken, Exclusive
<1>8. \A t \in Slots : t # s => slot[t] # c
    BY <1>6, IocpPortAssumption DEF Polite, Lives
<1> DEFINE p == Packet(s, "RECV", n, TRUE)
<1>9. p.s = s /\ p.n = n /\ p.op = "RECV" /\ p.ok
    BY DEF Packet
<1>10. /\ port' \in Seq(Entry) /\ Len(port') = Len(port) + 1
       /\ \A j \in 1 .. Len(port') : \/ j \in 1 .. Len(port) /\ port'[j] = port[j]
                                     \/ j = Len(port) + 1 /\ port'[j] = p
    BY <1>1, PortAppend
<1> HIDE DEF p
<1>11. \A t \in Slots, m \in Nat : Arrived(t, m)' => Arrived(t, m) \/ (t = s /\ m = n)
    BY <1>9, <1>10 DEF Arrived
<1>12. ASSUME NEW t \in Slots
       PROVE  /\ \A m \in Nat, at \in {"send", "recv", "hang", "clear"} : At(t, m, at)' => At(t, m, at)
              /\ Posting(t)' => Posting(t)
              /\ acc'.pc = "wait" /\ acc'.s = t => acc.pc = "wait" /\ acc.s = t
    BY DEF At, Posting
<1>13. \A t \in Slots, d \in Conns : ArmedOn(t, d)' => d # c /\ ArmedOn(t, d)
    BY <1>3, <1>4 DEF ArmedOn
<1>14. \A t \in Slots : t # s => Same(t)
    BY <1>11, <1>12, <1>13 DEF Same
<1>15. ASSUME IF n = 0 THEN Over(s)' ELSE Full(s, n)', \A t \in Slots : t # s => Kept(t)
       PROVE  Known' /\ OneToken'
  <2>1. ~Armed(s)' /\ ~Served(s)' /\ ~Posting(s)'
    <3>1. ~Armed(s)'
        BY <1>6, <1>13 DEF Armed, Knows
    <3>2. ~Served(s)' /\ ~Posting(s)'
        BY <1>7, <1>12 DEF Served
    <3> QED BY <3>1, <3>2
  <2>2. Knows(s)'
    <3>1. \A m \in Nat : Arrived(s, m)' => m = n
        BY <1>7, <1>11 DEF Queued
    <3>2. ~ (acc'.pc = "wait" /\ acc'.s = s)
        BY <1>6, <1>12, IocpPortAssumption DEF Knows
    <3> QED BY <1>15, <2>1, <3>1, <3>2 DEF Knows, Armed, Served
  <2>3. \A t \in Slots : Knows(t)' /\ Exclusive(t)'
    <3>1. Exclusive(s)'
        BY <2>1 DEF Exclusive
    <3> QED BY <1>14, <1>15, <2>2, <3>1, SameKnows DEF Polite, Known, OneToken
  <2>4. \A j \in 1 .. Len(port') : port'[j].ok /\ (port'[j].op = "SEND" => port'[j].n > 0)
      BY <1>9, <1>10 DEF Polite, Known
  <2>5. \A j, k \in 1 .. Len(port') :
           port'[j].op = "RECV" /\ port'[k].op = "RECV" /\ port'[j].s = port'[k].s => j = k
    <3>1. \A j \in 1 .. Len(port) : ~ (port[j].op = "RECV" /\ port[j].s = s)
        BY <1>7, PortType DEF Queued, Arrived
    <3> SUFFICES ASSUME NEW j \in 1 .. Len(port'), NEW k \in 1 .. Len(port'),
                        port'[j].op = "RECV", port'[k].op = "RECV", port'[j].s = port'[k].s
                 PROVE  j = k
        OBVIOUS
    <3>2. CASE j \in 1 .. Len(port) /\ port'[j] = port[j] /\ k \in 1 .. Len(port) /\ port'[k] = port[k]
        BY <3>2 DEF Polite, OneToken
    <3>3. ~ (j \in 1 .. Len(port) /\ port'[j] = port[j] /\ port'[k] = p)
        BY <1>9, <3>1
    <3>4. ~ (k \in 1 .. Len(port) /\ port'[k] = port[k] /\ port'[j] = p)
        BY <1>9, <3>1
    <3>5. \/ j \in 1 .. Len(port) /\ port'[j] = port[j]
          \/ j = Len(port) + 1 /\ port'[j] = p
        BY <1>10
    <3>6. \/ k \in 1 .. Len(port) /\ port'[k] = port[k]
          \/ k = Len(port) + 1 /\ port'[k] = p
        BY <1>10
    <3> QED BY <3>2, <3>3, <3>4, <3>5, <3>6
  <2>6. \A d \in Conns : Len(rq'[d]) <= 1
      BY <1>3, <1>4 DEF Polite, OneToken
  <2> QED BY <2>3, <2>4, <2>5, <2>6 DEF Known, OneToken, Polite, Busy
<1> QED
    BY <1>1, <1>3, <1>4, <1>6, <1>8, <1>14, <1>15

LEMMA RecvDataPolite ==
    ASSUME TypeOK, Shape, Polite, NEW c \in Conns, RecvData(c)
    PROVE  Polite'
<1>1. PICK k \in 1 .. BufSize :
         /\ read[c] + k <= sent[c]
         /\ recvBuf' = [recvBuf EXCEPT ![Head(rq[c])] =
                           Overlay(Stream(c, read[c], read[c] + k), @)]
         /\ port' = Append(port, Packet(Head(rq[c]), "RECV", k, TRUE))
         /\ read' = [read EXCEPT ![c] = @ + k]
    BY DEF RecvData
<1>2. rq[c] # <<>> /\ rq' = [rq EXCEPT ![c] = Tail(@)] /\ sock[c] = "open"
    BY DEF RecvData
<1>3. UNCHANGED <<sent, peer, out, sq, sock, slot, sendBuf, pc, pkt, acc, cnt, ctl>>
    BY DEF RecvData, clientVars, workerVars, ownerVars
<1>4. k \in Nat /\ k > 0
    BY IocpPortAssumption
<1>0. PICK s \in Slots : s = Head(rq[c])
    BY <1>1, <1>2, <1>3, <1>4, ToPort
<1> DEFINE data == Stream(c, read[c], read[c] + k)
<1>5. /\ slot[s] = c /\ Caught(s)
      /\ rq'[c] = <<>> /\ \A d \in Conns : d # c => rq'[d] = rq[d]
      /\ \A t \in Slots : t # s => slot[t] # c
      /\ Full(s, k)' /\ (\A t \in Slots : t # s => Kept(t)) => Known' /\ OneToken'
  <2>1. /\ slot[s] = c /\ Caught(s)
        /\ rq'[c] = <<>> /\ \A d \in Conns : d # c => rq'[d] = rq[d]
        /\ \A t \in Slots : t # s => slot[t] # c
        /\ (IF k = 0 THEN Over(s)' ELSE Full(s, k)') /\ (\A t \in Slots : t # s => Kept(t))
              => Known' /\ OneToken'
    <3>1. UNCHANGED <<slot, pc, pkt, acc>>
        BY <1>3
    <3> QED BY <1>0, <1>1, <1>2, <1>4, <3>1, ToPort
  <2>2. k # 0
      BY <1>4
  <2> QED BY <2>1, <2>2
<1>6. /\ \A d \in Conns : read[d] \in Nat /\ sent[d] \in Nat /\ Row(d)
      /\ \A d \in Conns : RowEnd(d) \in Int /\ RowEnd(d) <= read[d] /\ read[d] <= sent[d]
    BY RowType DEF Polite, Lives
<1>7. read'[c] = read[c] + k /\ \A d \in Conns : d # c => read'[d] = read[d]
    BY <1>1 DEF TypeOK
<1>8. \A d \in Conns : Row(d)' /\ RowEnd(d)' = RowEnd(d)
  <2> SUFFICES ASSUME NEW d \in Conns PROVE Row(d)' /\ RowEnd(d)' = RowEnd(d)
      OBVIOUS
  <2>1. read'[d] \in Nat /\ read[d] <= read'[d]
      BY <1>4, <1>6, <1>7
  <2> QED BY <1>3, <1>6, <2>1, RowKept
<1>9. /\ \A t \in Slots : t # s => recvBuf'[t] = recvBuf[t]
      /\ \A i \in 1 .. k : recvBuf'[s][i] = <<c, read[c] + i>>
  <2>1. data \in Seq(Byte) /\ Len(data) = k /\ \A i \in 1 .. k : data[i] = <<c, read[c] + i>>
    <3>1. read[c] + k \in Nat /\ read[c] <= read[c] + k /\ (read[c] + k) - read[c] = k
        BY <1>4, <1>6
    <3>2. read[c] + k <= MaxBytes
        BY <1>1, <1>6, <3>1, IocpPortAssumption DEF TypeOK
    <3> QED BY <1>6, <3>1, <3>2, StreamType
  <2> HIDE DEF data
  <2>2. recvBuf[s] \in Seq(Byte)
      BY <1>5 DEF TypeOK
  <2>3. \A i \in 1 .. k : Overlay(data, recvBuf[s])[i] = <<c, read[c] + i>>
      BY <2>1, <2>2, OverlayType
  <2>4. recvBuf' = [recvBuf EXCEPT ![s] = Overlay(data, recvBuf[s])]
      BY <1>0, <1>1 DEF data
  <2> QED BY <1>5, <2>3, <2>4 DEF TypeOK
<1>10. Full(s, k)'
  <2>1. RowEnd(c)' = read[c]
      BY <1>5, <1>8 DEF Caught
  <2>2. slot'[s] = c /\ sock'[c] = "open" /\ RowEnd(slot[s])' = read[c]
    <3>1. slot'[s] = c /\ sock'[c] = "open"
        BY <1>2, <1>3, <1>5
    <3> QED BY <2>1, <3>1 DEF RowEnd, Hi, Lo
  <2>3. RowEnd(slot[s])' + k = read'[slot'[s]]
      BY <1>7, <2>2
  <2> QED BY <1>4, <1>9, <2>2, <2>3 DEF Full, Stands
<1>11. ASSUME NEW t \in Slots, t # s PROVE Kept(t)
    BY <1>3, <1>5, <1>7, <1>8, <1>9, <1>11 DEF Kept
<1> HIDE DEF data
<1>12. Known' /\ OneToken'
    BY <1>5, <1>10, <1>11
<1>13. Lives'
  <2>1. ASSUME NEW d \in Conns
        PROVE  RowEnd(d)' <= read'[d] /\ read'[d] <= sent'[d]
      BY <1>1, <1>3, <1>4, <1>6, <1>7, <1>8
  <2>2. ASSUME NEW d \in Conns
        PROVE  /\ peer'[d] = "fin" => Len(out'[d]) = sent'[d]
               /\ sock'[d] = "closed" => peer'[d] = "fin"
               /\ sock'[d] = "none" => Len(out'[d]) = 0 /\ sq'[d] = <<>> /\ read'[d] = 0
               /\ sock'[d] # "open" => rq'[d] = <<>>
      BY <1>2, <1>3, <1>5, <1>7 DEF Polite, Lives
  <2> QED BY <1>3, <1>8, <2>1, <2>2 DEF Polite, Lives
<1> QED
    BY <1>12, <1>13 DEF Polite

LEMMA RecvEndPolite ==
    ASSUME TypeOK, Shape, Polite, ~ Rude', NEW c \in Conns, RecvEnd(c)
    PROVE  Polite'
<1>1. UNCHANGED <<sent, peer, out, read, sq, sock, slot, recvBuf, sendBuf, pc, pkt, acc, cnt, ctl>>
    BY DEF RecvEnd, clientVars, slotVars, workerVars, ownerVars
<1>2. rq[c] # <<>> /\ rq' = [rq EXCEPT ![c] = Tail(@)]
    BY DEF RecvEnd
<1>3. peer[c] \notin {"quit", "rst"} /\ sock[c] # "closed"
    BY <1>1, <1>2 DEF Rude, Polite, Lives
<1>4. /\ peer[c] = "fin" /\ read[c] = sent[c]
      /\ port' = Append(port, Packet(Head(rq[c]), "RECV", 0, TRUE))
    BY <1>3 DEF RecvEnd
<1>0. PICK s \in Slots : s = Head(rq[c])
    BY <1>1, <1>2, <1>4, ToPort
<1>5. /\ slot[s] = c /\ Caught(s)
      /\ rq'[c] = <<>> /\ \A d \in Conns : d # c => rq'[d] = rq[d]
      /\ Over(s)' /\ (\A t \in Slots : t # s => Kept(t)) => Known' /\ OneToken'
    BY <1>0, <1>1, <1>2, <1>4, ToPort
<1>6. \A d \in Conns : RowEnd(d)' = RowEnd(d) /\ Row(d)' = Row(d)
    BY <1>1 DEF RowEnd, Row, Hi, Lo
<1>7. \A t \in Slots : Kept(t)
    BY <1>1, <1>6 DEF Kept
<1>8. Over(s)'
  <2>1. Over(s)
      BY <1>4, <1>5 DEF Over
  <2> QED BY <1>5, <1>7, <2>1, KeptKnows
<1>9. Lives'
    BY <1>1, <1>5, <1>6 DEF Polite, Lives
<1> QED
    BY <1>5, <1>7, <1>8, <1>9 DEF Polite

\* What is pending stays in a row when the first send completes.
LEMMA RowDone ==
    ASSUME TypeOK, NEW c \in Conns, Row(c), sq[c] # <<>>, sq'[c] = Tail(sq[c]),
           Len(out'[c]) = Len(out[c]) + Len(sq[c][1].data), UNCHANGED <<slot, read>>
    PROVE  Row(c)' /\ RowEnd(c)' = RowEnd(c)
<1>1. /\ Len(out[c]) \in Nat /\ Len(sq[c]) \in Nat
      /\ \A i \in 1 .. Len(sq[c]) :
            Lo(c, i) \in Int /\ Hi(c, i) \in Int /\ Len(sq[c][i].data) \in Nat
    BY RowType
<1>2. /\ 1 \in 1 .. Len(sq[c]) /\ Len(sq'[c]) = Len(sq[c]) - 1
      /\ \A i \in 1 .. Len(sq'[c]) : sq'[c][i] = sq[c][i + 1] /\ i + 1 \in 1 .. Len(sq[c])
    BY FirstSend
<1>3. \A i \in 1 .. Len(sq'[c]) : Lo(c, i)' = Lo(c, i + 1) /\ Hi(c, i)' = Hi(c, i + 1)
    BY <1>2 DEF Lo, Hi
<1>4. Lo(c, 1) = Len(out[c]) /\ Hi(c, 1) = Len(out'[c])
    BY <1>1, <1>2 DEF Row, Hi
<1>5. ASSUME NEW i \in 1 .. Len(sq'[c])
      PROVE  Lo(c, i)' = IF i = 1 THEN Len(out'[c]) ELSE Hi(c, i - 1)'
  <2>1. i + 1 \in 1 .. Len(sq[c]) /\ i + 1 # 1 /\ (i + 1) - 1 = i
      BY <1>2
  <2>2. Lo(c, i)' = Hi(c, i)
    <3>1. Lo(c, i + 1) = IF i + 1 = 1 THEN Len(out[c]) ELSE Hi(c, (i + 1) - 1)
        BY <2>1 DEF Row
    <3> QED BY <1>3, <2>1, <3>1
  <2>3. CASE i = 1
      BY <1>4, <2>2, <2>3
  <2>4. CASE i # 1
    <3>1. i - 1 \in 1 .. Len(sq'[c]) /\ (i - 1) + 1 = i
        BY <1>2, <2>4
    <3>2. Hi(c, i - 1)' = Hi(c, i)
        BY <1>3, <3>1
    <3> QED BY <2>2, <2>4, <3>2
  <2> QED BY <2>3, <2>4
<1>6. ASSUME NEW i \in 1 .. Len(sq'[c])
      PROVE  /\ slot'[sq'[c][i].s] = c /\ Len(sq'[c][i].data) > 0
             /\ \A k \in 1 .. Len(sq'[c][i].data) : sq'[c][i].data[k] = <<c, Lo(c, i)' + k>>
             /\ Hi(c, i)' <= read'[c]
    BY <1>2, <1>3 DEF Row
<1>7. Row(c)'
    BY <1>5, <1>6 DEF Row
<1>8. RowEnd(c)' = RowEnd(c)
  <2>1. sq[c] \in Seq(SendOp) /\ sq'[c] \in Seq(SendOp)
      BY FirstSend, SendsType
  <2>2. CASE Len(sq[c]) = 1
    <3>1. sq'[c] = <<>>
        BY <1>2, <2>1, <2>2
    <3> QED BY <1>4, <2>2, <3>1 DEF RowEnd
  <2>3. CASE Len(sq[c]) # 1
    <3>1. PICK m \in Nat : m = Len(sq'[c])
        BY <2>1
    <3>2. m \in 1 .. Len(sq'[c]) /\ m + 1 = Len(sq[c])
      <4>1. PICK n \in Nat : n = Len(sq[c])
          BY <1>1
      <4>2. m = n - 1 /\ 1 \in 1 .. n /\ n # 1
          BY <1>2, <2>3, <3>1, <4>1
      <4>3. m + 1 = n /\ m \in 1 .. m
          BY <4>2
      <4> QED BY <3>1, <4>1, <4>3, Zenon
    <3>3. Hi(c, m)' = Hi(c, m + 1)
        BY <1>3, <3>2
    <3>4. RowEnd(c) = Hi(c, m + 1)
        BY <3>2 DEF RowEnd
    <3>5. RowEnd(c)' = Hi(c, m)'
      <4>1. sq'[c] # <<>>
        <5>1. Len(sq'[c]) # 0
          <6>1. m # 0
              BY <3>2
          <6> QED BY <3>1, <6>1, Zenon
        <5> QED BY <2>1, <5>1, EmptySeq
      <4> QED BY <3>1, <4>1 DEF RowEnd, Hi, Lo
    <3> QED BY <3>3, <3>4, <3>5
  <2> QED BY <2>2, <2>3
<1> QED
    BY <1>7, <1>8

\* There is nothing to send to a client that has left with all its echo.
LEMMA NothingPending ==
    ASSUME TypeOK, Polite, NEW c \in Conns, sq[c] # <<>>
    PROVE  Len(out[c]) < sent[c] /\ peer[c] # "fin" /\ sock[c] = "open"
<1>1. 1 \in 1 .. Len(sq[c])
    BY FirstSend
<1>2. /\ Len(sq[c][1].data) > 0 /\ Lo(c, 1) = Len(out[c]) /\ Hi(c, 1) <= read[c]
      /\ read[c] <= sent[c] /\ Row(c)
    BY <1>1 DEF Polite, Lives, Row
<1>3. /\ Len(out[c]) \in Nat /\ read[c] \in Nat /\ sent[c] \in Nat
      /\ Len(sq[c][1].data) \in Nat
    BY <1>1, <1>2, RowType
<1>4. Len(out[c]) < sent[c]
    BY <1>2, <1>3 DEF Hi
<1>5. peer[c] # "fin"
    BY <1>3, <1>4 DEF Polite, Lives
<1> QED
    BY <1>4, <1>5 DEF Polite, Lives, TypeOK

\* No token moves when a send completes.
LEMMA SendDonePolite ==
    ASSUME TypeOK, Shape, Polite, NEW c \in Conns, SendDone(c)
    PROVE  Polite'
<1> DEFINE op == Head(sq[c])
           now == SubSeq(sendBuf[op.s], 1, Len(op.data))
<1>1. PICK data \in {op.data, now} :
         /\ out' = [out EXCEPT ![c] = @ \o data]
         /\ port' = Append(port, Packet(op.s, "SEND", Len(op.data), TRUE))
    BY DEF SendDone
<1>2. sq[c] # <<>> /\ sq' = [sq EXCEPT ![c] = Tail(@)]
    BY DEF SendDone
<1>3. UNCHANGED <<sent, peer, read, rq, sock, slot, recvBuf, sendBuf, pc, pkt, acc, cnt, ctl>>
    BY DEF SendDone, clientVars, slotVars, workerVars, ownerVars
<1>4. op = sq[c][1] /\ 1 \in 1 .. Len(sq[c])
      /\ op.s \in Slots /\ op.data \in Seq(Byte) /\ Len(op.data) \in Nat
    BY <1>2, SendsType, FirstSend
<1>5. Len(op.data) > 0
    BY <1>4 DEF Polite, Lives, Row
<1>6. data \in Seq(Byte) /\ Len(data) = Len(op.data)
  <2>1. sendBuf[op.s] \in Seq(Byte) /\ Len(op.data) <= Len(sendBuf[op.s])
      BY <1>4 DEF TypeOK, Shape
  <2>2. now \in Seq(Byte) /\ Len(now) = Len(op.data)
    <3> HIDE DEF op
    <3> QED BY <1>4, <2>1, PrefixType
  <2> QED BY <1>1, <1>4, <2>2
<1> HIDE DEF op, now
<1>7. /\ Len(out'[c]) = Len(out[c]) + Len(sq[c][1].data)
      /\ \A d \in Conns : d # c => out'[d] = out[d] /\ sq'[d] = sq[d]
      /\ sq'[c] = Tail(sq[c])
  <2>1. out[c] \in Seq(Byte) /\ out'[c] = out[c] \o data
      BY <1>1 DEF TypeOK
  <2>2. Len(out[c] \o data) = Len(out[c]) + Len(data)
      BY <1>6, <2>1, ConcatProperties
  <2> QED BY <1>1, <1>2, <1>4, <1>6, <2>1, <2>2 DEF TypeOK
<1>8. \A d \in Conns : Row(d)' /\ RowEnd(d)' = RowEnd(d)
  <2> SUFFICES ASSUME NEW d \in Conns PROVE Row(d)' /\ RowEnd(d)' = RowEnd(d)
      OBVIOUS
  <2>1. Row(d)
      BY DEF Polite, Lives
  <2>2. CASE d = c
      BY <1>2, <1>3, <1>7, <2>1, <2>2, RowDone
  <2>3. CASE d # c
    <3>1. read'[d] \in Nat /\ read[d] <= read'[d]
        BY <1>3, <2>1, RowType
    <3> QED BY <1>3, <1>7, <2>1, <2>3, <3>1, RowKept
  <2> QED BY <2>2, <2>3
<1>9. \A t \in Slots : Kept(t)
    BY <1>3, <1>8 DEF Kept
<1> DEFINE p == Packet(op.s, "SEND", Len(op.data), TRUE)
<1>10. p.op = "SEND" /\ p.ok /\ p.n > 0
    BY <1>5 DEF Packet
<1>11. \A j \in 1 .. Len(port') : \/ j \in 1 .. Len(port) /\ port'[j] = port[j]
                                  \/ j = Len(port) + 1 /\ port'[j] = p
    BY <1>1, <1>4, PortAppend
<1> HIDE DEF p
<1>12. \A t \in Slots : Same(t)
  <2>1. \A t \in Slots, m \in Nat : Arrived(t, m)' => Arrived(t, m)
      BY <1>10, <1>11 DEF Arrived
  <2> QED BY <1>3, <2>1 DEF Same, ArmedOn, At, Posting
<1>13. \A t \in Slots : Knows(t)' /\ Exclusive(t)'
    BY <1>9, <1>12, SameKnows DEF Polite, Known, OneToken
<1>14. \A j \in 1 .. Len(port') : port'[j].ok /\ (port'[j].op = "SEND" => port'[j].n > 0)
    BY <1>10, <1>11 DEF Polite, Known
<1>15. \A j, k \in 1 .. Len(port') :
          port'[j].op = "RECV" /\ port'[k].op = "RECV" /\ port'[j].s = port'[k].s => j = k
  <2>1. \A j \in 1 .. Len(port') :
           port'[j].op = "RECV" => j \in 1 .. Len(port) /\ port'[j] = port[j]
      BY <1>10, <1>11
  <2> QED BY <2>1 DEF Polite, OneToken
<1>16. Known' /\ OneToken'
    BY <1>3, <1>13, <1>14, <1>15 DEF Polite, Known, OneToken, Busy
<1>17. Lives'
  <2>1. ASSUME NEW d \in Conns
        PROVE  /\ RowEnd(d)' <= read'[d] /\ read'[d] <= sent'[d]
               /\ peer'[d] = "fin" => Len(out'[d]) = sent'[d]
               /\ sock'[d] = "none" => Len(out'[d]) = 0 /\ sq'[d] = <<>> /\ read'[d] = 0
    <3>1. d = c => peer[d] # "fin" /\ sock[d] = "open"
        BY <1>2, NothingPending
    <3> QED BY <1>3, <1>7, <1>8, <3>1 DEF Polite, Lives
  <2> QED BY <1>3, <1>8, <2>1 DEF Polite, Lives
<1> QED
    BY <1>16, <1>17 DEF Polite

\* While the clients are polite no send is broken off.
LEMMA NoAbort ==
    ASSUME TypeOK, Polite, ~ Rude, NEW c \in Conns, SendAbort(c)
    PROVE  FALSE
<1>1. sq[c] # <<>> /\ (peer[c] = "rst" \/ sock[c] = "closed")
    BY DEF SendAbort
<1>2. sock[c] = "open"
    BY <1>1, NothingPending
<1> QED
    BY <1>1, <1>2 DEF Rude

\* A worker that has a completion has the token of its slot.
LEMMA WorkerHolds ==
    ASSUME TypeOK, Shape, Polite, NEW w \in Workers, Busy(w), NEW s, s = pkt[w].s
    PROVE  /\ s \in Slots /\ pkt[w].n \in Nat /\ slot[s] \in Conns
           /\ At(s, pkt[w].n, pc[w]) /\ Knows(s)
           /\ ~Armed(s) /\ ~Queued(s) /\ ~Posting(s) /\ rq[slot[s]] = <<>>
           /\ \A t \in Slots : t # s => slot[t] # slot[s]
<1>1. s \in Slots /\ pkt[w].n \in Nat
    BY DEF Shape
<1>2. At(s, pkt[w].n, pc[w])
    BY DEF At
<1>3. Served(s)
    BY <1>1, <1>2 DEF Served, Busy
<1>4. slot[s] \in Conns
    BY <1>1, <1>3, Holders
<1>5. ~Armed(s) /\ ~Queued(s) /\ ~Posting(s) /\ Knows(s)
    BY <1>1, <1>3 DEF Polite, OneToken, Exclusive, Known
<1>6. \A t \in Slots : t # s => slot[t] # slot[s]
    BY <1>1, <1>4, IocpPortAssumption DEF Polite, Lives
<1> QED
    BY <1>1, <1>2, <1>4, <1>5, <1>6, Unarmed

\* It goes on with it, gives it back to the kernel, or gives it up.
LEMMA WorkerGoes ==
    ASSUME TypeOK, Shape, Polite, NEW w \in Workers, Busy(w), NEW s, s = pkt[w].s,
           NEW next \in {"recv", "clear", "run"},
           pc' = [pc EXCEPT ![w] = next],
           pkt' = IF next = "run" THEN [pkt EXCEPT ![w] = NoPkt] ELSE pkt,
           UNCHANGED <<port, acc>>,
           \A t \in Slots : t # s => Kept(t),
           next = "recv" => Caught(s)',
           next = "clear" => slot'[s] \in Conns /\ sock'[slot'[s]] = "closed",
           \/ rq' = rq
           \/ /\ next = "run" /\ slot'[s] = slot[s] /\ Caught(s)'
              /\ rq' = [rq EXCEPT ![slot[s]] = Append(@, s)]
    PROVE  Known' /\ OneToken'
<1>1. /\ s \in Slots /\ pkt[w].n \in Nat /\ slot[s] \in Conns /\ Knows(s)
      /\ ~Armed(s) /\ ~Queued(s) /\ ~Posting(s) /\ rq[slot[s]] = <<>>
      /\ \A t \in Slots : t # s => slot[t] # slot[s]
    BY WorkerHolds
<1>2. /\ pc'[w] = next
      /\ \A v \in Workers : v # w => pc'[v] = pc[v] /\ pkt'[v] = pkt[v]
      /\ next # "run" => pkt'[w] = pkt[w]
    BY DEF TypeOK
<1>3. \A v \in Workers : v # w /\ Busy(v) => pkt[v].s # s
    BY DEF Polite, OneToken
<1>4. \A v \in Workers : Busy(v)' => Busy(v) /\ pkt'[v] = pkt[v]
    BY <1>2 DEF Busy
<1>5. ASSUME NEW t \in Slots, NEW m \in Nat, NEW at \in {"send", "recv", "hang", "clear"}, At(t, m, at)'
      PROVE  IF t = s THEN at = next /\ next # "run" ELSE At(t, m, at)
  <2>1. PICK v \in Workers : pc'[v] = at /\ pkt'[v].s = t /\ pkt'[v].n = m
      BY <1>5 DEF At
  <2>2. Busy(v)' /\ Busy(v) /\ pkt'[v] = pkt[v]
      BY <1>4, <2>1 DEF Busy
  <2>3. CASE v = w
      BY <1>2, <2>1, <2>2, <2>3 DEF Busy
  <2>4. CASE v # w
    <3>1. t # s /\ pc[v] = at
        BY <1>2, <1>3, <2>1, <2>2, <2>4
    <3> QED BY <2>1, <2>2, <3>1 DEF At
  <2> QED BY <2>3, <2>4
<1>6. \A t \in Slots : Posting(t)' = Posting(t) /\ \A m \in Nat : Arrived(t, m)' = Arrived(t, m)
    BY DEF Posting, Arrived
<1>7. /\ \A d \in Conns : Len(rq'[d]) <= 1
      /\ \A t \in Slots, d \in Conns : ArmedOn(t, d)' =>
            \/ ArmedOn(t, d)
            \/ t = s /\ d = slot[s] /\ next = "run" /\ slot'[s] = slot[s] /\ Caught(s)'
  <2>1. CASE rq' = rq
      BY <2>1 DEF Polite, OneToken, ArmedOn
  <2>2. CASE /\ next = "run" /\ slot'[s] = slot[s] /\ Caught(s)'
             /\ rq' = [rq EXCEPT ![slot[s]] = Append(@, s)]
    <3>1. rq'[slot[s]] = <<s>> /\ \A d \in Conns : d # slot[s] => rq'[d] = rq[d]
        BY <1>1, <2>2 DEF TypeOK
    <3>2. Len(<<s>>) = 1 /\ <<s>>[1] = s
        OBVIOUS
    <3> QED BY <2>2, <3>1, <3>2 DEF Polite, OneToken, ArmedOn
  <2> QED BY <2>1, <2>2
<1>8. \A t \in Slots : t # s => Same(t)
    BY <1>5, <1>6, <1>7 DEF Same
<1>9. Knows(s)' /\ Exclusive(s)'
  <2>1. ~Queued(s)' /\ ~Posting(s)' /\ \A m \in Nat : ~Arrived(s, m)'
      BY <1>1, <1>6 DEF Queued
  <2>2. \A d \in Conns : ArmedOn(s, d)' =>
           d = slot[s] /\ next = "run" /\ slot'[s] = slot[s] /\ Caught(s)'
      BY <1>1, <1>7 DEF Armed
  <2>3. ~ (acc'.pc = "wait" /\ acc'.s = s)
      BY <1>1, IocpPortAssumption DEF Knows
  <2>4. Knows(s)'
      BY <1>1, <1>5, <2>1, <2>2, <2>3 DEF Knows
  <2>5. Served(s)' => next # "run"
      BY <1>1, <1>5 DEF Served
  <2>6. Armed(s)' => next = "run"
      BY <2>2 DEF Armed
  <2> QED BY <2>1, <2>4, <2>5, <2>6 DEF Exclusive
<1>10. \A t \in Slots : Knows(t)' /\ Exclusive(t)'
    BY <1>8, <1>9, SameKnows DEF Polite, Known, OneToken
<1>11. \A u, v \in Workers : Busy(u)' /\ Busy(v)' /\ pkt'[u].s = pkt'[v].s => u = v
    BY <1>4 DEF Polite, OneToken
<1> QED
    BY <1>7, <1>10, <1>11 DEF Known, OneToken, Polite

\* The next of a connection follows what is pending.
LEMMA RowGrows ==
    ASSUME TypeOK, NEW c \in Conns, Row(c), NEW s \in Slots, slot[s] = c, NEW n \in Nat, Full(s, n),
           NEW data \in Seq(Byte), Len(data) = n, \A k \in 1 .. n : data[k] = recvBuf[s][k],
           sq' = [sq EXCEPT ![c] = Append(@, [s |-> s, data |-> data])],
           UNCHANGED <<out, read, slot>>
    PROVE  Row(c)' /\ RowEnd(c)' = read[c]
<1> DEFINE op == [s |-> s, data |-> data]
<1>1. sq[c] \in Seq(SendOp) /\ op \in SendOp /\ op.s = s /\ op.data = data
    BY SendsType DEF SendOp
<1>2. sq'[c] = Append(sq[c], op)
    BY DEF TypeOK
<1> HIDE DEF op
<1>3. PICK m \in Nat : m = Len(sq[c])
    BY <1>1
<1>4. /\ sq'[c] \in Seq(SendOp) /\ Len(sq'[c]) = m + 1 /\ sq'[c][m + 1] = op
      /\ \A i \in 1 .. m : sq'[c][i] = sq[c][i]
    BY <1>1, <1>2, <1>3
<1>5. /\ Len(out[c]) \in Nat /\ read[c] \in Nat /\ RowEnd(c) \in Int
      /\ \A i \in 1 .. m : Lo(c, i) \in Int /\ Hi(c, i) \in Int
    BY <1>3, RowType
<1>6. /\ n > 0 /\ RowEnd(c) + n = read[c]
      /\ \A k \in 1 .. n : data[k] = <<c, RowEnd(c) + k>>
  <2>1. n > 0 /\ RowEnd(slot[s]) + n = read[slot[s]]
        /\ \A k \in 1 .. n : recvBuf[s][k] = <<slot[s], RowEnd(slot[s]) + k>>
      BY DEF Full
  <2> QED BY <2>1
<1>7. \A i \in 1 .. m : Lo(c, i)' = Lo(c, i) /\ Hi(c, i)' = Hi(c, i)
    BY <1>4 DEF Lo, Hi
<1>8. Lo(c, m + 1)' = RowEnd(c) /\ Hi(c, m + 1)' = read[c]
  <2>1. data[1] = <<c, RowEnd(c) + 1>>
      BY <1>6
  <2>2. Lo(c, m + 1)' = RowEnd(c)
      BY <1>1, <1>4, <1>5, <2>1, SMTT(40) DEF Lo
  <2>3. Hi(c, m + 1)' = Lo(c, m + 1)' + n
      BY <1>1, <1>4 DEF Hi
  <2> QED BY <1>6, <2>2, <2>3
<1>9. RowEnd(c) = IF m = 0 THEN Len(out[c]) ELSE Hi(c, m)
    BY <1>1, <1>3 DEF RowEnd
<1>10. ASSUME NEW i \in 1 .. m + 1
       PROVE  /\ slot[sq'[c][i].s] = c /\ Len(sq'[c][i].data) > 0
              /\ \A k \in 1 .. Len(sq'[c][i].data) : sq'[c][i].data[k] = <<c, Lo(c, i)' + k>>
              /\ Lo(c, i)' = IF i = 1 THEN Len(out[c]) ELSE Hi(c, i - 1)'
              /\ Hi(c, i)' <= read[c]
  <2>1. CASE i = m + 1
    <3>1. m # 0 => m \in 1 .. m /\ (m + 1) - 1 = m
        BY <1>3
    <3>2. Lo(c, m + 1)' = IF m + 1 = 1 THEN Len(out[c]) ELSE Hi(c, (m + 1) - 1)'
        BY <1>7, <1>8, <1>9, <3>1
    <3> QED BY <1>1, <1>4, <1>5, <1>6, <1>8, <2>1, <3>2
  <2>2. CASE i # m + 1
    <3>1. i \in 1 .. m /\ (i # 1 => i - 1 \in 1 .. m)
        BY <2>2
    <3>2. /\ slot[sq[c][i].s] = c /\ Len(sq[c][i].data) > 0
          /\ \A k \in 1 .. Len(sq[c][i].data) : sq[c][i].data[k] = <<c, Lo(c, i) + k>>
          /\ Lo(c, i) = IF i = 1 THEN Len(out[c]) ELSE Hi(c, i - 1)
          /\ Hi(c, i) <= read[c]
        BY <1>3, <3>1 DEF Row
    <3> QED BY <1>4, <1>7, <3>1, <3>2
  <2> QED BY <2>1, <2>2
<1>11. Row(c)'
    BY <1>4, <1>10 DEF Row
<1>12. RowEnd(c)' = read[c]
  <2>1. sq'[c] # <<>>
    <3>1. m + 1 # 0
        OBVIOUS
    <3> QED BY <1>4, <3>1, EmptySeq
  <2> QED BY <1>4, <1>8, <2>1 DEF RowEnd, Hi, Lo
<1> QED
    BY <1>11, <1>12

LEMMA SendMsgPolite ==
    ASSUME TypeOK, Shape, Polite, ~ Rude, NEW w \in Workers, SendMsg(w)
    PROVE  Polite'
<1>1. PICK s \in Slots, n \in Nat : s = pkt[w].s /\ n = pkt[w].n
    BY DEF SendMsg, Shape, Busy
<1>2. /\ pc[w] = "send" /\ Busy(w)
      /\ UNCHANGED <<sent, peer, out, read, rq, sock, slot, recvBuf, port, pkt, acc, cnt, ctl>>
      /\ pc' = [pc EXCEPT ![w] = "recv"]
    BY DEF SendMsg, Busy, clientVars, ownerVars
<1>3. /\ slot[s] \in Conns /\ At(s, n, "send") /\ Knows(s)
      /\ \A t \in Slots : t # s => slot[t] # slot[s]
    BY <1>1, <1>2, WorkerHolds
<1>4. Full(s, n)
    BY <1>3 DEF Knows
<1>5. PICK c \in Conns : c = slot[s]
    BY <1>3
<1>6. Usable(slot[s])
    BY <1>4, <1>5, IocpPortAssumption DEF Usable, Full, Stands, Rude
<1>7. PICK data \in Seq(Byte) : /\ data = SubSeq(recvBuf[s], 1, n) /\ Len(data) = n
                                /\ \A k \in 1 .. n : data[k] = recvBuf[s][k]
  <2>1. recvBuf[s] \in Seq(Byte) /\ n <= Len(recvBuf[s])
      BY <1>1, <1>2 DEF TypeOK, Shape
  <2>2. /\ SubSeq(recvBuf[s], 1, n) \in Seq(Byte) /\ Len(SubSeq(recvBuf[s], 1, n)) = n
        /\ \A k \in 1 .. n : SubSeq(recvBuf[s], 1, n)[k] = recvBuf[s][k]
      BY <2>1, PrefixType
  <2> QED BY <2>2
<1>8. sq' = [sq EXCEPT ![c] = Append(@, [s |-> s, data |-> data])]
    BY <1>1, <1>5, <1>6, <1>7 DEF SendMsg
<1>9. \A d \in Conns : Row(d)
    BY DEF Polite, Lives
<1>10. /\ Row(c)' /\ RowEnd(c)' = read[c]
       /\ \A d \in Conns : d # c => Row(d)' /\ RowEnd(d)' = RowEnd(d) /\ sq'[d] = sq[d]
  <2>1. Row(c)' /\ RowEnd(c)' = read[c]
      BY <1>2, <1>4, <1>5, <1>7, <1>8, <1>9, RowGrows
  <2>2. ASSUME NEW d \in Conns, d # c PROVE Row(d)' /\ RowEnd(d)' = RowEnd(d) /\ sq'[d] = sq[d]
    <3>1. sq'[d] = sq[d] /\ read'[d] \in Nat /\ read[d] <= read'[d]
        BY <1>2, <1>8, <1>9, <2>2, RowType DEF TypeOK
    <3> QED BY <1>2, <1>9, <3>1, RowKept
  <2> QED BY <2>1, <2>2
<1>11. ASSUME NEW t \in Slots, t # s PROVE Kept(t)
  <2>1. slot[t] # c
      BY <1>3, <1>5, <1>11
  <2> QED BY <1>2, <1>10, <2>1 DEF Kept
<1>12. Caught(s)'
  <2>1. slot'[s] = c /\ sock'[c] = "open" /\ read'[c] = read[c]
      BY <1>2, <1>4, <1>5 DEF Full, Stands
  <2>2. RowEnd(slot[s])' = read[c]
      BY <1>10, <2>1 DEF RowEnd, Hi, Lo
  <2> QED BY <2>1, <2>2 DEF Caught, Stands
<1>13. Known' /\ OneToken'
    BY <1>1, <1>2, <1>11, <1>12, WorkerGoes
<1>14. Lives'
  <2>1. ASSUME NEW d \in Conns
        PROVE  /\ Row(d)' /\ RowEnd(d)' <= read'[d] /\ read'[d] <= sent'[d]
               /\ peer'[d] = "fin" => Len(out'[d]) = sent'[d]
               /\ sock'[d] = "closed" => peer'[d] = "fin"
               /\ sock'[d] = "none" => Len(out'[d]) = 0 /\ sq'[d] = <<>> /\ read'[d] = 0
               /\ sock'[d] # "open" => rq'[d] = <<>>
    <3>1. CASE d = c
      <4>1. sock[d] = "open"
          BY <1>4, <1>5, <3>1 DEF Full, Stands
      <4>2. RowEnd(d)' <= read'[d]
        <5>1. RowEnd(d)' = read[d] /\ read'[d] = read[d] /\ read[d] \in Nat
            BY <1>2, <1>9, <1>10, <3>1, RowType
        <5> QED BY <5>1
      <4> QED BY <1>2, <1>10, <3>1, <4>1, <4>2 DEF Polite, Lives
    <3>2. CASE d # c
        BY <1>2, <1>10, <3>2 DEF Polite, Lives
    <3> QED BY <3>1, <3>2
  <2> QED BY <1>2, <2>1 DEF Polite, Lives
<1> QED
    BY <1>13, <1>14 DEF Polite

LEMMA BindRecvPolite ==
    ASSUME TypeOK, Shape, Polite, ~ Rude, NEW w \in Workers, BindRecv(w)
    PROVE  Polite'
<1>1. PICK s \in Slots : s = pkt[w].s
    BY DEF BindRecv, Shape, Busy
<1>2. /\ pc[w] = "recv" /\ Busy(w)
      /\ UNCHANGED <<sent, peer, out, read, sq, sock, slot, recvBuf, sendBuf, port, acc, cnt, ctl>>
      /\ pc' = [pc EXCEPT ![w] = "run"] /\ pkt' = [pkt EXCEPT ![w] = NoPkt]
    BY DEF BindRecv, Busy, clientVars, slotVars, ownerVars
<1>3. /\ slot[s] \in Conns /\ At(s, pkt[w].n, "recv") /\ Knows(s) /\ pkt[w].n \in Nat
    BY <1>1, <1>2, WorkerHolds
<1>4. Caught(s)
    BY <1>3 DEF Knows
<1>5. Usable(slot[s])
    BY <1>3, <1>4, IocpPortAssumption DEF Usable, Caught, Stands, Rude
<1>6. rq' = [rq EXCEPT ![slot[s]] = Append(@, s)]
    BY <1>1, <1>5 DEF BindRecv
<1>7. \A d \in Conns : RowEnd(d)' = RowEnd(d) /\ Row(d)' = Row(d)
    BY <1>2 DEF RowEnd, Row, Hi, Lo
<1>8. \A t \in Slots : Kept(t)
    BY <1>2, <1>7 DEF Kept
<1>9. Caught(s)'
    BY <1>4, <1>8, KeptKnows
<1>10. Known' /\ OneToken'
    BY <1>1, <1>2, <1>6, <1>8, <1>9, WorkerGoes
<1>11. Lives'
  <2>1. \A d \in Conns : d # slot[s] => rq'[d] = rq[d]
      BY <1>6 DEF TypeOK
  <2>2. sock[slot[s]] = "open"
      BY <1>4 DEF Caught, Stands
  <2> QED BY <1>2, <1>7, <2>1, <2>2 DEF Polite, Lives
<1> QED
    BY <1>10, <1>11 DEF Polite

LEMMA HangUpPolite ==
    ASSUME TypeOK, Shape, Polite, NEW w \in Workers, HangUp(w)
    PROVE  Polite'
<1>1. PICK s \in Slots : s = pkt[w].s
    BY DEF HangUp, Shape, Busy
<1>2. /\ pc[w] = "hang" /\ Busy(w)
      /\ UNCHANGED <<sent, peer, out, read, rq, sq, slot, recvBuf, sendBuf, port, pkt, acc, cnt, ctl>>
      /\ pc' = [pc EXCEPT ![w] = "clear"]
    BY DEF HangUp, Busy, clientVars, kernelVars, slotVars, ownerVars
<1>3. /\ slot[s] \in Conns /\ At(s, pkt[w].n, "hang") /\ Knows(s) /\ pkt[w].n \in Nat
      /\ rq[slot[s]] = <<>>
      /\ \A t \in Slots : t # s => slot[t] # slot[s]
    BY <1>1, <1>2, WorkerHolds
<1>4. Over(s)
    BY <1>3 DEF Knows
<1>5. /\ sock'[slot[s]] = "closed"
      /\ \A d \in Conns : d # slot[s] => sock'[d] = sock[d]
    BY <1>1, <1>3, IocpPortAssumption DEF HangUp, TypeOK
<1>6. \A d \in Conns : RowEnd(d)' = RowEnd(d) /\ Row(d)' = Row(d)
    BY <1>2 DEF RowEnd, Row, Hi, Lo
<1>7. \A t \in Slots : t # s => Kept(t)
    BY <1>2, <1>3, <1>5, <1>6 DEF Kept
<1>8. slot'[s] \in Conns /\ sock'[slot'[s]] = "closed"
    BY <1>2, <1>3, <1>5
<1>9. Known' /\ OneToken'
    BY <1>1, <1>2, <1>7, <1>8, WorkerGoes
<1>10. Lives'
  <2>1. ASSUME NEW d \in Conns
        PROVE  /\ sock'[d] = "closed" => peer'[d] = "fin"
               /\ sock'[d] = "none" => Len(out'[d]) = 0 /\ sq'[d] = <<>> /\ read'[d] = 0
               /\ sock'[d] # "open" => rq'[d] = <<>>
    <3>1. CASE d = slot[s]
        BY <1>2, <1>3, <1>4, <1>5, <3>1 DEF Over
    <3>2. CASE d # slot[s]
        BY <1>2, <1>5, <3>2 DEF Polite, Lives
    <3> QED BY <3>1, <3>2
  <2>2. \A t \in Slots : slot'[t] # NoConn => sock'[slot'[t]] # "none"
    <3> SUFFICES ASSUME NEW t \in Slots, slot[t] # NoConn PROVE sock'[slot[t]] # "none"
        BY <1>2
    <3>1. slot[t] \in Conns
        BY DEF TypeOK
    <3> QED BY <1>5, <3>1 DEF Polite, Lives
  <2> QED BY <1>2, <1>6, <2>1, <2>2 DEF Polite, Lives
<1> QED
    BY <1>9, <1>10 DEF Polite

LEMMA ClearSlotPolite ==
    ASSUME TypeOK, Shape, Polite, NEW w \in Workers, ClearSlot(w)
    PROVE  Polite'
<1>1. PICK s \in Slots : s = pkt[w].s
    BY DEF ClearSlot, Shape, Busy
<1>2. /\ pc[w] = "clear" /\ Busy(w)
      /\ UNCHANGED <<sent, peer, out, read, rq, sq, sock, recvBuf, sendBuf, port, acc, cnt, ctl>>
      /\ pc' = [pc EXCEPT ![w] = "run"] /\ pkt' = [pkt EXCEPT ![w] = NoPkt]
    BY DEF ClearSlot, Busy, clientVars, kernelVars, ownerVars
<1>3. /\ slot[s] \in Conns /\ At(s, pkt[w].n, "clear") /\ Knows(s) /\ pkt[w].n \in Nat
      /\ \A t \in Slots : t # s => slot[t] # slot[s]
    BY <1>1, <1>2, WorkerHolds
<1>4. sock[slot[s]] = "closed"
    BY <1>3 DEF Knows
<1>5. slot'[s] = NoConn /\ \A t \in Slots : t # s => slot'[t] = slot[t]
    BY <1>1 DEF ClearSlot, TypeOK
<1>6. sq[slot[s]] = <<>>
    BY <1>3, <1>4, NothingPending
<1>7. \A d \in Conns : Row(d)' /\ RowEnd(d)' = RowEnd(d)
  <2> SUFFICES ASSUME NEW d \in Conns PROVE Row(d)' /\ RowEnd(d)' = RowEnd(d)
      OBVIOUS
  <2>1. Row(d)
      BY DEF Polite, Lives
  <2>2. CASE d = slot[s]
      BY <1>2, <1>6, <2>2 DEF Row, RowEnd
  <2>3. CASE d # slot[s]
    <3>1. \A t \in Slots : slot[t] = d => slot'[t] = d
        BY <1>5, <2>3
    <3>2. read'[d] \in Nat /\ read[d] <= read'[d]
        BY <1>2, <2>1, RowType
    <3> QED BY <1>2, <2>1, <3>1, <3>2, RowKept
  <2> QED BY <2>2, <2>3
<1>8. \A t \in Slots : t # s => Kept(t)
    BY <1>2, <1>5, <1>7 DEF Kept
<1>9. Known' /\ OneToken'
  <2>1. UNCHANGED <<port, acc>> /\ rq' = rq
      BY <1>2
  <2> QED BY <1>1, <1>2, <1>8, <2>1, WorkerGoes
<1>10. Lives'
  <2>1. \A t, u \in Slots : slot'[t] = slot'[u] /\ slot'[t] # NoConn => t = u
      BY <1>5 DEF Polite, Lives
  <2>2. \A t \in Slots : slot'[t] # NoConn => sock'[slot'[t]] # "none"
      BY <1>2, <1>5 DEF Polite, Lives
  <2> QED BY <1>2, <1>7, <2>1, <2>2 DEF Polite, Lives
<1> QED
    BY <1>9, <1>10 DEF Polite

LEMMA WorkerExitPolite ==
    ASSUME TypeOK, Shape, Polite, NEW w \in Workers, WorkerExit(w)
    PROVE  Polite'
<1>1. /\ UNCHANGED <<sent, peer, out, read, rq, sq, sock, slot, recvBuf, sendBuf, port, pkt, acc, cnt>>
      /\ pc' = [pc EXCEPT ![w] = "exit"]
    BY DEF WorkerExit, clientVars, kernelVars, slotVars, ownerVars
<1>2. \A v \in Workers : \A at \in {"send", "recv", "hang", "clear"} : pc'[v] = at => pc[v] = at
    BY <1>1 DEF TypeOK
<1>3. \A d \in Conns : RowEnd(d)' = RowEnd(d) /\ Row(d)' = Row(d)
    BY <1>1 DEF RowEnd, Row, Hi, Lo
<1>4. \A t \in Slots : Kept(t) /\ Same(t)
    BY <1>1, <1>2, <1>3 DEF Kept, Same, ArmedOn, Arrived, At, Posting
<1>5. \A t \in Slots : Knows(t)' /\ Exclusive(t)'
    BY <1>4, SameKnows DEF Polite, Known, OneToken
<1>6. \A v \in Workers : Busy(v)' => Busy(v)
    BY <1>2 DEF Busy
<1>7. Known' /\ OneToken'
    BY <1>1, <1>5, <1>6 DEF Polite, Known, OneToken
<1>8. Lives'
    BY <1>1, <1>3 DEF Polite, Lives
<1> QED
    BY <1>7, <1>8 DEF Polite

\* The token of a slot goes from the port to the worker that takes it.
LEMMA DequeuePolite ==
    ASSUME TypeOK, Shape, Polite, NEW w \in Workers, Dequeue(w)
    PROVE  Polite'
<1> DEFINE p == Head(port)
<1>1. PICK next : /\ next = IF ~p.ok \/ p.n = 0 THEN "hang" ELSE IF p.op = "RECV" THEN "send" ELSE "run"
                  /\ pc' = [pc EXCEPT ![w] = next]
                  /\ pkt' = [pkt EXCEPT ![w] = IF next = "run" THEN NoPkt ELSE [s |-> p.s, n |-> p.n]]
    BY DEF Dequeue, Handle
<1>2. port # <<>> /\ port' = Tail(port) /\ pc[w] = "run"
    BY DEF Dequeue, Handle
<1>3. UNCHANGED <<sent, peer, out, read, rq, sq, sock, slot, recvBuf, sendBuf, acc, cnt, ctl>>
    BY DEF Dequeue, Handle, clientVars, kernelVars, slotVars, ownerVars
<1>4. /\ p = port[1] /\ 1 \in 1 .. Len(port) /\ p \in Entry
      /\ \A j \in 1 .. Len(port') : j + 1 \in 1 .. Len(port) /\ port'[j] = port[j + 1]
    BY <1>2, PortTail, PortType
<1> HIDE DEF p
<1>5. PICK s \in Slots, n \in Nat : s = p.s /\ n = p.n
    BY <1>4 DEF Entry
<1>6. p.ok /\ (p.op = "SEND" => n # 0) /\ p.op \in {"RECV", "SEND"}
    BY <1>4, <1>5 DEF Polite, Known, Entry
<1>7. next = IF n = 0 THEN "hang" ELSE IF p.op = "RECV" THEN "send" ELSE "run"
    BY <1>1, <1>5, <1>6
<1>8. /\ pc'[w] = next /\ (next # "run" => pkt'[w] = [s |-> s, n |-> n])
      /\ \A v \in Workers : v # w => pc'[v] = pc[v] /\ pkt'[v] = pkt[v]
    BY <1>1, <1>5 DEF TypeOK
<1>9. \A d \in Conns : RowEnd(d)' = RowEnd(d) /\ Row(d)' = Row(d)
    BY <1>3 DEF RowEnd, Row, Hi, Lo
<1>10. \A t \in Slots : Kept(t)
    BY <1>3, <1>9 DEF Kept
<1>11. \A t \in Slots, m \in Nat : Arrived(t, m)' => Arrived(t, m)
    BY <1>4 DEF Arrived
<1>12. /\ \A t \in Slots : Posting(t)' = Posting(t) /\ \A d \in Conns : ArmedOn(t, d)' = ArmedOn(t, d)
       /\ acc' = acc
    BY <1>3 DEF Posting, ArmedOn
<1>13. ASSUME NEW t \in Slots, NEW m \in Nat, NEW at \in {"send", "recv", "hang", "clear"}, At(t, m, at)'
       PROVE  At(t, m, at) \/ (t = s /\ m = n /\ at = next)
  <2>1. PICK v \in Workers : pc'[v] = at /\ pkt'[v].s = t /\ pkt'[v].n = m
      BY <1>13 DEF At
  <2>2. CASE v = w
    <3>1. at = next /\ next # "run"
        BY <1>8, <2>1, <2>2
    <3> QED BY <1>8, <2>1, <2>2, <3>1
  <2>3. CASE v # w
      BY <1>8, <2>1, <2>3 DEF At
  <2> QED BY <2>2, <2>3
<1>14. \A j, k \in 1 .. Len(port') :
          port'[j].op = "RECV" /\ port'[k].op = "RECV" /\ port'[j].s = port'[k].s => j = k
  <2> SUFFICES ASSUME NEW j \in 1 .. Len(port'), NEW k \in 1 .. Len(port'),
                      port'[j].op = "RECV", port'[k].op = "RECV", port'[j].s = port'[k].s
               PROVE  j = k
      OBVIOUS
  <2>1. j + 1 = k + 1
      BY <1>4 DEF Polite, OneToken
  <2> QED BY <2>1
<1>15. \A j \in 1 .. Len(port') : port'[j].ok /\ (port'[j].op = "SEND" => port'[j].n > 0)
    BY <1>4 DEF Polite, Known
<1>16. Lives'
    BY <1>3, <1>9 DEF Polite, Lives
<1>17. CASE p.op = "SEND"
  <2>1. next = "run"
      BY <1>6, <1>7, <1>17
  <2>2. \A t \in Slots : Same(t)
      BY <1>11, <1>12, <1>13, <2>1 DEF Same
  <2>3. \A t \in Slots : Knows(t)' /\ Exclusive(t)'
      BY <1>10, <2>2, SameKnows DEF Polite, Known, OneToken
  <2>4. \A v \in Workers : Busy(v)' => Busy(v) /\ pkt'[v] = pkt[v]
      BY <1>8, <2>1 DEF Busy
  <2> QED BY <1>3, <1>14, <1>15, <1>16, <2>3, <2>4 DEF Polite, Known, OneToken
<1>18. CASE p.op = "RECV"
  <2>1. next = IF n = 0 THEN "hang" ELSE "send"
      BY <1>7, <1>18
  <2>2. Arrived(s, n) /\ Queued(s)
      BY <1>4, <1>5, <1>18 DEF Arrived, Queued
  <2>3. ~Armed(s) /\ ~Served(s) /\ ~Posting(s) /\ slot[s] \in Conns
      BY <2>2, Holders DEF Polite, OneToken, Exclusive
  <2>4. Knows(s) /\ IF n = 0 THEN Over(s) ELSE Full(s, n)
      BY <2>2 DEF Polite, Known, Knows
  <2>5. IF n = 0 THEN Over(s)' ELSE Full(s, n)'
      BY <1>10, <2>4, KeptKnows
  <2>6. \A m \in Nat : ~Arrived(s, m)'
    <3> SUFFICES ASSUME NEW j \in 1 .. Len(port'), port'[j].op = "RECV", port'[j].s = s PROVE FALSE
        BY DEF Arrived
    <3>1. j + 1 = 1
        BY <1>4, <1>5, <1>18 DEF Polite, OneToken
    <3> QED BY <3>1
  <2>7. \A t \in Slots : t # s => Same(t)
      BY <1>11, <1>12, <1>13 DEF Same
  <2>8. ~Armed(s)' /\ ~Queued(s)' /\ ~Posting(s)'
      BY <1>12, <2>3, <2>6 DEF Armed, Queued
  <2>9. \A m \in Nat, at \in {"send", "recv", "hang", "clear"} : At(s, m, at)' => m = n /\ at = next
      BY <1>13, <2>3 DEF Served
  <2>10. ~ (acc'.pc = "wait" /\ acc'.s = s)
      BY <1>12, <2>3, <2>4, IocpPortAssumption DEF Knows
  <2>11. Knows(s)'
      BY <2>1, <2>5, <2>6, <2>8, <2>9, <2>10 DEF Knows, Armed
  <2>12. \A t \in Slots : Knows(t)' /\ Exclusive(t)'
    <3>1. Exclusive(s)'
        BY <2>8 DEF Exclusive
    <3> QED BY <1>10, <2>7, <2>11, <3>1, SameKnows DEF Polite, Known, OneToken
  <2>13. \A u, v \in Workers : Busy(u)' /\ Busy(v)' /\ pkt'[u].s = pkt'[v].s => u = v
    <3>1. \A v \in Workers : Busy(v) => pkt[v].s # s
      <4> SUFFICES ASSUME NEW v \in Workers, Busy(v), pkt[v].s = s PROVE FALSE
          OBVIOUS
      <4>1. Queued(s) /\ ~Queued(pkt[v].s)
          BY <2>2, WorkerHolds
      <4> QED BY <4>1
    <3>2. \A v \in Workers : Busy(v)' => \/ v = w /\ pkt'[v].s = s
                                         \/ v # w /\ Busy(v) /\ pkt'[v] = pkt[v]
        BY <1>8, <2>1 DEF Busy
    <3> QED BY <3>1, <3>2 DEF Polite, OneToken
  <2> QED BY <1>3, <1>14, <1>15, <1>16, <2>12, <2>13 DEF Polite, Known, OneToken
<1> QED
    BY <1>6, <1>17, <1>18

\* The accepter takes an empty slot, or gives up.
LEMMA FindSlotPolite ==
    ASSUME TypeOK, Shape, Polite, FindSlot
    PROVE  Polite'
<1>1. UNCHANGED <<sent, peer, out, read, rq, sq, sock, slot, recvBuf, sendBuf, port, pc, pkt, cnt, ctl>>
    BY DEF FindSlot, clientVars, kernelVars, slotVars, workerVars
<1>2. acc'.pc # "post" /\ (acc'.pc = "wait" => slot[acc'.s] = NoConn)
  <2>1. CASE Listening /\ Empty # {} /\ acc' = [pc |-> "wait", s |-> CHOOSE s \in Empty : \A t \in Empty : s <= t]
    <3>1. \E s \in Empty : \A t \in Empty : s <= t
      <4>1. Empty \subseteq Nat
          BY IocpPortAssumption DEF Empty, Slots
      <4> QED BY <2>1, <4>1, Least
    <3> QED BY <2>1, <3>1 DEF Empty
  <2>2. CASE acc' = [pc |-> "exit", s |-> 0]
      BY <2>2
  <2> QED BY <2>1, <2>2 DEF FindSlot
<1>3. \A d \in Conns : RowEnd(d)' = RowEnd(d) /\ Row(d)' = Row(d)
    BY <1>1 DEF RowEnd, Row, Hi, Lo
<1>4. \A t \in Slots : Kept(t)
    BY <1>1, <1>3 DEF Kept
<1>5. ASSUME NEW t \in Slots PROVE Knows(t)' /\ Exclusive(t)'
  <2>1. /\ \A d \in Conns : ArmedOn(t, d)' = ArmedOn(t, d)
        /\ \A n \in Nat : /\ Arrived(t, n)' = Arrived(t, n)
                          /\ \A at \in {"send", "recv", "hang", "clear"} : At(t, n, at)' = At(t, n, at)
        /\ ~Posting(t)'
      BY <1>1, <1>2 DEF ArmedOn, Arrived, At, Posting
  <2>2. /\ Caught(t) => Caught(t)'
        /\ Over(t) => Over(t)'
        /\ \A n : Full(t, n) => Full(t, n)'
      BY <1>4, KeptKnows
  <2>3. Knows(t)
      BY DEF Polite, Known
  <2>4. Knows(t)'
      BY <1>1, <1>2, <2>1, <2>2, <2>3 DEF Knows
  <2>5. Armed(t)' = Armed(t) /\ Queued(t)' = Queued(t) /\ Served(t)' = Served(t)
      BY <2>1 DEF Armed, Queued, Served
  <2> QED BY <2>1, <2>4, <2>5 DEF Exclusive, Polite, OneToken
<1>6. Known' /\ OneToken'
    BY <1>1, <1>5 DEF Polite, Known, OneToken, Busy
<1>7. Lives'
    BY <1>1, <1>3 DEF Polite, Lives
<1> QED
    BY <1>6, <1>7 DEF Polite

\* The other steps that leave every token where it is.
LEMMA StandStill ==
    ASSUME TypeOK, Shape, Polite,
           UNCHANGED <<sent, peer, out, read, rq, sq, sock, slot, recvBuf, sendBuf, port, pc, pkt>>,
           acc' = acc \/ acc'.pc \in {"find", "exit"}
    PROVE  Polite'
<1>1. \A d \in Conns : RowEnd(d)' = RowEnd(d) /\ Row(d)' = Row(d)
    BY DEF RowEnd, Row, Hi, Lo
<1>2. \A t \in Slots : Kept(t) /\ Same(t)
    BY <1>1 DEF Kept, Same, ArmedOn, Arrived, At, Posting
<1>3. \A t \in Slots : Knows(t)' /\ Exclusive(t)'
    BY <1>2, SameKnows DEF Polite, Known, OneToken
<1>4. Known' /\ OneToken'
    BY <1>3 DEF Polite, Known, OneToken, Busy
<1>5. Lives'
    BY <1>1 DEF Polite, Lives
<1> QED
    BY <1>4, <1>5 DEF Polite

LEMMA AcceptPolite ==
    ASSUME TypeOK, Shape, Polite, NEW c \in Conns, Accept(c)
    PROVE  Polite'
<1>1. PICK s \in Slots : s = acc.s
    BY DEF Accept, Shape
<1>2. UNCHANGED <<sent, peer, out, read, rq, sq, recvBuf, sendBuf, port, pc, pkt, cnt, ctl>>
    BY DEF Accept, clientVars, kernelVars, workerVars
<1>3. /\ sock[c] = "none" /\ sock'[c] = "open" /\ \A d \in Conns : d # c => sock'[d] = sock[d]
      /\ slot'[s] = c /\ \A t \in Slots : t # s => slot'[t] = slot[t]
      /\ acc'.pc = "post" /\ acc'.s = s
    BY <1>1 DEF Accept, TypeOK
<1>4. slot[s] = NoConn
    BY <1>1 DEF Accept, Polite, Known, Knows
<1>5. ~Armed(s) /\ ~Queued(s) /\ ~Served(s)
    BY <1>4, Holders, IocpPortAssumption
<1>6. \A t \in Slots : slot[t] # c
    BY <1>3, IocpPortAssumption DEF Polite, Lives
<1>7. \A d \in Conns : Row(d)' /\ RowEnd(d)' = RowEnd(d)
  <2> SUFFICES ASSUME NEW d \in Conns PROVE Row(d)' /\ RowEnd(d)' = RowEnd(d)
      OBVIOUS
  <2>1. Row(d)
      BY DEF Polite, Lives
  <2>2. \A t \in Slots : slot[t] = d => slot'[t] = d
      BY <1>3, <1>4, IocpPortAssumption
  <2>3. read'[d] \in Nat /\ read[d] <= read'[d]
      BY <1>2, <2>1, RowType
  <2> QED BY <1>2, <2>1, <2>2, <2>3, RowKept
<1>8. \A t \in Slots : t # s => Kept(t)
    BY <1>2, <1>3, <1>6, <1>7 DEF Kept
<1>9. \A t \in Slots : /\ \A d \in Conns : ArmedOn(t, d)' = ArmedOn(t, d)
                       /\ \A n \in Nat : /\ Arrived(t, n)' = Arrived(t, n)
                                         /\ \A at \in {"send", "recv", "hang", "clear"} :
                                               At(t, n, at)' = At(t, n, at)
    BY <1>2 DEF ArmedOn, Arrived, At
<1>10. \A t \in Slots : t # s => Same(t)
    BY <1>3, <1>9 DEF Same, Posting
<1>11. Caught(s)'
  <2>1. RowEnd(c)' = 0 /\ read'[c] = 0
      BY <1>2, <1>3, <1>7 DEF Polite, Lives, RowEnd
  <2>2. RowEnd(slot[s])' = 0
      BY <1>3, <2>1 DEF RowEnd, Hi, Lo
  <2> QED BY <1>3, <2>1, <2>2 DEF Caught, Stands
<1>12. Knows(s)' /\ Exclusive(s)'
  <2>1. ~Armed(s)' /\ ~Queued(s)' /\ ~Served(s)'
      BY <1>5, <1>9 DEF Armed, Queued, Served
  <2> QED BY <1>3, <1>11, <2>1 DEF Exclusive, Knows, Armed, Queued, Served
<1>13. \A t \in Slots : Knows(t)' /\ Exclusive(t)'
    BY <1>8, <1>10, <1>12, SameKnows DEF Polite, Known, OneToken
<1>14. Known' /\ OneToken'
    BY <1>2, <1>13 DEF Polite, Known, OneToken, Busy
<1>15. Lives'
  <2>1. ASSUME NEW d \in Conns
        PROVE  /\ sock'[d] = "closed" => peer'[d] = "fin"
               /\ sock'[d] = "none" => Len(out'[d]) = 0 /\ sq'[d] = <<>> /\ read'[d] = 0
               /\ sock'[d] # "open" => rq'[d] = <<>>
      BY <1>2, <1>3 DEF Polite, Lives
  <2>2. \A t, u \in Slots : slot'[t] = slot'[u] /\ slot'[t] # NoConn => t = u
      BY <1>3, <1>6 DEF Polite, Lives
  <2>3. \A t \in Slots : slot'[t] # NoConn => sock'[slot'[t]] # "none"
    <3> SUFFICES ASSUME NEW t \in Slots, slot'[t] # NoConn PROVE sock'[slot'[t]] # "none"
        OBVIOUS
    <3>1. CASE t = s
        BY <1>3, <3>1
    <3>2. CASE t # s
      <4>1. slot'[t] = slot[t] /\ slot[t] \in Conns /\ slot[t] # c
          BY <1>3, <1>6, <3>2 DEF TypeOK
      <4> QED BY <1>3, <4>1, IocpPortAssumption DEF Polite, Lives
    <3> QED BY <3>1, <3>2
  <2> QED BY <1>2, <1>7, <2>1, <2>2, <2>3 DEF Polite, Lives
<1> QED
    BY <1>14, <1>15 DEF Polite

\* The token of a slot goes from the accepter to the kernel.
LEMMA PostFirstPolite ==
    ASSUME TypeOK, Shape, Polite, ~ Rude, PostFirst
    PROVE  Polite'
<1>1. PICK s \in Slots : s = acc.s
    BY DEF PostFirst, Shape
<1>2. UNCHANGED <<sent, peer, out, read, sq, sock, slot, recvBuf, sendBuf, port, pc, pkt, ctl>>
    BY DEF PostFirst, clientVars, slotVars, workerVars
<1>3. Posting(s) /\ ~Armed(s) /\ ~Queued(s) /\ ~Served(s) /\ Knows(s)
    BY <1>1 DEF PostFirst, Posting, Polite, OneToken, Exclusive, Known
<1>4. Caught(s) /\ slot[s] \in Conns
    BY <1>3 DEF Knows, Caught, Stands
<1>5. Usable(slot[s])
    BY <1>4, IocpPortAssumption DEF Usable, Caught, Stands, Rude
<1>6. rq' = [rq EXCEPT ![slot[s]] = Append(@, s)] /\ acc' = [pc |-> "find", s |-> 0]
    BY <1>1, <1>5 DEF PostFirst
<1>7. rq'[slot[s]] = <<s>> /\ \A d \in Conns : d # slot[s] => rq'[d] = rq[d]
  <2>1. rq[slot[s]] = <<>>
      BY <1>3, <1>4, Unarmed
  <2> QED BY <1>4, <1>6, <2>1 DEF TypeOK
<1>8. Len(<<s>>) = 1 /\ <<s>>[1] = s
    OBVIOUS
<1>9. \A t \in Slots, d \in Conns : ArmedOn(t, d)' => ArmedOn(t, d) \/ (t = s /\ d = slot[s])
    BY <1>7, <1>8 DEF ArmedOn
<1>10. \A t \in Slots : ~Posting(t)' /\ acc'.pc # "wait"
    BY <1>6 DEF Posting
<1>11. \A t \in Slots, n \in Nat : /\ Arrived(t, n)' = Arrived(t, n)
                                   /\ \A at \in {"send", "recv", "hang", "clear"} :
                                         At(t, n, at)' = At(t, n, at)
    BY <1>2 DEF Arrived, At
<1>12. \A d \in Conns : RowEnd(d)' = RowEnd(d) /\ Row(d)' = Row(d)
    BY <1>2 DEF RowEnd, Row, Hi, Lo
<1>13. \A t \in Slots : Kept(t)
    BY <1>2, <1>12 DEF Kept
<1>14. \A t \in Slots : t # s => Same(t)
    BY <1>9, <1>10, <1>11 DEF Same
<1>15. Knows(s)' /\ Exclusive(s)'
  <2>1. ~Queued(s)' /\ ~Served(s)' /\ ~Posting(s)'
      BY <1>3, <1>10, <1>11 DEF Queued, Served
  <2>2. \A d \in Conns : ArmedOn(s, d)' => d = slot[s]
      BY <1>3, <1>9 DEF Armed
  <2>3. slot'[s] = slot[s] /\ Caught(s)'
      BY <1>2, <1>4, <1>13, KeptKnows
  <2>4. Knows(s)'
      BY <1>10, <2>1, <2>2, <2>3 DEF Knows, Queued, Served
  <2> QED BY <2>1, <2>4 DEF Exclusive
<1>16. \A t \in Slots : Knows(t)' /\ Exclusive(t)'
    BY <1>13, <1>14, <1>15, SameKnows DEF Polite, Known, OneToken
<1>17. Known' /\ OneToken'
  <2>1. \A d \in Conns : Len(rq'[d]) <= 1
    <3> SUFFICES ASSUME NEW d \in Conns PROVE Len(rq'[d]) <= 1
        OBVIOUS
    <3>1. d = slot[s] => rq'[d] = <<s>>
        BY <1>7
    <3>2. d # slot[s] => rq'[d] = rq[d]
        BY <1>7
    <3>3. Len(rq[d]) <= 1
        BY DEF Polite, OneToken
    <3>4. CASE d = slot[s]
      <4>1. Len(rq'[d]) = 1
          BY <1>8, <3>1, <3>4, Zenon
      <4> QED BY <4>1
    <3>5. CASE d # slot[s]
        BY <3>2, <3>3, <3>5
    <3> QED BY <3>4, <3>5
  <2> QED BY <1>2, <1>16, <2>1 DEF Polite, Known, OneToken, Busy
<1>18. Lives'
  <2>1. sock[slot[s]] = "open"
      BY <1>4 DEF Caught, Stands
  <2> QED BY <1>2, <1>7, <1>12, <2>1 DEF Polite, Lives
<1> QED
    BY <1>17, <1>18 DEF Polite

\* A client that has been rude has been rude for good.
LEMMA RudeStays == TypeOK /\ [Next]_vars /\ Rude => Rude'
<1> SUFFICES ASSUME TypeOK, [Next]_vars, NEW c \in Conns, peer[c] \in {"quit", "rst"} PROVE Rude'
    BY DEF Rude
<1>1. peer'[c] \in {"quit", "rst"}
  <2>1. CASE UNCHANGED peer
      BY <2>1
  <2>2. CASE \E d \in Conns : Client(d)
      BY <2>2 DEF Client, Connect, Write, Fin, Reset, TypeOK
  <2>3. UNCHANGED peer \/ \E d \in Conns : Client(d)
    <3>1. CASE \E d \in Conns : Kernel(d)
        BY <3>1 DEF Kernel, RecvData, RecvEnd, SendDone, SendAbort, clientVars
    <3>2. CASE \E w \in Workers : Work(w)
        BY <3>2 DEF Work, Dequeue, Handle, SendMsg, BindRecv, HangUp, ClearSlot, WorkerExit, clientVars
    <3>3. CASE Accepter
        BY <3>3 DEF Accepter, FindSlot, AcceptFails, PostFirst, Accept, clientVars
    <3>4. CASE Owner
        BY <3>4 DEF Owner, StopWorkers, StopAccepter, Destroyed, clientVars
    <3>5. CASE UNCHANGED vars
        BY <3>5 DEF vars, clientVars
    <3> QED BY <3>1, <3>2, <3>3, <3>4, <3>5 DEF Next
  <2> QED BY <2>1, <2>2, <2>3
<1> QED
    BY <1>1 DEF Rude

LEMMA PoliteStep ==
    ASSUME TypeOK, Shape, Polite, ~ Rude, ~ Rude', [Next]_vars
    PROVE  Polite'
<1>1. CASE \E c \in Conns : Client(c) \/ Kernel(c)
    BY <1>1, ClientPolite, RecvDataPolite, RecvEndPolite, SendDonePolite, NoAbort DEF Kernel
<1>2. CASE \E w \in Workers : Work(w)
    BY <1>2, DequeuePolite, SendMsgPolite, BindRecvPolite, HangUpPolite, ClearSlotPolite,
       WorkerExitPolite DEF Work
<1>3. CASE Accepter
  <2>1. CASE AcceptFails
    <3>1. /\ UNCHANGED <<sent, peer, out, read, rq, sq, sock, slot, recvBuf, sendBuf, port, pc, pkt>>
          /\ acc'.pc = "find"
        BY <2>1 DEF AcceptFails, Rude, clientVars, kernelVars, slotVars, workerVars
    <3> QED BY <3>1, StandStill
  <2> QED BY <1>3, <2>1, FindSlotPolite, PostFirstPolite, AcceptPolite DEF Accepter
<1>4. CASE Owner
  <2>1. UNCHANGED <<sent, peer, out, read, rq, sq, sock, slot, recvBuf, sendBuf, port, pc, pkt, acc>>
      BY <1>4 DEF Owner, StopWorkers, StopAccepter, Destroyed, clientVars, kernelVars, slotVars, workerVars
  <2> QED BY <2>1, StandStill
<1>5. CASE UNCHANGED vars
    BY <1>5, StandStill DEF vars, clientVars, kernelVars, slotVars, workerVars, ownerVars
<1> QED
    BY <1>1, <1>2, <1>3, <1>4, <1>5 DEF Next

\* The inductive invariant.
THEOREM Invariance == Spec => []IInv
<1>1. Init => IInv
    BY InitType, InitPolite DEF IInv
<1>2. IInv /\ [Next]_vars => IInv'
    BY TypeStep, RudeStays, PoliteStep DEF IInv
<1> QED
    BY <1>1, <1>2, PTL DEF Spec

-----------------------------------------------------------------------------

LEMMA AtMostOne ==
    ASSUME NEW S, \A x, y \in S : x = y
    PROVE  Cardinality(S) <= 1
<1>1. CASE S = {}
    BY <1>1, FS_EmptySet
<1>2. CASE S # {}
  <2>1. PICK x \in S : TRUE
      BY <1>2
  <2>2. S = {x}
      BY <2>1
  <2> QED BY <2>2, FS_Singleton
<1> QED
    BY <1>1, <1>2

\* A slot's one receive structure is with the kernel, in the port or with a
\* worker, but never in two of these places, and never twice in one: no two
\* messages are received into m_szBuf at a time (lines 231, 316).
THEOREM ReceiveAlone == Spec => []OneReceive
<1>1. IInv => OneReceive
  <2> SUFFICES ASSUME TypeOK, Shape, Polite, NEW s \in Slots
               PROVE  /\ Cardinality(Receives(s)) <= 1
                      /\ \A c \in Conns : Cardinality({i \in DOMAIN rq[c] : rq[c][i] = s}) <= 1
      BY DEF IInv, OneReceive
  <2>1. ASSUME NEW c \in Conns, NEW i \in DOMAIN rq[c], rq[c][i] = s PROVE i = 1 /\ ArmedOn(s, c)
    <3>1. rq[c] \in Seq(Slots) /\ Len(rq[c]) <= 1
        BY DEF TypeOK, Polite, OneToken
    <3>2. i = 1 /\ rq[c] # <<>>
        BY <3>1
    <3> QED BY <2>1, <3>2 DEF ArmedOn
  <2>2. \A c \in Conns : Cardinality({i \in DOMAIN rq[c] : rq[c][i] = s}) <= 1
    <3> TAKE c \in Conns
    <3>1. \A i, j \in {k \in DOMAIN rq[c] : rq[c][k] = s} : i = j
        BY <2>1
    <3> QED BY <3>1, AtMostOne
  <2>3. \A x \in Receives(s) :
           \/ \E c \in Conns : x = <<"kernel", c, 0>> /\ ArmedOn(s, c)
           \/ \E j \in 1 .. Len(port) :
                 x = <<"port", NoConn, j>> /\ port[j].s = s /\ port[j].op = "RECV"
           \/ \E w \in Workers : x = <<"worker", w, 0>> /\ pkt[w].s = s /\ Busy(w)
    <3>1. DOMAIN port = 1 .. Len(port)
        BY PortType
    <3> QED BY <2>1, <3>1 DEF Receives, Busy
  <2>4. \A c, d \in Conns : ArmedOn(s, c) /\ ArmedOn(s, d) => c = d
      BY DEF Polite, Known, Knows
  <2>5. \A j \in 1 .. Len(port) : port[j].s = s /\ port[j].op = "RECV" => Queued(s)
      BY PortType DEF Queued, Arrived
  <2>6. \A w \in Workers : pkt[w].s = s /\ Busy(w) => ~Armed(s) /\ ~Queued(s)
      BY WorkerHolds
  <2>7. \A c \in Conns : ArmedOn(s, c) => ~Queued(s) /\ Armed(s)
      BY DEF Armed, Polite, OneToken, Exclusive
  <2>8. \A x, y \in Receives(s) : x = y
    <3> SUFFICES ASSUME NEW x \in Receives(s), NEW y \in Receives(s) PROVE x = y
        OBVIOUS
    <3>1. CASE \E c \in Conns : x = <<"kernel", c, 0>> /\ ArmedOn(s, c)
        BY <2>3, <2>4, <2>5, <2>6, <2>7, <3>1
    <3>2. CASE \E j \in 1 .. Len(port) :
                  x = <<"port", NoConn, j>> /\ port[j].s = s /\ port[j].op = "RECV"
        BY <2>3, <2>5, <2>6, <2>7, <3>2 DEF Polite, OneToken
    <3>3. CASE \E w \in Workers : x = <<"worker", w, 0>> /\ pkt[w].s = s /\ Busy(w)
        BY <2>3, <2>5, <2>6, <2>7, <3>3 DEF Polite, OneToken
    <3> QED BY <2>3, <3>1, <3>2, <3>3
  <2> QED BY <2>2, <2>8, AtMostOne
<1> QED
    BY <1>1, Invariance, PTL

\* The server closes no connection but one whose client has left (comment at
\* line 303), as long as every client leaves politely.
THEOREM LeaversOnly == Spec => []OnlyLeaversClosed
<1>1. IInv => OnlyLeaversClosed
    BY DEF IInv, Polite, Lives, OnlyLeaversClosed
<1> QED
    BY <1>1, Invariance, PTL

-----------------------------------------------------------------------------
(* The echo.  The client of the repository waits for the echo of a message *)
(* before it sends the next: it is ahead of the echo by one at most.       *)

\* A message that starts where the echo ends, of a client at most one byte
\* ahead of the echo, ends where the server has read to.
LEMMA OneAhead ==
    ASSUME NEW hi \in Int, NEW len \in Nat, NEW lo \in Nat,
           NEW r \in Nat, NEW t \in Nat,
           hi = lo + len, len > 0, hi <= r, r <= t, t <= lo + 1
    PROVE  hi = r /\ r = lo + 1
    OBVIOUS

\* While a message is on its way back its connection has no other.
LEMMA OneOnItsWay ==
    ASSUME TypeOK, Polite, NEW c \in Conns, sent[c] <= Len(out[c]) + 1, sq[c] # <<>>
    PROVE  RowEnd(c) = read[c]
<1>1. Row(c) /\ read[c] <= sent[c]
    BY DEF Polite, Lives
<1>2. 1 \in 1 .. Len(sq[c])
    BY FirstSend
<1>3. /\ Len(out[c]) \in Nat /\ read[c] \in Nat /\ sent[c] \in Nat /\ Len(sq[c]) \in Nat
      /\ \A i \in 1 .. Len(sq[c]) :
            Lo(c, i) \in Int /\ Hi(c, i) \in Int /\ Len(sq[c][i].data) \in Nat
    BY <1>1, RowType
<1>4. Hi(c, 1) = read[c] /\ read[c] = Len(out[c]) + 1
  <2>1. Len(sq[c][1].data) > 0 /\ Lo(c, 1) = Len(out[c]) /\ Hi(c, 1) <= read[c]
      BY <1>1, <1>2 DEF Row
  <2>2. Hi(c, 1) = Lo(c, 1) + Len(sq[c][1].data)
      BY DEF Hi
  <2>3. /\ Hi(c, 1) \in Int /\ Len(sq[c][1].data) \in Nat
        /\ Len(out[c]) \in Nat /\ read[c] \in Nat /\ sent[c] \in Nat
      BY <1>2, <1>3, Zenon
  <2> QED BY <1>1, <2>1, <2>2, <2>3, OneAhead, Zenon
<1>5. ~ (2 \in 1 .. Len(sq[c]))
  <2> SUFFICES ASSUME 2 \in 1 .. Len(sq[c]) PROVE FALSE
      OBVIOUS
  <2>1. Lo(c, 2) = Hi(c, 2 - 1) /\ Len(sq[c][2].data) > 0 /\ Hi(c, 2) <= read[c]
      BY <1>1 DEF Row
  <2> QED BY <1>3, <1>4, <2>1 DEF Hi
<1>6. Len(sq[c]) = 1
  <2>1. PICK n \in Nat : n = Len(sq[c])
      BY <1>3
  <2>2. 1 \in 1 .. n /\ ~ (2 \in 1 .. n)
      BY <1>2, <1>5, <2>1, Zenon
  <2>3. n = 1
      BY <2>2
  <2> QED BY <2>1, <2>3, Zenon
<1> QED
    BY <1>4, <1>6 DEF RowEnd

LEMMA EchoKept ==
    ASSUME NEW c \in Conns, Echoed(c), UNCHANGED sendBuf,
           sent'[c] = sent[c], out'[c] = out[c], sq'[c] = sq[c]
    PROVE  Echoed(c)'
    BY DEF Echoed, Untouched

LEMMA WriteEcho ==
    ASSUME TypeOK, Burst <= 1, NEW c \in Conns, Write(c), NEW d \in Conns, Echoed(d)
    PROVE  Echoed(d)'
<1>1. UNCHANGED <<out, sq, sendBuf>>
    BY DEF Write, ServerState, kernelVars, slotVars
<1>2. sent[c] \in Nat /\ Len(out[c]) \in Nat /\ sent[c] - Len(out[c]) < Burst /\ Burst \in Nat
    BY IocpPortAssumption DEF TypeOK, Write
<1>3. /\ \A e \in Conns : e # c => sent'[e] = sent[e]
      /\ sent'[c] = sent[c] + 1
    BY DEF Write, TypeOK
<1>4. sent'[c] <= Len(out[c]) + 1
    BY <1>2, <1>3
<1>5. CASE d = c
    BY <1>1, <1>4, <1>5 DEF Echoed, Untouched
<1>6. CASE d # c
    BY <1>1, <1>3, <1>6, EchoKept
<1> QED
    BY <1>5, <1>6

LEMMA SendDoneEcho ==
    ASSUME TypeOK, Shape, Polite, NEW c \in Conns, SendDone(c), NEW d \in Conns, Echoed(d)
    PROVE  Echoed(d)'
<1>1. PICK data \in {Head(sq[c]).data, SubSeq(sendBuf[Head(sq[c]).s], 1, Len(Head(sq[c]).data))} :
         out' = [out EXCEPT ![c] = @ \o data]
    BY DEF SendDone
<1>2. sq[c] # <<>> /\ sq' = [sq EXCEPT ![c] = Tail(@)] /\ UNCHANGED <<sent, sendBuf>>
    BY DEF SendDone, clientVars, slotVars
<1>3. CASE d # c
  <2>1. out'[d] = out[d] /\ sq'[d] = sq[d]
      BY <1>1, <1>2, <1>3 DEF TypeOK
  <2> QED BY <1>2, <2>1, EchoKept
<1>4. CASE d = c
  <2>1. /\ Head(sq[c]) = sq[c][1] /\ 1 \in 1 .. Len(sq[c]) /\ Row(c)
        /\ sq[c][1].s \in Slots /\ sq[c][1].data \in Seq(Byte)
      BY <1>2, FirstSend, SendsType DEF Polite, Lives
  <2>2. PICK n \in Nat, m \in Nat : n = Len(sq[c][1].data) /\ m = Len(out[c])
    <3>1. Len(out[c]) \in Nat /\ Len(sq[c][1].data) \in Nat
        BY <2>1, RowType
    <3> QED BY <3>1
  <2>3. /\ \A k \in 1 .. n : sq[c][1].data[k] = <<c, m + k>>
        /\ \A k \in 1 .. n : sendBuf[sq[c][1].s][k] = sq[c][1].data[k]
    <3>1. Lo(c, 1) = m
        BY <2>1, <2>2 DEF Row
    <3>2. \A k \in 1 .. n : sq[c][1].data[k] = <<c, Lo(c, 1) + k>>
        BY <2>1, <2>2 DEF Row
    <3>3. \A k \in 1 .. n : sendBuf[sq[c][1].s][k] = sq[c][1].data[k]
        BY <1>4, <2>1, <2>2 DEF Echoed, Untouched
    <3> QED BY <3>1, <3>2, <3>3
  <2>4. data \in Seq(Byte) /\ Len(data) = n /\ \A k \in 1 .. n : data[k] = <<c, m + k>>
    <3>1. CASE data = sq[c][1].data
        BY <2>1, <2>2, <2>3, <3>1
    <3>2. CASE data = SubSeq(sendBuf[sq[c][1].s], 1, n)
      <4>1. sendBuf[sq[c][1].s] \in Seq(Byte) /\ n <= Len(sendBuf[sq[c][1].s])
          BY <2>1, <2>2 DEF TypeOK, Shape
      <4>2. /\ data \in Seq(Byte) /\ Len(data) = n
            /\ \A k \in 1 .. n : data[k] = sendBuf[sq[c][1].s][k]
        <5>1. /\ SubSeq(sendBuf[sq[c][1].s], 1, n) \in Seq(Byte)
              /\ Len(SubSeq(sendBuf[sq[c][1].s], 1, n)) = n
              /\ \A k \in 1 .. n : SubSeq(sendBuf[sq[c][1].s], 1, n)[k] = sendBuf[sq[c][1].s][k]
            BY <4>1, PrefixType
        <5> QED BY <3>2, <5>1
      <4> QED BY <2>3, <4>2
    <3> QED BY <1>1, <2>1, <2>2, <3>1, <3>2
  <2>5. out[c] \in Seq(Byte) /\ out'[c] = out[c] \o data
      BY <1>1 DEF TypeOK
  <2>6. /\ Len(out'[c]) = m + n
        /\ \A k \in 1 .. m + n : out'[c][k] = IF k <= m THEN out[c][k] ELSE data[k - m]
    <3>1. /\ out[c] \o data \in Seq(Byte)
          /\ Len(out[c] \o data) = Len(out[c]) + Len(data)
          /\ \A k \in 1 .. Len(out[c]) + Len(data) :
                (out[c] \o data)[k] = IF k <= Len(out[c]) THEN out[c][k] ELSE data[k - Len(out[c])]
        BY <2>4, <2>5, ConcatProperties
    <3> QED BY <2>2, <2>4, <2>5, <3>1, Zenon
  <2>7. \A k \in 1 .. Len(out'[c]) : out'[c][k] = <<c, k>>
    <3> SUFFICES ASSUME NEW k \in 1 .. m + n PROVE out'[c][k] = <<c, k>>
        BY <2>6
    <3>1. CASE k <= m
      <4>1. k \in 1 .. m
          BY <3>1
      <4>2. out[c][k] = <<c, k>>
          BY <1>4, <2>2, <4>1 DEF Echoed
      <4> QED BY <2>6, <3>1, <4>2
    <3>2. CASE k > m
      <4>1. k - m \in 1 .. n /\ m + (k - m) = k
          BY <3>2
      <4> QED BY <2>4, <2>6, <3>2, <4>1
    <3> QED BY <3>1, <3>2
  <2>8. sent'[c] <= Len(out'[c]) + 1
    <3>1. sent[c] \in Nat /\ sent[c] <= m + 1 /\ sent'[c] = sent[c]
        BY <1>2, <1>4, <2>1, <2>2, RowType DEF Echoed
    <3> QED BY <2>6, <3>1
  <2>9. Untouched(c)'
    <3>1. /\ sq'[c] = Tail(sq[c]) /\ Len(sq'[c]) = Len(sq[c]) - 1
          /\ \A i \in 1 .. Len(sq'[c]) : sq'[c][i] = sq[c][i + 1] /\ i + 1 \in 1 .. Len(sq[c])
        BY <1>2, FirstSend DEF TypeOK
    <3> QED BY <1>2, <1>4, <3>1 DEF Echoed, Untouched
  <2> QED BY <1>4, <2>7, <2>8, <2>9 DEF Echoed
<1> QED
    BY <1>3, <1>4

LEMMA SendMsgEcho ==
    ASSUME TypeOK, Shape, Polite, ~ Rude, \A e \in Conns : Echoed(e),
           NEW w \in Workers, SendMsg(w), NEW d \in Conns
    PROVE  Echoed(d)'
<1>1. PICK s \in Slots, n \in Nat : s = pkt[w].s /\ n = pkt[w].n
    BY DEF SendMsg, Shape, Busy
<1>2. pc[w] = "send" /\ Busy(w) /\ UNCHANGED <<sent, out, slot>>
    BY DEF SendMsg, Busy, clientVars
<1>3. slot[s] \in Conns /\ At(s, n, "send") /\ Knows(s)
    BY <1>1, <1>2, WorkerHolds
<1>4. Full(s, n)
    BY <1>3 DEF Knows
<1>5. PICK c \in Conns : c = slot[s]
    BY <1>3
<1>6. Usable(slot[s])
    BY <1>4, <1>5, IocpPortAssumption DEF Usable, Full, Stands, Rude
<1>7. PICK data \in Seq(Byte) : data = SubSeq(recvBuf[s], 1, n) /\ Len(data) = n
  <2>1. recvBuf[s] \in Seq(Byte) /\ n <= Len(recvBuf[s])
      BY <1>1, <1>2 DEF TypeOK, Shape
  <2>2. SubSeq(recvBuf[s], 1, n) \in Seq(Byte) /\ Len(SubSeq(recvBuf[s], 1, n)) = n
      BY <2>1, PrefixType
  <2> QED BY <2>2
<1>8. PICK op : op = [s |-> s, data |-> data]
    OBVIOUS
<1>9. /\ sq' = [sq EXCEPT ![c] = Append(@, op)]
      /\ sendBuf' = [sendBuf EXCEPT ![s] = Overlay(data, @)]
    BY <1>1, <1>5, <1>6, <1>7, <1>8 DEF SendMsg
<1>10. sq[c] = <<>>
  <2> SUFFICES ASSUME sq[c] # <<>> PROVE FALSE
      OBVIOUS
  <2>1. RowEnd(c) = read[c]
      BY OneOnItsWay DEF Echoed
  <2>2. n > 0 /\ RowEnd(c) + n = read[c]
      BY <1>4, <1>5 DEF Full
  <2>3. read[c] \in Nat
      BY RowType DEF Polite, Lives
  <2> QED BY <2>1, <2>2, <2>3
<1>11. /\ \A k \in 1 .. n : sendBuf'[s][k] = data[k]
       /\ \A t \in Slots : t # s => sendBuf'[t] = sendBuf[t]
  <2>1. sendBuf[s] \in Seq(Byte)
      BY DEF TypeOK
  <2>2. \A k \in 1 .. n : Overlay(data, sendBuf[s])[k] = data[k]
    <3>1. \A k \in 1 .. Len(data) : Overlay(data, sendBuf[s])[k] = data[k]
        BY <2>1, OverlayType
    <3> QED BY <1>7, <3>1
  <2> QED BY <1>9, <2>2 DEF TypeOK
<1>12. Untouched(d)'
  <2>1. CASE d = c
    <3>1. sq'[c] = <<op>>
        BY <1>9, <1>10 DEF TypeOK
    <3>2. Len(<<op>>) = 1 /\ <<op>>[1] = op
        OBVIOUS
    <3>3. op.s = s /\ op.data = data /\ Len(op.data) = n
        BY <1>7, <1>8
    <3> QED BY <1>11, <2>1, <3>1, <3>2, <3>3 DEF Untouched
  <2>2. CASE d # c
    <3>1. sq'[d] = sq[d]
        BY <1>9, <2>2 DEF TypeOK
    <3>2. \A i \in 1 .. Len(sq[d]) : sq[d][i].s \in Slots /\ sq[d][i].s # s
      <4>1. Row(d)
          BY DEF Polite, Lives
      <4>2. \A i \in 1 .. Len(sq[d]) : sq[d][i].s \in Slots /\ slot[sq[d][i].s] = d
          BY <4>1, SendsType DEF Row
      <4> QED BY <1>5, <2>2, <4>2
    <3>3. \A i \in 1 .. Len(sq[d]) : sendBuf'[sq[d][i].s] = sendBuf[sq[d][i].s]
        BY <1>11, <3>2
    <3>4. Untouched(d)
        BY DEF Echoed
    <3> QED BY <3>1, <3>3, <3>4 DEF Untouched
  <2> QED BY <2>1, <2>2
<1> QED
    BY <1>2, <1>12 DEF Echoed

LEMMA EchoStep ==
    ASSUME Burst <= 1, TypeOK, Shape, Polite, ~ Rude, \A c \in Conns : Echoed(c), [Next]_vars,
           NEW d \in Conns
    PROVE  Echoed(d)'
<1>1. CASE \E c \in Conns : Write(c)
    BY <1>1, WriteEcho
<1>2. CASE \E c \in Conns : SendDone(c)
    BY <1>2, SendDoneEcho
<1>3. CASE \E w \in Workers : SendMsg(w)
    BY <1>3, SendMsgEcho
<1>4. CASE UNCHANGED <<sent, out, sq, sendBuf>>
    BY <1>4, EchoKept
<1>5. \/ \E c \in Conns : Write(c) \/ SendDone(c)
      \/ \E w \in Workers : SendMsg(w)
      \/ UNCHANGED <<sent, out, sq, sendBuf>>
  <2>1. CASE \E c \in Conns : Client(c)
      BY <2>1 DEF Client, Connect, Fin, Reset, ServerState, kernelVars, slotVars
  <2>2. CASE \E c \in Conns : Kernel(c)
      BY <2>2, NoAbort DEF Kernel, RecvData, RecvEnd, clientVars, slotVars
  <2>3. CASE \E w \in Workers : Work(w)
      BY <2>3 DEF Work, Dequeue, Handle, BindRecv, HangUp, ClearSlot, WorkerExit, clientVars,
                  kernelVars, slotVars
  <2>4. CASE Accepter
      BY <2>4 DEF Accepter, FindSlot, AcceptFails, PostFirst, Accept, clientVars, kernelVars, slotVars
  <2>5. CASE Owner
      BY <2>5 DEF Owner, StopWorkers, StopAccepter, Destroyed, clientVars, kernelVars, slotVars
  <2>6. CASE UNCHANGED vars
      BY <2>6 DEF vars, clientVars, kernelVars, slotVars
  <2> QED BY <2>1, <2>2, <2>3, <2>4, <2>5, <2>6 DEF Next
<1> QED
    BY <1>1, <1>2, <1>3, <1>4, <1>5

\* Every client gets back what it sent, in order, and nothing of another's,
\* when it waits for the echo of each message before it sends the next, as the
\* repository's console client does (Echo_client_win.cpp, line 59).  Without
\* that it is false: ioport_echo is a run with Burst = 2.
THEOREM EchoesRight == ASSUME Burst <= 1 PROVE Spec => []EchoFaithful
<1>1. Init => EInv
  <2> SUFFICES ASSUME Init, NEW c \in Conns PROVE Echoed(c)
      BY DEF EInv
  <2>1. sent[c] = 0 /\ out[c] = <<>> /\ sq[c] = <<>>
      BY DEF Init
  <2> QED BY <2>1 DEF Echoed, Untouched
<1>2. IInv /\ EInv /\ [Next]_vars => EInv'
    BY RudeStays, EchoStep DEF IInv, EInv
<1>3. IInv /\ EInv => EchoFaithful
  <2> SUFFICES ASSUME TypeOK, Polite, NEW c \in Conns, Echoed(c)
               PROVE  out[c] = Stream(c, 0, Len(out[c])) /\ Len(out[c]) <= sent[c]
      BY DEF IInv, EInv, EchoFaithful
  <2>1. Row(c) /\ RowEnd(c) <= read[c] /\ read[c] <= sent[c]
      BY DEF Polite, Lives
  <2>2. PICK m \in Nat : m = Len(out[c])
      BY <2>1, RowType
  <2>3. m <= sent[c]
    <3>1. CASE sq[c] = <<>>
      <4>1. RowEnd(c) = m /\ read[c] \in Nat /\ sent[c] \in Nat
          BY <2>1, <2>2, <3>1, RowType DEF RowEnd
      <4> QED BY <2>1, <4>1
    <3>2. CASE sq[c] # <<>>
      <4>1. m < sent[c] /\ sent[c] \in Nat
          BY <2>1, <2>2, <3>2, NothingPending, RowType
      <4> QED BY <4>1
    <3> QED BY <3>1, <3>2
  <2>4. out[c] = Stream(c, 0, m)
    <3>1. out[c] \in Seq(Byte) /\ Len(out[c]) = m
        BY <2>2 DEF TypeOK
    <3>2. out[c] = [k \in 1 .. m |-> out[c][k]]
        BY <3>1
    <3>3. \A k \in 1 .. m : out[c][k] = <<c, k>> /\ 0 + k = k
        BY <2>2 DEF Echoed
    <3>4. Stream(c, 0, m) = [k \in 1 .. m |-> <<c, k>>]
      <4>1. m - 0 = m /\ \A k \in 1 .. m : 0 + k = k
          OBVIOUS
      <4> QED BY <4>1 DEF Stream
    <3> QED BY <3>2, <3>3, <3>4
  <2> QED BY <2>2, <2>3, <2>4
<1> QED
    BY <1>1, <1>2, <1>3, Invariance, PTL DEF Spec
=============================================================================
